-------------------------- MODULE PluginLoads_proofs --------------------------
(***************************************************************************)
(* What runs in the page, the session it belongs to, and the flags, for any *)
(* plugins, needs, passes, requests and histories.                         *)
(*                                                                         *)
(* Formed has the shape of the state and what each task carries at each of  *)
(* its steps; everything else rests on it.  Every step then is one of a few *)
(* to the loads (LoadSteps): it leaves them, ends one, marks one or posts   *)
(* the code of one.  That is enough for the sessions (LoadOwed) and for     *)
(* what runs (Ghosts): a load that runs, that is on its way or that a task  *)
(* is about to post is named by the manager, or by what will end it.  The   *)
(* flags are the last part: why a plugin is off (Faults), and what is left  *)
(* to a plugin its user turned off (UserOff).                              *)
(***************************************************************************)
EXTENDS PluginLoads, FiniteSetTheorems, TLAPS

(* The steps of a load pass, an enable, a disable and a restart. *)
PassSteps    == {"idle", "collect", "look", "mark", "prepare", "recheck", "flag", "reconcile", "settle"}
EnableSteps  == {"idle", "epoch", "mark", "prepare", "recheck", "flag", "revert", "over"}
DisableSteps == {"idle", "look", "end", "over"}
RestartSteps == {"idle", "check", "old", "epoch", "mark", "prepare", "recheck", "again", "off", "over"}
Steps        == PassSteps \cup EnableSteps \cup DisableSteps \cup RestartSteps

(* The steps of a task. *)
Fits(t, s) ==
    /\ t \in Passes => s \in PassSteps
    /\ t = "enable" => s \in EnableSteps
    /\ t = "disable" => s \in DisableSteps
    /\ t = "restart" => s \in RestartSteps

(* How a request of the page stands; what the manager keeps of a load; what a task carries. *)
Hows  == {"unasked", "refused", "parked", "ended", "pass"}
Loads == [id : Nat, ready : BOOLEAN]
Slots == [plugin : Plugins \cup {None}, id : Nat, epoch : 0..MaxEpoch, todo : SUBSET Plugins,
          left : SUBSET Plugins, names : SUBSET Plugins, failed : SUBSET Plugins,
          sent : SUBSET (Plugins \X Nat \X {"ack"}), helper : BOOLEAN, moved : BOOLEAN]

(* The state under the lock, the tasks, the page and what is posted to it, and the rest. *)
AppShape ==
    app \in [epoch : 0..MaxEpoch, token : 0..MaxEpoch \cup {None}, gate : BOOLEAN,
             waiters : SUBSET Asks, inFlight : 0..MaxEpoch \cup {None}, load : [Plugins -> Loads]]

TaskShape ==
    /\ at \in [Jobs -> Steps] /\ \A t \in Jobs : Fits(t, at[t])
    /\ job \in [Jobs -> Slots]

PageShape ==
    /\ mail \subseteq [what : {"code", "unload"}, plugin : Plugins, id : Nat]
    /\ page \in [Plugins -> [seen : Nat, runs : Nat]]
    /\ acks \subseteq Plugins \X Nat
    /\ watched \subseteq Plugins \X Nat \X {"ack", "off"}
    /\ born \in Seq(0..MaxEpoch)
    /\ reloaded \in BOOLEAN /\ strays \subseteq Plugins \X Nat

RestShape ==
    /\ world \in Worlds
    /\ minting \subseteq 0..MaxEpoch /\ timer \in {"off", "armed", "drain", "spent"}
    /\ refresh \in [at : {"due", "asked", "drain", "done"}, epoch : 0..MaxEpoch]
    /\ ui \in {"idle", "request"} /\ on \subseteq Plugins
    /\ why \in [Plugins -> {"none", "user", "revert", "idle", "failed", "source"}]
    /\ replies \in [Asks -> [how : Hows, asked : 0..MaxEpoch, pass : 0..MaxEpoch]]
    /\ overtaken \subseteq Plugins

(* Everything has its shape. *)
Shape == AppShape /\ TaskShape /\ PageShape /\ RestShape

(* The other tasks stay where they are. *)
Others(t) == \A u \in Jobs \ {t} : at'[u] = at[u] /\ job'[u] = job[u]

(* Task t goes on to s, with r. *)
Puts(t, s, r) == at'[t] = s /\ job'[t] = r /\ Others(t)

(* A task goes on to s with the record r. *)
LEMMA Putting ==
    ASSUME TaskShape, NEW t \in Jobs, NEW s \in Steps, Fits(t, s), Go(t, s),
           NEW r \in Slots, job' = [job EXCEPT ![t] = r]
    PROVE  TaskShape' /\ Puts(t, s, r)
  BY DEF TaskShape, Puts, Others, Go, Fits

(* A task goes on to s with the record it has. *)
LEMMA Going ==
    ASSUME TaskShape, NEW t \in Jobs, NEW s \in Steps, Fits(t, s), Go(t, s), UNCHANGED job
    PROVE  TaskShape' /\ Puts(t, s, job[t])
  BY DEF TaskShape, Puts, Others, Go, Fits

(* The record of a task that is done is one. *)
LEMMA BlankFits == Blank \in Slots
  BY PluginLoadsAssumption DEF Blank, Slots

(* A task that is done puts its record away. *)
LEMMA Ending ==
    ASSUME TaskShape, NEW t \in Jobs, NEW s \in {"idle", "over"}, Fits(t, s), Go(t, s),
           job' = [job EXCEPT ![t] = Blank]
    PROVE  TaskShape' /\ Puts(t, s, Blank)
<1>1. s \in Steps
  BY DEF Steps, PassSteps, EnableSteps, DisableSteps, RestartSteps
<1> QED
  BY <1>1, BlankFits, Putting, Zenon

(* undo_injection. *)
Undone(p, i) ==
    /\ app'.epoch = app.epoch /\ app'.token = app.token /\ app'.gate = app.gate
    /\ app'.waiters = app.waiters /\ app'.inFlight = app.inFlight
    /\ \A q \in Plugins : app'.load[q] = IF q = p /\ app.load[p].id = i THEN Gone ELSE app.load[q]
    /\ mail' = mail \cup {Unload(p, i)}

(* A load that was retired has no id. *)
LEMMA GoneFits == Gone \in Loads /\ Gone.id = 0
  BY DEF Gone, Loads

(* An undo retires the load it names, when that is the current one, and posts its unload. *)
LEMMA Undoing ==
    ASSUME AppShape, NEW p \in Plugins, NEW i \in Nat, Undo(p, i)
    PROVE  AppShape' /\ Undone(p, i)
<1> DEFINE l == Retired(app.load, p, i)
<1>1. l \in [Plugins -> Loads]
  BY GoneFits DEF Retired, AppShape
<1>2. \A q \in Plugins : l[q] = IF q = p /\ app.load[p].id = i THEN Gone ELSE app.load[q]
  BY DEF Retired, AppShape
<1>3. app' = [app EXCEPT !.load = l] /\ mail' = mail \cup {Unload(p, i)}
  BY DEF Undo
<1> HIDE DEF l
<1>4. AppShape'
  BY <1>1, <1>3 DEF AppShape
<1>5. /\ app'.epoch = app.epoch /\ app'.token = app.token /\ app'.gate = app.gate
      /\ app'.waiters = app.waiters /\ app'.inFlight = app.inFlight /\ app'.load = l
  BY <1>3 DEF AppShape
<1> QED
  BY <1>2, <1>3, <1>4, <1>5 DEF Undone

(* The steps at which a task has its plugin in hand, and those at which it has marked it. *)
HasPlugin == {"mark", "prepare", "recheck", "flag", "again", "revert", "off", "check", "old", "epoch", "end"}
Marked    == {"prepare", "recheck", "flag", "again"}

(* The record a task may have at s: its plugin, the load it marked, under the session it is of. *)
Bears(t, s, r) ==
    /\ s \in HasPlugin \/ (t = "disable" /\ s = "look") => r.plugin \in Plugins
    /\ s \in Marked => r.id \in 1..Len(born) /\ born[r.id] = r.epoch
    /\ t = "disable" /\ s = "end" => r.id \in 1..Len(born)
    /\ t = "restart" /\ s = "epoch" => r.id \in 1..Len(born)
    /\ r.epoch =< app.epoch
    /\ t \in Passes /\ s = "idle" => r = Blank

(* Each task bears what its step says. *)
Carried(t) == Bears(t, at[t], job[t])

Carries == \A t \in Jobs : Carried(t)

(* A record for the plugin, the load and the session. *)
Names(r, p, i, e) == r.plugin = p /\ r.id = i /\ r.epoch = e

(* What a pass has found stays. *)
Keeps(r, q) ==
    /\ r.todo = q.todo /\ r.left = q.left /\ r.names = q.names
    /\ r.failed = q.failed /\ r.sent = q.sent
    /\ r.helper = q.helper /\ r.moved = q.moved

(* Task t goes on to s, for the plugin, the load and the session. *)
Became(t, s, p, i, e) == at'[t] = s /\ Names(job'[t], p, i, e) /\ Others(t)

(* The record and the step of a task are of its kind. *)
LEMMA JobFits ==
    ASSUME Shape, NEW t \in Jobs
    PROVE  job[t] \in Slots /\ at[t] \in Steps /\ Fits(t, at[t])
  BY DEF Shape, TaskShape

(* A task is a pass or a call, never both. *)
LEMMA JobsAre ==
    /\ \A t \in Jobs : t \in Passes \/ t = "enable" \/ t = "disable" \/ t = "restart"
    /\ "enable" \notin Passes /\ "disable" \notin Passes /\ "restart" \notin Passes
  BY PluginLoadsAssumption DEF Jobs

(* The records a task goes on with. *)
LEMMA WithPlugin ==
    ASSUME NEW q \in Slots, NEW p \in Plugins \cup {None}
    PROVE  LET r == [q EXCEPT !.plugin = p] IN r \in Slots /\ Names(r, p, q.id, q.epoch) /\ Keeps(r, q)
<1> DEFINE r == [q EXCEPT !.plugin = p]
<1>1. r \in Slots /\ Names(r, p, q.id, q.epoch)
  BY DEF Slots, Names
<1>2. Keeps(r, q)
  BY DEF Slots, Keeps
<1> QED
  BY <1>1, <1>2

(* A task goes on with the id of the load it marked. *)
LEMMA WithId ==
    ASSUME NEW q \in Slots, NEW i \in Nat
    PROVE  LET r == [q EXCEPT !.id = i] IN r \in Slots /\ Names(r, q.plugin, i, q.epoch) /\ Keeps(r, q)
<1> DEFINE r == [q EXCEPT !.id = i]
<1>1. r \in Slots /\ Names(r, q.plugin, i, q.epoch)
  BY DEF Slots, Names
<1>2. Keeps(r, q)
  BY DEF Slots, Keeps
<1> QED
  BY <1>1, <1>2

(* A task goes on under the session it read. *)
LEMMA WithEpoch ==
    ASSUME NEW q \in Slots, NEW e \in 0..MaxEpoch
    PROVE  LET r == [q EXCEPT !.epoch = e] IN r \in Slots /\ Names(r, q.plugin, q.id, e) /\ Keeps(r, q)
<1> DEFINE r == [q EXCEPT !.epoch = e]
<1>1. r \in Slots /\ Names(r, q.plugin, q.id, e)
  BY DEF Slots, Names
<1>2. Keeps(r, q)
  BY DEF Slots, Keeps
<1> QED
  BY <1>1, <1>2

(* mark_load_started. *)
LEMMA MarkTask ==
    ASSUME Shape, Carries, NEW t \in Jobs, Mark(t)
    PROVE  /\ TaskShape' /\ job[t].plugin \in Plugins
           /\ Became(t, "prepare", job[t].plugin, Len(born) + 1, job[t].epoch)
           /\ Keeps(job'[t], job[t])
<1>1. job[t].plugin \in Plugins
  BY DEF Carries, Carried, Bears, Mark, HasPlugin
<1> DEFINE n == Len(born) + 1
           r == [job[t] EXCEPT !.id = n]
<1>2. n \in Nat
  BY DEF Shape, PageShape
<1>3. Go(t, "prepare") /\ at[t] = "mark"
  BY DEF Mark
<1>4. r \in Slots /\ Names(r, job[t].plugin, n, job[t].epoch) /\ Keeps(r, job[t])
  BY <1>2, JobFits, WithId
<1>5. job' = [job EXCEPT ![t] = r]
  BY DEF Mark, Shape, TaskShape
<1> HIDE DEF r
<1>6. Fits(t, "prepare") /\ "prepare" \in Steps
  BY <1>3, JobFits DEF Fits, PassSteps, EnableSteps, DisableSteps, RestartSteps, Steps
<1>7. TaskShape' /\ Puts(t, "prepare", r)
  BY <1>3, <1>4, <1>5, <1>6, Putting, Zenon DEF Shape
<1> QED
  BY <1>1, <1>4, <1>7 DEF Puts, Became, n

(* dispatch_plugin_load begins a pass with nothing in hand. *)
LEMMA Dispatching ==
    ASSUME Shape, NEW t \in Passes, NEW e \in 0..MaxEpoch, Dispatch(t, e)
    PROVE  /\ TaskShape' /\ at'[t] = "collect" /\ Others(t)
           /\ Names(job'[t], None, 0, e) /\ Keeps(job'[t], Blank)
<1> DEFINE r == [Blank EXCEPT !.epoch = e]
<1>1. r \in Slots /\ Names(r, Blank.plugin, Blank.id, e) /\ Keeps(r, Blank)
  BY BlankFits, WithEpoch
<1>2. Blank.plugin = None /\ Blank.id = 0
  BY DEF Blank
<1>3. job' = [job EXCEPT ![t] = r] /\ Go(t, "collect")
  BY DEF Dispatch
<1> HIDE DEF r
<1>4. Fits(t, "collect") /\ "collect" \in Steps /\ t \in Jobs
  BY JobsAre DEF Fits, PassSteps, Steps, Jobs
<1>5. TaskShape' /\ Puts(t, "collect", r)
  BY <1>1, <1>3, <1>4, Putting, Zenon DEF Shape
<1> QED
  BY <1>1, <1>2, <1>5 DEF Puts

(* What the failure of an injection leaves its task. *)
FailedTo(t, how) ==
    \/ /\ t \in Passes /\ how = "source" /\ at'[t] = "look"
       /\ Names(job'[t], None, job[t].id, job[t].epoch)
       /\ Keeps(job'[t], [job[t] EXCEPT !.failed = @ \cup {job[t].plugin}])
    \/ /\ t \in Passes /\ how = "helper" /\ at'[t] = "look"
       /\ Names(job'[t], None, job[t].id, job[t].epoch)
       /\ Keeps(job'[t], [job[t] EXCEPT !.helper = TRUE])
    \/ t \in Passes /\ how = "session" /\ at'[t] = "settle" /\ job'[t] = job[t]
    \/ t = "enable" /\ at'[t] = "revert" /\ job'[t] = job[t]
    \/ t = "restart" /\ how = "source" /\ at'[t] = "off" /\ job'[t] = job[t]
    \/ t = "restart" /\ how # "source" /\ at'[t] = "over" /\ job'[t] = Blank

(* A pass goes on from a plugin that failed. *)
LEMMA WithFailed ==
    ASSUME NEW q \in Slots, NEW p \in Plugins
    PROVE  LET r == [q EXCEPT !.failed = @ \cup {p}, !.plugin = None]
           IN  /\ r \in Slots /\ Names(r, None, q.id, q.epoch)
               /\ Keeps(r, [q EXCEPT !.failed = @ \cup {p}])
<1> DEFINE r == [q EXCEPT !.failed = @ \cup {p}, !.plugin = None]
<1>1. r \in Slots /\ Names(r, None, q.id, q.epoch)
  BY DEF Slots, Names
<1>2. Keeps(r, [q EXCEPT !.failed = @ \cup {p}])
  BY DEF Slots, Keeps
<1> QED
  BY <1>1, <1>2

(* A pass goes on from a helper that could not run. *)
LEMMA WithHelper ==
    ASSUME NEW q \in Slots
    PROVE  LET r == [q EXCEPT !.helper = TRUE, !.plugin = None]
           IN  /\ r \in Slots /\ Names(r, None, q.id, q.epoch)
               /\ Keeps(r, [q EXCEPT !.helper = TRUE])
<1> DEFINE r == [q EXCEPT !.helper = TRUE, !.plugin = None]
<1>1. r \in Slots /\ Names(r, None, q.id, q.epoch)
  BY DEF Slots, Names
<1>2. Keeps(r, [q EXCEPT !.helper = TRUE])
  BY DEF Slots, Keeps
<1> QED
  BY <1>1, <1>2

(* A failed injection leaves its task as pass_duty and the calls have it. *)
LEMMA FailedTask ==
    ASSUME Shape, Carries, NEW t \in Jobs, at[t] \in Injecting,
           NEW how \in {"source", "helper", "session"}, Failed(t, how)
    PROVE  TaskShape' /\ Others(t) /\ FailedTo(t, how)
<1>1. job[t].plugin \in Plugins
  BY DEF Carries, Carried, Bears, Injecting, HasPlugin
<1>2. t \in Passes \/ t = "enable" \/ t = "restart"
  BY JobFits, JobsAre DEF Fits, DisableSteps, Injecting
<1>3. CASE t \in Passes /\ how = "source"
  <2> DEFINE r == [job[t] EXCEPT !.failed = @ \cup {job[t].plugin}, !.plugin = None]
  <2>1. /\ r \in Slots /\ Names(r, None, job[t].id, job[t].epoch)
        /\ Keeps(r, [job[t] EXCEPT !.failed = @ \cup {job[t].plugin}])
    BY <1>1, JobFits, WithFailed
  <2>2. job' = [job EXCEPT ![t] = r] /\ Go(t, "look")
    BY <1>3 DEF Failed, PassOwes, Shape, TaskShape
  <2> HIDE DEF r
  <2>3. Fits(t, "look") /\ "look" \in Steps
    BY <1>3, JobsAre DEF Fits, PassSteps, Steps
  <2>4. TaskShape' /\ Puts(t, "look", r)
    BY <2>1, <2>2, <2>3, Putting, Zenon DEF Shape
  <2> QED
    BY <1>3, <2>1, <2>4 DEF Puts, FailedTo
<1>4. CASE t \in Passes /\ how = "helper"
  <2> DEFINE r == [job[t] EXCEPT !.helper = TRUE, !.plugin = None]
  <2>1. /\ r \in Slots /\ Names(r, None, job[t].id, job[t].epoch)
        /\ Keeps(r, [job[t] EXCEPT !.helper = TRUE])
    BY JobFits, WithHelper
  <2>2. job' = [job EXCEPT ![t] = r] /\ Go(t, "look")
    BY <1>4 DEF Failed, PassOwes, Shape, TaskShape
  <2> HIDE DEF r
  <2>3. Fits(t, "look") /\ "look" \in Steps
    BY <1>4, JobsAre DEF Fits, PassSteps, Steps
  <2>4. TaskShape' /\ Puts(t, "look", r)
    BY <2>1, <2>2, <2>3, Putting, Zenon DEF Shape
  <2> QED
    BY <1>4, <2>1, <2>4 DEF Puts, FailedTo
<1>5. CASE t \in Passes /\ how = "session"
  <2>1. Go(t, "settle") /\ UNCHANGED job
    BY <1>5 DEF Failed, PassOwes
  <2>2. Fits(t, "settle") /\ "settle" \in Steps
    BY <1>5, JobsAre DEF Fits, PassSteps, Steps
  <2> QED
    BY <1>5, <2>1, <2>2, Going DEF Shape, Puts, FailedTo
<1>6. CASE t = "enable"
  <2>1. Go(t, "revert") /\ UNCHANGED job
    BY <1>6, JobsAre DEF Failed
  <2>2. Fits(t, "revert") /\ "revert" \in Steps
    BY <1>6, JobsAre DEF Fits, EnableSteps, Steps
  <2> QED
    BY <1>6, <2>1, <2>2, Going DEF Shape, Puts, FailedTo
<1>7. CASE t = "restart" /\ how = "source"
  <2>1. Go(t, "off") /\ UNCHANGED job
    BY <1>7, JobsAre DEF Failed
  <2>2. Fits(t, "off") /\ "off" \in Steps
    BY <1>7, JobsAre DEF Fits, RestartSteps, Steps
  <2> QED
    BY <1>7, <2>1, <2>2, Going DEF Shape, Puts, FailedTo
<1>8. CASE t = "restart" /\ how # "source"
  <2>1. Go(t, "over") /\ job' = [job EXCEPT ![t] = Blank]
    BY <1>8, JobsAre DEF Failed, Over
  <2>2. Fits(t, "over")
    BY <1>8, JobsAre DEF Fits, RestartSteps
  <2> QED
    BY <1>8, <2>1, <2>2, Ending DEF Shape, Puts, FailedTo
<1> QED
  BY <1>2, <1>3, <1>4, <1>5, <1>6, <1>7, <1>8

(* A task that leaves its record alone goes on to a step of its kind. *)
LEMMA Stepping ==
    ASSUME Shape, NEW t \in Jobs, NEW s, Fits(t, s), s \in Steps, Go(t, s), UNCHANGED job
    PROVE  TaskShape' /\ at'[t] = s /\ job'[t] = job[t] /\ Others(t)
  BY Going DEF Shape, Puts

(* A call is over, or a pass at rest. *)
LEMMA Resting ==
    ASSUME Shape, NEW t \in Jobs, NEW s, s \in {"idle", "over"}, Fits(t, s), Go(t, s),
           job' = [job EXCEPT ![t] = Blank]
    PROVE  TaskShape' /\ at'[t] = s /\ job'[t] = Blank /\ Others(t)
  BY Ending DEF Shape, Puts

-----------------------------------------------------------------------------
(* The enable. *)
LEMMA EnableTask ==
    ASSUME Shape, "enable" \in Calls, Enable
    PROVE  \E p \in Plugins :
              /\ Needs[p] \subseteq on /\ on' = on \cup {p}
              /\ TaskShape' /\ Keeps(job'["enable"], job["enable"])
              /\ Became("enable", "epoch", p, job["enable"].id, job["enable"].epoch)
<1> DEFINE t == "enable"
<1>1. PICK p \in Plugins : /\ Needs[p] \subseteq on /\ on' = on \cup {p}
                           /\ job' = [job EXCEPT ![t].plugin = p]
  BY DEF Enable
<1> DEFINE r == [job[t] EXCEPT !.plugin = p]
<1>2. r \in Slots /\ Names(r, p, job[t].id, job[t].epoch) /\ Keeps(r, job[t])
  BY JobFits, WithPlugin DEF Jobs
<1>3. job' = [job EXCEPT ![t] = r] /\ Go(t, "epoch")
  BY <1>1 DEF Enable, Shape, TaskShape
<1> HIDE DEF r
<1>4. Fits(t, "epoch") /\ "epoch" \in Steps /\ t \in Jobs
  BY JobsAre DEF Fits, EnableSteps, Steps, Jobs
<1>5. TaskShape' /\ Puts(t, "epoch", r)
  BY <1>2, <1>3, <1>4, Putting, Zenon DEF Shape
<1> QED
  BY <1>1, <1>2, <1>5 DEF Puts, Became

(* The enable reads the session it injects under. *)
LEMMA EnableReadsTask ==
    ASSUME Shape, "enable" \in Calls, EnableReadsSession
    PROVE  /\ TaskShape' /\ Keeps(job'["enable"], job["enable"])
           /\ Became("enable", "mark", job["enable"].plugin, job["enable"].id, app.epoch)
<1> DEFINE t == "enable"
           r == [job[t] EXCEPT !.epoch = app.epoch]
<1>1. app.epoch \in 0..MaxEpoch
  BY DEF Shape, AppShape
<1>2. r \in Slots /\ Names(r, job[t].plugin, job[t].id, app.epoch) /\ Keeps(r, job[t])
  BY <1>1, JobFits, WithEpoch DEF Jobs
<1>3. job' = [job EXCEPT ![t] = r] /\ Go(t, "mark")
  BY DEF EnableReadsSession, Shape, TaskShape
<1> HIDE DEF r
<1>4. Fits(t, "mark") /\ "mark" \in Steps /\ t \in Jobs
  BY JobsAre DEF Fits, EnableSteps, Steps, Jobs
<1>5. TaskShape' /\ Puts(t, "mark", r)
  BY <1>2, <1>3, <1>4, Putting, Zenon DEF Shape
<1> QED
  BY <1>2, <1>5 DEF Puts, Became

(* The enable is over, or its injection is taken back. *)
LEMMA EnableFlagsTask ==
    ASSUME Shape, Carries, "enable" \in Calls, EnableFlags
    PROVE  /\ TaskShape' /\ Others("enable") /\ job["enable"].plugin \in Plugins
           /\ \/ /\ at'["enable"] = "over" /\ job'["enable"] = Blank /\ UNCHANGED <<app, mail>>
                 /\ Watch({<<job["enable"].plugin, job["enable"].id, "ack">>})
              \/ /\ at'["enable"] = "revert" /\ job'["enable"] = job["enable"]
                 /\ Undo(job["enable"].plugin, job["enable"].id)
                 /\ UNCHANGED watched /\ May("unsaved")
<1> DEFINE t == "enable"
<1>1. t \in Jobs /\ Fits(t, "over") /\ Fits(t, "revert") /\ "revert" \in Steps
  BY JobsAre DEF Fits, EnableSteps, Steps, Jobs
<1>2. job[t].plugin \in Plugins
  BY <1>1 DEF Carries, Carried, Bears, EnableFlags, HasPlugin
<1>3. CASE Over(t) /\ UNCHANGED <<app, mail>> /\ Watch({<<job[t].plugin, job[t].id, "ack">>})
  BY <1>1, <1>2, <1>3, Resting DEF Over
<1>4. CASE May("unsaved") /\ Go(t, "revert") /\ Undo(job[t].plugin, job[t].id)
             /\ UNCHANGED <<watched, job>>
  BY <1>1, <1>2, <1>4, Stepping
<1> QED
  BY <1>3, <1>4 DEF EnableFlags

(* The enable that failed turns its flag off again and is over. *)
LEMMA RevertTask ==
    ASSUME Shape, Carries, "enable" \in Calls, Revert
    PROVE  /\ TaskShape' /\ Others("enable") /\ job["enable"].plugin \in Plugins
           /\ at'["enable"] = "over" /\ job'["enable"] = Blank
<1>1. "enable" \in Jobs /\ Fits("enable", "over")
  BY JobsAre DEF Fits, EnableSteps, Jobs
<1>2. job["enable"].plugin \in Plugins
  BY <1>1 DEF Carries, Carried, Bears, Revert, HasPlugin
<1> QED
  BY <1>1, <1>2, Resting DEF Revert, Over

(* The disable. *)
LEMMA DisableTask ==
    ASSUME Shape, "disable" \in Calls, Disable
    PROVE  \E p \in on :
              /\ p \in Plugins /\ TurnOff({p}, "user")
              /\ TaskShape' /\ Keeps(job'["disable"], job["disable"])
              /\ Became("disable", "look", p, job["disable"].id, job["disable"].epoch)
<1> DEFINE t == "disable"
<1>1. PICK p \in on : p \in Plugins /\ TurnOff({p}, "user") /\ job' = [job EXCEPT ![t].plugin = p]
  BY DEF Disable, Shape, RestShape
<1> DEFINE r == [job[t] EXCEPT !.plugin = p]
<1>2. r \in Slots /\ Names(r, p, job[t].id, job[t].epoch) /\ Keeps(r, job[t])
  BY <1>1, JobFits, WithPlugin DEF Jobs
<1>3. job' = [job EXCEPT ![t] = r] /\ Go(t, "look")
  BY <1>1 DEF Disable, Shape, TaskShape
<1> HIDE DEF r
<1>4. Fits(t, "look") /\ "look" \in Steps /\ t \in Jobs
  BY JobsAre DEF Fits, DisableSteps, Steps, Jobs
<1>5. TaskShape' /\ Puts(t, "look", r)
  BY <1>2, <1>3, <1>4, Putting, Zenon DEF Shape
<1> QED
  BY <1>1, <1>2, <1>5 DEF Puts, Became

(* The disable has a load to end, or is over. *)
LEMMA DisableLooksTask ==
    ASSUME Shape, Carries, "disable" \in Calls, DisableLooks
    PROVE  LET p == job["disable"].plugin IN
           /\ TaskShape' /\ Others("disable") /\ p \in Plugins
           /\ \/ app.load[p].id = 0 /\ at'["disable"] = "over" /\ job'["disable"] = Blank
              \/ /\ app.load[p].id # 0
                 /\ Became("disable", "end", p, app.load[p].id, job["disable"].epoch)
                 /\ Keeps(job'["disable"], job["disable"])
<1> DEFINE t == "disable"
           p == job[t].plugin
<1>1. t \in Jobs /\ Fits(t, "over") /\ Fits(t, "end") /\ "end" \in Steps
  BY JobsAre DEF Fits, DisableSteps, Steps, Jobs
<1>2. p \in Plugins
  BY <1>1 DEF Carries, Carried, Bears, DisableLooks
<1>3. CASE app.load[p].id = 0
  BY <1>1, <1>2, <1>3, Resting DEF Over, DisableLooks
<1>4. CASE app.load[p].id # 0
  <2> DEFINE r == [job[t] EXCEPT !.id = app.load[p].id]
  <2>1. app.load[p].id \in Nat
    BY <1>2 DEF Shape, AppShape, Loads
  <2>2. r \in Slots /\ Names(r, p, app.load[p].id, job[t].epoch) /\ Keeps(r, job[t])
    BY <1>1, <2>1, JobFits, WithId
  <2>3. job' = [job EXCEPT ![t] = r] /\ Go(t, "end")
    BY <1>4 DEF DisableLooks, Shape, TaskShape
  <2> HIDE DEF r
  <2>4. TaskShape' /\ Puts(t, "end", r)
    BY <1>1, <2>2, <2>3, Putting, Zenon DEF Shape
  <2> QED
    BY <1>2, <1>4, <2>2, <2>4 DEF Puts, Became
<1> QED
  BY <1>3, <1>4

(* The disable ends the load it found. *)
LEMMA DisableEndsTask ==
    ASSUME Shape, Carries, "disable" \in Calls, DisableEnds
    PROVE  /\ TaskShape' /\ Others("disable") /\ job["disable"].plugin \in Plugins
           /\ job["disable"].id \in Nat /\ job["disable"].id \in 1..Len(born)
           /\ at'["disable"] = "over" /\ job'["disable"] = Blank
<1>1. "disable" \in Jobs /\ Fits("disable", "over")
  BY JobsAre DEF Fits, DisableSteps, Jobs
<1>2. job["disable"].plugin \in Plugins /\ job["disable"].id \in 1..Len(born)
  BY <1>1 DEF Carries, Carried, Bears, DisableEnds, HasPlugin
<1>3. job["disable"].id \in Nat
  BY <1>1, JobFits DEF Slots
<1>4. TaskShape' /\ at'["disable"] = "over" /\ job'["disable"] = Blank /\ Others("disable")
  BY <1>1, Resting DEF DisableEnds, Over
<1> QED
  BY <1>2, <1>3, <1>4

(* The restart. *)
LEMMA RestartTask ==
    ASSUME Shape, "restart" \in Calls, Restart
    PROVE  \E p \in Plugins :
              /\ TaskShape' /\ Keeps(job'["restart"], job["restart"])
              /\ Became("restart", "check", p, job["restart"].id, job["restart"].epoch)
<1> DEFINE t == "restart"
<1>1. PICK p \in Plugins : job' = [job EXCEPT ![t].plugin = p]
  BY DEF Restart
<1> DEFINE r == [job[t] EXCEPT !.plugin = p]
<1>2. r \in Slots /\ Names(r, p, job[t].id, job[t].epoch) /\ Keeps(r, job[t])
  BY <1>1, JobFits, WithPlugin DEF Jobs
<1>3. job' = [job EXCEPT ![t] = r] /\ Go(t, "check")
  BY <1>1 DEF Restart, Shape, TaskShape
<1> HIDE DEF r
<1>4. Fits(t, "check") /\ "check" \in Steps /\ t \in Jobs
  BY JobsAre DEF Fits, RestartSteps, Steps, Jobs
<1>5. TaskShape' /\ Puts(t, "check", r)
  BY <1>2, <1>3, <1>4, Putting, Zenon DEF Shape
<1> QED
  BY <1>1, <1>2, <1>5 DEF Puts, Became

(* The restart goes on with a plugin that is on and that no other needs. *)
LEMMA RestartChecksTask ==
    ASSUME Shape, "restart" \in Calls, RestartChecks
    PROVE  /\ TaskShape' /\ Others("restart")
           /\ \/ at'["restart"] = "old" /\ job'["restart"] = job["restart"]
              \/ at'["restart"] = "over" /\ job'["restart"] = Blank
<1> DEFINE t == "restart"
<1>1. t \in Jobs /\ Fits(t, "over") /\ Fits(t, "old") /\ "old" \in Steps
  BY JobsAre DEF Fits, RestartSteps, Steps, Jobs
<1>2. CASE Go(t, "old") /\ UNCHANGED job
  BY <1>1, <1>2, Stepping
<1>3. CASE Over(t)
  BY <1>1, <1>3, Resting DEF Over
<1> QED
  BY <1>2, <1>3 DEF RestartChecks

(* The restart has the load it replaces, or is over. *)
LEMMA RestartFindsTask ==
    ASSUME Shape, Carries, "restart" \in Calls, RestartFinds
    PROVE  LET p == job["restart"].plugin IN
           /\ TaskShape' /\ Others("restart") /\ p \in Plugins
           /\ \/ at'["restart"] = "over" /\ job'["restart"] = Blank
              \/ /\ app.load[p].id # 0
                 /\ Became("restart", "epoch", p, app.load[p].id, job["restart"].epoch)
                 /\ Keeps(job'["restart"], job["restart"])
<1> DEFINE t == "restart"
           p == job[t].plugin
<1>1. t \in Jobs /\ Fits(t, "over") /\ Fits(t, "epoch") /\ "epoch" \in Steps
  BY JobsAre DEF Fits, RestartSteps, Steps, Jobs
<1>2. p \in Plugins
  BY <1>1 DEF Carries, Carried, Bears, RestartFinds, HasPlugin
<1>3. CASE app.load[p].id = 0
  BY <1>1, <1>2, <1>3, Resting DEF Over, RestartFinds
<1>4. CASE app.load[p].id # 0
  <2> DEFINE r == [job[t] EXCEPT !.id = app.load[p].id]
  <2>1. app.load[p].id \in Nat
    BY <1>2 DEF Shape, AppShape, Loads
  <2>2. r \in Slots /\ Names(r, p, app.load[p].id, job[t].epoch) /\ Keeps(r, job[t])
    BY <1>1, <2>1, JobFits, WithId
  <2>3. job' = [job EXCEPT ![t] = r] /\ Go(t, "epoch")
    BY <1>4 DEF RestartFinds, Shape, TaskShape
  <2> HIDE DEF r
  <2>4. TaskShape' /\ Puts(t, "epoch", r)
    BY <1>1, <2>2, <2>3, Putting, Zenon DEF Shape
  <2> QED
    BY <1>2, <1>4, <2>2, <2>4 DEF Puts, Became
<1> QED
  BY <1>3, <1>4

(* The restart ends that load, under the session it reads. *)
LEMMA RestartEndsTask ==
    ASSUME Shape, Carries, "restart" \in Calls, RestartEnds
    PROVE  /\ TaskShape' /\ Keeps(job'["restart"], job["restart"])
           /\ job["restart"].plugin \in Plugins /\ job["restart"].id \in 1..Len(born)
           /\ job["restart"].id \in Nat
           /\ Became("restart", "mark", job["restart"].plugin, job["restart"].id, app.epoch)
<1> DEFINE t == "restart"
           r == [job[t] EXCEPT !.epoch = app.epoch]
<1>1. app.epoch \in 0..MaxEpoch
  BY DEF Shape, AppShape
<1>2. r \in Slots /\ Names(r, job[t].plugin, job[t].id, app.epoch) /\ Keeps(r, job[t])
  BY <1>1, JobFits, WithEpoch DEF Jobs
<1>3. job' = [job EXCEPT ![t] = r] /\ Go(t, "mark")
  BY DEF RestartEnds, Shape, TaskShape
<1> HIDE DEF r
<1>4. Fits(t, "mark") /\ "mark" \in Steps /\ t \in Jobs
  BY JobsAre DEF Fits, RestartSteps, Steps, Jobs
<1>5. TaskShape' /\ Puts(t, "mark", r)
  BY <1>2, <1>3, <1>4, Putting, Zenon DEF Shape
<1>6. job[t].plugin \in Plugins /\ job[t].id \in 1..Len(born)
  BY <1>4 DEF Carries, Carried, Bears, RestartEnds, HasPlugin
<1> QED
  BY <1>2, <1>5, <1>6 DEF Puts, Became

(* The restart is over, its load watched or undone. *)
LEMMA RestartAgainTask ==
    ASSUME Shape, Carries, "restart" \in Calls, RestartAgain
    PROVE  /\ TaskShape' /\ Others("restart") /\ job["restart"].plugin \in Plugins
           /\ job["restart"].id \in 1..Len(born) /\ job["restart"].id \in Nat
           /\ at'["restart"] = "over" /\ job'["restart"] = Blank
<1>1. "restart" \in Jobs /\ Fits("restart", "over")
  BY JobsAre DEF Fits, RestartSteps, Jobs
<1>2. job["restart"].plugin \in Plugins /\ job["restart"].id \in 1..Len(born)
  BY <1>1 DEF Carries, Carried, Bears, RestartAgain, HasPlugin, Marked
<1>3. job["restart"].id \in Nat
  BY <1>1, JobFits DEF Slots
<1>4. TaskShape' /\ at'["restart"] = "over" /\ job'["restart"] = Blank /\ Others("restart")
  BY <1>1, Resting DEF RestartAgain, Over
<1> QED
  BY <1>2, <1>3, <1>4

(* The restart whose source failed is over. *)
LEMMA RestartOffTask ==
    ASSUME Shape, Carries, "restart" \in Calls, RestartOff
    PROVE  /\ TaskShape' /\ Others("restart") /\ job["restart"].plugin \in Plugins
           /\ at'["restart"] = "over" /\ job'["restart"] = Blank
<1>1. "restart" \in Jobs /\ Fits("restart", "over")
  BY JobsAre DEF Fits, RestartSteps, Jobs
<1>2. job["restart"].plugin \in Plugins
  BY <1>1 DEF Carries, Carried, Bears, RestartOff, HasPlugin
<1> QED
  BY <1>1, <1>2, Resting DEF RestartOff, Over

-----------------------------------------------------------------------------
(* A load pass. *)
LEMMA PassFits ==
    ASSUME NEW t \in Passes, NEW s \in PassSteps
    PROVE  t \in Jobs /\ Fits(t, s) /\ s \in Steps
  BY JobsAre DEF Fits, Jobs, Steps

(* What a pass carries is of its plugins. *)
LEMMA PassOf ==
    ASSUME Shape, NEW t \in Passes
    PROVE  /\ job[t] \in Slots /\ at[t] \in PassSteps
           /\ job[t].todo \subseteq Plugins /\ job[t].left \subseteq Plugins
           /\ job[t].names \subseteq Plugins /\ job[t].failed \subseteq Plugins
           /\ job[t].sent \subseteq Plugins \X Nat \X {"ack"}
<1>1. job[t] \in Slots /\ at[t] \in PassSteps
  BY JobFits DEF Fits, Jobs
<1> QED
  BY <1>1 DEF Slots

(* A pass reads the plugins that are on. *)
LEMMA CollectTask ==
    ASSUME Shape, NEW t \in Passes, Collect(t)
    PROVE  /\ TaskShape' /\ Became(t, "look", job[t].plugin, job[t].id, job[t].epoch)
           /\ Keeps(job'[t], [job[t] EXCEPT !.todo = on])
<1> DEFINE r == [job[t] EXCEPT !.todo = on]
<1>1. on \subseteq Plugins
  BY DEF Shape, RestShape
<1>2. r \in Slots /\ Names(r, job[t].plugin, job[t].id, job[t].epoch)
  BY <1>1, PassOf DEF Slots, Names
<1>3. job' = [job EXCEPT ![t] = r] /\ Go(t, "look")
  BY DEF Collect, Shape, TaskShape
<1>4. Keeps(r, r)
  BY DEF Keeps
<1> HIDE DEF r
<1>5. "look" \in PassSteps
  BY DEF PassSteps
<1>6. TaskShape' /\ Puts(t, "look", r)
  BY <1>2, <1>3, <1>5, PassFits, Putting, Zenon DEF Shape
<1> QED
  BY <1>2, <1>4, <1>6 DEF Puts, Became, r

(* A pass stops with its session, takes a plugin up, or leaves it for another round. *)
LEMMA LookTask ==
    ASSUME Shape, NEW t \in Passes, Look(t)
    PROVE  /\ TaskShape' /\ Others(t) /\ job'[t].id = job[t].id /\ job'[t].epoch = job[t].epoch
           /\ \/ ~SameSession(job[t].epoch) /\ at'[t] = "settle" /\ job'[t] = job[t]
              \/ \E p \in job[t].todo :
                    /\ Needs[p] \subseteq job[t].names /\ at'[t] = "mark" /\ job'[t].plugin = p
                    /\ Keeps(job'[t], [job[t] EXCEPT !.todo = @ \ {p}])
              \/ \E p \in job[t].todo :
                    /\ ~(Needs[p] \subseteq job[t].names) /\ at'[t] = "look"
                    /\ job'[t].plugin = job[t].plugin
                    /\ Keeps(job'[t], [job[t] EXCEPT !.left = @ \cup {p}, !.todo = @ \ {p}])
<1> USE DEF Names
<1>1. "settle" \in PassSteps /\ "mark" \in PassSteps /\ "look" \in PassSteps /\ t \in Jobs
  BY PassFits DEF PassSteps, Jobs
<1>2. CASE ~SameSession(job[t].epoch)
  <2>1. Go(t, "settle") /\ UNCHANGED job
    BY <1>2 DEF Look
  <2>2. Fits(t, "settle") /\ "settle" \in Steps
    BY <1>1, PassFits
  <2>3. TaskShape' /\ at'[t] = "settle" /\ job'[t] = job[t] /\ Others(t)
    BY <1>1, <2>1, <2>2, Stepping
  <2> QED
    BY <1>2, <2>3
<1>3. CASE SameSession(job[t].epoch)
  <2>1. PICK p \in job[t].todo :
          IF Needs[p] \subseteq job[t].names
          THEN Go(t, "mark") /\ job' = [job EXCEPT ![t].plugin = p, ![t].todo = @ \ {p}]
          ELSE job' = [job EXCEPT ![t].left = @ \cup {p}, ![t].todo = @ \ {p}] /\ UNCHANGED at
    BY <1>3 DEF Look
  <2>2. p \in Plugins
    BY PassOf
  <2>3. CASE Needs[p] \subseteq job[t].names
    <3> DEFINE r == [job[t] EXCEPT !.plugin = p, !.todo = @ \ {p}]
    <3>1. r \in Slots /\ Names(r, p, job[t].id, job[t].epoch)
      BY <2>2, PassOf DEF Slots
    <3>2. Keeps(r, [job[t] EXCEPT !.todo = @ \ {p}])
      BY <2>2, PassOf DEF Slots, Keeps
    <3>3. job' = [job EXCEPT ![t] = r] /\ Go(t, "mark")
      BY <2>1, <2>3 DEF Shape, TaskShape
    <3> HIDE DEF r
    <3>4. TaskShape' /\ Puts(t, "mark", r)
      BY <1>1, <3>1, <3>3, PassFits, Putting, Zenon DEF Shape
    <3> QED
      BY <2>3, <3>1, <3>2, <3>4 DEF Puts
  <2>4. CASE ~(Needs[p] \subseteq job[t].names)
    <3> DEFINE r == [job[t] EXCEPT !.left = @ \cup {p}, !.todo = @ \ {p}]
    <3>1. r \in Slots /\ Names(r, job[t].plugin, job[t].id, job[t].epoch)
      BY <2>2, PassOf DEF Slots
    <3>2. Keeps(r, r)
      BY DEF Keeps
    <3>3. job' = [job EXCEPT ![t] = r] /\ UNCHANGED at
      BY <2>1, <2>4 DEF Shape, TaskShape
    <3>4. at[t] = "look"
      BY DEF Look
    <3>5. Go(t, "look")
      BY <3>3, <3>4 DEF Go, Shape, TaskShape
    <3> HIDE DEF r
    <3>6. TaskShape' /\ Puts(t, "look", r)
      BY <1>1, <3>1, <3>3, <3>5, PassFits, Putting, Zenon DEF Shape
    <3> QED
      BY <2>4, <3>1, <3>2, <3>6 DEF Puts, r
  <2> QED
    BY <2>3, <2>4
<1> QED
  BY <1>2, <1>3

(* A pass counts the plugin as loaded, or as failed. *)
LEMMA PassFlagsTask ==
    ASSUME Shape, Carries, NEW t \in Passes, PassFlags(t)
    PROVE  LET p == job[t].plugin
               i == job[t].id IN
           /\ TaskShape' /\ p \in Plugins /\ i \in Nat /\ i \in 1..Len(born)
           /\ Became(t, "look", None, i, job[t].epoch)
           /\ \/ /\ UNCHANGED <<app, mail>>
                 /\ Keeps(job'[t], [job[t] EXCEPT !.sent = @ \cup {<<p, i, "ack">>},
                                                  !.names = @ \cup {p}, !.moved = TRUE])
              \/ /\ May("unsaved") /\ Undo(p, i)
                 /\ Keeps(job'[t], [job[t] EXCEPT !.failed = @ \cup {p}])
<1> DEFINE p == job[t].plugin
           i == job[t].id
<1>1. "look" \in PassSteps /\ t \in Jobs /\ at[t] = "flag"
  BY DEF PassSteps, Jobs, PassFlags
<1>2. p \in Plugins /\ i \in 1..Len(born)
  BY <1>1 DEF Carries, Carried, Bears, HasPlugin, Marked
<1>3. i \in Nat
  BY PassOf DEF Slots
<1>4. CASE /\ UNCHANGED <<app, mail>>
           /\ job' = [job EXCEPT ![t].sent = @ \cup {<<p, i, "ack">>}, ![t].names = @ \cup {p},
                                 ![t].moved = TRUE, ![t].plugin = None]
  <2> DEFINE sent  == job[t].sent \cup {<<p, i, "ack">>}
             names == job[t].names \cup {p}
             r     == [job[t] EXCEPT !.sent = sent, !.names = names, !.moved = TRUE, !.plugin = None]
  <2>1. sent \subseteq Plugins \X Nat \X {"ack"} /\ names \subseteq Plugins
    BY <1>2, <1>3, PassOf
  <2>2. Keeps(r, [job[t] EXCEPT !.sent = @ \cup {<<p, i, "ack">>}, !.names = @ \cup {p},
                                !.moved = TRUE])
    BY <1>2, PassOf DEF Slots, Keeps
  <2>3. job' = [job EXCEPT ![t] = r] /\ Go(t, "look")
    BY <1>4 DEF PassFlags, Shape, TaskShape
  <2> HIDE DEF sent, names
  <2>5. r \in Slots /\ Names(r, None, i, job[t].epoch)
    BY <2>1, PassOf DEF Slots, Names
  <2> HIDE DEF r
  <2>4. TaskShape' /\ Puts(t, "look", r)
    BY <1>1, <2>5, <2>3, PassFits, Putting, Zenon DEF Shape
  <2> QED
    BY <1>2, <1>3, <1>4, <2>5, <2>2, <2>4 DEF Puts, Became
<1>5. CASE /\ May("unsaved") /\ Undo(p, i)
           /\ job' = [job EXCEPT ![t].failed = @ \cup {p}, ![t].plugin = None]
  <2> DEFINE r == [job[t] EXCEPT !.failed = @ \cup {p}, !.plugin = None]
  <2>1. r \in Slots /\ Names(r, None, i, job[t].epoch) /\ Keeps(r, [job[t] EXCEPT !.failed = @ \cup {p}])
    BY <1>2, PassOf, WithFailed
  <2>3. job' = [job EXCEPT ![t] = r] /\ Go(t, "look")
    BY <1>5 DEF PassFlags, Shape, TaskShape
  <2> HIDE DEF r
  <2>4. TaskShape' /\ Puts(t, "look", r)
    BY <1>1, <2>1, <2>3, PassFits, Putting, Zenon DEF Shape
  <2> QED
    BY <1>2, <1>3, <1>5, <2>1, <2>4 DEF Puts, Became
<1> QED
  BY <1>4, <1>5 DEF PassFlags

(* A pass begins another round with what it left, or holds that as failed. *)
LEMMA RoundEndsTask ==
    ASSUME Shape, NEW t \in Passes, RoundEnds(t)
    PROVE  /\ TaskShape' /\ Others(t) /\ Names(job'[t], job[t].plugin, job[t].id, job[t].epoch)
           /\ at[t] = "look" /\ job[t].todo = {}
           /\ \/ /\ at'[t] = "look"
                 /\ Keeps(job'[t], [job[t] EXCEPT !.todo = job[t].left, !.left = {}, !.moved = FALSE])
              \/ /\ ~(job[t].moved /\ job[t].left # {}) /\ at'[t] = "reconcile"
                 /\ Keeps(job'[t], [job[t] EXCEPT
                        !.failed = @ \cup (IF job[t].helper THEN {} ELSE job[t].left), !.left = {}])
<1>1. "look" \in PassSteps /\ "reconcile" \in PassSteps /\ t \in Jobs /\ at[t] = "look" /\ job[t].todo = {}
  BY DEF PassSteps, Jobs, RoundEnds
<1>2. CASE job[t].moved /\ job[t].left # {}
  <2> DEFINE r == [job[t] EXCEPT !.todo = job[t].left, !.left = {}, !.moved = FALSE]
  <2>1. r \in Slots /\ Names(r, job[t].plugin, job[t].id, job[t].epoch)
    BY PassOf DEF Slots, Names
  <2>2. Keeps(r, r)
    BY DEF Keeps
  <2>3. job' = [job EXCEPT ![t] = r] /\ UNCHANGED at
    BY <1>2 DEF RoundEnds, Shape, TaskShape
  <2>4. Go(t, "look")
    BY <1>1, <2>3 DEF Go, Shape, TaskShape
  <2> HIDE DEF r
  <2>5. TaskShape' /\ Puts(t, "look", r)
    BY <1>1, <2>1, <2>3, <2>4, PassFits, Putting, Zenon DEF Shape
  <2> QED
    BY <1>1, <2>1, <2>2, <2>5 DEF Puts, r
<1>3. CASE ~(job[t].moved /\ job[t].left # {})
  <2> DEFINE f == job[t].failed \cup (IF job[t].helper THEN {} ELSE job[t].left)
             r == [job[t] EXCEPT !.failed = f, !.left = {}]
  <2>0. f \subseteq Plugins
    BY PassOf
  <2>1. job' = [job EXCEPT ![t] = r] /\ Go(t, "reconcile")
    BY <1>3 DEF RoundEnds, Shape, TaskShape
  <2>2. Keeps(r, [job[t] EXCEPT
                        !.failed = @ \cup (IF job[t].helper THEN {} ELSE job[t].left), !.left = {}])
    BY PassOf DEF Slots, Keeps
  <2> HIDE DEF f
  <2>3. r \in Slots /\ Names(r, job[t].plugin, job[t].id, job[t].epoch)
    BY <2>0, PassOf DEF Slots, Names
  <2> HIDE DEF r
  <2>4. TaskShape' /\ Puts(t, "reconcile", r)
    BY <1>1, <2>1, <2>3, PassFits, Putting, Zenon DEF Shape
  <2> QED
    BY <1>1, <1>3, <2>2, <2>3, <2>4 DEF Puts
<1> QED
  BY <1>2, <1>3

(* A pass has turned off what failed. *)
LEMMA ReconcileTask ==
    ASSUME Shape, NEW t \in Passes, Reconcile(t)
    PROVE  TaskShape' /\ at'[t] = "settle" /\ job'[t] = job[t] /\ Others(t)
<1>1. Fits(t, "settle") /\ "settle" \in Steps /\ t \in Jobs
  BY PassFits DEF PassSteps
<1> QED
  BY <1>1, Stepping DEF Reconcile

(* A pass is at rest, or begins again for the requests that are left. *)
LEMMA SettleTask ==
    ASSUME Shape, NEW t \in Passes, Settle(t)
    PROVE  LET rest == app.waiters \ Answers(t) IN
           /\ TaskShape' /\ Others(t)
           /\ \/ rest = {} /\ at'[t] = "idle" /\ job'[t] = Blank
              \/ \E r \in rest :
                    /\ at'[t] = "collect" /\ Names(job'[t], None, 0, replies[r].asked)
                    /\ Keeps(job'[t], Blank)
                    /\ app' = [app EXCEPT !.waiters = rest, !.inFlight = replies[r].asked]
<1> DEFINE rest == app.waiters \ Answers(t)
           c == CHOOSE r \in rest : TRUE
<1>1. t \in Jobs /\ Fits(t, "idle")
  BY PassFits DEF PassSteps
<1>2. CASE rest = {}
  BY <1>1, <1>2, Resting DEF Settle
<1>3. CASE rest # {}
  <2>1. c \in rest
    BY <1>3
  <2>2. c \in Asks
    BY <2>1 DEF Shape, AppShape
  <2>3. replies[c].asked \in 0..MaxEpoch
    BY <2>2 DEF Shape, RestShape
  <2>4. Dispatch(t, replies[c].asked) /\ app' = [app EXCEPT !.waiters = rest, !.inFlight = replies[c].asked]
    BY <1>3 DEF Settle
  <2> HIDE DEF c
  <2>5. /\ TaskShape' /\ at'[t] = "collect" /\ Others(t)
        /\ Names(job'[t], None, 0, replies[c].asked) /\ Keeps(job'[t], Blank)
    BY <2>3, <2>4, Dispatching
  <2> QED
    BY <2>1, <2>4, <2>5
<1> QED
  BY <1>2, <1>3

(* inject_plugin, once the load is marked. *)
LEMMA PrepareTask ==
    ASSUME Shape, Carries, NEW t \in Jobs, Prepare(t)
    PROVE  LET p == job[t].plugin
               i == job[t].id IN
           /\ TaskShape' /\ Others(t) /\ p \in Plugins /\ i \in Nat /\ i \in 1..Len(born)
           /\ \/ at'[t] = "recheck" /\ job'[t] = job[t] /\ mail' = mail \cup {Code(p, i)} /\ UNCHANGED app
              \/ p \in world.broken /\ Undo(p, i) /\ FailedTo(t, "source")
              \/ May("helper") /\ Undo(p, i) /\ FailedTo(t, "helper")
<1> DEFINE p == job[t].plugin
           i == job[t].id
<1>1. at[t] = "prepare" /\ at[t] \in Injecting
  BY DEF Prepare, Injecting
<1>2. p \in Plugins /\ i \in 1..Len(born)
  BY <1>1 DEF Carries, Carried, Bears, HasPlugin, Marked
<1>3. i \in Nat
  BY JobFits DEF Slots
<1>4. CASE Go(t, "recheck") /\ mail' = mail \cup {Code(p, i)} /\ UNCHANGED <<app, job>>
  <2>1. Fits(t, "recheck") /\ "recheck" \in Steps
    BY <1>1, JobFits DEF Fits, PassSteps, EnableSteps, DisableSteps, RestartSteps, Steps
  <2> QED
    BY <1>2, <1>3, <1>4, <2>1, Stepping
<1>5. CASE p \in world.broken /\ Undo(p, i) /\ Failed(t, "source")
  BY <1>1, <1>2, <1>3, <1>5, FailedTask
<1>6. CASE May("helper") /\ Undo(p, i) /\ Failed(t, "helper")
  BY <1>1, <1>2, <1>3, <1>6, FailedTask
<1> QED
  BY <1>4, <1>5, <1>6 DEF Prepare

(* Once the code is posted the task goes on, or undoes it for the session that ended. *)
LEMMA RecheckTask ==
    ASSUME Shape, Carries, NEW t \in Jobs, Recheck(t)
    PROVE  LET p == job[t].plugin
               i == job[t].id IN
           /\ TaskShape' /\ Others(t) /\ p \in Plugins /\ i \in Nat /\ i \in 1..Len(born)
           /\ \/ /\ SameSession(job[t].epoch) /\ UNCHANGED <<app, mail>> /\ job'[t] = job[t]
                 /\ at'[t] = IF t = "restart" THEN "again" ELSE "flag"
              \/ ~SameSession(job[t].epoch) /\ Undo(p, i) /\ FailedTo(t, "session")
<1> DEFINE p == job[t].plugin
           i == job[t].id
<1>1. at[t] = "recheck" /\ at[t] \in Injecting
  BY DEF Recheck, Injecting
<1>2. p \in Plugins /\ i \in 1..Len(born)
  BY <1>1 DEF Carries, Carried, Bears, HasPlugin, Marked
<1>3. i \in Nat
  BY JobFits DEF Slots
<1>4. CASE StillCurrent(t)
  <2> DEFINE s == IF t = "restart" THEN "again" ELSE "flag"
  <2>1. Go(t, s) /\ UNCHANGED <<job, app, mail>>
    BY <1>4 DEF Recheck
  <2>2. Fits(t, s) /\ s \in Steps
    BY <1>1, JobFits, JobsAre DEF Fits, PassSteps, EnableSteps, DisableSteps, RestartSteps, Steps
  <2> HIDE DEF s
  <2>3. TaskShape' /\ at'[t] = s /\ job'[t] = job[t] /\ Others(t)
    BY <2>1, <2>2, Stepping
  <2> QED
    BY <1>2, <1>3, <1>4, <2>1, <2>3 DEF StillCurrent, s
<1>5. CASE ~StillCurrent(t)
  BY <1>1, <1>2, <1>3, <1>5, FailedTask DEF Recheck, StillCurrent
<1> QED
  BY <1>4, <1>5

-----------------------------------------------------------------------------
(* Ids are those of loads that were marked. *)
Bounds ==
    /\ \A p \in Plugins : /\ app.load[p].id =< Len(born)
                          /\ page[p].seen =< Len(born) /\ page[p].runs =< Len(born)
    /\ \A m \in mail : m.id \in 1..Len(born)
    /\ \A k \in acks : k[2] \in 1..Len(born)
    /\ \A w \in watched : w[2] \in 1..Len(born)
    /\ \A t \in Jobs : \A w \in job[t].sent : w[2] \in 1..Len(born)

(* One pass at most is not at rest; the slot names its session; a parked request is of the *)
(* session in progress, and an answered one was answered by its own.                       *)
OnePass ==
    /\ \A t, u \in Passes : at[t] # "idle" /\ at[u] # "idle" => t = u
    /\ \A t \in Passes : at[t] # "idle" => app.inFlight = job[t].epoch
    /\ app.inFlight # None <=> \E t \in Passes : at[t] # "idle"
    /\ \A r \in Asks : replies[r].how = "pass" => replies[r].pass = replies[r].asked
    /\ \A r \in app.waiters : replies[r].asked = app.epoch

(* The invariant the others rest on. *)
Formed == Shape /\ Carries /\ Bounds /\ OnePass

(* What an unload names. *)
LEMMA UnloadIs ==
    ASSUME NEW p \in Plugins, NEW i \in Nat
    PROVE  /\ Unload(p, i) \in [what : {"code", "unload"}, plugin : Plugins, id : Nat]
           /\ Unload(p, i).id = i /\ Unload(p, i).plugin = p /\ Unload(p, i).what = "unload"
  BY DEF Unload

(* What code names. *)
LEMMA CodeIs ==
    ASSUME NEW p \in Plugins, NEW i \in Nat
    PROVE  /\ Code(p, i) \in [what : {"code", "unload"}, plugin : Plugins, id : Nat]
           /\ Code(p, i).id = i /\ Code(p, i).plugin = p /\ Code(p, i).what = "code"
  BY DEF Code

(* A task goes on, and ends a load or leaves every one alone. *)
TaskGoesOn(t) ==
    /\ TaskShape' /\ Others(t) /\ Bears(t, at'[t], job'[t])
    /\ t \in Passes => at[t] # "idle" /\ at'[t] # "idle" /\ job'[t].epoch = job[t].epoch
    /\ \A w \in job'[t].sent : w \in job[t].sent \/ w[2] \in 1..Len(born)
    /\ \A w \in watched' :
          w \in watched \/ (w \in Plugins \X Nat \X {"ack", "off"} /\ w[2] \in 1..Len(born))
    /\ \/ UNCHANGED <<app, mail>>
       \/ \E p \in Plugins, i \in Nat : i \in 1..Len(born) /\ Undo(p, i)
       \/ \E p \in Plugins, i \in Nat : i \in 1..Len(born) /\ mail' = mail \cup {Code(p, i)} /\ UNCHANGED app
    /\ on' \subseteq Plugins /\ overtaken' \subseteq Plugins
    /\ why' \in [Plugins -> {"none", "user", "revert", "idle", "failed", "source"}]
    /\ UNCHANGED <<world, auth, ui, page, acks, reloaded, strays, born, replies>>

(* A step of a task that goes on leaves everything formed. *)
LEMMA TaskStep ==
    ASSUME Formed, NEW t \in Jobs, TaskGoesOn(t)
    PROVE  Formed'
<1> USE DEF Formed
<1>1. /\ AppShape' /\ mail' \subseteq [what : {"code", "unload"}, plugin : Plugins, id : Nat]
      /\ \A m \in mail' : m.id \in 1..Len(born)
      /\ \A p \in Plugins : app'.load[p].id =< Len(born)
      /\ app'.epoch = app.epoch /\ app'.inFlight = app.inFlight /\ app'.waiters = app.waiters
  <2>1. CASE UNCHANGED <<app, mail>>
    BY <2>1 DEF Shape, AppShape, PageShape, Bounds
  <2>2. ASSUME NEW p \in Plugins, NEW i \in Nat, i \in 1..Len(born), Undo(p, i) PROVE <1>1
    <3>1. AppShape' /\ Undone(p, i)
      BY <2>2, Undoing DEF Shape
    <3>2. \A q \in Plugins : app'.load[q].id =< Len(born)
      <4>1. Len(born) \in Nat
        BY DEF Shape, PageShape
      <4>2. \A q \in Plugins : app'.load[q].id \in {0, app.load[q].id}
        BY <3>1, GoneFits DEF Undone
      <4>3. \A q \in Plugins : app.load[q].id =< Len(born)
        BY DEF Bounds
      <4> HIDE DEF Formed
      <4> QED
        BY <4>1, <4>2, <4>3
    <3> QED
      BY <2>2, <3>1, <3>2, UnloadIs DEF Undone, Bounds, Shape, PageShape
  <2>3. ASSUME NEW p \in Plugins, NEW i \in Nat, i \in 1..Len(born), mail' = mail \cup {Code(p, i)},
               UNCHANGED app
        PROVE  <1>1
    BY <2>3, CodeIs DEF Bounds, Shape, AppShape, PageShape
  <2> QED
    BY <2>1, <2>2, <2>3 DEF TaskGoesOn
<1>2. PageShape' /\ RestShape' /\ TaskShape'
  <2>1. watched' \subseteq Plugins \X Nat \X {"ack", "off"}
    BY DEF TaskGoesOn, Shape, PageShape
  <2> QED
    BY <1>1, <2>1 DEF TaskGoesOn, Shape, PageShape, RestShape, auth
<1>3. Carries'
  <2>1. Carried(t)'
    BY <1>1 DEF TaskGoesOn, Carried, Bears
  <2>2. ASSUME NEW u \in Jobs, u # t PROVE Carried(u)'
    <3>1. at'[u] = at[u] /\ job'[u] = job[u] /\ born' = born
      BY <2>2 DEF TaskGoesOn, Others
    <3>2. Carried(u)
      BY DEF Carries
    <3> QED
      BY <1>1, <3>1, <3>2 DEF Carried, Bears
  <2> QED
    BY <2>1, <2>2 DEF Carries
<1>4. Bounds'
  <2>1. \A u \in Jobs : \A w \in job'[u].sent : w[2] \in 1..Len(born)
    BY DEF TaskGoesOn, Others, Bounds
  <2>2. born' = born /\ page' = page /\ acks' = acks
    BY DEF TaskGoesOn
  <2>3. \A w \in watched' : w[2] \in 1..Len(born)
    BY DEF TaskGoesOn, Bounds
  <2> QED
    BY <1>1, <2>1, <2>2, <2>3 DEF Bounds
<1>5. OnePass'
  <2>1. \A u \in Passes : /\ at'[u] = "idle" <=> at[u] = "idle"
                          /\ at[u] # "idle" => job'[u].epoch = job[u].epoch
    BY DEF TaskGoesOn, Others, Jobs
  <2>2. replies' = replies
    BY DEF TaskGoesOn
  <2> QED
    BY <1>1, <2>1, <2>2 DEF OnePass
<1> QED
  BY <1>1, <1>2, <1>3, <1>4, <1>5 DEF Shape

(* What may have turned a flag off. *)
Reasons == {"none", "user", "revert", "idle", "failed", "source"}

(* A flag is turned off for one of the reasons. *)
LEMMA TurningOff ==
    ASSUME Shape, NEW ps, NEW reason \in Reasons, TurnOff(ps, reason)
    PROVE  /\ on' \subseteq Plugins
           /\ why' \in [Plugins -> {"none", "user", "revert", "idle", "failed", "source"}]
  BY DEF Shape, RestShape, TurnOff, Reasons

(* The shape of what most tasks leave alone. *)
LEMMA Staying ==
    ASSUME Shape
    PROVE  /\ on \subseteq Plugins /\ overtaken \subseteq Plugins
           /\ why \in [Plugins -> {"none", "user", "revert", "idle", "failed", "source"}]
           /\ app.epoch \in 0..MaxEpoch
  BY DEF Shape, RestShape, AppShape

(* A record at rest, and one whose step needs little of it. *)
LEMMA BlankBears ==
    ASSUME Shape, NEW t, NEW s \in {"idle", "over"}
    PROVE  Bears(t, s, Blank) /\ Blank.sent = {}
<1>1. Blank.epoch = 0 /\ Blank.sent = {}
  BY DEF Blank
<1> QED
  BY <1>1, Staying DEF Bears, HasPlugin, Marked

(* Every step of an enable is one of a task that goes on. *)
LEMMA EnableGoesOn ==
    ASSUME Formed, "enable" \in Calls, Enabling
    PROVE  TaskGoesOn("enable")
<1> USE DEF Formed
<1> DEFINE t == "enable"
<1>1. t \notin Passes /\ Carried(t) /\ t \in Jobs
  BY JobsAre DEF Carries, Jobs
<1>2. CASE Enable
  <2>1. PICK p \in Plugins : /\ on' = on \cup {p} /\ TaskShape' /\ Keeps(job'[t], job[t])
                             /\ Became(t, "epoch", p, job[t].id, job[t].epoch)
    BY <1>2, EnableTask
  <2>2. Bears(t, at'[t], job'[t])
    BY <1>1, <2>1 DEF Carried, Bears, Became, Names, Marked
  <2> QED
    BY <1>1, <1>2, <2>1, <2>2, Staying DEF TaskGoesOn, Enable, Became, Keeps, doc, past
<1>3. CASE EnableReadsSession
  <2>1. /\ TaskShape' /\ Keeps(job'[t], job[t])
        /\ Became(t, "mark", job[t].plugin, job[t].id, app.epoch)
    BY <1>3, EnableReadsTask
  <2>2. job[t].plugin \in Plugins
    BY <1>1, <1>3 DEF Carried, Bears, EnableReadsSession, HasPlugin
  <2>3. Bears(t, at'[t], job'[t])
    BY <1>1, <2>1, <2>2, Staying DEF Bears, Became, Names, Marked
  <2> QED
    BY <1>1, <1>3, <2>1, <2>3, Staying DEF TaskGoesOn, EnableReadsSession, Became, Keeps, doc, past
<1>4. CASE EnableFlags
  <2> DEFINE p == job[t].plugin
             i == job[t].id
  <2>1. /\ TaskShape' /\ Others(t) /\ p \in Plugins
        /\ \/ /\ at'[t] = "over" /\ job'[t] = Blank /\ UNCHANGED <<app, mail>>
              /\ Watch({<<p, i, "ack">>})
           \/ at'[t] = "revert" /\ job'[t] = job[t] /\ Undo(p, i) /\ UNCHANGED watched
    BY <1>4, EnableFlagsTask
  <2>2. i \in Nat /\ i \in 1..Len(born)
    BY <1>1, <1>4, JobFits DEF Carried, Bears, EnableFlags, Marked, Slots
  <2>3. Bears(t, at'[t], job'[t])
    BY <1>1, <2>1, BlankBears DEF Carried, Bears, Marked, HasPlugin
  <2>4. \A w \in watched' :
           w \in watched \/ (w \in Plugins \X Nat \X {"ack", "off"} /\ w[2] \in 1..Len(born))
    BY <2>1, <2>2 DEF Watch
  <2>5. \A w \in job'[t].sent : w \in job[t].sent
    BY <2>1, BlankBears
  <2>6. \/ UNCHANGED <<app, mail>>
        \/ \E q \in Plugins, k \in Nat : k \in 1..Len(born) /\ Undo(q, k)
    BY <2>1, <2>2
  <2> QED
    BY <1>1, <1>4, <2>1, <2>3, <2>4, <2>5, <2>6, Staying DEF TaskGoesOn, EnableFlags, past
<1>5. CASE Revert
  <2>1. TaskShape' /\ Others(t) /\ at'[t] = "over" /\ job'[t] = Blank
    BY <1>5, RevertTask
  <2>2. /\ on' \subseteq Plugins
        /\ why' \in [Plugins -> {"none", "user", "revert", "idle", "failed", "source"}]
    BY <1>5, TurningOff DEF Revert, Reasons
  <2> QED
    BY <1>1, <1>5, <2>1, <2>2, BlankBears, Staying DEF TaskGoesOn, Revert, doc
<1> QED
  BY <1>2, <1>3, <1>4, <1>5 DEF Enabling

(* Every step of a disable is one of a task that goes on. *)
LEMMA DisableGoesOn ==
    ASSUME Formed, "disable" \in Calls, Disabling
    PROVE  TaskGoesOn("disable")
<1> USE DEF Formed
<1> DEFINE t == "disable"
<1>1. t \notin Passes /\ Carried(t) /\ t \in Jobs
  BY JobsAre DEF Carries, Jobs
<1>2. CASE Disable
  <2>1. PICK p \in on : /\ p \in Plugins /\ TurnOff({p}, "user")
                        /\ TaskShape' /\ Keeps(job'[t], job[t])
                        /\ Became(t, "look", p, job[t].id, job[t].epoch)
    BY <1>2, DisableTask
  <2>2. Bears(t, at'[t], job'[t])
    BY <1>1, <2>1 DEF Carried, Bears, Became, Names, Marked
  <2>3. /\ on' \subseteq Plugins
        /\ why' \in [Plugins -> {"none", "user", "revert", "idle", "failed", "source"}]
    BY <2>1, TurningOff DEF Reasons
  <2> QED
    BY <1>1, <1>2, <2>1, <2>2, <2>3, Staying DEF TaskGoesOn, Disable, Became, Keeps, doc
<1>3. CASE DisableLooks
  <2> DEFINE p == job[t].plugin
  <2>1. /\ TaskShape' /\ Others(t) /\ p \in Plugins
        /\ \/ at'[t] = "over" /\ job'[t] = Blank
           \/ /\ app.load[p].id # 0 /\ Keeps(job'[t], job[t])
              /\ Became(t, "end", p, app.load[p].id, job[t].epoch)
    BY <1>3, DisableLooksTask
  <2>2. app.load[p].id # 0 => app.load[p].id \in 1..Len(born)
    BY <2>1 DEF Bounds, Shape, AppShape, Loads, PageShape
  <2>3. Bears(t, at'[t], job'[t]) /\ \A w \in job'[t].sent : w \in job[t].sent
    BY <1>1, <2>1, <2>2, BlankBears DEF Carried, Bears, Marked, HasPlugin, Became, Names, Keeps
  <2>4. overtaken' \subseteq Plugins
    BY <1>3, <2>1, Staying DEF DisableLooks
  <2> QED
    BY <1>1, <1>3, <2>1, <2>3, <2>4, Staying DEF TaskGoesOn, DisableLooks, doc
<1>4. CASE DisableEnds
  <2>1. /\ TaskShape' /\ Others(t) /\ at'[t] = "over" /\ job'[t] = Blank
        /\ job[t].plugin \in Plugins /\ job[t].id \in Nat /\ job[t].id \in 1..Len(born)
    BY <1>4, DisableEndsTask
  <2>2. \E p \in Plugins, i \in Nat : i \in 1..Len(born) /\ Undo(p, i)
    BY <1>4, <2>1 DEF DisableEnds
  <2> QED
    BY <1>1, <1>4, <2>1, <2>2, BlankBears, Staying DEF TaskGoesOn, DisableEnds, past
<1> QED
  BY <1>2, <1>3, <1>4 DEF Disabling

(* Every step of a restart is one of a task that goes on. *)
LEMMA RestartGoesOn ==
    ASSUME Formed, "restart" \in Calls, Restarting
    PROVE  TaskGoesOn("restart")
<1> USE DEF Formed
<1> DEFINE t == "restart"
<1>1. t \notin Passes /\ Carried(t) /\ t \in Jobs
  BY JobsAre DEF Carries, Jobs
<1>2. CASE Restart
  <2>1. PICK p \in Plugins : /\ TaskShape' /\ Keeps(job'[t], job[t])
                             /\ Became(t, "check", p, job[t].id, job[t].epoch)
    BY <1>2, RestartTask
  <2>2. Bears(t, at'[t], job'[t])
    BY <1>1, <2>1 DEF Carried, Bears, Became, Names, Marked
  <2> QED
    BY <1>1, <1>2, <2>1, <2>2, Staying DEF TaskGoesOn, Restart, Became, Keeps, doc, past
<1>3. CASE RestartChecks
  <2>1. /\ TaskShape' /\ Others(t)
        /\ \/ at'[t] = "old" /\ job'[t] = job[t]
           \/ at'[t] = "over" /\ job'[t] = Blank
    BY <1>3, RestartChecksTask
  <2>2. at[t] = "check"
    BY <1>3 DEF RestartChecks
  <2>3. Bears(t, at'[t], job'[t]) /\ \A w \in job'[t].sent : w \in job[t].sent
    BY <1>1, <2>1, <2>2, BlankBears DEF Carried, Bears, Marked, HasPlugin
  <2> QED
    BY <1>1, <1>3, <2>1, <2>3, Staying DEF TaskGoesOn, RestartChecks, doc, past
<1>4. CASE RestartFinds
  <2> DEFINE p == job[t].plugin
  <2>1. /\ TaskShape' /\ Others(t) /\ p \in Plugins
        /\ \/ at'[t] = "over" /\ job'[t] = Blank
           \/ /\ app.load[p].id # 0 /\ Keeps(job'[t], job[t])
              /\ Became(t, "epoch", p, app.load[p].id, job[t].epoch)
    BY <1>4, RestartFindsTask
  <2>2. app.load[p].id # 0 => app.load[p].id \in 1..Len(born)
    BY <2>1 DEF Bounds, Shape, AppShape, Loads, PageShape
  <2>3. Bears(t, at'[t], job'[t]) /\ \A w \in job'[t].sent : w \in job[t].sent
    BY <1>1, <2>1, <2>2, BlankBears DEF Carried, Bears, Marked, HasPlugin, Became, Names, Keeps
  <2> QED
    BY <1>1, <1>4, <2>1, <2>3, Staying DEF TaskGoesOn, RestartFinds, doc, past
<1>5. CASE RestartEnds
  <2>1. /\ TaskShape' /\ Keeps(job'[t], job[t]) /\ Became(t, "mark", job[t].plugin, job[t].id, app.epoch)
        /\ job[t].plugin \in Plugins /\ job[t].id \in Nat /\ job[t].id \in 1..Len(born)
    BY <1>5, RestartEndsTask
  <2>2. \E p \in Plugins, i \in Nat : i \in 1..Len(born) /\ Undo(p, i)
    BY <1>5, <2>1 DEF RestartEnds
  <2>3. Bears(t, at'[t], job'[t])
    BY <1>1, <2>1, Staying DEF Bears, Became, Names, Marked
  <2> QED
    BY <1>1, <1>5, <2>1, <2>2, <2>3, Staying DEF TaskGoesOn, RestartEnds, Became, Keeps, past
<1>6. CASE RestartAgain
  <2> DEFINE p == job[t].plugin
             i == job[t].id
  <2>1. /\ TaskShape' /\ Others(t) /\ at'[t] = "over" /\ job'[t] = Blank
        /\ p \in Plugins /\ i \in Nat /\ i \in 1..Len(born)
    BY <1>6, RestartAgainTask
  <2>2. \A w \in watched' :
           w \in watched \/ (w \in Plugins \X Nat \X {"ack", "off"} /\ w[2] \in 1..Len(born))
    BY <1>6, <2>1 DEF Watch, RestartAgain
  <2>3. UNCHANGED <<app, mail>> \/ \E q \in Plugins, k \in Nat : k \in 1..Len(born) /\ Undo(q, k)
    BY <1>6, <2>1 DEF RestartAgain
  <2> QED
    BY <1>1, <1>6, <2>1, <2>2, <2>3, BlankBears, Staying DEF TaskGoesOn, RestartAgain, past
<1>7. CASE RestartOff
  <2>1. TaskShape' /\ Others(t) /\ at'[t] = "over" /\ job'[t] = Blank
    BY <1>7, RestartOffTask
  <2>2. /\ on' \subseteq Plugins
        /\ why' \in [Plugins -> {"none", "user", "revert", "idle", "failed", "source"}]
    BY <1>7, TurningOff DEF RestartOff, Reasons
  <2> QED
    BY <1>1, <1>7, <2>1, <2>2, BlankBears, Staying DEF TaskGoesOn, RestartOff, doc
<1> QED
  BY <1>2, <1>3, <1>4, <1>5, <1>6, <1>7 DEF Restarting

(* A failed injection leaves its task as it may. *)
LEMMA FailedBears ==
    ASSUME Formed, NEW t \in Jobs, at[t] \in Injecting, NEW how, FailedTo(t, how)
    PROVE  /\ Bears(t, at'[t], job'[t])
           /\ \A w \in job'[t].sent : w \in job[t].sent
           /\ t \in Passes => at[t] # "idle" /\ at'[t] # "idle" /\ job'[t].epoch = job[t].epoch
<1>1. Carried(t) /\ Shape /\ job[t] \in Slots
  BY JobFits DEF Formed, Carries
<1>2. job[t].plugin \in Plugins
  BY <1>1 DEF Carried, Bears, Injecting, HasPlugin
<1>3. at[t] # "idle"
  BY DEF Injecting
<1>4. CASE t \in Passes /\ at'[t] = "look" /\ Names(job'[t], None, job[t].id, job[t].epoch)
             /\ Keeps(job'[t], [job[t] EXCEPT !.failed = @ \cup {job[t].plugin}])
  <2>1. job'[t].sent = job[t].sent
    BY <1>1, <1>4 DEF Keeps, Slots
  <2>2. t # "disable" /\ t # "restart"
    BY <1>4, JobsAre
  <2> QED
    BY <1>1, <1>3, <1>4, <2>1, <2>2 DEF Carried, Bears, Names, Marked, HasPlugin
<1>5. CASE t \in Passes /\ at'[t] = "look" /\ Names(job'[t], None, job[t].id, job[t].epoch)
             /\ Keeps(job'[t], [job[t] EXCEPT !.helper = TRUE])
  <2>1. job'[t].sent = job[t].sent
    BY <1>1, <1>5 DEF Keeps, Slots
  <2>2. t # "disable" /\ t # "restart"
    BY <1>5, JobsAre
  <2> QED
    BY <1>1, <1>3, <1>5, <2>1, <2>2 DEF Carried, Bears, Names, Marked, HasPlugin
<1>6. CASE at'[t] \in {"settle", "revert", "off"} /\ job'[t] = job[t]
  <2>1. Bears(t, at'[t], job'[t])
    BY <1>1, <1>2, <1>6 DEF Carried, Bears, Marked
  <2> QED
    BY <1>3, <1>6, <2>1
<1>7. CASE t = "restart" /\ at'[t] = "over" /\ job'[t] = Blank
  BY <1>1, <1>7, BlankBears, JobsAre
<1> QED
  BY <1>4, <1>5, <1>6, <1>7 DEF FailedTo

(* So is the transpile, whether it posts code or undoes the load. *)
LEMMA PrepareGoesOn ==
    ASSUME Formed, NEW t \in Jobs, Prepare(t)
    PROVE  TaskGoesOn(t)
<1> USE DEF Formed
<1> DEFINE p == job[t].plugin
           i == job[t].id
<1>1. Carried(t) /\ at[t] = "prepare" /\ at[t] \in Injecting
  BY DEF Carries, Prepare, Injecting
<1>2. /\ TaskShape' /\ Others(t) /\ p \in Plugins /\ i \in Nat /\ i \in 1..Len(born)
      /\ \/ at'[t] = "recheck" /\ job'[t] = job[t] /\ mail' = mail \cup {Code(p, i)} /\ UNCHANGED app
         \/ Undo(p, i) /\ FailedTo(t, "source")
         \/ Undo(p, i) /\ FailedTo(t, "helper")
  BY PrepareTask
<1>3. CASE at'[t] = "recheck" /\ job'[t] = job[t] /\ mail' = mail \cup {Code(p, i)} /\ UNCHANGED app
  <2>1. Bears(t, at'[t], job'[t])
    BY <1>1, <1>3 DEF Carried, Bears, HasPlugin, Marked
  <2>2. \E q \in Plugins, k \in Nat : k \in 1..Len(born) /\ mail' = mail \cup {Code(q, k)} /\ UNCHANGED app
    BY <1>2, <1>3
  <2> QED
    BY <1>1, <1>2, <1>3, <2>1, <2>2, Staying DEF TaskGoesOn, Prepare, past
<1>4. ASSUME NEW how, Undo(p, i), FailedTo(t, how) PROVE TaskGoesOn(t)
  <2>1. \E q \in Plugins, k \in Nat : k \in 1..Len(born) /\ Undo(q, k)
    BY <1>2, <1>4
  <2>2. /\ Bears(t, at'[t], job'[t])
        /\ \A w \in job'[t].sent : w \in job[t].sent
        /\ t \in Passes => at[t] # "idle" /\ at'[t] # "idle" /\ job'[t].epoch = job[t].epoch
    BY <1>1, <1>4, FailedBears
  <2> QED
    BY <1>1, <1>2, <2>1, <2>2, Staying DEF TaskGoesOn, Prepare, past
<1> QED
  BY <1>2, <1>3, <1>4

(* So is the second look at the session. *)
LEMMA RecheckGoesOn ==
    ASSUME Formed, NEW t \in Jobs, Recheck(t)
    PROVE  TaskGoesOn(t)
<1> USE DEF Formed
<1> DEFINE p == job[t].plugin
           i == job[t].id
<1>1. Carried(t) /\ at[t] = "recheck" /\ at[t] \in Injecting
  BY DEF Carries, Recheck, Injecting
<1>2. /\ TaskShape' /\ Others(t) /\ p \in Plugins /\ i \in Nat /\ i \in 1..Len(born)
      /\ \/ UNCHANGED <<app, mail>> /\ job'[t] = job[t] /\ at'[t] \in {"again", "flag"}
         \/ Undo(p, i) /\ FailedTo(t, "session")
  BY RecheckTask
<1>3. CASE UNCHANGED <<app, mail>> /\ job'[t] = job[t] /\ at'[t] \in {"again", "flag"}
  <2>1. Bears(t, at'[t], job'[t])
    BY <1>1, <1>3 DEF Carried, Bears, HasPlugin, Marked
  <2> QED
    BY <1>1, <1>2, <1>3, <2>1, Staying DEF TaskGoesOn, Recheck, past
<1>4. CASE Undo(p, i) /\ FailedTo(t, "session")
  <2>1. \E q \in Plugins, k \in Nat : k \in 1..Len(born) /\ Undo(q, k)
    BY <1>2, <1>4
  <2>2. /\ Bears(t, at'[t], job'[t])
        /\ \A w \in job'[t].sent : w \in job[t].sent
        /\ t \in Passes => at[t] # "idle" /\ at'[t] # "idle" /\ job'[t].epoch = job[t].epoch
    BY <1>1, <1>4, FailedBears
  <2> QED
    BY <1>1, <1>2, <2>1, <2>2, Staying DEF TaskGoesOn, Recheck, past
<1> QED
  BY <1>2, <1>3, <1>4

(* A pass between two plugins. *)
LEMMA PassGoesOn ==
    ASSUME Formed, NEW t \in Passes, Collect(t) \/ Look(t) \/ PassFlags(t) \/ RoundEnds(t) \/ Reconcile(t)
    PROVE  TaskGoesOn(t)
<1> USE DEF Formed
<1>1. Carried(t) /\ t \in Jobs /\ job[t] \in Slots /\ t # "disable" /\ t # "restart"
  BY PassOf, JobsAre DEF Carries, Jobs
<1>2. CASE Collect(t)
  <2>1. /\ TaskShape' /\ Became(t, "look", job[t].plugin, job[t].id, job[t].epoch)
        /\ Keeps(job'[t], [job[t] EXCEPT !.todo = on])
    BY <1>2, CollectTask
  <2>2. job'[t].sent = job[t].sent
    BY <1>1, <2>1 DEF Keeps, Slots
  <2>3. Bears(t, at'[t], job'[t])
    BY <1>1, <2>1 DEF Carried, Bears, Became, Names, Marked, HasPlugin
  <2> QED
    BY <1>1, <1>2, <2>1, <2>2, <2>3, Staying DEF TaskGoesOn, Collect, Became, Names, doc, past
<1>3. CASE Look(t)
  <2>1. /\ TaskShape' /\ Others(t) /\ job'[t].id = job[t].id /\ job'[t].epoch = job[t].epoch
        /\ \/ at'[t] = "settle" /\ job'[t] = job[t]
           \/ \E p \in job[t].todo :
                 /\ at'[t] = "mark" /\ job'[t].plugin = p
                 /\ Keeps(job'[t], [job[t] EXCEPT !.todo = @ \ {p}])
           \/ \E p \in job[t].todo :
                 /\ at'[t] = "look"
                 /\ Keeps(job'[t], [job[t] EXCEPT !.left = @ \cup {p}, !.todo = @ \ {p}])
    BY <1>3, LookTask
  <2>2. job'[t].sent = job[t].sent
    BY <1>1, <2>1 DEF Keeps, Slots
  <2>3. Bears(t, at'[t], job'[t]) /\ at'[t] # "idle"
    BY <1>1, <2>1, PassOf DEF Carried, Bears, Marked, HasPlugin
  <2> QED
    BY <1>1, <1>3, <2>1, <2>2, <2>3, Staying DEF TaskGoesOn, Look, doc, past
<1>4. CASE PassFlags(t)
  <2> DEFINE p == job[t].plugin
             i == job[t].id
  <2>1. /\ TaskShape' /\ p \in Plugins /\ i \in Nat /\ i \in 1..Len(born)
        /\ Became(t, "look", None, i, job[t].epoch)
        /\ \/ /\ UNCHANGED <<app, mail>>
              /\ Keeps(job'[t], [job[t] EXCEPT !.sent = @ \cup {<<p, i, "ack">>},
                                               !.names = @ \cup {p}, !.moved = TRUE])
           \/ /\ Undo(p, i)
              /\ Keeps(job'[t], [job[t] EXCEPT !.failed = @ \cup {p}])
    BY <1>4, PassFlagsTask
  <2>2. \A w \in job'[t].sent : w \in job[t].sent \/ w[2] \in 1..Len(born)
    <3>1. job'[t].sent = job[t].sent \/ job'[t].sent = job[t].sent \cup {<<p, i, "ack">>}
      BY <1>1, <2>1 DEF Keeps, Slots
    <3> QED
      BY <2>1, <3>1
  <2>3. Bears(t, at'[t], job'[t])
    BY <1>1, <2>1 DEF Carried, Bears, Became, Names, Marked, HasPlugin
  <2>4. \/ UNCHANGED <<app, mail>>
        \/ \E q \in Plugins, k \in Nat : k \in 1..Len(born) /\ Undo(q, k)
    BY <2>1
  <2> QED
    BY <1>1, <1>4, <2>1, <2>2, <2>3, <2>4, Staying DEF TaskGoesOn, PassFlags, Became, Names, past
<1>5. CASE RoundEnds(t)
  <2>1. /\ TaskShape' /\ Others(t) /\ Names(job'[t], job[t].plugin, job[t].id, job[t].epoch)
        /\ at[t] = "look" /\ at'[t] \in {"look", "reconcile"} /\ job'[t].sent = job[t].sent
    BY <1>1, <1>5, RoundEndsTask DEF Keeps, Slots
  <2>2. Bears(t, at'[t], job'[t])
    BY <1>1, <2>1 DEF Carried, Bears, Names, Marked, HasPlugin
  <2> QED
    BY <1>1, <1>5, <2>1, <2>2, Staying DEF TaskGoesOn, RoundEnds, Names, doc, past
<1>6. CASE Reconcile(t)
  <2>1. TaskShape' /\ at'[t] = "settle" /\ job'[t] = job[t] /\ Others(t)
    BY <1>6, ReconcileTask
  <2>2. /\ on' \subseteq Plugins
        /\ why' \in [Plugins -> {"none", "user", "revert", "idle", "failed", "source"}]
    BY <1>6, TurningOff DEF Reconcile, Reasons
  <2>3. Bears(t, at'[t], job'[t])
    BY <1>1, <2>1 DEF Carried, Bears, Marked, HasPlugin
  <2>4. \A w \in watched' :
           w \in watched \/ (w \in Plugins \X Nat \X {"ack", "off"} /\ w[2] \in 1..Len(born))
    BY <1>1, <1>6, PassOf DEF Reconcile, Watch, Bounds
  <2>5. at[t] = "reconcile"
    BY <1>6 DEF Reconcile
  <2> QED
    BY <1>1, <1>6, <2>1, <2>2, <2>3, <2>4, <2>5, Staying DEF TaskGoesOn, Reconcile, doc
<1> QED
  BY <1>2, <1>3, <1>4, <1>5, <1>6

(* The history of the marks, one longer. *)
LEMMA Appending ==
    ASSUME Shape, NEW e \in 0..MaxEpoch, born' = Append(born, e)
    PROVE  /\ Len(born) \in Nat /\ Len(born)' = Len(born) + 1 /\ born' \in Seq(0..MaxEpoch)
           /\ \A k \in 1..Len(born) : born'[k] = born[k]
           /\ born'[Len(born) + 1] = e
  BY DEF Shape, PageShape

(* A mark makes the id the newest one, of the session of its task. *)
LEMMA MarkForms ==
    ASSUME Formed, NEW t \in Jobs, Mark(t)
    PROVE  /\ Formed' /\ app'.epoch = app.epoch /\ app'.token = app.token
           /\ app'.load[job[t].plugin].id = Len(born) + 1
           /\ \A q \in Plugins \ {job[t].plugin} : app'.load[q] = app.load[q]
<1> DEFINE p == job[t].plugin
           e == job[t].epoch
           n == Len(born)
           l == [app.load EXCEPT ![p] = [id |-> n + 1, ready |-> FALSE]]
<1>1. Shape /\ Carries /\ Bounds /\ OnePass
  BY DEF Formed
<1>2. /\ TaskShape' /\ p \in Plugins /\ Keeps(job'[t], job[t])
      /\ Became(t, "prepare", p, n + 1, e)
  BY <1>1, MarkTask
<1>3. e \in 0..MaxEpoch
  BY <1>1, JobFits DEF Slots
<1>4. /\ n \in Nat /\ Len(born)' = n + 1 /\ born' \in Seq(0..MaxEpoch)
      /\ \A k \in 1..n : born'[k] = born[k]
      /\ born'[n + 1] = e
  <2>1. born' = Append(born, e)
    BY DEF Mark
  <2> QED
    BY <1>1, <1>3, <2>1, Appending
<1>5. app' = [app EXCEPT !.load = l]
  BY DEF Mark
<1> HIDE DEF n
<1>6. l \in [Plugins -> Loads] /\ l[p].id = n + 1 /\ \A q \in Plugins \ {p} : l[q] = app.load[q]
  <2>1. app.load \in [Plugins -> Loads]
    BY <1>1 DEF Shape, AppShape
  <2>2. [id |-> n + 1, ready |-> FALSE] \in Loads
    BY <1>4 DEF Loads
  <2> QED
    BY <1>2, <2>1, <2>2
<1> HIDE DEF l
<1>7. /\ AppShape' /\ app'.epoch = app.epoch /\ app'.token = app.token /\ app'.inFlight = app.inFlight
      /\ app'.waiters = app.waiters /\ app'.load = l
  BY <1>1, <1>5, <1>6 DEF Shape, AppShape
<1>8. UNCHANGED <<world, auth, ui, on, watched, doc, past>>
  BY DEF Mark
<1>9. PageShape' /\ RestShape'
  BY <1>1, <1>4, <1>8 DEF Shape, PageShape, RestShape, doc, auth, past, May
<1>10. Carries'
  <2>1. Carried(t)'
    <3>1. e =< app.epoch /\ (t \in Passes => at'[t] # "idle")
      BY <1>1, <1>2 DEF Carries, Carried, Bears, Became
    <3>2. t # "disable"
      BY <1>1, JobFits DEF Mark, Fits, DisableSteps
    <3> QED
      BY <1>2, <1>4, <1>7, <3>1, <3>2 DEF Carried, Bears, Became, Names
  <2>2. ASSUME NEW u \in Jobs, u # t PROVE Carried(u)'
    <3>1. at'[u] = at[u] /\ job'[u] = job[u]
      BY <1>2, <2>2 DEF Became, Others
    <3>2. Carried(u)
      BY <1>1 DEF Carries
    <3>3. /\ at[u] \in HasPlugin \/ (u = "disable" /\ at[u] = "look") => job[u].plugin \in Plugins
          /\ job[u].epoch =< app.epoch
          /\ u \in Passes /\ at[u] = "idle" => job[u] = Blank
          /\ at[u] \in Marked \/ (u = "disable" /\ at[u] = "end") \/ (u = "restart" /\ at[u] = "epoch")
                => job[u].id \in 1..n
          /\ at[u] \in Marked => born[job[u].id] = job[u].epoch
      BY <3>2 DEF Carried, Bears, n
    <3>4. \A k \in 1..n : k \in 1..(n + 1)
      BY <1>4
    <3> QED
      BY <1>4, <1>7, <3>1, <3>3, <3>4 DEF Carried, Bears
  <2> QED
    BY <2>1, <2>2 DEF Carries
<1>11. Bounds'
  <2>1. \A u \in Jobs : job'[u].sent = job[u].sent
    BY <1>2 DEF Became, Others, Keeps
  <2>2. mail' = mail /\ page' = page /\ acks' = acks /\ watched' = watched
    BY <1>8 DEF doc
  <2>3. \A k \in 1..n : k \in 1..(n + 1)
    BY <1>4
  <2>4. /\ \A q \in Plugins : app.load[q].id =< n /\ page[q].seen =< n /\ page[q].runs =< n
        /\ \A m \in mail : m.id \in 1..n
        /\ \A k \in acks : k[2] \in 1..n
        /\ \A w \in watched : w[2] \in 1..n
        /\ \A u \in Jobs : \A w \in job[u].sent : w[2] \in 1..n
    BY <1>1 DEF Bounds, n
  <2>5. \A q \in Plugins : app.load[q].id \in Nat /\ page[q].seen \in Nat /\ page[q].runs \in Nat
    BY <1>1 DEF Shape, AppShape, PageShape, Loads
  <2>6. \A q \in Plugins : l[q].id =< n + 1 /\ page[q].seen =< n + 1 /\ page[q].runs =< n + 1
    BY <1>4, <1>6, <2>4, <2>5
  <2> QED
    BY <1>4, <1>7, <2>1, <2>2, <2>3, <2>4, <2>6 DEF Bounds
<1>12. OnePass'
  <2>1. \A u \in Passes : /\ at'[u] = "idle" <=> at[u] = "idle"
                          /\ job'[u].epoch = job[u].epoch
    BY <1>2 DEF Became, Others, Jobs, Names, Mark
  <2>2. replies' = replies
    BY <1>8 DEF past
  <2> QED
    BY <1>1, <1>7, <2>1, <2>2 DEF OnePass
<1> QED
  BY <1>2, <1>6, <1>7, <1>9, <1>10, <1>11, <1>12 DEF Formed, Shape, n

(* The tasks and the history of the marks stay. *)
LEMMA TasksStay ==
    ASSUME Formed, UNCHANGED <<at, job, born>>, app'.epoch >= app.epoch, app'.epoch \in 0..MaxEpoch
    PROVE  TaskShape' /\ Carries' /\ \A u \in Jobs : \A w \in job'[u].sent : w[2] \in 1..Len(born)'
<1>1. Shape /\ Carries /\ Bounds
  BY DEF Formed
<1>2. TaskShape'
  BY <1>1 DEF Shape, TaskShape
<1>3. ASSUME NEW u \in Jobs PROVE Carried(u)'
  <2>1. Carried(u) /\ app.epoch \in 0..MaxEpoch /\ job[u].epoch \in 0..MaxEpoch
    BY <1>1, Staying, JobFits DEF Carries, Slots
  <2>2. job[u].epoch =< app'.epoch
    BY <2>1, PluginLoadsAssumption DEF Carried, Bears
  <2> QED
    BY <2>1, <2>2 DEF Carried, Bears
<1> QED
  BY <1>1, <1>2, <1>3 DEF Carries, Bounds

(* A pass answers the requests of its session; the next one is of the session in progress. *)
LEMMA SettleForms ==
    ASSUME Formed, NEW t \in Passes, Settle(t)
    PROVE  Formed' /\ app'.epoch = app.epoch /\ app'.token = app.token /\ app'.load = app.load
<1> DEFINE rest == app.waiters \ Answers(t)
<1>1. Shape /\ Carries /\ Bounds /\ OnePass
  BY DEF Formed
<1>2. /\ TaskShape' /\ Others(t)
      /\ \/ rest = {} /\ at'[t] = "idle" /\ job'[t] = Blank
         \/ \E r \in rest :
               /\ at'[t] = "collect" /\ Names(job'[t], None, 0, replies[r].asked)
               /\ Keeps(job'[t], Blank)
               /\ app' = [app EXCEPT !.waiters = rest, !.inFlight = replies[r].asked]
  BY <1>1, SettleTask
<1>3. /\ UNCHANGED <<world, auth, ui, on, watched, doc, born, why, overtaken>> /\ at[t] = "settle"
      /\ replies' = [r \in Asks |-> IF r \in Answers(t)
                                    THEN [replies[r] EXCEPT !.how = "pass", !.pass = job[t].epoch]
                                    ELSE replies[r]]
      /\ rest = {} => app' = [app EXCEPT !.waiters = {}, !.inFlight = None]
  BY DEF Settle
<1>4. rest \subseteq app.waiters /\ app.waiters \subseteq Asks
  BY <1>1 DEF Shape, AppShape
<1>5. \A r \in rest : replies[r].asked = app.epoch /\ r \in Asks /\ r \notin Answers(t)
  BY <1>1, <1>4 DEF OnePass, Answers
<1>6. app.epoch \in 0..MaxEpoch
  BY <1>1, Staying
<1>7. /\ AppShape' /\ app'.epoch = app.epoch /\ app'.token = app.token /\ app'.load = app.load
      /\ \/ rest = {} /\ at'[t] = "idle" /\ job'[t] = Blank /\ app'.waiters = {} /\ app'.inFlight = None
         \/ /\ at'[t] = "collect" /\ Names(job'[t], None, 0, app.epoch) /\ Keeps(job'[t], Blank)
            /\ app'.waiters = rest /\ app'.inFlight = app.epoch
  <2>1. CASE rest = {}
    BY <1>1, <1>2, <1>3, <2>1 DEF Shape, AppShape
  <2>2. ASSUME NEW r \in rest, at'[t] = "collect", Names(job'[t], None, 0, replies[r].asked),
               Keeps(job'[t], Blank), app' = [app EXCEPT !.waiters = rest, !.inFlight = replies[r].asked]
        PROVE  <1>7
    <3>1. app' = [app EXCEPT !.waiters = rest, !.inFlight = app.epoch]
      BY <1>5, <2>2
    <3> QED
      BY <1>1, <1>4, <1>5, <1>6, <2>2, <3>1 DEF Shape, AppShape
  <2> QED
    BY <1>2, <2>1, <2>2
<1>8. \A r \in Asks : /\ replies'[r] \in [how : Hows, asked : 0..MaxEpoch, pass : 0..MaxEpoch]
                      /\ replies'[r].asked = replies[r].asked
                      /\ r \in Answers(t) => replies'[r].pass = replies'[r].asked
                      /\ r \notin Answers(t) => replies'[r] = replies[r]
  <2>1. job[t].epoch \in 0..MaxEpoch
    BY <1>1, PassOf DEF Slots
  <2>2. "pass" \in Hows
    BY DEF Hows
  <2>3. ASSUME NEW r \in Asks, r \in Answers(t)
        PROVE  /\ replies'[r] \in [how : Hows, asked : 0..MaxEpoch, pass : 0..MaxEpoch]
               /\ replies'[r].asked = replies[r].asked /\ replies'[r].pass = job[t].epoch
               /\ replies[r].asked = job[t].epoch
    <3>1. replies[r] \in [how : Hows, asked : 0..MaxEpoch, pass : 0..MaxEpoch]
      BY <1>1 DEF Shape, RestShape
    <3>2. replies'[r] = [replies[r] EXCEPT !.how = "pass", !.pass = job[t].epoch]
      BY <1>3, <2>3
    <3>3. replies[r].asked = job[t].epoch
      BY <2>3 DEF Answers
    <3> QED
      BY <2>1, <2>2, <3>1, <3>2, <3>3
  <2>4. ASSUME NEW r \in Asks, r \notin Answers(t) PROVE replies'[r] = replies[r]
    BY <1>3, <2>4
  <2> QED
    BY <1>1, <2>3, <2>4 DEF Shape, RestShape
<1>9. PageShape' /\ RestShape'
  <2>1. replies' = [r \in Asks |-> replies'[r]]
    BY <1>3, Zenon
  <2>2. replies' \in [Asks -> [how : Hows, asked : 0..MaxEpoch, pass : 0..MaxEpoch]]
    BY <1>8, <2>1
  <2> QED
    BY <1>1, <1>3, <2>2 DEF Shape, PageShape, RestShape, doc, auth, May
<1>10. Carries'
  <2>1. Carried(t)'
    <3>1. t # "disable" /\ t # "restart"
      BY JobsAre
    <3>2. Blank.epoch = 0
      BY DEF Blank
    <3> QED
      BY <1>6, <1>7, <3>1, <3>2 DEF Carried, Bears, HasPlugin, Marked, Names
  <2>2. ASSUME NEW u \in Jobs, u # t PROVE Carried(u)'
    <3>1. at'[u] = at[u] /\ job'[u] = job[u] /\ born' = born /\ Carried(u)
      BY <1>1, <1>2, <1>3, <2>2 DEF Others, Carries
    <3> QED
      BY <1>7, <3>1 DEF Carried, Bears
  <2> QED
    BY <2>1, <2>2 DEF Carries
<1>11. Bounds'
  <2>1. \A u \in Jobs : \A w \in job'[u].sent : w \in job[u].sent
    <3>1. Blank.sent = {}
      BY DEF Blank
    <3> QED
      BY <1>2, <1>7, <3>1 DEF Others, Keeps
  <2> QED
    BY <1>1, <1>3, <1>7, <2>1 DEF Bounds, doc
<1>12. OnePass'
  <2>1. \A u \in Passes \ {t} : at'[u] = "idle"
    BY <1>1, <1>2, <1>3 DEF OnePass, Others, Jobs
  <2>2. \A r \in Asks : replies'[r].how = "pass" => replies'[r].pass = replies'[r].asked
    BY <1>1, <1>8 DEF OnePass
  <2>3. \A r \in app'.waiters : replies'[r].asked = app'.epoch
    BY <1>5, <1>7, <1>8
  <2>4. app.epoch # None
    BY <1>6, PluginLoadsAssumption
  <2> QED
    BY <1>7, <2>1, <2>2, <2>3, <2>4 DEF OnePass, Names
<1> QED
  BY <1>2, <1>7, <1>9, <1>10, <1>11, <1>12 DEF Formed, Shape

(* The slot is free: a pass is at rest, and begins. *)
LEMMA RequestForms ==
    ASSUME Formed, Request
    PROVE  /\ Formed' /\ app'.epoch = app.epoch /\ app'.token = app.token /\ app'.load = app.load
           /\ \/ UNCHANGED <<app, at, job>>
              \/ \E t \in Passes : /\ at[t] = "idle" /\ at'[t] = "collect" /\ Others(t)
                                   /\ Keeps(job'[t], Blank) /\ Names(job'[t], None, 0, app.epoch)
<1>1. Shape /\ Carries /\ Bounds /\ OnePass
  BY DEF Formed
<1>2. UNCHANGED <<world, auth, on, watched, doc, born, past>> /\ ui' = "idle"
  BY DEF Request
<1>3. PageShape' /\ RestShape'
  BY <1>1, <1>2 DEF Shape, PageShape, RestShape, doc, auth, past, May
<1>4. CASE Busy
  <2>1. UNCHANGED <<app, at, job>>
    BY <1>4 DEF Request
  <2>2. app'.epoch >= app.epoch /\ app'.epoch \in 0..MaxEpoch
    BY <1>1, <2>1, Staying, PluginLoadsAssumption
  <2>3. TaskShape' /\ Carries'
    BY <1>2, <2>1, <2>2, TasksStay
  <2>4. AppShape'
    BY <1>1, <2>1 DEF Shape, AppShape
  <2>5. Bounds' /\ OnePass'
    BY <1>1, <1>2, <2>1 DEF Bounds, OnePass, doc, past
  <2> QED
    BY <1>3, <2>1, <2>3, <2>4, <2>5 DEF Formed, Shape
<1>5. CASE ~Busy
  <2>1. \A u \in Passes : at[u] = "idle"
    BY <1>1, <1>5 DEF OnePass, Busy
  <2>2. PICK t \in Passes : at[t] = "idle" /\ Dispatch(t, app.epoch)
    <3> DEFINE c == CHOOSE u \in Passes : at[u] = "idle"
    <3>1. c \in Passes /\ at[c] = "idle"
      BY <2>1, PluginLoadsAssumption
    <3>2. Dispatch(c, app.epoch)
      BY <1>5 DEF Request
    <3> HIDE DEF c
    <3> QED
      BY <3>1, <3>2
  <2>3. app' = [app EXCEPT !.inFlight = app.epoch]
    BY <1>5 DEF Request
  <2>4. app.epoch \in 0..MaxEpoch /\ app.epoch # None
    BY <1>1, Staying, PluginLoadsAssumption
  <2>5. /\ TaskShape' /\ at'[t] = "collect" /\ Others(t)
        /\ Names(job'[t], None, 0, app.epoch) /\ Keeps(job'[t], Blank)
    BY <1>1, <2>2, <2>3, <2>4, Dispatching
  <2>6. /\ AppShape' /\ app'.epoch = app.epoch /\ app'.token = app.token /\ app'.load = app.load
        /\ app'.waiters = app.waiters /\ app'.inFlight = app.epoch
    BY <1>1, <2>3, <2>4 DEF Shape, AppShape
  <2>7. Carries'
    <3>1. Carried(t)'
      <4>1. t # "disable" /\ t # "restart"
        BY <2>2, JobsAre
      <4> QED
        BY <2>4, <2>5, <2>6, <4>1 DEF Carried, Bears, HasPlugin, Marked, Names
    <3>2. ASSUME NEW u \in Jobs, u # t PROVE Carried(u)'
      <4>1. at'[u] = at[u] /\ job'[u] = job[u] /\ born' = born /\ Carried(u)
        BY <1>1, <1>2, <2>5, <3>2 DEF Others, Carries
      <4> QED
        BY <2>6, <4>1 DEF Carried, Bears
    <3> QED
      BY <3>1, <3>2 DEF Carries
  <2>8. Bounds'
    <3>1. \A u \in Jobs : \A w \in job'[u].sent : w \in job[u].sent
      <4>1. Blank.sent = {}
        BY DEF Blank
      <4> QED
        BY <2>5, <4>1 DEF Others, Keeps
    <3> QED
      BY <1>1, <1>2, <2>6, <3>1 DEF Bounds, doc
  <2>9. OnePass'
    <3>1. \A u \in Passes \ {t} : at'[u] = "idle"
      BY <2>1, <2>5 DEF Others, Jobs
    <3> QED
      BY <1>1, <1>2, <2>2, <2>4, <2>5, <2>6, <3>1 DEF OnePass, Names, past
  <2> QED
    BY <1>3, <2>2, <2>5, <2>6, <2>7, <2>8, <2>9 DEF Formed, Shape
<1> QED
  BY <1>4, <1>5

(* A step of none of the tasks. *)
Aside ==
    /\ UNCHANGED <<at, job, born>>
    /\ app'.epoch >= app.epoch /\ app'.inFlight = app.inFlight
    /\ \A p \in Plugins : /\ app'.load[p].id \in {0, app.load[p].id}
                          /\ page'[p].seen =< Len(born) /\ page'[p].runs =< Len(born)
    /\ \A m \in mail' : m.id \in 1..Len(born)
    /\ \A k \in acks' : k[2] \in 1..Len(born)
    /\ \A w \in watched' : w[2] \in 1..Len(born)
    /\ \A r \in Asks : replies'[r].how = "pass" => replies'[r].pass = replies'[r].asked
    /\ \A r \in app'.waiters : replies'[r].asked = app'.epoch

(* A step of none of the tasks leaves everything formed. *)
LEMMA AsideForms ==
    ASSUME Formed, Aside, AppShape', PageShape', RestShape'
    PROVE  Formed'
<1>1. Shape /\ Bounds /\ OnePass
  BY DEF Formed
<1>2. TaskShape' /\ Carries' /\ \A u \in Jobs : \A w \in job'[u].sent : w[2] \in 1..Len(born)'
  <2>1. app'.epoch \in 0..MaxEpoch
    BY DEF AppShape
  <2> QED
    BY <2>1, TasksStay DEF Aside
<1>3. Bounds'
  <2>1. Len(born) \in Nat
    BY <1>1 DEF Shape, PageShape
  <2>2. \A p \in Plugins : app'.load[p].id =< Len(born)
    BY <1>1, <2>1 DEF Bounds, Aside
  <2> QED
    BY <1>2, <2>2 DEF Bounds, Aside
<1>4. OnePass'
  BY <1>1 DEF OnePass, Aside
<1> QED
  BY <1>2, <1>3, <1>4 DEF Formed, Shape

(* The bounds as they are, for a step that leaves some of the state alone. *)
LEMMA AsideNow ==
    ASSUME Formed
    PROVE  /\ app.epoch \in 0..MaxEpoch /\ app.epoch >= app.epoch /\ Len(born) \in Nat
           /\ \A p \in Plugins : /\ app.load[p].id \in Nat /\ page[p].seen \in Nat /\ page[p].runs \in Nat
                                 /\ page[p].seen =< Len(born) /\ page[p].runs =< Len(born)
           /\ \A m \in mail : m.id \in 1..Len(born)
           /\ \A k \in acks : k[2] \in 1..Len(born)
           /\ \A w \in watched : w[2] \in 1..Len(born)
           /\ \A r \in Asks : replies[r].how = "pass" => replies[r].pass = replies[r].asked
           /\ \A r \in app.waiters : replies[r].asked = app.epoch
           /\ AppShape /\ PageShape /\ RestShape
<1>1. Shape /\ Bounds /\ OnePass
  BY DEF Formed
<1>2. app.epoch \in 0..MaxEpoch /\ app.epoch >= app.epoch
  BY <1>1, Staying, PluginLoadsAssumption
<1>3. \A p \in Plugins : app.load[p].id \in Nat /\ page[p].seen \in Nat /\ page[p].runs \in Nat
  BY <1>1 DEF Shape, AppShape, PageShape, Loads
<1>4. Len(born) \in Nat
  BY <1>1 DEF Shape, PageShape
<1> QED
  BY <1>1, <1>2, <1>3, <1>4 DEF Bounds, OnePass, Shape

(* What the page makes of a message. *)
LEMMA Delivering ==
    ASSUME Formed, Deliver
    PROVE  \E m \in mail :
              /\ mail' = mail \ {m} /\ m.plugin \in Plugins /\ m.id \in Nat /\ m.id \in 1..Len(born)
              /\ \A p \in Plugins \ {m.plugin} : page'[p] = page[p]
              /\ \/ /\ m.what = "unload" /\ acks' = acks
                    /\ page'[m.plugin] = Leaves(page[m.plugin], m.id)
                 \/ /\ m.what = "code" /\ Claims(m.plugin, m.id)
                    /\ page'[m.plugin] = [seen |-> m.id, runs |-> m.id]
                    /\ acks' \subseteq acks \cup {<<m.plugin, m.id>>}
                 \/ m.what = "code" /\ ~Claims(m.plugin, m.id) /\ UNCHANGED <<page, acks>>
              /\ page' \in [Plugins -> [seen : Nat, runs : Nat]]
<1>1. PICK m \in mail :
         /\ mail' = mail \ {m}
         /\ IF m.what = "unload"
            THEN page' = [page EXCEPT ![m.plugin] = Leaves(@, m.id)] /\ UNCHANGED acks
            ELSE IF Claims(m.plugin, m.id)
            THEN /\ page' = [page EXCEPT ![m.plugin] = [seen |-> m.id, runs |-> m.id]]
                 /\ acks' = IF May("idle") THEN acks \cup {<<m.plugin, m.id>>} ELSE acks
            ELSE UNCHANGED <<page, acks>>
  BY DEF Deliver
<1>2. PageShape
  BY DEF Formed, Shape
<1>3. /\ m.plugin \in Plugins /\ m.id \in Nat /\ m.what \in {"code", "unload"}
      /\ m.id \in 1..Len(born)
  BY <1>2 DEF PageShape, Formed, Bounds
<1>4. page[m.plugin] \in [seen : Nat, runs : Nat]
  BY <1>2, <1>3 DEF PageShape
<1>5. Leaves(page[m.plugin], m.id) \in [seen : Nat, runs : Nat]
  BY <1>3, <1>4 DEF Leaves
<1>6. CASE m.what = "unload"
  <2>1. page' = [page EXCEPT ![m.plugin] = Leaves(page[m.plugin], m.id)] /\ acks' = acks
    BY <1>1, <1>6
  <2>2. page' \in [Plugins -> [seen : Nat, runs : Nat]]
    BY <1>2, <1>3, <1>5, <2>1 DEF PageShape
  <2>3. /\ page'[m.plugin] = Leaves(page[m.plugin], m.id)
        /\ \A p \in Plugins \ {m.plugin} : page'[p] = page[p]
    BY <1>2, <1>3, <2>1 DEF PageShape
  <2> QED
    BY <1>1, <1>3, <1>6, <2>1, <2>2, <2>3
<1>7. CASE m.what = "code" /\ Claims(m.plugin, m.id)
  <2> DEFINE x == [seen |-> m.id, runs |-> m.id]
  <2>1. page' = [page EXCEPT ![m.plugin] = x] /\ acks' \subseteq acks \cup {<<m.plugin, m.id>>}
    BY <1>1, <1>7
  <2>2. x \in [seen : Nat, runs : Nat]
    BY <1>3
  <2>3. /\ page'[m.plugin] = x /\ page' \in [Plugins -> [seen : Nat, runs : Nat]]
        /\ \A p \in Plugins \ {m.plugin} : page'[p] = page[p]
    BY <1>2, <1>3, <2>1, <2>2 DEF PageShape
  <2> QED
    BY <1>1, <1>3, <1>7, <2>1, <2>3
<1>8. CASE m.what = "code" /\ ~Claims(m.plugin, m.id)
  <2>1. UNCHANGED <<page, acks>>
    BY <1>1, <1>8
  <2> QED
    BY <1>1, <1>2, <1>3, <1>8, <2>1 DEF PageShape
<1> QED
  BY <1>3, <1>6, <1>7, <1>8

(* A message arrives. *)
LEMMA DeliverForms == ASSUME Formed, Deliver PROVE Formed'
<1>1. UNCHANGED <<world, app, auth, ui, on, tasks, reloaded, strays, born, past>>
  BY DEF Deliver
<1>2. PICK m \in mail :
         /\ mail' = mail \ {m} /\ m.plugin \in Plugins /\ m.id \in Nat /\ m.id \in 1..Len(born)
         /\ \A p \in Plugins \ {m.plugin} : page'[p] = page[p]
         /\ \/ /\ m.what = "unload" /\ acks' = acks
               /\ page'[m.plugin] = Leaves(page[m.plugin], m.id)
            \/ /\ m.what = "code" /\ Claims(m.plugin, m.id)
               /\ page'[m.plugin] = [seen |-> m.id, runs |-> m.id]
               /\ acks' \subseteq acks \cup {<<m.plugin, m.id>>}
            \/ m.what = "code" /\ ~Claims(m.plugin, m.id) /\ UNCHANGED <<page, acks>>
         /\ page' \in [Plugins -> [seen : Nat, runs : Nat]]
  BY Delivering
<1>3. AppShape' /\ PageShape' /\ RestShape'
  BY <1>1, <1>2, AsideNow DEF AppShape, PageShape, RestShape, auth, tasks, past, May
<1>4. \A p \in Plugins : page'[p].seen =< Len(born) /\ page'[p].runs =< Len(born)
  <2>1. page'[m.plugin].seen =< Len(born) /\ page'[m.plugin].runs =< Len(born)
    BY <1>2, AsideNow DEF Leaves
  <2> QED
    BY <1>2, <2>1, AsideNow
<1>5. \A k \in acks' : k[2] \in 1..Len(born)
  BY <1>2, AsideNow
<1>6. Aside
  BY <1>1, <1>2, <1>4, <1>5, AsideNow DEF Aside, tasks, past
<1> QED
  BY <1>3, <1>6, AsideForms

(* An ack arrives: it changes no id and no session. *)
LEMMA AckForms ==
    ASSUME Formed, AckArrives
    PROVE  /\ Formed' /\ app'.epoch = app.epoch /\ app'.token = app.token
           /\ \A p \in Plugins : app'.load[p].id = app.load[p].id
<1>1. UNCHANGED <<world, auth, ui, on, tasks, mail, page, reloaded, strays, born, past>>
  BY DEF AckArrives
<1>2. PICK k \in acks :
         /\ acks' = acks \ {k}
         /\ app' = IF app.load[k[1]].id = k[2] THEN [app EXCEPT !.load[k[1]].ready = TRUE] ELSE app
  BY DEF AckArrives
<1>3. k[1] \in Plugins
  BY AsideNow DEF PageShape
<1> DEFINE x == [app.load[k[1]] EXCEPT !.ready = TRUE]
           l == [app.load EXCEPT ![k[1]] = x]
<1>4. app.load \in [Plugins -> Loads]
  BY AsideNow DEF AppShape
<1>5. l \in [Plugins -> Loads] /\ \A p \in Plugins : l[p].id = app.load[p].id
  <2>1. x \in Loads /\ x.id = app.load[k[1]].id
    BY <1>3, <1>4 DEF Loads
  <2> QED
    BY <1>3, <1>4, <2>1
<1>6. app' = app \/ app' = [app EXCEPT !.load = l]
  BY <1>2, <1>3, <1>4, AsideNow DEF AppShape
<1> HIDE DEF l
<1>7. /\ AppShape' /\ app'.epoch = app.epoch /\ app'.token = app.token
      /\ app'.inFlight = app.inFlight /\ app'.waiters = app.waiters
      /\ \A p \in Plugins : app'.load[p].id = app.load[p].id
  BY <1>5, <1>6, AsideNow DEF AppShape
<1>8. PageShape' /\ RestShape'
  BY <1>1, <1>2, AsideNow DEF PageShape, RestShape, auth, tasks, past, May
<1>9. Aside
  BY <1>1, <1>2, <1>7, AsideNow DEF Aside, tasks, past
<1> QED
  BY <1>7, <1>8, <1>9, AsideForms

(* A new document. *)
LEMMA ReloadForms == ASSUME Formed, Reload PROVE Formed'
<1>1. UNCHANGED <<world, app, auth, ui, on, tasks, acks, born, past>>
  BY DEF Reload
<1>2. /\ \A p \in Plugins : page'[p].seen = 0 /\ page'[p].runs = 0
      /\ page' \in [Plugins -> [seen : Nat, runs : Nat]]
  BY DEF Reload, Fresh
<1>3. mail' \subseteq mail /\ reloaded' = TRUE /\ strays' \subseteq Plugins \X Nat
  BY AsideNow DEF Reload, PageShape
<1>4. AppShape' /\ PageShape' /\ RestShape'
  BY <1>1, <1>2, <1>3, AsideNow DEF AppShape, PageShape, RestShape, auth, tasks, past, May
<1>5. Aside
  BY <1>1, <1>2, <1>3, AsideNow DEF Aside, tasks, past
<1> QED
  BY <1>4, <1>5, AsideForms

(* A request is parked under the session in progress, or refused. *)
LEMMA RequestLoadForms ==
    ASSUME Formed, RequestLoad
    PROVE  Formed' /\ app'.epoch = app.epoch /\ app'.token = app.token /\ app'.load = app.load
<1>1. UNCHANGED <<world, minting, refresh, on, tasks, doc, born, why, overtaken>>
  BY DEF RequestLoad
<1>2. PICK r \in Asks :
         /\ replies[r].how = "unasked"
         /\ \/ /\ app.token = None
               /\ replies' = [replies EXCEPT ![r].how = "refused"]
               /\ UNCHANGED <<app, timer, ui>>
            \/ /\ app.token # None /\ Park(r)
               /\ IF app.gate THEN ui' = "request" /\ UNCHANGED timer
                  ELSE timer' = (IF timer = "off" THEN "armed" ELSE timer) /\ UNCHANGED ui
  BY DEF RequestLoad
<1> DEFINE R == [how : Hows, asked : 0..MaxEpoch, pass : 0..MaxEpoch]
<1>3. replies \in [Asks -> R] /\ "refused" \in Hows /\ "parked" \in Hows
  BY AsideNow DEF RestShape, Hows
<1>4. CASE /\ app.token = None /\ replies' = [replies EXCEPT ![r].how = "refused"]
           /\ UNCHANGED <<app, timer, ui>>
  <2> DEFINE x == [replies[r] EXCEPT !.how = "refused"]
  <2>1. x \in R /\ x.how = "refused" /\ x.asked = replies[r].asked
    BY <1>3
  <2>2. replies' = [replies EXCEPT ![r] = x]
    BY <1>3, <1>4
  <2> HIDE DEF x
  <2>3. /\ replies' \in [Asks -> R]
        /\ \A q \in Asks : replies'[q].how = "pass" => replies'[q].pass = replies'[q].asked
        /\ \A q \in app.waiters : replies'[q].asked = app.epoch
    BY <1>3, <2>1, <2>2, AsideNow DEF AppShape
  <2>4. AppShape' /\ PageShape' /\ RestShape'
    BY <1>1, <1>4, <2>3, AsideNow DEF AppShape, PageShape, RestShape, tasks, doc, May
  <2>5. Aside
    BY <1>1, <1>4, <2>3, AsideNow DEF Aside, tasks, doc
  <2> QED
    BY <1>4, <2>4, <2>5, AsideForms
<1>5. CASE /\ Park(r)
           /\ IF app.gate THEN ui' = "request" /\ UNCHANGED timer
              ELSE timer' = (IF timer = "off" THEN "armed" ELSE timer) /\ UNCHANGED ui
  <2> DEFINE x == [how |-> "parked", asked |-> app.epoch, pass |-> 0]
  <2>1. x \in R /\ x.how = "parked" /\ x.asked = app.epoch
    BY <1>3, AsideNow, PluginLoadsAssumption
  <2>2. replies' = [replies EXCEPT ![r] = x]
    BY <1>5 DEF Park
  <2> HIDE DEF x
  <2>3. /\ AppShape' /\ app'.epoch = app.epoch /\ app'.token = app.token
        /\ app'.inFlight = app.inFlight /\ app'.load = app.load
        /\ app'.waiters = app.waiters \cup {r}
    BY <1>2, <1>5, AsideNow DEF Park, AppShape
  <2>4. /\ replies' \in [Asks -> R]
        /\ \A q \in Asks : replies'[q].how = "pass" => replies'[q].pass = replies'[q].asked
        /\ \A q \in app'.waiters : replies'[q].asked = app.epoch
    BY <1>2, <1>3, <2>1, <2>2, <2>3, AsideNow DEF AppShape
  <2>5. PageShape' /\ RestShape'
    BY <1>1, <1>5, <2>4, AsideNow DEF PageShape, RestShape, tasks, doc, May
  <2>6. Aside
    BY <1>1, <2>3, <2>4, AsideNow DEF Aside, tasks, doc
  <2> QED
    BY <2>3, <2>5, <2>6, AsideForms
<1> QED
  BY <1>2, <1>4, <1>5

(* A session ends: the loads it leaves are posted their unloads. *)
LEMMA LogoutForms ==
    ASSUME Formed, Logout
    PROVE  /\ Formed' /\ app'.epoch = app.epoch + 1 /\ app'.token = None
           /\ \A p \in Plugins : app'.load[p] = Gone
           /\ mail \subseteq mail'
           /\ \A p \in Plugins : app.load[p].id # 0 => Unload(p, app.load[p].id) \in mail'
           /\ \A m \in mail' : \/ m \in mail
                               \/ m.what = "unload" /\ m.plugin \in Plugins /\ m.id = app.load[m.plugin].id
<1>1. /\ UNCHANGED <<world, auth, ui, on, tasks, page, acks, reloaded, strays, born, why, overtaken>>
      /\ app.epoch < MaxEpoch
  BY DEF Logout
<1>2. PICK gate \in {TRUE, app.gate} :
         app' = [app EXCEPT !.epoch = @ + 1, !.token = None, !.waiters = {}, !.gate = gate,
                            !.load = [p \in Plugins |-> Gone]]
  BY DEF Logout
<1>3. /\ app'.epoch = app.epoch + 1 /\ app'.token = None /\ app'.waiters = {}
      /\ app'.inFlight = app.inFlight /\ \A p \in Plugins : app'.load[p] = Gone
  BY <1>2, AsideNow DEF AppShape
<1>4. AppShape'
  <2>1. app.epoch + 1 \in 0..MaxEpoch
    BY <1>1, AsideNow, PluginLoadsAssumption
  <2>2. [p \in Plugins |-> Gone] \in [Plugins -> Loads]
    BY GoneFits
  <2>3. gate \in BOOLEAN
    BY AsideNow DEF AppShape
  <2> QED
    BY <1>2, <2>1, <2>2, <2>3, AsideNow DEF AppShape
<1>5. mail' = mail \cup {Unload(p, app.load[p].id) : p \in {q \in Plugins : app.load[q].id # 0}}
  BY DEF Logout
<1>6. \A p \in Plugins : app.load[p].id # 0 => app.load[p].id \in Nat /\ app.load[p].id \in 1..Len(born)
  BY DEF Formed, Shape, AppShape, PageShape, Loads, Bounds
<1>7. \A m \in mail' : \/ m \in mail
                       \/ \E p \in Plugins : app.load[p].id # 0 /\ m = Unload(p, app.load[p].id)
  BY <1>5
<1>8. \A m \in mail' : \/ m \in mail
                       \/ /\ m \in [what : {"code", "unload"}, plugin : Plugins, id : Nat]
                          /\ m.what = "unload" /\ m.plugin \in Plugins /\ m.id = app.load[m.plugin].id
                          /\ m.id \in 1..Len(born)
  BY <1>6, <1>7, UnloadIs
<1>9. /\ replies' \in [Asks -> [how : Hows, asked : 0..MaxEpoch, pass : 0..MaxEpoch]]
      /\ \A q \in Asks : replies'[q].how = "pass" => replies'[q].pass = replies'[q].asked
  <2> DEFINE R == [how : Hows, asked : 0..MaxEpoch, pass : 0..MaxEpoch]
  <2>1. replies \in [Asks -> R] /\ "ended" \in Hows
    BY AsideNow DEF RestShape, Hows
  <2>2. replies' = [r \in Asks |-> IF r \in app.waiters THEN [replies[r] EXCEPT !.how = "ended"] ELSE replies[r]]
    BY DEF Logout
  <2>3. ASSUME NEW r \in Asks
        PROVE  replies'[r] \in R /\ (replies'[r].how = "pass" => replies'[r].pass = replies'[r].asked)
    <3>1. CASE r \in app.waiters
      <4>1. replies'[r] = [replies[r] EXCEPT !.how = "ended"] /\ replies[r] \in R
        BY <2>1, <2>2, <3>1
      <4> QED
        BY <2>1, <4>1
    <3>2. CASE r \notin app.waiters
      <4>1. replies'[r] = replies[r]
        BY <2>2, <3>2
      <4> QED
        BY <2>1, <4>1, AsideNow
    <3> QED
      BY <3>1, <3>2
  <2>4. replies' = [r \in Asks |-> replies'[r]]
    BY <2>2, Zenon
  <2>5. replies' \in [Asks -> R]
    BY <2>3, <2>4
  <2> QED
    BY <2>3, <2>5
<1>10. PageShape' /\ RestShape'
  BY <1>1, <1>8, <1>9, AsideNow DEF PageShape, RestShape, auth, tasks, May
<1>11. Aside
  <2>1. app'.epoch >= app.epoch
    BY <1>3, AsideNow, PluginLoadsAssumption
  <2> QED
    BY <1>1, <1>3, <1>8, <1>9, <2>1, GoneFits, AsideNow DEF Aside, tasks
<1>12. \A p \in Plugins : app.load[p].id # 0 => Unload(p, app.load[p].id) \in mail'
  BY <1>5
<1> QED
  BY <1>3, <1>4, <1>5, <1>8, <1>10, <1>11, <1>12, AsideForms

(* An exchange that answers gives the state the token of its session, or nothing. *)
LEMMA Minting ==
    ASSUME AppShape, NEW e, Minted(e)
    PROVE  /\ AppShape' /\ app'.epoch = app.epoch /\ app'.load = app.load
           /\ app'.inFlight = app.inFlight /\ app'.waiters = app.waiters
           /\ app'.token \in {app.token, app.epoch}
  BY DEF AppShape, Minted, SameSession

(* The exchanges, the refresh, the timer and the gate: the loads and the tasks stay. *)
LEMMA GateForms ==
    ASSUME Formed, Issue \/ Commit \/ RefreshAsks \/ RefreshAnswers \/ TimerFires \/ GateDrain
    PROVE  /\ Formed' /\ app'.epoch = app.epoch /\ app'.load = app.load
           /\ app'.token \in {app.token, app.epoch}
<1>1. UNCHANGED <<world, on, tasks, doc, born, past>>
  BY DEF Issue, Commit, RefreshAsks, RefreshAnswers, TimerFires, GateDrain
<1>2. /\ AppShape' /\ app'.epoch = app.epoch /\ app'.load = app.load
      /\ app'.inFlight = app.inFlight /\ app'.waiters = app.waiters
      /\ app'.token \in {app.token, app.epoch}
  <2>1. CASE UNCHANGED app
    BY <2>1, AsideNow DEF AppShape
  <2>2. CASE Commit \/ RefreshAnswers
    BY <2>1, <2>2, Minting, AsideNow DEF Commit, RefreshAnswers
  <2>3. CASE GateDrain
    BY <2>3, AsideNow DEF GateDrain, AppShape
  <2> QED
    BY <2>1, <2>2, <2>3 DEF Issue, RefreshAsks, TimerFires
<1>3. RestShape'
  <2>1. minting' \subseteq 0..MaxEpoch
    BY AsideNow DEF Issue, Commit, RefreshAsks, RefreshAnswers, TimerFires, GateDrain, RestShape
  <2>2. timer' \in {"off", "armed", "drain", "spent"}
    BY AsideNow DEF Issue, Commit, RefreshAsks, RefreshAnswers, TimerFires, GateDrain, RestShape
  <2>3. ui' \in {"idle", "request"}
    BY AsideNow DEF Issue, Commit, RefreshAsks, RefreshAnswers, TimerFires, GateDrain, RestShape
  <2>4. refresh' \in [at : {"due", "asked", "drain", "done"}, epoch : 0..MaxEpoch]
    <3>1. /\ refresh \in [at : {"due", "asked", "drain", "done"}, epoch : 0..MaxEpoch]
          /\ app.epoch \in 0..MaxEpoch
      BY AsideNow DEF RestShape
    <3>2. CASE Issue \/ Commit \/ TimerFires
      BY <3>1, <3>2 DEF Issue, Commit, TimerFires
    <3>3. CASE RefreshAsks \/ RefreshAnswers
      BY <3>1, <3>3 DEF RefreshAsks, RefreshAnswers
    <3>4. CASE GateDrain
      BY <3>1, <3>4 DEF GateDrain
    <3> QED
      BY <3>2, <3>3, <3>4
  <2> QED
    BY <1>1, <2>1, <2>2, <2>3, <2>4, AsideNow DEF RestShape, past
<1>4. PageShape'
  BY <1>1, AsideNow DEF PageShape, tasks, doc, May
<1>5. Aside
  BY <1>1, <1>2, AsideNow DEF Aside, tasks, doc, past
<1> QED
  BY <1>2, <1>3, <1>4, <1>5, AsideForms

(* watch_ack. *)
LEMMA WatchForms ==
    ASSUME Formed, Watching
    PROVE  /\ Formed'
           /\ \/ UNCHANGED <<app, mail>>
              \/ \E w \in watched : /\ May("idle") /\ w[1] \in Plugins /\ w[2] \in Nat /\ w[2] \in 1..Len(born)
                                    /\ Undone(w[1], w[2])
<1> DEFINE W == Plugins \X Nat \X {"ack", "off"}
<1>1. UNCHANGED <<world, auth, ui, at, job, page, acks, reloaded, strays, born>>
  BY DEF Watching, WatchEnds, WatchAbandons, WatchTurnsOff, doc, past
<1>2. watched \subseteq W
  BY AsideNow DEF PageShape
<1>3. CASE WatchEnds
  <2>1. UNCHANGED <<app, on, doc, past>> /\ watched' \subseteq watched
    BY <1>3 DEF WatchEnds
  <2>2. AppShape' /\ PageShape' /\ RestShape'
    BY <1>1, <2>1, AsideNow DEF AppShape, PageShape, RestShape, auth, doc, past, May
  <2>3. Aside
    BY <1>1, <2>1, AsideNow DEF Aside, doc, past
  <2> QED
    BY <2>1, <2>2, <2>3, AsideForms DEF doc
<1>4. CASE WatchAbandons
  <2>1. PICK w \in watched : /\ May("idle") /\ watched' = (watched \ {w}) \cup {<<w[1], w[2], "off">>}
                             /\ Undo(w[1], w[2])
    BY <1>4 DEF WatchAbandons
  <2>2. w[1] \in Plugins /\ w[2] \in Nat /\ w[2] \in 1..Len(born)
    BY <1>2, AsideNow
  <2>3. UNCHANGED <<on, past>>
    BY <1>4 DEF WatchAbandons
  <2>4. AppShape' /\ Undone(w[1], w[2])
    BY <2>1, <2>2, Undoing, AsideNow
  <2>5. watched' \subseteq W /\ \A v \in watched' : v[2] \in 1..Len(born)
    <3>1. <<w[1], w[2], "off">> \in W /\ <<w[1], w[2], "off">>[2] = w[2]
      BY <2>2
    <3> QED
      BY <1>2, <2>1, <2>2, <3>1, AsideNow
  <2>6. /\ mail' \subseteq [what : {"code", "unload"}, plugin : Plugins, id : Nat]
        /\ \A m \in mail' : m.id \in 1..Len(born)
    BY <2>2, <2>4, UnloadIs, AsideNow DEF Undone, PageShape
  <2>7. PageShape' /\ RestShape'
    BY <1>1, <2>3, <2>5, <2>6, AsideNow DEF PageShape, RestShape, auth, past, May
  <2>8. \A p \in Plugins : app'.load[p].id \in {0, app.load[p].id}
    BY <2>4, GoneFits DEF Undone
  <2>9. Aside
    BY <1>1, <2>3, <2>4, <2>5, <2>6, <2>8, AsideNow DEF Aside, Undone, past
  <2> QED
    BY <2>1, <2>2, <2>4, <2>7, <2>9, AsideForms
<1>5. CASE WatchTurnsOff
  <2>1. PICK w \in watched : watched' = watched \ {w} /\ TurnOff({w[1]}, "idle")
    BY <1>5 DEF WatchTurnsOff
  <2>2. UNCHANGED <<app, doc, replies, overtaken>>
    BY <1>5 DEF WatchTurnsOff
  <2>3. /\ on' \subseteq Plugins
        /\ why' \in [Plugins -> {"none", "user", "revert", "idle", "failed", "source"}]
    BY <2>1, TurningOff DEF Reasons, Formed
  <2>4. AppShape' /\ PageShape' /\ RestShape'
    BY <1>1, <2>1, <2>2, <2>3, AsideNow DEF AppShape, PageShape, RestShape, auth, doc, May
  <2>5. Aside
    BY <1>1, <2>1, <2>2, AsideNow DEF Aside, doc
  <2> QED
    BY <2>2, <2>4, <2>5, AsideForms DEF doc
<1> QED
  BY <1>3, <1>4, <1>5 DEF Watching

(* Everything is formed at first. *)
LEMMA InitForms == Init => Formed
<1> SUFFICES ASSUME Init PROVE Formed
  OBVIOUS
<1>0. 0 \in 0..MaxEpoch /\ 0 \in Nat /\ Len(born) = 0
  BY PluginLoadsAssumption DEF Init
<1>1. world.cold \in BOOLEAN /\ world.on \subseteq Plugins /\ world \in Worlds
  BY PluginLoadsAssumption DEF Init
<1>2. \A p \in Plugins : app.load[p] = Gone
  BY DEF Init
<1>3. AppShape
  <2>1. [p \in Plugins |-> Gone] \in [Plugins -> Loads]
    BY GoneFits
  <2>2. (~world.cold) \in BOOLEAN
    BY <1>1
  <2> DEFINE l == [p \in Plugins |-> Gone]
             g == ~world.cold
  <2>3. app = [epoch |-> 0, token |-> 0, gate |-> g, waiters |-> {}, inFlight |-> None, load |-> l]
    BY DEF Init
  <2> HIDE DEF l, g
  <2>4. l \in [Plugins -> Loads] /\ g \in BOOLEAN
    BY <2>1, <2>2 DEF l, g
  <2> QED
    BY <1>0, <2>3, <2>4 DEF AppShape
<1>4. TaskShape
  <2>1. "idle" \in Steps /\ \A t \in Jobs : Fits(t, "idle")
    BY JobsAre DEF Fits, PassSteps, EnableSteps, DisableSteps, RestartSteps, Steps
  <2> QED
    BY <2>1, BlankFits DEF Init, TaskShape
<1>5. PageShape
  <2>1. Fresh \in [seen : Nat, runs : Nat]
    BY DEF Fresh
  <2>2. page \in [Plugins -> [seen : Nat, runs : Nat]]
    BY <2>1 DEF Init
  <2>3. born \in Seq(0..MaxEpoch)
    BY DEF Init
  <2> QED
    BY <2>2, <2>3 DEF Init, PageShape
<1>6. RestShape
  <2>1. refresh \in [at : {"due", "asked", "drain", "done"}, epoch : 0..MaxEpoch]
    BY <1>0 DEF Init
  <2>2. replies \in [Asks -> [how : Hows, asked : 0..MaxEpoch, pass : 0..MaxEpoch]]
    BY <1>0 DEF Init, Unasked, Hows
  <2> QED
    BY <1>0, <1>1, <2>1, <2>2 DEF Init, RestShape
<1>7. \A t \in Jobs : at[t] = "idle" /\ job[t] = Blank
  BY DEF Init
<1>8. Carries
  <2>1. Blank.epoch = 0 /\ app.epoch = 0
    BY DEF Blank, Init
  <2> QED
    BY <1>7, <2>1 DEF Carries, Carried, Bears, HasPlugin, Marked
<1>9. Bounds
  <2>1. Blank.sent = {} /\ Gone.id = 0 /\ \A p \in Plugins : page[p].seen = 0 /\ page[p].runs = 0
    BY GoneFits DEF Blank, Init, Fresh
  <2> QED
    BY <1>0, <1>2, <1>7, <2>1 DEF Bounds, Init
<1>10. OnePass
  <2>1. \A t \in Passes : at[t] = "idle"
    BY <1>7 DEF Jobs
  <2>2. app.inFlight = None /\ app.waiters = {} /\ \A r \in Asks : replies[r].how = "unasked"
    BY DEF Init, Unasked
  <2> QED
    BY <2>1, <2>2 DEF OnePass
<1> QED
  BY <1>3, <1>4, <1>5, <1>6, <1>8, <1>9, <1>10 DEF Formed, Shape

(* Every step leaves everything formed. *)
LEMMA FormedStep == Formed /\ [Next]_vars => Formed'
<1> SUFFICES ASSUME Formed, [Next]_vars PROVE Formed'
  OBVIOUS
<1>1. CASE Deliver \/ AckArrives \/ Reload
  BY <1>1, DeliverForms, AckForms, ReloadForms
<1>2. CASE Session \/ Gate \/ Watching
  BY <1>2, RequestLoadForms, RequestForms, LogoutForms, GateForms, WatchForms DEF Session, Gate
<1>3. ASSUME NEW t \in Jobs, Inject(t) PROVE Formed'
  BY <1>3, MarkForms, PrepareGoesOn, RecheckGoesOn, TaskStep DEF Inject
<1>4. ASSUME NEW t \in Passes, PassStep(t) PROVE Formed'
  BY <1>4, SettleForms, PassGoesOn, TaskStep DEF PassStep, Jobs
<1>5. CASE "enable" \in Calls /\ Enabling
  BY <1>5, EnableGoesOn, TaskStep DEF Jobs
<1>6. CASE "disable" \in Calls /\ Disabling
  BY <1>6, DisableGoesOn, TaskStep DEF Jobs
<1>7. CASE "restart" \in Calls /\ Restarting
  BY <1>7, RestartGoesOn, TaskStep DEF Jobs
<1>8. CASE UNCHANGED vars
  <2>1. AppShape' /\ PageShape' /\ RestShape'
    BY <1>8, AsideNow DEF AppShape, PageShape, RestShape, vars, auth, tasks, doc, past, May
  <2>2. Aside
    BY <1>8, AsideNow DEF Aside, vars, auth, tasks, doc, past
  <2> QED
    BY <2>1, <2>2, AsideForms
<1> QED
  BY <1>1, <1>2, <1>3, <1>4, <1>5, <1>6, <1>7, <1>8 DEF Next

(* Every task carries what its step says: the plugin in hand, the load it marked, the session *)
(* it is of; ids are those of loads that were marked, and one pass runs at a time             *)
(* (PluginManager, mark_loading, dispatch_plugin_load).                                       *)
THEOREM WellFormed == Spec => []Formed
  BY InitForms, FormedStep, PTL DEF Spec

(* What is formed has its type. *)
LEMMA FormedTypes == Formed => TypeOK
<1> SUFFICES ASSUME Formed PROVE TypeOK
  OBVIOUS
<1>1. AppShape /\ PageShape /\ RestShape /\ Bounds
  BY DEF Formed, Shape
<1>2. Len(born) \in Nat
  BY <1>1 DEF PageShape
<1>3. app.load \in [Plugins -> [id : 0..Len(born), ready : BOOLEAN]]
  BY <1>1, <1>2 DEF AppShape, Bounds, Loads
<1>4. page \in [Plugins -> [seen : 0..Len(born), runs : 0..Len(born)]]
  BY <1>1, <1>2 DEF PageShape, Bounds
<1>5. mail \subseteq [what : {"code", "unload"}, plugin : Plugins, id : 1..Len(born)]
  BY <1>1 DEF PageShape, Bounds
<1>6. watched \subseteq Plugins \X (1..Len(born)) \X {"ack", "off"}
  BY <1>1 DEF PageShape, Bounds
<1>7. /\ app.epoch \in 0..MaxEpoch /\ app.token \in 0..MaxEpoch \cup {None} /\ app.gate \in BOOLEAN
      /\ app.waiters \subseteq Asks /\ app.inFlight \in 0..MaxEpoch \cup {None}
  BY <1>1 DEF AppShape
<1> QED
  BY <1>1, <1>3, <1>4, <1>5, <1>6, <1>7 DEF PageShape, RestShape, TypeOK

(* The state has its shape whatever the plugins, the calls and the requests (AppState, *)
(* PluginManager, plugins.db).                                                         *)
THEOREM TypeCorrect == Spec => []TypeOK
  BY WellFormed, FormedTypes, PTL

-----------------------------------------------------------------------------
(* One pass at a time, and of its session *)

(* At most one pass that is not at rest is at most one by count. *)
LEMMA OnePassCounts == Formed => OnePassPerSession
<1> SUFFICES ASSUME Formed PROVE OnePassPerSession
  OBVIOUS
<1>1. OnePass
  BY DEF Formed
<1>2. (app.inFlight = None) <=> Running = {}
  BY <1>1 DEF OnePass, Running
<1>3. Cardinality(Running) =< 1
  <2>1. CASE Running = {}
    BY <2>1, FS_EmptySet
  <2>2. ASSUME NEW t \in Running PROVE Cardinality(Running) =< 1
    <3>1. Running = {t}
      BY <1>1, <2>2 DEF OnePass, Running
    <3>2. Cardinality({t}) = 1
      BY FS_Singleton
    <3> QED
      BY <3>1, <3>2
  <2> QED
    BY <2>1, <2>2
<1>4. (app.inFlight = None) = (Running = {})
  BY <1>2
<1> QED
  BY <1>1, <1>3, <1>4 DEF OnePass, OnePassPerSession, Running

(* One pass runs at a time, the one the slot names, and a request is answered by a pass of its *)
(* own session or by the end of that session (dispatch_plugin_load, settle_plugin_load).       *)
THEOREM OnePassCorrect == Spec => []OnePassPerSession
  BY WellFormed, OnePassCounts, PTL

-----------------------------------------------------------------------------
(* What a step is to the loads *)

(* A task that will post code, or an unload for the code it has posted. *)
Owes(t) == at[t] = "prepare" \/ (at[t] = "recheck" /\ ~SameSession(job[t].epoch))

(* A task that owed goes on owing the same; one that did not, does not. *)
OwesAsBefore(t) ==
    /\ Owes(t)' <=> Owes(t)
    /\ Owes(t) => /\ at'[t] = at[t] /\ job'[t].plugin = job[t].plugin
                  /\ job'[t].id = job[t].id /\ job'[t].epoch = job[t].epoch

(* The session goes on, and the token with it or made for it. *)
SessionStays == app'.epoch = app.epoch /\ app'.token \in {app.token, app.epoch}

(* Nothing is marked, ended or posted. *)
Calm ==
    /\ SessionStays /\ \A p \in Plugins : app'.load[p].id = app.load[p].id
    /\ UNCHANGED <<mail, page, born, world, reloaded, strays>>
    /\ \A t \in Jobs : OwesAsBefore(t)

(* A load is ended, by the task that owes as much, or by another. *)
Ends(p, i) ==
    /\ i \in 1..Len(born) /\ Undone(p, i) /\ SessionStays
    /\ UNCHANGED <<page, born, world, reloaded, strays>>
    /\ \A t \in Jobs : OwesAsBefore(t) \/ (Owes(t) /\ ~Owes(t)' /\ job[t].plugin = p /\ job[t].id = i)

(* A load is marked. *)
Marks(t) ==
    /\ job[t].plugin \in Plugins /\ SessionStays
    /\ app'.load[job[t].plugin].id = Len(born) + 1
    /\ \A q \in Plugins \ {job[t].plugin} : app'.load[q] = app.load[q]
    /\ at'[t] = "prepare" /\ Names(job'[t], job[t].plugin, Len(born) + 1, job[t].epoch)
    /\ ~Owes(t) /\ \A u \in Jobs \ {t} : OwesAsBefore(u)
    /\ born' = Append(born, job[t].epoch) /\ UNCHANGED <<mail, page, world, reloaded, strays>>

(* Code is posted. *)
Posts(t) ==
    /\ job[t].plugin \in Plugins /\ job[t].id \in Nat /\ job[t].id \in 1..Len(born)
    /\ at[t] = "prepare" /\ at'[t] = "recheck" /\ job'[t] = job[t]
    /\ mail' = mail \cup {Code(job[t].plugin, job[t].id)}
    /\ \A u \in Jobs \ {t} : OwesAsBefore(u)
    /\ UNCHANGED <<app, page, born, world, reloaded, strays>>

(* The tasks that do not move owe as before. *)
LEMMA StillOwes ==
    ASSUME NEW t \in Jobs, Others(t), app'.epoch = app.epoch
    PROVE  \A u \in Jobs \ {t} : OwesAsBefore(u)
  BY DEF Others, OwesAsBefore, Owes, SameSession

(* So do all of them, when none moves. *)
LEMMA AllStillOwe ==
    ASSUME UNCHANGED <<at, job>>, app'.epoch = app.epoch
    PROVE  \A u \in Jobs : OwesAsBefore(u)
  BY DEF OwesAsBefore, Owes, SameSession

(* A task that owed nothing and owes nothing. *)
LEMMA TaskOwesNothing ==
    ASSUME NEW t \in Jobs, Others(t), app'.epoch = app.epoch, at[t] # "prepare",
           at[t] = "recheck" => SameSession(job[t].epoch), at'[t] \notin Injecting
    PROVE  \A u \in Jobs : OwesAsBefore(u)
<1>1. OwesAsBefore(t)
  BY DEF OwesAsBefore, Owes, Injecting
<1> QED
  BY <1>1, StillOwes

(* A task that undoes a load ends it. *)
LEMMA UndoneEnds ==
    ASSUME Formed, NEW t \in Jobs, Others(t), NEW p \in Plugins, NEW i \in Nat, i \in 1..Len(born),
           Undo(p, i),
           at[t] \in Injecting => job[t].plugin = p /\ job[t].id = i, at'[t] \notin Injecting,
           UNCHANGED <<page, born, world, reloaded, strays>>
    PROVE  Ends(p, i)
<1>1. Undone(p, i)
  BY Undoing DEF Formed, Shape
<1>2. OwesAsBefore(t) \/ (Owes(t) /\ ~Owes(t)' /\ job[t].plugin = p /\ job[t].id = i)
  BY DEF OwesAsBefore, Owes, Injecting
<1> QED
  BY <1>1, <1>2, StillOwes DEF Ends, Undone, SessionStays

(* An enable marks nothing by itself: it ends the load it takes back, at most. *)
LEMMA EnableLoads ==
    ASSUME Formed, "enable" \in Calls, Enabling
    PROVE  Calm \/ \E p \in Plugins, i \in Nat : Ends(p, i)
<1> USE DEF Formed, Injecting
<1> DEFINE t == "enable"
<1>1. t \in Jobs
  BY DEF Jobs
<1>2. CASE EnableFlags
  <2> DEFINE p == job[t].plugin
             i == job[t].id
  <2>1. /\ Others(t) /\ p \in Plugins
        /\ \/ at'[t] = "over" /\ UNCHANGED <<app, mail>>
           \/ at'[t] = "revert" /\ Undo(p, i)
    BY <1>2, EnableFlagsTask
  <2>2. i \in Nat /\ i \in 1..Len(born)
    BY <1>1, <1>2, JobFits DEF Carries, Carried, Bears, EnableFlags, Marked, Slots
  <2>3. at[t] = "flag" /\ UNCHANGED <<page, born, world, reloaded, strays>>
    BY <1>2 DEF EnableFlags
  <2>4. CASE at'[t] = "over" /\ UNCHANGED <<app, mail>>
    <3>1. \A u \in Jobs : OwesAsBefore(u)
      BY <1>1, <2>1, <2>3, <2>4, TaskOwesNothing
    <3> QED
      BY <2>3, <2>4, <3>1 DEF Calm, SessionStays
  <2>5. CASE at'[t] = "revert" /\ Undo(p, i)
    <3>1. Ends(p, i)
      BY <1>1, <2>1, <2>2, <2>3, <2>5, UndoneEnds
    <3> QED
      BY <2>1, <2>2, <3>1
  <2> QED
    BY <2>1, <2>4, <2>5
<1>3. CASE Enable \/ EnableReadsSession \/ Revert
  <2>1. Others(t) /\ at'[t] \in {"epoch", "mark", "over"}
    BY <1>3, EnableTask, EnableReadsTask, RevertTask DEF Became
  <2>2. at[t] \in {"idle", "epoch", "revert"} /\ UNCHANGED <<app, world, mail, page, reloaded, strays, born>>
    BY <1>3 DEF Enable, EnableReadsSession, Revert, doc
  <2>3. \A u \in Jobs : OwesAsBefore(u)
    BY <1>1, <2>1, <2>2, TaskOwesNothing
  <2> QED
    BY <2>2, <2>3 DEF Calm, SessionStays
<1> QED
  BY <1>2, <1>3 DEF Enabling

(* A disable ends the load it found. *)
LEMMA DisableLoads ==
    ASSUME Formed, "disable" \in Calls, Disabling
    PROVE  Calm \/ \E p \in Plugins, i \in Nat : Ends(p, i)
<1> USE DEF Formed, Injecting
<1> DEFINE t == "disable"
<1>1. t \in Jobs
  BY DEF Jobs
<1>2. CASE DisableEnds
  <2> DEFINE p == job[t].plugin
             i == job[t].id
  <2>1. Others(t) /\ at'[t] = "over" /\ p \in Plugins /\ i \in Nat /\ i \in 1..Len(born)
    BY <1>2, DisableEndsTask
  <2>2. at[t] = "end" /\ Undo(p, i) /\ UNCHANGED <<page, born, world, reloaded, strays>>
    BY <1>2 DEF DisableEnds
  <2>3. Ends(p, i)
    BY <1>1, <2>1, <2>2, UndoneEnds
  <2> QED
    BY <2>1, <2>3
<1>3. CASE Disable \/ DisableLooks
  <2>1. Others(t) /\ at'[t] \in {"look", "over", "end"}
    BY <1>3, DisableTask, DisableLooksTask DEF Became
  <2>2. at[t] \in {"idle", "look"} /\ UNCHANGED <<app, world, mail, page, reloaded, strays, born>>
    BY <1>3 DEF Disable, DisableLooks, doc
  <2>3. \A u \in Jobs : OwesAsBefore(u)
    BY <1>1, <2>1, <2>2, TaskOwesNothing
  <2> QED
    BY <2>2, <2>3 DEF Calm, SessionStays
<1> QED
  BY <1>2, <1>3 DEF Disabling

(* A restart ends the old load, and its own when the plugin was turned off meanwhile. *)
LEMMA RestartLoads ==
    ASSUME Formed, "restart" \in Calls, Restarting
    PROVE  Calm \/ \E p \in Plugins, i \in Nat : Ends(p, i)
<1> USE DEF Formed, Injecting
<1> DEFINE t == "restart"
           p == job[t].plugin
           i == job[t].id
<1>1. t \in Jobs
  BY DEF Jobs
<1>2. CASE RestartEnds \/ (RestartAgain /\ ~WantedStill(p))
  <2>1. Others(t) /\ at'[t] \in {"mark", "over"} /\ p \in Plugins /\ i \in Nat /\ i \in 1..Len(born)
    BY <1>2, RestartEndsTask, RestartAgainTask DEF Became
  <2>2. at[t] \in {"epoch", "again"} /\ Undo(p, i) /\ UNCHANGED <<page, born, world, reloaded, strays>>
    BY <1>2 DEF RestartEnds, RestartAgain
  <2>3. Ends(p, i)
    BY <1>1, <2>1, <2>2, UndoneEnds
  <2> QED
    BY <2>1, <2>3
<1>3. CASE Restart \/ RestartChecks \/ RestartFinds \/ RestartOff \/ (RestartAgain /\ WantedStill(p))
  <2>1. Others(t) /\ at'[t] \in {"check", "old", "over", "epoch"}
    BY <1>3, RestartTask, RestartChecksTask, RestartFindsTask, RestartOffTask, RestartAgainTask DEF Became
  <2>2. /\ at[t] \in {"idle", "check", "old", "off", "again"}
        /\ UNCHANGED <<app, world, mail, page, reloaded, strays, born>>
    BY <1>3 DEF Restart, RestartChecks, RestartFinds, RestartOff, RestartAgain, doc
  <2>3. \A u \in Jobs : OwesAsBefore(u)
    BY <1>1, <2>1, <2>2, TaskOwesNothing
  <2> QED
    BY <2>2, <2>3 DEF Calm, SessionStays
<1> QED
  BY <1>2, <1>3 DEF Restarting

(* A pass ends the load whose flag could not be saved. *)
LEMMA PassLoads ==
    ASSUME Formed, NEW t \in Passes, PassStep(t)
    PROVE  Calm \/ \E p \in Plugins, i \in Nat : Ends(p, i)
<1> USE DEF Formed, Injecting
<1> DEFINE p == job[t].plugin
           i == job[t].id
<1>1. t \in Jobs
  BY DEF Jobs
<1>2. CASE PassFlags(t) /\ Undo(p, i)
  <2>1. Others(t) /\ at'[t] = "look" /\ p \in Plugins /\ i \in Nat /\ i \in 1..Len(born)
    BY <1>2, PassFlagsTask DEF Became
  <2>2. at[t] = "flag" /\ UNCHANGED <<page, born, world, reloaded, strays>>
    BY <1>2 DEF PassFlags
  <2>3. Ends(p, i)
    BY <1>1, <1>2, <2>1, <2>2, UndoneEnds
  <2> QED
    BY <2>1, <2>3
<1>3. CASE PassFlags(t) /\ UNCHANGED <<app, mail>>
  <2>1. Others(t) /\ at'[t] = "look"
    BY <1>3, PassFlagsTask DEF Became
  <2>2. at[t] = "flag" /\ UNCHANGED <<page, born, world, reloaded, strays>>
    BY <1>3 DEF PassFlags
  <2>3. \A u \in Jobs : OwesAsBefore(u)
    BY <1>1, <1>3, <2>1, <2>2, TaskOwesNothing
  <2> QED
    BY <1>3, <2>2, <2>3 DEF Calm, SessionStays
<1>4. CASE Collect(t) \/ Look(t) \/ RoundEnds(t) \/ Reconcile(t)
  <2>1. Others(t) /\ at'[t] \in {"look", "settle", "mark", "reconcile"}
    BY <1>4, CollectTask, LookTask, RoundEndsTask, ReconcileTask DEF Became
  <2>2. /\ at[t] \in {"collect", "look", "reconcile"}
        /\ UNCHANGED <<app, world, mail, page, reloaded, strays, born>>
    BY <1>4 DEF Collect, Look, RoundEnds, Reconcile, doc
  <2>3. \A u \in Jobs : OwesAsBefore(u)
    BY <1>1, <2>1, <2>2, TaskOwesNothing
  <2> QED
    BY <2>2, <2>3 DEF Calm, SessionStays
<1>5. CASE Settle(t)
  <2>1. Others(t) /\ at'[t] \in {"idle", "collect"}
    BY <1>5, SettleTask
  <2>2. at[t] = "settle" /\ UNCHANGED <<world, mail, page, reloaded, strays, born>>
    BY <1>5 DEF Settle, doc
  <2>3. app'.epoch = app.epoch /\ app'.token = app.token /\ app'.load = app.load
    BY <1>5, SettleForms
  <2>4. \A u \in Jobs : OwesAsBefore(u)
    BY <1>1, <2>1, <2>2, <2>3, TaskOwesNothing
  <2> QED
    BY <2>2, <2>3, <2>4 DEF Calm, SessionStays
<1> QED
  BY <1>2, <1>3, <1>4, <1>5, PassFlagsTask DEF PassStep

(* An injection marks a load, posts its code, or ends it. *)
LEMMA InjectLoads ==
    ASSUME Formed, NEW t \in Jobs, Inject(t)
    PROVE  Calm \/ Marks(t) \/ Posts(t) \/ \E p \in Plugins, i \in Nat : Ends(p, i)
<1> USE DEF Formed
<1> DEFINE p == job[t].plugin
           i == job[t].id
<1>1. CASE Mark(t)
  <2>1. p \in Plugins /\ Became(t, "prepare", p, Len(born) + 1, job[t].epoch)
    BY <1>1, MarkTask
  <2>2. /\ app'.epoch = app.epoch /\ app'.token = app.token /\ app'.load[p].id = Len(born) + 1
        /\ \A q \in Plugins \ {p} : app'.load[q] = app.load[q]
    BY <1>1, MarkForms
  <2>3. /\ at[t] = "mark" /\ born' = Append(born, job[t].epoch)
        /\ UNCHANGED <<mail, page, world, reloaded, strays>>
    BY <1>1 DEF Mark, doc
  <2>4. \A u \in Jobs \ {t} : OwesAsBefore(u)
    BY <2>1, <2>2, StillOwes DEF Became
  <2>5. ~Owes(t)
    BY <2>3 DEF Owes
  <2>6. Marks(t)
    BY <2>1, <2>2, <2>3, <2>4, <2>5 DEF Marks, Became, SessionStays
  <2> QED
    BY <2>6
<1>2. ASSUME at[t] \in Injecting, Others(t), p \in Plugins, i \in Nat, i \in 1..Len(born), Undo(p, i),
             NEW how, FailedTo(t, how), UNCHANGED <<page, born, world, reloaded, strays>>
      PROVE  \E q \in Plugins, k \in Nat : Ends(q, k)
  <2>1. at'[t] \notin Injecting
    BY <1>2 DEF FailedTo, Injecting
  <2>2. Ends(p, i)
    BY <1>2, <2>1, UndoneEnds
  <2> QED
    BY <1>2, <2>2
<1>3. CASE Prepare(t)
  <2>1. /\ Others(t) /\ p \in Plugins /\ i \in Nat /\ i \in 1..Len(born)
        /\ \/ at'[t] = "recheck" /\ job'[t] = job[t] /\ mail' = mail \cup {Code(p, i)} /\ UNCHANGED app
           \/ Undo(p, i) /\ FailedTo(t, "source")
           \/ Undo(p, i) /\ FailedTo(t, "helper")
    BY <1>3, PrepareTask
  <2>2. at[t] = "prepare" /\ at[t] \in Injecting /\ UNCHANGED <<page, born, world, reloaded, strays>>
    BY <1>3 DEF Prepare, Injecting
  <2>3. CASE at'[t] = "recheck" /\ job'[t] = job[t] /\ mail' = mail \cup {Code(p, i)} /\ UNCHANGED app
    <3>1. Posts(t)
      BY <2>1, <2>2, <2>3, StillOwes DEF Posts
    <3> QED
      BY <3>1
  <2> QED
    BY <1>2, <2>1, <2>2, <2>3
<1>4. CASE Recheck(t)
  <2>1. /\ Others(t) /\ p \in Plugins /\ i \in Nat /\ i \in 1..Len(born)
        /\ \/ /\ SameSession(job[t].epoch) /\ UNCHANGED <<app, mail>> /\ at'[t] \in {"again", "flag"}
           \/ Undo(p, i) /\ FailedTo(t, "session")
    BY <1>4, RecheckTask
  <2>2. at[t] = "recheck" /\ at[t] \in Injecting /\ UNCHANGED <<page, born, world, reloaded, strays>>
    BY <1>4 DEF Recheck, Injecting
  <2>3. CASE SameSession(job[t].epoch) /\ UNCHANGED <<app, mail>> /\ at'[t] \in {"again", "flag"}
    <3>1. \A u \in Jobs : OwesAsBefore(u)
      BY <2>1, <2>2, <2>3, TaskOwesNothing DEF Injecting
    <3>2. Calm
      BY <2>2, <2>3, <3>1 DEF Calm, SessionStays
    <3> QED
      BY <3>2
  <2> QED
    BY <1>2, <2>1, <2>2, <2>3
<1> QED
  BY <1>1, <1>3, <1>4 DEF Inject

(* The session, the gate, the watch and the acks end loads at most. *)
LEMMA OtherLoads ==
    ASSUME Formed, AckArrives \/ RequestLoad \/ Request \/ Issue \/ Commit \/ Gate \/ Watching
    PROVE  Calm \/ \E p \in Plugins, i \in Nat : Ends(p, i)
<1> USE DEF Formed
<1>1. CASE Watching
  <2>1. UNCHANGED <<at, job, page, reloaded, strays, born, world>>
    BY <1>1 DEF Watching, WatchEnds, WatchAbandons, WatchTurnsOff, doc
  <2>2. CASE UNCHANGED <<app, mail>>
    BY <2>1, <2>2, AllStillOwe DEF Calm, SessionStays
  <2>3. ASSUME NEW w \in watched, w[1] \in Plugins, w[2] \in Nat, w[2] \in 1..Len(born), Undone(w[1], w[2])
        PROVE  \E p \in Plugins, i \in Nat : Ends(p, i)
    <3>1. Ends(w[1], w[2])
      BY <2>1, <2>3, AllStillOwe DEF Ends, Undone, SessionStays
    <3> QED
      BY <2>3, <3>1
  <2> QED
    BY <1>1, <2>2, <2>3, WatchForms
<1>2. CASE Request
  <2>1. /\ app'.epoch = app.epoch /\ app'.token = app.token /\ app'.load = app.load
        /\ \/ UNCHANGED <<at, job>>
           \/ \E t \in Passes : at[t] = "idle" /\ at'[t] = "collect" /\ Others(t)
    BY <1>2, RequestForms
  <2>2. \A u \in Jobs : OwesAsBefore(u)
    BY <2>1, AllStillOwe, TaskOwesNothing DEF Injecting, Jobs
  <2> QED
    BY <1>2, <2>1, <2>2 DEF Calm, SessionStays, Request, doc
<1>3. CASE AckArrives \/ RequestLoad \/ Issue \/ Commit \/ Gate
  <2>1. SessionStays /\ \A p \in Plugins : app'.load[p].id = app.load[p].id
    BY <1>3, AckForms, RequestLoadForms, GateForms DEF Gate, SessionStays
  <2>2. UNCHANGED <<at, job, mail, page, reloaded, strays, born, world>>
    BY <1>3 DEF AckArrives, RequestLoad, Issue, Commit, Gate, RefreshAsks, RefreshAnswers, TimerFires,
         GateDrain, doc, tasks
  <2> QED
    BY <2>1, <2>2, AllStillOwe DEF Calm, SessionStays
<1> QED
  BY <1>1, <1>2, <1>3

(* Every step leaves the loads alone, ends one, marks one, posts the code of one, or is the *)
(* page's, or a logout.                                                                     *)
LEMMA LoadSteps ==
    ASSUME Formed, [Next]_vars
    PROVE  \/ Calm \/ Deliver \/ Reload \/ Logout
           \/ \E p \in Plugins, i \in Nat : Ends(p, i)
           \/ \E t \in Jobs : Marks(t) \/ Posts(t)
<1>1. CASE UNCHANGED vars
  BY <1>1, AllStillOwe DEF vars, tasks, doc, Calm, SessionStays
<1>2. CASE Session \/ Gate \/ Watching \/ AckArrives
  BY <1>2, OtherLoads DEF Session
<1>3. ASSUME NEW t \in Jobs, Inject(t)
      PROVE  Calm \/ Marks(t) \/ Posts(t) \/ \E p \in Plugins, i \in Nat : Ends(p, i)
  BY <1>3, InjectLoads
<1>4. ASSUME NEW t \in Passes, PassStep(t) PROVE Calm \/ \E p \in Plugins, i \in Nat : Ends(p, i)
  BY <1>4, PassLoads
<1>5. CASE \/ ("enable" \in Calls /\ Enabling) \/ ("disable" \in Calls /\ Disabling)
           \/ ("restart" \in Calls /\ Restarting)
  BY <1>5, EnableLoads, DisableLoads, RestartLoads
<1> QED
  BY <1>1, <1>2, <1>3, <1>4, <1>5 DEF Next

-----------------------------------------------------------------------------
(* No load and no credential outlives its session *)

(* A load of an earlier session has a task that owes its end. *)
LoadOwed ==
    \A p \in Plugins : LET i == app.load[p].id IN
        \/ i = 0 \/ born[i] = app.epoch
        \/ \E t \in Jobs : Owes(t) /\ job[t].plugin = p /\ job[t].id = i

(* Which is what the property asks. *)
LEMMA OwedIsCurrent == LoadOwed => LoadOfItsSession
  BY DEF LoadOwed, LoadOfItsSession, Owes, Injecting

(* No step leaves a load behind its session, nor a token. *)
LEMMA SessionStep ==
    ASSUME Formed, LoadOwed, TokenOfItsSession, [Next]_vars
    PROVE  LoadOwed' /\ TokenOfItsSession'
<1>1. /\ Len(born) \in Nat
      /\ \A p \in Plugins : app.load[p].id \in Nat /\ app.load[p].id =< Len(born)
  BY DEF Formed, Shape, AppShape, PageShape, Loads, Bounds
<1>2. SessionStays \/ (app'.epoch = app.epoch + 1 /\ app'.token = None) => TokenOfItsSession'
  BY DEF SessionStays, TokenOfItsSession
<1>3. CASE Calm
  BY <1>2, <1>3 DEF Calm, LoadOwed, OwesAsBefore, SessionStays
<1>4. ASSUME NEW p \in Plugins, NEW i \in Nat, Ends(p, i) PROVE LoadOwed' /\ TokenOfItsSession'
  <2>1. ASSUME NEW q \in Plugins, app'.load[q].id # 0
        PROVE  born'[app'.load[q].id] = app'.epoch
                 \/ \E t \in Jobs : Owes(t)' /\ job'[t].plugin = q /\ job'[t].id = app'.load[q].id
    <3>1. app'.load[q] = app.load[q] /\ ~(q = p /\ app.load[p].id = i)
      BY <1>4, <2>1, GoneFits DEF Ends, Undone
    <3>2. ASSUME NEW t \in Jobs, Owes(t), job[t].plugin = q, job[t].id = app.load[q].id
          PROVE  Owes(t)' /\ job'[t].plugin = q /\ job'[t].id = app'.load[q].id
      <4>1. OwesAsBefore(t)
        BY <1>4, <3>1, <3>2 DEF Ends
      <4> QED
        BY <3>1, <3>2, <4>1 DEF OwesAsBefore
    <3> QED
      BY <1>4, <2>1, <3>1, <3>2 DEF Ends, LoadOwed, SessionStays
  <2> QED
    BY <1>2, <1>4, <2>1 DEF Ends, LoadOwed
<1>5. ASSUME NEW t \in Jobs, Marks(t) PROVE LoadOwed' /\ TokenOfItsSession'
  <2>1. job[t].epoch \in 0..MaxEpoch
    BY JobFits DEF Formed, Slots
  <2>2. \A k \in 1..Len(born) : born'[k] = born[k]
    BY <1>5, <2>1, Appending DEF Marks, Formed
  <2>3. ASSUME NEW q \in Plugins, app'.load[q].id # 0
        PROVE  born'[app'.load[q].id] = app'.epoch
                 \/ \E u \in Jobs : Owes(u)' /\ job'[u].plugin = q /\ job'[u].id = app'.load[q].id
    <3>1. CASE q = job[t].plugin
      BY <1>5, <3>1 DEF Marks, Names, Owes
    <3>2. CASE q # job[t].plugin
      <4>1. app'.load[q] = app.load[q] /\ app.load[q].id \in 1..Len(born)
        BY <1>1, <1>5, <2>3, <3>2 DEF Marks
      <4>2. born'[app'.load[q].id] = born[app.load[q].id]
        BY <2>2, <4>1
      <4>3. \A u \in Jobs : Owes(u) => OwesAsBefore(u)
        BY <1>5 DEF Marks
      <4> QED
        BY <1>5, <2>3, <4>1, <4>2, <4>3 DEF Marks, LoadOwed, OwesAsBefore, SessionStays
    <3> QED
      BY <3>1, <3>2
  <2> QED
    BY <1>2, <1>5, <2>3 DEF Marks, LoadOwed
<1>6. ASSUME NEW t \in Jobs, Posts(t) PROVE LoadOwed' /\ TokenOfItsSession'
  <2>1. born[job[t].id] = job[t].epoch
    BY <1>6 DEF Posts, Formed, Carries, Carried, Bears, Marked
  <2>2. ASSUME NEW q \in Plugins, app.load[q].id # 0
        PROVE  born[app.load[q].id] = app.epoch
                 \/ \E u \in Jobs : Owes(u)' /\ job'[u].plugin = q /\ job'[u].id = app.load[q].id
    <3>1. ASSUME NEW u \in Jobs, Owes(u), job[u].plugin = q, job[u].id = app.load[q].id
          PROVE  \/ born[app.load[q].id] = app.epoch
                 \/ Owes(u)' /\ job'[u].plugin = q /\ job'[u].id = app.load[q].id
      <4>1. CASE u = t
        BY <1>6, <2>1, <3>1, <4>1 DEF Posts, Owes, SameSession
      <4>2. CASE u # t
        BY <1>6, <3>1, <4>2 DEF Posts, OwesAsBefore
      <4> QED
        BY <4>1, <4>2
    <3> QED
      BY <2>2, <3>1 DEF LoadOwed
  <2> QED
    BY <1>2, <1>6, <2>2 DEF Posts, LoadOwed, SessionStays
<1>7. CASE Deliver \/ Reload
  <2>1. UNCHANGED <<app, at, job, born>>
    BY <1>7 DEF Deliver, Reload, tasks
  <2> QED
    BY <1>2, <2>1 DEF LoadOwed, Owes, SameSession, SessionStays
<1>8. CASE Logout
  BY <1>2, <1>8, LogoutForms, GoneFits DEF LoadOwed
<1> QED
  BY <1>3, <1>4, <1>5, <1>6, <1>7, <1>8, LoadSteps

(* At first there is neither. *)
LEMMA SessionInit == Init => LoadOwed /\ TokenOfItsSession
  BY GoneFits DEF Init, LoadOwed, TokenOfItsSession

(* No load outlives the session it was marked under but for the task about to take it back, and *)
(* the token in use is of the session in progress: whatever a logout, an exchange or a refresh  *)
(* comes between (injection_still_current, end_session, proactive_refresh).                     *)
THEOREM SessionCorrect == Spec => [](LoadOfItsSession /\ TokenOfItsSession)
<1>1. Init => Formed /\ LoadOwed /\ TokenOfItsSession
  BY InitForms, SessionInit
<1>2. Formed /\ LoadOwed /\ TokenOfItsSession /\ [Next]_vars => (Formed /\ LoadOwed /\ TokenOfItsSession)'
  BY FormedStep, SessionStep
<1>3. LoadOwed /\ TokenOfItsSession => LoadOfItsSession /\ TokenOfItsSession
  BY OwedIsCurrent
<1> QED
  BY <1>1, <1>2, <1>3, PTL DEF Spec

-----------------------------------------------------------------------------
(* What runs in the page *)

(* What names a load that runs, or may: the manager, or something on its way that ends it. *)
Covered(p, i) ==
    \/ app.load[p].id = i
    \/ \E m \in mail : m.plugin = p /\ (m.id > i \/ (m.id = i /\ m.what = "unload"))
    \/ \E t \in Jobs : job[t].plugin = p /\ at[t] = "prepare" /\ job[t].id > i
    \/ \E t \in Jobs : job[t].plugin = p /\ at[t] = "recheck" /\ job[t].id = i /\ ~SameSession(job[t].epoch)
    \/ <<p, i>> \in strays

(* Every load that runs is covered, or nothing does; what runs is the highest id seen. *)
PageCovered ==
    \A p \in Plugins :
        /\ page[p].runs \in {0, page[p].seen}
        /\ page[p].runs = 0 \/ Covered(p, page[p].runs)

(* So is the code on its way that the page would run. *)
CodeCovered ==
    \A m \in mail : m.what = "code" /\ Claims(m.plugin, m.id) => Covered(m.plugin, m.id)

(* So is the load a task is about to post code for, unless the task will undo it. *)
JobCovered ==
    \A t \in Jobs : at[t] = "prepare" =>
        \/ ~Claims(job[t].plugin, job[t].id)
        \/ Covered(job[t].plugin, job[t].id)
        \/ ~SameSession(job[t].epoch)

(* The three together are kept by every step. *)
Ghosts == PageCovered /\ CodeCovered /\ JobCovered

(* The numbers the ids, the sessions and the page are compared by. *)
LEMMA Sizes ==
    ASSUME Formed
    PROVE  /\ Len(born) \in Nat /\ app.epoch \in Nat
           /\ \A p \in Plugins : /\ app.load[p].id \in Nat /\ app.load[p].id =< Len(born)
                                 /\ page[p].seen \in Nat /\ page[p].runs \in Nat
                                 /\ page[p].runs =< Len(born)
           /\ \A m \in mail : m.id \in Nat /\ m.id \in 1..Len(born) /\ m.plugin \in Plugins
                              /\ m.what \in {"code", "unload"}
           /\ \A t \in Jobs : /\ job[t].id \in Nat /\ job[t].epoch \in Nat /\ job[t].epoch =< app.epoch
                              /\ at[t] = "prepare" => /\ job[t].plugin \in Plugins
                                                      /\ job[t].id \in 1..Len(born)
<1>1. Shape /\ Carries /\ Bounds
  BY DEF Formed
<1>2. /\ Len(born) \in Nat /\ app.epoch \in Nat
      /\ \A p \in Plugins : /\ app.load[p].id \in Nat /\ app.load[p].id =< Len(born)
                            /\ page[p].seen \in Nat /\ page[p].runs \in Nat
                            /\ page[p].runs =< Len(born)
  BY <1>1, PluginLoadsAssumption DEF Shape, AppShape, PageShape, Loads, Bounds
<1>3. \A m \in mail : m.id \in Nat /\ m.id \in 1..Len(born) /\ m.plugin \in Plugins
                      /\ m.what \in {"code", "unload"}
  BY <1>1 DEF Shape, PageShape, Bounds
<1>4. ASSUME NEW t \in Jobs
      PROVE  /\ job[t].id \in Nat /\ job[t].epoch \in Nat /\ job[t].epoch =< app.epoch
             /\ at[t] = "prepare" => job[t].plugin \in Plugins /\ job[t].id \in 1..Len(born)
  <2>1. job[t] \in Slots /\ Carried(t)
    BY <1>1, JobFits DEF Carries
  <2> QED
    BY <2>1, PluginLoadsAssumption DEF Slots, Carried, Bears, HasPlugin, Marked
<1> QED
  BY <1>2, <1>3, <1>4

(* What covers a load goes on to: by each kind of step. *)
LEMMA CalmCovers ==
    ASSUME Calm, NEW p \in Plugins, NEW i, Covered(p, i)
    PROVE  Covered(p, i)'
<1>1. \A t \in Jobs : Owes(t) => /\ Owes(t)' /\ at'[t] = at[t] /\ job'[t].plugin = job[t].plugin
                                 /\ job'[t].id = job[t].id /\ job'[t].epoch = job[t].epoch
  BY DEF Calm, OwesAsBefore
<1> QED
  BY <1>1 DEF Calm, SessionStays, Covered, Owes, SameSession

(* A load that is ended is covered by its unload. *)
LEMMA EndsCovers ==
    ASSUME Formed, NEW q \in Plugins, NEW j \in Nat, Ends(q, j), NEW p \in Plugins, NEW i, Covered(p, i)
    PROVE  Covered(p, i)'
<1>1. /\ Unload(q, j) \in mail' /\ mail \subseteq mail'
      /\ Unload(q, j).plugin = q /\ Unload(q, j).id = j /\ Unload(q, j).what = "unload"
      /\ app'.epoch = app.epoch
  BY UnloadIs DEF Ends, Undone
<1>2. CASE app.load[p].id = i
  <2>1. app'.load[p] = app.load[p] \/ (q = p /\ j = i)
    BY <1>2 DEF Ends, Undone
  <2> QED
    BY <1>1, <1>2, <2>1 DEF Covered
<1>3. CASE \E m \in mail : m.plugin = p /\ (m.id > i \/ (m.id = i /\ m.what = "unload"))
  BY <1>1, <1>3 DEF Covered
<1>4. ASSUME NEW t \in Jobs, job[t].plugin = p, at[t] = "prepare", job[t].id > i PROVE Covered(p, i)'
  <2>1. Owes(t)
    BY <1>4 DEF Owes
  <2>2. CASE OwesAsBefore(t)
    BY <1>4, <2>1, <2>2 DEF OwesAsBefore, Covered
  <2>3. CASE job[t].plugin = q /\ job[t].id = j
    BY <1>1, <1>4, <2>3 DEF Covered
  <2> QED
    BY <2>2, <2>3 DEF Ends
<1>5. ASSUME NEW t \in Jobs, job[t].plugin = p, at[t] = "recheck", job[t].id = i, ~SameSession(job[t].epoch)
      PROVE  Covered(p, i)'
  <2>1. Owes(t)
    BY <1>5 DEF Owes
  <2>2. CASE OwesAsBefore(t)
    BY <1>1, <1>5, <2>1, <2>2 DEF OwesAsBefore, Covered, SameSession
  <2>3. CASE job[t].plugin = q /\ job[t].id = j
    BY <1>1, <1>5, <2>3 DEF Covered
  <2> QED
    BY <2>2, <2>3 DEF Ends
<1>6. strays' = strays
  BY DEF Ends
<1> QED
  BY <1>2, <1>3, <1>4, <1>5, <1>6 DEF Covered

(* A load that is marked is covered, and covers the older ones. *)
LEMMA MarksCovers ==
    ASSUME Formed, NEW u \in Jobs, Marks(u), NEW p \in Plugins, NEW i \in Nat, i =< Len(born), Covered(p, i)
    PROVE  Covered(p, i)'
<1>0. Len(born) \in Nat
  BY Sizes
<1>1. app'.epoch = app.epoch /\ mail' = mail
  BY DEF Marks, SessionStays
<1>2. CASE app.load[p].id = i
  <2>1. CASE p = job[u].plugin
    <3>1. at'[u] = "prepare" /\ job'[u].plugin = p /\ job'[u].id = Len(born) + 1
      BY <2>1 DEF Marks, Names
    <3>2. Len(born) + 1 > i
      BY <1>0
    <3> QED
      BY <3>1, <3>2 DEF Covered
  <2>2. CASE p # job[u].plugin
    BY <1>2, <2>2 DEF Marks, Covered
  <2> QED
    BY <2>1, <2>2
<1>3. CASE \E m \in mail : m.plugin = p /\ (m.id > i \/ (m.id = i /\ m.what = "unload"))
  BY <1>1, <1>3 DEF Covered
<1>4. \A t \in Jobs : Owes(t) => /\ Owes(t)' /\ at'[t] = at[t] /\ job'[t].plugin = job[t].plugin
                                 /\ job'[t].id = job[t].id /\ job'[t].epoch = job[t].epoch
  BY DEF Marks, OwesAsBefore
<1>5. CASE \E t \in Jobs : job[t].plugin = p /\ at[t] = "prepare" /\ job[t].id > i
  BY <1>4, <1>5 DEF Covered, Owes
<1>6. CASE \E t \in Jobs : job[t].plugin = p /\ at[t] = "recheck" /\ job[t].id = i /\ ~SameSession(job[t].epoch)
  BY <1>1, <1>4, <1>6 DEF Covered, Owes, SameSession
<1>7. strays' = strays
  BY DEF Marks
<1> QED
  BY <1>2, <1>3, <1>5, <1>6, <1>7 DEF Covered

(* Code that is posted covers what the task that posts it did. *)
LEMMA PostsCovers ==
    ASSUME Formed, NEW u \in Jobs, Posts(u), NEW p \in Plugins, NEW i, Covered(p, i)
    PROVE  Covered(p, i)'
<1> DEFINE c == Code(job[u].plugin, job[u].id)
<1>1. /\ c \in mail' /\ mail \subseteq mail' /\ c.plugin = job[u].plugin /\ c.id = job[u].id
      /\ app' = app
  BY CodeIs DEF Posts
<1> HIDE DEF c
<1>2. CASE \/ app.load[p].id = i
           \/ \E m \in mail : m.plugin = p /\ (m.id > i \/ (m.id = i /\ m.what = "unload"))
  BY <1>1, <1>2 DEF Covered
<1>3. ASSUME NEW t \in Jobs, job[t].plugin = p, at[t] = "prepare", job[t].id > i PROVE Covered(p, i)'
  <2>1. CASE t = u
    <3>1. c.plugin = p /\ c.id > i
      BY <1>1, <1>3, <2>1
    <3> QED
      BY <1>1, <3>1 DEF Covered
  <2>2. CASE t # u
    BY <1>3, <2>2 DEF Posts, OwesAsBefore, Owes, Covered
  <2> QED
    BY <2>1, <2>2
<1>4. ASSUME NEW t \in Jobs, job[t].plugin = p, at[t] = "recheck", job[t].id = i, ~SameSession(job[t].epoch)
      PROVE  Covered(p, i)'
  <2>1. t # u
    BY <1>4 DEF Posts
  <2> QED
    BY <1>1, <1>4, <2>1 DEF Posts, OwesAsBefore, Owes, Covered, SameSession
<1>5. strays' = strays
  BY DEF Posts
<1> QED
  BY <1>2, <1>3, <1>4, <1>5 DEF Covered

(* A logout posts the unloads of what it retires. *)
LEMMA LogoutCovers ==
    ASSUME Formed, Logout, NEW p \in Plugins, NEW i, i # 0, Covered(p, i)
    PROVE  Covered(p, i)'
<1>1. /\ app'.epoch = app.epoch + 1 /\ mail \subseteq mail'
      /\ \A q \in Plugins : app.load[q].id # 0 => Unload(q, app.load[q].id) \in mail'
  BY LogoutForms
<1>2. UNCHANGED <<at, job>>
  BY DEF Logout, tasks
<1>3. CASE app.load[p].id = i
  <2>1. i \in Nat /\ Unload(p, i) \in mail'
    BY <1>1, <1>3, Sizes
  <2>2. Unload(p, i).plugin = p /\ Unload(p, i).id = i /\ Unload(p, i).what = "unload"
    BY <2>1, UnloadIs
  <2> QED
    BY <2>1, <2>2 DEF Covered
<1>4. CASE \E m \in mail : m.plugin = p /\ (m.id > i \/ (m.id = i /\ m.what = "unload"))
  BY <1>1, <1>4 DEF Covered
<1>5. CASE \E t \in Jobs : job[t].plugin = p /\ at[t] = "prepare" /\ job[t].id > i
  BY <1>2, <1>5 DEF Covered
<1>6. CASE \E t \in Jobs : job[t].plugin = p /\ at[t] = "recheck" /\ job[t].id = i /\ ~SameSession(job[t].epoch)
  <2>1. \A t \in Jobs : ~SameSession(job[t].epoch)'
    BY <1>1, <1>2, Sizes DEF SameSession
  <2> QED
    BY <1>2, <1>6, <2>1 DEF Covered
<1>7. strays' = strays
  BY DEF Logout
<1> QED
  BY <1>3, <1>4, <1>5, <1>6, <1>7 DEF Covered

(* A message that arrives covers nothing that still runs, or may. *)
LEMMA DeliverCovers ==
    ASSUME Formed, Deliver, NEW p \in Plugins, NEW i \in Nat, i # 0, Covered(p, i),
           page'[p].seen =< i, page'[p].seen = i => page'[p].runs = i /\ page[p].runs = i
    PROVE  Covered(p, i)'
<1>1. UNCHANGED <<app, at, job, strays>>
  BY DEF Deliver, tasks
<1>2. PICK m \in mail :
         /\ mail' = mail \ {m} /\ m.plugin \in Plugins /\ m.id \in Nat
         /\ \/ /\ m.what = "unload" /\ page'[m.plugin] = Leaves(page[m.plugin], m.id)
            \/ /\ m.what = "code" /\ Claims(m.plugin, m.id)
               /\ page'[m.plugin] = [seen |-> m.id, runs |-> m.id]
            \/ m.what = "code" /\ ~Claims(m.plugin, m.id) /\ UNCHANGED page
  BY Delivering
<1>3. m.plugin = p => ~(m.id > i \/ (m.id = i /\ m.what = "unload"))
  <2>1. page[p].seen \in Nat
    BY Sizes
  <2> QED
    BY <1>2, <2>1 DEF Leaves, Claims
<1>4. ASSUME \E k \in mail : k.plugin = p /\ (k.id > i \/ (k.id = i /\ k.what = "unload"))
      PROVE  Covered(p, i)'
  BY <1>2, <1>3, <1>4 DEF Covered
<1> QED
  BY <1>1, <1>4 DEF Covered, SameSession

(* So a message that arrives leaves everything covered. *)
LEMMA DeliverGhosts ==
    ASSUME Formed, PageCovered, CodeCovered, JobCovered, Deliver
    PROVE  PageCovered' /\ CodeCovered' /\ JobCovered'
<1>1. UNCHANGED <<world, app, at, job, reloaded, strays, born>>
  BY DEF Deliver, tasks
<1>2. PICK m \in mail :
         /\ mail' = mail \ {m} /\ m.plugin \in Plugins /\ m.id \in Nat /\ m.id \in 1..Len(born)
         /\ \A p \in Plugins \ {m.plugin} : page'[p] = page[p]
         /\ \/ /\ m.what = "unload" /\ page'[m.plugin] = Leaves(page[m.plugin], m.id)
            \/ /\ m.what = "code" /\ Claims(m.plugin, m.id)
               /\ page'[m.plugin] = [seen |-> m.id, runs |-> m.id]
            \/ m.what = "code" /\ ~Claims(m.plugin, m.id) /\ UNCHANGED page
         /\ page' \in [Plugins -> [seen : Nat, runs : Nat]]
  BY Delivering
<1>4. \A p \in Plugins : /\ page'[p].seen \in Nat /\ page[p].seen \in Nat
                         /\ page'[p].seen >= page[p].seen
                         /\ page'[p].runs \in {0, page'[p].seen}
                         /\ page'[p].runs \in {0, page[p].runs} \/ (m.plugin = p /\ page'[p].runs = m.id)
                         /\ page'[p].runs # page[p].runs /\ page'[p].runs # 0 =>
                               m.what = "code" /\ m.plugin = p /\ Claims(p, m.id) /\ page'[p].runs = m.id
                         /\ page'[p].runs \in Nat
  <2>1. \A p \in Plugins : page[p].seen \in Nat /\ page[p].runs \in Nat
    BY Sizes
  <2>2. ASSUME NEW p \in Plugins, p # m.plugin
        PROVE  page'[p] = page[p] /\ page[p].runs \in {0, page[p].seen} /\ page[p].seen >= page[p].seen
    BY <1>2, <2>1, <2>2 DEF PageCovered
  <2>3. CASE m.what = "unload" /\ page'[m.plugin] = Leaves(page[m.plugin], m.id)
    <3>1. page[m.plugin].runs \in {0, page[m.plugin].seen}
      BY <1>2 DEF PageCovered
    <3> QED
      BY <1>2, <2>1, <2>2, <2>3, <3>1 DEF Leaves
  <2>4. CASE /\ m.what = "code" /\ Claims(m.plugin, m.id)
             /\ page'[m.plugin] = [seen |-> m.id, runs |-> m.id]
    BY <1>2, <2>1, <2>2, <2>4 DEF Claims
  <2>5. CASE UNCHANGED page
    BY <2>1, <2>5 DEF PageCovered
  <2> QED
    BY <1>2, <2>3, <2>4, <2>5
<1>5. PageCovered'
  <2>1. ASSUME NEW p \in Plugins, NEW i \in Nat, i = page'[p].runs, i # 0 PROVE Covered(p, i)'
    <3>1. page'[p].seen = i
      BY <1>4, <2>1
    <3>2. CASE i = page[p].runs
      <4>1. Covered(p, i)
        BY <2>1, <3>2 DEF PageCovered
      <4>2. page'[p].seen =< i /\ page'[p].runs = i /\ page[p].runs = i
        BY <2>1, <3>1, <3>2
      <4> QED
        BY <2>1, <4>1, <4>2, DeliverCovers, Zenon
    <3>3. CASE i # page[p].runs
      <4>1. m.what = "code" /\ m.plugin = p /\ Claims(p, m.id) /\ i = m.id
        BY <1>4, <2>1, <3>3
      <4>2. Covered(p, i)
        BY <1>2, <2>1, <4>1 DEF CodeCovered
      <4>3. ASSUME \E k \in mail : k.plugin = p /\ (k.id > i \/ (k.id = i /\ k.what = "unload"))
            PROVE  Covered(p, i)'
        <5>1. PICK k \in mail : k.plugin = p /\ (k.id > i \/ (k.id = i /\ k.what = "unload"))
          BY <4>3
        <5>2. k # m
          BY <2>1, <4>1, <5>1
        <5> QED
          BY <1>2, <5>1, <5>2 DEF Covered
      <4>4. app'.load = app.load /\ \A t \in Jobs : SameSession(job[t].epoch)' <=> SameSession(job[t].epoch)
        BY <1>1 DEF SameSession
      <4> QED
        BY <1>1, <4>2, <4>3, <4>4 DEF Covered
    <3> QED
      BY <3>2, <3>3
  <2>2. ASSUME NEW p \in Plugins
        PROVE  /\ page'[p].runs \in {0, page'[p].seen}
               /\ page'[p].runs = 0 \/ Covered(p, page[p].runs)'
    <3>1. PICK i \in Nat : i = page'[p].runs
      BY <1>4
    <3>2. i # 0 => Covered(p, i)'
      BY <2>1, <3>1
    <3> QED
      BY <1>4, <3>1, <3>2 DEF Covered
  <2> QED
    BY <2>2 DEF PageCovered
<1>6. ASSUME NEW p \in Plugins, NEW i \in Nat, page'[p].seen < i, Covered(p, i) PROVE Covered(p, i)'
  BY <1>4, <1>6, DeliverCovers
<1>7. CodeCovered'
  <2>1. ASSUME NEW k \in mail', k.what = "code", page'[k.plugin].seen < k.id
        PROVE  Covered(k.plugin, k.id)'
    <3>1. k \in mail /\ k.plugin \in Plugins /\ k.id \in Nat
      BY <1>2, Sizes
    <3>2. Covered(k.plugin, k.id)
      BY <1>4, <2>1, <3>1 DEF CodeCovered, Claims
    <3>3. PICK q \in Plugins, i \in Nat : q = k.plugin /\ i = k.id
      BY <3>1
    <3>4. Covered(q, i)'
      BY <1>6, <2>1, <3>2, <3>3
    <3> QED
      BY <3>3, <3>4
  <2> QED
    BY <2>1 DEF CodeCovered, Claims
<1>8. JobCovered'
  <2>1. ASSUME NEW t \in Jobs, at[t] = "prepare", page'[job[t].plugin].seen < job[t].id,
               SameSession(job[t].epoch)
        PROVE  Covered(job[t].plugin, job[t].id)'
    <3>1. PICK q \in Plugins, i \in Nat : q = job[t].plugin /\ i = job[t].id
      BY <2>1, Sizes
    <3>2. Covered(q, i)
      BY <1>4, <2>1, <3>1 DEF JobCovered, Claims
    <3>3. Covered(q, i)'
      BY <1>6, <2>1, <3>1, <3>2
    <3>4. job'[t] = job[t]
      BY <1>1
    <3> QED
      BY <3>1, <3>3, <3>4 DEF Covered
  <2>2. \A t \in Jobs : /\ at'[t] = at[t] /\ job'[t] = job[t]
                        /\ SameSession(job[t].epoch)' <=> SameSession(job[t].epoch)
    BY <1>1 DEF SameSession
  <2> QED
    BY <2>1, <2>2 DEF JobCovered, Claims
<1> QED
  BY <1>5, <1>7, <1>8

(* A step that leaves the page alone and keeps what is covered so. *)
LEMMA StillCovered ==
    ASSUME Formed, PageCovered, CodeCovered, JobCovered, UNCHANGED <<page, world, reloaded, strays>>,
           \A p \in Plugins, i \in Nat : i # 0 /\ i =< Len(born) /\ Covered(p, i) => Covered(p, i)',
           \A m \in mail' :
              m \in mail \/ m.what = "unload" \/ ~Claims(m.plugin, m.id) \/ Covered(m.plugin, m.id)',
           \A t \in Jobs : at'[t] = "prepare" =>
              \/ /\ at[t] = "prepare" /\ job'[t].plugin = job[t].plugin /\ job'[t].id = job[t].id
                 /\ SameSession(job[t].epoch)' => SameSession(job[t].epoch)
              \/ Covered(job[t].plugin, job[t].id)'
    PROVE  PageCovered' /\ CodeCovered' /\ JobCovered'
<1>2. ASSUME NEW p \in Plugins, NEW i \in Nat, i = page[p].runs, i # 0 PROVE Covered(p, i)'
  <2>1. Covered(p, i) /\ i =< Len(born)
    BY <1>2, Sizes DEF PageCovered
  <2> QED
    BY <1>2, <2>1
<1>3. PageCovered'
  <2>1. ASSUME NEW p \in Plugins
        PROVE  /\ page'[p].runs \in {0, page'[p].seen}
               /\ page'[p].runs = 0 \/ Covered(p, page[p].runs)'
    <3>1. PICK i \in Nat : i = page[p].runs
      BY Sizes
    <3>2. i # 0 => Covered(p, i)'
      BY <1>2, <3>1
    <3>3. page[p].runs \in {0, page[p].seen}
      BY DEF PageCovered
    <3> QED
      BY <3>1, <3>2, <3>3 DEF Covered
  <2> QED
    BY <2>1 DEF PageCovered
<1>4. CodeCovered'
  <2>1. ASSUME NEW m \in mail', m.what = "code", Claims(m.plugin, m.id)
        PROVE  Covered(m.plugin, m.id)'
    <3>1. CASE m \in mail
      <4>1. m.plugin \in Plugins /\ m.id \in Nat /\ m.id # 0 /\ m.id =< Len(born)
        BY <3>1, Sizes
      <4>2. Covered(m.plugin, m.id)
        BY <2>1, <3>1 DEF CodeCovered
      <4> QED
        BY <4>1, <4>2
    <3> QED
      BY <2>1, <3>1
  <2> QED
    BY <2>1 DEF CodeCovered, Claims
<1>5. JobCovered'
  <2>1. ASSUME NEW t \in Jobs, at'[t] = "prepare", SameSession(job[t].epoch)',
               page'[job'[t].plugin].seen < job'[t].id
        PROVE  Covered(job[t].plugin, job[t].id)'
    <3>1. CASE /\ at[t] = "prepare" /\ job'[t].plugin = job[t].plugin /\ job'[t].id = job[t].id
               /\ SameSession(job[t].epoch)
      <4>1. PICK p \in Plugins, i \in Nat : p = job[t].plugin /\ i = job[t].id /\ i # 0 /\ i =< Len(born)
        BY <3>1, Sizes
      <4>2. Covered(p, i)
        BY <2>1, <3>1, <4>1 DEF JobCovered, Claims
      <4>3. Covered(p, i)'
        BY <4>1, <4>2
      <4> QED
        BY <3>1, <4>1, <4>3 DEF Covered
    <3> QED
      BY <2>1, <3>1
  <2> QED
    BY <2>1 DEF JobCovered, Claims
<1> QED
  BY <1>3, <1>4, <1>5

(* Every step but a delivery and a new document keeps what is covered so. *)
LEMMA CoverStep ==
    ASSUME Formed, PageCovered, CodeCovered, JobCovered,
           \/ Calm \/ Logout
           \/ \E p \in Plugins, i \in Nat : Ends(p, i)
           \/ \E t \in Jobs : Marks(t) \/ Posts(t)
    PROVE  PageCovered' /\ CodeCovered' /\ JobCovered'
<1>1. ASSUME app'.epoch = app.epoch, NEW t \in Jobs, OwesAsBefore(t), at'[t] = "prepare"
      PROVE  /\ at[t] = "prepare" /\ job'[t].plugin = job[t].plugin /\ job'[t].id = job[t].id
             /\ SameSession(job[t].epoch)' => SameSession(job[t].epoch)
  BY <1>1 DEF OwesAsBefore, Owes, SameSession
<1>2. CASE Calm
  <2>1. \A p \in Plugins, i \in Nat : Covered(p, i) => Covered(p, i)'
    BY <1>2, CalmCovers
  <2> QED
    BY <1>1, <1>2, <2>1, StillCovered DEF Calm, SessionStays
<1>3. CASE Logout
  <2>1. \A p \in Plugins, i \in Nat : i # 0 /\ Covered(p, i) => Covered(p, i)'
    BY <1>3, LogoutCovers
  <2>2. \A m \in mail' : m \in mail \/ m.what = "unload"
    BY <1>3, LogoutForms
  <2>3. UNCHANGED <<page, world, reloaded, strays, at, job>> /\ app'.epoch = app.epoch + 1
    BY <1>3, LogoutForms DEF Logout, tasks
  <2>4. \A t \in Jobs : ~SameSession(job[t].epoch)'
    BY <2>3, Sizes DEF SameSession
  <2> QED
    BY <2>1, <2>2, <2>3, <2>4, StillCovered
<1>4. ASSUME NEW q \in Plugins, NEW j \in Nat, Ends(q, j) PROVE PageCovered' /\ CodeCovered' /\ JobCovered'
  <2>1. \A p \in Plugins, i \in Nat : Covered(p, i) => Covered(p, i)'
    BY <1>4, EndsCovers
  <2>2. \A m \in mail' : m \in mail \/ m.what = "unload"
    BY <1>4, UnloadIs DEF Ends, Undone
  <2>3. UNCHANGED <<page, world, reloaded, strays>> /\ app'.epoch = app.epoch
    BY <1>4 DEF Ends, SessionStays
  <2>4. \A t \in Jobs : at'[t] = "prepare" => OwesAsBefore(t)
    BY <1>4 DEF Ends, Owes
  <2> QED
    BY <1>1, <2>1, <2>2, <2>3, <2>4, StillCovered
<1>5. ASSUME NEW u \in Jobs, Marks(u) PROVE PageCovered' /\ CodeCovered' /\ JobCovered'
  <2>1. \A p \in Plugins, i \in Nat : i =< Len(born) /\ Covered(p, i) => Covered(p, i)'
    BY <1>5, MarksCovers
  <2>2. UNCHANGED <<page, world, reloaded, strays, mail>> /\ app'.epoch = app.epoch
    BY <1>5 DEF Marks, SessionStays
  <2>3. Covered(job[u].plugin, job[u].id)'
    <3>1. /\ job'[u].plugin = job[u].plugin /\ job'[u].id = Len(born) + 1
          /\ app'.load[job[u].plugin].id = Len(born) + 1
      BY <1>5 DEF Marks, Names
    <3> QED
      BY <3>1 DEF Covered
  <2>4. \A t \in Jobs : t # u => OwesAsBefore(t)
    BY <1>5 DEF Marks
  <2>5. \A t \in Jobs : at'[t] = "prepare" =>
              \/ /\ at[t] = "prepare" /\ job'[t].plugin = job[t].plugin /\ job'[t].id = job[t].id
                 /\ SameSession(job[t].epoch)' => SameSession(job[t].epoch)
              \/ Covered(job[t].plugin, job[t].id)'
    BY <1>1, <2>2, <2>3, <2>4
  <2> QED
    BY <2>1, <2>2, <2>5, StillCovered
<1>6. ASSUME NEW u \in Jobs, Posts(u) PROVE PageCovered' /\ CodeCovered' /\ JobCovered'
  <2>1. \A p \in Plugins, i \in Nat : Covered(p, i) => Covered(p, i)'
    BY <1>6, PostsCovers
  <2>2. UNCHANGED <<page, world, reloaded, strays>> /\ app' = app
    BY <1>6 DEF Posts
  <2>3. \A t \in Jobs : at'[t] = "prepare" => OwesAsBefore(t)
    BY <1>6 DEF Posts
  <2>4. ASSUME NEW m \in mail'
        PROVE  m \in mail \/ ~Claims(m.plugin, m.id) \/ Covered(m.plugin, m.id)'
    <3>1. m \in mail \/ (m.plugin = job[u].plugin /\ m.id = job[u].id)
      BY <1>6, CodeIs DEF Posts
    <3>2. ASSUME m.plugin = job[u].plugin, m.id = job[u].id, Claims(m.plugin, m.id)
          PROVE  Covered(m.plugin, m.id)'
      <4>1. CASE ~SameSession(job[u].epoch)
        <5>1. at'[u] = "recheck" /\ job'[u] = job[u] /\ ~SameSession(job[u].epoch)'
          BY <1>6, <2>2, <4>1 DEF Posts, SameSession
        <5> QED
          BY <3>2, <5>1 DEF Covered
      <4>2. CASE Covered(m.plugin, m.id)
        <5>1. m.plugin \in Plugins /\ m.id \in Nat
          BY <1>6, <3>2 DEF Posts
        <5> QED
          BY <2>1, <4>2, <5>1
      <4> QED
        BY <1>6, <3>2, <4>1, <4>2 DEF JobCovered, Posts
    <3> QED
      BY <3>1, <3>2
  <2> QED
    BY <1>1, <2>1, <2>2, <2>3, <2>4, StillCovered
<1> QED
  BY <1>2, <1>3, <1>4, <1>5, <1>6

(* A new document: what is still to come to it was covered, and still is or strays. *)
LEMMA ReloadGhosts ==
    ASSUME Formed, CodeCovered, JobCovered, Reload
    PROVE  PageCovered' /\ CodeCovered' /\ JobCovered'
<1>1. /\ UNCHANGED <<world, app, at, job, born>> /\ mail' \subseteq mail
      /\ \A p \in Plugins : page'[p].seen = 0 /\ page'[p].runs = 0
      /\ strays' = strays \cup {k \in Plugins \X (1..Len(born)) :
                    /\ ToCome(mail', k[1], k[2])
                    /\ ~Claims(k[1], k[2]) \/ \E m \in mail \ mail' : Refuses(m, k[1], k[2])}
  BY DEF Reload, tasks, Fresh
<1>2. ASSUME NEW p \in Plugins, NEW i \in 1..Len(born), ToCome(mail', p, i),
             ~Claims(p, i) \/ Covered(p, i)
      PROVE  Covered(p, i)'
  <2>1. CASE ~Claims(p, i) \/ \E m \in mail \ mail' : Refuses(m, p, i)
    <3>1. <<p, i>> \in strays'
      BY <1>1, <1>2, <2>1
    <3> QED
      BY <3>1 DEF Covered
  <2>2. CASE Covered(p, i) /\ \A m \in mail \ mail' : ~Refuses(m, p, i)
    BY <1>1, <2>2 DEF Covered, Refuses, SameSession
  <2> QED
    BY <1>2, <2>1, <2>2
<1>3. PageCovered'
  BY <1>1 DEF PageCovered
<1>4. CodeCovered'
  <2>1. ASSUME NEW m \in mail', m.what = "code" PROVE Covered(m.plugin, m.id)'
    <3>1. m \in mail /\ m.plugin \in Plugins /\ m.id \in 1..Len(born)
      BY <1>1, Sizes
    <3>2. m = Code(m.plugin, m.id)
      BY <2>1, <3>1 DEF Code, Formed, Shape, PageShape
    <3>3. ToCome(mail', m.plugin, m.id)
      BY <2>1, <3>2 DEF ToCome
    <3>4. ~Claims(m.plugin, m.id) \/ Covered(m.plugin, m.id)
      BY <2>1, <3>1 DEF CodeCovered
    <3> QED
      BY <1>2, <3>1, <3>3, <3>4
  <2> QED
    BY <2>1 DEF CodeCovered
<1>5. JobCovered'
  <2>1. ASSUME NEW t \in Jobs, at[t] = "prepare", SameSession(job[t].epoch)
        PROVE  Covered(job[t].plugin, job[t].id)'
    <3>1. PICK p \in Plugins, i \in 1..Len(born) : p = job[t].plugin /\ i = job[t].id
      BY <2>1, Sizes
    <3>2. ToCome(mail', p, i)
      BY <2>1, <3>1 DEF ToCome
    <3>3. ~Claims(p, i) \/ Covered(p, i)
      BY <2>1, <3>1 DEF JobCovered
    <3>4. Covered(p, i)'
      BY <1>2, <3>2, <3>3
    <3>5. job'[t] = job[t]
      BY <1>1
    <3> QED
      BY <3>1, <3>4, <3>5 DEF Covered
  <2>2. \A t \in Jobs : /\ at'[t] = at[t] /\ job'[t] = job[t]
                        /\ SameSession(job[t].epoch)' <=> SameSession(job[t].epoch)
    BY <1>1 DEF SameSession
  <2> QED
    BY <2>1, <2>2 DEF JobCovered
<1> QED
  BY <1>3, <1>4, <1>5

(* What a history starts from does not change. *)
LEMMA WorldStays == [Next]_vars => world' = world
  BY DEF Next, vars, Deliver, AckArrives, Reload, Session, RequestLoad, Request, Logout, Issue, Commit,
         Gate, RefreshAsks, RefreshAnswers, TimerFires, GateDrain, Watching, WatchEnds, WatchAbandons,
         WatchTurnsOff, Inject, Mark, Prepare, Recheck, PassStep, Collect, Look, PassFlags, RoundEnds,
         Reconcile, Settle, Enabling, Enable, EnableReadsSession, EnableFlags, Revert, Disabling, Disable,
         DisableLooks, DisableEnds, Restarting, Restart, RestartChecks, RestartFinds, RestartEnds,
         RestartAgain, RestartOff

(* At first nothing runs. *)
LEMMA GhostInit == Init => Ghosts
<1> SUFFICES ASSUME Init PROVE Ghosts
  OBVIOUS
<1>1. mail = {} /\ \A p \in Plugins : page[p].runs = 0
  BY DEF Init, Fresh
<1>2. \A t \in Jobs : at[t] = "idle"
  BY DEF Init
<1> QED
  BY <1>1, <1>2 DEF Ghosts, PageCovered, CodeCovered, JobCovered, Jobs

(* No step makes a ghost. *)
LEMMA GhostStep == Formed /\ Ghosts /\ [Next]_vars => Ghosts'
<1> SUFFICES ASSUME Formed, Ghosts, [Next]_vars PROVE Ghosts'
  OBVIOUS
<1>1. PageCovered /\ CodeCovered /\ JobCovered
  BY DEF Ghosts
<1>2. PageCovered' /\ CodeCovered' /\ JobCovered'
  BY <1>1, LoadSteps, CoverStep, DeliverGhosts, ReloadGhosts
<1> QED
  BY <1>2 DEF Ghosts

(* Which is what the property asks. *)
LEMMA CoveredIsNoGhost == Ghosts => NoGhost
  BY DEF Ghosts, PageCovered, Covered, NoGhost, Refuses

(* What runs in the page is what the manager names, or something on its way ends it, in every  *)
(* history, its reload of the page included, but for a load whose code came to the new page    *)
(* when what refuses it had gone to the old one (generate_unload_js, retire_load, _plClaim).   *)
THEOREM PageCorrect == Spec => []NoGhost
<1>1. Init => Formed /\ Ghosts
  BY InitForms, GhostInit
<1>2. Formed /\ Ghosts /\ [Next]_vars => (Formed /\ Ghosts)'
  BY FormedStep, GhostStep
<1>3. Ghosts => NoGhost
  BY CoveredIsNoGhost
<1> QED
  BY <1>1, <1>2, <1>3, PTL DEF Spec

(* In every history nothing outlives what it belongs to: no instance the manager does not know *)
(* (but such a load), no load and no token of a session that ended.                            *)
THEOREM NothingOutlivesCorrect == Spec => []NothingOutlives
<1>1. NoGhost /\ LoadOfItsSession /\ TokenOfItsSession => NothingOutlives
  BY DEF NothingOutlives
<1> QED
  BY <1>1, PageCorrect, SessionCorrect, PTL

-----------------------------------------------------------------------------
(* What turns a flag off *)

(* A plugin that was off at first, or has been turned off, is not looked for. *)
Excused(q) == q \notin world.on \/ why[q] # "none"

(* What a pass may hold against p: its own failure, or that of one it depends on. *)
OwnFault(p) ==
    \/ p \in world.broken \/ May("unsaved")
    \/ \E q \in Needs[p] : q \in world.broken \/ Excused(q)

(* A flag that is off was off at first, or something turned it off. *)
Written == \A p \in Plugins \ on : Excused(p)

(* A pass between its first plugin and its last. *)
Loading == {"look", "mark", "prepare", "recheck", "flag"}

(* What a pass found, at s with r: it starts with nothing; what failed failed by itself or    *)
(* with one it depends on; a round that loaded nothing left what it could not have loaded;    *)
(* and every plugin that was on is somewhere in it, unless the helper could not run.          *)
Blames(s, r) ==
    /\ s = "collect" => Keeps(r, Blank)
    /\ \A p \in r.failed : OwnFault(p) \/ Needs[p] \cap r.failed # {}
    /\ s \in Loading /\ ~r.moved => \A p \in r.left : ~(Needs[p] \subseteq r.names)
    /\ s \in Loading => \A q \in Plugins :
          \/ Excused(q) \/ r.helper
          \/ q \in r.todo \cup r.left \cup r.names \cup r.failed
          \/ s # "look" /\ q = r.plugin

(* Every pass blames as it may. *)
Faults == \A t \in Passes : Blames(at[t], job[t])

(* A reason given is not taken back. *)
WhyStays == world' = world /\ \A q \in Plugins : why[q] # "none" => why'[q] # "none"

(* Which steps turn a flag off, and for which reason. *)
Flags ==
    \/ on \subseteq on' /\ UNCHANGED why
    \/ \E t \in Passes : Reconcile(t)
    \/ "disable" \in Calls /\ Disable
    \/ \E ps \in SUBSET Plugins, reason \in {"revert", "idle", "source"} : TurnOff(ps, reason)

(* Plugins need plugins. *)
LEMMA NeedsAre == \A p \in Plugins : Needs[p] \subseteq Plugins
  BY PluginLoadsAssumption

(* Every step is one of those. *)
LEMMA FlagSteps ==
    ASSUME Formed, [Next]_vars
    PROVE  Flags
<1>1. CASE UNCHANGED <<on, why>>
  BY <1>1 DEF Flags
<1>2. CASE UNCHANGED vars \/ Deliver \/ AckArrives \/ Reload \/ Session \/ Gate
  BY <1>1, <1>2 DEF vars, past, Deliver, AckArrives, Reload, Session, RequestLoad, Request, Logout, Issue,
     Commit, Gate, RefreshAsks, RefreshAnswers, TimerFires, GateDrain
<1>3. CASE Watching
  <2>1. CASE WatchTurnsOff
    <3>1. PICK w \in watched : TurnOff({w[1]}, "idle")
      BY <2>1 DEF WatchTurnsOff
    <3>2. {w[1]} \in SUBSET Plugins
      BY DEF Formed, Shape, PageShape
    <3> QED
      BY <3>1, <3>2 DEF Flags
  <2> QED
    BY <1>1, <1>3, <2>1 DEF Watching, WatchEnds, WatchAbandons, past
<1>4. ASSUME NEW t \in Jobs, Inject(t) PROVE Flags
  BY <1>1, <1>4 DEF Inject, Mark, Prepare, Recheck, past
<1>5. ASSUME NEW t \in Passes, PassStep(t) PROVE Flags
  <2>1. CASE Reconcile(t)
    BY <2>1 DEF Flags
  <2> QED
    BY <1>1, <1>5, <2>1 DEF PassStep, Collect, Look, PassFlags, RoundEnds, Settle, past
<1>6. CASE "enable" \in Calls /\ Enabling
  <2>1. CASE Revert
    <3>1. {job["enable"].plugin} \in SUBSET Plugins
      BY <1>6, <2>1, RevertTask DEF Formed
    <3> QED
      BY <2>1, <3>1 DEF Flags, Revert
  <2>2. CASE Enable
    <3>1. on \subseteq on'
      BY <2>2 DEF Enable
    <3> QED
      BY <2>2, <3>1 DEF Flags, Enable, past
  <2> QED
    BY <1>1, <1>6, <2>1, <2>2 DEF Enabling, EnableReadsSession, EnableFlags, past
<1>7. CASE "disable" \in Calls /\ Disabling
  <2>1. CASE Disable
    BY <1>7, <2>1 DEF Flags
  <2> QED
    BY <1>1, <1>7, <2>1 DEF Disabling, DisableLooks, DisableEnds, past
<1>8. CASE "restart" \in Calls /\ Restarting
  <2>1. CASE RestartOff
    <3>1. {job["restart"].plugin} \in SUBSET Plugins
      BY <1>8, <2>1, RestartOffTask DEF Formed
    <3> QED
      BY <2>1, <3>1 DEF Flags, RestartOff
  <2> QED
    BY <1>1, <1>8, <2>1 DEF Restarting, Restart, RestartChecks, RestartFinds, RestartEnds, RestartAgain, past
<1> QED
  BY <1>2, <1>3, <1>4, <1>5, <1>6, <1>7, <1>8 DEF Next

(* Whatever is turned off has its reason written. *)
LEMMA TurnsOff ==
    ASSUME NEW ps \in SUBSET Plugins, NEW reason \in Reasons \ {"none"}, TurnOff(ps, reason),
           RestShape, Written, world' = world
    PROVE  WhyStays /\ Written'
<1>1. \A q \in Plugins : why'[q] = IF q \in ps \cap on THEN reason ELSE why[q]
  BY DEF TurnOff
<1>2. \A q \in Plugins \ on' : q \in ps \cap on \/ q \in Plugins \ on
  BY DEF TurnOff
<1> QED
  BY <1>1, <1>2 DEF WhyStays, Written, Excused, Reasons

(* Reasons stay, and every flag that is off has one. *)
LEMMA WrittenStep ==
    ASSUME Formed, Written, [Next]_vars
    PROVE  WhyStays /\ Written'
<1>1. world' = world /\ RestShape
  BY WorldStays DEF Formed, Shape
<1>2. CASE on \subseteq on' /\ UNCHANGED why
  BY <1>1, <1>2 DEF WhyStays, Written, Excused
<1>3. ASSUME NEW ps \in SUBSET Plugins, NEW reason \in Reasons \ {"none"}, TurnOff(ps, reason)
      PROVE  WhyStays /\ Written'
  BY <1>1, <1>3, TurnsOff
<1>4. ASSUME NEW t \in Passes, Reconcile(t) PROVE WhyStays /\ Written'
  <2>1. job[t].failed \in SUBSET Plugins
    BY JobFits DEF Formed, Jobs, Slots
  <2>2. TurnOff(job[t].failed, "failed")
    BY <1>4 DEF Reconcile
  <2> QED
    BY <1>3, <2>1, <2>2 DEF Reasons
<1>5. CASE Disable
  <2>1. PICK p \in on : TurnOff({p}, "user")
    BY <1>5 DEF Disable
  <2>2. {p} \in SUBSET Plugins
    BY <1>1 DEF RestShape
  <2> QED
    BY <1>3, <2>1, <2>2 DEF Reasons
<1> QED
  BY <1>2, <1>3, <1>4, <1>5, FlagSteps DEF Flags, Reasons

(* What was to blame for stays to blame. *)
LEMMA BlamesNext ==
    ASSUME WhyStays, NEW t \in Passes, Blames(at'[t], job'[t]),
           job'[t].failed \subseteq Plugins
    PROVE  Blames(at[t], job[t])'
<1>1. \A q \in Plugins : Excused(q) => Excused(q)'
  BY DEF WhyStays, Excused
<1>2. \A p \in Plugins : OwnFault(p) => OwnFault(p)'
  BY <1>1, NeedsAre DEF WhyStays, OwnFault, May
<1> QED
  BY <1>1, <1>2 DEF Blames, Keeps

(* A failed injection is held against the plugin for its source alone. *)
LEMMA FailedBlames ==
    ASSUME Formed, NEW t \in Passes, Blames(at[t], job[t]), at[t] \in Loading, at[t] # "look",
           NEW how \in {"source", "helper", "session"}, FailedTo(t, how),
           how = "source" => job[t].plugin \in world.broken
    PROVE  Blames(at'[t], job'[t])
<1>1. job[t] \in Slots /\ t \notin {"enable", "restart"}
  BY JobFits, PluginLoadsAssumption DEF Formed, Jobs
<1>2. CASE how = "source"
  <2>1. /\ at'[t] = "look" /\ job'[t].plugin = None
        /\ Keeps(job'[t], [job[t] EXCEPT !.failed = @ \cup {job[t].plugin}])
    BY <1>1, <1>2 DEF FailedTo, Names
  <2>2. OwnFault(job[t].plugin)
    BY <1>2 DEF OwnFault
  <2> QED
    BY <1>1, <2>1, <2>2 DEF Blames, Keeps, Slots, Loading
<1>3. CASE how = "helper"
  <2>1. at'[t] = "look" /\ Keeps(job'[t], [job[t] EXCEPT !.helper = TRUE])
    BY <1>1, <1>3 DEF FailedTo
  <2>2. job'[t].helper
    BY <1>1, <2>1, Zenon DEF Keeps, Slots
  <2>3. /\ job'[t].left = job[t].left /\ job'[t].names = job[t].names
        /\ job'[t].failed = job[t].failed
    BY <1>1, <2>1 DEF Keeps, Slots
  <2>4. job'[t].moved = job[t].moved
    BY <1>1, <2>1, Zenon DEF Keeps, Slots
  <2> QED
    BY <2>1, <2>2, <2>3, <2>4 DEF Blames, Loading
<1>4. CASE how = "session"
  <2>1. at'[t] = "settle" /\ job'[t] = job[t]
    BY <1>1, <1>4 DEF FailedTo
  <2> QED
    BY <2>1 DEF Blames, Loading
<1> QED
  BY <1>2, <1>3, <1>4

(* An injection, step by step. *)
LEMMA InjectBlames ==
    ASSUME Formed, NEW t \in Passes, Blames(at[t], job[t]), Inject(t)
    PROVE  Blames(at'[t], job'[t])
<1>1. t \in Jobs /\ Shape /\ Carries
  BY DEF Jobs, Formed
<1>2. CASE Mark(t)
  <2>1. at[t] = "mark"
    BY <1>2 DEF Mark
  <2>2. at'[t] = "prepare" /\ job'[t].plugin = job[t].plugin /\ Keeps(job'[t], job[t])
    BY <1>1, <1>2, MarkTask DEF Became, Names
  <2> QED
    BY <2>1, <2>2 DEF Blames, Keeps, Loading
<1>3. CASE Prepare(t)
  <2>1. at[t] = "prepare" /\ at[t] \in Loading
    BY <1>3 DEF Prepare, Loading
  <2>2. CASE at'[t] = "recheck" /\ job'[t] = job[t]
    BY <2>1, <2>2 DEF Blames, Loading
  <2> QED
    BY <1>1, <1>3, <2>1, <2>2, PrepareTask, FailedBlames
<1>4. CASE Recheck(t)
  <2>1. at[t] = "recheck" /\ at[t] \in Loading /\ t # "restart"
    BY <1>4, PluginLoadsAssumption DEF Recheck, Loading
  <2>2. CASE at'[t] = "flag" /\ job'[t] = job[t]
    BY <2>1, <2>2 DEF Blames, Loading
  <2> QED
    BY <1>1, <1>4, <2>1, <2>2, RecheckTask, FailedBlames
<1> QED
  BY <1>2, <1>3, <1>4 DEF Inject

(* A plugin is taken up, or left for a need that is not loaded yet. *)
LEMMA LookBlames ==
    ASSUME Formed, NEW t \in Passes, Blames(at[t], job[t]), Look(t)
    PROVE  Blames(at'[t], job'[t])
<1>1. at[t] = "look" /\ at[t] \in Loading /\ job[t] \in Slots
  BY JobFits DEF Look, Loading, Formed, Jobs
<1>2. CASE at'[t] = "settle" /\ job'[t] = job[t]
  BY <1>1, <1>2 DEF Blames, Loading
<1>3. ASSUME NEW p \in job[t].todo, at'[t] = "mark", job'[t].plugin = p,
             Keeps(job'[t], [job[t] EXCEPT !.todo = @ \ {p}])
      PROVE  Blames(at'[t], job'[t])
  <2>1. /\ job'[t].todo = job[t].todo \ {p} /\ job'[t].left = job[t].left
        /\ job'[t].names = job[t].names /\ job'[t].failed = job[t].failed
    BY <1>1, <1>3 DEF Keeps, Slots
  <2>2. job'[t].helper = job[t].helper /\ job'[t].moved = job[t].moved
    BY <1>1, <1>3, Zenon DEF Keeps, Slots
  <2> QED
    BY <1>1, <1>3, <2>1, <2>2 DEF Blames
<1>4. ASSUME NEW p \in job[t].todo, ~(Needs[p] \subseteq job[t].names), at'[t] = "look",
             Keeps(job'[t], [job[t] EXCEPT !.left = @ \cup {p}, !.todo = @ \ {p}])
      PROVE  Blames(at'[t], job'[t])
  <2>1. /\ job'[t].todo = job[t].todo \ {p} /\ job'[t].left = job[t].left \cup {p}
        /\ job'[t].names = job[t].names /\ job'[t].failed = job[t].failed
    BY <1>1, <1>4 DEF Keeps, Slots
  <2>2. job'[t].helper = job[t].helper /\ job'[t].moved = job[t].moved
    BY <1>1, <1>4, Zenon DEF Keeps, Slots
  <2> QED
    BY <1>1, <1>4, <2>1, <2>2 DEF Blames
<1> QED
  BY <1>2, <1>3, <1>4, LookTask DEF Formed

(* A plugin is loaded, or could not be saved. *)
LEMMA PassFlagsBlames ==
    ASSUME Formed, NEW t \in Passes, Blames(at[t], job[t]), PassFlags(t)
    PROVE  Blames(at'[t], job'[t])
<1> DEFINE p == job[t].plugin
<1>1. at[t] = "flag" /\ at[t] \in Loading /\ job[t] \in Slots
  BY JobFits DEF PassFlags, Loading, Formed, Jobs
<1>2. p \in Plugins /\ at'[t] = "look"
  BY PassFlagsTask DEF Formed, Became
<1>3. ASSUME Keeps(job'[t], [job[t] EXCEPT !.sent = @ \cup {<<p, job[t].id, "ack">>},
                                           !.names = @ \cup {p}, !.moved = TRUE])
      PROVE  Blames(at'[t], job'[t])
  <2>1. /\ job'[t].todo = job[t].todo /\ job'[t].left = job[t].left
        /\ job'[t].names = job[t].names \cup {p} /\ job'[t].failed = job[t].failed
    BY <1>1, <1>3 DEF Keeps, Slots
  <2>2. job'[t].helper = job[t].helper /\ job'[t].moved
    BY <1>1, <1>3, Zenon DEF Keeps, Slots
  <2> QED
    BY <1>1, <1>2, <2>1, <2>2 DEF Blames
<1>4. ASSUME May("unsaved"), Keeps(job'[t], [job[t] EXCEPT !.failed = @ \cup {p}])
      PROVE  Blames(at'[t], job'[t])
  <2>1. /\ job'[t].todo = job[t].todo /\ job'[t].left = job[t].left
        /\ job'[t].names = job[t].names /\ job'[t].failed = job[t].failed \cup {p}
    BY <1>1, <1>4 DEF Keeps, Slots
  <2>2. job'[t].helper = job[t].helper /\ job'[t].moved = job[t].moved
    BY <1>1, <1>4, Zenon DEF Keeps, Slots
  <2>3. \A q : OwnFault(q)
    BY <1>4 DEF OwnFault
  <2> QED
    BY <1>1, <1>2, <2>1, <2>2, <2>3 DEF Blames
<1> QED
  BY <1>3, <1>4, PassFlagsTask DEF Formed

(* A plugin left at the end needs one that failed, was left, or was never on. *)
LEMMA RoundEndsBlames ==
    ASSUME Formed, NEW t \in Passes, Blames(at[t], job[t]), RoundEnds(t)
    PROVE  Blames(at'[t], job'[t])
<1>1. /\ at[t] = "look" /\ at[t] \in Loading /\ job[t].todo = {} /\ job[t] \in Slots
  BY JobFits, RoundEndsTask DEF Loading, Formed, Jobs
<1>2. ASSUME at'[t] = "look",
             Keeps(job'[t], [job[t] EXCEPT !.todo = job[t].left, !.left = {}, !.moved = FALSE])
      PROVE  Blames(at'[t], job'[t])
  <2>1. /\ job'[t].todo = job[t].left /\ job'[t].left = {}
        /\ job'[t].names = job[t].names /\ job'[t].failed = job[t].failed
    BY <1>1, <1>2 DEF Keeps, Slots
  <2>2. job'[t].helper = job[t].helper
    BY <1>1, <1>2, Zenon DEF Keeps, Slots
  <2> QED
    BY <1>1, <1>2, <2>1, <2>2 DEF Blames
<1>3. ASSUME at'[t] = "reconcile", ~(job[t].moved /\ job[t].left # {}),
             Keeps(job'[t], [job[t] EXCEPT
                    !.failed = @ \cup (IF job[t].helper THEN {} ELSE job[t].left), !.left = {}])
      PROVE  Blames(at'[t], job'[t])
  <2>1. job'[t].failed = job[t].failed \cup (IF job[t].helper THEN {} ELSE job[t].left)
    BY <1>1, <1>3 DEF Keeps, Slots
  <2>2. ASSUME NEW p \in job'[t].failed PROVE OwnFault(p) \/ Needs[p] \cap job'[t].failed # {}
    <3>1. CASE p \in job[t].failed
      BY <2>1, <3>1 DEF Blames
    <3>2. CASE ~job[t].helper /\ p \in job[t].left
      <4>1. ~job[t].moved
        BY <1>3, <3>2
      <4>2. PICK q \in Needs[p] : q \notin job[t].names
        BY <1>1, <3>2, <4>1 DEF Blames
      <4>3. p \in Plugins /\ q \in Plugins
        BY <1>1, <3>2, NeedsAre DEF Slots
      <4>4. Excused(q) \/ q \in job[t].left \cup job[t].failed
        BY <1>1, <3>2, <4>2, <4>3 DEF Blames
      <4>5. CASE Excused(q)
        BY <4>2, <4>5 DEF OwnFault
      <4>6. CASE q \in job[t].left \cup job[t].failed
        BY <2>1, <3>2, <4>2, <4>6
      <4> QED
        BY <4>4, <4>5, <4>6
    <3> QED
      BY <2>1, <2>2, <3>1, <3>2
  <2> QED
    BY <1>3, <2>2 DEF Blames, Loading
<1> QED
  BY <1>2, <1>3, RoundEndsTask DEF Formed

(* A pass that has found nothing blames nothing. *)
LEMMA BlankBlames ==
    ASSUME NEW s \in {"idle", "collect"}, NEW r, Keeps(r, Blank)
    PROVE  Blames(s, r)
  BY DEF Blames, Keeps, Blank, Loading

(* A pass, step by step. *)
LEMMA PassBlames ==
    ASSUME Formed, Written, NEW t \in Passes, Blames(at[t], job[t]), PassStep(t)
    PROVE  Blames(at'[t], job'[t])
<1>1. CASE Collect(t)
  <2>1. job[t] \in Slots /\ at[t] = "collect" /\ at'[t] = "look"
    BY <1>1, JobFits DEF Collect, Formed, Jobs, Shape, TaskShape, Go
  <2>2. Keeps(job'[t], [job[t] EXCEPT !.todo = on]) /\ Keeps(job[t], Blank)
    BY <1>1, <2>1, CollectTask DEF Formed, Blames
  <2>3. /\ job'[t].todo = on /\ job'[t].left = {} /\ job'[t].failed = {}
    BY <2>1, <2>2 DEF Keeps, Slots, Blank
  <2> QED
    BY <2>1, <2>3 DEF Blames, Written
<1>2. CASE Reconcile(t)
  <2>1. at'[t] = "settle" /\ job'[t] = job[t]
    BY <1>2, ReconcileTask DEF Formed
  <2> QED
    BY <2>1 DEF Blames, Loading
<1>3. CASE Settle(t)
  <2>1. at'[t] \in {"idle", "collect"} /\ Keeps(job'[t], Blank)
    BY <1>3, SettleTask DEF Formed, Keeps
  <2> QED
    BY <2>1, BlankBlames
<1> QED
  BY <1>1, <1>2, <1>3, LookBlames, PassFlagsBlames, RoundEndsBlames DEF PassStep

(* Which task a step is of. *)
LEMMA WhoMoves ==
    ASSUME Formed, [Next]_vars
    PROVE  \/ UNCHANGED <<at, job>>
           \/ \E t \in Passes : /\ at[t] = "idle" /\ at'[t] = "collect" /\ Others(t)
                                /\ Keeps(job'[t], Blank) /\ Names(job'[t], None, 0, app.epoch)
                                /\ on' = on
           \/ \E t \in Jobs : Inject(t)
           \/ \E t \in Passes : PassStep(t)
           \/ "enable" \in Calls /\ Enabling
           \/ "disable" \in Calls /\ Disabling
           \/ "restart" \in Calls /\ Restarting
<1>1. CASE UNCHANGED vars \/ Deliver \/ AckArrives \/ Reload \/ Gate \/ Watching
  BY <1>1 DEF vars, tasks, Deliver, AckArrives, Reload, Gate, RefreshAsks, RefreshAnswers, TimerFires,
     GateDrain, Watching, WatchEnds, WatchAbandons, WatchTurnsOff
<1>2. CASE RequestLoad \/ Logout \/ Issue \/ Commit
  BY <1>2 DEF tasks, RequestLoad, Logout, Issue, Commit
<1>3. CASE Request
  <2>1. on' = on
    BY <1>3 DEF Request
  <2> QED
    BY <1>3, <2>1, RequestForms
<1> QED
  BY <1>1, <1>2, <1>3 DEF Next, Session

(* A task that moves leaves the others where they are. *)
LEMMA OthersMove ==
    ASSUME NEW t \in Jobs
    PROVE  /\ t = "enable" => /\ Shape /\ Carries /\ "enable" \in Calls /\ Enabling => Others(t)
           /\ t = "disable" => /\ Shape /\ Carries /\ "disable" \in Calls /\ Disabling => Others(t)
           /\ t = "restart" => /\ Shape /\ Carries /\ "restart" \in Calls /\ Restarting => Others(t)
           /\ Shape /\ Carries /\ Inject(t) => Others(t)
           /\ t \in Passes /\ Shape /\ Carries /\ PassStep(t) => Others(t)
<1>1. Shape /\ Carries /\ "enable" \in Calls /\ Enabling => Others("enable")
  BY EnableTask, EnableReadsTask, EnableFlagsTask, RevertTask DEF Enabling, Became
<1>2. Shape /\ Carries /\ "disable" \in Calls /\ Disabling => Others("disable")
  BY DisableTask, DisableLooksTask, DisableEndsTask DEF Disabling, Became
<1>3. Shape /\ Carries /\ "restart" \in Calls /\ Restarting => Others("restart")
  BY RestartTask, RestartChecksTask, RestartFindsTask, RestartEndsTask, RestartAgainTask, RestartOffTask
     DEF Restarting, Became
<1>4. Shape /\ Carries /\ Inject(t) => Others(t)
  BY MarkTask, PrepareTask, RecheckTask DEF Inject, Became
<1>5. t \in Passes /\ Shape /\ Carries /\ PassStep(t) => Others(t)
  BY CollectTask, LookTask, PassFlagsTask, RoundEndsTask, ReconcileTask, SettleTask DEF PassStep, Became
<1> QED
  BY <1>1, <1>2, <1>3, <1>4, <1>5

(* Every step leaves every pass blaming as it may. *)
LEMMA FaultsStep ==
    ASSUME Formed, Written, Faults, [Next]_vars
    PROVE  Faults'
<1> SUFFICES ASSUME NEW t \in Passes PROVE Blames(at[t], job[t])'
  BY DEF Faults
<1>1. WhyStays /\ Blames(at[t], job[t])
  BY WrittenStep DEF Faults
<1>2. job'[t].failed \subseteq Plugins
  <2>1. Shape'
    BY FormedStep DEF Formed
  <2> QED
    BY <2>1 DEF Shape, TaskShape, Jobs, Slots
<1>3. Shape /\ Carries /\ t \in Jobs /\ t \notin {"enable", "disable", "restart"}
  BY PluginLoadsAssumption DEF Formed, Jobs
<1>4. CASE at'[t] = at[t] /\ job'[t] = job[t]
  BY <1>1, <1>2, <1>4, BlamesNext
<1>5. CASE at'[t] = "collect" /\ Keeps(job'[t], Blank)
  BY <1>1, <1>2, <1>5, BlankBlames, BlamesNext
<1>6. CASE Inject(t) \/ PassStep(t)
  BY <1>1, <1>2, <1>6, InjectBlames, PassBlames, BlamesNext
<1>7. ASSUME NEW u \in Jobs, u # t, Others(u)
      PROVE  at'[t] = at[t] /\ job'[t] = job[t]
  BY <1>3, <1>7 DEF Others
<1>8. ASSUME NEW u \in Passes, at'[u] = "collect", Others(u), Keeps(job'[u], Blank)
      PROVE  Blames(at[t], job[t])'
  BY <1>4, <1>5, <1>7, <1>8 DEF Jobs
<1>9. ASSUME NEW u \in Jobs, Inject(u) PROVE Blames(at[t], job[t])'
  BY <1>3, <1>4, <1>6, <1>7, <1>9, OthersMove
<1>10. ASSUME NEW u \in Passes, PassStep(u) PROVE Blames(at[t], job[t])'
  <2>1. u \in Jobs
    BY DEF Jobs
  <2> QED
    BY <1>3, <1>4, <1>6, <1>7, <1>10, <2>1, OthersMove
<1>11. "enable" \in Calls /\ Enabling => Blames(at[t], job[t])'
  BY <1>3, <1>4, <1>7, OthersMove DEF Jobs
<1>12. "disable" \in Calls /\ Disabling => Blames(at[t], job[t])'
  BY <1>3, <1>4, <1>7, OthersMove DEF Jobs
<1>13. "restart" \in Calls /\ Restarting => Blames(at[t], job[t])'
  BY <1>3, <1>4, <1>7, OthersMove DEF Jobs
<1>14. UNCHANGED <<at, job>> => Blames(at[t], job[t])'
  BY <1>4
<1> QED
  BY <1>8, <1>9, <1>10, <1>11, <1>12, <1>13, <1>14, WhoMoves

(* A plugin is turned off as failed by a pass that held its own failure against it. *)
LEMMA FailedStep ==
    ASSUME Formed, Written, Faults, FailedByItself, [Next]_vars
    PROVE  FailedByItself'
<1> SUFFICES ASSUME NEW p \in Plugins, why'[p] = "failed" PROVE OwnFault(p)'
  BY DEF FailedByItself, OwnFault, Excused
<1>1. WhyStays /\ Written'
  BY WrittenStep
<1>2. ASSUME OwnFault(p) PROVE OwnFault(p)'
  BY <1>1, <1>2, NeedsAre DEF OwnFault, Excused, WhyStays, May
<1>3. CASE why[p] = "failed"
  BY <1>2, <1>3 DEF FailedByItself, OwnFault, Excused
<1>4. ASSUME why[p] # "failed", NEW t \in Passes, Reconcile(t) PROVE OwnFault(p)'
  <2>1. TurnOff(job[t].failed, "failed")
    BY <1>4 DEF Reconcile
  <2>2. p \in job[t].failed /\ \A q \in job[t].failed \cap Plugins : q \notin on'
    BY <1>4, <2>1 DEF TurnOff
  <2>3. CASE OwnFault(p)
    BY <1>2, <2>3
  <2>4. ASSUME NEW q \in Needs[p] \cap job[t].failed PROVE OwnFault(p)'
    <3>1. q \in Plugins \ on'
      BY <2>2, <2>4, NeedsAre
    <3> QED
      BY <1>1, <2>4, <3>1 DEF Written, OwnFault
  <2> QED
    BY <2>2, <2>3, <2>4 DEF Faults, Blames
<1>5. ASSUME why[p] # "failed", NEW ps, NEW reason \in {"user", "revert", "idle", "source"},
             TurnOff(ps, reason)
      PROVE  FALSE
  BY <1>5 DEF TurnOff
<1>6. Disable => \E ps : TurnOff(ps, "user")
  BY DEF Disable
<1> QED
  BY <1>3, <1>4, <1>5, <1>6, FlagSteps DEF Flags

(* At first every flag is as the history has it, and no pass has begun. *)
LEMMA FlagsInit == Init => Written /\ Faults /\ FailedByItself
<1> SUFFICES ASSUME Init PROVE Written /\ Faults /\ FailedByItself
  OBVIOUS
<1>1. on = world.on /\ \A p \in Plugins : why[p] = "none"
  BY DEF Init
<1>2. \A t \in Passes : at[t] = "idle" /\ job[t] = Blank
  BY DEF Init, Jobs
<1>3. Faults
  BY <1>2, BlankBlames DEF Faults, Keeps
<1> QED
  BY <1>1, <1>3 DEF Written, Excused, FailedByItself

(* A pass turns a plugin off for its own failure, or for that of one it depends on, never for a *)
(* session that ended under it nor for a helper that could not run: whatever the plugins, their *)
(* needs and the histories (pass_duty, do_load_plugins_inline).                                 *)
THEOREM FailedByItselfCorrect == Spec => []FailedByItself
<1>1. Init => Written /\ Faults /\ FailedByItself
  BY FlagsInit
<1>2. /\ Formed /\ Written /\ Faults /\ FailedByItself /\ [Next]_vars
      => Written' /\ Faults' /\ FailedByItself'
  BY WrittenStep, FaultsStep, FailedStep
<1> QED
  BY <1>1, <1>2, WellFormed, PTL DEF Spec

-----------------------------------------------------------------------------
(* A plugin its user turned off *)

(* The disable of p has yet to look for its load. *)
Asked(p) == "disable" \in Calls /\ at["disable"] = "look" /\ job["disable"].plugin = p

(* The load of p, if it has one, has a task that will end it. *)
Closing(p) ==
    \/ app.load[p].id = 0
    \/ /\ "disable" \in Calls /\ at["disable"] = "end"
       /\ job["disable"].plugin = p /\ job["disable"].id = app.load[p].id
    \/ /\ "restart" \in Calls /\ at["restart"] \in {"prepare", "recheck", "again"}
       /\ job["restart"].plugin = p /\ job["restart"].id = app.load[p].id

(* The disable is still to come to p's load, or nobody will mark it another and this one ends. *)
UserOff ==
    \A p \in Plugins \ (on \cup overtaken) :
        why[p] = "user" => Asked(p) \/ (ToMark(p) = {} /\ Closing(p))

(* The part of ToMark that is one task's, at s with r. *)
Takes(t, s, r, p) ==
    \/ t \in Passes /\ s # "idle" /\ (p \in r.todo \cup r.left \/ (s = "mark" /\ r.plugin = p))
    \/ t \in Calls \cap {"enable"} /\ s \in {"epoch", "mark"} /\ r.plugin = p

(* ToMark is empty when it has no task, before a step and after it. *)
LEMMA ToMarkIs ==
    \A p : ToMark(p) = {} <=> \A t \in Jobs : ~Takes(t, at[t], job[t], p)
  BY DEF ToMark, Takes, Jobs

LEMMA ToMarkIsNext ==
    \A p : ToMark(p)' = {} <=> \A t \in Jobs : ~Takes(t, at'[t], job'[t], p)
  BY DEF ToMark, Takes, Jobs

(* A task has its record, and is a pass or a call. *)
LEMMA TaskIs ==
    ASSUME NEW t \in Jobs, Shape
    PROVE  /\ job[t] \in Slots
           /\ t \in Passes => t \notin Calls
           /\ t = "enable" => t \notin Passes
           /\ t \in {"disable", "restart"} => t \notin Passes
  BY JobFits, PluginLoadsAssumption

(* A task that did not have p to mark comes to have it only as p is turned on. *)
LEMMA InjectTakes ==
    ASSUME Formed, NEW t \in Jobs, NEW p \in Plugins, Inject(t), ~Takes(t, at[t], job[t], p)
    PROVE  ~Takes(t, at'[t], job'[t], p)
<1>1. Shape /\ Carries /\ job[t] \in Slots
  BY TaskIs DEF Formed
<1>2. CASE Mark(t)
  <2>1. at[t] = "mark" /\ at'[t] = "prepare" /\ Keeps(job'[t], job[t])
    BY <1>1, <1>2, MarkTask DEF Mark, Became
  <2> QED
    BY <2>1 DEF Takes, Keeps
<1>3. ASSUME NEW how, FailedTo(t, how), at[t] # "idle"
      PROVE  ~Takes(t, at'[t], job'[t], p)
  <2>1. CASE job'[t] = job[t] /\ at'[t] \notin {"mark", "epoch"}
    BY <1>3, <2>1 DEF Takes
  <2>2. CASE at'[t] = "over" /\ job'[t] = Blank
    BY <2>2 DEF Takes, Blank
  <2>3. CASE at'[t] = "look" /\ \/ Keeps(job'[t], [job[t] EXCEPT !.failed = @ \cup {job[t].plugin}])
                                \/ Keeps(job'[t], [job[t] EXCEPT !.helper = TRUE])
    <3>1. job'[t].todo = job[t].todo /\ job'[t].left = job[t].left
      BY <1>1, <2>3 DEF Keeps, Slots
    <3> QED
      BY <1>3, <2>3, <3>1 DEF Takes
  <2> QED
    BY <1>3, <2>1, <2>2, <2>3 DEF FailedTo
<1>4. CASE Prepare(t)
  <2>1. /\ at[t] = "prepare"
        /\ (at'[t] = "recheck" /\ job'[t] = job[t]) \/ \E how : FailedTo(t, how)
    BY <1>1, <1>4, PrepareTask DEF Prepare
  <2> QED
    BY <1>3, <2>1 DEF Takes
<1>5. CASE Recheck(t)
  <2>1. at[t] = "recheck" /\ \/ at'[t] \in {"flag", "again"} /\ job'[t] = job[t]
                             \/ \E how : FailedTo(t, how)
    BY <1>1, <1>5, RecheckTask DEF Recheck
  <2> QED
    BY <1>3, <2>1 DEF Takes
<1> QED
  BY <1>2, <1>4, <1>5 DEF Inject

(* A pass reads the rows that are on, and p is not. *)
LEMMA PassTakes ==
    ASSUME Formed, NEW t \in Passes, NEW p \in Plugins \ on, PassStep(t), ~Takes(t, at[t], job[t], p)
    PROVE  ~Takes(t, at'[t], job'[t], p)
<1>1. Shape /\ Carries /\ t \in Jobs /\ job[t] \in Slots /\ t \notin Calls
  BY TaskIs DEF Formed, Jobs
<1>2. CASE Collect(t)
  <2>1. at[t] = "collect" /\ at'[t] = "look" /\ Keeps(job'[t], [job[t] EXCEPT !.todo = on])
    BY <1>1, <1>2, CollectTask DEF Collect, Became
  <2>2. job'[t].todo = on /\ job'[t].left = job[t].left
    BY <1>1, <2>1 DEF Keeps, Slots
  <2> QED
    BY <1>1, <2>1, <2>2 DEF Takes
<1>3. CASE Look(t)
  <2>1. at[t] = "look"
    BY <1>3 DEF Look
  <2>2. CASE at'[t] = "settle" /\ job'[t] = job[t]
    BY <1>1, <2>1, <2>2 DEF Takes
  <2>3. ASSUME NEW q \in job[t].todo, job'[t].plugin = q, Keeps(job'[t], [job[t] EXCEPT !.todo = @ \ {q}])
        PROVE  ~Takes(t, at'[t], job'[t], p)
    <3>1. job'[t].todo = job[t].todo \ {q} /\ job'[t].left = job[t].left
      BY <1>1, <2>3 DEF Keeps, Slots
    <3> QED
      BY <1>1, <2>1, <2>3, <3>1 DEF Takes
  <2>4. ASSUME NEW q \in job[t].todo, at'[t] = "look",
               Keeps(job'[t], [job[t] EXCEPT !.left = @ \cup {q}, !.todo = @ \ {q}])
        PROVE  ~Takes(t, at'[t], job'[t], p)
    <3>1. job'[t].todo = job[t].todo \ {q} /\ job'[t].left = job[t].left \cup {q}
      BY <1>1, <2>4 DEF Keeps, Slots
    <3> QED
      BY <1>1, <2>1, <2>4, <3>1 DEF Takes
  <2> QED
    BY <1>1, <1>3, <2>2, <2>3, <2>4, LookTask
<1>4. CASE PassFlags(t)
  <2>1. at[t] = "flag" /\ at'[t] = "look"
    BY <1>1, <1>4, PassFlagsTask DEF PassFlags, Became
  <2>2. job'[t].todo = job[t].todo /\ job'[t].left = job[t].left
    <3>1. \/ Keeps(job'[t], [job[t] EXCEPT !.sent = @ \cup {<<job[t].plugin, job[t].id, "ack">>},
                                           !.names = @ \cup {job[t].plugin}, !.moved = TRUE])
          \/ Keeps(job'[t], [job[t] EXCEPT !.failed = @ \cup {job[t].plugin}])
      BY <1>1, <1>4, PassFlagsTask
    <3> QED
      BY <1>1, <3>1 DEF Keeps, Slots
  <2> QED
    BY <1>1, <2>1, <2>2 DEF Takes
<1>5. CASE RoundEnds(t)
  <2>1. at[t] = "look" /\ at'[t] \in {"look", "reconcile"} /\ job[t].todo = {}
    BY <1>1, <1>5, RoundEndsTask
  <2>2. job'[t].todo \cup job'[t].left \subseteq job[t].left
    <3>1. \/ Keeps(job'[t], [job[t] EXCEPT !.todo = job[t].left, !.left = {}, !.moved = FALSE])
          \/ Keeps(job'[t], [job[t] EXCEPT
                 !.failed = @ \cup (IF job[t].helper THEN {} ELSE job[t].left), !.left = {}])
      BY <1>1, <1>5, RoundEndsTask
    <3> QED
      BY <1>1, <2>1, <3>1 DEF Keeps, Slots
  <2> QED
    BY <1>1, <2>1, <2>2 DEF Takes
<1>6. CASE Reconcile(t)
  <2>1. at[t] = "reconcile" /\ at'[t] = "settle" /\ job'[t] = job[t]
    BY <1>1, <1>6, ReconcileTask DEF Reconcile
  <2> QED
    BY <1>1, <2>1 DEF Takes
<1>7. CASE Settle(t)
  <2>1. at'[t] \in {"idle", "collect"} /\ Keeps(job'[t], Blank)
    BY <1>1, <1>7, SettleTask DEF Keeps
  <2> QED
    BY <1>1, <2>1 DEF Takes, Keeps, Blank
<1> QED
  BY <1>2, <1>3, <1>4, <1>5, <1>6, <1>7 DEF PassStep

(* An enable has p to mark as it turns p on. *)
LEMMA EnableTakes ==
    ASSUME Formed, "enable" \in Calls, Enabling, NEW p \in Plugins, p \notin on',
           ~Takes("enable", at["enable"], job["enable"], p)
    PROVE  ~Takes("enable", at'["enable"], job'["enable"], p)
<1> DEFINE t == "enable"
<1>1. Shape /\ Carries /\ t \in Jobs /\ t \notin Passes
  BY TaskIs DEF Formed, Jobs
<1>2. CASE Enable
  <2>1. PICK q \in Plugins : on' = on \cup {q} /\ job'[t].plugin = q
    BY <1>1, <1>2, EnableTask DEF Became, Names
  <2> QED
    BY <1>1, <2>1 DEF Takes
<1>3. CASE EnableReadsSession
  <2>1. at[t] = "epoch" /\ job'[t].plugin = job[t].plugin
    BY <1>1, <1>3, EnableReadsTask DEF EnableReadsSession, Became, Names
  <2> QED
    BY <1>1, <2>1 DEF Takes
<1>4. CASE EnableFlags \/ Revert
  <2>1. at'[t] \in {"over", "revert"}
    BY <1>1, <1>4, EnableFlagsTask, RevertTask
  <2> QED
    BY <1>1, <2>1 DEF Takes
<1> QED
  BY <1>2, <1>3, <1>4 DEF Enabling

(* So nobody comes to have p to mark while p is off. *)
LEMMA ToMarkShrinks ==
    ASSUME Formed, [Next]_vars, NEW p \in Plugins \ on, p \notin on', ToMark(p) = {}
    PROVE  ToMark(p)' = {}
<1>1. Shape /\ Carries /\ \A t \in Jobs : ~Takes(t, at[t], job[t], p)
  BY ToMarkIs DEF Formed
<1>2. ASSUME NEW u \in Jobs, Others(u), ~Takes(u, at'[u], job'[u], p)
      PROVE  ToMark(p)' = {}
  <2>1. \A t \in Jobs : ~Takes(t, at'[t], job'[t], p)
    BY <1>1, <1>2 DEF Others
  <2> QED
    BY <2>1, ToMarkIsNext
<1>3. CASE UNCHANGED <<at, job>>
  BY <1>1, <1>3, ToMarkIsNext
<1>4. ASSUME NEW t \in Passes, at'[t] = "collect", Others(t), Keeps(job'[t], Blank)
      PROVE  ToMark(p)' = {}
  <2>1. t \in Jobs /\ t \notin Calls
    BY <1>1, TaskIs DEF Jobs
  <2>2. ~Takes(t, at'[t], job'[t], p)
    BY <1>4, <2>1 DEF Takes, Keeps, Blank
  <2> QED
    BY <1>2, <1>4, <2>1, <2>2
<1>5. ASSUME NEW t \in Jobs, Inject(t) PROVE ToMark(p)' = {}
  BY <1>1, <1>2, <1>5, InjectTakes, OthersMove
<1>6. ASSUME NEW t \in Passes, PassStep(t) PROVE ToMark(p)' = {}
  <2>1. t \in Jobs
    BY DEF Jobs
  <2> QED
    BY <1>1, <1>2, <1>6, <2>1, PassTakes, OthersMove
<1>7. CASE "enable" \in Calls /\ Enabling
  <2>1. "enable" \in Jobs
    BY <1>7 DEF Jobs
  <2> QED
    BY <1>1, <1>2, <1>7, <2>1, EnableTakes, OthersMove
<1>8. ASSUME NEW t \in {"disable", "restart"}, t \in Calls, Others(t) PROVE ToMark(p)' = {}
  <2>1. t \in Jobs /\ t \notin Passes /\ t # "enable"
    BY <1>1, <1>8, TaskIs DEF Jobs
  <2>2. ~Takes(t, at'[t], job'[t], p)
    BY <2>1 DEF Takes
  <2> QED
    BY <1>2, <1>8, <2>1, <2>2
<1>9. CASE "disable" \in Calls /\ Disabling
  <2>1. "disable" \in Jobs
    BY <1>9 DEF Jobs
  <2> QED
    BY <1>1, <1>8, <1>9, <2>1, OthersMove
<1>10. CASE "restart" \in Calls /\ Restarting
  <2>1. "restart" \in Jobs
    BY <1>10 DEF Jobs
  <2> QED
    BY <1>1, <1>8, <1>10, <2>1, OthersMove
<1> QED
  BY <1>3, <1>4, <1>5, <1>6, <1>7, <1>9, <1>10, WhoMoves

(* A step that marks nothing ends loads at most. *)
LEMMA OnlyMarks ==
    ASSUME Formed, [Next]_vars, \A t \in Jobs : ~Mark(t), NEW p \in Plugins
    PROVE  app'.load[p].id \in {0, app.load[p].id}
<1>1. born' = born
  BY DEF Next, vars, Deliver, AckArrives, Reload, Session, RequestLoad, Request, Logout, Issue, Commit,
         Gate, RefreshAsks, RefreshAnswers, TimerFires, GateDrain, Watching, WatchEnds, WatchAbandons,
         WatchTurnsOff, Inject, Prepare, Recheck, PassStep, Collect, Look, PassFlags, RoundEnds,
         Reconcile, Settle, Enabling, Enable, EnableReadsSession, EnableFlags, Revert, Disabling, Disable,
         DisableLooks, DisableEnds, Restarting, Restart, RestartChecks, RestartFinds, RestartEnds,
         RestartAgain, RestartOff
<1>2. Len(born) \in Nat
  BY Sizes
<1>3. CASE Deliver \/ Reload
  BY <1>3 DEF Deliver, Reload
<1>4. CASE Logout
  BY <1>4, LogoutForms, GoneFits
<1>5. ASSUME NEW q \in Plugins, NEW i \in Nat, Ends(q, i) PROVE app'.load[p].id \in {0, app.load[p].id}
  BY <1>5, GoneFits DEF Ends, Undone
<1>6. ASSUME NEW t \in Jobs, Marks(t) PROVE FALSE
  <2>1. born' = Append(born, job[t].epoch) /\ born \in Seq(0..MaxEpoch)
    BY <1>6 DEF Marks, Formed, Shape, PageShape
  <2>2. job[t].epoch \in 0..MaxEpoch
    BY JobFits DEF Formed, Slots
  <2>3. Len(born') = Len(born) + 1
    BY <2>1, <2>2
  <2> QED
    BY <1>1, <1>2, <2>3
<1>7. ASSUME NEW t \in Jobs, Posts(t) PROVE app'.load[p].id \in {0, app.load[p].id}
  BY <1>7 DEF Posts
<1> QED
  BY <1>3, <1>4, <1>5, <1>6, <1>7, LoadSteps DEF Calm

(* The current load, undone, is gone. *)
LEMMA UndoneIsGone ==
    ASSUME Shape, NEW p \in Plugins, NEW i \in Nat, Undo(p, i), i = app.load[p].id
    PROVE  app'.load[p].id = 0
<1>1. Undone(p, i)
  BY Undoing DEF Shape
<1> QED
  BY <1>1, GoneFits DEF Undone

(* The one load still marked for p is a restart's, which looks at the flag again. *)
LEMMA MarkCloses ==
    ASSUME Formed, NEW t \in Jobs, Mark(t), NEW p \in Plugins, Closing(p), ToMark(p) = {}
    PROVE  Closing(p)'
<1>1. Shape /\ Carries
  BY DEF Formed
<1>2. /\ at[t] = "mark" /\ at'[t] = "prepare" /\ Others(t) /\ job[t].plugin \in Plugins
      /\ job'[t].plugin = job[t].plugin /\ job'[t].id = Len(born) + 1
  BY <1>1, MarkTask DEF Mark, Became, Names
<1>3. /\ app'.load[job[t].plugin].id = Len(born) + 1
      /\ \A q \in Plugins \ {job[t].plugin} : app'.load[q] = app.load[q]
  BY MarkForms
<1>4. t # "disable"
  BY <1>1, <1>2, JobFits DEF Fits, DisableSteps
<1>5. CASE job[t].plugin = p
  <2>1. ~Takes(t, at[t], job[t], p)
    BY ToMarkIs
  <2>2. t = "restart"
    BY <1>2, <1>4, <1>5, <2>1, PluginLoadsAssumption DEF Takes, Jobs
  <2>3. "restart" \in Calls
    BY <2>2, PluginLoadsAssumption DEF Jobs
  <2> QED
    BY <1>2, <1>3, <1>5, <2>2, <2>3 DEF Closing
<1>6. CASE job[t].plugin # p
  <2>1. app'.load[p].id = app.load[p].id
    BY <1>3, <1>6
  <2>2. "disable" \in Calls => at'["disable"] = at["disable"] /\ job'["disable"] = job["disable"]
    BY <1>2, <1>4 DEF Others, Jobs
  <2>3. "restart" \in Calls /\ t # "restart"
          => at'["restart"] = at["restart"] /\ job'["restart"] = job["restart"]
    BY <1>2 DEF Others, Jobs
  <2>4. t = "restart" => at["restart"] = "mark"
    BY <1>2
  <2> QED
    BY <2>1, <2>2, <2>3, <2>4 DEF Closing
<1> QED
  BY <1>5, <1>6

(* The disable ends the load it found, if that is still the current one. *)
LEMMA DisableCloses ==
    ASSUME Formed, "disable" \in Calls, Disabling, NEW p \in Plugins,
           at["disable"] = "end", job["disable"].plugin = p, job["disable"].id = app.load[p].id
    PROVE  app'.load[p].id = 0
<1>1. DisableEnds
  BY DEF Disabling, Disable, DisableLooks
<1>2. job["disable"].id \in Nat
  BY <1>1, DisableEndsTask DEF Formed
<1> QED
  BY <1>1, <1>2, UndoneIsGone DEF DisableEnds, Formed

(* The restart undoes its load, or has yet to look at the flag. *)
LEMMA RestartCloses ==
    ASSUME Formed, "restart" \in Calls, NEW p \in Plugins \ on,
           Restarting \/ Prepare("restart") \/ Recheck("restart"),
           at["restart"] \in {"prepare", "recheck", "again"},
           job["restart"].plugin = p, job["restart"].id = app.load[p].id
    PROVE  \/ app'.load[p].id = 0
           \/ /\ at'["restart"] \in {"prepare", "recheck", "again"}
              /\ job'["restart"] = job["restart"] /\ UNCHANGED app
<1> DEFINE t == "restart"
           i == app.load[p].id
<1>1. t \in Jobs /\ Shape /\ Carries /\ i \in Nat
  BY Sizes DEF Jobs, Formed
<1>2. CASE Restarting
  <2>1. RestartAgain
    BY <1>2 DEF Restarting, Restart, RestartChecks, RestartFinds, RestartEnds, RestartOff
  <2>2. Undo(p, i)
    BY <2>1 DEF RestartAgain, WantedStill
  <2> QED
    BY <1>1, <2>2, UndoneIsGone
<1>3. CASE Prepare(t)
  <2>1. \/ at'[t] = "recheck" /\ job'[t] = job[t] /\ UNCHANGED app
        \/ Undo(p, i)
    BY <1>1, <1>3, PrepareTask
  <2> QED
    BY <1>1, <2>1, UndoneIsGone
<1>4. CASE Recheck(t)
  <2>1. \/ at'[t] = "again" /\ job'[t] = job[t] /\ UNCHANGED app
        \/ Undo(p, i)
    BY <1>1, <1>4, RecheckTask
  <2> QED
    BY <1>1, <2>1, UndoneIsGone
<1> QED
  BY <1>2, <1>3, <1>4

(* So p's load stays one that will be ended. *)
LEMMA ClosingStays ==
    ASSUME Formed, [Next]_vars, NEW p \in Plugins \ on, ToMark(p) = {}, Closing(p)
    PROVE  Closing(p)'
<1>1. Shape /\ Carries
  BY DEF Formed
<1>2. CASE \E t \in Jobs : Mark(t)
  BY <1>2, MarkCloses
<1>3. CASE app'.load[p].id = 0
  BY <1>3 DEF Closing
<1>4. ASSUME app'.load[p].id # 0, \A t \in Jobs : ~Mark(t) PROVE Closing(p)'
  <2>1. app'.load[p].id = app.load[p].id
    BY <1>4, OnlyMarks
  <2>2. CASE /\ "disable" \in Calls /\ at["disable"] = "end"
             /\ job["disable"].plugin = p /\ job["disable"].id = app.load[p].id
    <3>1. ASSUME at'["disable"] = at["disable"], job'["disable"] = job["disable"] PROVE Closing(p)'
      BY <2>1, <2>2, <3>1 DEF Closing
    <3>2. ASSUME NEW t \in Jobs, t # "disable", Others(t) PROVE Closing(p)'
      BY <2>2, <3>1, <3>2 DEF Others, Jobs
    <3>3. ASSUME NEW t \in Jobs, Inject(t) PROVE Closing(p)'
      <4>1. t # "disable"
        BY <2>2, <3>3 DEF Inject, Mark, Prepare, Recheck
      <4> QED
        BY <1>1, <3>2, <3>3, <4>1, OthersMove
    <3>4. ASSUME NEW t \in Passes, Others(t) PROVE Closing(p)'
      BY <1>1, <3>2, <3>4, TaskIs DEF Jobs
    <3>5. ASSUME NEW t \in Passes, PassStep(t) PROVE Closing(p)'
      <4>1. t \in Jobs
        BY DEF Jobs
      <4> QED
        BY <1>1, <3>4, <3>5, <4>1, OthersMove
    <3>6. ~Disabling
      BY <1>4, <2>2, DisableCloses
    <3>7. CASE ("enable" \in Calls /\ Enabling) \/ ("restart" \in Calls /\ Restarting)
      BY <1>1, <3>2, <3>7, OthersMove DEF Jobs
    <3> QED
      BY <3>1, <3>3, <3>4, <3>5, <3>6, <3>7, WhoMoves
  <2>3. CASE /\ "restart" \in Calls /\ at["restart"] \in {"prepare", "recheck", "again"}
             /\ job["restart"].plugin = p /\ job["restart"].id = app.load[p].id
    <3>1. ASSUME at'["restart"] \in {"prepare", "recheck", "again"}, job'["restart"] = job["restart"]
          PROVE  Closing(p)'
      BY <2>1, <2>3, <3>1 DEF Closing
    <3>2. ASSUME NEW t \in Jobs, t # "restart", Others(t) PROVE Closing(p)'
      BY <2>3, <3>1, <3>2 DEF Others, Jobs
    <3>3. ASSUME NEW t \in Jobs, Inject(t) PROVE Closing(p)'
      <4>1. CASE t = "restart"
        BY <1>4, <2>3, <3>1, <3>3, <4>1, RestartCloses DEF Inject
      <4> QED
        BY <1>1, <3>2, <3>3, <4>1, OthersMove
    <3>4. ASSUME NEW t \in Passes, Others(t) PROVE Closing(p)'
      BY <1>1, <3>2, <3>4, TaskIs DEF Jobs
    <3>5. ASSUME NEW t \in Passes, PassStep(t) PROVE Closing(p)'
      <4>1. t \in Jobs
        BY DEF Jobs
      <4> QED
        BY <1>1, <3>4, <3>5, <4>1, OthersMove
    <3>6. CASE Restarting
      BY <1>4, <2>3, <3>1, <3>6, RestartCloses
    <3>7. CASE ("enable" \in Calls /\ Enabling) \/ ("disable" \in Calls /\ Disabling)
      BY <1>1, <3>2, <3>7, OthersMove DEF Jobs
    <3>8. CASE UNCHANGED <<at, job>>
      BY <2>3, <3>1, <3>8
    <3> QED
      BY <3>3, <3>4, <3>5, <3>6, <3>7, <3>8, WhoMoves
  <2>4. app.load[p].id # 0
    BY <1>4, <2>1
  <2> QED
    BY <2>2, <2>3, <2>4 DEF Closing
<1> QED
  BY <1>2, <1>3, <1>4

(* A disable that was overtaken stays so. *)
LEMMA OvertakenStays == [Next]_vars => overtaken \subseteq overtaken'
<1> SUFFICES ASSUME [Next]_vars PROVE overtaken \subseteq overtaken'
  OBVIOUS
<1>1. CASE DisableLooks
  BY <1>1 DEF DisableLooks
<1>2. ASSUME ~DisableLooks PROVE overtaken' = overtaken
  BY <1>2 DEF Next, vars, past, Deliver, AckArrives, Reload, Session, RequestLoad, Request, Logout,
         Issue, Commit, Gate, RefreshAsks, RefreshAnswers, TimerFires, GateDrain, Watching, WatchEnds,
         WatchAbandons, WatchTurnsOff, Inject, Mark, Prepare, Recheck, PassStep, Collect, Look, PassFlags,
         RoundEnds, Reconcile, Settle, Enabling, Enable, EnableReadsSession, EnableFlags, Revert,
         Disabling, Disable, DisableEnds, Restarting, Restart, RestartChecks, RestartFinds, RestartEnds,
         RestartAgain, RestartOff
<1> QED
  BY <1>1, <1>2

(* The disable finds what there is, unless a task has p to mark still. *)
LEMMA AskedGoesOn ==
    ASSUME Formed, [Next]_vars, NEW p \in Plugins \ on, p \notin on', p \notin overtaken', Asked(p)
    PROVE  Asked(p)' \/ (ToMark(p)' = {} /\ Closing(p)')
<1>1. Shape /\ Carries /\ "disable" \in Jobs
  BY DEF Formed, Asked, Jobs
<1>2. CASE DisableLooks
  <2>1. job["disable"].plugin = p /\ "disable" \in Calls
    BY DEF Asked
  <2>2. ToMark(p) = {}
    BY <1>2, <2>1 DEF DisableLooks
  <2>3. ToMark(p)' = {}
    BY <2>2, ToMarkShrinks
  <2>4. app' = app
    BY <1>2 DEF DisableLooks
  <2>5. \/ app.load[p].id = 0
        \/ Became("disable", "end", p, app.load[p].id, job["disable"].epoch)
    BY <1>1, <1>2, <2>1, DisableLooksTask
  <2>6. Closing(p)'
    BY <2>1, <2>4, <2>5 DEF Closing, Became, Names
  <2> QED
    BY <2>3, <2>6
<1>3. ASSUME at'["disable"] = at["disable"], job'["disable"] = job["disable"] PROVE Asked(p)'
  BY <1>3 DEF Asked
<1>4. ASSUME NEW t \in Jobs, t # "disable", Others(t) PROVE Asked(p)'
  BY <1>1, <1>3, <1>4 DEF Others
<1>5. ASSUME NEW t \in Jobs, Inject(t) PROVE Asked(p)'
  <2>1. t # "disable"
    BY <1>5 DEF Inject, Mark, Prepare, Recheck, Asked
  <2> QED
    BY <1>1, <1>4, <1>5, <2>1, OthersMove
<1>6. ASSUME NEW t \in Passes, Others(t) \/ PassStep(t) PROVE Asked(p)'
  <2>1. t \in Jobs /\ t # "disable"
    BY <1>1, TaskIs DEF Jobs
  <2> QED
    BY <1>1, <1>4, <1>6, <2>1, OthersMove
<1>7. CASE ("enable" \in Calls /\ Enabling) \/ ("restart" \in Calls /\ Restarting)
  BY <1>1, <1>4, <1>7, OthersMove DEF Jobs
<1>8. CASE Disabling
  BY <1>2, <1>8 DEF Disabling, Disable, DisableEnds, Asked
<1> QED
  BY <1>3, <1>5, <1>6, <1>7, <1>8, WhoMoves

(* Whichever step turned p off, it was its user's; or p was off before it, and for that. *)
LEMMA TurnedOff ==
    ASSUME Formed, [Next]_vars, NEW p \in Plugins, p \notin on', why'[p] = "user"
    PROVE  (p \notin on /\ why[p] = "user") \/ Asked(p)'
<1>1. ASSUME NEW ps, NEW reason, TurnOff(ps, reason), p \notin ps \/ reason # "user"
      PROVE  p \notin on /\ why[p] = "user"
  BY <1>1 DEF TurnOff
<1>2. CASE on \subseteq on' /\ UNCHANGED why
  BY <1>2
<1>3. ASSUME NEW t \in Passes, Reconcile(t) PROVE p \notin on /\ why[p] = "user"
  BY <1>1, <1>3 DEF Reconcile
<1>4. CASE "disable" \in Calls /\ Disable
  <2>1. PICK q \in on : TurnOff({q}, "user") /\ job'["disable"].plugin = q /\ at'["disable"] = "look"
                        /\ "disable" \in Calls
    <3>1. Shape
      BY DEF Formed
    <3> QED
      BY <1>4, <3>1, DisableTask DEF Became, Names
  <2>2. p = q => Asked(p)'
    BY <2>1 DEF Asked
  <2>3. p # q => p \notin on /\ why[p] = "user"
    BY <1>1, <2>1
  <2> QED
    BY <2>2, <2>3
<1>5. ASSUME NEW ps \in SUBSET Plugins, NEW reason \in {"revert", "idle", "source"}, TurnOff(ps, reason)
      PROVE  p \notin on /\ why[p] = "user"
  BY <1>1, <1>5
<1> QED
  BY <1>2, <1>3, <1>4, <1>5, FlagSteps DEF Flags

(* Every step leaves a plugin its user turned off as it should be. *)
LEMMA UserOffStep ==
    ASSUME Formed, UserOff, [Next]_vars
    PROVE  UserOff'
<1> SUFFICES ASSUME NEW p \in Plugins, p \notin on', p \notin overtaken', why'[p] = "user"
             PROVE  Asked(p)' \/ (ToMark(p)' = {} /\ Closing(p)')
  BY DEF UserOff
<1>1. CASE p \notin on /\ why[p] = "user"
  <2>1. p \notin overtaken
    BY OvertakenStays
  <2>2. Asked(p) \/ (ToMark(p) = {} /\ Closing(p))
    BY <1>1, <2>1 DEF UserOff
  <2>3. CASE Asked(p)
    BY <1>1, <2>3, AskedGoesOn
  <2>4. CASE ToMark(p) = {} /\ Closing(p)
    BY <1>1, <2>4, ToMarkShrinks, ClosingStays
  <2> QED
    BY <2>2, <2>3, <2>4
<1> QED
  BY <1>1, TurnedOff

(* At first no user turned anything off. *)
LEMMA UserOffInit == Init => UserOff
  BY DEF Init, UserOff

(* Quiet, p's load has no task to end it, so it has no load; and what runs is no ghost. *)
LEMMA OffIsOff == UserOff /\ NoGhost => OffStaysOff
<1> SUFFICES ASSUME UserOff, NoGhost, Quiet, NEW p \in Plugins, p \notin on, p \notin overtaken,
                    why[p] = "user"
             PROVE  page[p].runs = 0 \/ <<p, page[p].runs>> \in strays
  BY DEF OffStaysOff
<1>1. mail = {} /\ \A t \in Jobs : at[t] \in {"idle", "over"}
  BY DEF Quiet
<1>2. app.load[p].id = 0
  BY <1>1 DEF UserOff, Asked, Closing, Jobs
<1> QED
  BY <1>1, <1>2 DEF NoGhost

(* In every history a plugin its user turned off does not run once everything posted has       *)
(* arrived, whichever restart or enable it raced, unless it strayed past a reload or was       *)
(* overtaken; and a pass turns off only what failed (do_plugin_disable, restart_live,          *)
(* pass_duty).                                                                                 *)
THEOREM FlagsCorrect == Spec => []FlagsHold
<1>1. Init => UserOff
  BY UserOffInit
<1>2. Formed /\ UserOff /\ [Next]_vars => UserOff'
  BY UserOffStep
<1>3. NothingOutlives /\ UserOff /\ FailedByItself => FlagsHold
  BY OffIsOff DEF NothingOutlives, FlagsHold
<1> QED
  BY <1>1, <1>2, <1>3, WellFormed, NothingOutlivesCorrect, FailedByItselfCorrect, PTL DEF Spec
=============================================================================
