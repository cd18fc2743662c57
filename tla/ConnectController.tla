-------------------------- MODULE ConnectController --------------------------
(***************************************************************************)
(* TIDAL Connect, this host as the controller: connect requests share or   *)
(* replace one attempt (connect/controller/flight.rs), an attempt dials a  *)
(* device and has it start a session or resume the one kept                *)
(* (connect/controller/dial.rs, connect/ipc/controller.rs), its settle     *)
(* step installs that session (connect/controller/mod.rs, session.rs), an  *)
(* event loop relays what the socket says, and the page is told            *)
(* (frontend/src/connect/index.ts).  The requests' tasks, the loops, the   *)
(* UI thread's disconnect, the exit and the devices all run at once.       *)
(*                                                                         *)
(* A step is one hold of the slot or of the controller.  A request's       *)
(* number names its attempt, its socket and the session it starts.         *)
(***************************************************************************)
EXTENDS Naturals, Sequences, FiniteSets, SequencesExt

CONSTANTS Requests,     \* connect requests, numbered in the order the page sends them
          Devices,      \* the devices mDNS may find
          Histories     \* what a history may meet: incidents, and the device each request names

None    == 0
Nothing == [sid |-> None, dev |-> None, live |-> FALSE, sock |-> None, conn |-> 0]
NoPlan  == [sid |-> None, conn |-> 0]

(* A malformed request; a task or a loop that dies; a socket lost; an end   *)
(* the device sends; a disconnect; the application quitting; a page reload. *)
Incidents == {"malformed", "dies", "loop", "lost", "ended", "stop", "keep", "quit", "reload", "reloaded"}
(* Why a connect failed.  "failed" stands for the dial's own reasons.       *)
Failures  == {"failed", "superseded", "cancelled", "aborted"}

ASSUME ConnectAssumption ==
    /\ Requests \subseteq Nat \ {0} /\ IsFiniteSet(Requests)
    /\ None \notin Devices
    /\ Histories \subseteq [meets : SUBSET Incidents, asks : [Requests -> Devices \cup {None}]]

VARIABLES
    incidents,  \* those the history may still meet
    wants,      \* rigid: request -> the device it names, or None for none made
    slot,       \* the request whose attempt is in flight, or None
    closed,     \* the exit has closed the flights
    hooks,      \* the abort hooks registered, in order: of these, `armed` are untaken
    armed,      \* the requests whose abort hook nobody has taken
    reason,     \* leader -> why its attempt was stopped, or "none"
    done,       \* leader -> the answer of its flight, or "none" while there is none
    at,         \* request -> where its task is
    joined,     \* request -> the leader it waits on, itself when it leads, or None
    plan,       \* leader -> the session it is to resume
    result,     \* request -> what its attempt, then the request, ended in
    announce,   \* the requests that tell TIDAL of their failure
    answers,    \* request -> the answers its callback was given
    sock,       \* leader -> its socket: connected while "up"
    device,     \* leader -> what the device did on that socket
    inbox,      \* leader -> the events of its socket nobody has read
    loop,       \* leader -> the generation of its socket's event loop, 0 for none
    session, gen, endOwed,  \* the controller
    exiting,    \* the exit: "no", "hooks" it still runs, "down"
    stopping,   \* a disconnect between its two halves: "no", "stop", "keep"
    posts,      \* lifecycle events queued for the page
    page,       \* the page: the newest generation it applied, what it is armed for, what
                \* TIDAL was told, and whether its snapshot is read
    over,       \* history: the sessions TIDAL was told are over for good
    surplus     \* history: an end was told when none was owed

flights  == <<slot, closed, hooks, reason, done>>
request  == <<at, joined, plan, result, announce, answers, armed>>
sockets  == <<sock, device, inbox, loop>>
control  == <<session, gen, endOwed>>
told     == <<posts, page, over, surplus>>
others   == <<wants, incidents, exiting, stopping>>
vars     == <<flights, request, sockets, control, others, told>>

May(what) == what \in incidents

-----------------------------------------------------------------------------
(* The page. *)
FreshPage == [newest |-> 0, armed |-> <<0, None>>, told |-> "none", read |-> TRUE]
NotArmed  == <<0, None>>

(* Faulty: a start of the armed session reads as a repeat on any socket. *)
SameSession(p, conn, sid) == p.armed[2] = sid
IsRepeat(p, conn, sid)    == p.armed = <<conn, sid>>
Connected(p, conn, sid) ==
    IF IsRepeat(p, conn, sid) THEN p
    ELSE [p EXCEPT !.armed = <<conn, sid>>, !.told = "connected"]

(* One event, in the order posted; one older than a generation applied is   *)
(* dropped.  A failure carries no generation.                               *)
Land(p, e) ==
    LET q == [p EXCEPT !.newest = e.conn] IN
    IF e.kind = "failed" THEN [p EXCEPT !.told = "failed"]
    ELSE IF e.conn < p.newest THEN p
    ELSE CASE e.kind = "started" -> Connected(q, e.conn, e.sid)
           [] e.kind = "ended"   -> [q EXCEPT !.armed = NotArmed, !.told = "ended"]
           [] e.kind = "lost"    -> [q EXCEPT !.told = "lost"]

(* Posting queues a task of the UI thread.  Where the page never reloads it *)
(* lands at once: the order of the events is all that counts then.          *)
Reloads == incidents \cap {"reload", "reloaded"} # {}
Tell(events) ==
    IF Reloads THEN posts' = posts \o events /\ UNCHANGED page
               ELSE page' = FoldLeft(Land, page, events) /\ UNCHANGED posts

Started(s)       == [kind |-> "started", conn |-> s.conn, sid |-> s.sid]
Ended(g, for)    == [kind |-> "ended", conn |-> g, sid |-> for]
Lost(g)          == [kind |-> "lost", conn |-> g, sid |-> None]
Failed           == [kind |-> "failed", conn |-> 0, sid |-> None]

(* Every event the controller hands out: a start owes an end, an end        *)
(* settles it.  `finals` are the sessions told over for good.               *)
Owing(owed, e)   == CASE e.kind = "started" -> TRUE [] e.kind = "ended" -> FALSE [] OTHER -> owed
Spare(owed, e)   == e.kind = "ended" /\ ~owed
HandOut(events, finals) ==
    /\ endOwed' = FoldLeft(Owing, endOwed, events)
    /\ surplus' = (surplus \/ (events # <<>> /\ Spare(endOwed, Head(events))))
    /\ over' = over \cup finals
    /\ Tell(events)
Quiet == UNCHANGED <<endOwed, told>>

-----------------------------------------------------------------------------
(* The controller and its sockets. *)
IsLive == session.live /\ sock[session.sock] = "up"

(* WsClient::shutdown: a loop still reading the socket gets one more loss.  *)
Cut(S) ==
    LET now == {s \in S \ {None} : sock[s] = "up"} IN
    /\ sock'  = [s \in Requests |-> IF s \in S \/ s \in now THEN "shut" ELSE sock[s]]
    /\ inbox' = [s \in Requests |-> CASE s \in S /\ loop[s] = 0 -> <<>>
                                      [] s \in now /\ loop[s] # 0 -> Append(inbox[s], "lost")
                                      [] OTHER -> inbox[s]]

(* Faulty: the generation goes down. *)
GenBack == gen - 1
NextGen == gen + 1
SetAside(s, suspended) == IF suspended THEN [s EXCEPT !.live = FALSE] ELSE Nothing

(* The generation moves ahead of the cut: its loss is stale.                *)
Retire(suspended) ==
    /\ gen' = NextGen
    /\ session' = SetAside(session, suspended)

IsAnnounced(why) == why \in {"failed", "aborted"}

(* settle_failure: an announced failure retires a session that is not live, *)
(* and TIDAL hears the end it is owed.                                      *)
EndsWith(why) == IsAnnounced(why) /\ ~IsLive
OwedEnd == IF endOwed THEN <<Ended(NextGen, session.sid)>> ELSE <<>>
Final(s) == {s.sid} \ {None}
SettleFailure(why, also, more) ==
    IF EndsWith(why)
      THEN /\ Retire(FALSE) /\ Cut({session.sock} \cup also)
           /\ HandOut(OwedEnd \o more, Final(session))
      ELSE /\ Cut(also) /\ UNCHANGED <<session, gen>>
           /\ HandOut(more, {})
IsToldOf(why) == IsAnnounced(why) /\ ~IsLive

-----------------------------------------------------------------------------
(* Requests and flights. *)
Init ==
    /\ \E h \in Histories : incidents = h.meets /\ wants = h.asks
    /\ slot = None /\ closed = FALSE /\ hooks = <<>> /\ armed = {}
    /\ reason = [r \in Requests |-> "none"] /\ done = [r \in Requests |-> "none"]
    /\ at = [r \in Requests |-> "idle"]
    /\ joined = [r \in Requests |-> None] /\ plan = [r \in Requests |-> NoPlan]
    /\ result = [r \in Requests |-> "none"] /\ announce = {}
    /\ answers = [r \in Requests |-> <<>>]
    /\ sock = [r \in Requests |-> "none"] /\ device = [r \in Requests |-> "silent"]
    /\ inbox = [r \in Requests |-> <<>>] /\ loop = [r \in Requests |-> 0]
    /\ session = Nothing /\ gen = 0 /\ endOwed = FALSE
    /\ exiting = "no" /\ stopping = "no"
    /\ posts = <<>> /\ page = FreshPage /\ over = {} /\ surplus = FALSE

Goes(r, from, to) == at[r] = from /\ at' = [at EXCEPT ![r] = to]

(* The handler, on the UI thread, which also runs the disconnect's halves:  *)
(* it leaves a task.                                                        *)
Call(r) ==
    /\ wants[r] # None /\ Goes(r, "idle", "called") /\ \A q \in Requests : q < r => at[q] # "idle"
    /\ stopping = "no" /\ exiting = "no"
    /\ UNCHANGED <<joined, plan, result, announce, answers, armed, flights, sockets, control, others, told>>

(* A request that names no device fails before any attempt.                 *)
Malformed(r) ==
    /\ May("malformed") /\ incidents' = incidents \ {"malformed"} /\ Goes(r, "called", "settled")
    /\ joined' = [joined EXCEPT ![r] = r] /\ armed' = armed \cup {r}
    /\ result' = [result EXCEPT ![r] = "failed"]
    /\ announce' = announce \cup {q \in {r} : IsToldOf("failed")}
    /\ SettleFailure("failed", {}, <<>>)
    /\ UNCHANGED <<plan, answers, flights, device, loop, wants, exiting, stopping>>

(* The slot's flight is stopped: its waiters are answered here, its leader  *)
(* wakes on the reason.                                                     *)
Fired(why) == [l \in Requests |-> IF l = slot THEN why ELSE reason[l]]
Answered(l, what) == [done EXCEPT ![l] = what]

JoinClosed(r) ==
    /\ closed /\ Goes(r, "called", "settled")
    /\ result' = [result EXCEPT ![r] = "aborted"] /\ armed' = armed \cup {r}
    /\ UNCHANGED <<joined, plan, announce, answers, flights, sockets, control, others, told>>

(* The hooks of answered requests, which the code drops here, are passed    *)
(* over when the exit runs the hooks.                                       *)
Registered(r) == Append(hooks, r)

Follow(r) ==
    /\ ~closed /\ slot # None /\ wants[slot] = wants[r] /\ Goes(r, "called", "waiting")
    /\ joined' = [joined EXCEPT ![r] = slot]
    /\ hooks' = Registered(r) /\ armed' = armed \cup {r}
    /\ UNCHANGED <<plan, result, announce, answers, slot, closed, reason, done, sockets, control, others, told>>

Supersede == Fired("superseded")
Lead(r) ==
    /\ ~closed /\ (slot # None => wants[slot] # wants[r]) /\ Goes(r, "called", "planning")
    /\ reason' = Supersede
    /\ done' = IF slot = None THEN done ELSE Answered(slot, "superseded")
    /\ slot' = r /\ joined' = [joined EXCEPT ![r] = r]
    /\ hooks' = Registered(r) /\ armed' = armed \cup {r}
    /\ UNCHANGED <<plan, result, announce, answers, closed, sockets, control, others, told>>

Wake(r) ==
    /\ Goes(r, "waiting", "settled") /\ done[joined[r]] # "none"
    /\ result' = [result EXCEPT ![r] = done[joined[r]]]
    /\ UNCHANGED <<joined, plan, announce, answers, armed, flights, sockets, control, others, told>>

(* The dial, awaited beside the flight's cancel.  A poll under way when the *)
(* attempt is stopped runs on to its next await.                            *)
Planned(s, d) == IF s.dev = d THEN [sid |-> s.sid, conn |-> s.conn] ELSE NoPlan
Plan(r) ==
    /\ Goes(r, "planning", "dialling")
    /\ plan' = [plan EXCEPT ![r] = Planned(session, wants[r])]
    /\ UNCHANGED <<joined, result, announce, answers, armed, flights, sockets, control, others, told>>

Dial(r) ==
    /\ Goes(r, "dialling", "asking")
    /\ sock' = [sock EXCEPT ![r] = "up"]
    /\ UNCHANGED <<joined, plan, result, announce, answers, armed, flights, device, inbox, loop, control, others, told>>

(* The dial's own end; a socket held by it is shut.                         *)
EndDial(r, what) ==
    /\ at' = [at EXCEPT ![r] = "dialled"] /\ result' = [result EXCEPT ![r] = what]
    /\ IF what = "ok" THEN UNCHANGED <<sock, inbox>> ELSE Cut({q \in {r} : sock[q] # "none"})
    /\ UNCHANGED <<joined, plan, announce, answers, armed, flights, device, loop, control, others, told>>

DialFails(r) == at[r] = "dialling" /\ EndDial(r, "failed")

(* What the device says first: yes, or a refusal, or the socket is lost.    *)
ReadAnswer(r) ==
    /\ at[r] = "asking" /\ inbox[r] # <<>>
    /\ IF Head(inbox[r]) = "yes"
         THEN /\ at' = [at EXCEPT ![r] = "dialled"] /\ result' = [result EXCEPT ![r] = "ok"]
              /\ inbox' = [inbox EXCEPT ![r] = Tail(@)]
              /\ UNCHANGED <<joined, plan, announce, answers, armed, flights, sock, device, loop, control, others, told>>
         ELSE EndDial(r, "failed")

(* RESUME_DEADLINE: a start waits without one.                              *)
ResumeDeadline(r) == at[r] = "asking" /\ plan[r] # NoPlan /\ inbox[r] = <<>> /\ EndDial(r, "failed")

Preempt(r) == at[r] \in {"planning", "dialling", "asking"} /\ reason[r] # "none" /\ EndDial(r, reason[r])

-----------------------------------------------------------------------------
(* The settle step: one hold of the slot, the controller's inside it. *)
Reason(r)    == IF reason[r] = "none" THEN "aborted" ELSE reason[r]
(* Faulty: the attempts are compared by the device they name. *)
SameDevice(r) == slot # None /\ wants[slot] = wants[r]
IsCurrent(r) == slot = r

Settled(r, what, tells) ==
    /\ Goes(r, "dialled", "settled")
    /\ result' = [result EXCEPT ![r] = what]
    /\ announce' = announce \cup {q \in {r} : tells}
    /\ UNCHANGED <<joined, plan, answers, armed, device, others>>

Leave(r, what) ==
    /\ slot' = None /\ done' = Answered(r, what)
    /\ UNCHANGED <<closed, hooks, reason>>

Discard(r) ==
    /\ ~IsCurrent(r) /\ Settled(r, Reason(r), FALSE)
    /\ Cut({q \in {r} : sock[q] # "none"})
    /\ UNCHANGED <<flights, loop, control, told>>

(* adopt_started: over a live session of another device, its end first.     *)
Install(r, s, events, finals) ==
    /\ IsCurrent(r) /\ result[r] = "ok" /\ Settled(r, "ok", FALSE) /\ Leave(r, "ok")
    /\ session' = s /\ gen' = s.conn /\ loop' = [loop EXCEPT ![r] = s.conn]
    /\ Cut({session.sock} \ {None})
    /\ HandOut(events, finals)

InstallStarted(r) ==
    LET s == [sid |-> r, dev |-> wants[r], live |-> TRUE, sock |-> r, conn |-> NextGen] IN
    /\ plan[r] = NoPlan
    /\ Install(r, s, (IF session.live THEN <<Ended(NextGen, session.sid)>> ELSE <<>>) \o <<Started(s)>>,
               IF session.live THEN Final(session) ELSE {})

IsPlanned(r) == /\ session.sid = plan[r].sid /\ session.conn = plan[r].conn
                /\ session.dev = wants[r]

MovedGen == NextGen
InstallResumed(r) ==
    LET s == [session EXCEPT !.live = TRUE, !.sock = r, !.conn = MovedGen] IN
    /\ plan[r] # NoPlan /\ IsPlanned(r) /\ sock[r] = "up"
    /\ Install(r, s, IF session.live THEN <<>> ELSE <<Started(s)>>, {})

(* Nothing was dialled, or what it was for is gone, or the socket died.     *)
NotInstalled(r) ==
    CASE result[r] # "ok"         -> result[r]
      [] result[r] = "ok" /\ plan[r] # NoPlan /\ ~IsPlanned(r) -> "cancelled"
      [] result[r] = "ok" /\ plan[r] # NoPlan /\ IsPlanned(r) /\ sock[r] # "up" -> "failed"
      [] OTHER                    -> "none"

FailAttempt(r) ==
    LET why == NotInstalled(r) IN
    /\ IsCurrent(r) /\ why # "none"
    /\ Settled(r, why, IsToldOf(why)) /\ Leave(r, why)
    /\ SettleFailure(why, {q \in {r} : sock[q] # "none"}, <<>>)
    /\ UNCHANGED loop

Settle(r) == Discard(r) \/ InstallStarted(r) \/ InstallResumed(r) \/ FailAttempt(r)

(* The request's own answer, unless the exit took its hook and gave it.     *)
(* Faulty: a request answers without taking its hook. *)
Unclaimed(r) == TRUE
Claims(r) == r \in armed
Answer(r) ==
    /\ Goes(r, "settled", "ended") /\ armed' = armed \ {r}
    /\ answers' = IF Claims(r) THEN [answers EXCEPT ![r] = Append(@, result[r])] ELSE answers
    /\ IF Claims(r) /\ r \in announce THEN Tell(<<Failed>>) ELSE UNCHANGED <<posts, page>>
    /\ UNCHANGED <<joined, plan, result, announce, flights, sockets, control, others, over, surplus>>

(* A task that panics, or is dropped, at an await: what it dialled is shut  *)
(* and its flight leaves the slot, then its abort hook runs.                *)
(* Faulty: a flight whose leader died leaves its waiters unanswered. *)
LeftWaiting(r) == done
Abandoned(r) == IF slot = r THEN [done EXCEPT ![r] = "aborted"] ELSE done
Die(r) ==
    /\ May("dies") /\ at[r] \in {"planning", "dialling", "asking", "waiting"}
    /\ at' = [at EXCEPT ![r] = "dying"]
    /\ slot' = (IF slot = r THEN None ELSE slot) /\ done' = Abandoned(r)
    /\ Cut({q \in {r} : sock[q] # "none"})
    /\ UNCHANGED <<joined, plan, result, announce, answers, armed, closed, hooks, reason, device, loop, control, others, told>>

(* The abort hook: a leader's failure is settled and told, a follower only  *)
(* answers.  The settling and the telling are one step here: Answer has     *)
(* them apart.                                                              *)
Why(r) == IF joined[r] = r THEN Reason(r) ELSE "aborted"
RunHook(r) ==
    /\ armed' = armed \ {r}
    /\ answers' = [answers EXCEPT ![r] = Append(@, Why(r))]
    /\ IF joined[r] = r
         THEN SettleFailure(Why(r), {}, IF IsToldOf(Why(r)) THEN <<Failed>> ELSE <<>>)
         ELSE UNCHANGED <<sock, inbox, control, told>>

Dead(r) ==
    /\ Goes(r, "dying", "ended")
    /\ IF r \in armed THEN RunHook(r) ELSE UNCHANGED <<armed, answers, sock, inbox, control, told>>
    /\ UNCHANGED <<joined, plan, result, announce, flights, device, loop, others>>

-----------------------------------------------------------------------------
(* The user's disconnect, the flight ahead of the controller, and the exit. *)
StopFlight(why) ==
    /\ reason' = Fired(why)
    /\ done' = IF slot = None THEN done ELSE Answered(slot, why)
    /\ slot' = None

CancelFlight ==
    /\ stopping = "no" /\ exiting = "no" /\ \E r \in Requests : at[r] # "idle"
    /\ incidents \cap {"stop", "keep"} # {} /\ stopping' \in incidents \cap {"stop", "keep"}
    /\ StopFlight("cancelled")
    /\ UNCHANGED <<closed, hooks, wants, incidents, exiting, request, sockets, control, told>>

(* The endSession is queued first, and the socket closes once it is         *)
(* written.  Without stop_casting the device's own answer is waited for.    *)
Disconnect ==
    /\ stopping # "no" /\ stopping' = "no" /\ incidents' = incidents \ {stopping}
    /\ IF stopping = "stop"
         THEN /\ gen' = NextGen /\ session' = Nothing
              /\ Cut({session.sock} \ {None}) /\ HandOut(OwedEnd, Final(session))
         ELSE UNCHANGED <<sock, inbox, control, told>>
    /\ UNCHANGED <<wants, exiting, flights, request, device, loop>>

CloseFlights ==
    /\ May("quit") /\ exiting = "no" /\ stopping = "no" /\ exiting' = "hooks"
    /\ closed' = TRUE /\ StopFlight("aborted")
    /\ UNCHANGED <<hooks, wants, incidents, stopping, request, sockets, control, told>>

(* The hooks run outside the slot, in the order they were registered.       *)
CloseHook ==
    /\ exiting = "hooks" /\ hooks # <<>> /\ hooks' = Tail(hooks)
    /\ IF Head(hooks) \in armed THEN RunHook(Head(hooks))
                                ELSE UNCHANGED <<armed, answers, sock, inbox, control, told>>
    /\ UNCHANGED <<slot, closed, reason, done, at, joined, plan, result, announce, device, loop, others>>

Shutdown ==
    /\ exiting = "hooks" /\ hooks = <<>> /\ exiting' = "down"
    /\ gen' = NextGen /\ session' = Nothing /\ Cut({session.sock} \ {None})
    /\ UNCHANGED <<wants, incidents, stopping, flights, request, device, loop, endOwed, told>>

-----------------------------------------------------------------------------
(* A socket's event loop.  Check, handler and post share one hold. *)
IsStale(r) == loop[r] # gen

LoopLeaves(r) ==
    /\ loop[r] # 0 /\ IsStale(r) /\ inbox[r] # <<>>
    /\ loop' = [loop EXCEPT ![r] = 0] /\ inbox' = [inbox EXCEPT ![r] = <<>>]
    /\ UNCHANGED <<sock, device, flights, request, control, others, told>>

(* Cut, past the frame the loop has taken.                                  *)
CutReading(r, S) ==
    /\ sock'  = [s \in Requests |-> IF s \in S THEN "shut" ELSE sock[s]]
    /\ inbox' = [s \in Requests |-> CASE s = r -> IF r \in S /\ sock[r] = "up" THEN Append(Tail(inbox[r]), "lost")
                                                                             ELSE Tail(inbox[r])
                                      [] s \in S \ {r} /\ loop[s] # 0 /\ sock[s] = "up" -> Append(inbox[s], "lost")
                                      [] OTHER -> inbox[s]]

RelayEnd(r) ==
    LET suspended == Head(inbox[r]) = "suspended" IN
    /\ loop[r] # 0 /\ ~IsStale(r) /\ inbox[r] # <<>> /\ Head(inbox[r]) \in {"ended", "suspended"}
    /\ Retire(suspended) /\ CutReading(r, {session.sock} \ {None})
    /\ HandOut(<<Ended(NextGen, session.sid)>>, IF suspended THEN {} ELSE Final(session))
    /\ UNCHANGED <<device, loop, flights, request, others>>

RelayLost(r) ==
    /\ loop[r] # 0 /\ ~IsStale(r) /\ inbox[r] # <<>> /\ Head(inbox[r]) = "lost"
    /\ session' = [session EXCEPT !.live = FALSE]
    /\ loop' = [loop EXCEPT ![r] = 0] /\ inbox' = [inbox EXCEPT ![r] = <<>>]
    /\ HandOut(<<Lost(gen)>>, {})
    /\ UNCHANGED <<gen, sock, device, flights, request, others>>

(* A loop that panics or is dropped: its install is taken back.             *)
LoopDies(r) ==
    /\ May("loop") /\ loop[r] # 0 /\ loop' = [loop EXCEPT ![r] = 0]
    /\ incidents' = incidents \ {"loop"}
    /\ IF IsStale(r) THEN UNCHANGED <<sock, inbox, control, told>>
       ELSE /\ Retire(FALSE)
            /\ sock' = [sock EXCEPT ![r] = "shut"] /\ inbox' = [inbox EXCEPT ![r] = <<>>]
            /\ IF session.live THEN HandOut(<<Ended(NextGen, session.sid)>>, Final(session)) ELSE Quiet
    /\ UNCHANGED <<device, flights, request, wants, exiting, stopping>>

-----------------------------------------------------------------------------
(* The devices and the network. *)
DeviceSays(r, what, becomes) ==
    /\ sock[r] = "up" /\ device' = [device EXCEPT ![r] = becomes]
    /\ inbox' = [inbox EXCEPT ![r] = Append(@, what)]
    /\ UNCHANGED <<sock, loop, flights, request, control, others, told>>

Confirms(r) == device[r] = "silent" /\ DeviceSays(r, "yes", "holds")
Refuses(r)  == device[r] = "silent" /\ DeviceSays(r, "no", "over")
EndsIt(r)   == /\ May("ended") /\ device[r] = "holds"
               /\ \E what \in {"ended", "suspended"} : DeviceSays(r, what, "over")

(* The peer's Close, a dead connection, or the heartbeat's verdict.         *)
Loses(r) ==
    /\ May("lost") /\ sock[r] = "up" /\ sock' = [sock EXCEPT ![r] = "dead"]
    /\ inbox' = [inbox EXCEPT ![r] = Append(@, "lost")]
    /\ UNCHANGED <<device, loop, flights, request, control, others, told>>

(* The page. *)
Deliver ==
    /\ posts # <<>> /\ posts' = Tail(posts) /\ page' = Land(page, Head(posts))
    /\ UNCHANGED <<over, surplus, flights, request, sockets, control, others>>

(* A new page: what runs ahead of its listeners is lost.  Its snapshot is   *)
(* read and answered on the UI thread, ahead of what is still queued there. *)
Reload ==
    /\ May("reload") /\ incidents' = (incidents \ {"reload"}) \cup {"reloaded"}
    /\ \E n \in 0..Len(posts) : posts' = SubSeq(posts, n + 1, Len(posts))
    /\ page' = [FreshPage EXCEPT !.read = FALSE]
    /\ UNCHANGED <<over, surplus, flights, request, sockets, control, wants, exiting, stopping>>

Admits(p, conn) == conn >= p.newest
Snapshot ==
    /\ ~page.read
    /\ page' = LET p == [page EXCEPT !.read = TRUE] IN
               IF IsLive /\ p.armed = NotArmed /\ Admits(p, session.conn)
                 THEN Connected([p EXCEPT !.newest = session.conn], session.conn, session.sid) ELSE p
    /\ UNCHANGED <<posts, over, surplus, flights, request, sockets, control, others>>

-----------------------------------------------------------------------------
Task(r) ==
    \/ JoinClosed(r) \/ Follow(r) \/ Lead(r) \/ Wake(r) \/ Plan(r) \/ Dial(r) \/ DialFails(r)
    \/ ReadAnswer(r) \/ ResumeDeadline(r) \/ Preempt(r) \/ Settle(r) \/ Answer(r) \/ Dead(r)
Exit  == CloseHook \/ Shutdown
Relay(r) == LoopLeaves(r) \/ RelayEnd(r) \/ RelayLost(r)
Device(r) == Confirms(r) \/ Refuses(r) \/ EndsIt(r) \/ Loses(r)

Next ==
    \/ \E r \in Requests : Call(r) \/ Malformed(r) \/ Task(r) \/ Die(r)
                          \/ Relay(r) \/ LoopDies(r) \/ Device(r)
    \/ CancelFlight \/ Disconnect \/ CloseFlights \/ Exit \/ Deliver \/ Reload \/ Snapshot

Fairness == /\ \A r \in Requests : WF_vars(Task(r))
            /\ WF_vars(Exit)

Spec == Init /\ [][Next]_vars /\ Fairness

-----------------------------------------------------------------------------
(* Every variable holds a value of its kind. *)
Results == {"none", "ok"} \cup Failures
Places  == {"idle", "called", "waiting", "planning", "dialling", "asking", "dialled",
            "settled", "dying", "ended"}
Ids     == Requests \cup {None}
TypeOK ==
    /\ incidents \subseteq Incidents /\ slot \in Ids /\ closed \in BOOLEAN
    /\ armed \subseteq Requests /\ announce \subseteq Requests
    /\ reason \in [Requests -> {"none"} \cup Failures] /\ done \in [Requests -> Results]
    /\ at \in [Requests -> Places] /\ wants \in [Requests -> Devices \cup {None}]
    /\ joined \in [Requests -> Ids] /\ plan \in [Requests -> [sid : Ids, conn : Nat]]
    /\ result \in [Requests -> Results]
    /\ \A r \in Requests : /\ answers[r] \in Seq(Results)
                           /\ inbox[r] \in Seq({"yes", "no", "ended", "suspended", "lost"})
    /\ sock \in [Requests -> {"none", "up", "dead", "shut"}]
    /\ device \in [Requests -> {"silent", "holds", "over"}] /\ loop \in [Requests -> Nat]
    /\ session \in [sid : Ids, dev : Devices \cup {None}, live : BOOLEAN, sock : Ids, conn : Nat]
    /\ gen \in Nat /\ endOwed \in BOOLEAN
    /\ exiting \in {"no", "hooks", "down"} /\ stopping \in {"no", "stop", "keep"}
    /\ hooks \in Seq(Requests) /\ over \subseteq Requests /\ surplus \in BOOLEAN
    /\ posts \in Seq([kind : {"started", "ended", "lost", "failed"}, conn : Nat, sid : Ids])
    /\ page \in [newest : Nat, armed : Nat \X Ids, read : BOOLEAN,
                 told : {"none", "connected", "lost", "ended", "failed"}]

(* What TIDAL was told of a session is what the controller holds: a session *)
(* on a connected socket reads as connected in the page, and none does that *)
(* the controller has taken out of the live state.  Every post, a snapshot  *)
(* that overtakes them and every path that ends a session meet here         *)
(* (controller/mod.rs, ipc/controller.rs, connect/index.ts).  A page loaded  *)
(* between the loss of a socket and its relay is told nothing, and nothing   *)
(* of a resume that comes before the relay: Unheard.                         *)
Unheard == {"lost", "reloaded"} \subseteq incidents
PageAgrees ==
    posts = <<>> /\ page.read /\ exiting # "down" =>
        /\ IsLive /\ ~Unheard => page.told \in {"connected", "failed"}
        /\ page.told = "connected" => session.live

(* TIDAL's cast listener is cancelled by an end alone: the controller owes  *)
(* one exactly while a page that was there all along has it armed           *)
(* (controller/mod.rs: announce; index.ts: armedFor).                       *)
ArmedWhileOwed ==
    exiting # "down" /\ ~Reloads => (endOwed <=> page.armed # NotArmed)

(* TIDAL is never told of an end twice, whoever ends the session: the       *)
(* device, a disconnect, a failed connect or a loop that dies.              *)
NeverEndedTwice == ~surplus

(* A session TIDAL was told is over for good is never installed again, by a *)
(* resume that was under way when it ended (adopt_resumed: is_planned).     *)
OverStaysOver == session.sid \notin over

(* TIDAL, which has only what it is told, is told of each session and of    *)
(* its end once, and a session it was told is over stays over.              *)
PageIsTold == PageAgrees /\ ArmedWhileOwed /\ NeverEndedTwice /\ OverStaysOver

(* A request whose task is over was answered, once: by itself, or by the    *)
(* exit that took its hook (flight.rs: Armed, claim, close).                *)
AnsweredOnce == \A r \in Requests : /\ at[r] = "ended" => Len(answers[r]) = 1
                                    /\ Len(answers[r]) =< 1

(* An attempt a newer request, a disconnect or the exit has stopped         *)
(* installs nothing, however far its dial had come (flight.rs:              *)
(* settle_attempt).                                                         *)
StoppedInstallsNothing ==
    [][\A r \in Requests : session'.sock = r /\ session.sock # r => reason[r] = "none"]_vars

(* A session that stays leaves the live state by the oldest frame of its    *)
(* own socket only: nothing of a socket it was moved off, or of one before  *)
(* it, is taken for its own (relay_event: the generation).                  *)
LossIsItsOwn ==
    [][session.live /\ session'.sid = session.sid /\ ~session'.live =>
         /\ inbox[session.sock] # <<>>
         /\ Head(inbox[session.sock]) \in {"lost", "suspended"}]_vars

(* A session comes from an attempt that still stands, and goes only by what *)
(* its own socket says.                                                     *)
SessionKeepsItsSocket == StoppedInstallsNothing /\ LossIsItsOwn

(* Every request is answered, unless its device sits on a start, which has  *)
(* no deadline, or the page sent none.                                      *)
SitsOnStart(r) == joined[r] # None /\ at[joined[r]] = "asking" /\ plan[joined[r]] = NoPlan
AllAnswered == []<>(\A r \in Requests : at[r] \in {"idle", "ended"} \/ SitsOnStart(r))

(* A request gets one answer: never two, whatever raced to give it, and never*)
(* none.                                                                    *)
EachAnsweredOnce == []AnsweredOnce /\ AllAnswered
=============================================================================
