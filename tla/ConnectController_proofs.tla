----------------------- MODULE ConnectController_proofs -----------------------
(***************************************************************************)
(* TIDAL Connect as the controller, for any requests, devices and          *)
(* histories: a request is answered at most once, an attempt that was      *)
(* stopped installs nothing, a session is left by what its own socket says *)
(* alone, and the page is told.                                            *)
(***************************************************************************)
EXTENDS ConnectController, SequenceTheorems, TLAPS

(* Not asked yet; past the settle step; with a dial under way or behind.    *)
Fresh    == {"idle", "called"}
Done     == {"settled", "ended"}
Dialling == {"asking", "dialled"}

(***************************************************************************)
(* Requests and flights.                                                   *)
(***************************************************************************)
(* A request that was heard has its hook until it is answered, by the hook  *)
(* or by itself.                                                           *)
HookInv ==
    \A r \in Requests :
        /\ at[r] \in Fresh => r \notin armed /\ answers[r] = <<>>
        /\ at[r] \notin Fresh => r \in armed \/ Len(answers[r]) = 1
        /\ r \in armed => answers[r] = <<>> /\ at[r] # "ended"

(* The slot holds an attempt nobody has stopped; a follower has a leader.   *)
SlotInv ==
    \A r \in Requests :
        /\ at[r] \in Fresh => reason[r] = "none" /\ slot # r
        /\ slot = r => reason[r] = "none"
        /\ at[r] = "waiting" => joined[r] \in Requests

(***************************************************************************)
(* The session.                                                            *)
(***************************************************************************)
(* A live session has the newest generation and a loop on its socket, no    *)
(* other loop is current, and TIDAL is owed its end.                        *)
SessionInv ==
    /\ session.sid = None => session = Nothing
    /\ session.live => /\ endOwed /\ session.sock \in Requests
                       /\ session.conn = gen /\ gen # 0 /\ loop[session.sock] = gen
    /\ \A r \in Requests : loop[r] # 0 /\ loop[r] = gen => session.live /\ session.sock = r
    /\ \A r \in Requests : loop[r] =< gen
    /\ session.sock \in Requests => at[session.sock] \in Done
    /\ over \cup {session.sid} \subseteq {r \in Requests : at[r] \in Done} \cup {None}
    /\ session.sid \notin over /\ None \notin over
    /\ ~surplus

(* Without a loss the socket of a live session, and of a dial that went     *)
(* well, is up.                                                            *)
SocketInv ==
    "lost" \notin incidents =>
        /\ session.live => sock[session.sock] = "up"
        /\ \A r \in Requests : at[r] = "asking" \/ (at[r] = "dialled" /\ result[r] = "ok")
                                  => sock[r] = "up"

(***************************************************************************)
(* The page, and what is on its way to it.                                 *)
(***************************************************************************)
Says(e)    == e.kind # "failed"
Starts(e)  == e.kind = "started"
Stops(e)   == e.kind \in {"ended", "lost"}
Cheerful   == {"connected", "failed"}

(* What was posted is in the order of its generations, none ahead of the    *)
(* newest, and a start follows a loss in a later one.                       *)
Ordered(p, q, g) ==
    /\ p.armed[1] =< p.newest /\ p.newest =< g
    /\ \A i \in 1..Len(q) : Says(q[i]) => q[i].conn \in 1..g
    /\ \A i, j \in 1..Len(q) :
          i < j /\ Says(q[i]) /\ Says(q[j]) =>
              q[i].conn =< q[j].conn /\ (q[i].kind = "lost" /\ Starts(q[j]) => q[i].conn < q[j].conn)
    /\ p.told \notin Cheerful => \A j \in 1..Len(q) : Starts(q[j]) => q[j].conn # p.armed[1]

(* What makes the page say connected is undone by something behind it.      *)
Undone(p, q) ==
    \A i \in 0..Len(q) :
        (IF i = 0 THEN p.told = "connected" ELSE Starts(q[i]))
            => \E j \in (i + 1)..Len(q) : Stops(q[j]) /\ q[j].conn >= p.newest

(* What makes the page say otherwise has a start behind it; a page that has *)
(* not read its snapshot will.                                              *)
Restarted(p, q) ==
    /\ p.told \notin Cheerful /\ (p.read \/ p.armed # NotArmed) =>
           \E j \in 1..Len(q) : Starts(q[j]) /\ q[j].conn >= p.newest
    /\ \A i \in 1..Len(q) : Stops(q[i]) => \E j \in (i + 1)..Len(q) : Starts(q[j])

Story(p, q, g, live, heard) ==
    /\ Ordered(p, q, g)
    /\ live /\ heard => Restarted(p, q)
    /\ ~live => Undone(p, q)

PageInv ==
    /\ exiting # "down" => Story(page, posts, gen, session.live, ~Unheard)
    /\ "reloaded" \notin incidents => page.read
    /\ ~Reloads => posts = <<>> /\ (exiting # "down" => (endOwed <=> page.armed # NotArmed))

(* What is posted, and the page. *)
Event == [kind : {"started", "ended", "lost", "failed"}, conn : Nat, sid : Ids]
Page  == [newest : Nat, armed : Nat \X Ids, read : BOOLEAN,
          told : {"none", "connected", "lost", "ended", "failed"}]
Messages == {"yes", "no", "ended", "suspended", "lost"}
Session  == [sid : Ids, dev : Devices \cup {None}, live : BOOLEAN, sock : Ids, conn : Nat]

(* TypeOK, by the groups of variables a step leaves alone.                  *)
FlightsOK ==
    /\ slot \in Ids /\ closed \in BOOLEAN /\ hooks \in Seq(Requests)
    /\ reason \in [Requests -> {"none"} \cup Failures] /\ done \in [Requests -> Results]
RequestOK ==
    /\ at \in [Requests -> Places] /\ joined \in [Requests -> Ids]
    /\ plan \in [Requests -> [sid : Ids, conn : Nat]] /\ result \in [Requests -> Results]
    /\ armed \subseteq Requests /\ announce \subseteq Requests
    /\ answers \in [Requests -> Seq(Results)]
SocketsOK ==
    /\ sock \in [Requests -> {"none", "up", "dead", "shut"}] /\ inbox \in [Requests -> Seq(Messages)]
    /\ device \in [Requests -> {"silent", "holds", "over"}] /\ loop \in [Requests -> Nat]
ControlOK == session \in Session /\ gen \in Nat /\ endOwed \in BOOLEAN
ToldOK    == posts \in Seq(Event) /\ page \in Page /\ over \subseteq Requests /\ surplus \in BOOLEAN
OthersOK  == /\ incidents \subseteq Incidents /\ wants \in [Requests -> Devices \cup {None}]
             /\ exiting \in {"no", "hooks", "down"} /\ stopping \in {"no", "stop", "keep"}
Typed     == FlightsOK /\ RequestOK /\ SocketsOK /\ ControlOK /\ ToldOK /\ OthersOK

Inv == Typed /\ HookInv /\ SlotInv /\ SessionInv /\ SocketInv /\ PageInv

(* Up to two events, which is all a step posts.                             *)
Few(es) == es = <<>> \/ (\E a \in Event : es = <<a>>) \/ (\E a, b \in Event : es = <<a, b>>)

-----------------------------------------------------------------------------
LandAll(p, es)     == FoldLeft(Land, p, es)
OwingAll(owed, es) == FoldLeft(Owing, owed, es)

(***************************************************************************)
(* A fold over none, one or two events does what it says.                  *)
(***************************************************************************)
LEMMA MaxOfFew == Max({1}) = 1 /\ Max({1, 2}) = 2
<1>1. 1 \in {1} /\ \A y \in {1} : 1 >= y
  OBVIOUS
<1>2. 2 \in {1, 2} /\ \A y \in {1, 2} : 2 >= y
  OBVIOUS
<1>3. \A x \in {1, 2} : (\A y \in {1, 2} : x >= y) => x = 2
  OBVIOUS
<1>4. Max({1}) = 1
  BY <1>1 DEF Max
<1>5. Max({1, 2}) = 2
  BY <1>2, <1>3 DEF Max
<1> QED
  BY <1>4, <1>5

LEMMA LandNone == ASSUME NEW p PROVE LandAll(p, <<>>) = p
<1> DEFINE F(g) == [s \in SUBSET {} |-> IF s = {} THEN p ELSE Land(g[s \ {Max(s)}], <<>>[Max(s)])]
           iter == CHOOSE g : g = F(g)
           w    == [s \in SUBSET {} |-> p]
<1>1. LandAll(p, <<>>) = iter[{}]
  <2>1. DOMAIN <<>> = {}
    OBVIOUS
  <2> QED
    BY <2>1 DEF LandAll, OwingAll, FoldLeft, MapThenFoldSet
<1>2. w = F(w)
  OBVIOUS
<1>3. iter = F(iter)
  BY <1>2
<1> QED
  BY <1>1, <1>3

LEMMA LandOne == ASSUME NEW p, NEW a PROVE LandAll(p, <<a>>) = Land(p, a)
<1> DEFINE D    == DOMAIN <<a>>
           F(g) == [s \in SUBSET D |-> IF s = {} THEN p ELSE Land(g[s \ {Max(s)}], <<a>>[Max(s)])]
           iter == CHOOSE g : g = F(g)
           w    == [s \in SUBSET D |-> IF s = {} THEN p ELSE Land(p, a)]
<1>1. D = {1}
  OBVIOUS
<1>2. LandAll(p, <<a>>) = iter[D]
  BY DEF LandAll, OwingAll, FoldLeft, MapThenFoldSet
<1>3. w = F(w)
  <2>1. \A s \in SUBSET D : s = {} \/ s = {1}
    BY <1>1
  <2> HIDE DEF D
  <2>2. ASSUME NEW s \in SUBSET D PROVE w[s] = F(w)[s]
    <3>1. CASE s = {}
      BY <3>1
    <3>2. CASE s = {1}
      <4>1. Max(s) = 1 /\ s \ {Max(s)} = {} /\ s # {}
        BY <3>2, MaxOfFew
      <4>2. w[{}] = p /\ <<a>>[1] = a
        OBVIOUS
      <4>3. F(w)[s] = Land(p, a)
        BY <4>1, <4>2
      <4> QED
        BY <4>1, <4>3
    <3> QED
      BY <2>1, <3>1, <3>2
  <2> HIDE DEF F
  <2>3. DOMAIN w = DOMAIN F(w)
    BY DEF F
  <2> QED
    BY <2>2, <2>3 DEF F
<1>4. iter = F(iter)
  <2> HIDE DEF F, w
  <2> QED
    BY <1>3
<1>5. {1} \in SUBSET D /\ {1} # {} /\ {1} \ {Max({1})} = {} /\ <<a>>[Max({1})] = a
  BY <1>1, MaxOfFew
<1> HIDE DEF iter, D
<1>6. F(iter)[{1}] = Land(iter[{1} \ {Max({1})}], <<a>>[Max({1})])
  BY <1>5
<1>7. F(iter)[{}] = p
  OBVIOUS
<1> HIDE DEF F
<1>8. iter[{1}] = F(iter)[{1}] /\ iter[{}] = F(iter)[{}]
  BY <1>4
<1> QED
  BY <1>1, <1>2, <1>5, <1>6, <1>7, <1>8

LEMMA LandTwo == ASSUME NEW p, NEW a, NEW b PROVE LandAll(p, <<a, b>>) = Land(Land(p, a), b)
<1> DEFINE D    == DOMAIN <<a, b>>
           F(g) == [s \in SUBSET D |-> IF s = {} THEN p ELSE Land(g[s \ {Max(s)}], <<a, b>>[Max(s)])]
           iter == CHOOSE g : g = F(g)
           w    == [s \in SUBSET D |-> IF s = {} THEN p ELSE IF s = {1} THEN Land(p, a)
                                        ELSE IF s = {2} THEN Land(p, b) ELSE Land(Land(p, a), b)]
<1>1. D = {1, 2}
  OBVIOUS
<1>2. LandAll(p, <<a, b>>) = iter[D]
  BY DEF LandAll, OwingAll, FoldLeft, MapThenFoldSet
<1>3. w = F(w)
  <2>1. \A s \in SUBSET D : s = {} \/ s = {1} \/ s = {2} \/ s = {1, 2}
    BY <1>1
  <2>2. {} \in SUBSET D /\ {1} \in SUBSET D /\ {2} \in SUBSET D
    BY <1>1
  <2> HIDE DEF D
  <2>3. w[{}] = p /\ w[{1}] = Land(p, a) /\ <<a, b>>[1] = a /\ <<a, b>>[2] = b
    BY <2>2
  <2>4. ASSUME NEW s \in SUBSET D PROVE w[s] = F(w)[s]
    <3>1. CASE s = {}
      BY <3>1
    <3>2. CASE s = {1}
      <4>1. Max(s) = 1 /\ s \ {Max(s)} = {} /\ s # {}
        BY <3>2, MaxOfFew
      <4>2. F(w)[s] = Land(p, a)
        BY <4>1, <2>3
      <4> QED
        BY <3>2, <4>2, <2>3
    <3>3. CASE s = {2}
      <4>0. Max({2}) = 2
        BY DEF Max
      <4>1. Max(s) = 2 /\ s \ {Max(s)} = {} /\ s # {} /\ s # {1}
        BY <3>3, <4>0
      <4>2. F(w)[s] = Land(p, b)
        BY <4>1, <2>3
      <4> QED
        BY <3>3, <4>1, <4>2
    <3>4. CASE s = {1, 2}
      <4>1. Max(s) = 2 /\ s \ {Max(s)} = {1} /\ s # {} /\ s # {1} /\ s # {2}
        BY <3>4, MaxOfFew
      <4>2. F(w)[s] = Land(Land(p, a), b)
        BY <4>1, <2>3
      <4> QED
        BY <4>1, <4>2
    <3> QED
      BY <2>1, <3>1, <3>2, <3>3, <3>4
  <2> HIDE DEF F
  <2>5. DOMAIN w = DOMAIN F(w)
    BY DEF F
  <2> QED
    BY <2>4, <2>5 DEF F
<1>4. iter = F(iter)
  <2> HIDE DEF F, w
  <2> QED
    BY <1>3
<1>5. /\ {1} \in SUBSET D /\ {1} # {} /\ {1} \ {Max({1})} = {} /\ <<a, b>>[Max({1})] = a
      /\ D \in SUBSET D /\ D # {} /\ D \ {Max(D)} = {1} /\ <<a, b>>[Max(D)] = b
  BY <1>1, MaxOfFew
<1> HIDE DEF iter, D
<1>6. F(iter)[{1}] = Land(iter[{1} \ {Max({1})}], <<a, b>>[Max({1})])
  BY <1>5
<1>7. F(iter)[D] = Land(iter[D \ {Max(D)}], <<a, b>>[Max(D)])
  BY <1>5
<1>8. F(iter)[{}] = p
  OBVIOUS
<1> HIDE DEF F
<1>9. iter[{1}] = F(iter)[{1}] /\ iter[D] = F(iter)[D] /\ iter[{}] = F(iter)[{}]
  BY <1>4
<1> QED
  BY <1>2, <1>5, <1>6, <1>7, <1>8, <1>9

LEMMA OwingNone == ASSUME NEW p PROVE OwingAll(p, <<>>) = p
<1> DEFINE F(g) == [s \in SUBSET {} |-> IF s = {} THEN p ELSE Owing(g[s \ {Max(s)}], <<>>[Max(s)])]
           iter == CHOOSE g : g = F(g)
           w    == [s \in SUBSET {} |-> p]
<1>1. OwingAll(p, <<>>) = iter[{}]
  <2>1. DOMAIN <<>> = {}
    OBVIOUS
  <2> QED
    BY <2>1 DEF LandAll, OwingAll, FoldLeft, MapThenFoldSet
<1>2. w = F(w)
  OBVIOUS
<1>3. iter = F(iter)
  BY <1>2
<1> QED
  BY <1>1, <1>3

LEMMA OwingOne == ASSUME NEW p, NEW a PROVE OwingAll(p, <<a>>) = Owing(p, a)
<1> DEFINE D    == DOMAIN <<a>>
           F(g) == [s \in SUBSET D |-> IF s = {} THEN p ELSE Owing(g[s \ {Max(s)}], <<a>>[Max(s)])]
           iter == CHOOSE g : g = F(g)
           w    == [s \in SUBSET D |-> IF s = {} THEN p ELSE Owing(p, a)]
<1>1. D = {1}
  OBVIOUS
<1>2. OwingAll(p, <<a>>) = iter[D]
  BY DEF LandAll, OwingAll, FoldLeft, MapThenFoldSet
<1>3. w = F(w)
  <2>1. \A s \in SUBSET D : s = {} \/ s = {1}
    BY <1>1
  <2> HIDE DEF D
  <2>2. ASSUME NEW s \in SUBSET D PROVE w[s] = F(w)[s]
    <3>1. CASE s = {}
      BY <3>1
    <3>2. CASE s = {1}
      <4>1. Max(s) = 1 /\ s \ {Max(s)} = {} /\ s # {}
        BY <3>2, MaxOfFew
      <4>2. w[{}] = p /\ <<a>>[1] = a
        OBVIOUS
      <4>3. F(w)[s] = Owing(p, a)
        BY <4>1, <4>2
      <4> QED
        BY <4>1, <4>3
    <3> QED
      BY <2>1, <3>1, <3>2
  <2> HIDE DEF F
  <2>3. DOMAIN w = DOMAIN F(w)
    BY DEF F
  <2> QED
    BY <2>2, <2>3 DEF F
<1>4. iter = F(iter)
  <2> HIDE DEF F, w
  <2> QED
    BY <1>3
<1>5. {1} \in SUBSET D /\ {1} # {} /\ {1} \ {Max({1})} = {} /\ <<a>>[Max({1})] = a
  BY <1>1, MaxOfFew
<1> HIDE DEF iter, D
<1>6. F(iter)[{1}] = Owing(iter[{1} \ {Max({1})}], <<a>>[Max({1})])
  BY <1>5
<1>7. F(iter)[{}] = p
  OBVIOUS
<1> HIDE DEF F
<1>8. iter[{1}] = F(iter)[{1}] /\ iter[{}] = F(iter)[{}]
  BY <1>4
<1> QED
  BY <1>1, <1>2, <1>5, <1>6, <1>7, <1>8

LEMMA OwingTwo == ASSUME NEW p, NEW a, NEW b PROVE OwingAll(p, <<a, b>>) = Owing(Owing(p, a), b)
<1> DEFINE D    == DOMAIN <<a, b>>
           F(g) == [s \in SUBSET D |-> IF s = {} THEN p ELSE Owing(g[s \ {Max(s)}], <<a, b>>[Max(s)])]
           iter == CHOOSE g : g = F(g)
           w    == [s \in SUBSET D |-> IF s = {} THEN p ELSE IF s = {1} THEN Owing(p, a)
                                        ELSE IF s = {2} THEN Owing(p, b) ELSE Owing(Owing(p, a), b)]
<1>1. D = {1, 2}
  OBVIOUS
<1>2. OwingAll(p, <<a, b>>) = iter[D]
  BY DEF LandAll, OwingAll, FoldLeft, MapThenFoldSet
<1>3. w = F(w)
  <2>1. \A s \in SUBSET D : s = {} \/ s = {1} \/ s = {2} \/ s = {1, 2}
    BY <1>1
  <2>2. {} \in SUBSET D /\ {1} \in SUBSET D /\ {2} \in SUBSET D
    BY <1>1
  <2> HIDE DEF D
  <2>3. w[{}] = p /\ w[{1}] = Owing(p, a) /\ <<a, b>>[1] = a /\ <<a, b>>[2] = b
    BY <2>2
  <2>4. ASSUME NEW s \in SUBSET D PROVE w[s] = F(w)[s]
    <3>1. CASE s = {}
      BY <3>1
    <3>2. CASE s = {1}
      <4>1. Max(s) = 1 /\ s \ {Max(s)} = {} /\ s # {}
        BY <3>2, MaxOfFew
      <4>2. F(w)[s] = Owing(p, a)
        BY <4>1, <2>3
      <4> QED
        BY <3>2, <4>2, <2>3
    <3>3. CASE s = {2}
      <4>0. Max({2}) = 2
        BY DEF Max
      <4>1. Max(s) = 2 /\ s \ {Max(s)} = {} /\ s # {} /\ s # {1}
        BY <3>3, <4>0
      <4>2. F(w)[s] = Owing(p, b)
        BY <4>1, <2>3
      <4> QED
        BY <3>3, <4>1, <4>2
    <3>4. CASE s = {1, 2}
      <4>1. Max(s) = 2 /\ s \ {Max(s)} = {1} /\ s # {} /\ s # {1} /\ s # {2}
        BY <3>4, MaxOfFew
      <4>2. F(w)[s] = Owing(Owing(p, a), b)
        BY <4>1, <2>3
      <4> QED
        BY <4>1, <4>2
    <3> QED
      BY <2>1, <3>1, <3>2, <3>3, <3>4
  <2> HIDE DEF F
  <2>5. DOMAIN w = DOMAIN F(w)
    BY DEF F
  <2> QED
    BY <2>4, <2>5 DEF F
<1>4. iter = F(iter)
  <2> HIDE DEF F, w
  <2> QED
    BY <1>3
<1>5. /\ {1} \in SUBSET D /\ {1} # {} /\ {1} \ {Max({1})} = {} /\ <<a, b>>[Max({1})] = a
      /\ D \in SUBSET D /\ D # {} /\ D \ {Max(D)} = {1} /\ <<a, b>>[Max(D)] = b
  BY <1>1, MaxOfFew
<1> HIDE DEF iter, D
<1>6. F(iter)[{1}] = Owing(iter[{1} \ {Max({1})}], <<a, b>>[Max({1})])
  BY <1>5
<1>7. F(iter)[D] = Owing(iter[D \ {Max(D)}], <<a, b>>[Max(D)])
  BY <1>5
<1>8. F(iter)[{}] = p
  OBVIOUS
<1> HIDE DEF F
<1>9. iter[{1}] = F(iter)[{1}] /\ iter[D] = F(iter)[D] /\ iter[{}] = F(iter)[{}]
  BY <1>4
<1> QED
  BY <1>2, <1>5, <1>6, <1>7, <1>8, <1>9

(***************************************************************************)
(* One event read by the page.                                             *)
(***************************************************************************)
LEMMA LandRead ==
    ASSUME NEW p \in Page, NEW e \in Event
    PROVE  /\ Land(p, e) \in Page /\ Land(p, e).read = p.read
           /\ ~Says(e) => /\ Land(p, e).newest = p.newest /\ Land(p, e).armed = p.armed
                          /\ Land(p, e).told = "failed"
           /\ Says(e) /\ e.conn < p.newest => Land(p, e) = p
           /\ Says(e) /\ e.conn >= p.newest => Land(p, e).newest = e.conn
           /\ Stops(e) /\ e.conn >= p.newest =>
                /\ Land(p, e).told \in {"ended", "lost"}
                /\ e.kind = "ended" => Land(p, e).armed = NotArmed
                /\ e.kind = "lost" => Land(p, e).armed = p.armed
           /\ Starts(e) /\ e.conn >= p.newest =>
                /\ Land(p, e).armed = <<e.conn, e.sid>>
                /\ Land(p, e).told = "connected" \/ (Land(p, e).told = p.told /\ p.armed[1] = e.conn)
<1> DEFINE q == [p EXCEPT !.newest = e.conn]
<1>1. /\ e.kind \in {"started", "ended", "lost", "failed"} /\ e.conn \in Nat /\ e.sid \in Ids
      /\ p.newest \in Nat /\ p.armed \in Nat \X Ids
  BY DEF Event, Page
<1>2. q \in Page /\ q.newest = e.conn /\ q.armed = p.armed /\ q.told = p.told /\ q.read = p.read
  BY <1>1 DEF Page
<1>3. CASE e.kind = "failed"
  <2>1. Land(p, e) = [p EXCEPT !.told = "failed"]
    BY <1>3 DEF Land
  <2>2. [p EXCEPT !.told = "failed"] \in Page
    BY DEF Page
  <2> QED
    BY <1>3, <2>1, <2>2 DEF Says, Stops, Starts, Page
<1>4. CASE e.kind # "failed" /\ e.conn < p.newest
  <2>1. Land(p, e) = p
    BY <1>4 DEF Land
  <2> QED
    BY <1>1, <1>4, <2>1 DEF Says
<1>5. CASE e.kind = "started" /\ ~(e.conn < p.newest)
  <2>1. Land(p, e) = Connected(q, e.conn, e.sid)
    BY <1>5 DEF Land
  <2>2. CASE p.armed = <<e.conn, e.sid>>
    <3>1. Land(p, e) = q
      BY <1>2, <2>1, <2>2 DEF Connected, IsRepeat
    <3> QED
      BY <1>1, <1>2, <1>5, <2>2, <3>1 DEF Says, Stops, Starts
  <2>3. CASE p.armed # <<e.conn, e.sid>>
    <3>1. Land(p, e) = [q EXCEPT !.armed = <<e.conn, e.sid>>, !.told = "connected"]
      BY <1>2, <2>1, <2>3 DEF Connected, IsRepeat
    <3>2. <<e.conn, e.sid>> \in Nat \X Ids
      BY <1>1
    <3> HIDE DEF q
    <3>3. Land(p, e) \in Page
      BY <1>2, <3>1, <3>2 DEF Page
    <3>4. Land(p, e).armed = <<e.conn, e.sid>> /\ Land(p, e).told = "connected"
          /\ Land(p, e).newest = e.conn /\ Land(p, e).read = p.read
      BY <1>2, <3>1 DEF Page
    <3> QED
      BY <1>1, <1>5, <3>3, <3>4 DEF Says, Stops, Starts
  <2> QED
    BY <2>2, <2>3
<1>6. CASE e.kind = "ended" /\ ~(e.conn < p.newest)
  <2>1. Land(p, e) = [q EXCEPT !.armed = NotArmed, !.told = "ended"]
    BY <1>6 DEF Land
  <2>2. NotArmed \in Nat \X Ids
    BY DEF NotArmed, Ids
  <2> HIDE DEF q
  <2>3. Land(p, e) \in Page
    BY <1>2, <2>1, <2>2 DEF Page
  <2>4. Land(p, e).armed = NotArmed /\ Land(p, e).told = "ended"
        /\ Land(p, e).newest = e.conn /\ Land(p, e).read = p.read
    BY <1>2, <2>1 DEF Page
  <2> QED
    BY <1>1, <1>6, <2>3, <2>4 DEF Says, Stops, Starts
<1>7. CASE e.kind = "lost" /\ ~(e.conn < p.newest)
  <2>1. Land(p, e) = [q EXCEPT !.told = "lost"]
    BY <1>7 DEF Land
  <2> HIDE DEF q
  <2>2. Land(p, e) \in Page
    BY <1>2, <2>1 DEF Page
  <2>3. Land(p, e).armed = p.armed /\ Land(p, e).told = "lost"
        /\ Land(p, e).newest = e.conn /\ Land(p, e).read = p.read
    BY <1>2, <2>1 DEF Page
  <2> QED
    BY <1>1, <1>7, <2>2, <2>3 DEF Says, Stops, Starts
<1> QED
  BY <1>1, <1>3, <1>4, <1>5, <1>6, <1>7

(* A queue's head and what is behind it. *)
LEMMA Behind ==
    ASSUME NEW q \in Seq(Event), q # <<>>
    PROVE  /\ Head(q) = q[1] /\ Head(q) \in Event /\ Tail(q) \in Seq(Event)
           /\ Len(q) \in Nat /\ Len(q) >= 1 /\ Len(Tail(q)) = Len(q) - 1 /\ Len(Tail(q)) \in Nat
           /\ \A i \in 1..Len(Tail(q)) : Tail(q)[i] = q[i + 1] /\ i + 1 \in 1..Len(q)
           /\ \A i \in 1..Len(q) : q[i] \in Event /\ q[i].conn \in Nat
<1>1. /\ Head(q) = q[1] /\ Head(q) \in Event /\ Tail(q) \in Seq(Event)
      /\ Len(q) \in Nat /\ Len(q) >= 1 /\ Len(Tail(q)) = Len(q) - 1
      /\ \A i \in 1..Len(Tail(q)) : Tail(q)[i] = q[i + 1]
      /\ \A i \in 1..Len(q) : q[i] \in Event
  BY HeadTailProperties
<1>2. \A i \in 1..Len(q) : q[i].conn \in Nat
  BY <1>1 DEF Event
<1> HIDE DEF Event
<1> QED
  BY <1>1, <1>2

(* Reading the head of the queue keeps the story straight.                  *)
LEMMA LandOrdered ==
    ASSUME NEW p \in Page, NEW q \in Seq(Event), q # <<>>, NEW g \in Nat, Ordered(p, q, g)
    PROVE  Ordered(Land(p, Head(q)), Tail(q), g)
<1> DEFINE e == Head(q)
           n == Land(p, e)
           t == Tail(q)
<1>1. /\ e = q[1] /\ e \in Event /\ Len(q) \in Nat /\ Len(q) >= 1 /\ Len(t) = Len(q) - 1
      /\ \A i \in 1..Len(t) : t[i] = q[i + 1] /\ i + 1 \in 1..Len(q)
      /\ \A i \in 1..Len(q) : q[i] \in Event
  BY Behind
<1>2. 1 \in 1..Len(q) /\ e.conn \in Nat /\ p.newest \in Nat /\ p.armed[1] \in Nat
      /\ e.kind \in {"started", "ended", "lost", "failed"}
  BY <1>1 DEF Event, Page
<1>3. Says(e) => e.conn \in 1..g
  BY <1>1, <1>2 DEF Ordered
<1>4. ASSUME Says(e), NEW j \in 1..Len(t), Says(t[j])
      PROVE  e.conn =< t[j].conn /\ (e.kind = "lost" /\ Starts(t[j]) => e.conn < t[j].conn)
  <2>1. t[j] = q[j + 1] /\ j + 1 \in 1..Len(q) /\ 1 < j + 1
    BY <1>1
  <2> HIDE DEF t, e
  <2> QED
    BY <1>1, <1>2, <1>4, <2>1 DEF Ordered
<1>5. n.armed[1] =< n.newest /\ n.newest =< g
  <2>1. p.armed[1] =< p.newest /\ p.newest =< g
    BY DEF Ordered
  <2>2. NotArmed[1] = 0 /\ <<e.conn, e.sid>>[1] = e.conn
    BY DEF NotArmed
  <2>3. ~Says(e) => n.newest = p.newest /\ n.armed = p.armed
    BY <1>1, LandRead
  <2>4. Says(e) /\ e.conn < p.newest => n = p
    BY <1>1, LandRead
  <2>5. Says(e) /\ e.conn >= p.newest => n.newest = e.conn
    BY <1>1, LandRead
  <2>6. Says(e) /\ e.conn >= p.newest => n.armed \in {NotArmed, p.armed, <<e.conn, e.sid>>}
    BY <1>1, <1>2, LandRead DEF Says, Stops, Starts
  <2> HIDE DEF e, n
  <2> QED
    BY <1>2, <1>3, <2>1, <2>2, <2>3, <2>4, <2>5, <2>6
<1>6. \A i \in 1..Len(t) : Says(t[i]) => t[i].conn \in 1..g
  <2> HIDE DEF t
  <2> QED
    BY <1>1 DEF Ordered
<1>7. \A i, j \in 1..Len(t) :
          i < j /\ Says(t[i]) /\ Says(t[j]) =>
              t[i].conn =< t[j].conn /\ (t[i].kind = "lost" /\ Starts(t[j]) => t[i].conn < t[j].conn)
  <2> TAKE i, j \in 1..Len(t)
  <2>1. t[i] = q[i + 1] /\ t[j] = q[j + 1] /\ i + 1 \in 1..Len(q) /\ j + 1 \in 1..Len(q)
    BY <1>1
  <2>2. i < j => i + 1 < j + 1
    OBVIOUS
  <2> HIDE DEF t
  <2> QED
    BY <2>1, <2>2 DEF Ordered
<1>8. n.told \notin Cheerful => \A j \in 1..Len(t) : Starts(t[j]) => t[j].conn # n.armed[1]
  <2> SUFFICES ASSUME n.told \notin Cheerful, NEW j \in 1..Len(t), Starts(t[j])
               PROVE  t[j].conn # n.armed[1]
    OBVIOUS
  <2>1. t[j] = q[j + 1] /\ j + 1 \in 1..Len(q) /\ Says(t[j])
    BY <1>1 DEF Starts, Says
  <2>2. p.told \notin Cheerful => t[j].conn # p.armed[1]
    <3> HIDE DEF t
    <3> QED
      BY <2>1 DEF Ordered
  <2>3. Says(e)
    BY <1>1, LandRead DEF Cheerful
  <2>4. CASE e.conn < p.newest
    <3>1. n = p
      BY <1>1, <2>3, <2>4, LandRead
    <3> QED
      BY <2>2, <3>1
  <2>5. CASE Starts(e) /\ ~(e.conn < p.newest)
    <3>1. e.conn >= p.newest
      BY <1>2, <2>5
    <3>2. n.told = "connected" \/ (n.told = p.told /\ p.armed[1] = e.conn)
      BY <1>1, <2>5, <3>1, LandRead
    <3>3. n.told = p.told /\ p.armed[1] = e.conn
      BY <3>2 DEF Cheerful
    <3>4. e.conn # p.armed[1]
      <4> HIDE DEF e, n
      <4> QED
        BY <1>1, <1>2, <2>5, <3>3 DEF Ordered
    <3> QED
      BY <3>3, <3>4
  <2>6. CASE e.kind = "ended" /\ ~(e.conn < p.newest)
    <3>0. e.conn >= p.newest /\ Stops(e)
      BY <1>2, <2>6 DEF Stops
    <3>a. n.armed = NotArmed
      BY <1>1, <2>6, <3>0, LandRead
    <3>1. n.armed[1] = 0
      BY <3>a DEF NotArmed
    <3>2. t[j].conn \in 1..g
      BY <1>6, <2>1
    <3> QED
      BY <3>1, <3>2
  <2>7. CASE e.kind = "lost" /\ ~(e.conn < p.newest)
    <3>0. e.conn >= p.newest /\ Stops(e)
      BY <1>2, <2>7 DEF Stops
    <3>1. n.armed = p.armed
      BY <1>1, <2>7, <3>0, LandRead
    <3>2. p.armed[1] =< p.newest /\ e.conn < t[j].conn
      BY <1>4, <2>1, <2>3, <2>7 DEF Ordered
    <3>3. t[j].conn \in 1..g
      BY <1>6, <2>1
    <3> HIDE DEF e, n, t
    <3> QED
      BY <1>2, <2>7, <3>1, <3>2, <3>3
  <2> QED
    BY <1>2, <2>3, <2>4, <2>5, <2>6, <2>7 DEF Starts, Says
<1> HIDE DEF n, t
<1>9. Ordered(n, t, g)
  BY <1>5, <1>6, <1>7, <1>8 DEF Ordered
<1> QED
  BY <1>9 DEF n, t

LEMMA LandUndone ==
    ASSUME NEW p \in Page, NEW q \in Seq(Event), q # <<>>, NEW g \in Nat, Ordered(p, q, g), Undone(p, q)
    PROVE  Undone(Land(p, Head(q)), Tail(q))
<1> DEFINE e == Head(q)
           n == Land(p, e)
           t == Tail(q)
<1>1. /\ e = q[1] /\ e \in Event /\ Len(q) \in Nat /\ Len(q) >= 1 /\ Len(t) = Len(q) - 1 /\ Len(t) \in Nat
      /\ \A i \in 1..Len(t) : t[i] = q[i + 1] /\ i + 1 \in 1..Len(q)
      /\ \A i \in 1..Len(q) : q[i] \in Event /\ q[i].conn \in Nat
  BY Behind
<1>2. 1 \in 1..Len(q) /\ e.conn \in Nat /\ p.newest \in Nat
      /\ e.kind \in {"started", "ended", "lost", "failed"}
  BY <1>1 DEF Event, Page
<1>3. n.newest = p.newest \/ (n.newest = e.conn /\ Says(e))
  <2>1. ~Says(e) => n.newest = p.newest
    BY <1>1, LandRead
  <2>2. Says(e) /\ e.conn < p.newest => n = p
    BY <1>1, LandRead
  <2>3. Says(e) /\ e.conn >= p.newest => n.newest = e.conn
    BY <1>1, LandRead
  <2> HIDE DEF n, e
  <2> QED
    BY <1>2, <2>1, <2>2, <2>3
<1> HIDE DEF t
<1>4. ASSUME NEW k \in 2..Len(q), Stops(q[k]), q[k].conn >= p.newest
      PROVE  k - 1 \in 1..Len(t) /\ Stops(t[k - 1]) /\ t[k - 1].conn >= n.newest
  <2>1. k - 1 \in 1..Len(t) /\ k \in 1..Len(q) /\ 1 < k /\ (k - 1) + 1 = k /\ Says(q[k])
    BY <1>1, <1>4 DEF Stops, Says
  <2>2. t[k - 1] = q[k]
    BY <1>1, <2>1
  <2>3. Says(e) => e.conn =< q[k].conn
    BY <1>1, <1>2, <2>1 DEF Ordered
  <2> HIDE DEF n, e
  <2> QED
    BY <1>1, <1>2, <1>3, <1>4, <2>1, <2>2, <2>3
<1>5. ASSUME NEW i \in 0..Len(t), IF i = 0 THEN n.told = "connected" ELSE Starts(t[i])
      PROVE  \E k \in (i + 2)..Len(q) : Stops(q[k]) /\ q[k].conn >= p.newest
  <2>1. CASE i # 0
    <3>1. i \in 1..Len(t) /\ i + 1 \in 0..Len(q) /\ i + 1 # 0
      BY <1>1, <2>1
    <3>2. Starts(q[i + 1])
      BY <1>1, <1>5, <3>1
    <3>3. \E k \in ((i + 1) + 1)..Len(q) : Stops(q[k]) /\ q[k].conn >= p.newest
      BY <3>1, <3>2 DEF Undone
    <3> QED
      BY <3>1, <3>3
  <2>2. CASE i = 0
    <3>1. n.told = "connected"
      BY <1>5, <2>2
    <3>2. CASE Starts(e)
      <4>1. \E k \in (1 + 1)..Len(q) : Stops(q[k]) /\ q[k].conn >= p.newest
        <5> HIDE DEF e
        <5> QED
          BY <1>1, <1>2, <3>2 DEF Undone
      <4> QED
        BY <2>2, <4>1
    <3>3. CASE ~Starts(e)
      <4>0. Says(e) => Stops(e)
        BY <1>2, <3>3 DEF Says, Stops, Starts
      <4>1. Says(e) /\ e.conn < p.newest
        <5>1. ~Says(e) => n.told = "failed"
          BY <1>1, LandRead
        <5>2. Stops(e) /\ e.conn >= p.newest => n.told \in {"ended", "lost"}
          BY <1>1, LandRead
        <5> HIDE DEF n, e
        <5> QED
          BY <1>2, <3>1, <4>0, <5>1, <5>2
      <4>2. n = p
        BY <1>1, <4>1, LandRead
      <4> HIDE DEF n
      <4>3. 0 \in 0..Len(q) /\ p.told = "connected"
        BY <1>1, <3>1, <4>2
      <4>4. PICK k \in (0 + 1)..Len(q) : Stops(q[k]) /\ q[k].conn >= p.newest
        BY <4>3 DEF Undone
      <4>5. k # 1
        <5> HIDE DEF e
        <5> QED
          BY <1>1, <1>2, <4>1, <4>4
      <4> QED
        BY <2>2, <4>4, <4>5
    <3> QED
      BY <3>2, <3>3
  <2> QED
    BY <2>1, <2>2
<1>6. ASSUME NEW i \in 0..Len(t), IF i = 0 THEN n.told = "connected" ELSE Starts(t[i])
      PROVE  \E j \in (i + 1)..Len(t) : Stops(t[j]) /\ t[j].conn >= n.newest
  <2>1. PICK k \in (i + 2)..Len(q) : Stops(q[k]) /\ q[k].conn >= p.newest
    BY <1>5, <1>6
  <2>2. k \in 2..Len(q) /\ k - 1 \in (i + 1)..Len(t)
    BY <1>1
  <2> HIDE DEF n
  <2> QED
    BY <1>4, <2>1, <2>2
<1> HIDE DEF n
<1>7. Undone(n, t)
  BY <1>6 DEF Undone
<1> QED
  BY <1>7 DEF n, t

LEMMA LandRestarted ==
    ASSUME NEW p \in Page, NEW q \in Seq(Event), q # <<>>, NEW g \in Nat, Ordered(p, q, g), Restarted(p, q)
    PROVE  Restarted(Land(p, Head(q)), Tail(q))
<1> DEFINE e == Head(q)
           n == Land(p, e)
           t == Tail(q)
<1>1. /\ e = q[1] /\ e \in Event /\ Len(q) \in Nat /\ Len(q) >= 1 /\ Len(t) = Len(q) - 1 /\ Len(t) \in Nat
      /\ \A i \in 1..Len(t) : t[i] = q[i + 1] /\ i + 1 \in 1..Len(q)
      /\ \A i \in 1..Len(q) : q[i] \in Event /\ q[i].conn \in Nat
  BY Behind
<1>2. 1 \in 1..Len(q) /\ e.conn \in Nat /\ p.newest \in Nat
      /\ e.kind \in {"started", "ended", "lost", "failed"}
  BY <1>1 DEF Event, Page
<1> HIDE DEF t
<1>3. ASSUME NEW i \in 1..Len(t), Stops(t[i])
      PROVE  \E j \in (i + 1)..Len(t) : Starts(t[j])
  <2>1. i + 1 \in 1..Len(q) /\ Stops(q[i + 1])
    BY <1>1, <1>3
  <2>2. PICK k \in ((i + 1) + 1)..Len(q) : Starts(q[k])
    BY <2>1 DEF Restarted
  <2>3. k - 1 \in (i + 1)..Len(t) /\ k - 1 \in 1..Len(t) /\ (k - 1) + 1 = k
    BY <1>1, <1>3
  <2>4. t[k - 1] = q[k]
    BY <1>1, <2>3
  <2> QED
    BY <2>2, <2>3, <2>4
<1>4. ASSUME n.told \notin Cheerful /\ (n.read \/ n.armed # NotArmed)
      PROVE  \E k \in 2..Len(q) : Starts(q[k]) /\ q[k].conn >= n.newest
  <2>1. Says(e)
    BY <1>1, <1>4, LandRead DEF Cheerful
  <2>2. CASE Stops(e) /\ ~(e.conn < p.newest)
    <3>0. e.conn >= p.newest
      BY <1>2, <2>2
    <3>1. n.newest = e.conn
      BY <1>1, <2>1, <3>0, LandRead
    <3> HIDE DEF n, e
    <3>2. PICK k \in (1 + 1)..Len(q) : Starts(q[k])
      BY <1>1, <1>2, <2>2 DEF Restarted
    <3>3. k \in 1..Len(q) /\ 1 < k /\ Says(q[k])
      BY <3>2 DEF Starts, Says
    <3>4. q[1].conn =< q[k].conn
      BY <1>1, <1>2, <2>1, <3>3 DEF Ordered
    <3>5. k \in 2..Len(q) /\ q[k].conn \in Nat
      BY <1>1, <3>3
    <3>6. q[k].conn >= n.newest
      BY <1>1, <1>2, <3>1, <3>4, <3>5
    <3> QED
      BY <3>2, <3>5, <3>6
  <2>3. CASE Starts(e) /\ ~(e.conn < p.newest)
    <3>1. e.conn >= p.newest
      BY <1>2, <2>3
    <3>2. n.told = p.told /\ p.armed[1] = e.conn
      BY <1>1, <1>4, <2>3, <3>1, LandRead DEF Cheerful
    <3>3. e.conn # p.armed[1]
      <4> HIDE DEF e, n
      <4> QED
        BY <1>1, <1>2, <1>4, <2>3, <3>2 DEF Ordered
    <3> QED
      BY <3>2, <3>3
  <2>4. CASE e.conn < p.newest
    <3>1. n = p
      BY <1>1, <2>1, <2>4, LandRead
    <3> HIDE DEF n
    <3>2. PICK k \in 1..Len(q) : Starts(q[k]) /\ q[k].conn >= p.newest
      BY <1>4, <3>1 DEF Restarted
    <3>3. k # 1
      <4> HIDE DEF e
      <4> QED
        BY <1>1, <1>2, <2>4, <3>2
    <3>4. k \in 2..Len(q)
      BY <1>1, <3>3
    <3> QED
      BY <3>1, <3>2, <3>4
  <2> QED
    BY <1>2, <2>1, <2>2, <2>3, <2>4 DEF Says, Starts, Stops
<1>5. ASSUME n.told \notin Cheerful /\ (n.read \/ n.armed # NotArmed)
      PROVE  \E j \in 1..Len(t) : Starts(t[j]) /\ t[j].conn >= n.newest
  <2>1. PICK k \in 2..Len(q) : Starts(q[k]) /\ q[k].conn >= n.newest
    BY <1>4, <1>5
  <2> HIDE DEF n
  <2>2. k - 1 \in 1..Len(t) /\ (k - 1) + 1 = k
    BY <1>1
  <2>3. t[k - 1] = q[k]
    BY <1>1, <2>2
  <2> QED
    BY <2>1, <2>2, <2>3
<1> HIDE DEF n
<1>6. Restarted(n, t)
  BY <1>3, <1>5 DEF Restarted
<1> QED
  BY <1>6 DEF n, t

LEMMA LandStory ==
    ASSUME NEW p \in Page, NEW q \in Seq(Event), q # <<>>, NEW g \in Nat, NEW live, NEW heard,
           Story(p, q, g, live, heard)
    PROVE  Story(Land(p, Head(q)), Tail(q), g, live, heard)
<1>1. Ordered(p, q, g)
  BY DEF Story
<1>2. live /\ heard => Restarted(Land(p, Head(q)), Tail(q))
  BY <1>1, LandRestarted DEF Story
<1>3. ~live => Undone(Land(p, Head(q)), Tail(q))
  BY <1>1, LandUndone DEF Story
<1> QED
  BY <1>1, <1>2, <1>3, LandOrdered DEF Story

(***************************************************************************)
(* What a post adds to the story.                                          *)
(***************************************************************************)
(* A newer generation, and a page nobody hears of any more, change nothing. *)
LEMMA StoryGrows ==
    ASSUME NEW p \in Page, NEW q \in Seq(Event), NEW g \in Nat, NEW k \in Nat, g =< k,
           NEW live, NEW heard, NEW heard2, heard2 => heard, Story(p, q, g, live, heard)
    PROVE  Story(p, q, k, live, heard2)
<1>1. p.newest \in Nat /\ \A c \in 1..g : c \in 1..k
  BY DEF Page
<1>2. Ordered(p, q, k)
  BY <1>1 DEF Story, Ordered
<1> QED
  BY <1>2 DEF Story

(* A queue with one event more. *)
LEMMA Posted ==
    ASSUME NEW q \in Seq(Event), NEW e \in Event
    PROVE  /\ Append(q, e) \in Seq(Event) /\ Len(q) \in Nat /\ Len(Append(q, e)) = Len(q) + 1
           /\ \A i \in 1..Len(q) : Append(q, e)[i] = q[i] /\ i \in 1..Len(Append(q, e))
           /\ Append(q, e)[Len(q) + 1] = e /\ Len(q) + 1 \in 1..Len(Append(q, e))
           /\ \A i \in 1..Len(Append(q, e)) : i \in 1..Len(q) \/ i = Len(q) + 1
BY AppendProperties

(* A failure says nothing of a generation. *)
LEMMA PostFailed ==
    ASSUME NEW p \in Page, NEW q \in Seq(Event), NEW g \in Nat, NEW live, NEW heard,
           Story(p, q, g, live, heard)
    PROVE  Failed \in Event /\ Story(p, Append(q, Failed), g, live, heard)
<1> DEFINE t == Append(q, Failed)
<1>1. Failed \in Event /\ ~Says(Failed) /\ ~Stops(Failed) /\ ~Starts(Failed)
  BY DEF Failed, Event, Says, Stops, Starts, Ids
<1>2. /\ Len(q) \in Nat /\ Len(t) = Len(q) + 1
      /\ \A i \in 1..Len(q) : t[i] = q[i] /\ i \in 1..Len(t)
      /\ \A i \in 1..Len(t) : i \in 1..Len(q) \/ (i = Len(q) + 1 /\ t[i] = Failed)
  BY <1>1, Posted
<1> HIDE DEF t
<1>3. \A i \in 1..Len(t) : Says(t[i]) \/ Stops(t[i]) \/ Starts(t[i]) => i \in 1..Len(q) /\ t[i] = q[i]
  BY <1>1, <1>2
<1>4. Ordered(p, t, g)
  <2>1. Ordered(p, q, g)
    BY DEF Story
  <2>2. \A i \in 1..Len(t) : Starts(t[i]) => Says(t[i])
    BY DEF Starts, Says
  <2>3. \A i \in 1..Len(t) : Says(t[i]) => t[i].conn \in 1..g
    BY <1>3, <2>1 DEF Ordered
  <2>4. \A i, j \in 1..Len(t) :
          i < j /\ Says(t[i]) /\ Says(t[j]) =>
              t[i].conn =< t[j].conn /\ (t[i].kind = "lost" /\ Starts(t[j]) => t[i].conn < t[j].conn)
    BY <1>3, <2>1 DEF Ordered
  <2>5. p.told \notin Cheerful => \A j \in 1..Len(t) : Starts(t[j]) => t[j].conn # p.armed[1]
    BY <1>3, <2>1, <2>2 DEF Ordered
  <2> QED
    BY <2>1, <2>3, <2>4, <2>5 DEF Ordered
<1>5. Restarted(p, q) => Restarted(p, t)
  <2> SUFFICES ASSUME Restarted(p, q) PROVE Restarted(p, t)
    OBVIOUS
  <2>1. p.told \notin Cheerful /\ (p.read \/ p.armed # NotArmed) =>
           \E j \in 1..Len(t) : Starts(t[j]) /\ t[j].conn >= p.newest
    BY <1>2 DEF Restarted
  <2>2. ASSUME NEW i \in 1..Len(t), Stops(t[i]) PROVE \E j \in (i + 1)..Len(t) : Starts(t[j])
    <3>1. i \in 1..Len(q) /\ Stops(q[i])
      BY <1>3, <2>2
    <3>2. PICK j \in (i + 1)..Len(q) : Starts(q[j])
      BY <3>1 DEF Restarted
    <3>3. j \in 1..Len(q) /\ j \in (i + 1)..Len(t)
      BY <1>2, <3>1, <3>2
    <3> QED
      BY <1>2, <3>2, <3>3
  <2> QED
    BY <2>1, <2>2 DEF Restarted
<1>6. Undone(p, q) => Undone(p, t)
  <2> SUFFICES ASSUME Undone(p, q),
                      NEW i \in 0..Len(t), IF i = 0 THEN p.told = "connected" ELSE Starts(t[i])
               PROVE  \E j \in (i + 1)..Len(t) : Stops(t[j]) /\ t[j].conn >= p.newest
    BY DEF Undone
  <2>1. i \in 0..Len(q) /\ (IF i = 0 THEN p.told = "connected" ELSE Starts(q[i]))
    BY <1>2, <1>3
  <2>2. PICK j \in (i + 1)..Len(q) : Stops(q[j]) /\ q[j].conn >= p.newest
    BY <2>1 DEF Undone
  <2>3. j \in 1..Len(q) /\ j \in (i + 1)..Len(t)
    BY <1>2, <2>1, <2>2
  <2> QED
    BY <1>2, <2>2, <2>3
<1>7. Story(p, t, g, live, heard)
  BY <1>4, <1>5, <1>6 DEF Story
<1> QED
  BY <1>1, <1>7 DEF t

(* The order goes on: nothing posted is ahead of the generation it is of.   *)
LEMMA PostOrdered ==
    ASSUME NEW p \in Page, NEW q \in Seq(Event), NEW g \in Nat, Ordered(p, q, g),
           NEW e \in Event, Says(e), e.conn \in 1..g, \A i \in 1..Len(q) : Says(q[i]) => q[i].conn =< e.conn,
           Starts(e) => /\ p.armed[1] < e.conn
                        /\ \A i \in 1..Len(q) : q[i].kind = "lost" => q[i].conn < e.conn
    PROVE  Ordered(p, Append(q, e), g)
<1> DEFINE t == Append(q, e)
<1>1. /\ Len(q) \in Nat /\ Len(t) = Len(q) + 1
      /\ \A i \in 1..Len(q) : t[i] = q[i] /\ i \in 1..Len(t)
      /\ \A i \in 1..Len(t) : (i \in 1..Len(q) /\ t[i] = q[i]) \/ (i = Len(q) + 1 /\ t[i] = e)
  BY Posted
<1> HIDE DEF t
<1>2. \A i \in 1..Len(t) : Says(t[i]) => t[i].conn \in 1..g
  BY <1>1 DEF Ordered
<1>3. ASSUME NEW i \in 1..Len(t), NEW j \in 1..Len(t), i < j, Says(t[i]), Says(t[j])
      PROVE  t[i].conn =< t[j].conn /\ (t[i].kind = "lost" /\ Starts(t[j]) => t[i].conn < t[j].conn)
  <2>1. i \in 1..Len(q) /\ t[i] = q[i]
    BY <1>1, <1>3
  <2>2. CASE j \in 1..Len(q)
    <3>1. t[j] = q[j]
      BY <1>1, <2>2
    <3> QED
      BY <1>3, <2>1, <2>2, <3>1 DEF Ordered
  <2>3. CASE t[j] = e
    BY <1>3, <2>1, <2>3
  <2> QED
    BY <1>1, <2>2, <2>3
<1>4. ASSUME p.told \notin Cheerful, NEW j \in 1..Len(t), Starts(t[j])
      PROVE  t[j].conn # p.armed[1]
  <2>1. CASE t[j] = e
    <3>1. p.armed[1] \in Nat /\ e.conn \in Nat
      BY DEF Page, Event
    <3> QED
      BY <1>4, <2>1, <3>1
  <2>2. CASE j \in 1..Len(q) /\ t[j] = q[j]
    BY <1>4, <2>2 DEF Ordered
  <2> QED
    BY <1>1, <2>1, <2>2
<1>5. p.armed[1] =< p.newest /\ p.newest =< g
  BY DEF Ordered
<1>6. Ordered(p, t, g)
  BY <1>2, <1>3, <1>4, <1>5 DEF Ordered
<1> QED
  BY <1>6 DEF t

(* An end or a loss, of the newest generation: nothing before it counts.    *)
LEMMA PostStop ==
    ASSUME NEW p \in Page, NEW q \in Seq(Event), NEW g \in Nat, NEW k \in Nat, g =< k, Ordered(p, q, g),
           NEW e \in Event, Stops(e), e.conn \in 1..k, g =< e.conn, NEW heard
    PROVE  Story(p, Append(q, e), k, FALSE, heard)
<1> DEFINE t == Append(q, e)
<1>1. /\ Len(q) \in Nat /\ Len(t) = Len(q) + 1
      /\ \A i \in 1..Len(q) : t[i] = q[i] /\ i \in 1..Len(t)
      /\ \A i \in 1..Len(t) : (i \in 1..Len(q) /\ t[i] = q[i]) \/ (i = Len(q) + 1 /\ t[i] = e)
      /\ t[Len(q) + 1] = e
  BY Posted
<1>2. Says(e) /\ ~Starts(e)
  BY DEF Stops, Starts, Says
<1>3. \A i \in 1..Len(q) : Says(q[i]) => q[i].conn \in 1..g
  BY DEF Ordered
<1>4. p.newest \in Nat /\ p.newest =< g /\ p.armed[1] \in Nat /\ p.armed[1] =< p.newest
  BY DEF Ordered, Page
<1>5. Ordered(p, q, k)
  BY <1>3, <1>4 DEF Ordered
<1>6. Ordered(p, t, k)
  <2>1. \A i \in 1..Len(q) : Says(q[i]) => q[i].conn =< e.conn
    BY <1>3
  <2> QED
    BY <1>2, <1>5, <2>1, PostOrdered
<1> HIDE DEF t
<1>7. Undone(p, t)
  <2> SUFFICES ASSUME NEW i \in 0..Len(t), IF i = 0 THEN p.told = "connected" ELSE Starts(t[i])
               PROVE  \E j \in (i + 1)..Len(t) : Stops(t[j]) /\ t[j].conn >= p.newest
    BY DEF Undone
  <2>1. i # Len(q) + 1
    BY <1>1, <1>2
  <2>2. Len(q) + 1 \in (i + 1)..Len(t)
    BY <1>1, <2>1
  <2>3. e.conn >= p.newest
    BY <1>4
  <2> QED
    BY <1>1, <2>2, <2>3
<1>8. Story(p, t, k, FALSE, heard)
  BY <1>6, <1>7 DEF Story
<1> QED
  BY <1>8 DEF t

(* A start of a new generation. *)
LEMMA PostStart ==
    ASSUME NEW p \in Page, NEW q \in Seq(Event), NEW k \in Nat \ {0}, Ordered(p, q, k),
           NEW e \in Event, Starts(e), e.conn = k, p.armed[1] < k,
           \A i \in 1..Len(q) : q[i].kind = "lost" => q[i].conn < k, NEW heard
    PROVE  Story(p, Append(q, e), k, TRUE, heard)
<1> DEFINE t == Append(q, e)
<1>1. /\ Len(q) \in Nat /\ Len(t) = Len(q) + 1
      /\ \A i \in 1..Len(t) : (i \in 1..Len(q) /\ t[i] = q[i]) \/ (i = Len(q) + 1 /\ t[i] = e)
      /\ t[Len(q) + 1] = e
  BY Posted
<1>2. Says(e) /\ ~Stops(e)
  BY DEF Stops, Starts, Says
<1>3. \A i \in 1..Len(q) : Says(q[i]) => q[i].conn \in 1..k
  BY DEF Ordered
<1>4. p.newest \in Nat /\ p.newest =< k
  BY DEF Ordered, Page
<1>5. Ordered(p, t, k)
  <2>1. \A i \in 1..Len(q) : Says(q[i]) => q[i].conn =< e.conn
    BY <1>3
  <2>2. e.conn \in 1..k
    OBVIOUS
  <2> QED
    BY <1>2, <2>1, <2>2, PostOrdered
<1> HIDE DEF t
<1>6. Restarted(p, t)
  <2>1. Len(q) + 1 \in 1..Len(t) /\ e.conn >= p.newest
    BY <1>1, <1>4
  <2>2. ASSUME NEW i \in 1..Len(t), Stops(t[i]) PROVE \E j \in (i + 1)..Len(t) : Starts(t[j])
    <3>1. i \in 1..Len(q)
      BY <1>1, <1>2, <2>2
    <3>2. Len(q) + 1 \in (i + 1)..Len(t)
      BY <1>1, <3>1
    <3> QED
      BY <1>1, <3>2
  <2> QED
    BY <1>1, <2>1, <2>2 DEF Restarted
<1>7. Story(p, t, k, TRUE, heard)
  BY <1>5, <1>6 DEF Story
<1> QED
  BY <1>7 DEF t

(***************************************************************************)
(* What a step posts, by what it ends or starts.                           *)
(***************************************************************************)
LEMMA Joined ==
    ASSUME NEW q \in Seq(Event), NEW a \in Event, NEW b \in Event
    PROVE  /\ q \o <<>> = q /\ q \o <<a>> = Append(q, a) /\ q \o <<a, b>> = Append(Append(q, a), b)
           /\ <<>> \o q = q /\ <<>> \in Seq(Event) /\ <<a>> \in Seq(Event) /\ <<a, b>> \in Seq(Event)
           /\ Len(<<a>>) = 1 /\ Len(<<a, b>>) = 2 /\ Few(<<>>) /\ Few(<<a>>) /\ Few(<<a, b>>)
<1>1. q \o <<>> = q /\ <<>> \o q = q
  BY ConcatEmptySeq
<1>2. q \o <<a>> = Append(q, a)
  OBVIOUS
<1>3. q \o <<a, b>> = Append(Append(q, a), b)
  OBVIOUS
<1>4. Few(<<>>) /\ Few(<<a>>)
  BY DEF Few
<1>5. Few(<<a, b>>)
  BY DEF Few
<1> QED
  BY <1>1, <1>2, <1>3, <1>4, <1>5

(* What the posts may be, in the controller's generation g and the next, k. *)
Posts(es, g, k, live, live2) ==
    \/ es \in {<<>>, <<Failed>>} /\ g =< k /\ live2 = live
    \/ /\ live2 = FALSE
       /\ \E a \in Event : /\ Stops(a) /\ a.conn \in 1..k /\ g =< a.conn /\ g =< k
                           /\ es \in {<<a>>, <<a, Failed>>}
    \/ /\ live2 = TRUE /\ k = g + 1
       /\ \E b \in Event : /\ Starts(b) /\ b.conn = k
                           /\ \/ es = <<b>>
                              \/ \E a \in Event : a.kind = "ended" /\ a.conn = k /\ es = <<a, b>>

LEMMA PostsStory ==
    ASSUME NEW p \in Page, NEW q \in Seq(Event), NEW g \in Nat, NEW k \in Nat, NEW live, NEW live2,
           NEW heard, NEW heard2, heard2 => heard, NEW es, Posts(es, g, k, live, live2), Story(p, q, g, live, heard)
    PROVE  /\ Story(p, q \o es, k, live2, heard2) /\ Few(es) /\ es \in Seq(Event)
           /\ \A i \in 1..Len(es) : Says(es[i]) => es[i].conn >= g
<1>0. Failed \in Event /\ ~Says(Failed)
  BY PostFailed DEF Says, Failed
<1>a. Ordered(p, q, g)
  BY DEF Story
<1>1. CASE es \in {<<>>, <<Failed>>} /\ g =< k /\ live2 = live
  <2>1. Story(p, q, k, live2, heard2)
    BY <1>1, StoryGrows
  <2>2. Story(p, Append(q, Failed), k, live2, heard2)
    BY <2>1, PostFailed
  <2>3. CASE es = <<>>
    <3>1. Len(es) = 0 /\ es \in Seq(Event) /\ Few(es) /\ q \o es = q
      BY <1>0, <2>3, Joined
    <3>2. \A i \in 1..Len(es) : Says(es[i]) => es[i].conn >= g
      BY <3>1
    <3> QED
      BY <2>1, <3>1, <3>2
  <2>4. CASE es = <<Failed>>
    <3>1. Len(es) = 1 /\ es[1] = Failed /\ es \in Seq(Event) /\ Few(es) /\ q \o es = Append(q, Failed)
      BY <1>0, <2>4, Joined
    <3>2. \A i \in 1..Len(es) : Says(es[i]) => es[i].conn >= g
      BY <1>0, <2>2, <2>4, <3>1
    <3> QED
      BY <1>0, <2>2, <2>4, <3>1, <3>2
  <2> QED
    BY <1>1, <2>3, <2>4
<1>2. ASSUME NEW a \in Event, Stops(a), a.conn \in 1..k, g =< a.conn, g =< k, es \in {<<a>>, <<a, Failed>>},
             live2 = FALSE
      PROVE  /\ Story(p, q \o es, k, live2, heard2) /\ Few(es) /\ es \in Seq(Event)
             /\ \A i \in 1..Len(es) : Says(es[i]) => es[i].conn >= g
  <2>1. Story(p, Append(q, a), k, FALSE, heard2)
    BY <1>a, <1>2, PostStop
  <2>2. Append(q, a) \in Seq(Event)
    BY Posted
  <2>3. Story(p, Append(Append(q, a), Failed), k, FALSE, heard2)
    BY <2>1, <2>2, PostFailed
  <2>4. CASE es = <<a>>
    <3>1. Len(es) = 1 /\ es[1] = a /\ es \in Seq(Event) /\ Few(es) /\ q \o es = Append(q, a)
      BY <2>4, Joined
    <3>2. \A i \in 1..Len(es) : Says(es[i]) => es[i].conn >= g
      BY <1>2, <2>1, <2>4, <3>1
    <3> QED
      BY <1>2, <2>1, <2>4, <3>1, <3>2
  <2>5. CASE es = <<a, Failed>>
    <3>1. Len(es) = 2 /\ es[1] = a /\ es[2] = Failed /\ es \in Seq(Event) /\ Few(es)
          /\ q \o es = Append(Append(q, a), Failed)
      BY <1>0, <2>5, Joined
    <3>2. \A i \in 1..Len(es) : Says(es[i]) => es[i].conn >= g
      BY <1>0, <1>2, <2>3, <2>5, <3>1
    <3> QED
      BY <1>0, <1>2, <2>3, <2>5, <3>1, <3>2
  <2> QED
    BY <1>2, <2>4, <2>5
<1>3. ASSUME NEW b \in Event, Starts(b), b.conn = k, k = g + 1, live2 = TRUE
      PROVE  /\ es = <<b>> => /\ Story(p, q \o es, k, live2, heard2) /\ Few(es) /\ es \in Seq(Event)
                              /\ \A i \in 1..Len(es) : Says(es[i]) => es[i].conn >= g
             /\ \A a \in Event : a.kind = "ended" /\ a.conn = k /\ es = <<a, b>> =>
                     /\ Story(p, q \o es, k, live2, heard2) /\ Few(es) /\ es \in Seq(Event)
                     /\ \A i \in 1..Len(es) : Says(es[i]) => es[i].conn >= g
  <2>1. p.armed[1] \in Nat /\ p.newest \in Nat /\ p.armed[1] =< p.newest /\ p.newest =< g
    BY <1>a DEF Ordered, Page
  <2>2. \A i \in 1..Len(q) : Says(q[i]) => q[i].conn \in 1..g
    BY <1>a DEF Ordered
  <2>3. \A i \in 1..Len(q) : q[i].kind = "lost" => q[i].conn < k
    BY <1>3, <2>2 DEF Says
  <2>4. Ordered(p, q, k)
    <3>1. Story(p, q, k, live, heard2)
      BY <1>3, StoryGrows
    <3> QED
      BY <3>1 DEF Story
  <2>5. p.armed[1] < k /\ k \in Nat \ {0}
    BY <1>3, <2>1
  <2>6. ASSUME es = <<b>>
        PROVE  /\ Story(p, q \o es, k, live2, heard2) /\ Few(es) /\ es \in Seq(Event)
               /\ \A i \in 1..Len(es) : Says(es[i]) => es[i].conn >= g
    <3>1. Story(p, Append(q, b), k, TRUE, heard2)
      BY <1>3, <2>3, <2>4, <2>5, PostStart
    <3>2. Len(es) = 1 /\ es[1] = b /\ es \in Seq(Event) /\ Few(es) /\ q \o es = Append(q, b)
      BY <2>6, Joined
    <3>3. \A i \in 1..Len(es) : Says(es[i]) => es[i].conn >= g
      BY <1>3, <2>6, <3>1, <3>2
    <3> QED
      BY <1>3, <2>6, <3>1, <3>2, <3>3
  <2>7. ASSUME NEW a \in Event, a.kind = "ended", a.conn = k, es = <<a, b>>
        PROVE  /\ Story(p, q \o es, k, live2, heard2) /\ Few(es) /\ es \in Seq(Event)
               /\ \A i \in 1..Len(es) : Says(es[i]) => es[i].conn >= g
    <3>1. Says(a) /\ ~Starts(a) /\ a.conn \in 1..k
      BY <1>3, <2>7 DEF Says, Starts
    <3>2. Ordered(p, Append(q, a), k)
      <4>1. \A i \in 1..Len(q) : Says(q[i]) => q[i].conn =< a.conn
        BY <1>3, <2>2, <2>7
      <4> QED
        BY <2>4, <3>1, <4>1, PostOrdered
    <3>3. \A i \in 1..Len(Append(q, a)) : Append(q, a)[i].kind = "lost" => Append(q, a)[i].conn < k
      BY <2>3, <2>7, Posted
    <3>4. Append(q, a) \in Seq(Event)
      BY Posted
    <3>5. Story(p, Append(Append(q, a), b), k, TRUE, heard2)
      BY <1>3, <2>5, <3>2, <3>3, <3>4, PostStart
    <3>6. Len(es) = 2 /\ es[1] = a /\ es[2] = b /\ es \in Seq(Event) /\ Few(es) /\ q \o es = Append(Append(q, a), b)
      BY <2>7, Joined
    <3>7. \A i \in 1..Len(es) : Says(es[i]) => es[i].conn >= g
      BY <1>3, <2>7, <3>5, <3>6
    <3> QED
      BY <1>3, <2>7, <3>5, <3>6, <3>7
  <2> QED
    BY <2>6, <2>7
<1> QED
  BY <1>1, <1>2, <1>3 DEF Posts

(* Posting keeps the kinds. *)
LEMMA TellTyped ==
    ASSUME page \in Page, posts \in Seq(Event), NEW es \in Seq(Event), Few(es), Tell(es)
    PROVE  page' \in Page /\ posts' \in Seq(Event) /\ page'.read = page.read
<1>1. CASE Reloads
  BY <1>1, ConcatProperties DEF Tell
<1>2. CASE ~Reloads
  <2>1. page' = LandAll(page, es) /\ posts' = posts
    BY <1>2 DEF Tell, LandAll
  <2>2. CASE es = <<>>
    BY <2>1, <2>2, LandNone
  <2>3. ASSUME NEW a \in Event, es = <<a>> PROVE page' \in Page /\ page'.read = page.read
    <3>1. LandAll(page, <<a>>) = Land(page, a)
      BY LandOne
    <3>2. page' = Land(page, a)
      BY <2>1, <2>3, <3>1
    <3> QED
      BY <3>2, LandRead
  <2>4. ASSUME NEW a \in Event, NEW b \in Event, es = <<a, b>> PROVE page' \in Page /\ page'.read = page.read
    <3>0. LandAll(page, <<a, b>>) = Land(Land(page, a), b)
      BY LandTwo
    <3>1. page' = Land(Land(page, a), b)
      BY <2>1, <2>4, <3>0
    <3>2. Land(page, a) \in Page /\ Land(page, a).read = page.read
      BY LandRead
    <3> QED
      BY <3>1, <3>2, LandRead
  <2> QED
    BY <2>1, <2>2, <2>3, <2>4 DEF Few
<1> QED
  BY <1>1, <1>2

(* A page that reads its posts one by one, or at once, reads the same.      *)
LEMMA TellStory ==
    ASSUME page \in Page, posts \in Seq(Event), NEW es \in Seq(Event), Few(es), Tell(es),
           Reloads \/ posts = <<>>, NEW k \in Nat, NEW live, NEW heard, Story(page, posts \o es, k, live, heard)
    PROVE  Story(page', posts', k, live, heard)
<1>1. CASE Reloads
  BY <1>1 DEF Tell
<1>2. CASE ~Reloads
  <2>1. page' = LandAll(page, es) /\ posts' = <<>> /\ posts \o es = es
    BY <1>2, ConcatEmptySeq DEF Tell, LandAll
  <2>2. CASE es = <<>>
    BY <2>1, <2>2, LandNone
  <2>3. ASSUME NEW a \in Event, es = <<a>> PROVE Story(page', posts', k, live, heard)
    <3>1. Head(es) = a /\ Tail(es) = <<>> /\ es # <<>>
      BY <2>3
    <3>2. Story(Land(page, a), <<>>, k, live, heard)
      BY <2>1, <3>1, LandStory
    <3> QED
      BY <2>1, <2>3, <3>2, LandOne
  <2>4. ASSUME NEW a \in Event, NEW b \in Event, es = <<a, b>> PROVE Story(page', posts', k, live, heard)
    <3>1. Head(es) = a /\ Tail(es) = <<b>> /\ es # <<>>
      BY <2>4
    <3>2. Story(Land(page, a), <<b>>, k, live, heard)
      BY <2>1, <3>1, LandStory
    <3>3. Land(page, a) \in Page /\ <<b>> \in Seq(Event) /\ <<b>> # <<>> /\ Head(<<b>>) = b /\ Tail(<<b>>) = <<>>
      BY LandRead
    <3>4. Story(Land(Land(page, a), b), <<>>, k, live, heard)
      BY <3>2, <3>3, LandStory
    <3>5. LandAll(page, <<a, b>>) = Land(Land(page, a), b)
      BY LandTwo
    <3> QED
      BY <2>1, <2>4, <3>4, <3>5
  <2> QED
    BY <2>2, <2>3, <2>4 DEF Few
<1> QED
  BY <1>1, <1>2

(* One event, and what the controller owes for it. *)
LEMMA LandOwed ==
    ASSUME NEW p \in Page, NEW e \in Event, NEW owed \in BOOLEAN, owed <=> p.armed # NotArmed,
           Says(e) => e.conn >= p.newest /\ e.conn # 0
    PROVE  Owing(owed, e) \in BOOLEAN /\ (Owing(owed, e) <=> Land(p, e).armed # NotArmed)
<1>1. e.kind \in {"started", "ended", "lost", "failed"}
  BY DEF Event
<1>2. CASE e.kind = "started"
  <2>1. Land(p, e).armed = <<e.conn, e.sid>>
    BY <1>2, LandRead DEF Says, Starts
  <2>2. <<e.conn, e.sid>> # NotArmed
    BY <1>2 DEF NotArmed, Says
  <2> QED
    BY <1>2, <2>1, <2>2 DEF Owing
<1>3. CASE e.kind = "ended"
  <2>1. Land(p, e).armed = NotArmed
    BY <1>3, LandRead DEF Says, Stops
  <2> QED
    BY <1>3, <2>1 DEF Owing
<1>4. CASE e.kind = "lost"
  <2>1. Land(p, e).armed = p.armed
    BY <1>4, LandRead DEF Says, Stops
  <2> QED
    BY <1>4, <2>1 DEF Owing
<1>5. CASE e.kind = "failed"
  <2>1. Land(p, e).armed = p.armed
    BY <1>5, LandRead DEF Says
  <2> QED
    BY <1>5, <2>1 DEF Owing
<1> QED
  BY <1>1, <1>2, <1>3, <1>4, <1>5

(* What is owed is a truth value, whatever is posted. *)
LEMMA OwedTyped ==
    ASSUME NEW es, Few(es), NEW owed \in BOOLEAN
    PROVE  OwingAll(owed, es) \in BOOLEAN
<1>1. \A o \in BOOLEAN, e \in Event : Owing(o, e) \in BOOLEAN
  BY DEF Owing
<1>2. CASE es = <<>>
  BY <1>2, OwingNone
<1>3. ASSUME NEW a \in Event, es = <<a>> PROVE OwingAll(owed, es) \in BOOLEAN
  BY <1>1, <1>3, OwingOne
<1>4. ASSUME NEW a \in Event, NEW b \in Event, es = <<a, b>> PROVE OwingAll(owed, es) \in BOOLEAN
  <2>1. OwingAll(owed, <<a, b>>) = Owing(Owing(owed, a), b)
    BY OwingTwo
  <2> QED
    BY <1>1, <1>4, <2>1
<1> QED
  BY <1>2, <1>3, <1>4 DEF Few

LEMMA TellOwed ==
    ASSUME page \in Page, posts = <<>>, NEW es \in Seq(Event), Few(es), Tell(es), ~Reloads,
           endOwed \in BOOLEAN, endOwed <=> page.armed # NotArmed,
           NEW k \in Nat, Ordered(page, es, k), \A i \in 1..Len(es) : Says(es[i]) => es[i].conn >= page.newest
    PROVE  posts' = <<>> /\ (OwingAll(endOwed, es) <=> page'.armed # NotArmed)
<1>1. page' = LandAll(page, es) /\ posts' = <<>>
  BY DEF Tell, LandAll
<1>2. CASE es = <<>>
  BY <1>1, <1>2, LandNone, OwingNone
<1>3. ASSUME NEW a \in Event, es = <<a>>
      PROVE  OwingAll(endOwed, es) <=> page'.armed # NotArmed
  <2>1. Len(es) = 1 /\ es[1] = a
    BY <1>3
  <2>2. Says(a) => a.conn >= page.newest /\ a.conn # 0
    BY <2>1 DEF Ordered
  <2>3. Owing(endOwed, a) <=> Land(page, a).armed # NotArmed
    BY <2>2, LandOwed
  <2> QED
    BY <1>1, <1>3, <2>3, LandOne, OwingOne
<1>4. ASSUME NEW a \in Event, NEW b \in Event, es = <<a, b>>
      PROVE  OwingAll(endOwed, es) <=> page'.armed # NotArmed
  <2>1. Len(es) = 2 /\ es[1] = a /\ es[2] = b
    BY <1>4
  <2>2. 1 \in 1..Len(es) /\ 2 \in 1..Len(es) /\ 1 < 2
    BY <2>1
  <2>3. Says(a) => a.conn >= page.newest /\ a.conn # 0
    BY <2>1, <2>2 DEF Ordered
  <2>4. Says(b) => b.conn >= page.newest /\ b.conn # 0
    BY <2>1, <2>2 DEF Ordered
  <2>5. Says(a) /\ Says(b) => a.conn =< b.conn
    BY <2>1, <2>2 DEF Ordered
  <2> DEFINE n == Land(page, a)
  <2>6. n \in Page /\ (n.newest = page.newest \/ (Says(a) /\ n.newest = a.conn))
    BY <2>3, LandRead
  <2>7. Owing(endOwed, a) \in BOOLEAN /\ (Owing(endOwed, a) <=> n.armed # NotArmed)
    BY <2>3, LandOwed
  <2>8. Says(b) => b.conn >= n.newest /\ b.conn # 0
    <3> HIDE DEF n
    <3>1. a.conn \in Nat /\ b.conn \in Nat
      BY DEF Event
    <3> QED
      BY <2>4, <2>5, <2>6, <3>1
  <2> HIDE DEF n
  <2>9. Owing(Owing(endOwed, a), b) <=> Land(n, b).armed # NotArmed
    BY <2>6, <2>7, <2>8, LandOwed
  <2>10. LandAll(page, <<a, b>>) = Land(n, b)
    BY LandTwo DEF n
  <2>11. OwingAll(endOwed, <<a, b>>) = Owing(Owing(endOwed, a), b)
    BY OwingTwo
  <2> QED
    BY <1>1, <1>4, <2>9, <2>10, <2>11
<1> QED
  BY <1>1, <1>2, <1>3, <1>4 DEF Few

LEMMA TypedIsTypeOK == Typed => TypeOK
BY DEF Typed, TypeOK, FlightsOK, RequestOK, SocketsOK, ControlOK, ToldOK, OthersOK, Session, Messages, Event, Page

(***************************************************************************)
(* What the controller hands out, and the page.                            *)
(***************************************************************************)
LEMMA NoneIsNoRequest == None \notin Requests /\ None \in Ids /\ None = 0
BY ConnectAssumption DEF None, Ids

(* Every step but a reload leaves the incidents the page is about.          *)
Meets == incidents' \subseteq incidents /\ incidents \subseteq incidents' \cup {"malformed", "loop", "stop", "keep"}

LEMMA MeetsSame ==
    ASSUME Meets
    PROVE  /\ "lost" \in incidents' <=> "lost" \in incidents
           /\ "reloaded" \in incidents' <=> "reloaded" \in incidents
           /\ Reloads' <=> Reloads
           /\ Unheard' <=> Unheard
<1>1. \A w \in {"lost", "reload", "reloaded"} : w \in incidents' <=> w \in incidents
  BY DEF Meets
<1> QED
  BY <1>1 DEF Reloads, Unheard

LEMMA PostsTyped ==
    ASSUME NEW es, NEW g, NEW k, NEW live, NEW live2, Posts(es, g, k, live, live2)
    PROVE  Few(es) /\ es \in Seq(Event)
<1>1. Failed \in Event
  BY DEF Failed, Event, Ids
<1> DEFINE Fine(s) == Few(s) /\ s \in Seq(Event)
<1>2. Fine(<<>>) /\ (\A a \in Event : Fine(<<a>>)) /\ (\A a, b \in Event : Fine(<<a, b>>))
  <2>1. <<>> \in Seq(Event)
    OBVIOUS
  <2>2. ASSUME NEW a \in Event, NEW b \in Event PROVE Fine(<<>>) /\ Fine(<<a>>) /\ Fine(<<a, b>>)
    BY <2>1, Joined
  <2> QED
    BY <1>1, <2>2
<1> HIDE DEF Fine
<1>3. ASSUME es \in {<<>>, <<Failed>>} PROVE Fine(es)
  BY <1>1, <1>2, <1>3
<1>4. ASSUME NEW a \in Event, es \in {<<a>>, <<a, Failed>>} PROVE Fine(es)
  BY <1>1, <1>2, <1>4
<1>5. ASSUME NEW b \in Event, es = <<b>> \/ \E a \in Event : es = <<a, b>> PROVE Fine(es)
  BY <1>2, <1>5
<1>6. Fine(es)
  <2>1. CASE \E a \in Event : es \in {<<a>>, <<a, Failed>>}
    BY <1>4, <2>1
  <2>2. CASE \E b \in Event : es = <<b>> \/ \E a \in Event : es = <<a, b>>
    BY <1>5, <2>2
  <2> QED
    BY <1>3, <2>1, <2>2 DEF Posts
<1> QED
  BY <1>6 DEF Fine

(* The page's part of the invariant, when events are handed out.            *)
LEMMA PageTold ==
    ASSUME Typed, PageInv, Meets, exiting = "down" => exiting' = "down", gen' \in Nat,
           NEW es, Posts(es, gen, gen', session.live, session'.live), Tell(es),
           endOwed' = OwingAll(endOwed, es)
    PROVE  PageInv' /\ page' \in Page /\ posts' \in Seq(Event) /\ endOwed' \in BOOLEAN
<1>1. page \in Page /\ posts \in Seq(Event) /\ gen \in Nat /\ endOwed \in BOOLEAN
  BY DEF Typed, ToldOK, ControlOK
<1>2. Few(es) /\ es \in Seq(Event)
  BY PostsTyped
<1>3. page' \in Page /\ posts' \in Seq(Event) /\ page'.read = page.read
  BY <1>1, <1>2, TellTyped
<1>4. endOwed' \in BOOLEAN
  BY <1>1, <1>2, OwedTyped
<1>5. Reloads \/ posts = <<>>
  BY DEF PageInv
<1>6. ASSUME exiting' # "down"
      PROVE  /\ Story(page', posts', gen', session'.live, ~Unheard')
             /\ ~Reloads => (endOwed' <=> page'.armed # NotArmed)
  <2>1. Story(page, posts, gen, session.live, ~Unheard)
    BY <1>6 DEF PageInv
  <2>2. ~Unheard' => ~Unheard
    BY MeetsSame
  <2>3. /\ Story(page, posts \o es, gen', session'.live, ~Unheard')
        /\ \A i \in 1..Len(es) : Says(es[i]) => es[i].conn >= gen
    BY <1>1, <2>1, <2>2, PostsStory
  <2>4. Story(page', posts', gen', session'.live, ~Unheard')
    BY <1>1, <1>2, <1>5, <2>3, TellStory
  <2>5. ASSUME ~Reloads PROVE endOwed' <=> page'.armed # NotArmed
    <3>1. posts = <<>> /\ posts \o es = es /\ (endOwed <=> page.armed # NotArmed)
      BY <1>2, <1>5, <1>6, <2>5, ConcatEmptySeq DEF PageInv
    <3>2. Ordered(page, es, gen')
      BY <2>3, <3>1 DEF Story
    <3>3. \A i \in 1..Len(es) : Says(es[i]) => es[i].conn >= page.newest
      <4>1. page.newest \in Nat /\ page.newest =< gen
        BY <1>1, <2>1 DEF Story, Ordered, Page
      <4>2. \A i \in 1..Len(es) : es[i].conn \in Nat
        <5>1. \A i \in 1..Len(es) : es[i] \in Event
          BY <1>2
        <5>2. \A e \in Event : e.conn \in Nat
          BY DEF Event
        <5> QED
          BY <5>1, <5>2
      <4> QED
        BY <1>1, <2>3, <4>1, <4>2
    <3> QED
      BY <1>1, <1>2, <2>5, <3>1, <3>2, <3>3, TellOwed
  <2> QED
    BY <2>4, <2>5
<1>7. ~Reloads => posts' = <<>>
  BY <1>5 DEF Tell
<1>8. "reloaded" \notin incidents' => page'.read
  BY <1>3, MeetsSame DEF PageInv
<1>9. PageInv'
  <2>1. ~Reloads' => ~Reloads
    BY MeetsSame
  <2> QED
    BY <1>6, <1>7, <1>8, <2>1 DEF PageInv
<1> QED
  BY <1>3, <1>4, <1>9

(* ... and when none is. *)
LEMMA PageQuiet ==
    ASSUME Typed, PageInv, Meets, exiting = "down" => exiting' = "down", gen' \in Nat, gen =< gen',
           exiting' # "down" => session'.live = session.live, UNCHANGED <<posts, page, endOwed>>
    PROVE  PageInv'
<1>1. page \in Page /\ posts \in Seq(Event) /\ gen \in Nat
  BY DEF Typed, ToldOK, ControlOK
<1>2. ASSUME exiting' # "down" PROVE Story(page', posts', gen', session'.live, ~Unheard')
  <2>1. Story(page, posts, gen, session.live, ~Unheard)
    BY <1>2 DEF PageInv
  <2>2. ~Unheard' => ~Unheard
    BY MeetsSame
  <2> QED
    BY <1>1, <1>2, <2>1, <2>2, StoryGrows
<1> QED
  BY <1>2, MeetsSame DEF PageInv

(***************************************************************************)
(* The controller's steps, by what they do to the session.                 *)
(***************************************************************************)
LEMMA CutSockets ==
    ASSUME SocketsOK, NEW S, Cut(S)
    PROVE  /\ sock' \in [Requests -> {"none", "up", "dead", "shut"}] /\ inbox' \in [Requests -> Seq(Messages)]
           /\ \A s \in Requests \ S : sock'[s] = sock[s]
<1> DEFINE now == {s \in S \ {None} : sock[s] = "up"}
<1>1. sock' = [s \in Requests |-> IF s \in S \/ s \in now THEN "shut" ELSE sock[s]]
  BY DEF Cut
<1>2. inbox' = [s \in Requests |-> CASE s \in S /\ loop[s] = 0 -> <<>>
                                     [] s \in now /\ loop[s] # 0 -> Append(inbox[s], "lost")
                                     [] OTHER -> inbox[s]]
  BY DEF Cut
<1>3. \A s \in Requests : inbox[s] \in Seq(Messages) /\ Append(inbox[s], "lost") \in Seq(Messages)
  BY DEF SocketsOK, Messages
<1>4. now \subseteq S
  OBVIOUS
<1> HIDE DEF now
<1>5. \A s \in Requests : inbox'[s] \in Seq(Messages)
  BY <1>2, <1>3
<1>6. inbox' \in [Requests -> Seq(Messages)]
  BY <1>2, <1>5
<1>7. sock' \in [Requests -> {"none", "up", "dead", "shut"}]
  BY <1>1 DEF SocketsOK
<1>8. \A s \in Requests \ S : sock'[s] = sock[s]
  BY <1>1, <1>4
<1> QED
  BY <1>6, <1>7, <1>8

(* What is handed out settles what is owed. *)
LEMMA Handed ==
    ASSUME NEW es, NEW finals, HandOut(es, finals)
    PROVE  /\ Tell(es) /\ endOwed' = OwingAll(endOwed, es) /\ over' = over \cup finals
           /\ surplus' = (surplus \/ (es # <<>> /\ Spare(endOwed, Head(es))))
BY DEF HandOut, OwingAll

LEMMA OwingOf ==
    ASSUME NEW owed \in BOOLEAN, NEW a \in Event, NEW b \in Event
    PROVE  /\ OwingAll(owed, <<>>) = owed /\ OwingAll(owed, <<Failed>>) = owed
           /\ a.kind = "ended" => /\ OwingAll(owed, <<a>>) = FALSE /\ OwingAll(owed, <<a, Failed>>) = FALSE
           /\ a.kind = "lost" => OwingAll(owed, <<a>>) = owed
           /\ a.kind = "started" => OwingAll(owed, <<a>>) = TRUE
           /\ b.kind = "started" => OwingAll(owed, <<a, b>>) = TRUE
<1>1. Owing(owed, Failed) = owed /\ Owing(FALSE, Failed) = FALSE
  BY DEF Owing, Failed
<1>2. OwingAll(owed, <<>>) = owed /\ OwingAll(owed, <<Failed>>) = Owing(owed, Failed)
  BY OwingNone, OwingOne
<1>3. OwingAll(owed, <<a>>) = Owing(owed, a)
  BY OwingOne
<1>4. OwingAll(owed, <<a, Failed>>) = Owing(Owing(owed, a), Failed)
  BY OwingTwo
<1>5. OwingAll(owed, <<a, b>>) = Owing(Owing(owed, a), b)
  BY OwingTwo
<1>6. a.kind = "ended" => Owing(owed, a) = FALSE
  BY DEF Owing
<1>7. a.kind = "lost" => Owing(owed, a) = owed
  BY DEF Owing
<1>8. a.kind = "started" => Owing(owed, a) = TRUE
  BY DEF Owing
<1>9. b.kind = "started" => Owing(Owing(owed, a), b) = TRUE
  BY DEF Owing
<1> QED
  BY <1>1, <1>2, <1>3, <1>4, <1>5, <1>6, <1>7, <1>8, <1>9

LEMMA EndedIs ==
    ASSUME NEW g \in Nat, NEW s \in Ids
    PROVE  Ended(g, s) \in Event /\ Ended(g, s).kind = "ended" /\ Ended(g, s).conn = g /\ Stops(Ended(g, s))
BY DEF Ended, Event, Stops

LEMMA FailedIs == Failed \in Event /\ Failed.kind = "failed"
BY DEF Failed, Event, Ids

LEMMA Pairs ==
    ASSUME NEW a \in Event, NEW b \in Event
    PROVE  <<a>> \o <<>> = <<a>> /\ <<>> \o <<b>> = <<b>> /\ <<a>> \o <<b>> = <<a, b>>
<1>1. <<a>> \in Seq(Event) /\ <<b>> \in Seq(Event)
  OBVIOUS
<1>2. Append(<<a>>, b) = <<a, b>>
  <2>1. Len(Append(<<a>>, b)) = Len(<<a, b>>) /\ Len(<<a, b>>) = 2
    BY <1>1
  <2>2. Append(<<a>>, b)[1] = a /\ Append(<<a>>, b)[2] = b
    BY <1>1
  <2>3. \A i \in 1..2 : i = 1 \/ i = 2
    OBVIOUS
  <2>4. Append(<<a>>, b) \in Seq(Event) /\ <<a, b>> \in Seq(Event)
    BY <1>1
  <2>5. \A i \in 1..Len(<<a, b>>) : Append(<<a>>, b)[i] = <<a, b>>[i]
    BY <2>1, <2>2, <2>3
  <2> QED
    BY <2>1, <2>4, <2>5, SeqEqual
<1> QED
  BY <1>1, <1>2, Joined

(* A session that is not live, or whose end is told, is retired.            *)
LEMMA Retired ==
    ASSUME Typed, SessionInv, NEW more \in {<<>>, <<Failed>>}, gen' = gen + 1, session'.live = FALSE,
           NEW finals, HandOut(OwedEnd \o more, finals)
    PROVE  /\ \E es : Posts(es, gen, gen', session.live, session'.live) /\ Tell(es) /\ endOwed' = OwingAll(endOwed, es)
           /\ surplus' = surplus /\ over' = over \cup finals
<1> DEFINE e == Ended(NextGen, session.sid)
<1>1. gen \in Nat /\ session \in Session /\ endOwed \in BOOLEAN /\ surplus \in BOOLEAN
  BY DEF Typed, ControlOK, ToldOK
<1>2. NextGen = gen + 1 /\ NextGen \in Nat /\ session.sid \in Ids
  BY <1>1 DEF NextGen, Session
<1>3. e \in Event /\ e.kind = "ended" /\ e.conn = gen + 1 /\ Stops(e)
  BY <1>2, EndedIs
<1>4. Tell(OwedEnd \o more) /\ endOwed' = OwingAll(endOwed, OwedEnd \o more) /\ over' = over \cup finals
      /\ surplus' = (surplus \/ (OwedEnd \o more # <<>> /\ Spare(endOwed, Head(OwedEnd \o more))))
  BY Handed
<1>5. CASE endOwed
  <2>1. OwedEnd = <<e>>
    BY <1>5 DEF OwedEnd
  <2> HIDE DEF e
  <2>2. OwedEnd \o more \in {<<e>>, <<e, Failed>>}
    <3>1. <<e>> \o <<>> = <<e>> /\ <<e>> \o <<Failed>> = <<e, Failed>>
      BY <1>3, FailedIs, Pairs
    <3> QED
      BY <2>1, <3>1
  <2>3. gen =< e.conn /\ e.conn \in 1..gen' /\ gen =< gen'
    BY <1>1, <1>3
  <2>4. Posts(OwedEnd \o more, gen, gen', session.live, session'.live)
    BY <1>3, <2>2, <2>3 DEF Posts
  <2>5. ~Spare(endOwed, Head(OwedEnd \o more))
    BY <1>5 DEF Spare
  <2> QED
    BY <1>1, <1>4, <2>4, <2>5
<1>6. CASE ~endOwed
  <2>1. OwedEnd = <<>> /\ OwedEnd \o more = more
    BY <1>6 DEF OwedEnd
  <2>2. session.live = FALSE
    BY <1>1, <1>6 DEF SessionInv, Session
  <2>a. gen =< gen'
    BY <1>1
  <2>b. session'.live = session.live
    BY <2>2
  <2>3. Posts(more, gen, gen', session.live, session'.live)
    BY <2>a, <2>b DEF Posts
  <2>4. more # <<>> => Head(more) = Failed
    OBVIOUS
  <2>5. ~(more # <<>> /\ Spare(endOwed, Head(more)))
    BY <2>4, FailedIs DEF Spare
  <2> QED
    BY <1>1, <1>4, <2>1, <2>3, <2>5
<1> QED
  BY <1>5, <1>6

(* The four things a failure's settling may do, to the last variable.       *)
LEMMA SettleFails ==
    ASSUME Typed, SessionInv, NEW why, NEW also, NEW more \in {<<>>, <<Failed>>},
           SettleFailure(why, also, more)
    PROVE  /\ \E es : Posts(es, gen, gen', session.live, session'.live) /\ Tell(es) /\ endOwed' = OwingAll(endOwed, es)
           /\ surplus' = surplus
           /\ \/ UNCHANGED <<session, gen, endOwed, over>>
              \/ session' = Nothing /\ gen' = gen + 1 /\ over' = over \cup Final(session)
           /\ \E S : /\ Cut(S) /\ S \subseteq {session.sock} \cup also
                     /\ session'.live => S = also /\ session' = session
<1>1. gen \in Nat /\ session \in Session /\ endOwed \in BOOLEAN /\ surplus \in BOOLEAN
  BY DEF Typed, ControlOK, ToldOK
<1>2. Nothing.live = FALSE
  BY DEF Nothing
<1>3. CASE EndsWith(why)
  <2>1. gen' = gen + 1 /\ session' = Nothing
    BY <1>3 DEF SettleFailure, Retire, SetAside, NextGen
  <2>2. HandOut(OwedEnd \o more, Final(session)) /\ Cut({session.sock} \cup also)
    BY <1>3 DEF SettleFailure
  <2>3. session'.live = FALSE
    BY <1>2, <2>1
  <2>4. /\ \E es : Posts(es, gen, gen', session.live, session'.live) /\ Tell(es) /\ endOwed' = OwingAll(endOwed, es)
        /\ surplus' = surplus /\ over' = over \cup Final(session)
    BY <2>1, <2>2, <2>3, Retired
  <2> QED
    BY <2>1, <2>2, <2>3, <2>4
<1>4. CASE ~EndsWith(why)
  <2>1. UNCHANGED <<session, gen>> /\ HandOut(more, {}) /\ Cut(also)
    BY <1>4 DEF SettleFailure
  <2>2. Tell(more) /\ endOwed' = OwingAll(endOwed, more) /\ over' = over
        /\ surplus' = (surplus \/ (more # <<>> /\ Spare(endOwed, Head(more))))
    <3>1. over \cup {} = over
      OBVIOUS
    <3>2. HandOut(more, {})
      BY <2>1
    <3> QED
      BY <3>1, <3>2, Handed
  <2>3. endOwed' = endOwed
    BY <1>1, <2>2, OwingOf, FailedIs
  <2>4. more # <<>> => Head(more) = Failed
    OBVIOUS
  <2>5. surplus' = surplus
    BY <1>1, <2>2, <2>4, FailedIs DEF Spare
  <2>6. Posts(more, gen, gen', session.live, session'.live)
    BY <1>1, <2>1 DEF Posts
  <2> QED
    BY <2>1, <2>2, <2>3, <2>5, <2>6
<1> QED
  BY <1>3, <1>4

(* A step that leaves the session. *)
LEMMA SessionStays ==
    ASSUME SessionInv, UNCHANGED <<session, gen, endOwed, over, surplus, loop>>,
           \A r \in Requests : at[r] \in Done => at'[r] \in Done
    PROVE  SessionInv'
<1>1. over' \cup {session'.sid} \subseteq {r \in Requests : at'[r] \in Done} \cup {None}
  BY DEF SessionInv
<1> QED
  BY <1>1 DEF SessionInv

(* A step that drops it. *)
LEMMA SessionGone ==
    ASSUME Typed, SessionInv, session' = Nothing, gen' = gen + 1, over' \subseteq over \cup Final(session),
           surplus' = surplus, \A r \in Requests : loop'[r] \in {loop[r], 0},
           \A r \in Requests : at[r] \in Done => at'[r] \in Done
    PROVE  SessionInv'
<1>1. session'.sid = None /\ session'.live = FALSE /\ session'.sock = None
  BY DEF Nothing
<1>2. gen \in Nat /\ \A r \in Requests : loop[r] \in Nat /\ loop[r] =< gen
  BY DEF Typed, ControlOK, SocketsOK, SessionInv
<1>3. \A r \in Requests : loop'[r] =< gen' /\ ~(loop'[r] # 0 /\ loop'[r] = gen')
  BY <1>2
<1>4. None \notin over' /\ over' \subseteq {r \in Requests : at'[r] \in Done} \cup {None}
  BY DEF SessionInv, Final
<1> QED
  BY <1>1, <1>3, <1>4, NoneIsNoRequest DEF SessionInv

(* A step that does nothing to the sockets in question.                     *)
LEMMA SocketStays ==
    ASSUME SocketInv, "lost" \in incidents' <=> "lost" \in incidents,
           session'.live => session.live /\ session'.sock = session.sock /\ sock'[session.sock] = sock[session.sock],
           \A r \in Requests : at'[r] = "asking" \/ (at'[r] = "dialled" /\ result'[r] = "ok") =>
               /\ at[r] = "asking" \/ (at[r] = "dialled" /\ result[r] = "ok")
               /\ sock'[r] = sock[r]
    PROVE  SocketInv'
BY DEF SocketInv

LEMMA FinalsAre == ASSUME ControlOK PROVE Final(session) \subseteq Requests
BY DEF ControlOK, Session, Final, Ids

LEMMA NothingIs == Nothing \in Session /\ Nothing.live = FALSE /\ Nothing.sock = None /\ Nothing.sid = None
BY DEF Nothing, Session, Ids

(* What a dial needs of its socket, if it goes well. *)
Needs(r) == at[r] = "asking" \/ (at[r] = "dialled" /\ result[r] = "ok")

LEMMA SockOfSession ==
    ASSUME SessionInv, NEW r \in Requests, at[r] \notin Done PROVE r # session.sock
BY DEF SessionInv

(* A failure that is settled, whoever settles it. *)
LEMMA SettleStep ==
    ASSUME Inv, Meets, exiting = "down" => exiting' = "down", UNCHANGED <<device, loop>>,
           NEW why, NEW also \in SUBSET Requests, NEW more \in {<<>>, <<Failed>>},
           SettleFailure(why, also, more),
           \A r \in also : at[r] \notin Done,
           \A r \in Requests : at[r] \in Done => at'[r] \in Done,
           \A r \in Requests : Needs(r)' => Needs(r) /\ r \notin also
    PROVE  SocketsOK' /\ ControlOK' /\ ToldOK' /\ SessionInv' /\ SocketInv' /\ PageInv'
<1>1. Typed /\ SessionInv /\ SocketInv /\ PageInv /\ SocketsOK /\ ControlOK /\ ToldOK
  BY DEF Inv, Typed
<1>2. PICK es : Posts(es, gen, gen', session.live, session'.live) /\ Tell(es) /\ endOwed' = OwingAll(endOwed, es)
  BY <1>1, SettleFails
<1>3. PICK S : /\ Cut(S) /\ S \subseteq {session.sock} \cup also
               /\ session'.live => S = also /\ session' = session
  BY <1>1, SettleFails
<1>4. surplus' = surplus
  BY <1>1, SettleFails
<1>5. \/ UNCHANGED <<session, gen, endOwed, over>>
      \/ session' = Nothing /\ gen' = gen + 1 /\ over' = over \cup Final(session)
  BY <1>1, SettleFails
<1>6. gen' \in Nat /\ session' \in Session
  BY <1>1, <1>5, NothingIs DEF ControlOK
<1>7. PageInv' /\ page' \in Page /\ posts' \in Seq(Event) /\ endOwed' \in BOOLEAN
  BY <1>1, <1>2, <1>6, PageTold
<1>8. SocketsOK'
  BY <1>1, <1>3, CutSockets DEF SocketsOK
<1>9. ControlOK' /\ ToldOK'
  BY <1>1, <1>4, <1>5, <1>6, <1>7, FinalsAre DEF ControlOK, ToldOK
<1>10. SessionInv'
  <2>1. CASE UNCHANGED <<session, gen, endOwed, over>>
    BY <1>1, <1>4, <2>1, SessionStays
  <2>2. CASE session' = Nothing /\ gen' = gen + 1 /\ over' = over \cup Final(session)
    BY <1>1, <1>4, <2>2, SessionGone
  <2> QED
    BY <1>5, <2>1, <2>2
<1>11. SocketInv'
  <2>1. "lost" \in incidents' <=> "lost" \in incidents
    BY MeetsSame
  <2>2. session'.live => session.live /\ session'.sock = session.sock /\ sock'[session.sock] = sock[session.sock]
    <3> SUFFICES ASSUME session'.live
                 PROVE  session.live /\ session'.sock = session.sock /\ sock'[session.sock] = sock[session.sock]
      OBVIOUS
    <3>1. S = also /\ session' = session
      BY <1>3
    <3>2. session.sock \in Requests /\ session.sock \notin also
      BY <1>1, <3>1 DEF SessionInv
    <3> QED
      BY <1>1, <1>3, <3>1, <3>2, CutSockets
  <2>3. ASSUME NEW r \in Requests, Needs(r)' PROVE Needs(r) /\ sock'[r] = sock[r]
    <3>1. Needs(r) /\ r \notin also
      BY <2>3
    <3>2. r # session.sock
      BY <1>1, <3>1, SockOfSession DEF Needs, Done
    <3>3. r \notin S
      BY <1>3, <3>1, <3>2
    <3> QED
      BY <1>1, <1>3, <3>1, <3>3, CutSockets
  <2> QED
    BY <1>1, <2>1, <2>2, <2>3, SocketStays DEF Needs
<1> QED
  BY <1>7, <1>8, <1>9, <1>10, <1>11

(* A step the controller takes no part in. *)
LEMMA QuietStep ==
    ASSUME Inv, Meets, exiting = "down" => exiting' = "down", UNCHANGED <<control, told, loop>>,
           \A r \in Requests : at[r] \in Done => at'[r] \in Done,
           "lost" \notin incidents =>
               \A r \in Requests : r = session.sock \/ (Needs(r)' /\ Needs(r)) => sock'[r] = sock[r],
           \A r \in Requests : Needs(r)' => Needs(r) \/ sock'[r] = "up"
    PROVE  ControlOK' /\ ToldOK' /\ SessionInv' /\ SocketInv' /\ PageInv'
<1>1. Typed /\ SessionInv /\ SocketInv /\ PageInv /\ ControlOK /\ ToldOK
  BY DEF Inv, Typed
<1>2. UNCHANGED <<session, gen, endOwed, posts, page, over, surplus>>
  BY DEF control, told
<1>3. ControlOK' /\ ToldOK'
  BY <1>1, <1>2 DEF ControlOK, ToldOK
<1>4. SessionInv'
  BY <1>1, <1>2, SessionStays
<1>5. PageInv'
  BY <1>1, <1>2, PageQuiet DEF ControlOK
<1>6. SocketInv'
  <2>1. "lost" \in incidents' <=> "lost" \in incidents
    BY MeetsSame
  <2>2. "lost" \notin incidents /\ session.live => sock'[session.sock] = "up"
    BY <1>1 DEF SocketInv, SessionInv
  <2>3. "lost" \notin incidents => \A r \in Requests : Needs(r)' => sock'[r] = "up"
    BY <1>1 DEF SocketInv, Needs
  <2> QED
    BY <1>2, <2>1, <2>2, <2>3 DEF SocketInv, Needs
<1> QED
  BY <1>3, <1>4, <1>5, <1>6

(***************************************************************************)
(* The steps the controller takes no part in.                              *)
(***************************************************************************)
LEMMA CallStep == ASSUME Inv, NEW r \in Requests, Call(r) PROVE Typed' /\ SessionInv' /\ SocketInv' /\ PageInv'
<1>1. Typed /\ FlightsOK /\ RequestOK /\ SocketsOK /\ OthersOK /\ ControlOK /\ SessionInv /\ SlotInv
  BY DEF Inv, Typed
<1>2. FlightsOK'
  BY <1>1 DEF Call, Goes, flights, FlightsOK, Fired, Answered, Ids, Results, Failures
<1>3. RequestOK'
  BY <1>1 DEF Call, Goes, request, RequestOK, Places, Ids, Results, Failures, FlightsOK
<1>4. SocketsOK'
  BY <1>1 DEF Call, Goes, sockets, SocketsOK, Messages
<1>5. OthersOK'
  BY <1>1 DEF Call, Goes, others, OthersOK, Incidents
<1>6. Meets /\ (exiting = "down" => exiting' = "down") /\ UNCHANGED <<control, told, loop>>
  BY <1>1 DEF Call, Goes, Meets, others, sockets, OthersOK
<1>7. \A q \in Requests : at[q] \in Done => at'[q] \in Done
  BY <1>1 DEF Call, Goes, request, RequestOK, Done
<1>8. "lost" \notin incidents => \A q \in Requests : q = session.sock \/ (Needs(q)' /\ Needs(q)) => sock'[q] = sock[q]
  BY <1>1, SockOfSession DEF Call, Goes, request, sockets, RequestOK, SocketsOK, Needs, Done
<1>9. \A q \in Requests : Needs(q)' => Needs(q) \/ sock'[q] = "up"
  BY <1>1 DEF Call, Goes, request, sockets, RequestOK, SocketsOK, Needs, Failures
<1> QED
  BY <1>2, <1>3, <1>4, <1>5, <1>6, <1>7, <1>8, <1>9, QuietStep DEF Typed

LEMMA JoinClosedStep == ASSUME Inv, NEW r \in Requests, JoinClosed(r) PROVE Typed' /\ SessionInv' /\ SocketInv' /\ PageInv'
<1>1. Typed /\ FlightsOK /\ RequestOK /\ SocketsOK /\ OthersOK /\ ControlOK /\ SessionInv /\ SlotInv
  BY DEF Inv, Typed
<1>2. FlightsOK'
  BY <1>1 DEF JoinClosed, Goes, flights, FlightsOK, Fired, Answered, Ids, Results, Failures
<1>3. RequestOK'
  BY <1>1 DEF JoinClosed, Goes, request, RequestOK, Places, Ids, Results, Failures, FlightsOK
<1>4. SocketsOK'
  BY <1>1 DEF JoinClosed, Goes, sockets, SocketsOK, Messages
<1>5. OthersOK'
  BY <1>1 DEF JoinClosed, Goes, others, OthersOK, Incidents
<1>6. Meets /\ (exiting = "down" => exiting' = "down") /\ UNCHANGED <<control, told, loop>>
  BY <1>1 DEF JoinClosed, Goes, Meets, others, sockets, OthersOK
<1>7. \A q \in Requests : at[q] \in Done => at'[q] \in Done
  BY <1>1 DEF JoinClosed, Goes, request, RequestOK, Done
<1>8. "lost" \notin incidents => \A q \in Requests : q = session.sock \/ (Needs(q)' /\ Needs(q)) => sock'[q] = sock[q]
  BY <1>1, SockOfSession DEF JoinClosed, Goes, request, sockets, RequestOK, SocketsOK, Needs, Done
<1>9. \A q \in Requests : Needs(q)' => Needs(q) \/ sock'[q] = "up"
  BY <1>1 DEF JoinClosed, Goes, request, sockets, RequestOK, SocketsOK, Needs, Failures
<1> QED
  BY <1>2, <1>3, <1>4, <1>5, <1>6, <1>7, <1>8, <1>9, QuietStep DEF Typed

LEMMA FollowStep == ASSUME Inv, NEW r \in Requests, Follow(r) PROVE Typed' /\ SessionInv' /\ SocketInv' /\ PageInv'
<1>1. Typed /\ FlightsOK /\ RequestOK /\ SocketsOK /\ OthersOK /\ ControlOK /\ SessionInv /\ SlotInv
  BY DEF Inv, Typed
<1>2. FlightsOK'
  BY <1>1 DEF Follow, Goes, Registered, flights, FlightsOK, Fired, Answered, Ids, Results, Failures
<1>3. RequestOK'
  BY <1>1 DEF Follow, Goes, Registered, request, RequestOK, Places, Ids, Results, Failures, FlightsOK
<1>4. SocketsOK'
  BY <1>1 DEF Follow, Goes, Registered, sockets, SocketsOK, Messages
<1>5. OthersOK'
  BY <1>1 DEF Follow, Goes, Registered, others, OthersOK, Incidents
<1>6. Meets /\ (exiting = "down" => exiting' = "down") /\ UNCHANGED <<control, told, loop>>
  BY <1>1 DEF Follow, Goes, Registered, Meets, others, sockets, OthersOK
<1>7. \A q \in Requests : at[q] \in Done => at'[q] \in Done
  BY <1>1 DEF Follow, Goes, Registered, request, RequestOK, Done
<1>8. "lost" \notin incidents => \A q \in Requests : q = session.sock \/ (Needs(q)' /\ Needs(q)) => sock'[q] = sock[q]
  BY <1>1, SockOfSession DEF Follow, Goes, Registered, request, sockets, RequestOK, SocketsOK, Needs, Done
<1>9. \A q \in Requests : Needs(q)' => Needs(q) \/ sock'[q] = "up"
  BY <1>1 DEF Follow, Goes, Registered, request, sockets, RequestOK, SocketsOK, Needs, Failures
<1> QED
  BY <1>2, <1>3, <1>4, <1>5, <1>6, <1>7, <1>8, <1>9, QuietStep DEF Typed

LEMMA LeadStep == ASSUME Inv, NEW r \in Requests, Lead(r) PROVE Typed' /\ SessionInv' /\ SocketInv' /\ PageInv'
<1>1. Typed /\ FlightsOK /\ RequestOK /\ SocketsOK /\ OthersOK /\ ControlOK /\ SessionInv /\ SlotInv
  BY DEF Inv, Typed
<1>2. FlightsOK'
  BY <1>1 DEF Lead, Goes, Registered, Supersede, flights, FlightsOK, Fired, Answered, Ids, Results, Failures
<1>3. RequestOK'
  BY <1>1 DEF Lead, Goes, Registered, Supersede, request, RequestOK, Places, Ids, Results, Failures, FlightsOK
<1>4. SocketsOK'
  BY <1>1 DEF Lead, Goes, Registered, Supersede, sockets, SocketsOK, Messages
<1>5. OthersOK'
  BY <1>1 DEF Lead, Goes, Registered, Supersede, others, OthersOK, Incidents
<1>6. Meets /\ (exiting = "down" => exiting' = "down") /\ UNCHANGED <<control, told, loop>>
  BY <1>1 DEF Lead, Goes, Registered, Supersede, Meets, others, sockets, OthersOK
<1>7. \A q \in Requests : at[q] \in Done => at'[q] \in Done
  BY <1>1 DEF Lead, Goes, Registered, Supersede, request, RequestOK, Done
<1>8. "lost" \notin incidents => \A q \in Requests : q = session.sock \/ (Needs(q)' /\ Needs(q)) => sock'[q] = sock[q]
  BY <1>1, SockOfSession DEF Lead, Goes, Registered, Supersede, request, sockets, RequestOK, SocketsOK, Needs, Done
<1>9. \A q \in Requests : Needs(q)' => Needs(q) \/ sock'[q] = "up"
  BY <1>1 DEF Lead, Goes, Registered, Supersede, request, sockets, RequestOK, SocketsOK, Needs, Failures
<1> QED
  BY <1>2, <1>3, <1>4, <1>5, <1>6, <1>7, <1>8, <1>9, QuietStep DEF Typed

LEMMA WakeStep == ASSUME Inv, NEW r \in Requests, Wake(r) PROVE Typed' /\ SessionInv' /\ SocketInv' /\ PageInv'
<1>1. Typed /\ FlightsOK /\ RequestOK /\ SocketsOK /\ OthersOK /\ ControlOK /\ SessionInv /\ SlotInv
  BY DEF Inv, Typed
<1>2. FlightsOK'
  BY <1>1 DEF Wake, Goes, SlotInv, flights, FlightsOK, Fired, Answered, Ids, Results, Failures
<1>3. RequestOK'
  BY <1>1 DEF Wake, Goes, SlotInv, request, RequestOK, Places, Ids, Results, Failures, FlightsOK
<1>4. SocketsOK'
  BY <1>1 DEF Wake, Goes, SlotInv, sockets, SocketsOK, Messages
<1>5. OthersOK'
  BY <1>1 DEF Wake, Goes, SlotInv, others, OthersOK, Incidents
<1>6. Meets /\ (exiting = "down" => exiting' = "down") /\ UNCHANGED <<control, told, loop>>
  BY <1>1 DEF Wake, Goes, SlotInv, Meets, others, sockets, OthersOK
<1>7. \A q \in Requests : at[q] \in Done => at'[q] \in Done
  BY <1>1 DEF Wake, Goes, SlotInv, request, RequestOK, Done
<1>8. "lost" \notin incidents => \A q \in Requests : q = session.sock \/ (Needs(q)' /\ Needs(q)) => sock'[q] = sock[q]
  BY <1>1, SockOfSession DEF Wake, Goes, SlotInv, request, sockets, RequestOK, SocketsOK, Needs, Done
<1>9. \A q \in Requests : Needs(q)' => Needs(q) \/ sock'[q] = "up"
  BY <1>1 DEF Wake, Goes, SlotInv, request, sockets, RequestOK, SocketsOK, Needs, Failures
<1> QED
  BY <1>2, <1>3, <1>4, <1>5, <1>6, <1>7, <1>8, <1>9, QuietStep DEF Typed

LEMMA PlannedIs ==
    ASSUME ControlOK, NEW d PROVE Planned(session, d) \in [sid : Ids, conn : Nat]
BY DEF ControlOK, Session, Planned, NoPlan, Ids

LEMMA PlanStep == ASSUME Inv, NEW r \in Requests, Plan(r) PROVE Typed' /\ SessionInv' /\ SocketInv' /\ PageInv'
<1>1. Typed /\ FlightsOK /\ RequestOK /\ SocketsOK /\ OthersOK /\ ControlOK /\ SessionInv /\ SlotInv
  BY DEF Inv, Typed
<1>2. FlightsOK'
  BY <1>1 DEF Plan, Goes, flights, FlightsOK, Fired, Answered, Ids, Results, Failures
<1>3. RequestOK'
  BY <1>1, PlannedIs DEF Plan, Goes, request, RequestOK, Places, Ids, Results, Failures, FlightsOK
<1>4. SocketsOK'
  BY <1>1 DEF Plan, Goes, sockets, SocketsOK, Messages
<1>5. OthersOK'
  BY <1>1 DEF Plan, Goes, others, OthersOK, Incidents
<1>6. Meets /\ (exiting = "down" => exiting' = "down") /\ UNCHANGED <<control, told, loop>>
  BY <1>1 DEF Plan, Goes, Meets, others, sockets, OthersOK
<1>7. \A q \in Requests : at[q] \in Done => at'[q] \in Done
  BY <1>1 DEF Plan, Goes, request, RequestOK, Done
<1>8. "lost" \notin incidents => \A q \in Requests : q = session.sock \/ (Needs(q)' /\ Needs(q)) => sock'[q] = sock[q]
  BY <1>1, SockOfSession DEF Plan, Goes, request, sockets, RequestOK, SocketsOK, Needs, Done
<1>9. \A q \in Requests : Needs(q)' => Needs(q) \/ sock'[q] = "up"
  BY <1>1 DEF Plan, Goes, request, sockets, RequestOK, SocketsOK, Needs, Failures
<1> QED
  BY <1>2, <1>3, <1>4, <1>5, <1>6, <1>7, <1>8, <1>9, QuietStep DEF Typed

LEMMA DialStep == ASSUME Inv, NEW r \in Requests, Dial(r) PROVE Typed' /\ SessionInv' /\ SocketInv' /\ PageInv'
<1>1. Typed /\ FlightsOK /\ RequestOK /\ SocketsOK /\ OthersOK /\ ControlOK /\ SessionInv /\ SlotInv
  BY DEF Inv, Typed
<1>2. FlightsOK'
  BY <1>1 DEF Dial, Goes, flights, FlightsOK, Fired, Answered, Ids, Results, Failures
<1>3. RequestOK'
  BY <1>1 DEF Dial, Goes, request, RequestOK, Places, Ids, Results, Failures, FlightsOK
<1>4. SocketsOK'
  BY <1>1 DEF Dial, Goes, sockets, SocketsOK, Messages
<1>5. OthersOK'
  BY <1>1 DEF Dial, Goes, others, OthersOK, Incidents
<1>6. Meets /\ (exiting = "down" => exiting' = "down") /\ UNCHANGED <<control, told, loop>>
  BY <1>1 DEF Dial, Goes, Meets, others, sockets, OthersOK
<1>7. \A q \in Requests : at[q] \in Done => at'[q] \in Done
  BY <1>1 DEF Dial, Goes, request, RequestOK, Done
<1>8. "lost" \notin incidents => \A q \in Requests : q = session.sock \/ (Needs(q)' /\ Needs(q)) => sock'[q] = sock[q]
  BY <1>1, SockOfSession DEF Dial, Goes, request, sockets, RequestOK, SocketsOK, Needs, Done
<1>9. \A q \in Requests : Needs(q)' => Needs(q) \/ sock'[q] = "up"
  BY <1>1 DEF Dial, Goes, request, sockets, RequestOK, SocketsOK, Needs, Failures
<1> QED
  BY <1>2, <1>3, <1>4, <1>5, <1>6, <1>7, <1>8, <1>9, QuietStep DEF Typed

LEMMA CancelFlightStep == ASSUME Inv, CancelFlight PROVE Typed' /\ SessionInv' /\ SocketInv' /\ PageInv'
<1>1. Typed /\ FlightsOK /\ RequestOK /\ SocketsOK /\ OthersOK /\ ControlOK /\ SessionInv /\ SlotInv
  BY DEF Inv, Typed
<1>2. FlightsOK'
  BY <1>1 DEF CancelFlight, StopFlight, flights, FlightsOK, Fired, Answered, Ids, Results, Failures
<1>3. RequestOK'
  BY <1>1 DEF CancelFlight, StopFlight, request, RequestOK, Places, Ids, Results, Failures, FlightsOK
<1>4. SocketsOK'
  BY <1>1 DEF CancelFlight, StopFlight, sockets, SocketsOK, Messages
<1>5. OthersOK'
  BY <1>1 DEF CancelFlight, StopFlight, others, OthersOK, Incidents
<1>6. Meets /\ (exiting = "down" => exiting' = "down") /\ UNCHANGED <<control, told, loop>>
  BY <1>1 DEF CancelFlight, StopFlight, Meets, others, sockets, OthersOK
<1>7. \A q \in Requests : at[q] \in Done => at'[q] \in Done
  BY <1>1 DEF CancelFlight, StopFlight, request, RequestOK, Done
<1>8. "lost" \notin incidents => \A q \in Requests : q = session.sock \/ (Needs(q)' /\ Needs(q)) => sock'[q] = sock[q]
  BY <1>1, SockOfSession DEF CancelFlight, StopFlight, request, sockets, RequestOK, SocketsOK, Needs, Done
<1>9. \A q \in Requests : Needs(q)' => Needs(q) \/ sock'[q] = "up"
  BY <1>1 DEF CancelFlight, StopFlight, request, sockets, RequestOK, SocketsOK, Needs, Failures
<1> QED
  BY <1>2, <1>3, <1>4, <1>5, <1>6, <1>7, <1>8, <1>9, QuietStep DEF Typed

LEMMA CloseFlightsStep == ASSUME Inv, CloseFlights PROVE Typed' /\ SessionInv' /\ SocketInv' /\ PageInv'
<1>1. Typed /\ FlightsOK /\ RequestOK /\ SocketsOK /\ OthersOK /\ ControlOK /\ SessionInv /\ SlotInv
  BY DEF Inv, Typed
<1>2. FlightsOK'
  BY <1>1 DEF CloseFlights, StopFlight, flights, FlightsOK, Fired, Answered, Ids, Results, Failures
<1>3. RequestOK'
  BY <1>1 DEF CloseFlights, StopFlight, request, RequestOK, Places, Ids, Results, Failures, FlightsOK
<1>4. SocketsOK'
  BY <1>1 DEF CloseFlights, StopFlight, sockets, SocketsOK, Messages
<1>5. OthersOK'
  BY <1>1 DEF CloseFlights, StopFlight, others, OthersOK, Incidents
<1>6. Meets /\ (exiting = "down" => exiting' = "down") /\ UNCHANGED <<control, told, loop>>
  BY <1>1 DEF CloseFlights, StopFlight, Meets, others, sockets, OthersOK
<1>7. \A q \in Requests : at[q] \in Done => at'[q] \in Done
  BY <1>1 DEF CloseFlights, StopFlight, request, RequestOK, Done
<1>8. "lost" \notin incidents => \A q \in Requests : q = session.sock \/ (Needs(q)' /\ Needs(q)) => sock'[q] = sock[q]
  BY <1>1, SockOfSession DEF CloseFlights, StopFlight, request, sockets, RequestOK, SocketsOK, Needs, Done
<1>9. \A q \in Requests : Needs(q)' => Needs(q) \/ sock'[q] = "up"
  BY <1>1 DEF CloseFlights, StopFlight, request, sockets, RequestOK, SocketsOK, Needs, Failures
<1> QED
  BY <1>2, <1>3, <1>4, <1>5, <1>6, <1>7, <1>8, <1>9, QuietStep DEF Typed

LEMMA ConfirmsStep == ASSUME Inv, NEW r \in Requests, Confirms(r) PROVE Typed' /\ SessionInv' /\ SocketInv' /\ PageInv'
<1>1. Typed /\ FlightsOK /\ RequestOK /\ SocketsOK /\ OthersOK /\ ControlOK /\ SessionInv /\ SlotInv
  BY DEF Inv, Typed
<1>2. FlightsOK'
  BY <1>1 DEF Confirms, DeviceSays, flights, FlightsOK, Fired, Answered, Ids, Results, Failures
<1>3. RequestOK'
  BY <1>1 DEF Confirms, DeviceSays, request, RequestOK, Places, Ids, Results, Failures, FlightsOK
<1>4. SocketsOK'
  BY <1>1 DEF Confirms, DeviceSays, sockets, SocketsOK, Messages
<1>5. OthersOK'
  BY <1>1 DEF Confirms, DeviceSays, others, OthersOK, Incidents
<1>6. Meets /\ (exiting = "down" => exiting' = "down") /\ UNCHANGED <<control, told, loop>>
  BY <1>1 DEF Confirms, DeviceSays, Meets, others, sockets, OthersOK
<1>7. \A q \in Requests : at[q] \in Done => at'[q] \in Done
  BY <1>1 DEF Confirms, DeviceSays, request, RequestOK, Done
<1>8. "lost" \notin incidents => \A q \in Requests : q = session.sock \/ (Needs(q)' /\ Needs(q)) => sock'[q] = sock[q]
  BY <1>1, SockOfSession DEF Confirms, DeviceSays, request, sockets, RequestOK, SocketsOK, Needs, Done
<1>9. \A q \in Requests : Needs(q)' => Needs(q) \/ sock'[q] = "up"
  BY <1>1 DEF Confirms, DeviceSays, request, sockets, RequestOK, SocketsOK, Needs, Failures
<1> QED
  BY <1>2, <1>3, <1>4, <1>5, <1>6, <1>7, <1>8, <1>9, QuietStep DEF Typed

LEMMA RefusesStep == ASSUME Inv, NEW r \in Requests, Refuses(r) PROVE Typed' /\ SessionInv' /\ SocketInv' /\ PageInv'
<1>1. Typed /\ FlightsOK /\ RequestOK /\ SocketsOK /\ OthersOK /\ ControlOK /\ SessionInv /\ SlotInv
  BY DEF Inv, Typed
<1>2. FlightsOK'
  BY <1>1 DEF Refuses, DeviceSays, flights, FlightsOK, Fired, Answered, Ids, Results, Failures
<1>3. RequestOK'
  BY <1>1 DEF Refuses, DeviceSays, request, RequestOK, Places, Ids, Results, Failures, FlightsOK
<1>4. SocketsOK'
  BY <1>1 DEF Refuses, DeviceSays, sockets, SocketsOK, Messages
<1>5. OthersOK'
  BY <1>1 DEF Refuses, DeviceSays, others, OthersOK, Incidents
<1>6. Meets /\ (exiting = "down" => exiting' = "down") /\ UNCHANGED <<control, told, loop>>
  BY <1>1 DEF Refuses, DeviceSays, Meets, others, sockets, OthersOK
<1>7. \A q \in Requests : at[q] \in Done => at'[q] \in Done
  BY <1>1 DEF Refuses, DeviceSays, request, RequestOK, Done
<1>8. "lost" \notin incidents => \A q \in Requests : q = session.sock \/ (Needs(q)' /\ Needs(q)) => sock'[q] = sock[q]
  BY <1>1, SockOfSession DEF Refuses, DeviceSays, request, sockets, RequestOK, SocketsOK, Needs, Done
<1>9. \A q \in Requests : Needs(q)' => Needs(q) \/ sock'[q] = "up"
  BY <1>1 DEF Refuses, DeviceSays, request, sockets, RequestOK, SocketsOK, Needs, Failures
<1> QED
  BY <1>2, <1>3, <1>4, <1>5, <1>6, <1>7, <1>8, <1>9, QuietStep DEF Typed

LEMMA EndsItStep == ASSUME Inv, NEW r \in Requests, EndsIt(r) PROVE Typed' /\ SessionInv' /\ SocketInv' /\ PageInv'
<1>1. Typed /\ FlightsOK /\ RequestOK /\ SocketsOK /\ OthersOK /\ ControlOK /\ SessionInv /\ SlotInv
  BY DEF Inv, Typed
<1>2. FlightsOK'
  BY <1>1 DEF EndsIt, DeviceSays, flights, FlightsOK, Fired, Answered, Ids, Results, Failures
<1>3. RequestOK'
  BY <1>1 DEF EndsIt, DeviceSays, request, RequestOK, Places, Ids, Results, Failures, FlightsOK
<1>4. SocketsOK'
  BY <1>1 DEF EndsIt, DeviceSays, sockets, SocketsOK, Messages
<1>5. OthersOK'
  BY <1>1 DEF EndsIt, DeviceSays, others, OthersOK, Incidents
<1>6. Meets /\ (exiting = "down" => exiting' = "down") /\ UNCHANGED <<control, told, loop>>
  BY <1>1 DEF EndsIt, DeviceSays, Meets, others, sockets, OthersOK
<1>7. \A q \in Requests : at[q] \in Done => at'[q] \in Done
  BY <1>1 DEF EndsIt, DeviceSays, request, RequestOK, Done
<1>8. "lost" \notin incidents => \A q \in Requests : q = session.sock \/ (Needs(q)' /\ Needs(q)) => sock'[q] = sock[q]
  BY <1>1, SockOfSession DEF EndsIt, DeviceSays, request, sockets, RequestOK, SocketsOK, Needs, Done
<1>9. \A q \in Requests : Needs(q)' => Needs(q) \/ sock'[q] = "up"
  BY <1>1 DEF EndsIt, DeviceSays, request, sockets, RequestOK, SocketsOK, Needs, Failures
<1> QED
  BY <1>2, <1>3, <1>4, <1>5, <1>6, <1>7, <1>8, <1>9, QuietStep DEF Typed

LEMMA LosesStep == ASSUME Inv, NEW r \in Requests, Loses(r) PROVE Typed' /\ SessionInv' /\ SocketInv' /\ PageInv'
<1>1. Typed /\ FlightsOK /\ RequestOK /\ SocketsOK /\ OthersOK /\ ControlOK /\ SessionInv /\ SlotInv
  BY DEF Inv, Typed
<1>2. FlightsOK'
  BY <1>1 DEF Loses, May, flights, FlightsOK, Fired, Answered, Ids, Results, Failures
<1>3. RequestOK'
  BY <1>1 DEF Loses, May, request, RequestOK, Places, Ids, Results, Failures, FlightsOK
<1>4. SocketsOK'
  BY <1>1 DEF Loses, May, sockets, SocketsOK, Messages
<1>5. OthersOK'
  BY <1>1 DEF Loses, May, others, OthersOK, Incidents
<1>6. Meets /\ (exiting = "down" => exiting' = "down") /\ UNCHANGED <<control, told, loop>>
  BY <1>1 DEF Loses, May, Meets, others, sockets, OthersOK
<1>7. \A q \in Requests : at[q] \in Done => at'[q] \in Done
  BY <1>1 DEF Loses, May, request, RequestOK, Done
<1>8. "lost" \notin incidents => \A q \in Requests : q = session.sock \/ (Needs(q)' /\ Needs(q)) => sock'[q] = sock[q]
  BY <1>1, SockOfSession DEF Loses, May, request, sockets, RequestOK, SocketsOK, Needs, Done
<1>9. \A q \in Requests : Needs(q)' => Needs(q) \/ sock'[q] = "up"
  BY <1>1 DEF Loses, May, request, sockets, RequestOK, SocketsOK, Needs, Failures
<1> QED
  BY <1>2, <1>3, <1>4, <1>5, <1>6, <1>7, <1>8, <1>9, QuietStep DEF Typed

(***************************************************************************)
(* The steps that shut a socket of a dial.                                 *)
(***************************************************************************)
LEMMA EndDialStep ==
    ASSUME Inv, NEW r \in Requests, at[r] \in {"planning", "dialling", "asking"}, NEW what \in Failures,
           EndDial(r, what)
    PROVE  Typed' /\ SessionInv' /\ SocketInv' /\ PageInv'
<1>1. Typed /\ FlightsOK /\ RequestOK /\ SocketsOK /\ OthersOK /\ SessionInv
  BY DEF Inv, Typed
<1>2. what # "ok" /\ what \in Results
  BY DEF Failures, Results
<1> DEFINE S == {q \in {r} : sock[q] # "none"}
<1>3. Cut(S) /\ S \subseteq {r}
  BY <1>2 DEF EndDial
<1> HIDE DEF S
<1>4. FlightsOK'
  BY <1>1 DEF EndDial, flights, FlightsOK
<1>5. RequestOK'
  BY <1>1, <1>2 DEF EndDial, RequestOK, Places
<1>6. SocketsOK'
  BY <1>1, <1>3, CutSockets DEF EndDial, SocketsOK
<1>7. OthersOK' /\ Meets /\ (exiting = "down" => exiting' = "down") /\ UNCHANGED <<control, told, loop>>
  BY <1>1 DEF EndDial, others, OthersOK, Meets
<1>8. \A q \in Requests : at[q] \in Done => at'[q] \in Done
  BY <1>1 DEF EndDial, RequestOK, Done
<1>9. \A q \in Requests : q # r => sock'[q] = sock[q]
  BY <1>1, <1>3, CutSockets
<1>10. r # session.sock
  BY <1>1, SockOfSession DEF Done
<1>11. ~Needs(r)' /\ \A q \in Requests : q # r => (Needs(q)' <=> Needs(q))
  BY <1>1, <1>2 DEF EndDial, RequestOK, Needs
<1>12. \A q \in Requests : q = session.sock \/ (Needs(q)' /\ Needs(q)) => sock'[q] = sock[q]
  BY <1>9, <1>10, <1>11
<1>13. \A q \in Requests : Needs(q)' => Needs(q) \/ sock'[q] = "up"
  BY <1>11
<1> QED
  BY <1>4, <1>5, <1>6, <1>7, <1>8, <1>12, <1>13, QuietStep DEF Typed

LEMMA DialFailsStep ==
    ASSUME Inv, NEW r \in Requests, DialFails(r) \/ ResumeDeadline(r) \/ Preempt(r)
    PROVE  Typed' /\ SessionInv' /\ SocketInv' /\ PageInv'
<1>1. CASE DialFails(r)
  BY <1>1, EndDialStep DEF DialFails, Failures
<1>2. CASE ResumeDeadline(r)
  BY <1>2, EndDialStep DEF ResumeDeadline, Failures
<1>3. CASE Preempt(r)
  <2>1. reason[r] \in Failures
    BY <1>3 DEF Preempt, Inv, Typed, FlightsOK
  <2> QED
    BY <1>3, <2>1, EndDialStep DEF Preempt
<1> QED
  BY <1>1, <1>2, <1>3

LEMMA ReadAnswerStep ==
    ASSUME Inv, NEW r \in Requests, ReadAnswer(r)
    PROVE  Typed' /\ SessionInv' /\ SocketInv' /\ PageInv'
<1>1. Typed /\ FlightsOK /\ RequestOK /\ SocketsOK /\ OthersOK /\ SessionInv
  BY DEF Inv, Typed
<1>2. CASE Head(inbox[r]) # "yes"
  BY <1>2, EndDialStep DEF ReadAnswer, Failures
<1>3. CASE Head(inbox[r]) = "yes"
  <2>1. FlightsOK'
    BY <1>1, <1>3 DEF ReadAnswer, flights, FlightsOK
  <2>2. RequestOK'
    BY <1>1, <1>3 DEF ReadAnswer, RequestOK, Places, Results
  <2>3. SocketsOK'
    <3>1. Tail(inbox[r]) \in Seq(Messages)
      BY <1>1 DEF ReadAnswer, SocketsOK
    <3> QED
      BY <1>1, <1>3, <3>1 DEF ReadAnswer, SocketsOK
  <2>4. OthersOK' /\ Meets /\ (exiting = "down" => exiting' = "down") /\ UNCHANGED <<control, told, loop, sock>>
    BY <1>1, <1>3 DEF ReadAnswer, others, OthersOK, Meets
  <2>5. \A q \in Requests : at[q] \in Done => at'[q] \in Done
    BY <1>1, <1>3 DEF ReadAnswer, RequestOK, Done
  <2>6. \A q \in Requests : Needs(q)' => Needs(q)
    BY <1>1, <1>3 DEF ReadAnswer, RequestOK, Needs
  <2> QED
    BY <2>1, <2>2, <2>3, <2>4, <2>5, <2>6, QuietStep DEF Typed
<1> QED
  BY <1>2, <1>3

LEMMA DiscardStep ==
    ASSUME Inv, NEW r \in Requests, Discard(r)
    PROVE  Typed' /\ SessionInv' /\ SocketInv' /\ PageInv'
<1>1. Typed /\ FlightsOK /\ RequestOK /\ SocketsOK /\ OthersOK /\ SessionInv
  BY DEF Inv, Typed
<1> DEFINE S == {q \in {r} : sock[q] # "none"}
<1>2. Cut(S) /\ S \subseteq {r} /\ at[r] = "dialled" /\ Settled(r, Reason(r), FALSE)
  BY DEF Discard, Settled, Goes
<1> HIDE DEF S
<1>3. Reason(r) \in Results
  BY <1>1 DEF Reason, FlightsOK, Results, Failures
<1>4. FlightsOK'
  BY <1>1 DEF Discard, flights, FlightsOK
<1>5. RequestOK'
  BY <1>1, <1>2, <1>3 DEF Settled, Goes, RequestOK, Places
<1>6. SocketsOK'
  BY <1>1, <1>2, CutSockets DEF Discard, Settled, SocketsOK
<1>7. OthersOK' /\ Meets /\ (exiting = "down" => exiting' = "down") /\ UNCHANGED <<control, told, loop>>
  BY <1>1 DEF Discard, Settled, others, OthersOK, Meets
<1>8. \A q \in Requests : at[q] \in Done => at'[q] \in Done
  BY <1>1, <1>2 DEF Settled, Goes, RequestOK, Done
<1>9. \A q \in Requests : q # r => sock'[q] = sock[q]
  BY <1>1, <1>2, CutSockets
<1>10. r # session.sock
  BY <1>1, <1>2, SockOfSession DEF Done
<1>11. ~Needs(r)' /\ \A q \in Requests : q # r => (Needs(q)' <=> Needs(q))
  BY <1>1, <1>2 DEF Settled, Goes, RequestOK, Needs
<1>12. \A q \in Requests : q = session.sock \/ (Needs(q)' /\ Needs(q)) => sock'[q] = sock[q]
  BY <1>9, <1>10, <1>11
<1>13. \A q \in Requests : Needs(q)' => Needs(q) \/ sock'[q] = "up"
  BY <1>11
<1> QED
  BY <1>4, <1>5, <1>6, <1>7, <1>8, <1>12, <1>13, QuietStep DEF Typed

LEMMA DieStep ==
    ASSUME Inv, NEW r \in Requests, Die(r)
    PROVE  Typed' /\ SessionInv' /\ SocketInv' /\ PageInv'
<1>1. Typed /\ FlightsOK /\ RequestOK /\ SocketsOK /\ OthersOK /\ SessionInv
  BY DEF Inv, Typed
<1> DEFINE S == {q \in {r} : sock[q] # "none"}
<1>2. Cut(S) /\ S \subseteq {r} /\ at[r] \in {"planning", "dialling", "asking", "waiting"}
      /\ at' = [at EXCEPT ![r] = "dying"]
  BY DEF Die
<1> HIDE DEF S
<1>4. FlightsOK'
  BY <1>1 DEF Die, Abandoned, FlightsOK, Results, Failures, Ids
<1>5. RequestOK'
  BY <1>1, <1>2 DEF Die, RequestOK, Places
<1>6. SocketsOK'
  BY <1>1, <1>2, CutSockets DEF Die, SocketsOK
<1>7. OthersOK' /\ Meets /\ (exiting = "down" => exiting' = "down") /\ UNCHANGED <<control, told, loop>>
  BY <1>1 DEF Die, others, OthersOK, Meets
<1>8. \A q \in Requests : at[q] \in Done => at'[q] \in Done
  BY <1>1, <1>2 DEF RequestOK, Done
<1>9. \A q \in Requests : q # r => sock'[q] = sock[q]
  BY <1>1, <1>2, CutSockets
<1>10. r # session.sock
  BY <1>1, <1>2, SockOfSession DEF Done
<1>11. ~Needs(r)' /\ \A q \in Requests : q # r => (Needs(q)' <=> Needs(q))
  BY <1>1, <1>2 DEF Die, RequestOK, Needs
<1>12. \A q \in Requests : q = session.sock \/ (Needs(q)' /\ Needs(q)) => sock'[q] = sock[q]
  BY <1>9, <1>10, <1>11
<1>13. \A q \in Requests : Needs(q)' => Needs(q) \/ sock'[q] = "up"
  BY <1>11
<1> QED
  BY <1>4, <1>5, <1>6, <1>7, <1>8, <1>12, <1>13, QuietStep DEF Typed

(***************************************************************************)
(* The steps that settle a failure.                                        *)
(***************************************************************************)
LEMMA MalformedStep ==
    ASSUME Inv, NEW r \in Requests, Malformed(r)
    PROVE  Typed' /\ SessionInv' /\ SocketInv' /\ PageInv'
<1>1. Typed /\ FlightsOK /\ RequestOK /\ SocketsOK /\ OthersOK
  BY DEF Inv, Typed
<1>2. FlightsOK'
  BY <1>1 DEF Malformed, flights, FlightsOK
<1>3. RequestOK'
  BY <1>1 DEF Malformed, Goes, RequestOK, Places, Ids, Results, Failures
<1>4. OthersOK' /\ Meets /\ (exiting = "down" => exiting' = "down") /\ UNCHANGED <<device, loop>>
  BY <1>1 DEF Malformed, OthersOK, Meets
<1>5. SettleFailure("failed", {}, <<>>)
  BY DEF Malformed
<1>6. \A q \in Requests : at[q] \in Done => at'[q] \in Done
  BY <1>1 DEF Malformed, Goes, RequestOK, Done
<1>7. \A q \in Requests : Needs(q)' => Needs(q)
  BY <1>1 DEF Malformed, Goes, RequestOK, Needs
<1>8. {} \in SUBSET Requests /\ <<>> \in {<<>>, <<Failed>>}
  OBVIOUS
<1>9. SocketsOK' /\ ControlOK' /\ ToldOK' /\ SessionInv' /\ SocketInv' /\ PageInv'
  BY <1>4, <1>5, <1>6, <1>7, <1>8, SettleStep
<1> QED
  BY <1>2, <1>3, <1>4, <1>9 DEF Typed

LEMMA FailAttemptStep ==
    ASSUME Inv, NEW r \in Requests, FailAttempt(r)
    PROVE  Typed' /\ SessionInv' /\ SocketInv' /\ PageInv'
<1>1. Typed /\ FlightsOK /\ RequestOK /\ SocketsOK /\ OthersOK
  BY DEF Inv, Typed
<1> DEFINE why  == NotInstalled(r)
           also == {q \in {r} : sock[q] # "none"}
<1>2. /\ Settled(r, why, IsToldOf(why)) /\ Leave(r, why) /\ SettleFailure(why, also, <<>>)
      /\ at[r] = "dialled" /\ UNCHANGED loop
  BY DEF FailAttempt, Settled, Goes
<1>3. why \in Results
  BY <1>1 DEF NotInstalled, RequestOK, Results, Failures
<1>4. also \in SUBSET Requests /\ \A q \in also : q = r
  OBVIOUS
<1> HIDE DEF why, also
<1>5. FlightsOK'
  BY <1>1, <1>2, <1>3 DEF Leave, Answered, FlightsOK, Ids
<1>6. RequestOK'
  BY <1>1, <1>2, <1>3 DEF Settled, Goes, RequestOK, Places
<1>7. OthersOK' /\ Meets /\ (exiting = "down" => exiting' = "down") /\ UNCHANGED <<device, loop>>
  BY <1>1, <1>2 DEF Settled, others, OthersOK, Meets
<1>8. \A q \in Requests : at[q] \in Done => at'[q] \in Done
  BY <1>1, <1>2 DEF Settled, Goes, RequestOK, Done
<1>9. \A q \in Requests : Needs(q)' => Needs(q) /\ q \notin also
  BY <1>1, <1>2, <1>4 DEF Settled, Goes, RequestOK, Needs
<1>10. \A q \in also : at[q] \notin Done
  BY <1>2, <1>4 DEF Done
<1>11. <<>> \in {<<>>, <<Failed>>}
  OBVIOUS
<1>12. SocketsOK' /\ ControlOK' /\ ToldOK' /\ SessionInv' /\ SocketInv' /\ PageInv'
  BY <1>2, <1>4, <1>7, <1>8, <1>9, <1>10, <1>11, SettleStep
<1> QED
  BY <1>5, <1>6, <1>7, <1>12 DEF Typed

(* An abort hook, run by the exit or by its task's end. *)
LEMMA HookStep ==
    ASSUME Inv, NEW r \in Requests, RunHook(r), UNCHANGED <<device, loop, result>>, Meets,
           exiting = "down" => exiting' = "down",
           \A q \in Requests : at[q] \in Done => at'[q] \in Done,
           \A q \in Requests : Needs(q)' => Needs(q)
    PROVE  /\ SocketsOK' /\ ControlOK' /\ ToldOK' /\ SessionInv' /\ SocketInv' /\ PageInv'
           /\ armed' = armed \ {r} /\ answers' \in [Requests -> Seq(Results)]
<1>1. Typed /\ FlightsOK /\ RequestOK /\ SocketsOK /\ OthersOK
  BY DEF Inv, Typed
<1>2. Why(r) \in Results
  BY <1>1 DEF Why, Reason, FlightsOK, Results, Failures
<1>3. armed' = armed \ {r} /\ answers' \in [Requests -> Seq(Results)]
  BY <1>1, <1>2 DEF RunHook, RequestOK
<1>4. CASE joined[r] = r
  <2> DEFINE more == IF IsToldOf(Why(r)) THEN <<Failed>> ELSE <<>>
  <2>1. SettleFailure(Why(r), {}, more) /\ more \in {<<>>, <<Failed>>} /\ {} \in SUBSET Requests
    BY <1>4 DEF RunHook
  <2> HIDE DEF more
  <2> QED
    BY <1>3, <2>1, SettleStep
<1>5. CASE joined[r] # r
  <2>1. UNCHANGED <<sock, inbox, control, told>>
    BY <1>5 DEF RunHook
  <2>2. SocketsOK'
    BY <1>1, <2>1 DEF SocketsOK
  <2> QED
    BY <1>3, <2>1, <2>2, QuietStep
<1> QED
  BY <1>4, <1>5

LEMMA DeadStep ==
    ASSUME Inv, NEW r \in Requests, Dead(r)
    PROVE  Typed' /\ SessionInv' /\ SocketInv' /\ PageInv'
<1>1. Typed /\ FlightsOK /\ RequestOK /\ SocketsOK /\ OthersOK
  BY DEF Inv, Typed
<1>2. FlightsOK'
  BY <1>1 DEF Dead, flights, FlightsOK
<1>3. OthersOK' /\ Meets /\ (exiting = "down" => exiting' = "down") /\ UNCHANGED <<device, loop, result>>
  BY <1>1 DEF Dead, others, OthersOK, Meets
<1>4. \A q \in Requests : at[q] \in Done => at'[q] \in Done
  BY <1>1 DEF Dead, Goes, RequestOK, Done
<1>5. \A q \in Requests : Needs(q)' => Needs(q)
  BY <1>1 DEF Dead, Goes, RequestOK, Needs
<1>6. /\ SocketsOK' /\ ControlOK' /\ ToldOK' /\ SessionInv' /\ SocketInv' /\ PageInv'
      /\ armed' \subseteq Requests /\ answers' \in [Requests -> Seq(Results)]
  <2>1. CASE r \in armed
    <3>1. RunHook(r)
      BY <2>1 DEF Dead
    <3> QED
      BY <1>1, <1>3, <1>4, <1>5, <3>1, HookStep DEF RequestOK
  <2>2. CASE r \notin armed
    <3>1. UNCHANGED <<armed, answers, sock, inbox, control, told>>
      BY <2>2 DEF Dead
    <3>2. SocketsOK' /\ armed' \subseteq Requests /\ answers' \in [Requests -> Seq(Results)]
      BY <1>1, <1>3, <3>1 DEF SocketsOK, RequestOK
    <3> QED
      BY <1>3, <1>4, <1>5, <3>1, <3>2, QuietStep
  <2> QED
    BY <2>1, <2>2
<1>7. RequestOK'
  BY <1>1, <1>6 DEF Dead, Goes, RequestOK, Places
<1> QED
  BY <1>2, <1>3, <1>6, <1>7 DEF Typed

LEMMA CloseHookStep ==
    ASSUME Inv, CloseHook
    PROVE  Typed' /\ SessionInv' /\ SocketInv' /\ PageInv'
<1>1. Typed /\ FlightsOK /\ RequestOK /\ SocketsOK /\ OthersOK
  BY DEF Inv, Typed
<1> DEFINE r == Head(hooks)
<1>2. r \in Requests /\ Tail(hooks) \in Seq(Requests)
  BY <1>1 DEF CloseHook, FlightsOK
<1> HIDE DEF r
<1>3. FlightsOK'
  BY <1>1, <1>2 DEF CloseHook, FlightsOK
<1>4. OthersOK' /\ Meets /\ (exiting = "down" => exiting' = "down") /\ UNCHANGED <<device, loop, result, at>>
  BY <1>1 DEF CloseHook, others, OthersOK, Meets
<1>5. \A q \in Requests : (at[q] \in Done => at'[q] \in Done) /\ (Needs(q)' => Needs(q))
  BY <1>4 DEF Needs
<1>6. /\ SocketsOK' /\ ControlOK' /\ ToldOK' /\ SessionInv' /\ SocketInv' /\ PageInv'
      /\ armed' \subseteq Requests /\ answers' \in [Requests -> Seq(Results)]
  <2>1. CASE r \in armed
    <3>1. RunHook(r)
      BY <2>1 DEF CloseHook, r
    <3> QED
      BY <1>1, <1>2, <1>4, <1>5, <3>1, HookStep DEF RequestOK
  <2>2. CASE r \notin armed
    <3>1. UNCHANGED <<armed, answers, sock, inbox, control, told>>
      BY <2>2 DEF CloseHook, r
    <3>2. SocketsOK' /\ armed' \subseteq Requests /\ answers' \in [Requests -> Seq(Results)]
      BY <1>1, <1>4, <3>1 DEF SocketsOK, RequestOK
    <3> QED
      BY <1>4, <1>5, <3>1, <3>2, QuietStep
  <2> QED
    BY <2>1, <2>2
<1>7. RequestOK'
  BY <1>1, <1>4, <1>6 DEF CloseHook, RequestOK
<1> QED
  BY <1>3, <1>4, <1>6, <1>7 DEF Typed

(***************************************************************************)
(* The installs.                                                           *)
(***************************************************************************)
(* What both installs do to the requests, the flights and the sockets.      *)
LEMMA InstallMoves ==
    ASSUME Inv, NEW r \in Requests, NEW s, NEW events, NEW finals, Install(r, s, events, finals), s.conn \in Nat
    PROVE  /\ FlightsOK' /\ RequestOK' /\ SocketsOK' /\ OthersOK'
           /\ Meets /\ (exiting = "down" => exiting' = "down")
           /\ at[r] = "dialled" /\ at'[r] = "settled" /\ \A q \in Requests : at[q] \in Done => at'[q] \in Done
           /\ \A q \in Requests : q # r => loop'[q] = loop[q]
           /\ session' = s /\ gen' = s.conn /\ loop'[r] = s.conn /\ HandOut(events, finals)
           /\ sock'[r] = sock[r] /\ Needs(r)
           /\ \A q \in Requests : Needs(q)' => Needs(q) /\ q # r /\ sock'[q] = sock[q]
<1>1. Typed /\ FlightsOK /\ RequestOK /\ SocketsOK /\ OthersOK /\ SessionInv
  BY DEF Inv, Typed
<1>2. /\ result[r] = "ok" /\ Settled(r, "ok", FALSE) /\ Leave(r, "ok") /\ session' = s /\ gen' = s.conn
      /\ loop' = [loop EXCEPT ![r] = s.conn] /\ Cut({session.sock} \ {None}) /\ HandOut(events, finals)
      /\ at[r] = "dialled" /\ at' = [at EXCEPT ![r] = "settled"]
  BY DEF Install, Settled, Goes
<1>3. FlightsOK'
  BY <1>1, <1>2 DEF Leave, Answered, FlightsOK, Ids, Results
<1>4. RequestOK'
  BY <1>1, <1>2 DEF Settled, Goes, RequestOK, Places, Results
<1>5. SocketsOK'
  BY <1>1, <1>2, CutSockets DEF Settled, SocketsOK
<1>6. OthersOK' /\ Meets /\ (exiting = "down" => exiting' = "down")
  BY <1>1, <1>2 DEF Settled, others, OthersOK, Meets
<1>7. at'[r] = "settled" /\ \A q \in Requests : at[q] \in Done => at'[q] \in Done
  BY <1>1, <1>2 DEF RequestOK, Done
<1>8. loop'[r] = s.conn /\ \A q \in Requests : q # r => loop'[q] = loop[q]
  BY <1>1, <1>2 DEF SocketsOK
<1>9. Needs(r)
  BY <1>2 DEF Needs
<1>10. \A q \in Requests : q # session.sock => sock'[q] = sock[q]
  BY <1>1, <1>2, CutSockets
<1>11. ASSUME NEW q \in Requests, Needs(q) PROVE sock'[q] = sock[q]
  BY <1>1, <1>10, <1>11, SockOfSession DEF Needs, Done
<1>12. \A q \in Requests : Needs(q)' => Needs(q) /\ q # r
  BY <1>1, <1>2 DEF Settled, RequestOK, Needs
<1> QED
  BY <1>2, <1>3, <1>4, <1>5, <1>6, <1>7, <1>8, <1>9, <1>11, <1>12

LEMMA StartedIs ==
    ASSUME NEW s \in Session
    PROVE  Started(s) \in Event /\ Started(s).kind = "started" /\ Started(s).conn = s.conn /\ Starts(Started(s))
BY DEF Started, Event, Starts, Session

LEMMA InstallStartedStep ==
    ASSUME Inv, NEW r \in Requests, InstallStarted(r)
    PROVE  Typed' /\ SessionInv' /\ SocketInv' /\ PageInv'
<1>1. Typed /\ FlightsOK /\ RequestOK /\ SocketsOK /\ OthersOK /\ ControlOK /\ ToldOK
      /\ SessionInv /\ SocketInv /\ PageInv
  BY DEF Inv, Typed
<1> DEFINE s  == [sid |-> r, dev |-> wants[r], live |-> TRUE, sock |-> r, conn |-> NextGen]
           e  == Ended(NextGen, session.sid)
           es == (IF session.live THEN <<e>> ELSE <<>>) \o <<Started(s)>>
           fs == IF session.live THEN Final(session) ELSE {}
<1>2. Install(r, s, es, fs)
  BY DEF InstallStarted
<1>3. NextGen = gen + 1 /\ NextGen \in Nat /\ gen \in Nat /\ NextGen # 0 /\ session.sid \in Ids
  BY <1>1 DEF NextGen, ControlOK, Session
<1>4. s \in Session /\ s.conn = gen + 1 /\ s.conn \in Nat /\ s.live = TRUE /\ s.sock = r /\ s.sid = r
  BY <1>1, <1>3 DEF Session, OthersOK, Ids
<1>5. e \in Event /\ e.kind = "ended" /\ e.conn = gen + 1
  BY <1>3, EndedIs
<1>6. Started(s) \in Event /\ Started(s).kind = "started" /\ Started(s).conn = gen + 1 /\ Starts(Started(s))
  BY <1>4, StartedIs
<1>7. es = <<Started(s)>> \/ (session.live /\ es = <<e, Started(s)>>)
  BY <1>5, <1>6, Pairs
<1>8. fs \subseteq Requests /\ fs \subseteq {session.sid} \ {None}
  BY <1>1, FinalsAre DEF Final
<1> HIDE DEF s, e, es, fs
<1>9. /\ FlightsOK' /\ RequestOK' /\ SocketsOK' /\ OthersOK'
      /\ Meets /\ (exiting = "down" => exiting' = "down")
      /\ at[r] = "dialled" /\ at'[r] = "settled" /\ \A q \in Requests : at[q] \in Done => at'[q] \in Done
      /\ \A q \in Requests : q # r => loop'[q] = loop[q]
      /\ session' = s /\ gen' = s.conn /\ loop'[r] = s.conn /\ HandOut(es, fs)
      /\ sock'[r] = sock[r] /\ Needs(r)
      /\ \A q \in Requests : Needs(q)' => Needs(q) /\ q # r /\ sock'[q] = sock[q]
  BY <1>2, <1>4, InstallMoves
<1>10. Tell(es) /\ endOwed' = OwingAll(endOwed, es) /\ over' = over \cup fs
       /\ surplus' = (surplus \/ (es # <<>> /\ Spare(endOwed, Head(es))))
  BY <1>9, Handed
<1>11. Posts(es, gen, gen', session.live, session'.live)
  <2>1. gen' = gen + 1 /\ session'.live = TRUE
    BY <1>4, <1>9
  <2> QED
    BY <1>5, <1>6, <1>7, <2>1 DEF Posts
<1>12. endOwed' = TRUE
  BY <1>1, <1>5, <1>6, <1>7, <1>10, OwingOf DEF ControlOK
<1>13. surplus' = surplus
  <2>1. Head(es) = Started(s) \/ (endOwed /\ Head(es) = e)
    BY <1>1, <1>7 DEF SessionInv
  <2>2. ~Spare(endOwed, Head(es))
    BY <1>6, <2>1 DEF Spare
  <2> QED
    BY <1>1, <1>10, <2>2 DEF ToldOK
<1>14. PageInv' /\ page' \in Page /\ posts' \in Seq(Event) /\ endOwed' \in BOOLEAN
  BY <1>1, <1>4, <1>9, <1>10, <1>11, PageTold
<1>15. ControlOK' /\ ToldOK'
  BY <1>1, <1>4, <1>8, <1>9, <1>10, <1>13, <1>14 DEF ControlOK, ToldOK
<1>16. SessionInv'
  <2>1. r \notin over /\ None \notin over /\ r # None
    BY <1>1, <1>9, NoneIsNoRequest DEF SessionInv, Done
  <2>2. r \notin over' /\ None \notin over'
    <3>1. session.sid # r
      BY <1>1, <1>9, <2>1 DEF SessionInv, Done
    <3> QED
      BY <1>8, <1>10, <2>1, <3>1
  <2>3. \A q \in Requests : q # r => loop'[q] =< gen /\ loop'[q] \in Nat
    BY <1>1, <1>9 DEF SessionInv, SocketsOK
  <2>4. gen' = gen + 1 /\ gen' # 0 /\ loop'[r] = gen' /\ \A q \in Requests : loop'[q] =< gen'
    BY <1>3, <1>4, <1>9, <2>3
  <2>5. \A q \in Requests : loop'[q] # 0 /\ loop'[q] = gen' => q = r
    BY <1>3, <2>3, <2>4
  <2>6. session'.live = TRUE /\ session'.sock = r /\ session'.sid = r /\ session'.conn = gen'
    BY <1>4, <1>9
  <2>7. at'[r] \in Done
    BY <1>9 DEF Done
  <2>8. over' \cup {session'.sid} \subseteq {q \in Requests : at'[q] \in Done} \cup {None}
    BY <1>1, <1>8, <1>9, <1>10, <2>6, <2>7 DEF SessionInv
  <2>9. ~surplus'
    BY <1>1, <1>13 DEF SessionInv
  <2> QED
    BY <1>12, <2>1, <2>2, <2>4, <2>5, <2>6, <2>7, <2>8, <2>9 DEF SessionInv
<1>17. SocketInv'
  <2>1. "lost" \in incidents' <=> "lost" \in incidents
    BY <1>9, MeetsSame
  <2>2. session'.sock = r
    BY <1>4, <1>9
  <2> QED
    BY <1>1, <1>9, <2>1, <2>2 DEF SocketInv, Needs
<1> QED
  BY <1>9, <1>14, <1>15, <1>16, <1>17 DEF Typed

LEMMA InstallResumedStep ==
    ASSUME Inv, NEW r \in Requests, InstallResumed(r)
    PROVE  Typed' /\ SessionInv' /\ SocketInv' /\ PageInv'
<1>1. Typed /\ FlightsOK /\ RequestOK /\ SocketsOK /\ OthersOK /\ ControlOK /\ ToldOK
      /\ SessionInv /\ SocketInv /\ PageInv
  BY DEF Inv, Typed
<1> DEFINE s  == [session EXCEPT !.live = TRUE, !.sock = r, !.conn = MovedGen]
           es == IF session.live THEN <<>> ELSE <<Started(s)>>
<1>2. Install(r, s, es, {}) /\ plan[r] # NoPlan /\ IsPlanned(r) /\ sock[r] = "up"
  BY DEF InstallResumed
<1>3. MovedGen = gen + 1 /\ MovedGen \in Nat /\ gen \in Nat /\ MovedGen # 0 /\ session \in Session
  BY <1>1 DEF MovedGen, NextGen, ControlOK
<1>4. s \in Session /\ s.conn = gen + 1 /\ s.conn \in Nat /\ s.live = TRUE /\ s.sock = r /\ s.sid = session.sid
  BY <1>3 DEF Session, Ids
<1>5. session.sid \in Requests
  <2>1. session.sid # None
    <3> SUFFICES ASSUME session.sid = None PROVE FALSE
      OBVIOUS
    <3>1. session.sid = None /\ session.conn = 0
      BY <1>1 DEF SessionInv, Nothing
    <3>2. plan[r].sid = None /\ plan[r].conn = 0 /\ plan[r] \in [sid : Ids, conn : Nat]
      BY <1>1, <1>2, <3>1 DEF IsPlanned, RequestOK
    <3> QED
      BY <1>2, <3>2 DEF NoPlan
  <2> QED
    BY <1>3, <2>1 DEF Session, Ids
<1>6. Started(s) \in Event /\ Started(s).kind = "started" /\ Started(s).conn = gen + 1 /\ Starts(Started(s))
  BY <1>4, StartedIs
<1>7. (session.live /\ es = <<>>) \/ (~session.live /\ es = <<Started(s)>>)
  OBVIOUS
<1> HIDE DEF s, es
<1>9. /\ FlightsOK' /\ RequestOK' /\ SocketsOK' /\ OthersOK'
      /\ Meets /\ (exiting = "down" => exiting' = "down")
      /\ at[r] = "dialled" /\ at'[r] = "settled" /\ \A q \in Requests : at[q] \in Done => at'[q] \in Done
      /\ \A q \in Requests : q # r => loop'[q] = loop[q]
      /\ session' = s /\ gen' = s.conn /\ loop'[r] = s.conn /\ HandOut(es, {})
      /\ sock'[r] = sock[r] /\ Needs(r)
      /\ \A q \in Requests : Needs(q)' => Needs(q) /\ q # r /\ sock'[q] = sock[q]
  BY <1>2, <1>4, InstallMoves
<1>10. Tell(es) /\ endOwed' = OwingAll(endOwed, es) /\ over' = over \cup {}
       /\ surplus' = (surplus \/ (es # <<>> /\ Spare(endOwed, Head(es))))
  BY <1>9, Handed
<1>a. over' = over
  BY <1>10
<1>11. Posts(es, gen, gen', session.live, session'.live)
  <2>1. gen' = gen + 1 /\ session'.live = TRUE /\ gen =< gen'
    BY <1>3, <1>4, <1>9
  <2>2. session.live \in BOOLEAN
    BY <1>3 DEF Session
  <2> QED
    BY <1>6, <1>7, <2>1, <2>2 DEF Posts
<1>12. endOwed' = TRUE
  <2>1. CASE session.live
    BY <1>1, <1>6, <1>7, <1>10, <2>1, OwingOf DEF ControlOK, SessionInv
  <2>2. CASE ~session.live
    BY <1>1, <1>6, <1>7, <1>10, <2>2, OwingOf DEF ControlOK
  <2> QED
    BY <2>1, <2>2
<1>13. surplus' = surplus
  <2>1. es # <<>> => Head(es) = Started(s)
    BY <1>7
  <2>2. ~(es # <<>> /\ Spare(endOwed, Head(es)))
    BY <1>6, <2>1 DEF Spare
  <2> QED
    BY <1>1, <1>10, <2>2 DEF ToldOK
<1>14. PageInv' /\ page' \in Page /\ posts' \in Seq(Event) /\ endOwed' \in BOOLEAN
  BY <1>1, <1>4, <1>9, <1>10, <1>11, PageTold
<1>15. ControlOK' /\ ToldOK'
  BY <1>1, <1>4, <1>9, <1>a, <1>13, <1>14 DEF ControlOK, ToldOK
<1>16. SessionInv'
  <2>3. \A q \in Requests : q # r => loop'[q] =< gen /\ loop'[q] \in Nat
    BY <1>1, <1>9 DEF SessionInv, SocketsOK
  <2>4. gen' = gen + 1 /\ gen' # 0 /\ loop'[r] = gen' /\ \A q \in Requests : loop'[q] =< gen'
    BY <1>3, <1>4, <1>9, <2>3
  <2>5. \A q \in Requests : loop'[q] # 0 /\ loop'[q] = gen' => q = r
    BY <1>3, <2>3, <2>4
  <2>6. session'.live = TRUE /\ session'.sock = r /\ session'.sid = session.sid /\ session'.conn = gen'
    BY <1>4, <1>9
  <2>7. at'[r] \in Done
    BY <1>9 DEF Done
  <2>8. over' \cup {session'.sid} \subseteq {q \in Requests : at'[q] \in Done} \cup {None}
    BY <1>1, <1>9, <1>a, <2>6 DEF SessionInv
  <2>9. ~surplus' /\ session'.sid \notin over' /\ None \notin over' /\ session'.sid # None
    BY <1>1, <1>5, <1>a, <1>13, <2>6, NoneIsNoRequest DEF SessionInv
  <2> QED
    BY <1>12, <2>4, <2>5, <2>6, <2>7, <2>8, <2>9 DEF SessionInv
<1>17. SocketInv'
  <2>1. "lost" \in incidents' <=> "lost" \in incidents
    BY <1>9, MeetsSame
  <2>2. session'.sock = r
    BY <1>4, <1>9
  <2> QED
    BY <1>1, <1>2, <1>9, <2>1, <2>2 DEF SocketInv, Needs
<1> QED
  BY <1>9, <1>14, <1>15, <1>16, <1>17 DEF Typed

LEMMA AnswerStep ==
    ASSUME Inv, NEW r \in Requests, Answer(r)
    PROVE  Typed' /\ SessionInv' /\ SocketInv' /\ PageInv'
<1>1. Typed /\ FlightsOK /\ RequestOK /\ SocketsOK /\ OthersOK /\ ControlOK /\ ToldOK
      /\ SessionInv /\ SocketInv /\ PageInv
  BY DEF Inv, Typed
<1>2. FlightsOK'
  BY <1>1 DEF Answer, flights, FlightsOK
<1>3. RequestOK'
  <2>1. Append(answers[r], result[r]) \in Seq(Results)
    BY <1>1 DEF RequestOK
  <2> QED
    BY <1>1, <2>1 DEF Answer, Goes, RequestOK, Places
<1>4. SocketsOK' /\ OthersOK' /\ Meets /\ (exiting = "down" => exiting' = "down") /\ UNCHANGED <<sock, loop>>
  BY <1>1 DEF Answer, sockets, SocketsOK, others, OthersOK, Meets
<1>5. UNCHANGED <<session, gen, endOwed, over, surplus>>
  BY DEF Answer, control
<1>6. \A q \in Requests : (at[q] \in Done => at'[q] \in Done) /\ (Needs(q)' => Needs(q))
  BY <1>1 DEF Answer, Goes, RequestOK, Done, Needs
<1>7. PageInv' /\ page' \in Page /\ posts' \in Seq(Event)
  <2>1. CASE Claims(r) /\ r \in announce
    <3>1. Tell(<<Failed>>)
      BY <2>1 DEF Answer
    <3>2. Posts(<<Failed>>, gen, gen', session.live, session'.live)
      BY <1>1, <1>5 DEF Posts, ControlOK
    <3>3. endOwed' = OwingAll(endOwed, <<Failed>>)
      BY <1>1, <1>5, OwingOf, FailedIs DEF ControlOK
    <3>4. gen' \in Nat
      BY <1>1, <1>5 DEF ControlOK
    <3> QED
      BY <1>1, <1>4, <3>1, <3>2, <3>3, <3>4, PageTold
  <2>2. CASE ~(Claims(r) /\ r \in announce)
    <3>1. UNCHANGED <<posts, page>>
      BY <2>2 DEF Answer
    <3> QED
      BY <1>1, <1>4, <1>5, <3>1, PageQuiet DEF ControlOK, ToldOK
  <2> QED
    BY <2>1, <2>2
<1>8. ControlOK' /\ ToldOK'
  BY <1>1, <1>5, <1>7 DEF ControlOK, ToldOK
<1>9. SessionInv'
  BY <1>1, <1>4, <1>5, <1>6, SessionStays
<1>10. SocketInv'
  BY <1>1, <1>4, <1>5, <1>6, MeetsSame, SocketStays DEF Needs
<1> QED
  BY <1>2, <1>3, <1>4, <1>7, <1>8, <1>9, <1>10 DEF Typed

(***************************************************************************)
(* The steps that end the session.                                         *)
(***************************************************************************)
LEMMA DisconnectStep ==
    ASSUME Inv, Disconnect
    PROVE  Typed' /\ SessionInv' /\ SocketInv' /\ PageInv'
<1>1. Typed /\ FlightsOK /\ RequestOK /\ SocketsOK /\ OthersOK /\ ControlOK /\ ToldOK
      /\ SessionInv /\ SocketInv /\ PageInv
  BY DEF Inv, Typed
<1>2. FlightsOK' /\ RequestOK'
  BY <1>1 DEF Disconnect, flights, request, FlightsOK, RequestOK
<1>3. OthersOK' /\ Meets /\ (exiting = "down" => exiting' = "down") /\ UNCHANGED <<device, loop, at, result>>
  BY <1>1 DEF Disconnect, request, OthersOK, Meets
<1>4. \A q \in Requests : (at[q] \in Done => at'[q] \in Done) /\ (Needs(q)' <=> Needs(q))
  BY <1>3 DEF Needs
<1>5. CASE stopping # "stop"
  <2>1. UNCHANGED <<sock, inbox, control, told>>
    BY <1>5 DEF Disconnect
  <2>2. SocketsOK'
    BY <1>1, <1>3, <2>1 DEF SocketsOK
  <2> QED
    BY <1>2, <1>3, <1>4, <2>1, <2>2, QuietStep DEF Typed
<1>6. CASE stopping = "stop"
  <2>1. gen' = gen + 1 /\ session' = Nothing /\ Cut({session.sock} \ {None}) /\ HandOut(OwedEnd, Final(session))
    BY <1>6 DEF Disconnect, NextGen
  <2>2. session'.live = FALSE /\ session' \in Session
    BY <2>1, NothingIs
  <2>3. OwedEnd \o <<>> = OwedEnd
    BY <1>1, EndedIs, Pairs, Joined DEF OwedEnd, NextGen, ControlOK, Session
  <2>4. /\ \E es : Posts(es, gen, gen', session.live, session'.live) /\ Tell(es) /\ endOwed' = OwingAll(endOwed, es)
        /\ surplus' = surplus /\ over' = over \cup Final(session)
    BY <1>1, <2>1, <2>2, <2>3, Retired
  <2>5. gen' \in Nat
    BY <1>1, <2>1 DEF ControlOK
  <2>6. PageInv' /\ page' \in Page /\ posts' \in Seq(Event) /\ endOwed' \in BOOLEAN
    BY <1>1, <1>3, <2>4, <2>5, PageTold
  <2>7. SocketsOK'
    BY <1>1, <1>3, <2>1, CutSockets DEF SocketsOK
  <2>8. ControlOK' /\ ToldOK'
    BY <1>1, <2>2, <2>4, <2>5, <2>6, FinalsAre DEF ControlOK, ToldOK
  <2>9. SessionInv'
    BY <1>1, <1>3, <1>4, <2>1, <2>4, SessionGone
  <2>10. \A q \in Requests : Needs(q)' => sock'[q] = sock[q]
    BY <1>1, <1>4, <2>1, SockOfSession, CutSockets DEF Needs, Done
  <2>11. SocketInv'
    BY <1>1, <1>3, <1>4, <2>2, <2>10, MeetsSame, SocketStays DEF Needs
  <2> QED
    BY <1>2, <1>3, <2>6, <2>7, <2>8, <2>9, <2>11 DEF Typed
<1> QED
  BY <1>5, <1>6

LEMMA ShutdownStep ==
    ASSUME Inv, Shutdown
    PROVE  Typed' /\ SessionInv' /\ SocketInv' /\ PageInv'
<1>1. Typed /\ FlightsOK /\ RequestOK /\ SocketsOK /\ OthersOK /\ ControlOK /\ ToldOK
      /\ SessionInv /\ SocketInv /\ PageInv
  BY DEF Inv, Typed
<1>2. FlightsOK' /\ RequestOK'
  BY <1>1 DEF Shutdown, flights, request, FlightsOK, RequestOK
<1>3. OthersOK' /\ Meets /\ exiting' = "down" /\ UNCHANGED <<device, loop, at, result, endOwed, posts, page, over, surplus>>
  BY <1>1 DEF Shutdown, request, told, OthersOK, Meets
<1>4. \A q \in Requests : (at[q] \in Done => at'[q] \in Done) /\ (Needs(q)' <=> Needs(q))
  BY <1>3 DEF Needs
<1>5. gen' = gen + 1 /\ session' = Nothing /\ Cut({session.sock} \ {None}) /\ gen' \in Nat /\ gen =< gen'
  BY <1>1 DEF Shutdown, NextGen, ControlOK
<1>6. SocketsOK'
  BY <1>1, <1>3, <1>5, CutSockets DEF SocketsOK
<1>7. ControlOK' /\ ToldOK'
  BY <1>1, <1>3, <1>5, NothingIs DEF ControlOK, ToldOK
<1>8. SessionInv'
  BY <1>1, <1>3, <1>4, <1>5, SessionGone
<1>9. \A q \in Requests : Needs(q)' => sock'[q] = sock[q]
  BY <1>1, <1>4, <1>5, SockOfSession, CutSockets DEF Needs, Done
<1>10. SocketInv'
  BY <1>1, <1>3, <1>4, <1>5, <1>9, NothingIs, MeetsSame, SocketStays DEF Needs
<1>11. PageInv'
  BY <1>1, <1>3, <1>5, PageQuiet
<1> QED
  BY <1>2, <1>3, <1>6, <1>7, <1>8, <1>10, <1>11 DEF Typed

(***************************************************************************)
(* The event loops.                                                        *)
(***************************************************************************)
LEMMA LoopLeavesStep ==
    ASSUME Inv, NEW r \in Requests, LoopLeaves(r)
    PROVE  Typed' /\ SessionInv' /\ SocketInv' /\ PageInv'
<1>1. Typed /\ FlightsOK /\ RequestOK /\ SocketsOK /\ OthersOK /\ ControlOK /\ ToldOK
      /\ SessionInv /\ SocketInv /\ PageInv
  BY DEF Inv, Typed
<1>2. FlightsOK' /\ RequestOK' /\ OthersOK' /\ ControlOK' /\ ToldOK'
  BY <1>1 DEF LoopLeaves, flights, request, others, control, told,
              FlightsOK, RequestOK, OthersOK, ControlOK, ToldOK
<1>3. SocketsOK'
  <2>1. <<>> \in Seq(Messages)
    OBVIOUS
  <2> QED
    BY <1>1, <2>1 DEF LoopLeaves, SocketsOK
<1>4. Meets /\ (exiting = "down" => exiting' = "down")
      /\ UNCHANGED <<sock, at, result, session, gen, endOwed, over, surplus, posts, page>>
  BY DEF LoopLeaves, others, request, control, told, Meets
<1>5. loop[r] # gen /\ \A q \in Requests : loop'[q] = loop[q] \/ (q = r /\ loop'[q] = 0)
  BY <1>1 DEF LoopLeaves, IsStale, SocketsOK
<1>6. SessionInv'
  <2>1. \A q \in Requests : loop'[q] =< gen /\ (loop'[q] # 0 => loop'[q] = loop[q])
    BY <1>1, <1>5 DEF SessionInv, ControlOK
  <2>2. session.live => loop'[session.sock] = gen
    BY <1>1, <1>5 DEF SessionInv
  <2> QED
    BY <1>1, <1>4, <2>1, <2>2 DEF SessionInv
<1>7. SocketInv'
  BY <1>1, <1>4, MeetsSame, SocketStays DEF Needs
<1>8. PageInv'
  BY <1>1, <1>4, PageQuiet DEF ControlOK
<1> QED
  BY <1>2, <1>3, <1>6, <1>7, <1>8 DEF Typed

LEMMA RelayEndStep ==
    ASSUME Inv, NEW r \in Requests, RelayEnd(r)
    PROVE  Typed' /\ SessionInv' /\ SocketInv' /\ PageInv'
<1>1. Typed /\ FlightsOK /\ RequestOK /\ SocketsOK /\ OthersOK /\ ControlOK /\ ToldOK
      /\ SessionInv /\ SocketInv /\ PageInv
  BY DEF Inv, Typed
<1>2. FlightsOK' /\ RequestOK' /\ OthersOK'
  BY <1>1 DEF RelayEnd, flights, request, others, FlightsOK, RequestOK, OthersOK
<1> DEFINE suspended == Head(inbox[r]) = "suspended"
           e  == Ended(NextGen, session.sid)
           fs == IF suspended THEN {} ELSE Final(session)
           S  == {session.sock} \ {None}
<1>3. /\ session.live /\ session.sock = r /\ inbox[r] # <<>>
      /\ gen' = gen + 1 /\ session' = SetAside(session, suspended)
      /\ CutReading(r, S) /\ HandOut(<<e>>, fs)
  BY <1>1 DEF RelayEnd, IsStale, Retire, NextGen, SessionInv
<1>4. gen \in Nat /\ gen' \in Nat /\ gen < gen' /\ gen =< gen' /\ session \in Session /\ endOwed /\ NextGen = gen + 1
  BY <1>1, <1>3 DEF ControlOK, SessionInv, NextGen
<1>5. session' \in Session /\ session'.live = FALSE /\ session'.sid \in {session.sid, None} /\ session'.sock \in {session.sock, None}
      /\ (session'.sid = None => session' = Nothing)
  <2>1. CASE suspended
    <3>1. session' = [session EXCEPT !.live = FALSE]
      BY <1>3, <2>1 DEF SetAside
    <3>2. session.sid # None
      BY <1>1, <1>3, NothingIs DEF SessionInv
    <3> HIDE DEF suspended
    <3> QED
      BY <1>4, <3>1, <3>2 DEF Session
  <2>2. CASE ~suspended
    <3>1. session' = Nothing
      BY <1>3, <2>2 DEF SetAside
    <3> QED
      BY <3>1, NothingIs
  <2> QED
    BY <2>1, <2>2
<1>a. session'.sid = session.sid => fs = {}
  <2>1. CASE suspended
    BY <2>1
  <2>2. CASE ~suspended
    <3>1. session' = Nothing
      BY <1>3, <2>2 DEF SetAside
    <3>2. session.sid # None
      BY <1>1, <1>3, NothingIs DEF SessionInv
    <3> QED
      BY <3>1, <3>2, NothingIs
  <2> QED
    BY <2>1, <2>2
<1>6. fs \subseteq Requests /\ fs \subseteq {session.sid} \ {None}
  BY <1>1, FinalsAre DEF Final
<1>7. e \in Event /\ e.kind = "ended" /\ e.conn = gen + 1 /\ Stops(e)
  <2>1. session.sid \in Ids /\ NextGen \in Nat
    BY <1>4 DEF Session
  <2> QED
    BY <1>4, <2>1, EndedIs
<1>8. SocketsOK' /\ loop' = loop /\ \A q \in Requests : q # session.sock => sock'[q] = sock[q]
  <2>1. sock'  = [s \in Requests |-> IF s \in S THEN "shut" ELSE sock[s]]
    BY <1>3 DEF CutReading
  <2>2. inbox' = [s \in Requests |-> CASE s = r -> IF r \in S /\ sock[r] = "up" THEN Append(Tail(inbox[r]), "lost")
                                                                             ELSE Tail(inbox[r])
                                      [] s \in S \ {r} /\ loop[s] # 0 /\ sock[s] = "up" -> Append(inbox[s], "lost")
                                      [] OTHER -> inbox[s]]
    BY <1>3 DEF CutReading
  <2>3. \A s \in Requests : inbox[s] \in Seq(Messages) /\ Append(inbox[s], "lost") \in Seq(Messages)
    BY <1>1 DEF SocketsOK, Messages
  <2>4. Tail(inbox[r]) \in Seq(Messages) /\ Append(Tail(inbox[r]), "lost") \in Seq(Messages)
    <3>1. Tail(inbox[r]) \in Seq(Messages)
      BY <1>3, <2>3
    <3> QED
      BY <3>1 DEF Messages
  <2>5. \A s \in Requests : inbox'[s] \in Seq(Messages)
    BY <2>2, <2>3, <2>4
  <2>6. inbox' \in [Requests -> Seq(Messages)]
    BY <2>2, <2>5
  <2>7. UNCHANGED <<device, loop>>
    BY DEF RelayEnd
  <2> QED
    BY <1>1, <2>1, <2>6, <2>7 DEF SocketsOK
<1> HIDE DEF e, fs, suspended
<1>9. Tell(<<e>>) /\ endOwed' = OwingAll(endOwed, <<e>>) /\ over' = over \cup fs
      /\ surplus' = (surplus \/ (<<e>> # <<>> /\ Spare(endOwed, Head(<<e>>))))
  BY <1>3, Handed
<1>10. surplus' = surplus
  <2>1. ~Spare(endOwed, Head(<<e>>))
    BY <1>4 DEF Spare
  <2> QED
    BY <1>1, <1>9, <2>1 DEF ToldOK
<1>11. Posts(<<e>>, gen, gen', session.live, session'.live)
  <2>1. gen =< e.conn /\ e.conn \in 1..gen' /\ gen =< gen'
    BY <1>3, <1>4, <1>7
  <2> QED
    BY <1>5, <1>7, <2>1 DEF Posts
<1>12. Meets /\ (exiting = "down" => exiting' = "down") /\ UNCHANGED <<at, result>>
  BY DEF RelayEnd, others, request, Meets
<1>13. PageInv' /\ page' \in Page /\ posts' \in Seq(Event) /\ endOwed' \in BOOLEAN
  BY <1>1, <1>4, <1>9, <1>11, <1>12, PageTold
<1>14. ControlOK' /\ ToldOK'
  BY <1>1, <1>4, <1>5, <1>6, <1>9, <1>10, <1>13 DEF ControlOK, ToldOK
<1>15. SessionInv'
  <2>1. \A q \in Requests : loop'[q] =< gen /\ loop'[q] \in Nat
    BY <1>1, <1>8 DEF SessionInv, SocketsOK
  <2>2. \A q \in Requests : loop'[q] =< gen' /\ loop'[q] # gen'
    BY <1>4, <2>1
  <2>3. session'.sock \in Requests => at'[session'.sock] \in Done
    BY <1>1, <1>5, <1>12, NoneIsNoRequest DEF SessionInv
  <2>4. over' \cup {session'.sid} \subseteq {q \in Requests : at'[q] \in Done} \cup {None}
    BY <1>1, <1>5, <1>6, <1>9, <1>12 DEF SessionInv
  <2>5. None \notin over'
    BY <1>1, <1>6, <1>9 DEF SessionInv
  <2>6. session'.sid \notin over'
    BY <1>1, <1>5, <1>a, <1>9, <2>5 DEF SessionInv
  <2> QED
    BY <1>1, <1>5, <1>10, <2>2, <2>3, <2>4, <2>5, <2>6 DEF SessionInv
<1>16. SocketInv'
  <2>1. \A q \in Requests : Needs(q)' => Needs(q) /\ sock'[q] = sock[q]
    BY <1>1, <1>8, <1>12, SockOfSession DEF Needs, Done
  <2> QED
    BY <1>1, <1>5, <1>12, <2>1, MeetsSame, SocketStays DEF Needs
<1> QED
  BY <1>2, <1>8, <1>13, <1>14, <1>15, <1>16 DEF Typed

LEMMA LostIs ==
    ASSUME NEW g \in Nat
    PROVE  Lost(g) \in Event /\ Lost(g).kind = "lost" /\ Lost(g).conn = g /\ Stops(Lost(g))
BY DEF Lost, Event, Stops, Ids

LEMMA RelayLostStep ==
    ASSUME Inv, NEW r \in Requests, RelayLost(r)
    PROVE  Typed' /\ SessionInv' /\ SocketInv' /\ PageInv'
<1>1. Typed /\ FlightsOK /\ RequestOK /\ SocketsOK /\ OthersOK /\ ControlOK /\ ToldOK
      /\ SessionInv /\ SocketInv /\ PageInv
  BY DEF Inv, Typed
<1>2. FlightsOK' /\ RequestOK' /\ OthersOK'
  BY <1>1 DEF RelayLost, flights, request, others, FlightsOK, RequestOK, OthersOK
<1> DEFINE e == Lost(gen)
<1>3. /\ session.live /\ session.sock = r /\ loop[r] = gen /\ gen # 0
      /\ session' = [session EXCEPT !.live = FALSE] /\ gen' = gen
      /\ loop' = [loop EXCEPT ![r] = 0] /\ inbox' = [inbox EXCEPT ![r] = <<>>]
      /\ HandOut(<<e>>, {}) /\ UNCHANGED <<sock, device>>
  BY <1>1 DEF RelayLost, IsStale, SessionInv
<1>4. gen \in Nat /\ session \in Session
  BY <1>1 DEF ControlOK
<1>5. session' \in Session /\ session'.live = FALSE /\ session'.sid = session.sid /\ session'.sock = session.sock
  BY <1>3, <1>4 DEF Session
<1>6. e \in Event /\ e.kind = "lost" /\ e.conn = gen /\ Stops(e)
  BY <1>4, LostIs
<1>7. SocketsOK'
  <2>1. <<>> \in Seq(Messages)
    OBVIOUS
  <2> QED
    BY <1>1, <1>3, <2>1 DEF SocketsOK
<1> HIDE DEF e
<1>9. Tell(<<e>>) /\ endOwed' = OwingAll(endOwed, <<e>>) /\ over' = over \cup {}
      /\ surplus' = (surplus \/ (<<e>> # <<>> /\ Spare(endOwed, Head(<<e>>))))
  BY <1>3, Handed
<1>10. surplus' = surplus /\ over' = over /\ endOwed' = endOwed
  <2>1. ~Spare(endOwed, Head(<<e>>))
    BY <1>6 DEF Spare
  <2>2. OwingAll(endOwed, <<e>>) = endOwed
    BY <1>1, <1>6, OwingOf DEF ControlOK
  <2> QED
    BY <1>1, <1>9, <2>1, <2>2 DEF ToldOK
<1>11. Posts(<<e>>, gen, gen', session.live, session'.live)
  <2>1. gen =< e.conn /\ e.conn \in 1..gen' /\ gen =< gen'
    BY <1>3, <1>4, <1>6
  <2> QED
    BY <1>5, <1>6, <2>1 DEF Posts
<1>12. Meets /\ (exiting = "down" => exiting' = "down") /\ UNCHANGED <<at, result>>
  BY DEF RelayLost, others, request, Meets
<1>13. PageInv' /\ page' \in Page /\ posts' \in Seq(Event) /\ endOwed' \in BOOLEAN
  BY <1>1, <1>3, <1>4, <1>9, <1>11, <1>12, PageTold
<1>14. ControlOK' /\ ToldOK'
  BY <1>1, <1>3, <1>5, <1>10, <1>13 DEF ControlOK, ToldOK
<1>15. SessionInv'
  <2>1. \A q \in Requests : loop'[q] =< gen /\ ~(loop'[q] # 0 /\ loop'[q] = gen)
    BY <1>1, <1>3, <1>4 DEF SessionInv, SocketsOK
  <2>2. session'.sid # None
    BY <1>1, <1>3, <1>5, NothingIs DEF SessionInv
  <2> QED
    BY <1>1, <1>3, <1>5, <1>10, <1>12, <2>1, <2>2 DEF SessionInv
<1>16. SocketInv'
  BY <1>1, <1>3, <1>5, <1>12, MeetsSame, SocketStays DEF Needs
<1> QED
  BY <1>2, <1>7, <1>13, <1>14, <1>15, <1>16 DEF Typed

LEMMA LoopDiesStep ==
    ASSUME Inv, NEW r \in Requests, LoopDies(r)
    PROVE  Typed' /\ SessionInv' /\ SocketInv' /\ PageInv'
<1>1. Typed /\ FlightsOK /\ RequestOK /\ SocketsOK /\ OthersOK /\ ControlOK /\ ToldOK
      /\ SessionInv /\ SocketInv /\ PageInv
  BY DEF Inv, Typed
<1>2. FlightsOK' /\ RequestOK' /\ OthersOK'
  BY <1>1 DEF LoopDies, flights, request, FlightsOK, RequestOK, OthersOK
<1>3. Meets /\ (exiting = "down" => exiting' = "down") /\ UNCHANGED <<at, result, device>>
  BY DEF LoopDies, request, Meets
<1>4. loop[r] # 0 /\ loop' = [loop EXCEPT ![r] = 0]
  BY DEF LoopDies
<1>5. \A q \in Requests : loop'[q] \in {loop[q], 0} /\ (q # r => loop'[q] = loop[q])
  BY <1>1, <1>4 DEF SocketsOK
<1>6. CASE loop[r] # gen
  <2>1. UNCHANGED <<sock, inbox, session, gen, endOwed, over, surplus, posts, page>>
    BY <1>6 DEF LoopDies, IsStale, control, told
  <2>2. SocketsOK' /\ ControlOK' /\ ToldOK'
    BY <1>1, <1>3, <1>4, <2>1 DEF SocketsOK, ControlOK, ToldOK
  <2>3. SessionInv'
    <3>1. \A q \in Requests : loop'[q] =< gen /\ (loop'[q] # 0 => loop'[q] = loop[q])
      BY <1>1, <1>5 DEF SessionInv, ControlOK
    <3>2. session.live => loop'[session.sock] = gen
      BY <1>1, <1>5, <1>6 DEF SessionInv
    <3> QED
      BY <1>1, <1>3, <2>1, <3>1, <3>2 DEF SessionInv
  <2>4. SocketInv'
    BY <1>1, <1>3, <2>1, MeetsSame, SocketStays DEF Needs
  <2>5. PageInv'
    BY <1>1, <1>3, <2>1, PageQuiet DEF ControlOK
  <2> QED
    BY <1>2, <2>2, <2>3, <2>4, <2>5 DEF Typed
<1>7. CASE loop[r] = gen
  <2> DEFINE e == Ended(NextGen, session.sid)
  <2>1. session.live /\ session.sock = r
    BY <1>1, <1>4, <1>7 DEF SessionInv
  <2>2. /\ gen' = gen + 1 /\ session' = Nothing /\ HandOut(<<e>>, Final(session))
        /\ sock' = [sock EXCEPT ![r] = "shut"] /\ inbox' = [inbox EXCEPT ![r] = <<>>]
    BY <1>7, <2>1 DEF LoopDies, IsStale, Retire, SetAside, NextGen
  <2>3. endOwed /\ OwedEnd = <<e>>
    BY <1>1, <2>1 DEF SessionInv, OwedEnd
  <2>4. <<e>> \o <<>> = <<e>>
    BY <1>1, EndedIs, FailedIs, Pairs DEF NextGen, ControlOK, Session
  <2>5. session'.live = FALSE /\ session' \in Session
    BY <2>2, NothingIs
  <2>6. HandOut(OwedEnd \o <<>>, Final(session)) /\ <<>> \in {<<>>, <<Failed>>}
    BY <2>2, <2>3, <2>4
  <2>7. /\ \E es : Posts(es, gen, gen', session.live, session'.live) /\ Tell(es) /\ endOwed' = OwingAll(endOwed, es)
        /\ surplus' = surplus /\ over' = over \cup Final(session)
    BY <1>1, <2>2, <2>5, <2>6, Retired
  <2>8. gen' \in Nat
    BY <1>1, <2>2 DEF ControlOK
  <2>9. PageInv' /\ page' \in Page /\ posts' \in Seq(Event) /\ endOwed' \in BOOLEAN
    BY <1>1, <1>3, <2>7, <2>8, PageTold
  <2>10. SocketsOK'
    <3>1. <<>> \in Seq(Messages)
      OBVIOUS
    <3> QED
      BY <1>1, <1>3, <1>4, <2>2, <3>1 DEF SocketsOK
  <2>11. ControlOK' /\ ToldOK'
    BY <1>1, <2>5, <2>7, <2>8, <2>9, FinalsAre DEF ControlOK, ToldOK
  <2>12. SessionInv'
    BY <1>1, <1>3, <1>5, <2>2, <2>7, SessionGone
  <2>13. \A q \in Requests : Needs(q)' => Needs(q) /\ sock'[q] = sock[q]
    BY <1>1, <1>3, <2>1, <2>2, SockOfSession DEF Needs, Done, SocketsOK
  <2>14. SocketInv'
    BY <1>1, <1>3, <2>5, <2>13, MeetsSame, SocketStays DEF Needs
  <2> QED
    BY <1>2, <2>9, <2>10, <2>11, <2>12, <2>14 DEF Typed
<1> QED
  BY <1>6, <1>7

(***************************************************************************)
(* The page's own steps.                                                   *)
(***************************************************************************)
(* What the page does leaves the controller as it is. *)
LEMMA PageSteps ==
    ASSUME Inv, Deliver \/ Reload \/ Snapshot
    PROVE  /\ FlightsOK' /\ RequestOK' /\ SocketsOK' /\ ControlOK' /\ OthersOK' /\ SessionInv' /\ SocketInv'
           /\ UNCHANGED <<session, gen, endOwed, over, surplus, exiting, sock>>
<1>1. Typed /\ FlightsOK /\ RequestOK /\ SocketsOK /\ OthersOK /\ ControlOK /\ ToldOK
      /\ SessionInv /\ SocketInv /\ PageInv
  BY DEF Inv, Typed
<1>2. UNCHANGED <<flights, request, sockets, control, over, surplus, wants, exiting, stopping>>
  BY DEF Deliver, Reload, Snapshot, others
<1>3. FlightsOK' /\ RequestOK'
  BY <1>1, <1>2 DEF flights, request, FlightsOK, RequestOK
<1>4. SocketsOK' /\ ControlOK'
  BY <1>1, <1>2 DEF sockets, control, SocketsOK, ControlOK
<1>5. incidents' \subseteq incidents \cup {"reloaded"} /\ ("lost" \in incidents' <=> "lost" \in incidents)
  BY DEF Deliver, Reload, Snapshot, others
<1>6. OthersOK'
  BY <1>1, <1>2, <1>5 DEF OthersOK, Incidents
<1>7. UNCHANGED <<session, gen, endOwed, over, surplus, exiting, sock, loop, at, result>>
  BY <1>2 DEF flights, request, sockets, control
<1>8. SessionInv'
  BY <1>1, <1>7, SessionStays
<1>9. SocketInv'
  BY <1>1, <1>5, <1>7, SocketStays DEF Needs
<1> QED
  BY <1>3, <1>4, <1>6, <1>7, <1>8, <1>9

LEMMA DeliverStep ==
    ASSUME Inv, Deliver
    PROVE  Typed' /\ SessionInv' /\ SocketInv' /\ PageInv'
<1>1. /\ FlightsOK' /\ RequestOK' /\ SocketsOK' /\ ControlOK' /\ OthersOK' /\ SessionInv' /\ SocketInv'
      /\ UNCHANGED <<session, gen, endOwed, over, surplus, exiting, sock>>
  BY PageSteps
<1>2. page \in Page /\ posts \in Seq(Event) /\ gen \in Nat /\ ToldOK /\ PageInv
  BY DEF Inv, Typed, ToldOK, ControlOK
<1>3. posts # <<>> /\ posts' = Tail(posts) /\ page' = Land(page, Head(posts)) /\ UNCHANGED incidents
  BY DEF Deliver, others
<1>4. Reloads /\ Reloads' /\ (Unheard' <=> Unheard)
  BY <1>2, <1>3 DEF PageInv, Reloads, Unheard
<1>5. page' \in Page /\ posts' \in Seq(Event) /\ page'.read = page.read
  BY <1>2, <1>3, Behind, LandRead
<1>6. ASSUME exiting' # "down" PROVE Story(page', posts', gen', session'.live, ~Unheard')
  <2>1. Story(page, posts, gen, session.live, ~Unheard)
    BY <1>1, <1>2, <1>6 DEF PageInv
  <2>2. Story(page', posts', gen, session.live, ~Unheard)
    BY <1>2, <1>3, <2>1, LandStory
  <2>3. ~Unheard' <=> ~Unheard
    BY <1>4
  <2> QED
    BY <1>1, <2>2, <2>3 DEF Story
<1>7. PageInv'
  BY <1>2, <1>3, <1>4, <1>5, <1>6 DEF PageInv
<1>8. ToldOK'
  BY <1>1, <1>2, <1>5 DEF ToldOK
<1> QED
  BY <1>1, <1>7, <1>8 DEF Typed

LEMMA ReloadStep ==
    ASSUME Inv, Reload
    PROVE  Typed' /\ SessionInv' /\ SocketInv' /\ PageInv'
<1>1. /\ FlightsOK' /\ RequestOK' /\ SocketsOK' /\ ControlOK' /\ OthersOK' /\ SessionInv' /\ SocketInv'
      /\ UNCHANGED <<session, gen, endOwed, over, surplus, exiting, sock>>
  BY PageSteps
<1>2. page \in Page /\ posts \in Seq(Event) /\ gen \in Nat /\ ToldOK /\ PageInv
  BY DEF Inv, Typed, ToldOK, ControlOK
<1>3. PICK n \in 0..Len(posts) : posts' = SubSeq(posts, n + 1, Len(posts))
  BY DEF Reload
<1>4. page' = [FreshPage EXCEPT !.read = FALSE] /\ incidents' = (incidents \ {"reload"}) \cup {"reloaded"}
  BY DEF Reload
<1>5. /\ page' \in Page /\ page'.newest = 0 /\ page'.armed = NotArmed /\ page'.armed[1] = 0
      /\ page'.told = "none" /\ page'.read = FALSE
  BY <1>4 DEF FreshPage, NotArmed, Page, Ids
<1>6. /\ posts' \in Seq(Event) /\ Len(posts') = Len(posts) - n /\ Len(posts) \in Nat
      /\ \A i \in 1..Len(posts') : posts'[i] = posts[i + n] /\ i + n \in 1..Len(posts)
  <2>1. Len(posts) \in Nat /\ \A i \in (n + 1)..Len(posts) : posts[i] \in Event
    BY <1>2
  <2>2. /\ posts' \in Seq(Event) /\ Len(posts') = IF n + 1 =< Len(posts) THEN Len(posts) - (n + 1) + 1 ELSE 0
        /\ \A i \in 1..(Len(posts) - (n + 1) + 1) : posts'[i] = posts[(n + 1) + i - 1]
    BY <1>3, <2>1, SubSeqProperties
  <2>3. Len(posts') = Len(posts) - n
    BY <2>1, <2>2
  <2>4. ASSUME NEW i \in 1..Len(posts') PROVE posts'[i] = posts[i + n] /\ i + n \in 1..Len(posts)
    <3>1. i \in 1..(Len(posts) - (n + 1) + 1) /\ (n + 1) + i - 1 = i + n /\ i + n \in 1..Len(posts)
      BY <2>1, <2>3
    <3>2. posts'[i] = posts[(n + 1) + i - 1]
      BY <2>2, <3>1
    <3> QED
      BY <3>1, <3>2
  <2> QED
    BY <2>1, <2>2, <2>3, <2>4
<1>7. Reloads /\ Reloads' /\ "reloaded" \in incidents'
  BY <1>4 DEF Reload, May, Reloads
<1>8. \A i \in 1..Len(posts) : posts[i].conn \in Nat
  <2>1. \A i \in 1..Len(posts) : posts[i] \in Event
    BY <1>2
  <2>2. \A e \in Event : e.conn \in Nat
    BY DEF Event
  <2> QED
    BY <2>1, <2>2
<1>9. ASSUME exiting' # "down" PROVE Story(page', posts', gen', session'.live, ~Unheard')
  <2>1. Story(page, posts, gen, session.live, ~Unheard) /\ Ordered(page, posts, gen)
    BY <1>1, <1>2, <1>9 DEF PageInv, Story
  <2>2. Ordered(page', posts', gen)
    <3>1. \A i \in 1..Len(posts') : Says(posts'[i]) => posts'[i].conn \in 1..gen
      BY <1>6, <2>1 DEF Ordered
    <3>2. ASSUME NEW i \in 1..Len(posts'), NEW j \in 1..Len(posts'), i < j, Says(posts'[i]), Says(posts'[j])
          PROVE  posts'[i].conn =< posts'[j].conn
                 /\ (posts'[i].kind = "lost" /\ Starts(posts'[j]) => posts'[i].conn < posts'[j].conn)
      <4>1. i + n \in 1..Len(posts) /\ j + n \in 1..Len(posts) /\ i + n < j + n
        BY <1>6, <3>2
      <4>2. posts'[i] = posts[i + n] /\ posts'[j] = posts[j + n]
        BY <1>6
      <4> QED
        BY <2>1, <3>2, <4>1, <4>2 DEF Ordered
    <3>3. ASSUME NEW j \in 1..Len(posts'), Starts(posts'[j]) PROVE posts'[j].conn # page'.armed[1]
      BY <1>5, <3>1, <3>3 DEF Starts, Says
    <3>4. page'.armed[1] =< page'.newest /\ page'.newest =< gen
      BY <1>2, <1>5
    <3> QED
      BY <3>1, <3>2, <3>3, <3>4 DEF Ordered
  <2>3. Restarted(page, posts) => Restarted(page', posts')
    <3> SUFFICES ASSUME Restarted(page, posts) PROVE Restarted(page', posts')
      OBVIOUS
    <3>1. ~(page'.told \notin Cheerful /\ (page'.read \/ page'.armed # NotArmed))
      BY <1>5
    <3>2. ASSUME NEW i \in 1..Len(posts'), Stops(posts'[i]) PROVE \E j \in (i + 1)..Len(posts') : Starts(posts'[j])
      <4>1. i + n \in 1..Len(posts) /\ Stops(posts[i + n])
        BY <1>6, <3>2
      <4>2. PICK k \in ((i + n) + 1)..Len(posts) : Starts(posts[k])
        BY <4>1 DEF Restarted
      <4>3. k - n \in (i + 1)..Len(posts') /\ k - n \in 1..Len(posts') /\ (k - n) + n = k
        BY <1>6, <4>2
      <4>4. posts'[k - n] = posts[k]
        BY <1>6, <4>3
      <4> QED
        BY <4>2, <4>3, <4>4
    <3> QED
      BY <3>1, <3>2 DEF Restarted
  <2>4. Undone(page, posts) => Undone(page', posts')
    <3> SUFFICES ASSUME Undone(page, posts), NEW i \in 0..Len(posts'),
                        IF i = 0 THEN page'.told = "connected" ELSE Starts(posts'[i])
                 PROVE  \E j \in (i + 1)..Len(posts') : Stops(posts'[j]) /\ posts'[j].conn >= page'.newest
      BY DEF Undone
    <3>1. i # 0 /\ Starts(posts'[i]) /\ i \in 1..Len(posts')
      BY <1>5, <1>6
    <3>2. i + n \in 0..Len(posts) /\ i + n # 0 /\ Starts(posts[i + n])
      BY <1>6, <3>1
    <3>3. PICK k \in ((i + n) + 1)..Len(posts) : Stops(posts[k]) /\ posts[k].conn >= page.newest
      BY <3>2 DEF Undone
    <3>4. k - n \in (i + 1)..Len(posts') /\ k - n \in 1..Len(posts') /\ (k - n) + n = k /\ k \in 1..Len(posts)
      BY <1>6, <3>3
    <3>5. posts'[k - n] = posts[k]
      BY <1>6, <3>4
    <3>6. posts[k].conn >= page'.newest
      BY <1>5, <1>8, <3>4
    <3> QED
      BY <3>3, <3>4, <3>5, <3>6
  <2>5. ~Unheard' => ~Unheard
    BY <1>4 DEF Unheard
  <2> QED
    BY <1>1, <2>1, <2>2, <2>3, <2>4, <2>5 DEF Story
<1>10. PageInv'
  BY <1>7, <1>9 DEF PageInv
<1>11. ToldOK'
  BY <1>1, <1>2, <1>5, <1>6 DEF ToldOK
<1> QED
  BY <1>1, <1>10, <1>11 DEF Typed

LEMMA SnapshotStep ==
    ASSUME Inv, Snapshot
    PROVE  Typed' /\ SessionInv' /\ SocketInv' /\ PageInv'
<1>1. /\ FlightsOK' /\ RequestOK' /\ SocketsOK' /\ ControlOK' /\ OthersOK' /\ SessionInv' /\ SocketInv'
      /\ UNCHANGED <<session, gen, endOwed, over, surplus, exiting, sock>>
  BY PageSteps
<1>2. page \in Page /\ posts \in Seq(Event) /\ gen \in Nat /\ session \in Session /\ ToldOK
      /\ PageInv /\ SessionInv /\ SocketInv
  BY DEF Inv, Typed, ToldOK, ControlOK
<1> DEFINE p == [page EXCEPT !.read = TRUE]
           c == IsLive /\ p.armed = NotArmed /\ Admits(p, session.conn)
           q == [p EXCEPT !.newest = session.conn]
<1>3. ~page.read /\ UNCHANGED <<posts, incidents>>
      /\ page' = (IF c THEN Connected(q, session.conn, session.sid) ELSE p)
  BY DEF Snapshot, others
<1>4. p \in Page /\ p.newest = page.newest /\ p.armed = page.armed /\ p.told = page.told /\ p.read = TRUE
  BY <1>2 DEF Page
<1>5. Reloads /\ Reloads' /\ "reloaded" \in incidents /\ (Unheard' <=> Unheard)
  BY <1>2, <1>3 DEF PageInv, Reloads, Unheard
<1>6. CASE c
  <2>1. session.live /\ session.conn = gen /\ gen # 0 /\ page.armed = NotArmed
    BY <1>2, <1>4, <1>6 DEF IsLive, SessionInv
  <2>2. q \in Page /\ q.armed = NotArmed /\ q.newest = gen /\ q.read = TRUE
    BY <1>2, <1>4, <2>1 DEF Page
  <2>3. <<session.conn, session.sid>> \in Nat \X Ids /\ <<session.conn, session.sid>> # NotArmed
    BY <1>2, <2>1 DEF NotArmed, Session
  <2> HIDE DEF q
  <2>4. page' = [q EXCEPT !.armed = <<session.conn, session.sid>>, !.told = "connected"]
    BY <1>3, <1>6, <2>2, <2>3 DEF Connected, IsRepeat
  <2>5. /\ page' \in Page /\ page'.told = "connected" /\ page'.read = TRUE /\ page'.newest = gen
        /\ page'.armed = <<session.conn, session.sid>>
    BY <2>2, <2>3, <2>4 DEF Page
  <2>6. page'.armed[1] = gen
    BY <2>1, <2>5
  <2>7. ASSUME exiting' # "down" PROVE Story(page', posts', gen', session'.live, ~Unheard')
    <3>1. Story(page, posts, gen, session.live, ~Unheard) /\ Ordered(page, posts, gen)
      BY <1>1, <1>2, <2>7 DEF PageInv, Story
    <3>2. Ordered(page', posts, gen)
      BY <1>2, <2>5, <2>6, <3>1 DEF Ordered, Cheerful
    <3>3. Restarted(page, posts) => Restarted(page', posts)
      BY <2>5 DEF Restarted, Cheerful
    <3> QED
      BY <1>1, <1>3, <1>5, <2>1, <3>1, <3>2, <3>3 DEF Story
  <2>8. PageInv'
    BY <1>5, <2>5, <2>7 DEF PageInv
  <2>9. ToldOK'
    BY <1>1, <1>2, <1>3, <2>5 DEF ToldOK
  <2> QED
    BY <1>1, <2>8, <2>9 DEF Typed
<1>7. CASE ~c
  <2> HIDE DEF c
  <2>1. page' = p
    BY <1>3, <1>7
  <2> HIDE DEF p
  <2>2. ASSUME exiting' # "down" PROVE Story(page', posts', gen', session'.live, ~Unheard')
    <3>1. Story(page, posts, gen, session.live, ~Unheard) /\ Ordered(page, posts, gen)
      BY <1>1, <1>2, <2>2 DEF PageInv, Story
    <3>2. Ordered(p, posts, gen)
      BY <1>4, <3>1 DEF Ordered
    <3>3. Undone(page, posts) => Undone(p, posts)
      BY <1>4 DEF Undone
    <3>4. ASSUME session.live, ~Unheard, Restarted(page, posts) PROVE Restarted(p, posts)
      <4>1. "lost" \notin incidents
        BY <1>5, <3>4 DEF Unheard
      <4>2. IsLive /\ session.conn = gen
        BY <1>2, <3>4, <4>1 DEF IsLive, SocketInv, SessionInv
      <4>3. Admits(p, session.conn)
        <5>1. page.newest \in Nat /\ page.newest =< gen
          BY <1>2, <3>1 DEF Ordered, Page
        <5> QED
          BY <1>2, <1>4, <4>2, <5>1 DEF Admits
      <4>4. p.armed # NotArmed
        BY <1>7, <4>2, <4>3 DEF c, p
      <4> QED
        BY <1>4, <3>4, <4>4 DEF Restarted
    <3> QED
      BY <1>1, <1>3, <1>5, <2>1, <3>1, <3>2, <3>3, <3>4 DEF Story
  <2>3. PageInv'
    BY <1>4, <1>5, <2>1, <2>2 DEF PageInv
  <2>4. ToldOK'
    BY <1>1, <1>2, <1>3, <1>4, <2>1 DEF ToldOK
  <2> QED
    BY <1>1, <2>3, <2>4 DEF Typed
<1> QED
  BY <1>6, <1>7

(***************************************************************************)
(* A request's hook and its answers, by what a step does with them.         *)
(***************************************************************************)
LEMMA HooksStay ==
    ASSUME Inv, UNCHANGED <<armed, answers>>,
           \A q \in Requests : (at'[q] \in Fresh <=> at[q] \in Fresh) /\ (at'[q] = "ended" => at[q] = "ended")
    PROVE  HookInv'
BY DEF Inv, HookInv

LEMMA HookArmed ==
    ASSUME Inv, NEW r \in Requests, NEW to, Goes(r, "called", to), to \notin Fresh, to # "ended",
           armed' = armed \cup {r}, UNCHANGED answers
    PROVE  HookInv'
BY DEF Inv, HookInv, Typed, RequestOK, Goes, Fresh

LEMMA HookTaken ==
    ASSUME Inv, NEW r \in Requests, NEW x \in Results, r \in armed,
           at' = at \/ at' = [at EXCEPT ![r] = "ended"],
           armed' = armed \ {r}, answers' = [answers EXCEPT ![r] = Append(@, x)]
    PROVE  HookInv'
<1>1. RequestOK /\ HookInv /\ r \in Requests
  BY DEF Inv, Typed
<1>2. at[r] \notin Fresh /\ answers[r] = <<>> /\ at'[r] \notin Fresh
  BY <1>1 DEF HookInv, RequestOK, Fresh
<1>3. answers'[r] = Append(<<>>, x)
  BY <1>1, <1>2 DEF RequestOK
<1>4. Len(answers'[r]) = 1
  <2>1. Append(<<>>, x) = <<x>> /\ Len(<<x>>) = 1
    OBVIOUS
  <2> HIDE <1>1, <1>2
  <2> QED
    BY <1>3, <2>1, Zenon
<1>5. ASSUME NEW q \in Requests, q # r
      PROVE  at'[q] = at[q] /\ answers'[q] = answers[q] /\ (q \in armed' <=> q \in armed)
  BY <1>1, <1>5 DEF RequestOK
<1> QED
  BY <1>1, <1>2, <1>4, <1>5 DEF HookInv

LEMMA HookLeft ==
    ASSUME Inv, NEW r \in Requests, NEW from, Goes(r, from, "ended"), from \notin Fresh, r \notin armed,
           UNCHANGED <<armed, answers>>
    PROVE  HookInv'
BY DEF Inv, HookInv, Typed, RequestOK, Goes, Fresh

LEMMA ResultsOfRequests == ASSUME Inv, NEW r \in Requests PROVE result[r] \in Results /\ Why(r) \in Results
BY DEF Inv, Typed, RequestOK, FlightsOK, Why, Reason, Results, Failures

LEMMA HooksStep == ASSUME Inv, Next PROVE HookInv'
<1>1. RequestOK
  BY DEF Inv, Typed
<1> USE DEF request
<1>2. ASSUME NEW r \in Requests, Call(r) PROVE HookInv'
  <2>1. UNCHANGED <<armed, answers>> /\ \A q \in Requests : (at'[q] \in Fresh <=> at[q] \in Fresh) /\ (at'[q] = "ended" => at[q] = "ended")
    BY <1>1, <1>2 DEF Call, Goes, RequestOK, Fresh
  <2> QED
    BY <2>1, HooksStay
<1>3. ASSUME NEW r \in Requests, Malformed(r) \/ JoinClosed(r) \/ Follow(r) \/ Lead(r) PROVE HookInv'
  <2>1. \E to \in {"settled", "waiting", "planning"} : Goes(r, "called", to)
    BY <1>3 DEF Malformed, JoinClosed, Follow, Lead
  <2>2. armed' = armed \cup {r} /\ UNCHANGED answers
    BY <1>3 DEF Malformed, JoinClosed, Follow, Lead
  <2> QED
    BY <2>1, <2>2, HookArmed DEF Fresh
<1>4. ASSUME NEW r \in Requests, Wake(r) \/ Plan(r) \/ Dial(r) \/ DialFails(r) \/ ReadAnswer(r) \/ ResumeDeadline(r)
                                 \/ Preempt(r) \/ Settle(r) \/ Die(r)
      PROVE  HookInv'
  <2>1. UNCHANGED <<armed, answers>>
    BY <1>4 DEF Wake, Plan, Dial, DialFails, ReadAnswer, ResumeDeadline, Preempt, EndDial, Settle, Discard, InstallStarted,
                InstallResumed, Install, FailAttempt, Settled, Die
  <2>2. \E to \in Places \ (Fresh \cup {"ended"}) : at[r] \notin Fresh /\ at' = [at EXCEPT ![r] = to]
    <3>1. CASE Wake(r) \/ Plan(r) \/ Dial(r) \/ Die(r)
      BY <3>1 DEF Wake, Plan, Dial, Die, Goes, Places, Fresh
    <3>2. CASE DialFails(r) \/ ResumeDeadline(r) \/ Preempt(r)
      BY <3>2 DEF DialFails, ResumeDeadline, Preempt, EndDial, Places, Fresh
    <3>3. CASE ReadAnswer(r)
      BY <3>3 DEF ReadAnswer, EndDial, Places, Fresh
    <3>4. CASE Settle(r)
      BY <3>4 DEF Settle, Discard, InstallStarted, InstallResumed, Install, FailAttempt, Settled, Goes, Places, Fresh
    <3> QED
      BY <1>4, <3>1, <3>2, <3>3, <3>4
  <2>3. \A q \in Requests : (at'[q] \in Fresh <=> at[q] \in Fresh) /\ (at'[q] = "ended" => at[q] = "ended")
    BY <1>1, <2>2 DEF RequestOK
  <2> QED
    BY <2>1, <2>3, HooksStay
<1>5. ASSUME NEW r \in Requests, Answer(r) PROVE HookInv'
  <2>1. CASE r \in armed
    BY <1>5, <2>1, HookTaken, ResultsOfRequests DEF Answer, Claims, Goes
  <2>2. CASE r \notin armed
    <3>1. Goes(r, "settled", "ended") /\ armed' = armed /\ answers' = answers
      BY <1>5, <2>2 DEF Answer, Claims
    <3> QED
      BY <3>1, <2>2, HookLeft DEF Fresh
  <2> QED
    BY <2>1, <2>2
<1>6. ASSUME NEW r \in Requests, Dead(r) PROVE HookInv'
  <2>1. CASE r \in armed
    BY <1>6, <2>1, HookTaken, ResultsOfRequests DEF Dead, RunHook, Goes
  <2>2. CASE r \notin armed
    BY <1>6, <2>2, HookLeft DEF Dead, Fresh
  <2> QED
    BY <2>1, <2>2
<1>7. ASSUME CloseHook PROVE HookInv'
  <2>1. hooks \in Seq(Requests) /\ hooks # <<>>
    BY <1>7 DEF CloseHook, Inv, Typed, FlightsOK
  <2>2. Head(hooks) \in Requests
    BY <2>1
  <2>3. CASE Head(hooks) \in armed
    BY <1>7, <2>2, <2>3, HookTaken, ResultsOfRequests DEF CloseHook, RunHook
  <2>4. CASE Head(hooks) \notin armed
    BY <1>7, <2>4, HooksStay DEF CloseHook
  <2> QED
    BY <2>3, <2>4
<1>8. ASSUME UNCHANGED request PROVE HookInv'
  BY <1>8, HooksStay
<1>9. ASSUME NEW r \in Requests, Relay(r) \/ LoopDies(r) \/ Device(r) PROVE UNCHANGED request
  BY <1>9 DEF Relay, LoopLeaves, RelayEnd, RelayLost, LoopDies, Device, Confirms, Refuses, EndsIt, Loses, DeviceSays
<1>10. ASSUME CancelFlight \/ Disconnect \/ CloseFlights \/ Shutdown \/ Deliver \/ Reload \/ Snapshot PROVE UNCHANGED request
  BY <1>10 DEF CancelFlight, Disconnect, CloseFlights, Shutdown, Deliver, Reload, Snapshot
<1> QED
  BY <1>2, <1>3, <1>4, <1>5, <1>6, <1>7, <1>8, <1>9, <1>10 DEF Next, Task, Exit

(***************************************************************************)
(* The slot.                                                               *)
(***************************************************************************)
LEMMA SlotStays ==
    ASSUME Inv, slot' \in {slot, None}, UNCHANGED <<reason, joined>>,
           \A q \in Requests : (at'[q] \in Fresh => at[q] \in Fresh) /\ (at'[q] = "waiting" => at[q] = "waiting")
    PROVE  SlotInv'
BY NoneIsNoRequest DEF Inv, SlotInv

LEMMA SlotStopped ==
    ASSUME Inv, NEW why, StopFlight(why), UNCHANGED <<at, joined>>
    PROVE  SlotInv'
BY NoneIsNoRequest DEF Inv, SlotInv, StopFlight, Fired

LEMMA SlotTaken == ASSUME Inv, NEW r \in Requests, Lead(r) PROVE SlotInv'
<1>1. SlotInv /\ RequestOK /\ FlightsOK
  BY DEF Inv, Typed
<1>2. at[r] = "called" /\ at' = [at EXCEPT ![r] = "planning"] /\ slot' = r /\ joined' = [joined EXCEPT ![r] = r]
      /\ reason' = [l \in Requests |-> IF l = slot THEN "superseded" ELSE reason[l]]
  BY DEF Lead, Goes, Supersede, Fired
<1>3. slot # r /\ reason[r] = "none"
  BY <1>1, <1>2 DEF SlotInv, Fresh
<1>4. reason'[r] = "none" /\ at'[r] = "planning"
  BY <1>1, <1>2, <1>3 DEF RequestOK
<1>5. ASSUME NEW q \in Requests, q # r PROVE at'[q] = at[q] /\ joined'[q] = joined[q]
  BY <1>1, <1>2, <1>5 DEF RequestOK
<1>6. ASSUME NEW q \in Requests, q # r, at[q] \in Fresh PROVE reason'[q] = "none"
  BY <1>1, <1>2, <1>6 DEF SlotInv
<1> QED
  BY <1>1, <1>2, <1>4, <1>5, <1>6 DEF SlotInv, Fresh

LEMMA SlotsStep == ASSUME Inv, Next PROVE SlotInv'
<1>1. RequestOK /\ FlightsOK /\ SlotInv
  BY DEF Inv, Typed
<1>2. ASSUME NEW r \in Requests, Follow(r) PROVE SlotInv'
  <2>1. slot \in Requests
    BY <1>1, <1>2 DEF Follow, FlightsOK, Ids
  <2>2. at' = [at EXCEPT ![r] = "waiting"] /\ joined' = [joined EXCEPT ![r] = slot] /\ slot' = slot /\ reason' = reason
    BY <1>2 DEF Follow, Goes
  <2> QED
    BY <1>1, <2>1, <2>2 DEF SlotInv, RequestOK, Fresh
<1>3. ASSUME NEW r \in Requests, Malformed(r) PROVE SlotInv'
  <2>1. at' = [at EXCEPT ![r] = "settled"] /\ joined' = [joined EXCEPT ![r] = r] /\ slot' = slot /\ reason' = reason
    BY <1>3 DEF Malformed, Goes, flights
  <2> QED
    BY <1>1, <2>1 DEF SlotInv, RequestOK, Fresh
<1>4. ASSUME NEW r \in Requests, \/ Call(r) \/ JoinClosed(r) \/ Wake(r) \/ Plan(r) \/ Dial(r) \/ DialFails(r) \/ ReadAnswer(r)
                                 \/ ResumeDeadline(r) \/ Preempt(r) \/ Settle(r) \/ Die(r) \/ Answer(r) \/ Dead(r)
      PROVE  SlotInv'
  <2>1. slot' \in {slot, None} /\ UNCHANGED <<reason, joined>>
    BY <1>4 DEF Call, JoinClosed, Wake, Plan, Dial, DialFails, ReadAnswer, ResumeDeadline, Preempt, EndDial, Settle, Discard,
                InstallStarted, InstallResumed, Install, FailAttempt, Settled, Leave, Die, Answer, Dead, flights
  <2>2. \E from \in Places, to \in Places \ {"idle", "waiting"} :
           at[r] = from /\ at' = [at EXCEPT ![r] = to] /\ (to \in Fresh => from \in Fresh)
    <3>1. CASE Call(r) \/ JoinClosed(r) \/ Wake(r) \/ Plan(r) \/ Dial(r) \/ Die(r) \/ Answer(r) \/ Dead(r)
      BY <3>1 DEF Call, JoinClosed, Wake, Plan, Dial, Die, Answer, Dead, Goes, Places, Fresh
    <3>2. CASE DialFails(r) \/ ResumeDeadline(r) \/ Preempt(r)
      BY <3>2 DEF DialFails, ResumeDeadline, Preempt, EndDial, Places, Fresh
    <3>3. CASE ReadAnswer(r)
      BY <3>3 DEF ReadAnswer, EndDial, Places, Fresh
    <3>4. CASE Settle(r)
      BY <3>4 DEF Settle, Discard, InstallStarted, InstallResumed, Install, FailAttempt, Settled, Goes, Places, Fresh
    <3> QED
      BY <1>4, <3>1, <3>2, <3>3, <3>4
  <2>3. \A q \in Requests : (at'[q] \in Fresh => at[q] \in Fresh) /\ (at'[q] = "waiting" => at[q] = "waiting")
    BY <1>1, <2>2 DEF RequestOK
  <2> QED
    BY <2>1, <2>3, SlotStays
<1>5. ASSUME UNCHANGED <<slot, reason, joined, at>> PROVE SlotInv'
  BY <1>5, SlotStays
<1>6. ASSUME NEW r \in Requests, Relay(r) \/ LoopDies(r) \/ Device(r) PROVE UNCHANGED <<slot, reason, joined, at>>
  BY <1>6 DEF Relay, LoopLeaves, RelayEnd, RelayLost, LoopDies, Device, Confirms, Refuses, EndsIt, Loses, DeviceSays, request, flights
<1>7. ASSUME CloseHook \/ Disconnect \/ Shutdown \/ Deliver \/ Reload \/ Snapshot PROVE UNCHANGED <<slot, reason, joined, at>>
  BY <1>7 DEF CloseHook, Disconnect, Shutdown, Deliver, Reload, Snapshot, request, flights
<1>8. ASSUME CancelFlight \/ CloseFlights PROVE SlotInv'
  BY <1>8, SlotStopped DEF CancelFlight, CloseFlights, request
<1> QED
  BY <1>2, <1>3, <1>4, <1>5, <1>6, <1>7, <1>8, SlotTaken DEF Next, Task, Exit

(***************************************************************************)
(* The invariant: it holds at first, every step keeps it, and it holds.    *)
(***************************************************************************)
LEMMA InvAtFirst == Init => Inv
<1> SUFFICES ASSUME Init PROVE Inv
  OBVIOUS
<1>1. PICK h \in Histories : incidents = h.meets /\ wants = h.asks
  BY DEF Init
<1>2. incidents \subseteq Incidents /\ wants \in [Requests -> Devices \cup {None}]
  BY <1>1, ConnectAssumption
<1>3. Nothing \in Session /\ NoPlan \in [sid : Ids, conn : Nat] /\ FreshPage \in Page /\ <<>> \in Seq(Event)
  BY DEF Nothing, Session, NoPlan, FreshPage, Page, Ids, None
<1>4. Typed
  <2>1. FlightsOK
    <3>1. <<>> \in Seq(Requests)
      OBVIOUS
    <3>2. slot \in Ids /\ closed \in BOOLEAN /\ hooks \in Seq(Requests)
      BY <3>1 DEF Init, Ids
    <3>3. reason \in [Requests -> {"none"} \cup Failures] /\ done \in [Requests -> Results]
      BY DEF Init, Results
    <3> QED
      BY <3>2, <3>3 DEF FlightsOK
  <2>2. RequestOK
    <3>1. <<>> \in Seq(Results)
      OBVIOUS
    <3> QED
      BY <1>3, <3>1 DEF Init, RequestOK, Ids, Results, Places
  <2>3. SocketsOK
    <3>1. <<>> \in Seq(Messages)
      OBVIOUS
    <3> QED
      BY <3>1 DEF Init, SocketsOK
  <2>4. ControlOK /\ ToldOK /\ OthersOK
    BY <1>2, <1>3 DEF Init, ControlOK, ToldOK, OthersOK
  <2> QED
    BY <2>1, <2>2, <2>3, <2>4 DEF Typed
<1>5. HookInv /\ SlotInv /\ SessionInv /\ SocketInv
  BY NoneIsNoRequest DEF Init, HookInv, SlotInv, SessionInv, SocketInv, Fresh, Nothing, Done
<1>6. PageInv
  <2>1. Ordered(FreshPage, <<>>, 0)
    BY DEF Ordered, FreshPage, Cheerful
  <2>2. Undone(FreshPage, <<>>)
    <3>1. Len(<<>>) = 0
      OBVIOUS
    <3> QED
      BY <3>1 DEF Undone, FreshPage
  <2> QED
    BY <2>1, <2>2 DEF Init, PageInv, Story, Nothing, FreshPage, NotArmed
<1> QED
  BY <1>4, <1>5, <1>6 DEF Inv

LEMMA InvStays == Inv /\ UNCHANGED vars => Inv'
<1> SUFFICES ASSUME Inv, UNCHANGED vars PROVE Inv'
  OBVIOUS
<1> USE DEF vars, flights, request, sockets, control, others, told
<1>1. Typed'
  BY DEF Inv, Typed, FlightsOK, RequestOK, SocketsOK, ControlOK, ToldOK, OthersOK
<1>2. HookInv' /\ SlotInv' /\ SessionInv' /\ SocketInv'
  BY DEF Inv, HookInv, SlotInv, SessionInv, SocketInv
<1>3. PageInv'
  BY DEF Inv, PageInv, Reloads, Unheard
<1> QED
  BY <1>1, <1>2, <1>3 DEF Inv

LEMMA InvStep == Inv /\ Next => Inv'
<1> SUFFICES ASSUME Inv, Next PROVE Inv'
  OBVIOUS
<1>1. HookInv' /\ SlotInv'
  BY HooksStep, SlotsStep
<1>2. Typed' /\ SessionInv' /\ SocketInv' /\ PageInv'
  <2>1. ASSUME NEW r \in Requests, Task(r) PROVE Typed' /\ SessionInv' /\ SocketInv' /\ PageInv'
    BY <2>1, JoinClosedStep, FollowStep, LeadStep, WakeStep, PlanStep, DialStep, DialFailsStep, ReadAnswerStep, DiscardStep,
       InstallStartedStep, InstallResumedStep, FailAttemptStep, AnswerStep, DeadStep DEF Task, Settle
  <2>2. ASSUME NEW r \in Requests, Call(r) \/ Malformed(r) \/ Die(r) \/ LoopDies(r) PROVE Typed' /\ SessionInv' /\ SocketInv' /\ PageInv'
    BY <2>2, CallStep, MalformedStep, DieStep, LoopDiesStep
  <2>3. ASSUME NEW r \in Requests, Relay(r) \/ Device(r) PROVE Typed' /\ SessionInv' /\ SocketInv' /\ PageInv'
    BY <2>3, LoopLeavesStep, RelayEndStep, RelayLostStep, ConfirmsStep, RefusesStep, EndsItStep, LosesStep DEF Relay, Device
  <2>4. ASSUME CancelFlight \/ Disconnect \/ CloseFlights \/ Exit PROVE Typed' /\ SessionInv' /\ SocketInv' /\ PageInv'
    BY <2>4, CancelFlightStep, DisconnectStep, CloseFlightsStep, CloseHookStep, ShutdownStep DEF Exit
  <2>5. ASSUME Deliver \/ Reload \/ Snapshot PROVE Typed' /\ SessionInv' /\ SocketInv' /\ PageInv'
    BY <2>5, DeliverStep, ReloadStep, SnapshotStep
  <2> QED
    BY <2>1, <2>2, <2>3, <2>4, <2>5 DEF Next
<1> QED
  BY <1>1, <1>2 DEF Inv

LEMMA InvHolds == Spec => []Inv
<1>1. Inv /\ [Next]_vars => Inv'
  BY InvStays, InvStep
<1> QED
  BY InvAtFirst, <1>1, PTL DEF Spec

(* Every variable holds a value of its kind.                                *)
THEOREM ConnectTypeCorrect == Spec => []TypeOK
<1>1. Inv => TypeOK
  BY TypedIsTypeOK DEF Inv
<1> QED
  BY <1>1, InvHolds, PTL

(* TIDAL is told what the controller holds: once everything posted to the   *)
(* page has landed, it shows a live session as connected and no other, its  *)
(* listener is armed exactly while an end is owed, no end is told twice,    *)
(* and a session it was told is over is never installed again               *)
(* (controller/mod.rs, ipc/controller.rs, connect/index.ts).                *)
THEOREM PageCorrect == Spec => []PageIsTold
<1>1. Inv => PageIsTold
  <2> SUFFICES ASSUME Inv PROVE PageIsTold
    OBVIOUS
  <2>1. PageAgrees
    <3> SUFFICES ASSUME posts = <<>>, page.read, exiting # "down"
                 PROVE  /\ IsLive /\ ~Unheard => page.told \in {"connected", "failed"}
                        /\ page.told = "connected" => session.live
      BY DEF PageAgrees
    <3>1. Story(page, <<>>, gen, session.live, ~Unheard)
      BY DEF Inv, PageInv
    <3>2. Len(<<>>) = 0
      OBVIOUS
    <3>3. ASSUME IsLive, ~Unheard PROVE page.told \in {"connected", "failed"}
      BY <3>1, <3>2, <3>3 DEF Story, Restarted, IsLive, Cheerful
    <3>4. ASSUME page.told = "connected", ~session.live PROVE FALSE
      <4>1. Undone(page, <<>>)
        BY <3>1, <3>4 DEF Story
      <4>2. 0 \in 0..Len(<<>>)
        BY <3>2
      <4>3. \E j \in (0 + 1)..Len(<<>>) : TRUE
        BY <4>1, <4>2, <3>4 DEF Undone
      <4> QED
        BY <4>3, <3>2
    <3>5. session.live \in BOOLEAN
      BY DEF Inv, Typed, ControlOK, Session
    <3> QED
      BY <3>3, <3>4, <3>5
  <2>2. ArmedWhileOwed /\ NeverEndedTwice /\ OverStaysOver
    BY DEF Inv, PageInv, SessionInv, ArmedWhileOwed, NeverEndedTwice, OverStaysOver
  <2> QED
    BY <2>1, <2>2 DEF PageIsTold
<1> QED
  BY <1>1, InvHolds, PTL

(* A request whose task is over was answered, and none is answered twice,   *)
(* whichever of the task, the abort hook and the exit comes to it first     *)
(* (flight.rs: Armed, claim, close).                                        *)
THEOREM AnsweredCorrect == Spec => []AnsweredOnce
<1>1. Inv => AnsweredOnce
  <2> SUFFICES ASSUME Inv, NEW r \in Requests PROVE (at[r] = "ended" => Len(answers[r]) = 1) /\ Len(answers[r]) =< 1
    BY DEF AnsweredOnce
  <2>1. Len(<<>>) = 0
    OBVIOUS
  <2>2. answers[r] = <<>> \/ Len(answers[r]) = 1
    BY DEF Inv, HookInv
  <2>3. at[r] = "ended" => Len(answers[r]) = 1
    BY DEF Inv, HookInv, Fresh
  <2>4. Len(answers[r]) = 0 \/ Len(answers[r]) = 1
    BY <2>1, <2>2, Zenon
  <2>5. \A n : n = 0 \/ n = 1 => n =< 1
    OBVIOUS
  <2>6. Len(answers[r]) =< 1
    BY <2>4, <2>5, Zenon
  <2> QED
    BY <2>3, <2>6, Zenon
<1> QED
  BY <1>1, InvHolds, PTL

(***************************************************************************)
(* What becomes of the session in a step: nothing; it goes; an attempt that *)
(* stands installs one; its own socket's oldest frame takes it out of the   *)
(* live state.                                                             *)
(***************************************************************************)
Installed    == \E r \in Requests : session'.sock = r /\ session'.live /\ reason[r] = "none"
LeftBySocket == /\ session' = [session EXCEPT !.live = FALSE]
                /\ inbox[session.sock] # <<>> /\ Head(inbox[session.sock]) \in {"lost", "suspended"}
SessionMoves == session' = session \/ session' = Nothing \/ Installed \/ LeftBySocket

LEMMA SessionStep == ASSUME Inv, Next PROVE SessionMoves
<1> USE DEF control, SessionMoves
<1>1. ControlOK /\ SessionInv /\ SlotInv /\ SocketsOK
  BY DEF Inv, Typed
<1>2. ASSUME NEW r \in Requests, NEW why, NEW also, NEW more, SettleFailure(why, also, more) PROVE SessionMoves
  BY <1>2 DEF SettleFailure, Retire, SetAside
<1>3. ASSUME NEW r \in Requests, InstallStarted(r) \/ InstallResumed(r) PROVE SessionMoves
  <2>1. slot = r
    BY <1>3 DEF InstallStarted, InstallResumed, Install, IsCurrent
  <2>2. session'.sock = r /\ session'.live
    <3>1. CASE InstallStarted(r)
      BY <3>1 DEF InstallStarted, Install
    <3>2. CASE InstallResumed(r)
      BY <3>2, <1>1 DEF InstallResumed, Install, ControlOK, Session
    <3> QED
      BY <1>3, <3>1, <3>2
  <2> QED
    BY <2>1, <2>2, <1>1 DEF SlotInv, Installed
<1>4. ASSUME NEW r \in Requests, RunHook(r) PROVE SessionMoves
  BY <1>4, <1>2 DEF RunHook
<1>5. ASSUME NEW r \in Requests, FailAttempt(r) \/ Malformed(r) PROVE SessionMoves
  BY <1>5, <1>2 DEF FailAttempt, Malformed
<1>6. ASSUME NEW r \in Requests, Dead(r) PROVE SessionMoves
  BY <1>6, <1>4 DEF Dead
<1>7. ASSUME CloseHook PROVE SessionMoves
  <2>1. hooks \in Seq(Requests) /\ hooks # <<>>
    BY <1>7 DEF CloseHook, Inv, Typed, FlightsOK
  <2>2. Head(hooks) \in Requests
    BY <2>1
  <2> QED
    BY <1>7, <2>2, <1>4 DEF CloseHook
<1>8. ASSUME NEW r \in Requests, RelayEnd(r) \/ RelayLost(r) \/ LoopDies(r) PROVE SessionMoves
  <2>1. CASE RelayEnd(r)
    <3>1. session.sock = r
      BY <2>1, <1>1 DEF RelayEnd, IsStale, SessionInv
    <3> QED
      BY <2>1, <3>1 DEF RelayEnd, Retire, SetAside, LeftBySocket
  <2>2. CASE RelayLost(r)
    <3>1. session.sock = r
      BY <2>2, <1>1 DEF RelayLost, IsStale, SessionInv
    <3> QED
      BY <2>2, <3>1 DEF RelayLost, LeftBySocket
  <2>3. CASE LoopDies(r)
    BY <2>3 DEF LoopDies, Retire, SetAside
  <2> QED
    BY <1>8, <2>1, <2>2, <2>3
<1>9. ASSUME NEW r \in Requests, \/ Call(r) \/ JoinClosed(r) \/ Follow(r) \/ Lead(r) \/ Wake(r) \/ Plan(r) \/ Dial(r) \/ DialFails(r)
                                 \/ ReadAnswer(r) \/ ResumeDeadline(r) \/ Preempt(r) \/ Discard(r) \/ Die(r) \/ Answer(r)
      PROVE  session' = session
  BY <1>9 DEF Call, JoinClosed, Follow, Lead, Wake, Plan, Dial, DialFails, ReadAnswer, ResumeDeadline, Preempt, EndDial, Discard,
              Die, Answer
<1>10. ASSUME NEW r \in Requests, LoopLeaves(r) \/ Device(r) PROVE session' = session
  BY <1>10 DEF LoopLeaves, Device, Confirms, Refuses, EndsIt, Loses, DeviceSays
<1>11. ASSUME Disconnect \/ Shutdown PROVE SessionMoves
  BY <1>11 DEF Disconnect, Shutdown
<1>12. ASSUME CancelFlight \/ CloseFlights \/ Deliver \/ Reload \/ Snapshot PROVE session' = session
  BY <1>12 DEF CancelFlight, CloseFlights, Deliver, Reload, Snapshot
<1> QED
  BY <1>3, <1>5, <1>6, <1>7, <1>8, <1>9, <1>10, <1>11, <1>12 DEF Next, Task, Settle, Exit, Relay

(* An attempt a newer request, a disconnect or the exit has stopped         *)
(* installs nothing, and a session that stays leaves the live state by the  *)
(* oldest frame of its own socket only (flight.rs: settle_attempt;          *)
(* relay_event: the generation).                                            *)
THEOREM SocketCorrect == Spec => SessionKeepsItsSocket
<1>1. ASSUME Inv, [Next]_vars
      PROVE  [\A r \in Requests : session'.sock = r /\ session.sock # r => reason[r] = "none"]_vars
  <2>1. CASE Next
    <3>1. SessionMoves
      BY <1>1, <2>1, SessionStep
    <3>2. Nothing.sock \notin Requests
      BY NothingIs, NoneIsNoRequest
    <3>3. session \in Session
      BY <1>1 DEF Inv, Typed, ControlOK
    <3> QED
      BY <3>1, <3>2, <3>3 DEF SessionMoves, Installed, LeftBySocket, Session
  <2> QED
    BY <1>1, <2>1
<1>2. ASSUME Inv, [Next]_vars
      PROVE  [session.live /\ session'.sid = session.sid /\ ~session'.live =>
                /\ inbox[session.sock] # <<>>
                /\ Head(inbox[session.sock]) \in {"lost", "suspended"}]_vars
  <2>1. CASE Next
    <3>1. SessionMoves
      BY <1>2, <2>1, SessionStep
    <3>2. session.live => session.sid # None
      BY <1>2, NothingIs DEF Inv, SessionInv
    <3> QED
      BY <3>1, <3>2, NothingIs DEF SessionMoves, Installed, LeftBySocket
  <2> QED
    BY <1>2, <2>1
<1> QED
  BY <1>1, <1>2, InvHolds, PTL DEF Spec, SessionKeepsItsSocket, StoppedInstallsNothing, LossIsItsOwn
=============================================================================
