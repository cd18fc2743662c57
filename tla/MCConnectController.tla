------------------------- MODULE MCConnectController -------------------------
EXTENDS ConnectController

CONSTANTS d1, d2
TwoDevices == {d1, d2}

(* Two requests, for one device or for two, against a device that ends a    *)
(* session, a network that loses one and a third incident; three for one    *)
(* device against a network that loses each socket.                         *)
Meets(incident) == {"lost", "ended", incident}
Pairs  == {<<d1, d1, None>>, <<d1, d2, None>>}
Mishaps ==
    [meets : {Meets("stop"), Meets("malformed"), Meets("dies"), Meets("loop"),
              {"lost", "keep"}, {"lost", "quit"}, {"lost", "reload"}, {"ended", "reload"},
              {"stop", "reload"}},
     asks  : Pairs]
    \cup [meets : {{"lost"}}, asks : {<<d1, d1, d1>>}]
=============================================================================
