----------------------------- MODULE MCAppLock -----------------------------
(* Single instance for TLC: a holder, the launch that takes over from it   *)
(* and one that races it.                                                  *)
EXTENDS AppLock

Launches == {1, 2, 3}
TwoLinks == {{1, 3}}
Leaving  == {1, 2}
Broken   == {1}
Mishaps  == {{}, {"crash", "late"}, {"thread"}, {"earlier"}}
=============================================================================
