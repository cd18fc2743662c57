---------------------------- MODULE MCPluginLoads ----------------------------
(* Two plugins, one of which may need the other, and the histories that pair what races. *)
EXTENDS PluginLoads

Two   == {"base", "extra"}
Built == [p \in Two |-> IF p = "extra" THEN {"base"} ELSE {}]

World(may, first, broken, cold) == [may |-> may, on |-> first, broken |-> broken, cold |-> cold]

Histories ==
    {World(may, {"base"}, {}, FALSE) :
        may \in {{"restart", "disable"}, {"restart", "logout"}, {"restart", "reload"},
                 {"disable", "idle"}, {"disable", "unsaved"}, {"disable", "reload"},
                 {"disable", "logout", "login"}, {"logout", "login", "reload"}}}
    \cup {World(may, {}, {}, FALSE) :
        may \in {{"enable", "logout"}, {"enable", "disable", "reload"}}}
    \cup {World({"logout", "login"}, {"base"}, {}, TRUE),
          World({"helper"}, Two, {}, FALSE)}
    \cup {World({"logout", "login"}, Two, broken, FALSE) : broken \in SUBSET {"base"}}
=============================================================================
