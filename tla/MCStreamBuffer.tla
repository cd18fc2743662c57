--------------------------- MODULE MCStreamBuffer ---------------------------
EXTENDS StreamBuffer

MCSessions == {{"error", "short", "status", "stale", "cancel", "unstaged"},
               {"respawn", "error"},
               {"ignored", "unstaged", "error"}}
=============================================================================
