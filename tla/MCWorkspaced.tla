---------------------------- MODULE MCWorkspaced ----------------------------
(***************************************************************************)
(* Workspaced on small instances.                                          *)
(***************************************************************************)
EXTENDS Workspaced

\* Requests that meet, routes and faults against requests, and the sweep.
Mixes == {
    {"user", "poll", "pair"},
    {"user", "wake", "remove", "fail"},
    {"reload", "restart", "sleep"},
    {"reload", "create", "mute"},
    {"user", "reset", "crash"},
    {"user", "turn", "pin", "room"},
    {"user", "idle", "room", "upgrade"}}

\* Turns and pins while a worker is put to sleep for another.
Crowded == {{"user", "turn", "pin", "room"}}
=============================================================================
