----------------------------- MODULE MCDashboard -----------------------------
(***************************************************************************)
(* Small instances of DashboardSystem for TLC.                             *)
(***************************************************************************)
EXTENDS DashboardSystem

\* The composites, a command that does not parse, a single line.
OneOfEach == <<"unlock", "bad", "plain", "pause", "resume">>
ThreeSessions == {<<2, 1>>, <<3>>, <<4, 5>>}
OnePlain == <<"plain">>
OneSession == {<<1>>}
==============================================================================
