---------------------------- MODULE MCWebSession ----------------------------
(* Three sessions, the one the tab is loaded with included, three calls, a *)
(* reload and two addresses: a login meets the end of an earlier logout, a *)
(* review, or the check of the session before it.                          *)
EXTENDS WebSession
=============================================================================
