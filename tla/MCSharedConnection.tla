--------------------------- MODULE MCSharedConnection ---------------------------
(***************************************************************************)
(* The executor thread and one request thread of a process; the threads    *)
(* and the bounds are those of the configuration.                          *)
(***************************************************************************)
EXTENDS SharedConnection

=============================================================================
