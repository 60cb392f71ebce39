---------------------------- MODULE MCIoWatcher ----------------------------
(* The runs of IoWatcher. *)
EXTENDS IoWatcher
=============================================================================
