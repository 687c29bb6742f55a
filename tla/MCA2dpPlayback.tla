--------------------------- MODULE MCA2dpPlayback ---------------------------
(* Instances of A2dpPlayback for TLC. *)
EXTENDS A2dpPlayback

CONSTANTS app1, app2, dbus

ThreeThreads == {app1, app2, dbus}
=============================================================================
