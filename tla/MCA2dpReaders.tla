--------------------------- MODULE MCA2dpReaders ---------------------------
(* Instance of A2dpReaders for TLC: the registry together with its readers. *)
EXTENDS A2dpReaders, MCA2dpCtl

CONSTANTS app, torn

OneReader == {app}
=============================================================================
