--------------------------- MODULE MCServiceCards ---------------------------
(* Two or three services, of which one has a session, in the order they were added. *)
EXTENDS ServiceCards
CONSTANTS server, dav
SavedServices == <<server, dav>>
=============================================================================
