------------------------- MODULE MCPlaylistEditing -------------------------
(* A small instance of the playlist dialogs: 0 is the empty string, 1 the name *)
(* of a playlist, 2 and 3 are those of files.                               *)
EXTENDS PlaylistEditing
=============================================================================
