---------------------------- MODULE MCNoteStore ----------------------------
(* Small instances of NoteStore for TLC.                                   *)
EXTENDS NoteStore, TLC
=============================================================================
