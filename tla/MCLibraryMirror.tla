--------------------------- MODULE MCLibraryMirror ---------------------------
(* One sweep over a Library of two Titles and two Media ids, read one row *)
(* at a time; or, in the run of the torn page, of two Titles, read whole.  *)
EXTENDS LibraryMirror
=============================================================================
