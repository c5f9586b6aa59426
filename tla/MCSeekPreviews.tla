--------------------------- MODULE MCSeekPreviews ---------------------------
(* Two Files of one Library, a set of two sheets, and a handful of things  *)
(* that happen to them.                                                    *)
EXTENDS SeekPreviews

CONSTANTS f1, f2, tv

MCFiles == {f1, f2}
MCLibraryOf == [f \in MCFiles |-> tv]
=============================================================================
