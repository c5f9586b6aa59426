-------------------------- MODULE MCBackgroundWork --------------------------
(* A Season of two Episodes, of one File each.                             *)
EXTENDS BackgroundWork

CONSTANTS e1, e2, s1

MCFiles     == {e1, e2}
MCEpisodeOf == [f \in MCFiles |-> f]
MCSeasonOf  == [f \in MCFiles |-> s1]
MCPrio      == [c \in {Generator, Detector} |-> IF c = Generator THEN 0 ELSE 1]
=============================================================================
