--------------------------- MODULE MCEnrichment ---------------------------
(* Two providers: a policy led by each, one of which the other's policy    *)
(* cannot reach, and one that is off.                                      *)
EXTENDS Enrichment

CONSTANTS a, b

MCPolicies == { [lead |-> a, reach |-> {a, b}], [lead |-> b, reach |-> {b}],
                [lead |-> Off, reach |-> {}] }
=============================================================================
