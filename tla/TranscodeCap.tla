---------------------------- MODULE TranscodeCap ----------------------------
(***************************************************************************)
(* What transcode governance promises (ADR-0009, ADR-0071): a bounded set  *)
(* of jobs, each of which is in it from its admission to its release, and  *)
(* a job that replaces another takes that job's place in the same step.    *)
(* There is no counter here: PlaybackSessions, which only has a counter,   *)
(* implements this.                                                        *)
(***************************************************************************)
EXTENDS Naturals, FiniteSets

CONSTANTS Jobs,   \* whatever may hold a slot
          Cap     \* the configured cap; 0 is no cap

VARIABLE holders  \* the jobs that hold a slot

Full(H) == Cap > 0 /\ Cardinality(H) >= Cap

Init == holders = {}

Admit(j) == /\ j \notin holders /\ ~Full(holders)
            /\ holders' = holders \cup {j}

Swap(j, k) == /\ k \in holders /\ j \notin holders /\ ~Full(holders \ {k})
              /\ holders' = (holders \ {k}) \cup {j}

Release(R) == holders' = holders \ R

Next == \/ \E j \in Jobs : Admit(j)
        \/ \E j, k \in Jobs : Swap(j, k)
        \/ \E R \in SUBSET holders : Release(R)

Spec == Init /\ [][Next]_holders
=============================================================================
