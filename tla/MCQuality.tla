----------------------------- MODULE MCQuality -----------------------------
(* Instances of QualityFilterHandler for TLC. *)
EXTENDS QualityFilterHandler

Rates(base, upper, instant) ==
    [l \in Layer |->
        [rate |-> IF l[1] = 0 THEN base + l[2] ELSE upper,
         instant |-> IF l[1] = 0 THEN base + l[2] ELSE instant]]

\* Both streams are sent; the upper one has just stopped; it has stopped.
MCProfiles == {Rates(10, 30, 30), Rates(10, 30, 0), Rates(10, 0, 0)}
=============================================================================
