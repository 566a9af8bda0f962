------------------------- MODULE MCSignalAdmission -------------------------
(* Three connections from one address and two from another. *)
EXTENDS SignalAdmission, TLC

CONSTANTS c1, c2, c3, c4, c5, near, far

ThreeAndTwo == [c \in {c1, c2, c3, c4, c5} |-> IF c \in {c1, c2, c3} THEN near ELSE far]
=============================================================================
