--------------------------- MODULE MCSignalServer ---------------------------
(* Two devices, the first of which connects twice. *)
EXTENDS SignalServer, TLC

CONSTANTS a, b, c1, c2, c3, k1, m1, m2, home, away

TwoAndBack == (c1 :> a) @@ (c2 :> b) @@ (c3 :> a)
(* The connections of the first device may change their parts.            *)
Either     == Permutations({c1, c3})
=============================================================================
