---------------------------- MODULE MCDiscovery ----------------------------
EXTENDS Discovery, TLC

CONSTANTS me, i1, i2, d, e

TheOrder == {<<i1, i2>>, <<i1, me>>, <<i2, me>>}

(* Both of them and nothing happens to them but lost messages, or one and  *)
(* all that can happen.                                                    *)
PartInit == Init /\ \/ present = {i1} /\ events = 0
                    \/ present = {i1, i2} /\ events = MaxEvents

PartSpec == PartInit /\ [][Next]_vars /\ Fairness
=============================================================================
