-------------------------- MODULE SignalAdmission --------------------------
(***************************************************************************)
(* How the signalling server counts connections: handle_connection adds    *)
(* itself to total_connections (an atomic counter) and to the entry of its *)
(* address in connections_per_ip (a map under a lock), refuses what is     *)
(* over a limit, and takes itself out at each of its returns.  What a      *)
(* connection does in between is in SignalServer.                          *)
(*                                                                         *)
(* A missing entry of connections_per_ip is a zero.  The names of this     *)
(* module differ from those of SignalServer, so that SignalServerProofs    *)
(* can be about both.                                                      *)
(***************************************************************************)
EXTENDS Integers, FiniteSets

CONSTANTS
  Streams,   \* connections accepted by the listener
  Ips,       \* addresses they come from
  Ip,        \* the address of a connection
  MaxTotal,  \* max_connections
  MaxPerIp   \* max_connections_per_ip

ASSUME AdmissionConstantsOK ==
  /\ IsFiniteSet(Streams)
  /\ Ip \in [Streams -> Ips]
  /\ MaxTotal \in Nat /\ MaxPerIp \in Nat

VARIABLES
  stage,  \* where handle_connection is
  total,  \* total_connections
  perIp   \* connections_per_ip

admissionVars == <<stage, total, perIp>>

Stages == {"none", "counted", "refuse", "served", "discounted", "gone"}

(* Types; the counters, unsigned in the code, never go below zero.         *)
AdmissionTypeOK ==
  /\ stage \in [Streams -> Stages]
  /\ total \in Nat
  /\ perIp \in [Ips -> Nat]

AdmissionInit ==
  /\ stage = [c \in Streams |-> "none"]
  /\ total = 0
  /\ perIp = [i \in Ips |-> 0]

GoesOn(c, from, to) == stage[c] = from /\ stage' = [stage EXCEPT ![c] = to]

(* fetch_add, which returns what was there before.                         *)
Count(c) ==
  /\ GoesOn(c, "none", IF total >= MaxTotal THEN "refuse" ELSE "counted")
  /\ total' = total + 1
  /\ UNCHANGED perIp

(* Over one of the limits: fetch_sub and return.                           *)
Refuse(c) ==
  /\ GoesOn(c, "refuse", "gone")
  /\ total' = total - 1
  /\ UNCHANGED perIp

(* Mutants: one connection too many; a refusal that does not give back     *)
(* what was counted.                                                       *)
CountIpInclusive(c) ==
  LET full == perIp[Ip[c]] > MaxPerIp IN
  /\ GoesOn(c, "counted", IF full THEN "refuse" ELSE "served")
  /\ perIp' = IF full THEN perIp ELSE [perIp EXCEPT ![Ip[c]] = @ + 1]
  /\ UNCHANGED total

CountIpKeeps(c) ==
  LET full == perIp[Ip[c]] >= MaxPerIp IN
  /\ GoesOn(c, "counted", IF full THEN "gone" ELSE "served")
  /\ perIp' = IF full THEN perIp ELSE [perIp EXCEPT ![Ip[c]] = @ + 1]
  /\ UNCHANGED total

(* Under connections_per_ip.write.                                         *)
CountIp(c) ==
  LET full == perIp[Ip[c]] >= MaxPerIp IN
  /\ GoesOn(c, "counted", IF full THEN "refuse" ELSE "served")
  /\ perIp' = IF full THEN perIp ELSE [perIp EXCEPT ![Ip[c]] = @ + 1]
  /\ UNCHANGED total

(* decrement_connection_counts, at a failed registration or at the end:    *)
(* the total first, then the entry under its lock.                         *)
Discount(c) ==
  /\ GoesOn(c, "served", "discounted")
  /\ total' = total - 1
  /\ UNCHANGED perIp

(* saturating_sub; an entry that reaches zero is removed.                  *)
DiscountIp(c) ==
  /\ GoesOn(c, "discounted", "gone")
  /\ perIp' = [perIp EXCEPT ![Ip[c]] = IF @ = 0 THEN 0 ELSE @ - 1]
  /\ UNCHANGED total

AllLeft ==
  /\ \A c \in Streams : stage[c] = "gone"
  /\ UNCHANGED admissionVars

AdmissionNext ==
  \/ \E c \in Streams :
       \/ Count(c) \/ Refuse(c) \/ CountIp(c) \/ Discount(c) \/ DiscountIp(c)
  \/ AllLeft

AdmissionSpec == AdmissionInit /\ [][AdmissionNext]_admissionVars

-----------------------------------------------------------------------------
(* How many of the connections in D are at one of the stages in P.         *)
Among(D, P) == Cardinality({c \in D : stage[c] \in P})
From(i) == {c \in Streams : Ip[c] = i}

(* The limits hold for the connections being served, however their         *)
(* admissions and departures interleave.                                   *)
WithinLimits ==
  /\ Among(Streams, {"served"}) <= MaxTotal
  /\ \A i \in Ips : Among(From(i), {"served"}) <= MaxPerIp

(* The counters are exact: no path out of handle_connection counts a       *)
(* connection twice or forgets to give it back.                            *)
CountsExact ==
  /\ total = Among(Streams, {"counted", "refuse", "served"})
  /\ \A i \in Ips : perIp[i] = Among(From(i), {"served", "discounted"})
=============================================================================
