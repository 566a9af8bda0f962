---------------------------- MODULE FileDelivery ----------------------------
(***************************************************************************)
(* What a file transfer promises its users: a download directory holds     *)
(* nothing or a whole file as the sender had it at one of the attempts,    *)
(* each attempt puts it there at most once, and the sender takes an        *)
(* attempt for completed only after that.                                  *)
(***************************************************************************)
CONSTANTS Attempts, Dirs, None

VARIABLES
  file,       \* the content offered by each attempt
  started,    \* attempts that were made
  place,      \* what each directory holds
  delivered,  \* attempts whose file was put into a directory
  confirmed   \* attempts the sender takes for completed

vars == <<file, started, place, delivered, confirmed>>

Init ==
  /\ started = {}
  /\ place = [d \in Dirs |-> None]
  /\ delivered = {}
  /\ confirmed = {}

Offer(s) ==
  /\ s \notin started
  /\ started' = started \cup {s}
  /\ UNCHANGED <<file, place, delivered, confirmed>>

Deliver(s, d) ==
  /\ s \in started \ delivered
  /\ place' = [place EXCEPT ![d] = file[s]]
  /\ delivered' = delivered \cup {s}
  /\ UNCHANGED <<file, started, confirmed>>

Confirm(s) ==
  /\ s \in delivered \ confirmed
  /\ confirmed' = confirmed \cup {s}
  /\ UNCHANGED <<file, started, place, delivered>>

Next ==
  \E s \in Attempts : Offer(s) \/ Confirm(s) \/ \E d \in Dirs : Deliver(s, d)

Spec == Init /\ [][Next]_vars
=============================================================================
