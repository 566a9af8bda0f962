---------------------------- MODULE SignalLocks ----------------------------
(***************************************************************************)
(* The two locks of ServerState that handle_connection holds together,     *)
(* friends and online, and the order in which its operations take them.    *)
(* What the operations do while they hold them is in SignalServer; the     *)
(* other locks are always taken alone.                                     *)
(*                                                                         *)
(* tokio's RwLock is fair: requests are granted in the order they came, so *)
(* a reader waits behind a writer that waits.                              *)
(***************************************************************************)
EXTENDS Naturals, Sequences

CONSTANTS
  Conns,
  Pairing   \* some client accepts an invite

VARIABLES
  op,    \* the operation a handler is at
  got,   \* how many of the locks of that operation it holds
  queue  \* the handlers waiting for a lock

vars == <<op, got, queue>>

Lock   == {"friends", "online"}
Opened == {"snapshot", "insert", "announce"}
Asked  == {"update", "pair", "lookup", "checkFriend", "route"}
Closed == {"remove", "farewell"}
Ops    == Opened \cup Asked \cup Closed

Read(l)  == [lock |-> l, mode |-> "read"]
Write(l) == [lock |-> l, mode |-> "write"]

(* The locks of an operation, in the order it takes them; all are held to  *)
(* its end.                                                                *)
Plan ==
  [o \in Ops |->
     CASE o \in {"snapshot", "announce", "farewell"} -> <<Read("friends"), Read("online")>>
       [] o = "update"               -> <<Write("online"), Read("friends")>>
       [] o = "pair"                 -> <<Write("friends")>>
       [] o = "checkFriend"          -> <<Read("friends")>>
       [] o \in {"lookup", "route"}  -> <<Read("online")>>
       [] o \in {"insert", "remove"} -> <<Write("online")>>]

Init ==
  /\ op = [c \in Conns |-> "none"]
  /\ got = [c \in Conns |-> 0]
  /\ queue = [l \in Lock |-> <<>>]

Holds(c, r) == op[c] \in Ops /\ \E i \in 1..got[c] : Plan[op[c]][i] = r
Wants(c)    == Plan[op[c]][got[c] + 1]
Waits(c)    == \E l \in Lock : \E i \in DOMAIN queue[l] : queue[l][i] = c

Free(r) ==
  /\ \A c \in Conns : ~Holds(c, Write(r.lock))
  /\ r.mode = "write" => \A c \in Conns : ~Holds(c, Read(r.lock))

(* An operation asks for its next lock.                                    *)
Ask(c) ==
  /\ op[c] \in Ops /\ got[c] < Len(Plan[op[c]]) /\ ~Waits(c)
  /\ queue' = [queue EXCEPT ![Wants(c).lock] = Append(@, c)]
  /\ UNCHANGED <<op, got>>

(* The first in the queue gets the lock once it is free.                   *)
Grant(l) ==
  /\ queue[l] # <<>>
  /\ Free(Wants(Head(queue[l])))
  /\ got' = [got EXCEPT ![Head(queue[l])] = @ + 1]
  /\ queue' = [queue EXCEPT ![l] = Tail(@)]
  /\ UNCHANGED op

(* What a handler does after an operation.                                 *)
After(o) ==
  CASE o = "snapshot"    -> "insert"
    [] o = "insert"      -> "announce"
    [] o = "remove"      -> "farewell"
    [] o = "farewell"    -> "gone"
    [] o = "pair"        -> "lookup"
    [] o = "checkFriend" -> "route"
    [] OTHER             -> "serving"

(* The operation is done; its guards are dropped.                          *)
Finish(c) ==
  /\ op[c] \in Ops /\ got[c] = Len(Plan[op[c]])
  /\ op' = [op EXCEPT ![c] = After(@)]
  /\ got' = [got EXCEPT ![c] = 0]
  /\ UNCHANGED queue

(* A client connects, sends a request or leaves.                           *)
Client(c) ==
  /\ \/ op[c] = "none" /\ op' = [op EXCEPT ![c] = "snapshot"]
     \/ op[c] = "serving" /\ op' = [op EXCEPT ![c] = "update"]
     \/ op[c] = "serving" /\ Pairing /\ op' = [op EXCEPT ![c] = "pair"]
     \/ op[c] = "serving" /\ op' = [op EXCEPT ![c] = "checkFriend"]
     \/ op[c] = "serving" /\ op' = [op EXCEPT ![c] = "remove"]
  /\ UNCHANGED <<got, queue>>

AllGone ==
  /\ \A c \in Conns : op[c] = "gone"
  /\ UNCHANGED vars

Next ==
  \/ \E c \in Conns : Ask(c) \/ Finish(c) \/ Client(c)
  \/ \E l \in Lock : Grant(l)
  \/ AllGone

Spec == Init /\ [][Next]_vars

(* Tasks are scheduled; no client has to do anything.                      *)
Fairness ==
  /\ \A c \in Conns : WF_vars(Ask(c)) /\ WF_vars(Finish(c))
  /\ \A l \in Lock : WF_vars(Grant(l))

FairSpec == Spec /\ Fairness

-----------------------------------------------------------------------------
(* README: when a device reports a new address its friends are told.  The  *)
(* handler gets past the two locks this takes.                             *)
UpdateIsAnnounced == \A c \in Conns : op[c] = "update" ~> op[c] = "serving"
=============================================================================
