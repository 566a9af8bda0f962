----------------------------- MODULE Discovery -----------------------------
(***************************************************************************)
(* DiscoveryService on one device: receive_loop with handle_message,       *)
(* cleanup_loop with cleanup_stale_devices, broadcast_loop, and the list   *)
(* get_devices makes.  The other instances announce themselves over UDP.   *)
(*                                                                         *)
(* Time passes in ticks, and only how long ago something was is kept: in   *)
(* the age of a message, of the newest timestamp taken from an instance,   *)
(* of last_seen.  An age is capped where no comparison tells more apart.   *)
(***************************************************************************)
EXTENDS Integers, FiniteSets, SequencesExt

CONSTANTS
  Others,     \* instance ids of the programs on the network
  Self,       \* this one
  Devices,    \* device_id: several instances may run on a device
  Before,     \* order of instance ids, strings of which no two are equal
  Timeout,    \* HEARTBEAT_TIMEOUT
  Interval,   \* broadcast_interval
  Full,       \* FULL_BROADCAST_INTERVAL
  Delay,      \* bound: ticks a message is under way
  Absent,     \* no device, no timestamp
  MaxEvents   \* bound: programs that stop or start, clocks that are set,
              \* settings that change

ASSUME DiscoveryConstantsOK ==
  /\ Self \notin Others /\ IsFiniteSet(Others)
  /\ Absent \notin Others /\ Absent \notin Int
  /\ Absent \notin [ts : Int, recent : BOOLEAN]
  /\ Timeout \in Nat \ {0} /\ Interval \in Nat \ {0} /\ Full \in Nat \ {0}
  /\ Delay \in Nat /\ MaxEvents \in Nat
  /\ \A i, j \in Others \cup {Self} :
       i # j => (<<i, j>> \in Before <=> <<j, i>> \notin Before)
  /\ \A i, j, k \in Others \cup {Self} :
       <<i, j>> \in Before /\ <<j, k>> \in Before /\ i # k => <<i, k>> \in Before

VARIABLES
  present,   \* the other instances there are
  running,   \* the other instances whose program runs
  behind,    \* how far the clock of each was set back
  net,       \* announcements under way, with the age of their timestamp
  devices,   \* age of last_seen of each device, negative if in the future
  recv,      \* recv_timestamps: age of the newest timestamp taken, and
             \* whether that was within MIN_RECV_INTERVAL
  taken,     \* receive_loop: the instance between the two maps
  removing,  \* cleanup_loop: stale_ids
  slept,     \* ticks since the last broadcast
  notified,  \* broadcast_notify
  sinceFull, \* age of last_full_broadcast
  events

vars == <<present, running, behind, net, devices, recv, taken, removing, slept,
          notified, sinceFull, events>>

Cap     == Timeout + Delay + 2
Older(age) == IF age < Cap THEN age + 1 ELSE Cap
Listed  == {i \in Others : devices[i] # Absent}

TypeOK ==
  /\ running \subseteq present /\ present \subseteq Others
  /\ behind \in [Others -> 0..1]
  /\ net \subseteq [from : Others, age : 0..Cap]
  /\ devices \in [Others -> {Absent} \cup -1..Timeout]
  /\ recv \in [Others -> {Absent} \cup [ts : 0..Cap, recent : BOOLEAN]]
  /\ taken \in Others \cup {Absent}
  /\ removing \subseteq Others
  /\ slept \in 0..Interval /\ notified \in 0..1
  /\ sinceFull \in 0..Full \cup {Absent}
  /\ events \in 0..MaxEvents

-----------------------------------------------------------------------------
(* The network and the other programs.  An announcement that is not        *)
(* received in time is lost.                                               *)
Event == events < MaxEvents /\ events' = events + 1

Announce(i) ==
  /\ i \in running
  /\ net' = net \cup {[from |-> i, age |-> behind[i]]}
  /\ UNCHANGED <<present, running, behind, devices, recv, taken, removing,
                 slept, notified, sinceFull, events>>

StopsOrStarts(i) ==
  /\ Event /\ i \in present
  /\ running' = IF i \in running THEN running \ {i} ELSE running \cup {i}
  /\ UNCHANGED <<present, behind, net, devices, recv, taken, removing, slept,
                 notified, sinceFull>>

SetsClock(i) ==
  /\ Event /\ i \in present
  /\ behind' = [behind EXCEPT ![i] = 1 - @]
  /\ UNCHANGED <<present, running, net, devices, recv, taken, removing, slept,
                 notified, sinceFull>>

Bounded(age) == IF age > Timeout THEN Timeout ELSE IF age < -1 THEN -1 ELSE age

(* The clock of this device is set: last_seen is a SystemTime.             *)
OwnClockSet(by) ==
  /\ Event
  /\ devices' = [i \in Others |-> IF devices[i] = Absent THEN Absent
                                  ELSE Bounded(devices[i] + by)]
  /\ UNCHANGED <<present, running, behind, net, recv, taken, removing, slept,
                 notified, sinceFull>>

(* No task stays between the two maps for a tick.                          *)
Tick ==
  /\ taken = Absent /\ removing = {}
  /\ net' = {[m EXCEPT !.age = Older(@)] :
               m \in {n \in net : n.age < behind[n.from] + Delay}}
  /\ devices' = [i \in Others |-> IF devices[i] = Absent THEN Absent
                                  ELSE Bounded(devices[i] + 1)]
  /\ recv' = [i \in Others |-> IF recv[i] = Absent THEN Absent
                ELSE [ts |-> Older(recv[i].ts), recent |-> FALSE]]
  /\ slept' = IF slept < Interval THEN slept + 1 ELSE slept
  /\ sinceFull' = IF sinceFull = Absent \/ sinceFull = Full THEN sinceFull
                  ELSE sinceFull + 1
  /\ UNCHANGED <<present, running, behind, taken, removing, notified, events>>

-----------------------------------------------------------------------------
(* receive_loop.  A message is taken if its timestamp is newer than the    *)
(* newest taken from the instance, and not within half a second of that;   *)
(* within a tick both are possible.                                        *)
Newer(m)  == IF recv[m.from] = Absent THEN TRUE ELSE m.age < recv[m.from].ts
TooSoon(m) == IF recv[m.from] = Absent THEN FALSE ELSE recv[m.from].recent

Receive(m) ==
  /\ m \in net /\ taken = Absent
  /\ net' = net \ {m}
  /\ \/ /\ Newer(m)
        /\ recv' = [recv EXCEPT ![m.from] = [ts |-> m.age, recent |-> TRUE]]
        /\ taken' = m.from
     \/ /\ ~(Newer(m) /\ ~TooSoon(m))
        /\ UNCHANGED <<recv, taken>>
  /\ UNCHANGED <<present, running, behind, devices, removing, slept, notified,
                 sinceFull, events>>

(* Mutant: only a device that is listed is updated.                        *)
InsertKnown ==
  /\ taken # Absent
  /\ devices' = IF devices[taken] = Absent THEN devices
                ELSE [devices EXCEPT ![taken] = 0]
  /\ taken' = Absent
  /\ UNCHANGED <<present, running, behind, net, recv, removing, slept,
                 notified, sinceFull, events>>

(* The two maps have a lock each.                                          *)
Insert ==
  /\ taken # Absent
  /\ devices' = [devices EXCEPT ![taken] = 0]
  /\ taken' = Absent
  /\ UNCHANGED <<present, running, behind, net, recv, removing, slept,
                 notified, sinceFull, events>>

(* cleanup_stale_devices: first the devices, a last_seen in the future is  *)
(* stale too, then the timestamps.                                         *)
(* Mutant: stale is what was never heard of.                               *)
StaleUnheard == {i \in Listed : recv[i] = Absent}
Stale == {i \in Listed : devices[i] >= Timeout \/ devices[i] < 0}

RemoveStale ==
  /\ Stale # {} /\ removing = {}
  /\ devices' = [i \in Others |-> IF i \in Stale THEN Absent ELSE devices[i]]
  /\ removing' = Stale
  /\ UNCHANGED <<present, running, behind, net, recv, taken, slept, notified,
                 sinceFull, events>>

(* Mutant: the timestamps stay.                                            *)
StampsKept(ids)    == recv
WithoutStamps(ids) == [i \in Others |-> IF i \in ids THEN Absent ELSE recv[i]]

RemoveStamps ==
  /\ removing # {}
  /\ recv' = WithoutStamps(removing)
  /\ removing' = {}
  /\ UNCHANGED <<present, running, behind, net, devices, taken, slept,
                 notified, sinceFull, events>>

-----------------------------------------------------------------------------
(* broadcast_loop: wakes after the interval, or when it is notified, which *)
(* MIN_BROADCAST_INTERVAL puts off to another tick.                        *)
(* Mutant: the time of the last full broadcast is not looked at.           *)
OnlyToKnown(forced) == Listed # {}
ToKnown(forced) == ~forced /\ Listed # {} /\ sinceFull \in 0..Full - 1

Broadcast ==
  LET forced == notified = 1
  IN /\ slept = Interval \/ (forced /\ slept > 0)
     /\ slept' = 0 /\ notified' = 0
     /\ sinceFull' = IF ToKnown(forced) THEN sinceFull ELSE 0
     /\ UNCHANGED <<present, running, behind, net, devices, recv, taken,
                    removing, events>>

(* update_device_info, update_broadcast_interval: a Notify keeps one       *)
(* permit.                                                                 *)
Permits(n) == 1

Update ==
  /\ Event
  /\ notified' = Permits(notified)
  /\ UNCHANGED <<present, running, behind, net, devices, recv, taken, removing,
                 slept, sinceFull>>

-----------------------------------------------------------------------------
(* get_devices: this instance, seen now, and what is in the map, in the    *)
(* order the map yields; of the instances of a device, one is kept.        *)
SeenAgo(i) == IF i = Self THEN 0 ELSE devices[i]

(* Mutant: ties are left to the order.                                     *)
ReplacesUntied(i, j) ==
  \/ j = Self
  \/ i # Self /\ SeenAgo(j) < SeenAgo(i)
ShouldReplace(i, j) ==
  \/ j = Self
  \/ /\ i # Self
     /\ \/ SeenAgo(j) < SeenAgo(i)
        \/ SeenAgo(j) = SeenAgo(i) /\ <<j, i>> \in Before

Merge(j, kept, at) ==
  LET same == {i \in kept : at[i] = at[j]}
  IN IF \E i \in same : ~ShouldReplace(i, j) THEN kept
     ELSE (kept \ same) \cup {j}

DedupeDevices(order, at) ==
  LET kept[n \in 0..Len(order)] ==
        IF n = 0 THEN {} ELSE Merge(order[n], kept[n - 1], at)
  IN kept[Len(order)]

(* The local device comes last.                                            *)
Orders == {Append(s, Self) : s \in SetToSeqs(Listed)}

-----------------------------------------------------------------------------
Init ==
  /\ present \in SUBSET Others /\ running \in SUBSET present
  /\ behind = [i \in Others |-> 0]
  /\ net = {}
  /\ devices = [i \in Others |-> Absent]
  /\ recv = [i \in Others |-> Absent]
  /\ taken = Absent /\ removing = {}
  /\ slept = 0 /\ notified = 0
  /\ sinceFull = Absent
  /\ events \in 0..MaxEvents

Cleanup == RemoveStale \/ RemoveStamps

Next ==
  \/ \E i \in Others : Announce(i) \/ StopsOrStarts(i) \/ SetsClock(i)
  \/ \E m \in net : Receive(m)
  \/ \E by \in {-1, 1} : OwnClockSet(by)
  \/ Tick \/ Insert \/ Cleanup \/ Broadcast \/ Update

Spec == Init /\ [][Next]_vars

(* Time passes and the three tasks run; a running program announces itself *)
(* again and again, and of the announcements of an instance again and      *)
(* again one arrives while this device can take it.                        *)
Arrives(i) == \E m \in net : m.from = i /\ Newer(m) /\ Receive(m) /\ taken' = i

Fairness ==
  /\ WF_vars(Tick) /\ WF_vars(Insert) /\ WF_vars(Cleanup) /\ WF_vars(Broadcast)
  /\ \A i \in Others : WF_vars(Announce(i)) /\ SF_vars(Arrives(i))

FairSpec == Spec /\ Fairness

-----------------------------------------------------------------------------
(* A timestamp is kept only for a device that is listed, but while one of  *)
(* the two loops is between the two maps: nothing is refused because of a  *)
(* device that is gone (discovery.rs, handle_message and                   *)
(* cleanup_stale_devices).                                                 *)
NoOrphanStamp ==
  \A i \in Others : recv[i] # Absent =>
    devices[i] # Absent \/ taken = i \/ i \in removing

(* Wherever the instances run, the list does not depend on the order in    *)
(* which the map yields them, has one instance of each device, and of this *)
(* device this one (dedupe_devices).                                       *)
OneListForAll ==
  \A at \in [Others \cup {Self} -> Devices] :
    \E list \in SUBSET (Others \cup {Self}) :
      /\ \A order \in Orders : DedupeDevices(order, at) = list
      /\ Self \in list
      /\ \A i, j \in list : at[i] = at[j] => i = j

(* An instance that has stopped leaves the list (HEARTBEAT_TIMEOUT).       *)
StoppedLeaves == \A i \in Others : i \notin running ~> (i \notin Listed \/ i \in running)

(* An instance that keeps running comes back to the list, also after its   *)
(* clock was set back and its timestamps look old.                         *)
RunningIsListed == \A i \in Others : i \in running ~> (i \in Listed \/ i \notin running)

(* Whoever is new on the network hears of this device: it never stops      *)
(* broadcasting to all (FULL_BROADCAST_INTERVAL).                          *)
NewcomersHear == []<>(sinceFull = 0)

=============================================================================
