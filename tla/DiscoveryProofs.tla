-------------------------- MODULE DiscoveryProofs --------------------------
(***************************************************************************)
(* Proof that handle_message and cleanup_stale_devices, which take the two *)
(* maps one after the other, leave no timestamp without its device, for    *)
(* any number of instances and any length of the timeout; and that the     *)
(* list get_devices makes does not depend on the order of the map.         *)
(***************************************************************************)
EXTENDS Discovery, QueueLemmas, FiniteSetTheorems, TLAPS

Ages   == {Absent} \cup -1..Timeout
Stamp  == [ts : 0..Cap, recent : BOOLEAN]
Stamps == {Absent} \cup Stamp

IInv == TypeOK /\ NoOrphanStamp

-----------------------------------------------------------------------------
LEMMA CapIsNat == Cap \in Nat /\ Cap > 0
  BY DiscoveryConstantsOK DEF DiscoveryConstantsOK, Cap

LEMMA OlderStays == \A age \in 0..Cap : Older(age) \in 0..Cap
  BY CapIsNat DEF Older

LEMMA BoundedIsAge ==
  \A age \in -1..Timeout, by \in {-1, 1} : Bounded(age + by) \in -1..Timeout
  BY DiscoveryConstantsOK DEF DiscoveryConstantsOK, Bounded

LEMMA AgeIsNotAbsent == \A age \in -1..Timeout : age # Absent
  BY DiscoveryConstantsOK DEF DiscoveryConstantsOK

LEMMA StampIsNotAbsent == \A ts \in 0..Cap, b \in BOOLEAN :
                             [ts |-> ts, recent |-> b] # Absent
<1> SUFFICES ASSUME NEW ts \in 0..Cap, NEW b \in BOOLEAN
             PROVE  [ts |-> ts, recent |-> b] # Absent
  OBVIOUS
<1>1. [ts |-> ts, recent |-> b] \in [ts : Int, recent : BOOLEAN]
  BY CapIsNat
<1> QED BY <1>1, DiscoveryConstantsOK DEF DiscoveryConstantsOK

(* Ages that all move by one keep the map's keys.                          *)
LEMMA AgesMove ==
  ASSUME TypeOK, NEW by \in {-1, 1},
         devices' = [i \in Others |-> IF devices[i] = Absent THEN Absent
                                      ELSE Bounded(devices[i] + by)]
  PROVE  /\ devices' \in [Others -> Ages]
         /\ \A i \in Others : devices'[i] = Absent <=> devices[i] = Absent
<1>1. ASSUME NEW i \in Others, devices[i] # Absent
      PROVE  Bounded(devices[i] + by) \in -1..Timeout
  BY <1>1, BoundedIsAge DEF TypeOK
<1> QED BY <1>1, AgeIsNotAbsent DEF Ages

-----------------------------------------------------------------------------
LEMMA InitIsSound == Init => IInv
<1> SUFFICES ASSUME Init PROVE IInv
  OBVIOUS
<1>1. TypeOK
  BY DiscoveryConstantsOK DEF DiscoveryConstantsOK, Init, TypeOK
<1>2. NoOrphanStamp
  BY DEF Init, NoOrphanStamp
<1> QED BY <1>1, <1>2 DEF IInv

(* What touches neither map.                                               *)
LEMMA MapsStay ==
  ASSUME IInv, UNCHANGED <<devices, recv, taken, removing>>
  PROVE  NoOrphanStamp'
  BY DEF IInv, NoOrphanStamp

LEMMA WorldKeeps ==
  ASSUME IInv, NEW i \in Others,
         Announce(i) \/ StopsOrStarts(i) \/ SetsClock(i)
  PROVE  IInv'
<1> USE DEF TypeOK
<1>1. TypeOK
  BY DEF IInv
<1>2. CASE Announce(i)
  <2>1. behind[i] \in 0..Cap
    BY <1>1, DiscoveryConstantsOK DEF DiscoveryConstantsOK, Cap
  <2> QED BY <1>1, <1>2, <2>1, MapsStay DEF Announce, IInv
<1>3. CASE StopsOrStarts(i)
  BY <1>1, <1>3, DiscoveryConstantsOK, MapsStay
     DEF DiscoveryConstantsOK, StopsOrStarts, Event, IInv
<1>4. CASE SetsClock(i)
  BY <1>1, <1>4, DiscoveryConstantsOK, MapsStay
     DEF DiscoveryConstantsOK, SetsClock, Event, IInv
<1> QED BY <1>2, <1>3, <1>4

(* Time: no task is between the maps, and both keep their keys.            *)
LEMMA TickKeeps == ASSUME IInv, Tick PROVE IInv'
<1>1. TypeOK /\ NoOrphanStamp
  BY DEF IInv
<1>2. /\ devices' \in [Others -> Ages]
      /\ \A i \in Others : devices'[i] = Absent <=> devices[i] = Absent
  <2>1. devices' = [i \in Others |-> IF devices[i] = Absent THEN Absent
                                     ELSE Bounded(devices[i] + 1)]
    BY DEF Tick
  <2> QED BY <1>1, <2>1, AgesMove
<1>3. /\ recv' \in [Others -> Stamps]
      /\ \A i \in Others : recv[i] = Absent => recv'[i] = Absent
  <2>1. ASSUME NEW i \in Others, recv[i] # Absent
        PROVE  [ts |-> Older(recv[i].ts), recent |-> FALSE] \in Stamp
    BY <1>1, <2>1, OlderStays DEF TypeOK, Stamp
  <2> QED BY <2>1 DEF Tick, Stamps
<1>4. net' \subseteq [from : Others, age : 0..Cap]
  <2>1. ASSUME NEW m \in net
        PROVE  [m EXCEPT !.age = Older(@)] \in [from : Others, age : 0..Cap]
    BY <1>1, OlderStays DEF TypeOK
  <2> QED BY <2>1 DEF Tick
<1>5. /\ slept' \in 0..Interval /\ sinceFull' \in 0..Full \cup {Absent}
      /\ UNCHANGED <<present, running, behind, taken, removing, notified, events>>
      /\ taken = Absent /\ removing = {}
  <2>1. slept' \in 0..Interval
    BY <1>1, DiscoveryConstantsOK DEF DiscoveryConstantsOK, TypeOK, Tick
  <2>2. sinceFull' \in 0..Full \cup {Absent}
    <3>1. CASE sinceFull = Absent \/ sinceFull = Full
      BY <1>1, <3>1 DEF TypeOK, Tick
    <3>2. CASE ~(sinceFull = Absent \/ sinceFull = Full)
      <4>1. sinceFull \in 0..Full /\ sinceFull' = sinceFull + 1 /\ sinceFull # Full
        BY <1>1, <3>2 DEF TypeOK, Tick
      <4> QED BY <4>1, DiscoveryConstantsOK DEF DiscoveryConstantsOK
    <3> QED BY <3>1, <3>2
  <2> QED BY <2>1, <2>2 DEF Tick
<1>6. TypeOK'
  BY <1>1, <1>2, <1>3, <1>4, <1>5 DEF TypeOK, Ages, Stamps, Stamp
<1>7. NoOrphanStamp'
  BY <1>1, <1>2, <1>3, <1>5, DiscoveryConstantsOK
     DEF DiscoveryConstantsOK, NoOrphanStamp
<1> QED BY <1>6, <1>7 DEF IInv

(* receive_loop: the timestamp first, the device later, and taken says so  *)
(* in between.                                                             *)
LEMMA ReceiveKeeps ==
  ASSUME IInv, NEW m \in net, Receive(m)
  PROVE  IInv'
<1>1. TypeOK /\ NoOrphanStamp /\ m.from \in Others /\ m.age \in 0..Cap
  BY DEF IInv, TypeOK
<1>2. CASE recv' = [recv EXCEPT ![m.from] = [ts |-> m.age, recent |-> TRUE]]
           /\ taken' = m.from
  <2>1. [ts |-> m.age, recent |-> TRUE] \in Stamp
    BY <1>1 DEF Stamp
  <2>2. recv' \in [Others -> Stamps]
    BY <1>1, <1>2, <2>1 DEF TypeOK, Stamps, Stamp
  <2>3. TypeOK'
    BY <1>1, <1>2, <2>2 DEF TypeOK, Receive, Stamps, Stamp
  <2>4. NoOrphanStamp'
    <3> SUFFICES ASSUME NEW i \in Others, recv'[i] # Absent, i # m.from
                 PROVE  devices'[i] # Absent \/ i \in removing'
      BY <1>2 DEF NoOrphanStamp
    <3>1. recv'[i] = recv[i] /\ taken = Absent
          /\ devices' = devices /\ removing' = removing
      BY <1>1, <1>2 DEF TypeOK, Receive
    <3> QED BY <1>1, <3>1, DiscoveryConstantsOK
            DEF DiscoveryConstantsOK, NoOrphanStamp
  <2> QED BY <2>3, <2>4 DEF IInv
<1>3. CASE UNCHANGED <<recv, taken>>
  BY <1>1, <1>3, MapsStay DEF Receive, TypeOK, IInv
<1> QED BY <1>2, <1>3 DEF Receive

LEMMA InsertKeeps == ASSUME IInv, Insert PROVE IInv'
<1>1. TypeOK /\ NoOrphanStamp /\ taken \in Others
  BY DEF IInv, TypeOK, Insert
<1>2. /\ devices' \in [Others -> Ages]
      /\ devices'[taken] # Absent
      /\ \A i \in Others \ {taken} : devices'[i] = devices[i]
  BY <1>1, AgeIsNotAbsent, DiscoveryConstantsOK
     DEF DiscoveryConstantsOK, TypeOK, Insert, Ages
<1>3. TypeOK'
  BY <1>1, <1>2 DEF TypeOK, Insert, Ages
<1>4. NoOrphanStamp'
  BY <1>1, <1>2 DEF NoOrphanStamp, Insert
<1> QED BY <1>3, <1>4 DEF IInv

(* cleanup_loop: the devices first, their timestamps later, and removing   *)
(* names them in between.                                                  *)
LEMMA CleanupKeeps == ASSUME IInv, Cleanup PROVE IInv'
<1>1. TypeOK /\ NoOrphanStamp
  BY DEF IInv
<1>2. CASE RemoveStale
  <2>1. TypeOK'
    BY <1>1, <1>2 DEF TypeOK, RemoveStale, Stale, Listed
  <2>2. NoOrphanStamp'
    BY <1>1, <1>2 DEF NoOrphanStamp, RemoveStale
  <2> QED BY <2>1, <2>2 DEF IInv
<1>3. CASE RemoveStamps
  <2>1. TypeOK'
    BY <1>1, <1>3 DEF TypeOK, RemoveStamps, WithoutStamps
  <2>2. NoOrphanStamp'
    BY <1>1, <1>3 DEF NoOrphanStamp, RemoveStamps, WithoutStamps
  <2> QED BY <2>1, <2>2 DEF IInv
<1> QED BY <1>2, <1>3 DEF Cleanup

LEMMA OwnKeeps ==
  ASSUME IInv, \/ \E by \in {-1, 1} : OwnClockSet(by)
               \/ Broadcast \/ Update
  PROVE  IInv'
<1>1. TypeOK /\ NoOrphanStamp
  BY DEF IInv
<1>2. CASE \E by \in {-1, 1} : OwnClockSet(by)
  <2>1. PICK by \in {-1, 1} : OwnClockSet(by)
    BY <1>2
  <2>2. /\ devices' \in [Others -> Ages]
        /\ \A i \in Others : devices'[i] = Absent <=> devices[i] = Absent
    BY <1>1, <2>1, AgesMove DEF OwnClockSet
  <2>3. TypeOK'
    BY <1>1, <2>1, <2>2, DiscoveryConstantsOK
       DEF DiscoveryConstantsOK, TypeOK, OwnClockSet, Event, Ages
  <2>4. NoOrphanStamp'
    BY <1>1, <2>1, <2>2 DEF NoOrphanStamp, OwnClockSet
  <2> QED BY <2>3, <2>4 DEF IInv
<1>3. CASE Broadcast
  <2>1. TypeOK'
    BY <1>1, <1>3, DiscoveryConstantsOK
       DEF DiscoveryConstantsOK, TypeOK, Broadcast
  <2> QED BY <1>3, <2>1, MapsStay DEF Broadcast, IInv
<1>4. CASE Update
  <2>1. TypeOK'
    BY <1>1, <1>4, DiscoveryConstantsOK
       DEF DiscoveryConstantsOK, TypeOK, Update, Event, Permits
  <2> QED BY <1>4, <2>1, MapsStay DEF Update, IInv
<1> QED BY <1>2, <1>3, <1>4

LEMMA StepKeeps == IInv /\ [Next]_vars => IInv'
<1> SUFFICES ASSUME IInv, [Next]_vars PROVE IInv'
  OBVIOUS
<1>1. CASE UNCHANGED vars
  BY <1>1 DEF vars, IInv, TypeOK, NoOrphanStamp
<1>2. CASE \E i \in Others : Announce(i) \/ StopsOrStarts(i) \/ SetsClock(i)
  BY <1>2, WorldKeeps
<1>3. CASE \E m \in net : Receive(m)
  BY <1>3, ReceiveKeeps
<1>4. CASE Tick
  BY <1>4, TickKeeps
<1>5. CASE Insert
  BY <1>5, InsertKeeps
<1>6. CASE Cleanup
  BY <1>6, CleanupKeeps
<1>7. CASE (\E by \in {-1, 1} : OwnClockSet(by)) \/ Broadcast \/ Update
  BY <1>7, OwnKeeps
<1> QED BY <1>1, <1>2, <1>3, <1>4, <1>5, <1>6, <1>7 DEF Next

-----------------------------------------------------------------------------
(* get_devices.  The list is what should_replace_device ranks first of     *)
(* each device: a strict total order of what is shown, as no two instance  *)
(* ids are equal.                                                          *)
Shown == Listed \cup {Self}

Best(S, at) ==
  {j \in S : \A i \in S \ {j} : at[i] = at[j] => ShouldReplace(i, j)}

LEMMA SeenIsInt == TypeOK => \A i \in Shown : SeenAgo(i) \in Int
<1> SUFFICES ASSUME TypeOK, NEW i \in Shown PROVE SeenAgo(i) \in Int
  OBVIOUS
<1>1. CASE i = Self
  BY <1>1 DEF SeenAgo
<1>2. CASE i # Self
  BY <1>2, DiscoveryConstantsOK
     DEF DiscoveryConstantsOK, Shown, Listed, TypeOK, SeenAgo
<1> QED BY <1>1, <1>2

LEMMA ReplaceIsTotal ==
  ASSUME TypeOK, NEW i \in Shown, NEW j \in Shown, i # j
  PROVE  ShouldReplace(i, j) <=> ~ShouldReplace(j, i)
<1>1. i \in Others \cup {Self} /\ j \in Others \cup {Self}
  BY DEF Shown, Listed
<1>2. <<i, j>> \in Before <=> <<j, i>> \notin Before
  BY <1>1, DiscoveryConstantsOK DEF DiscoveryConstantsOK
<1>3. SeenAgo(i) \in Int /\ SeenAgo(j) \in Int
  BY SeenIsInt
<1> QED BY <1>2, <1>3 DEF ShouldReplace

LEMMA ReplaceIsTransitive ==
  ASSUME TypeOK, NEW i \in Shown, NEW j \in Shown, NEW k \in Shown,
         i # j, j # k, ShouldReplace(i, j), ShouldReplace(j, k)
  PROVE  ShouldReplace(i, k)
<1>1. i # k
  BY ReplaceIsTotal
<1>2. <<k, j>> \in Before /\ <<j, i>> \in Before => <<k, i>> \in Before
  <2>1. i \in Others \cup {Self} /\ j \in Others \cup {Self} /\ k \in Others \cup {Self}
    BY DEF Shown, Listed
  <2> QED BY <1>1, <2>1, DiscoveryConstantsOK DEF DiscoveryConstantsOK
<1>3. SeenAgo(i) \in Int /\ SeenAgo(j) \in Int /\ SeenAgo(k) \in Int
  BY SeenIsInt
<1> QED BY <1>2, <1>3 DEF ShouldReplace

(* One of each device, and one for each device that is shown.              *)
LEMMA BestIsUnique ==
  ASSUME TypeOK, NEW S \in SUBSET Shown, NEW at,
         NEW b \in Best(S, at), NEW c \in Best(S, at), at[b] = at[c]
  PROVE  b = c
<1> SUFFICES ASSUME b # c PROVE FALSE
  OBVIOUS
<1>1. ShouldReplace(b, c) /\ ShouldReplace(c, b) /\ b \in Shown /\ c \in Shown
  BY DEF Best
<1> QED BY <1>1, ReplaceIsTotal

Covers(S, at) == \A i \in S : \E b \in Best(S, at) : at[b] = at[i]

LEMMA MergeIsBest ==
  ASSUME TypeOK, NEW at, NEW S \in SUBSET Shown, NEW j \in Shown, j \notin S,
         Covers(S, at)
  PROVE  /\ Merge(j, Best(S, at), at) = Best(S \cup {j}, at)
         /\ Covers(S \cup {j}, at)
<1> DEFINE kept == Best(S, at)
           same == {i \in kept : at[i] = at[j]}
           all  == S \cup {j}
<1>0. kept \subseteq S /\ same \subseteq kept
  BY DEF Best
<1>1. CASE \E i \in same : ~ShouldReplace(i, j)
  <2>1. PICK i \in same : ~ShouldReplace(i, j)
    BY <1>1
  <2>2. i \in S /\ i \in kept /\ i # j /\ i \in Shown /\ at[i] = at[j]
    BY <1>0
  <2>3. ShouldReplace(j, i)
    BY <2>1, <2>2, ReplaceIsTotal
  <2>4. ASSUME NEW x \in Best(all, at) PROVE x \in kept
    <3>1. x # j
      BY <2>1, <2>2 DEF Best
    <3> QED BY <3>1 DEF Best
  <2>5. ASSUME NEW b \in kept PROVE b \in Best(all, at)
    <3>1. at[j] = at[b] => b = i
      BY <2>2, BestIsUnique
    <3> QED BY <1>0, <2>3, <3>1 DEF Best
  <2>6. Merge(j, kept, at) = kept
    BY <1>1 DEF Merge
  <2>7. Best(all, at) = kept
    BY <2>4, <2>5
  <2>8. Covers(all, at)
    BY <2>2, <2>7 DEF Covers
  <2> QED BY <2>6, <2>7, <2>8
<1>2. CASE ~\E i \in same : ~ShouldReplace(i, j)
  <2>1. Merge(j, kept, at) = (kept \ same) \cup {j}
    BY <1>2 DEF Merge
  <2>2. ASSUME NEW x \in Best(all, at), x # j PROVE x \in kept \ same
    <3>1. x \in kept
      BY <2>2 DEF Best
    <3>2. at[j] = at[x] => ShouldReplace(j, x)
      BY <2>2 DEF Best
    <3>3. x \in Shown /\ (x \in same => ShouldReplace(x, j))
      BY <1>0, <1>2, <3>1
    <3> QED BY <2>2, <3>1, <3>2, <3>3, ReplaceIsTotal
  <2>3. ASSUME NEW x \in kept \ same PROVE x \in Best(all, at)
    <3>1. at[j] # at[x]
      OBVIOUS
    <3> QED BY <3>1 DEF Best
  <2>4. j \in Best(all, at)
    <3>1. ASSUME NEW i \in S, at[i] = at[j] PROVE ShouldReplace(i, j)
      <4>1. PICK b \in kept : at[b] = at[i]
        BY DEF Covers
      <4>2. ShouldReplace(b, j) /\ b # j /\ b \in Shown
        BY <1>0, <1>2, <3>1, <4>1
      <4>3. i # b => ShouldReplace(i, b)
        BY <4>1 DEF Best
      <4> QED BY <4>2, <4>3, ReplaceIsTransitive
    <3> QED BY <3>1 DEF Best
  <2>5. Best(all, at) = (kept \ same) \cup {j}
    BY <2>2, <2>3, <2>4
  <2>6. ASSUME NEW i \in all PROVE \E b \in Best(all, at) : at[b] = at[i]
    <3>1. CASE at[i] = at[j]
      BY <2>4, <3>1
    <3>2. CASE at[i] # at[j]
      <4>1. PICK b \in kept : at[b] = at[i]
        BY <3>2 DEF Covers
      <4> QED BY <2>5, <3>2, <4>1
    <3> QED BY <3>1, <3>2
  <2> QED BY <2>1, <2>5, <2>6 DEF Covers
<1> QED BY <1>1, <1>2

(* Whatever the order: what has been merged is the best of the prefix.     *)
LEMMA DedupeIsBest ==
  ASSUME TypeOK, NEW at, NEW order \in Seq(Shown),
         \A m, n \in 1..Len(order) : order[m] = order[n] => m = n
  PROVE  DedupeDevices(order, at) = Best({order[n] : n \in 1..Len(order)}, at)
<1> DEFINE L == Len(order)
           Prefix(n) == {order[m] : m \in 1..n}
           Step(g, n) == IF n = 0 THEN {} ELSE Merge(order[n], g[n - 1], at)
           Follows(g) == g = [n \in 0..L |-> Step(g, n)]
<1>0. L \in Nat /\ \A n \in 1..L : order[n] \in Shown
  OBVIOUS
<1>1. \E g : Follows(g)
  <2> DEFINE X == SUBSET Shown
             step == [n \in 1..L |-> [kept \in X |-> Merge(order[n], kept, at)]]
  <2>1. ASSUME NEW n \in 1..L, NEW kept \in X PROVE Merge(order[n], kept, at) \in X
    BY <1>0 DEF Merge
  <2>2. step \in StepFunctions(L, X) /\ {} \in X
    BY <2>1 DEF StepFunctions
  <2>3. ASSUME NEW n \in 1..L, NEW kept \in X
        PROVE  step[n][kept] = Merge(order[n], kept, at)
    OBVIOUS
  <2> HIDE DEF X, step, L
  <2>4. PICK g : GoesBy(g, L, X, {}, step)
    BY <1>0, <2>2, StepByStep
  <2>5. ASSUME NEW n \in 0..L PROVE g[n] = Step(g, n)
    <3>1. CASE n = 0
      BY <2>4, <3>1 DEF GoesBy
    <3>2. CASE n # 0
      <4>1. n \in 1..L /\ n - 1 \in 0..L
        BY <1>0, <3>2
      <4> QED BY <2>3, <2>4, <3>2, <4>1 DEF GoesBy
    <3> QED BY <3>1, <3>2
  <2>6. g = [n \in 0..L |-> g[n]]
    BY <2>4 DEF GoesBy
  <2> HIDE DEF Step
  <2> QED BY <2>5, <2>6
<1> DEFINE kept == CHOOSE g : Follows(g)
<1>2. Follows(kept)
  <2> HIDE DEF Follows
  <2> QED BY <1>1
<1>3. DedupeDevices(order, at) = kept[L]
  BY DEF DedupeDevices
<1> HIDE DEF kept
<1>4. \A n \in 0..L : kept[n] = Step(kept, n)
  BY <1>2
<1> DEFINE Good(n) == kept[n] = Best(Prefix(n), at) /\ Covers(Prefix(n), at)
           T == {n \in 0..L : ~Good(n)}
<1>5. T = {}
  <2> SUFFICES ASSUME T # {} PROVE FALSE
    OBVIOUS
  <2>1. PICK k \in T : \A n \in T : k <= n
    <3>1. T \in SUBSET Nat
      BY <1>0
    <3> HIDE DEF T
    <3> QED BY <3>1, Least
  <2>2. Good(0)
    <3>1. kept[0] = {} /\ Prefix(0) = {}
      BY <1>0, <1>4
    <3> QED BY <3>1 DEF Best, Covers
  <2>3. k \in 1..L /\ k - 1 \in 0..L /\ k # 0
    <3> HIDE DEF Good
    <3> QED BY <1>0, <2>1, <2>2
  <2>4. Good(k - 1)
    <3>1. ~(k <= k - 1)
      BY <2>3
    <3>2. k - 1 \notin T
      <4> HIDE DEF T
      <4> QED BY <2>1, <3>1
    <3> HIDE DEF Good
    <3> QED BY <2>3, <3>2
  <2>5. kept[k] = Merge(order[k], Best(Prefix(k - 1), at), at)
    <3>1. k \in 0..L
      BY <2>3
    <3> QED BY <1>4, <2>3, <2>4, <3>1
  <2>6. Prefix(k) = Prefix(k - 1) \cup {order[k]}
    <3>1. 1..k = (1..k - 1) \cup {k}
      BY <2>3
    <3> QED BY <3>1
  <2>7. /\ Prefix(k - 1) \in SUBSET Shown /\ order[k] \in Shown
        /\ order[k] \notin Prefix(k - 1)
    <3>1. \A m \in 1..k - 1 : m \in 1..L /\ m # k
      BY <1>0, <2>3
    <3> QED BY <1>0, <2>3, <3>1
  <2>8. Good(k)
    <3> DEFINE P == Prefix(k - 1)
               j == order[k]
    <3>1. P \in SUBSET Shown /\ j \in Shown /\ j \notin P /\ Covers(P, at)
      BY <2>4, <2>7
    <3>2. kept[k] = Merge(j, Best(P, at), at) /\ Prefix(k) = P \cup {j}
      BY <2>5, <2>6
    <3> HIDE DEF P, j, Prefix
    <3>3. /\ Merge(j, Best(P, at), at) = Best(P \cup {j}, at)
          /\ Covers(P \cup {j}, at)
      BY <3>1, MergeIsBest
    <3> QED BY <3>2, <3>3
  <2> HIDE DEF Good
  <2> QED BY <2>1, <2>8
<1>6. Good(L)
  <2>1. L \in 0..L /\ L \notin T
    <3>1. L \in 0..L
      BY <1>0
    <3> HIDE DEF T, L
    <3> QED BY <1>5, <3>1
  <2> HIDE DEF Good
  <2> QED BY <2>1
<1> QED BY <1>3, <1>6

(* An order of get_devices holds each of what is shown once.               *)
LEMMA OrdersAreOrders ==
  ASSUME TypeOK, NEW order \in Orders
  PROVE  /\ order \in Seq(Shown)
         /\ \A m, n \in 1..Len(order) : order[m] = order[n] => m = n
         /\ {order[n] : n \in 1..Len(order)} = Shown
<1> DEFINE N == Cardinality(Listed)
<1>0. Self \notin Listed /\ IsFiniteSet(Listed) /\ N \in Nat
  <2>1. Listed \subseteq Others /\ IsFiniteSet(Others) /\ Self \notin Others
    BY DiscoveryConstantsOK DEF DiscoveryConstantsOK, Listed
  <2>2. IsFiniteSet(Listed)
    BY <2>1, FS_Subset
  <2> QED BY <2>1, <2>2, FS_CardinalityType
<1>1. PICK s \in SetToSeqs(Listed) : order = Append(s, Self)
  BY DEF Orders
<1>2. s \in [1..N -> Listed] /\ \A m, n \in 1..N : m # n => s[m] # s[n]
  BY <1>1 DEF SetToSeqs
<1>3. s \in Surjection(1..N, Listed)
  <2>1. s \in Injection(1..N, Listed)
    BY <1>2 DEF Injection, IsInjective
  <2>2. IsFiniteSet(1..N) /\ Cardinality(1..N) = N
    BY <1>0, FS_Interval
  <2> QED BY <1>0, <2>1, <2>2, FS_Injection
<1>4. \A i \in Listed : \E n \in 1..N : s[n] = i
  BY <1>3 DEF Surjection
<1> HIDE DEF N
<1>5. s \in Seq(Listed) /\ Len(s) = N
  BY <1>0, <1>2
<1>6. /\ order \in Seq(Shown) /\ Len(order) = N + 1 /\ order[N + 1] = Self
      /\ \A n \in 1..N : order[n] = s[n]
  BY <1>0, <1>1, <1>5 DEF Shown
<1>7. \A n \in 1..N + 1 : n \in 1..N \/ n = N + 1
  BY <1>0
<1>8. ASSUME NEW m \in 1..N + 1, NEW n \in 1..N + 1, order[m] = order[n]
      PROVE  m = n
  BY <1>0, <1>2, <1>6, <1>7, <1>8
<1>9. ASSUME NEW i \in Shown PROVE \E n \in 1..N + 1 : order[n] = i
  <2>1. CASE i = Self
    BY <1>0, <1>6, <2>1
  <2>2. CASE i \in Listed
    <3>1. PICK n \in 1..N : s[n] = i
      BY <1>4, <2>2
    <3> QED BY <1>0, <1>6, <3>1
  <2> QED BY <2>1, <2>2 DEF Shown
<1>10. \A n \in 1..N + 1 : order[n] \in Shown
  BY <1>2, <1>6, <1>7 DEF Shown
<1> QED BY <1>6, <1>8, <1>9, <1>10

LEMMA TypedIsOneList == TypeOK => OneListForAll
<1> SUFFICES ASSUME TypeOK, NEW at \in [Others \cup {Self} -> Devices]
             PROVE  \E list \in SUBSET (Others \cup {Self}) :
                      /\ \A order \in Orders : DedupeDevices(order, at) = list
                      /\ Self \in list
                      /\ \A i, j \in list : at[i] = at[j] => i = j
  BY DEF OneListForAll
<1> DEFINE list == Best(Shown, at)
<1>1. list \in SUBSET (Others \cup {Self})
  BY DEF Best, Shown, Listed
<1>2. \A order \in Orders : DedupeDevices(order, at) = list
  BY OrdersAreOrders, DedupeIsBest
<1>3. Self \in list
  BY DEF Best, Shown, ShouldReplace
<1>4. \A i, j \in list : at[i] = at[j] => i = j
  BY BestIsUnique
<1> HIDE DEF list
<1> QED BY <1>1, <1>2, <1>3, <1>4

-----------------------------------------------------------------------------
(* Types of Discovery.                                                     *)
THEOREM TypesHold == Spec => []TypeOK
<1>1. IInv => TypeOK
  BY DEF IInv
<1> QED BY <1>1, InitIsSound, StepKeeps, PTL DEF Spec

(* Nothing is refused because of a device that is gone: a timestamp is     *)
(* kept only for a listed device, but while a loop is between the maps     *)
(* (discovery.rs, handle_message and cleanup_stale_devices).               *)
THEOREM NoStampWithoutDevice == Spec => []NoOrphanStamp
<1>1. IInv => NoOrphanStamp
  BY DEF IInv
<1> QED BY <1>1, InitIsSound, StepKeeps, PTL DEF Spec

(* Two calls of get_devices show the same: whatever the order in which the *)
(* map yields the devices, one instance of each is kept, and of this       *)
(* device this one (discovery.rs, dedupe_devices).                         *)
THEOREM OneList == Spec => []OneListForAll
<1>1. IInv => OneListForAll
  BY TypedIsOneList DEF IInv
<1> QED BY <1>1, InitIsSound, StepKeeps, PTL DEF Spec
=============================================================================
