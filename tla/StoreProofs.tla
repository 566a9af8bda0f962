---------------------------- MODULE StoreProofs ----------------------------
(***************************************************************************)
(* Proofs about the stores of a device, which MCStores checks in one run:  *)
(* first history and shares, then the conversations.  The two share no     *)
(* state, and their theorems are about Spec and about MessagesSpec.        *)
(*                                                                         *)
(* Copies of one file are shared or excluded together, for any number of   *)
(* records, files and hashes.  Only two actions give an entry a hash it    *)
(* did not have or change what is excluded: UpdateMd5, which copies        *)
(* excluded from an entry with the same hash, and SetExcluded, which       *)
(* changes all of them.  Every other action only removes entries, adds     *)
(* entries without a hash, or counts.                                      *)
(***************************************************************************)
EXTENDS ShareStore, MessageStore, QueueLemmas, FiniteSetTheorems, TLAPS

Md5s == Hashes \cup {NoHash}
Held == [md5 : Md5s, excluded : BOOLEAN, download_count : Nat] \cup {Absent}
Task == [id : Ids, by : {"owner", "startup"}, md5 : Md5s]

Kinds ==
  /\ disk \in [Paths -> Hashes \cup {Absent}]
  /\ share \in [Ids -> Held]
  /\ hashing \subseteq Task

IInv == Kinds /\ ExcludedAlike

(* What an action other than UpdateMd5 and SetExcluded makes of an entry.  *)
Harmless(r) ==
  \/ share'[r] = Absent
  \/ share'[r].md5 = NoHash
  \/ /\ share[r] # Absent
     /\ share'[r].md5 = share[r].md5
     /\ share'[r].excluded = share[r].excluded

-----------------------------------------------------------------------------
LEMMA NewIsHeld == NewEntry \in Held /\ NewEntry.md5 = NoHash
  BY DEF NewEntry, Held, Md5s

(* A step that is harmless to every entry keeps the copies alike.          *)
LEMMA HarmlessKeeps ==
  ASSUME ExcludedAlike, \A r \in Ids : Harmless(r)
  PROVE  ExcludedAlike'
<1> SUFFICES ASSUME NEW r \in Ids, NEW s \in Ids,
                    share'[r] # Absent, share'[s] # Absent,
                    share'[r].md5 # NoHash, share'[r].md5 = share'[s].md5
             PROVE  share'[r].excluded = share'[s].excluded
  BY DEF ExcludedAlike, Entries
<1>1. /\ share[r] # Absent /\ share'[r].md5 = share[r].md5
      /\ share'[r].excluded = share[r].excluded
  BY DEF Harmless
<1>2. /\ share[s] # Absent /\ share'[s].md5 = share[s].md5
      /\ share'[s].excluded = share[s].excluded
  BY DEF Harmless
<1> QED BY <1>1, <1>2 DEF ExcludedAlike, Entries

LEMMA UnchangedKeeps ==
  ASSUME ExcludedAlike, share' = share
  PROVE  ExcludedAlike'
  BY DEF ExcludedAlike, Entries

-----------------------------------------------------------------------------
LEMMA Start0 == Init => IInv
<1> SUFFICES ASSUME Init PROVE IInv
  OBVIOUS
<1>1. disk \in [Paths -> Hashes \cup {Absent}]
  <2>1. ASSUME NEW p \in Paths, \E r \in Local : PathOf[r] = p
        PROVE  ContentOf[CHOOSE r \in Local : PathOf[r] = p] \in Hashes
    BY <2>1, StoreConstantsOK DEF StoreConstantsOK
  <2> QED BY <2>1 DEF Init
<1>2. share \in [Ids -> Held] /\ hashing \subseteq Task
  BY DEF Init, Held
<1>3. ExcludedAlike
  BY DEF Init, ExcludedAlike, Entries
<1> QED BY <1>1, <1>2, <1>3 DEF IInv, Kinds

(* The end of a transfer and the files a user adds.                        *)
LEMMA TransferKeeps ==
  ASSUME IInv, NEW r \in Ids,
         Deliver(r) \/ AddRecord(r) \/ Upsert(r) \/ AddLocalFileToShare(r)
  PROVE  IInv'
<1> USE DEF IInv, Kinds
<1>1. CASE Deliver(r)
  <2>1. ContentOf[r] \in Hashes
    BY <1>1, StoreConstantsOK DEF StoreConstantsOK, Ids
  <2> QED BY <1>1, <2>1, UnchangedKeeps DEF Deliver
<1>2. CASE AddRecord(r)
  BY <1>2, UnchangedKeeps DEF AddRecord
<1>3. CASE Upsert(r) \/ AddLocalFileToShare(r)
  <2>1. /\ share' = [share EXCEPT ![r] = NewEntry]
        /\ hashing' = hashing \cup {[id |-> r, by |-> "owner", md5 |-> NoHash]}
        /\ disk' = disk
    BY <1>3 DEF Upsert, AddLocalFileToShare
  <2>2. share' \in [Ids -> Held] /\ hashing' \subseteq Task
    BY <2>1, NewIsHeld DEF Task, Md5s
  <2>3. \A e \in Ids : Harmless(e)
    BY <2>1, NewIsHeld DEF Harmless
  <2>4. ExcludedAlike'
    BY <2>3, HarmlessKeeps
  <2> QED BY <2>1, <2>2, <2>4
<1> QED BY <1>1, <1>2, <1>3

(* Hashes: the entry that gets one agrees with every entry that has it,    *)
(* because it takes excluded from one of them and they agree already.      *)
LEMMA HashKeeps ==
  ASSUME IInv, NEW t \in hashing, ComputeFileSha256(t) \/ UpdateMd5(t)
  PROVE  IInv'
<1> USE DEF IInv, Kinds
<1>0. t \in Task
  OBVIOUS
<1>1. CASE ComputeFileSha256(t)
  <2> DEFINE found == disk[PathOf[t.id]]
  <2>1. found \in Hashes \cup {Absent}
    BY <1>0, StoreConstantsOK DEF StoreConstantsOK, Task, Ids
  <2>2. found # Absent => [t EXCEPT !.md5 = found] \in Task
    BY <1>0, <2>1 DEF Task, Md5s
  <2>3. hashing' \subseteq Task
    BY <1>1, <2>2 DEF ComputeFileSha256
  <2> QED BY <1>1, <2>3, UnchangedKeeps DEF ComputeFileSha256
<1>2. CASE UpdateMd5(t)
  <2> DEFINE r == t.id
             hash == t.md5
  <2>1. r \in Ids /\ hash \in Md5s
    BY <1>0 DEF Task
  <2>2. PICK entry \in Hashed(r, hash) : share' = [share EXCEPT ![r] = entry]
    BY <1>2 DEF UpdateMd5
  <2>3. disk' = disk /\ hashing' \subseteq Task
    BY <1>2 DEF UpdateMd5
  <2>4. CASE share[r] = Absent
    <3>1. share' = share
      BY <2>1, <2>2, <2>4 DEF Hashed
    <3> QED BY <2>3, <3>1, UnchangedKeeps
  <2>5. CASE share[r] # Absent
    <3>1. share[r] \in [md5 : Md5s, excluded : BOOLEAN, download_count : Nat]
      BY <2>1, <2>5 DEF Held
    <3> DEFINE same == {e \in Entries \ {r} : share[e].md5 = hash}
    <3>2. /\ entry \in [md5 : Md5s, excluded : BOOLEAN, download_count : Nat]
          /\ entry.md5 = hash
          /\ \A e \in same : hash # NoHash => entry.excluded = share[e].excluded
      <4>1. CASE same = {}
        <5>1. entry = [share[r] EXCEPT !.md5 = hash]
          BY <2>2, <2>5, <4>1 DEF Hashed
        <5> QED BY <2>1, <3>1, <4>1, <5>1
      <4>2. CASE same # {}
        <5>1. PICK e \in same :
                entry = [share[r] EXCEPT !.md5 = hash, !.excluded = share[e].excluded]
          BY <2>2, <2>5, <4>2 DEF Hashed
        <5>2. share[e] \in [md5 : Md5s, excluded : BOOLEAN, download_count : Nat]
          BY <5>1 DEF Held, Entries
        <5>3. /\ entry \in [md5 : Md5s, excluded : BOOLEAN, download_count : Nat]
              /\ entry.md5 = hash /\ entry.excluded = share[e].excluded
          BY <2>1, <3>1, <5>1, <5>2
        <5>4. \A f \in same : hash # NoHash => share[f].excluded = share[e].excluded
          BY <5>1 DEF ExcludedAlike
        <5> QED BY <5>3, <5>4
      <4> QED BY <4>1, <4>2
    <3>3. share' \in [Ids -> Held]
      BY <2>1, <2>2, <3>2 DEF Held
    <3>4. ExcludedAlike'
      <4> SUFFICES ASSUME NEW p \in Ids, NEW q \in Ids,
                          share'[p] # Absent, share'[q] # Absent,
                          share'[p].md5 # NoHash, share'[p].md5 = share'[q].md5
                   PROVE  share'[p].excluded = share'[q].excluded
        BY DEF ExcludedAlike, Entries
      <4>1. share'[r] = entry /\ \A e \in Ids \ {r} : share'[e] = share[e]
        BY <2>1, <2>2
      <4>2. CASE p # r /\ q # r
        BY <4>1, <4>2 DEF ExcludedAlike, Entries
      <4>3. CASE p = r /\ q # r
        BY <3>2, <4>1, <4>3 DEF Entries
      <4>4. CASE p # r /\ q = r
        BY <3>2, <4>1, <4>4 DEF Entries
      <4>5. CASE p = r /\ q = r
        BY <4>5
      <4> QED BY <4>2, <4>3, <4>4, <4>5
    <3> QED BY <2>3, <3>3, <3>4
  <2> QED BY <2>4, <2>5
<1> QED BY <1>1, <1>2

(* The user excludes an entry and, with it, all that have its hash.        *)
LEMMA ExcludeKeeps ==
  ASSUME IInv, NEW r \in Ids, NEW b \in BOOLEAN, SetExcluded(r, b)
  PROVE  IInv'
<1> USE DEF IInv, Kinds
<1> DEFINE hit(e) == e = r \/ (e \in Entries /\ share[r].md5 # NoHash
                                 /\ share[e].md5 = share[r].md5)
           Full == [md5 : Md5s, excluded : BOOLEAN, download_count : Nat]
<1>1. /\ r \in Entries /\ disk' = disk /\ hashing' = hashing
      /\ share' = [e \in Ids |-> IF hit(e) THEN [share[e] EXCEPT !.excluded = b]
                                  ELSE share[e]]
  BY DEF SetExcluded
<1>2. \A e \in Entries : share[e] \in Full
  BY DEF Entries, Held
<1>3. \A e \in Entries : hit(e) => /\ share'[e] \in Full
                                   /\ share'[e].md5 = share[e].md5
                                   /\ share'[e].excluded = b
  BY <1>1, <1>2 DEF Entries
<1>4. \A e \in Ids : ~hit(e) => share'[e] = share[e]
  BY <1>1
<1>5. share' \in [Ids -> Held]
  <2>1. \A e \in Ids : hit(e) => e \in Entries
    BY <1>1
  <2>2. \A e \in Ids : share'[e] \in Held
    BY <1>3, <1>4, <2>1 DEF Held
  <2> QED BY <1>1, <2>2
<1>6. ExcludedAlike'
  <2> SUFFICES ASSUME NEW p \in Ids, NEW q \in Ids,
                      share'[p] # Absent, share'[q] # Absent,
                      share'[p].md5 # NoHash, share'[p].md5 = share'[q].md5
               PROVE  share'[p].excluded = share'[q].excluded
    BY DEF ExcludedAlike, Entries
  <2>1. p \in Entries /\ q \in Entries
    BY <1>1, <1>4 DEF Entries
  <2>2. share'[p].md5 = share[p].md5 /\ share'[q].md5 = share[q].md5
    BY <1>3, <1>4, <2>1
  <2>3. share[p].md5 # NoHash /\ share[p].md5 = share[q].md5
    BY <2>2
  <2>4. hit(p) <=> hit(q)
    BY <2>1, <2>3, <1>1 DEF Entries
  <2>5. CASE hit(p)
    BY <1>3, <2>1, <2>4, <2>5
  <2>6. CASE ~hit(p)
    <3>1. share[p].excluded = share[q].excluded
      BY <2>1, <2>3 DEF ExcludedAlike
    <3> QED BY <1>4, <2>4, <2>6, <3>1
  <2> QED BY <2>5, <2>6
<1> QED BY <1>1, <1>5, <1>6

(* The other commands, the startup task, a stop, and the downloads.        *)
LEMMA OthersKeep ==
  ASSUME IInv,
         \/ \E f \in {"history", "shares"} : Written(f)
         \/ \E r \in Ids : RemoveEntry(r)
         \/ \E S \in SUBSET Remote : DeleteTransferRecords(S)
         \/ ClearTransferHistory \/ ClearAll
         \/ \E p \in Paths : RemoveFile(p)
         \/ LoadHistory \/ SyncFromHistory \/ LoadEntries
         \/ Crash \/ Start
         \/ \E md5 \in Hashes \cup {NoHash}, id \in Ids \cup {Absent} :
               FindShared(md5, id) \/ SearchHistory(md5, id)
         \/ IncrementDownloadCount
  PROVE  IInv'
<1> USE DEF IInv, Kinds
<1>1. CASE \/ \E f \in {"history", "shares"} : Written(f)
           \/ \E S \in SUBSET Remote : DeleteTransferRecords(S)
           \/ ClearTransferHistory \/ LoadHistory \/ Start
           \/ \E md5 \in Hashes \cup {NoHash}, id \in Ids \cup {Absent} :
                 FindShared(md5, id) \/ SearchHistory(md5, id)
  <2>1. share' = share /\ disk' = disk /\ hashing' = hashing
    BY <1>1 DEF Written, DeleteTransferRecords, ClearTransferHistory,
                DeletesFromHistory, LoadHistory, Start, FindShared, SearchHistory
  <2> QED BY <2>1, UnchangedKeeps
<1>2. CASE \E p \in Paths : RemoveFile(p)
  <2>1. share' = share /\ hashing' = hashing
        /\ disk' \in [Paths -> Hashes \cup {Absent}]
    BY <1>2 DEF RemoveFile
  <2> QED BY <2>1, UnchangedKeeps
<1>3. CASE LoadEntries
  <2>1. share' = share /\ disk' = disk /\ hashing' \subseteq Task
    BY <1>3 DEF LoadEntries, SharesRead, Entries, Task, Md5s
  <2> QED BY <2>1, UnchangedKeeps
<1>4. CASE \/ \E r \in Ids : RemoveEntry(r)
           \/ ClearAll \/ SyncFromHistory \/ Crash
  <2>1. disk' = disk /\ hashing' \subseteq Task
    BY <1>4 DEF RemoveEntry, ClearAll, SyncFromHistory, Crash
  <2>2. share' \in [Ids -> Held] /\ \A e \in Ids : Harmless(e)
    <3>1. CASE \E r \in Ids : RemoveEntry(r)
      BY <3>1 DEF RemoveEntry, Held, Harmless
    <3>2. CASE ClearAll
      BY <3>2 DEF ClearAll, Held, Harmless
    <3>3. CASE SyncFromHistory
      <4>1. share' = [e \in Ids |-> Synced(e)]
        BY <3>3 DEF SyncFromHistory
      <4>2. \A e \in Ids : Synced(e) \in {Absent, NewEntry, share[e]}
                           /\ (Synced(e) = share[e] \/ Synced(e) = Absent
                               \/ Synced(e) = NewEntry)
        BY DEF Synced
      <4>3. share' \in [Ids -> Held]
        BY <4>1, <4>2, NewIsHeld DEF Held
      <4>4. \A e \in Ids : Harmless(e)
        BY <4>1, <4>2, NewIsHeld DEF Harmless
      <4> QED BY <4>3, <4>4
    <3>4. CASE Crash
      BY <3>4 DEF Crash, Held, Harmless
    <3> QED BY <1>4, <3>1, <3>2, <3>3, <3>4
  <2> QED BY <2>1, <2>2, HarmlessKeeps
<1>5. CASE IncrementDownloadCount
  <2>1. disk' = disk /\ hashing' = hashing
    BY <1>5 DEF IncrementDownloadCount
  <2>2. CASE share' = share
    BY <2>1, <2>2, UnchangedKeeps
  <2>3. CASE share' # share
    <3>1. /\ share[download] # Absent
          /\ share' = [share EXCEPT ![download].download_count = @ + 1]
      BY <1>5, <2>3 DEF IncrementDownloadCount
    <3>2. CASE download \notin Ids
      BY <2>3, <3>1, <3>2
    <3>3. CASE download \in Ids
      <4>1. share[download] \in
              [md5 : Md5s, excluded : BOOLEAN, download_count : Nat]
        BY <3>1, <3>3 DEF Held
      <4>2. share' \in [Ids -> Held] /\ \A e \in Ids : Harmless(e)
        BY <3>1, <3>3, <4>1 DEF Held, Harmless
      <4> QED BY <2>1, <4>2, HarmlessKeeps
    <3> QED BY <3>2, <3>3
  <2> QED BY <2>2, <2>3
<1> QED BY <1>1, <1>2, <1>3, <1>4, <1>5

-----------------------------------------------------------------------------
LEMMA StepKeeps == IInv /\ [Next]_vars => IInv'
<1> SUFFICES ASSUME IInv, [Next]_vars PROVE IInv'
  OBVIOUS
<1>1. CASE UNCHANGED vars
  BY <1>1, UnchangedKeeps DEF vars, IInv, Kinds
<1>2. CASE Tasks
  <2>1. CASE \E r \in Remote : AddRecord(r) \/ Upsert(r)
    BY <2>1, TransferKeeps DEF Ids
  <2>2. CASE \E t \in hashing : ComputeFileSha256(t) \/ UpdateMd5(t)
    BY <2>2, HashKeeps
  <2>3. CASE \E f \in {"history", "shares"} : Written(f)
    BY <2>3, OthersKeep
  <2> QED BY <1>2, <2>1, <2>2, <2>3 DEF Tasks
<1>3. CASE \E r \in Ids : Deliver(r) \/ AddLocalFileToShare(r) \/ RemoveEntry(r)
  <2>1. CASE \E r \in Ids : Deliver(r) \/ AddLocalFileToShare(r)
    BY <2>1, TransferKeeps
  <2>2. CASE \E r \in Ids : RemoveEntry(r)
    BY <2>2, OthersKeep
  <2> QED BY <1>3, <2>1, <2>2
<1>4. CASE \E r \in Ids, b \in BOOLEAN : SetExcluded(r, b)
  BY <1>4, ExcludeKeeps
<1>5. CASE \/ \E S \in SUBSET Remote : DeleteTransferRecords(S)
           \/ ClearTransferHistory \/ ClearAll
           \/ \E p \in Paths : RemoveFile(p)
           \/ LoadHistory \/ SyncFromHistory \/ LoadEntries
           \/ Crash \/ Start
           \/ \E md5 \in Hashes \cup {NoHash}, id \in Ids \cup {Absent} :
                 FindShared(md5, id) \/ SearchHistory(md5, id)
           \/ IncrementDownloadCount
  BY <1>5, OthersKeep
<1> QED BY <1>1, <1>2, <1>3, <1>4, <1>5 DEF Next

(* Entries known to be the same file are both shared or both excluded,     *)
(* whatever the tasks, the commands and the startup task do at once        *)
(* (share.rs, set_excluded and update_md5).                                *)
THEOREM CopiesAlike == Spec => []ExcludedAlike
<1>1. IInv => ExcludedAlike
  BY DEF IInv
<1> QED BY <1>1, Start0, StepKeeps, PTL DEF Spec

-----------------------------------------------------------------------------
(* What the files say of a transfer.                                       *)

Stages == {"none", "delivered", "recorded", "done"}
Early  == {"none", "delivered"}

FileKinds ==
  /\ history \in Seq(Remote)
  /\ stage \in [Ids -> Stages]
  /\ user \in [op : {"none", "clear", "delete"}, left : SUBSET Remote]

(* Before AddRecord nobody has heard of it.                                *)
NotYet(r) ==
  stage[r] \in Early => r \notin Recorded /\ r \notin Entries /\ r \notin loaded

(* Between AddRecord and Upsert it is recorded.                            *)
RecordStays(r) ==
  (stage[r] = "recorded" /\ r \notin adrift) => r \in Recorded

(* The two halves of SharesFollowHistory; the first holds also while a     *)
(* command is under way.                                                   *)
SharedIfRecorded(r) ==
  (stage[r] = "done" /\ r \notin adrift /\ r \in Recorded) => r \in Entries
RecordedIfShared(r) ==
  (stage[r] = "done" /\ ~Disturbed(r) /\ r \in Entries) => r \in Recorded

(* A command deletes the record first, and no second one comes.            *)
LeftGone(r) ==
  (user.op = "delete" /\ r \in user.left)
    => r \notin Recorded /\ stage[r] \notin Early

(* What the startup task read is still recorded when it syncs.             *)
LoadedStays(r) ==
  (boot = "loaded" /\ r \in loaded /\ r \notin adrift) => r \in Recorded

Agreed(r) ==
  /\ NotYet(r) /\ RecordStays(r) /\ SharedIfRecorded(r) /\ RecordedIfShared(r)
  /\ LeftGone(r) /\ LoadedStays(r)

ClearLeavesAll == user.op = "clear" => user.left = Remote

FilesInv == FileKinds /\ ClearLeavesAll /\ \A r \in Remote : Agreed(r)

-----------------------------------------------------------------------------
(* Retained keeps the order's elements but for those in S: so it is of     *)
(* each prefix, because the least that is not so would be.                 *)
LEMMA RetainedIs ==
  ASSUME NEW X, NEW records \in Seq(X), NEW S
  PROVE  /\ Retained(records, S) \in Seq(X)
         /\ ToSet(Retained(records, S)) = ToSet(records) \ S
         /\ Len(Retained(records, S)) <= Len(records)
<1> DEFINE L == Len(records)
           Step(g, n) == IF n = 0 THEN <<>>
                         ELSE IF records[n] \in S THEN g[n - 1]
                         ELSE Append(g[n - 1], records[n])
           Follows(g) == g = [n \in 0..L |-> Step(g, n)]
<1>0. L \in Nat /\ \A n \in 1..L : records[n] \in X
  OBVIOUS
<1>1. \E g : Follows(g)
  <2> DEFINE next(n, t) == IF records[n] \in S THEN t ELSE Append(t, records[n])
             step == [n \in 1..L |-> [t \in Seq(X) |-> next(n, t)]]
  <2>1. ASSUME NEW n \in 1..L, NEW t \in Seq(X) PROVE next(n, t) \in Seq(X)
    BY <1>0
  <2>2. step \in StepFunctions(L, Seq(X)) /\ <<>> \in Seq(X)
    <3> HIDE DEF next
    <3> QED BY <2>1 DEF StepFunctions
  <2>3. ASSUME NEW n \in 1..L, NEW t \in Seq(X) PROVE step[n][t] = next(n, t)
    OBVIOUS
  <2> HIDE DEF step, L
  <2>4. PICK g : GoesBy(g, L, Seq(X), <<>>, step)
    BY <1>0, <2>2, StepByStep
  <2>5. ASSUME NEW n \in 0..L PROVE g[n] = Step(g, n)
    <3>1. CASE n = 0
      BY <2>4, <3>1 DEF GoesBy
    <3>2. CASE n # 0
      <4>1. n \in 1..L /\ n - 1 \in 0..L
        BY <1>0, <3>2
      <4>2. g[n] = next(n, g[n - 1])
        <5> HIDE DEF next
        <5> QED BY <2>3, <2>4, <4>1 DEF GoesBy
      <4> QED BY <3>2, <4>2
    <3> QED BY <3>1, <3>2
  <2>6. g = [n \in 0..L |-> g[n]]
    BY <2>4 DEF GoesBy
  <2> HIDE DEF Step
  <2> QED BY <2>5, <2>6
<1> DEFINE kept == CHOOSE g : Follows(g)
<1>2. Follows(kept)
  <2> HIDE DEF Follows
  <2> QED BY <1>1
<1>3. Retained(records, S) = kept[L]
  BY DEF Retained
<1> HIDE DEF kept
<1>4. \A n \in 0..L : kept[n] = Step(kept, n)
  BY <1>2
<1> DEFINE Good(n) == /\ kept[n] \in Seq(X) /\ Len(kept[n]) <= n
                      /\ ToSet(kept[n]) = {records[i] : i \in 1..n} \ S
<1>5. \A n \in 0..L : Good(n)
  <2> DEFINE T == {n \in 0..L : ~Good(n)}
  <2> SUFFICES ASSUME T # {} PROVE FALSE
    OBVIOUS
  <2>1. PICK k \in T : \A j \in T : k <= j
    <3>1. T \in SUBSET Nat
      BY <1>0
    <3> HIDE DEF T
    <3> QED BY <3>1, Least
  <2>2. Good(0)
    <3>1. kept[0] = <<>>
      BY <1>0, <1>4
    <3> QED BY <3>1 DEF ToSet
  <2>3. k # 0 /\ k \in 1..L /\ k - 1 \in 0..L
    <3> HIDE DEF Good
    <3> QED BY <1>0, <2>1, <2>2
  <2>4. Good(k - 1)
    <3>1. ~(k <= k - 1)
      BY <2>3
    <3>2. k - 1 \notin T
      <4> HIDE DEF T
      <4> QED BY <2>1, <3>1
    <3> HIDE DEF Good
    <3> QED BY <2>3, <3>2
  <2>5. kept[k] = IF records[k] \in S THEN kept[k - 1] ELSE Append(kept[k - 1], records[k])
    BY <1>4, <2>3
  <2>6. {records[i] : i \in 1..k} = {records[i] : i \in 1..k - 1} \cup {records[k]}
    <3>1. 1..k = (1..k - 1) \cup {k}
      BY <2>3
    <3> QED BY <3>1
  <2> DEFINE s == kept[k - 1]
  <2>7. s \in Seq(X) /\ Len(s) <= k - 1 /\ ToSet(s) = {records[i] : i \in 1..k - 1} \ S
    BY <2>4
  <2> HIDE DEF s
  <2>8. ToSet(Append(s, records[k])) = ToSet(s) \cup {records[k]}
    <3>1. records[k] \in X
      BY <1>0, <2>3
    <3> QED BY <2>7, <3>1 DEF ToSet
  <2>9. Good(k)
    <3>1. CASE records[k] \in S
      <4>1. kept[k] = s
        BY <2>5, <3>1 DEF s
      <4> QED BY <2>3, <2>6, <2>7, <3>1, <4>1
    <3>2. CASE records[k] \notin S
      <4>1. kept[k] = Append(s, records[k])
        BY <2>5, <3>2 DEF s
      <4>2. kept[k] \in Seq(X) /\ Len(kept[k]) <= k
        BY <1>0, <2>3, <2>7, <4>1
      <4> QED BY <2>6, <2>7, <2>8, <3>2, <4>1, <4>2
    <3> QED BY <3>1, <3>2
  <2> HIDE DEF Good
  <2> QED BY <2>1, <2>9
<1>6. Good(L)
  <2> HIDE DEF Good
  <2> QED BY <1>0, <1>5
<1>7. ToSet(records) = {records[i] : i \in 1..L}
  BY DEF ToSet
<1> QED BY <1>3, <1>6, <1>7

(* What add_record leaves of the history.                                  *)
LEMMA TruncatedIs ==
  ASSUME NEW h \in Seq(Remote), NEW r \in Remote
  PROVE  /\ Truncated(<<r>> \o h) \in Seq(Remote)
         /\ r \in ToSet(Truncated(<<r>> \o h))
         /\ ToSet(Truncated(<<r>> \o h)) \subseteq ToSet(h) \cup {r}
<1> DEFINE all == <<r>> \o h
<1>0. MaxRecords \in Nat \ {0}
  BY StoreConstantsOK DEF StoreConstantsOK
<1>1. /\ all \in Seq(Remote) /\ Len(all) = Len(h) + 1 /\ all[1] = r
      /\ Len(h) \in Nat
  OBVIOUS
<1>2. \A i \in 1..Len(all) : all[i] \in ToSet(h) \cup {r}
  <2> SUFFICES ASSUME NEW i \in 1..Len(all) PROVE all[i] \in ToSet(h) \cup {r}
    OBVIOUS
  <2>1. <<r>> \in Seq(Remote) /\ Len(<<r>>) = 1 /\ <<r>>[1] = r
    OBVIOUS
  <2>2. \/ i \in 1..1 /\ all[i] = <<r>>[i]
        \/ i - 1 \in 1..Len(h) /\ all[i] = h[i - 1]
    BY <2>1, ConcatElements
  <2>3. i \in 1..1 => all[i] = r
    BY <1>1
  <2>4. \A k \in 1..Len(h) : h[k] \in ToSet(h)
    BY DEF ToSet
  <2> QED BY <2>2, <2>3, <2>4
<1> HIDE DEF all
<1>3. ASSUME Len(all) > MaxRecords
      PROVE  /\ Truncated(all) \in Seq(Remote) /\ r \in ToSet(Truncated(all))
             /\ ToSet(Truncated(all)) \subseteq ToSet(h) \cup {r}
  <2> DEFINE cut == SubSeq(all, 1, MaxRecords)
  <2>1. /\ cut \in Seq(Remote) /\ Len(cut) = MaxRecords
        /\ \A i \in 1..MaxRecords : i \in 1..Len(all) /\ cut[i] = all[i]
    BY <1>0, <1>1, <1>3
  <2>2. Truncated(all) = cut
    BY <1>3 DEF Truncated
  <2> HIDE DEF cut
  <2>3. ToSet(cut) = {cut[i] : i \in 1..MaxRecords}
    BY <1>0, <2>1 DEF ToSet
  <2>4. 1 \in 1..MaxRecords
    BY <1>0
  <2>5. r \in ToSet(cut) /\ ToSet(cut) \subseteq ToSet(h) \cup {r}
    BY <1>1, <1>2, <2>1, <2>3, <2>4
  <2> QED BY <2>1, <2>2, <2>5
<1>4. ASSUME ~(Len(all) > MaxRecords)
      PROVE  /\ Truncated(all) \in Seq(Remote) /\ r \in ToSet(Truncated(all))
             /\ ToSet(Truncated(all)) \subseteq ToSet(h) \cup {r}
  <2>1. Truncated(all) = all
    BY <1>4 DEF Truncated
  <2>2. ToSet(all) = {all[i] : i \in 1..Len(all)} /\ 1 \in 1..Len(all)
    BY <1>1 DEF ToSet
  <2>3. r \in ToSet(all) /\ ToSet(all) \subseteq ToSet(h) \cup {r}
    BY <1>1, <1>2, <2>2
  <2> QED BY <1>1, <2>1, <2>3
<1>5. /\ Truncated(all) \in Seq(Remote) /\ r \in ToSet(Truncated(all))
      /\ ToSet(Truncated(all)) \subseteq ToSet(h) \cup {r}
  BY <1>3, <1>4
<1> QED BY <1>5 DEF all

-----------------------------------------------------------------------------
(* The actions.  Most change nothing a remote record is judged by.         *)
Unheard ==
  /\ history' = history /\ loaded' = loaded /\ user' = user /\ adrift' = adrift
  /\ boot' = "loaded" => boot = "loaded"
  /\ stage' \in [Ids -> Stages]
  /\ \A r \in Remote : /\ stage'[r] = stage[r]
                       /\ share'[r] = Absent <=> share[r] = Absent

LEMMA UnheardKeeps ==
  ASSUME FilesInv, Unheard
  PROVE  FilesInv'
<1>1. FileKinds' /\ ClearLeavesAll'
  BY DEF FilesInv, FileKinds, ClearLeavesAll, Unheard
<1>2. ASSUME NEW r \in Remote PROVE Agreed(r)'
  <2>1. /\ r \in Recorded' <=> r \in Recorded
        /\ r \in Entries' <=> r \in Entries
        /\ r \in Ids
    BY DEF Unheard, Recorded, Entries, Ids
  <2>2. Disturbed(r)' <=> Disturbed(r)
    BY DEF Disturbed, Unheard
  <2>3. Agreed(r)
    BY DEF FilesInv
  <2> QED BY <2>1, <2>2, <2>3 DEF Agreed, NotYet, RecordStays, SharedIfRecorded,
                RecordedIfShared, LeftGone, LoadedStays, Unheard
<1> QED BY <1>1, <1>2 DEF FilesInv

LEMMA FullEntries ==
  ASSUME Kinds, NEW e \in Entries
  PROVE  /\ share[e] \in [md5 : Md5s, excluded : BOOLEAN, download_count : Nat]
         /\ Absent \notin [md5 : Md5s, excluded : BOOLEAN, download_count : Nat]
  BY StoreConstantsOK DEF StoreConstantsOK, Kinds, Held, Entries, Md5s

LEMMA NewIsNotAbsent == NewEntry # Absent
<1>1. NewEntry \in [md5 : Hashes \cup {NoHash}, excluded : BOOLEAN,
                    download_count : Nat]
  BY DEF NewEntry
<1> QED BY <1>1, StoreConstantsOK DEF StoreConstantsOK

(* update_md5, set_excluded and the count leave every entry where it is.   *)
LEMMA EntriesStay ==
  ASSUME Kinds,
         \/ \E t \in hashing : UpdateMd5(t)
         \/ \E r \in Ids, b \in BOOLEAN : SetExcluded(r, b)
         \/ IncrementDownloadCount
  PROVE  \A r \in Remote : share'[r] = Absent <=> share[r] = Absent
<1> SUFFICES ASSUME NEW x \in Remote
             PROVE  share'[x] = Absent <=> share[x] = Absent
  OBVIOUS
<1> DEFINE Full == [md5 : Md5s, excluded : BOOLEAN, download_count : Nat]
<1>0. x \in Ids /\ share \in [Ids -> Held]
  BY DEF Ids, Kinds
<1>1. Absent \notin Full
  BY StoreConstantsOK DEF StoreConstantsOK, Md5s
<1>2. \A e \in Ids : share[e] # Absent => share[e] \in Full
  BY <1>0 DEF Held
<1>3. ASSUME NEW t \in hashing, UpdateMd5(t)
      PROVE  share'[x] = Absent <=> share[x] = Absent
  <2>1. t.id \in Ids /\ t.md5 \in Md5s
    BY DEF Kinds, Task
  <2>2. PICK entry \in Hashed(t.id, t.md5) : share' = [share EXCEPT ![t.id] = entry]
    BY <1>3 DEF UpdateMd5
  <2>3. CASE share[t.id] = Absent
    BY <1>0, <2>2, <2>3 DEF Hashed
  <2>4. CASE share[t.id] # Absent
    <3>1. \A e \in Entries : share[e].excluded \in BOOLEAN
      BY <1>2 DEF Entries
    <3>2. entry \in Full
      <4> DEFINE same == {e \in Entries \ {t.id} : share[e].md5 = t.md5}
      <4>1. \/ entry = [share[t.id] EXCEPT !.md5 = t.md5]
            \/ \E e \in same : entry = [share[t.id] EXCEPT !.md5 = t.md5,
                                              !.excluded = share[e].excluded]
        BY <2>2, <2>4 DEF Hashed
      <4>2. share[t.id] \in Full
        BY <1>2, <2>1, <2>4
      <4> QED BY <2>1, <3>1, <4>1, <4>2
    <3> HIDE DEF Full
    <3> QED BY <1>0, <1>1, <2>1, <2>2, <2>4, <3>2
  <2> QED BY <2>3, <2>4
<1>4. ASSUME NEW r \in Ids, NEW b \in BOOLEAN, SetExcluded(r, b)
      PROVE  share'[x] = Absent <=> share[x] = Absent
  <2>1. \/ share'[x] = share[x]
        \/ x \in Entries /\ share'[x] = [share[x] EXCEPT !.excluded = b]
    BY <1>0, <1>4 DEF SetExcluded
  <2>2. x \in Entries => [share[x] EXCEPT !.excluded = b] \in Full
    BY <1>2 DEF Entries
  <2> HIDE DEF Full
  <2> QED BY <1>1, <2>1, <2>2 DEF Entries
<1>5. CASE IncrementDownloadCount
  <2>1. \/ share'[x] = share[x]
        \/ share[x] # Absent
           /\ share'[x] = [share[x] EXCEPT !.download_count = @ + 1]
    BY <1>0, <1>5 DEF IncrementDownloadCount
  <2>2. share[x] # Absent => [share[x] EXCEPT !.download_count = @ + 1] \in Full
    BY <1>0, <1>2
  <2> HIDE DEF Full
  <2> QED BY <1>1, <2>1, <2>2
<1> QED BY <1>3, <1>4, <1>5

LEMMA UnheardSteps ==
  ASSUME Kinds, FilesInv,
         \/ \E t \in hashing : ComputeFileSha256(t) \/ UpdateMd5(t)
         \/ \E f \in {"history", "shares"} : Written(f)
         \/ \E r \in Ids : AddLocalFileToShare(r)
         \/ \E r \in Ids, b \in BOOLEAN : SetExcluded(r, b)
         \/ \E p \in Paths : RemoveFile(p)
         \/ LoadEntries \/ Start
         \/ \E md5 \in Hashes \cup {NoHash}, id \in Ids \cup {Absent} :
               FindShared(md5, id) \/ SearchHistory(md5, id)
         \/ IncrementDownloadCount
         \/ UNCHANGED vars
  PROVE  FilesInv'
<1>0. stage \in [Ids -> Stages]
  BY DEF FilesInv, FileKinds
<1>1. ASSUME \/ \E t \in hashing : ComputeFileSha256(t)
             \/ \E f \in {"history", "shares"} : Written(f)
             \/ \E p \in Paths : RemoveFile(p)
             \/ LoadEntries \/ Start
             \/ \E md5 \in Hashes \cup {NoHash}, id \in Ids \cup {Absent} :
                   FindShared(md5, id) \/ SearchHistory(md5, id)
             \/ UNCHANGED vars
      PROVE  Unheard
  BY <1>0, <1>1 DEF Unheard, ComputeFileSha256, Written, RemoveFile, LoadEntries,
                    Start, FindShared, SearchHistory, vars
<1>2. ASSUME \/ \E t \in hashing : UpdateMd5(t)
             \/ \E r \in Ids, b \in BOOLEAN : SetExcluded(r, b)
             \/ IncrementDownloadCount
      PROVE  Unheard
  <2>1. UNCHANGED <<history, loaded, user, adrift, boot, stage>>
    BY <1>2 DEF UpdateMd5, SetExcluded, IncrementDownloadCount
  <2> QED BY <1>0, <1>2, <2>1, EntriesStay DEF Unheard
<1>3. ASSUME NEW r \in Ids, AddLocalFileToShare(r)
      PROVE  Unheard
  <2>1. /\ \A x \in Remote : x # r /\ x \in Ids
        /\ UNCHANGED <<history, loaded, user, adrift, boot>>
        /\ stage' = [stage EXCEPT ![r] = "done"]
        /\ share' = [share EXCEPT ![r] = NewEntry]
        /\ "done" \in Stages
    BY <1>3, StoreConstantsOK DEF StoreConstantsOK, Ids, AddLocalFileToShare, Stages
  <2>2. \A x \in Remote : share'[x] = share[x] /\ stage'[x] = stage[x]
    BY <1>0, <2>1 DEF Kinds
  <2> QED BY <1>0, <2>1, <2>2 DEF Unheard
<1> QED BY <1>1, <1>2, <1>3, UnheardKeeps

LEMMA DeliverKeeps ==
  ASSUME FilesInv, NEW r \in Ids, Deliver(r)
  PROVE  FilesInv'
<1> USE DEF Stages, Early
<1>1. /\ stage' = [stage EXCEPT ![r] = "delivered"] /\ stage[r] = "none"
      /\ UNCHANGED <<history, share, loaded, user, boot, adrift>>
      /\ stage \in [Ids -> Stages]
  BY DEF Deliver, FilesInv, FileKinds
<1>2. FileKinds' /\ ClearLeavesAll'
  BY <1>1 DEF FilesInv, FileKinds, ClearLeavesAll
<1>3. ASSUME NEW x \in Remote PROVE Agreed(x)'
  <2>1. /\ Recorded' = Recorded /\ Entries' = Entries
        /\ Disturbed(x)' = Disturbed(x) /\ x \in Ids
    BY <1>1 DEF Recorded, Entries, Disturbed, Ids
  <2>2. \/ stage'[x] = stage[x]
        \/ stage[x] = "none" /\ stage'[x] = "delivered"
    BY <1>1, <2>1
  <2>3. Agreed(x)
    BY DEF FilesInv
  <2> QED BY <1>1, <2>1, <2>2, <2>3 DEF Agreed, NotYet, RecordStays,
                SharedIfRecorded, RecordedIfShared, LeftGone, LoadedStays
<1> QED BY <1>2, <1>3 DEF FilesInv

(* What add_record cuts off is adrift.                                     *)
LEMMA AddRecordKeeps ==
  ASSUME FilesInv, NEW r \in Remote, AddRecord(r)
  PROVE  FilesInv'
<1> USE DEF Stages, Early
<1> DEFINE kept == Truncated(<<r>> \o history)
<1>1. /\ stage' = [stage EXCEPT ![r] = "recorded"] /\ stage[r] = "delivered"
      /\ history' = kept
      /\ adrift' = adrift \cup (Recorded \ ToSet(kept))
      /\ UNCHANGED <<share, loaded, user, boot>>
      /\ stage \in [Ids -> Stages] /\ history \in Seq(Remote) /\ r \in Ids
  BY DEF AddRecord, FilesInv, FileKinds, Ids
<1>2. /\ kept \in Seq(Remote) /\ r \in ToSet(kept)
      /\ ToSet(kept) \subseteq Recorded \cup {r}
  BY <1>1, TruncatedIs DEF Recorded
<1> HIDE DEF kept
<1>3. FileKinds' /\ ClearLeavesAll'
  BY <1>1, <1>2 DEF FilesInv, FileKinds, ClearLeavesAll
<1>4. Recorded' = ToSet(kept) /\ Entries' = Entries
  BY <1>1 DEF Recorded, Entries
<1>5. ASSUME NEW x \in Remote PROVE Agreed(x)'
  <2>1. Agreed(x) /\ x \in Ids
    BY DEF FilesInv, Ids
  <2>2. CASE x = r
    <3>1. stage'[x] = "recorded" /\ x \in Recorded' /\ x \notin loaded
      BY <1>1, <1>2, <1>4, <2>1, <2>2 DEF Agreed, NotYet
    <3>2. ~(user.op = "delete" /\ x \in user.left)
      BY <1>1, <2>1, <2>2 DEF Agreed, LeftGone
    <3> QED BY <1>1, <3>1, <3>2 DEF Agreed, NotYet, RecordStays,
                SharedIfRecorded, RecordedIfShared, LeftGone, LoadedStays
  <2>3. CASE x # r
    <3>1. /\ stage'[x] = stage[x]
          /\ x \in Recorded' => x \in Recorded
          /\ (x \in Recorded /\ x \notin Recorded') => x \in adrift'
          /\ x \in adrift => x \in adrift'
      BY <1>1, <1>2, <1>4, <2>1, <2>3
    <3> QED BY <1>1, <1>4, <2>1, <3>1 DEF Agreed, NotYet, RecordStays, Disturbed,
                SharedIfRecorded, RecordedIfShared, LeftGone, LoadedStays
  <2> QED BY <2>2, <2>3
<1> QED BY <1>3, <1>5 DEF FilesInv

LEMMA UpsertKeeps ==
  ASSUME Kinds, FilesInv, NEW r \in Remote, Upsert(r)
  PROVE  FilesInv'
<1> USE DEF Stages, Early
<1>1. /\ stage' = [stage EXCEPT ![r] = "done"] /\ stage[r] = "recorded"
      /\ share' = [share EXCEPT ![r] = NewEntry]
      /\ UNCHANGED <<history, loaded, user, boot, adrift>>
      /\ stage \in [Ids -> Stages] /\ share \in [Ids -> Held] /\ r \in Ids
  BY DEF Upsert, FilesInv, FileKinds, Kinds, Ids
<1>2. FileKinds' /\ ClearLeavesAll'
  BY <1>1 DEF FilesInv, FileKinds, ClearLeavesAll
<1>3. ASSUME NEW x \in Remote PROVE Agreed(x)'
  <2>1. Agreed(x) /\ x \in Ids /\ Recorded' = Recorded
    BY <1>1 DEF FilesInv, Ids, Recorded
  <2>2. Disturbed(x)' = Disturbed(x)
    BY <1>1 DEF Disturbed
  <2>3. CASE x = r
    <3>1. stage'[x] = "done" /\ x \in Entries'
      BY <1>1, <2>1, <2>3, NewIsNotAbsent DEF Entries
    <3> QED BY <1>1, <2>1, <2>2, <2>3, <3>1 DEF Agreed, NotYet, RecordStays,
                SharedIfRecorded, RecordedIfShared, LeftGone, LoadedStays, Disturbed
  <2>4. CASE x # r
    <3>1. stage'[x] = stage[x] /\ (x \in Entries' <=> x \in Entries)
      BY <1>1, <2>1, <2>4 DEF Entries
    <3> QED BY <1>1, <2>1, <2>2, <3>1 DEF Agreed, NotYet, RecordStays,
                SharedIfRecorded, RecordedIfShared, LeftGone, LoadedStays
  <2> QED BY <2>3, <2>4
<1> QED BY <1>2, <1>3 DEF FilesInv

(* A record deleted while its entry or the startup task is under way is    *)
(* adrift, any other one is left for RemoveEntry.                          *)
LEMMA DeleteKeeps ==
  ASSUME FilesInv,
         ClearTransferHistory \/ \E S \in SUBSET Remote : DeleteTransferRecords(S)
  PROVE  FilesInv'
<1> USE DEF Stages, Early
<1>1. PICK S \in SUBSET Remote, kind \in {"clear", "delete"} :
        /\ DeletesFromHistory(S, kind)
        /\ kind = "delete" => S \subseteq Recorded
        /\ kind = "clear" => S = Remote
  BY DEF ClearTransferHistory, DeleteTransferRecords
<1>2. /\ history' = Retained(history, S)
      /\ user' = [op |-> kind, left |-> S] /\ user = NoCommand
      /\ adrift' = adrift \cup {r \in S \cap Recorded :
                     \/ stage[r] = "recorded"
                     \/ boot = "loaded" /\ r \in loaded}
      /\ UNCHANGED <<share, stage, loaded, boot>>
      /\ history \in Seq(Remote)
  BY <1>1 DEF DeletesFromHistory, FilesInv, FileKinds
<1>3. history' \in Seq(Remote) /\ Recorded' = Recorded \ S
  BY <1>2, RetainedIs DEF Recorded
<1>4. user'.op = kind /\ user'.left = S /\ user.left = {} /\ user.op = "none"
  BY <1>2 DEF NoCommand
<1>5. FileKinds' /\ ClearLeavesAll'
  BY <1>1, <1>2, <1>3, <1>4 DEF FilesInv, FileKinds, ClearLeavesAll
<1>6. ASSUME NEW x \in Remote PROVE Agreed(x)'
  <2>1. Agreed(x) /\ Entries' = Entries
    BY <1>2 DEF FilesInv, Entries
  <2>2. /\ x \in adrift => x \in adrift'
        /\ (x \in S /\ x \in Recorded /\ stage[x] = "recorded") => x \in adrift'
        /\ (x \in S /\ x \in Recorded /\ boot = "loaded" /\ x \in loaded)
             => x \in adrift'
    BY <1>2
  <2>3. NotYet(x)' /\ RecordStays(x)' /\ SharedIfRecorded(x)' /\ LoadedStays(x)'
    BY <1>2, <1>3, <2>1, <2>2 DEF Agreed, NotYet, RecordStays, SharedIfRecorded,
                                  LoadedStays
  <2>4. RecordedIfShared(x)'
    <3>1. Disturbed(x)' <=> x \in adrift' \/ x \in S
      BY <1>4 DEF Disturbed
    <3>2. Disturbed(x) <=> x \in adrift
      BY <1>4 DEF Disturbed
    <3> QED BY <1>2, <1>3, <2>1, <2>2, <3>1, <3>2 DEF Agreed, RecordedIfShared
  <2>5. LeftGone(x)'
    BY <1>1, <1>2, <1>3, <1>4, <2>1 DEF Agreed, NotYet, LeftGone
  <2> QED BY <2>3, <2>4, <2>5 DEF Agreed
<1> QED BY <1>5, <1>6 DEF FilesInv

LEMMA RemoveEntryKeeps ==
  ASSUME Kinds, FilesInv, NEW r \in Ids, RemoveEntry(r)
  PROVE  FilesInv'
<1> USE DEF Stages, Early
<1>1. /\ user.op = "delete" /\ r \in user.left
      /\ share' = [share EXCEPT ![r] = Absent]
      /\ user' = IF user.left = {r} THEN NoCommand
                 ELSE [user EXCEPT !.left = @ \ {r}]
      /\ UNCHANGED <<history, stage, loaded, boot, adrift>>
      /\ user \in [op : {"none", "clear", "delete"}, left : SUBSET Remote]
      /\ share \in [Ids -> Held]
  BY DEF RemoveEntry, FilesInv, FileKinds, Kinds
<1>2. /\ user' \in [op : {"none", "clear", "delete"}, left : SUBSET Remote]
      /\ user'.op \in {"none", "delete"} /\ user'.left = user.left \ {r}
  <2>1. CASE user.left = {r}
    BY <1>1, <2>1 DEF NoCommand
  <2>2. CASE user.left # {r}
    BY <1>1, <2>2
  <2> QED BY <2>1, <2>2
<1>3. FileKinds' /\ ClearLeavesAll'
  BY <1>1, <1>2 DEF FilesInv, FileKinds, ClearLeavesAll
<1>4. ASSUME NEW x \in Remote PROVE Agreed(x)'
  <2>1. Agreed(x) /\ x \in Ids /\ Recorded' = Recorded
    BY <1>1 DEF FilesInv, Ids, Recorded
  <2>2. CASE x = r
    <3>1. x \notin Recorded /\ stage[x] \notin Early /\ x \notin Entries'
      BY <1>1, <2>1, <2>2 DEF Agreed, LeftGone, Entries
    <3> QED BY <1>1, <1>2, <2>1, <3>1 DEF Agreed, NotYet, RecordStays,
                SharedIfRecorded, RecordedIfShared, LeftGone, LoadedStays
  <2>3. CASE x # r
    <3>1. /\ x \in Entries' <=> x \in Entries
          /\ x \in user'.left <=> x \in user.left
      BY <1>1, <1>2, <2>1, <2>3 DEF Entries
    <3>2. Disturbed(x)' <=> Disturbed(x)
      BY <1>1, <3>1 DEF Disturbed
    <3> QED BY <1>1, <2>1, <3>1, <3>2 DEF Agreed, NotYet, RecordStays,
                SharedIfRecorded, RecordedIfShared, LeftGone, LoadedStays
  <2> QED BY <2>2, <2>3
<1> QED BY <1>3, <1>4 DEF FilesInv

LEMMA ClearAllKeeps ==
  ASSUME FilesInv, ClearAll
  PROVE  FilesInv'
<1> USE DEF Stages, Early
<1>1. /\ share' = [r \in Ids |-> Absent]
      /\ user' = NoCommand
      /\ adrift' = adrift \cup (Recorded \cap Entries)
      /\ UNCHANGED <<history, stage, loaded, boot>>
  BY DEF ClearAll
<1>2. FileKinds' /\ ClearLeavesAll'
  BY <1>1 DEF FilesInv, FileKinds, ClearLeavesAll, NoCommand
<1>3. ASSUME NEW x \in Remote PROVE Agreed(x)'
  <2>1. Agreed(x) /\ Recorded' = Recorded /\ x \notin Entries'
    BY <1>1 DEF FilesInv, Recorded, Entries
  <2>2. user'.op = "none"
    BY <1>1 DEF NoCommand
  <2> QED BY <1>1, <2>1, <2>2 DEF Agreed, NotYet, RecordStays,
                SharedIfRecorded, RecordedIfShared, LeftGone, LoadedStays
<1> QED BY <1>2, <1>3 DEF FilesInv

LEMMA LoadHistoryKeeps ==
  ASSUME FilesInv, LoadHistory
  PROVE  FilesInv'
<1> USE DEF Stages, Early
<1>1. /\ loaded' \subseteq Recorded
      /\ UNCHANGED <<history, share, stage, user, adrift>>
  BY DEF LoadHistory, HistoryRead
<1>2. FileKinds' /\ ClearLeavesAll'
  BY <1>1 DEF FilesInv, FileKinds, ClearLeavesAll
<1>3. ASSUME NEW x \in Remote PROVE Agreed(x)'
  <2>1. /\ Agreed(x) /\ Recorded' = Recorded /\ Entries' = Entries
        /\ Disturbed(x)' = Disturbed(x)
    BY <1>1 DEF FilesInv, Recorded, Entries, Disturbed
  <2> QED BY <1>1, <2>1 DEF Agreed, NotYet, RecordStays,
                SharedIfRecorded, RecordedIfShared, LeftGone, LoadedStays
<1> QED BY <1>2, <1>3 DEF FilesInv

(* After the sync the files agree about all records but those it names.    *)
LEMMA SyncKeeps ==
  ASSUME FilesInv, SyncFromHistory
  PROVE  FilesInv'
<1> USE DEF Stages, Early
<1>1. /\ boot = "loaded" /\ boot' = "synced"
      /\ share' = [r \in Ids |-> Synced(r)]
      /\ adrift' = {r \in adrift \ Recorded : r \in loaded \/ stage[r] = "recorded"}
                   \cup {r \in Recorded \ loaded : stage[r] = "done"}
      /\ UNCHANGED <<history, stage, user, loaded>>
  BY DEF SyncFromHistory
<1>2. FileKinds' /\ ClearLeavesAll'
  BY <1>1 DEF FilesInv, FileKinds, ClearLeavesAll
<1>3. ASSUME NEW x \in Remote PROVE Agreed(x)'
  <2>1. Agreed(x) /\ Recorded' = Recorded /\ x \in Ids
    BY <1>1 DEF FilesInv, Recorded, Ids
  <2>2. x \in Entries' <=> x \in loaded
    BY <1>1, <2>1, NewIsNotAbsent DEF Entries, Synced
  <2>3. x \in adrift' <=>
          \/ x \in adrift /\ x \notin Recorded
             /\ (x \in loaded \/ stage[x] = "recorded")
          \/ x \in Recorded /\ x \notin loaded /\ stage[x] = "done"
    BY <1>1
  <2>4. Disturbed(x)' <=> x \in adrift' \/ x \in user.left
    BY <1>1 DEF Disturbed
  <2> QED BY <1>1, <2>1, <2>2, <2>3, <2>4 DEF Agreed, NotYet, RecordStays,
                SharedIfRecorded, RecordedIfShared, LeftGone, LoadedStays
<1> QED BY <1>2, <1>3 DEF FilesInv

(* A stop leaves the files as they were unless one was being written.      *)
LEMMA CrashKeeps ==
  ASSUME FilesInv, Crash
  PROVE  FilesInv'
<1> USE DEF Stages, Early
<1>1. /\ user' = NoCommand /\ boot' = "off" /\ loaded' = {}
      /\ history' = IF "history" \in torn THEN <<>> ELSE history
      /\ share' = IF "shares" \in torn THEN [r \in Ids |-> Absent] ELSE share
      /\ stage' = [r \in Ids |-> IF stage[r] = "none" THEN "none" ELSE "done"]
      /\ adrift' = adrift \cup user.left
                   \cup (IF torn = {} THEN {} ELSE Recorded \cup (Entries \cap Remote))
                   \cup {r \in Remote : stage[r] = "recorded"}
      /\ stage \in [Ids -> Stages] /\ history \in Seq(Remote)
  BY DEF Crash, FilesInv, FileKinds
<1>2. FileKinds' /\ ClearLeavesAll'
  <2>1. history' \in Seq(Remote)
    BY <1>1
  <2> QED BY <1>1, <2>1 DEF FilesInv, FileKinds, ClearLeavesAll, NoCommand
<1>3. ASSUME NEW x \in Remote PROVE Agreed(x)'
  <2>1. Agreed(x) /\ x \in Ids
    BY DEF FilesInv, Ids
  <2>2. /\ x \in Recorded' => x \in Recorded
        /\ torn = {} => Recorded' = Recorded
    BY <1>1 DEF Recorded, ToSet
  <2>3. /\ x \in Entries' => x \in Entries
        /\ torn = {} => Entries' = Entries
    BY <1>1, <2>1 DEF Entries
  <2>4. /\ stage[x] = "none" => stage'[x] = "none"
        /\ stage[x] # "none" => stage'[x] = "done"
        /\ stage[x] \in Stages
    BY <1>1, <2>1
  <2>5. /\ x \in adrift \/ x \in user.left => x \in adrift'
        /\ stage[x] = "recorded" => x \in adrift'
        /\ torn # {} /\ (x \in Recorded \/ x \in Entries) => x \in adrift'
    BY <1>1
  <2>6. user'.op = "none" /\ x \notin user'.left /\ (Disturbed(x)' <=> x \in adrift')
    BY <1>1 DEF NoCommand, Disturbed
  <2>7. NotYet(x)' /\ RecordStays(x)' /\ LeftGone(x)' /\ LoadedStays(x)'
    BY <1>1, <2>1, <2>2, <2>3, <2>4, <2>6 DEF Agreed, NotYet, RecordStays, LeftGone,
                                           LoadedStays
  <2>8. SharedIfRecorded(x)' /\ RecordedIfShared(x)'
    <3>1. CASE torn = {}
      BY <2>1, <2>2, <2>3, <2>4, <2>5, <2>6, <3>1
         DEF Agreed, NotYet, SharedIfRecorded, RecordedIfShared, Disturbed
    <3>2. CASE torn # {}
      BY <2>2, <2>3, <2>5, <2>6, <3>2 DEF SharedIfRecorded, RecordedIfShared
    <3> QED BY <3>1, <3>2
  <2> QED BY <2>7, <2>8 DEF Agreed
<1> QED BY <1>2, <1>3 DEF FilesInv

-----------------------------------------------------------------------------
LEMMA FilesStart == Init => FilesInv
<1> SUFFICES ASSUME Init PROVE FilesInv
  OBVIOUS
<1>1. Recorded = {} /\ Entries = {}
  BY DEF Init, Recorded, Entries, ToSet
<1>2. FileKinds /\ ClearLeavesAll
  BY DEF Init, FileKinds, ClearLeavesAll, NoCommand, Stages
<1>3. \A r \in Remote : Agreed(r)
  BY <1>1 DEF Init, Ids, NoCommand, Agreed, NotYet, RecordStays, SharedIfRecorded,
              RecordedIfShared, LeftGone, LoadedStays
<1> QED BY <1>2, <1>3 DEF FilesInv

LEMMA FilesStep == IInv /\ FilesInv /\ [Next]_vars => FilesInv'
<1> SUFFICES ASSUME IInv, FilesInv, [Next]_vars PROVE FilesInv'
  OBVIOUS
<1>0. Kinds
  BY DEF IInv
<1>1. CASE UNCHANGED vars
  BY <1>0, <1>1, UnheardSteps
<1>2. CASE Tasks
  <2>1. CASE \E r \in Remote : AddRecord(r) \/ Upsert(r)
    BY <1>0, <2>1, AddRecordKeeps, UpsertKeeps
  <2>2. CASE \/ \E t \in hashing : ComputeFileSha256(t) \/ UpdateMd5(t)
             \/ \E f \in {"history", "shares"} : Written(f)
    BY <1>0, <2>2, UnheardSteps
  <2> QED BY <1>2, <2>1, <2>2 DEF Tasks
<1>3. CASE \E r \in Ids : Deliver(r) \/ AddLocalFileToShare(r) \/ RemoveEntry(r)
  BY <1>0, <1>3, DeliverKeeps, UnheardSteps, RemoveEntryKeeps
<1>4. CASE \/ \E r \in Ids, b \in BOOLEAN : SetExcluded(r, b)
           \/ \E p \in Paths : RemoveFile(p)
           \/ LoadEntries \/ Start
           \/ \E md5 \in Hashes \cup {NoHash}, id \in Ids \cup {Absent} :
                 FindShared(md5, id) \/ SearchHistory(md5, id)
           \/ IncrementDownloadCount
  BY <1>0, <1>4, UnheardSteps
<1>5. CASE \/ \E S \in SUBSET Remote : DeleteTransferRecords(S)
           \/ ClearTransferHistory
  BY <1>5, DeleteKeeps
<1>6. CASE ClearAll \/ LoadHistory \/ SyncFromHistory \/ Crash
  BY <1>6, ClearAllKeeps, LoadHistoryKeeps, SyncKeeps, CrashKeeps
<1> QED BY <1>1, <1>2, <1>3, <1>4, <1>5, <1>6 DEF Next

(* A finished transfer is shared if and only if it is recorded, for every  *)
(* number of transfers, whatever commands, syncs and stops come between    *)
(* the writes of the two files, unless it is one of those named adrift     *)
(* (sync_from_history, delete_transfer_records, clear_transfer_history).   *)
THEOREM FilesAgree == Spec => []SharesFollowHistory
<1>1. Init => IInv /\ FilesInv
  BY Start0, FilesStart
<1>2. IInv /\ FilesInv /\ [Next]_vars => (IInv /\ FilesInv)'
  BY StepKeeps, FilesStep
<1>3. FilesInv => SharesFollowHistory
  BY DEF FilesInv, Agreed, SharedIfRecorded, RecordedIfShared, SharesFollowHistory,
         Disturbed
<1> QED BY <1>1, <1>2, <1>3, PTL DEF Spec

-----------------------------------------------------------------------------
(***************************************************************************)
(* The conversations, for any number of peers, calls and stops and any old *)
(* conversations.                                                          *)
(***************************************************************************)

Maps    == UNION {[D -> Nat] : D \in SUBSET Keys}
Texts   == Seq([seq : Nat, glued : BOOLEAN])
Phases  == {"idle", "ensure", "migrating", "ensured", "append", "line", "want",
            "have", "open", "reading"}
OpRecord == [pc : Phases, does : {"none", "save", "read"}, then : {"idle", "ensured"},
             n : Nat, map : Maps]
Tallies == [pc : {"idle", "scan", "open"}, map : Maps, left : SUBSET Keys,
            changed : BOOLEAN]

Types ==
  /\ file \in [Peers -> Texts \cup {NoFile}]
  /\ half \in SUBSET Peers /\ hurt \in SUBSET Peers
  /\ index \in Maps \cup {NoIndex, Torn, Corrupt}
  /\ op \in [Peers -> OpRecord]
  /\ count_lock \in Peers \cup {Nobody}
  /\ counting \in Tallies
  /\ cursor \in [Peers -> Nat] /\ shown \in [Peers -> Nat]

(* What the call that holds the lock of a peer may rely on.                *)
Saving   == {"line", "want", "have", "open"}
Counting == {"have", "open"}

Sound(p) ==
  /\ op[p].pc = "reading" => file[p] # NoFile /\ op[p].n = Len(file[p])
  /\ op[p].pc \in Counting <=> count_lock = p
  /\ op[p].pc \in Counting => p \in DOMAIN op[p].map /\ op[p].map[p] = op[p].n
  /\ op[p].pc \in {"ensured", "append"} /\ file[p] = NoFile => Legacy[p] = 0
  /\ op[p].pc \in Saving => file[p] # NoFile
  /\ shown[p] = cursor[p]

(* A conversation nothing bad has happened to.                             *)
Numbered(p) ==
  /\ \A i \in DOMAIN Messages(p) : Messages(p)[i] = [seq |-> i, glued |-> FALSE]
  /\ (file[p] # NoFile /\ op[p].pc # "migrating") => Len(file[p]) >= Legacy[p]

Clean(p) ==
  p \notin hurt =>
    /\ p \in half => op[p].pc = "line"
    /\ op[p].pc = "append" => op[p].n = Len(Messages(p)) + 1
    /\ op[p].pc \in Saving => op[p].n = Len(file[p])
    /\ Numbered(p)

(* Between the append and set_count the index is behind the conversation.  *)
(* At all other times it is right about the peer, and so is what another   *)
(* set_count has read of it.                                               *)
Behind     == {"migrating", "line", "want", "have"}
Settled(p) == p \notin hurt /\ op[p].pc \notin Behind

Expected(p)    == IF file[p] = NoFile THEN Legacy[p] ELSE Len(file[p])
MapRight(m, p) == p \in DOMAIN m => m[p] = Expected(p)

IndexRight(p) == index \notin {NoIndex, Torn, Corrupt} => MapRight(index, p)
CopiesRight(p) ==
  \A q \in Peers \ {p} : op[q].pc \in Counting => MapRight(op[q].map, p)

Truthful(p) == Settled(p) => IndexRight(p) /\ CopiesRight(p)

MessagesInv ==
  /\ Types
  /\ \A p \in Peers : Sound(p) /\ Clean(p) /\ Truthful(p)

-----------------------------------------------------------------------------
(* Maps and lines. *)

LEMMA EmptyIsMap == EmptyMap \in Maps
<1>1. EmptyMap \in [{} -> Nat]
  BY DEF EmptyMap
<1>2. {} \in SUBSET Keys
  OBVIOUS
<1> QED BY <1>1, <1>2 DEF Maps

LEMMA PutIsMap ==
  ASSUME NEW m \in Maps, NEW k \in Keys, NEW n \in Nat
  PROVE  /\ Put(m, k, n) \in Maps
         /\ k \in DOMAIN Put(m, k, n) /\ Put(m, k, n)[k] = n
         /\ \A p : p # k => (p \in DOMAIN Put(m, k, n) <=> p \in DOMAIN m)
         /\ \A p \in DOMAIN m : p # k => Put(m, k, n)[p] = m[p]
<1>1. PICK D \in SUBSET Keys : m \in [D -> Nat]
  BY DEF Maps
<1>2. Put(m, k, n) \in [D \cup {k} -> Nat]
  BY <1>1 DEF Put
<1>3. D \cup {k} \in SUBSET Keys
  BY <1>1
<1>4. Put(m, k, n) \in Maps
  BY <1>2, <1>3 DEF Maps
<1> QED BY <1>1, <1>4 DEF Put

(* A conversation without glued messages has as many lines as messages.    *)
LEMMA LinesCount ==
  ASSUME Types, NEW p \in Peers
  PROVE  /\ Messages(p) \in Texts /\ Len(Messages(p)) \in Nat
         /\ Lines(p) \in Nat
         /\ (\A i \in DOMAIN Messages(p) : ~Messages(p)[i].glued)
              => Lines(p) = Len(Messages(p))
<1>1. Messages(p) \in Texts
  BY DEF Types, Messages, Texts
<1> DEFINE d == DOMAIN Messages(p)
           S == {i \in d : ~Messages(p)[i].glued}
<1>2. d = 1..Len(Messages(p)) /\ Len(Messages(p)) \in Nat
  BY <1>1, LenProperties DEF Texts
<1>3. IsFiniteSet(d) /\ Cardinality(d) = Len(Messages(p))
  <2> DEFINE n == Len(Messages(p))
  <2>1. 1 \in Int /\ n \in Int
    BY <1>2
  <2>2. IsFiniteSet(1..n) /\ Cardinality(1..n) = IF 1 > n THEN 0 ELSE n - 1 + 1
    <3> HIDE DEF n
    <3> QED BY <2>1, FS_Interval
  <2> QED BY <1>2, <2>2
<1>4. IsFiniteSet(S)
  BY <1>3, FS_Subset
<1>5. Lines(p) \in Nat
  BY <1>4, FS_CardinalityType DEF Lines
<1>6. ASSUME \A i \in d : ~Messages(p)[i].glued PROVE Lines(p) = Len(Messages(p))
  <2>1. S = d
    BY <1>6
  <2> QED BY <2>1, <1>3 DEF Lines
<1> QED BY <1>1, <1>2, <1>5, <1>6

(* What get_all_counts finds outdated is what differs from Expected.       *)
LEMMA ExpectedIsLines ==
  ASSUME Types, NEW p \in Peers, p \notin hurt, Clean(p)
  PROVE  Expected(p) = IF file[p] = NoFile THEN Legacy[p] ELSE Lines(p)
<1>1. \A i \in DOMAIN Messages(p) : ~Messages(p)[i].glued
  BY DEF Clean, Numbered
<1>2. Lines(p) = Len(Messages(p))
  BY <1>1, LinesCount
<1> QED BY <1>2 DEF Expected, Messages

LEMMA ParsedIsMap == ASSUME Types, index # Corrupt PROVE Parsed \in Maps
  BY EmptyIsMap DEF Types, Parsed

LEMMA IdleIsRecord == Idle \in OpRecord /\ Idle.pc = "idle"
  BY EmptyIsMap DEF Idle, OpRecord, Phases

LEMMA WritesMap ==
  ASSUME NEW m \in Maps, Overwrites(m)
  PROVE  index' = m \/ index' = Corrupt
  BY DEF Overwrites

-----------------------------------------------------------------------------
(* Types. *)

(* The steps of the call on a peer.                                        *)
PeerStep(p) ==
  \/ Call(p, "save") \/ Call(p, "read")
  \/ Ensure(p) \/ Migrate(p) \/ CurrentCount(p)
  \/ AppendLine(p) \/ AppendNewline(p) \/ IndexFails(p)
  \/ SetCountReads(p) \/ SetCountTruncates(p) \/ SetCountWrites(p)
  \/ ReadLength(p) \/ ReadDelta(p)

LEMMA PeerTypes ==
  ASSUME Types, NEW p \in Peers, Sound(p), PeerStep(p)
  PROVE  Types'
<1> USE DEF OpRecord, Phases, Becomes
<1>0. /\ file \in [Peers -> Texts \cup {NoFile}]
      /\ half \in SUBSET Peers /\ hurt \in SUBSET Peers
      /\ index \in Maps \cup {NoIndex, Torn, Corrupt}
      /\ op \in [Peers -> OpRecord]
      /\ count_lock \in Peers \cup {Nobody}
      /\ counting \in Tallies
      /\ cursor \in [Peers -> Nat] /\ shown \in [Peers -> Nat]
  BY DEF Types
<1>1. ASSUME NEW does \in {"save", "read"}, Call(p, does) PROVE Types'
  <2>1. [Idle EXCEPT !.pc = "ensure", !.does = does] \in OpRecord
    BY IdleIsRecord
  <2>2. op' \in [Peers -> OpRecord]
    BY <1>0, <1>1, <2>1 DEF Call
  <2> QED BY <1>0, <1>1, <2>2 DEF Call, Types
<1>2. ASSUME Ensure(p) PROVE Types'
  <2>1. <<>> \in Texts
    BY EmptySeq DEF Texts
  <2>2. op' \in [Peers -> OpRecord]
    <3>1. PICK to \in {"migrating", "ensured"} : op' = [op EXCEPT ![p].pc = to]
      BY <1>2 DEF Ensure
    <3> QED BY <1>0, <3>1
  <2>3. file' \in [Peers -> Texts \cup {NoFile}]
    BY <1>0, <1>2, <2>1 DEF Ensure
  <2> QED BY <1>0, <1>2, <2>2, <2>3 DEF Ensure, Types
<1>3. ASSUME Migrate(p) PROVE Types'
  <2>1. Legacy[p] \in Nat
    BY MessagesConstantsOK DEF MessagesConstantsOK
  <2>2. [i \in 1..Legacy[p] |-> [seq |-> i, glued |-> FALSE]] \in Texts
    <3> DEFINE S == [seq : Nat, glued : BOOLEAN]
               f == [i \in 1..Legacy[p] |-> [seq |-> i, glued |-> FALSE]]
    <3>1. f \in [1..Legacy[p] -> S]
      OBVIOUS
    <3>2. f \in UNION {[1..n -> S] : n \in Nat}
      BY <2>1, <3>1
    <3> QED BY <3>2, SeqDef DEF Texts
  <2>3. file' \in [Peers -> Texts \cup {NoFile}]
    BY <1>0, <1>3, <2>2 DEF Migrate
  <2>4. op' \in [Peers -> OpRecord]
    <3> DEFINE o == [op EXCEPT ![p].pc = "want"]
               q == [o EXCEPT ![p].then = "ensured"]
    <3>1. o \in [Peers -> OpRecord]
      BY <1>0
    <3>2. q \in [Peers -> OpRecord]
      <4> HIDE DEF o
      <4> QED BY <3>1
    <3>3. [q EXCEPT ![p].n = Legacy[p]] \in [Peers -> OpRecord]
      <4> HIDE DEF q
      <4> QED BY <2>1, <3>2
    <3>4. op' = [q EXCEPT ![p].n = Legacy[p]]
      BY <1>3 DEF Migrate
    <3> QED BY <3>3, <3>4
  <2> QED BY <1>0, <1>3, <2>3, <2>4 DEF Migrate, Types
<1>4. ASSUME CurrentCount(p) PROVE Types'
  <2>1. Counted(p) \in Nat
    <3>1. CASE p \in DOMAIN Parsed
      <4>1. Parsed \in Maps
        BY <1>4, ParsedIsMap DEF CurrentCount
      <4>2. PICK D \in SUBSET Keys : Parsed \in [D -> Nat]
        BY <4>1 DEF Maps
      <4> QED BY <3>1, <4>2 DEF Counted
    <3>2. CASE p \notin DOMAIN Parsed
      BY <3>2, LinesCount DEF Counted
    <3> QED BY <3>1, <3>2
  <2>2. op' = [op EXCEPT ![p].pc = "append", ![p].n = Counted(p) + 1]
    BY <1>4 DEF CurrentCount
  <2>3. op' \in [Peers -> OpRecord]
    <3> DEFINE o == [op EXCEPT ![p].pc = "append"]
    <3>1. o \in [Peers -> OpRecord]
      BY <1>0
    <3>2. [o EXCEPT ![p].n = Counted(p) + 1] \in [Peers -> OpRecord]
      <4> HIDE DEF o
      <4>1. Counted(p) + 1 \in Nat
        BY <2>1
      <4> QED BY <3>1, <4>1
    <3> QED BY <2>2, <3>2
  <2> QED BY <1>0, <1>4, <2>3 DEF CurrentCount, Types
<1>5. ASSUME AppendLine(p) PROVE Types'
  <2>1. [seq |-> op[p].n, glued |-> p \in half] \in [seq : Nat, glued : BOOLEAN]
    BY <1>0
  <2>2. Append(Messages(p), [seq |-> op[p].n, glued |-> p \in half]) \in Texts
    BY <2>1, LinesCount, AppendProperties DEF Texts
  <2>3. file' \in [Peers -> Texts \cup {NoFile}]
    BY <1>0, <1>5, <2>2 DEF AppendLine
  <2>4. op' \in [Peers -> OpRecord]
    BY <1>0, <1>5 DEF AppendLine
  <2>5. half' \in SUBSET Peers
    BY <1>0, <1>5 DEF AppendLine
  <2>6. UNCHANGED <<index, count_lock, counting, cursor, shown, hurt>>
    BY <1>5 DEF AppendLine
  <2> HIDE DEF OpRecord
  <2> QED BY <1>0, <2>3, <2>4, <2>5, <2>6 DEF Types
<1>6. ASSUME AppendNewline(p) PROVE Types'
  <2>1. half' \in SUBSET Peers
    BY <1>0, <1>6 DEF AppendNewline
  <2>2. op' \in [Peers -> OpRecord]
    <3> DEFINE o == [op EXCEPT ![p].pc = "want"]
    <3>1. o \in [Peers -> OpRecord]
      BY <1>0
    <3>2. [o EXCEPT ![p].then = "idle"] \in [Peers -> OpRecord]
      <4> HIDE DEF o
      <4> QED BY <3>1
    <3> QED BY <1>6, <3>2 DEF AppendNewline
  <2> QED BY <1>0, <1>6, <2>1, <2>2 DEF AppendNewline, Types
<1>7. ASSUME IndexFails(p) PROVE Types'
  <2>1. op' \in [Peers -> OpRecord]
    BY <1>0, <1>7, IdleIsRecord DEF IndexFails
  <2> QED BY <1>0, <1>7, <2>1 DEF IndexFails, Types
<1>8. ASSUME SetCountReads(p) PROVE Types'
  <2>1. Put(Parsed, p, op[p].n) \in Maps
    BY <1>0, <1>8, ParsedIsMap, PutIsMap DEF SetCountReads, Keys
  <2>2. op' = [op EXCEPT ![p].pc = "have", ![p].map = Put(Parsed, p, op[p].n)]
    BY <1>8 DEF SetCountReads
  <2>3. op' \in [Peers -> OpRecord]
    <3> DEFINE o == [op EXCEPT ![p].pc = "have"]
    <3>1. o \in [Peers -> OpRecord]
      BY <1>0
    <3>2. [o EXCEPT ![p].map = Put(Parsed, p, op[p].n)] \in [Peers -> OpRecord]
      <4> HIDE DEF o
      <4> QED BY <2>1, <3>1
    <3> QED BY <2>2, <3>2
  <2> QED BY <1>0, <1>8, <2>3 DEF SetCountReads, Types
<1>9. ASSUME SetCountTruncates(p) PROVE Types'
  <2>1. op' \in [Peers -> OpRecord]
    BY <1>0, <1>9 DEF SetCountTruncates
  <2> QED BY <1>0, <1>9, <2>1 DEF SetCountTruncates, Types
<1>10. ASSUME SetCountWrites(p) PROVE Types'
  <2>1. [Idle EXCEPT !.pc = op[p].then, !.does = op[p].does] \in OpRecord
    BY <1>0, IdleIsRecord
  <2>2. op' \in [Peers -> OpRecord]
    BY <1>0, <1>10, <2>1, IdleIsRecord DEF SetCountWrites
  <2>3. index' \in Maps \cup {NoIndex, Torn, Corrupt}
    BY <1>0, <1>10, WritesMap DEF SetCountWrites
  <2> QED BY <1>0, <1>10, <2>2, <2>3 DEF SetCountWrites, Types
<1>11. ASSUME ReadLength(p) PROVE Types'
  <2>1. file[p] # NoFile => Len(file[p]) \in Nat
    BY <1>0, LinesCount DEF Messages
  <2>2. op' \in [Peers -> OpRecord]
    BY <1>0, <1>11, <2>1, IdleIsRecord DEF ReadLength
  <2> QED BY <1>0, <1>11, <2>2 DEF ReadLength, Types
<1>12. ASSUME ReadDelta(p) PROVE Types'
  <2>1. op' \in [Peers -> OpRecord]
    BY <1>0, <1>12, IdleIsRecord DEF ReadDelta
  <2>2. /\ op[p].n \in Nat /\ op[p].pc = "reading"
        /\ UNCHANGED <<file, half, index, count_lock, counting, hurt>>
    BY <1>0, <1>12 DEF ReadDelta
  <2>3. cursor' \in [Peers -> Nat]
    BY <1>0, <1>12, <2>2 DEF ReadDelta
  <2>4. shown' \in [Peers -> Nat]
    <3>1. shown[p] = cursor[p] /\ shown[p] \in Nat
      BY <1>0 DEF Sound
    <3>2. file[p] \in Texts /\ Len(file[p]) \in Nat
      BY <1>0, <2>2, LinesCount DEF Sound, Messages
    <3>3. \/ shown' = shown
          \/ shown' = [shown EXCEPT ![p] = Len(file[p])]
      BY <1>0, <1>12, <3>1, <3>2 DEF ReadDelta, Seek
    <3> QED BY <1>0, <3>2, <3>3
  <2> HIDE DEF OpRecord
  <2> QED BY <1>0, <2>1, <2>2, <2>3, <2>4 DEF Types
<1> QED
  BY <1>1, <1>2, <1>3, <1>4, <1>5, <1>6, <1>7, <1>8, <1>9, <1>10, <1>11, <1>12 DEF PeerStep

LEMMA OtherTypes ==
  ASSUME Types,
         \/ (\E k \in Keys : CountsScan(k)) \/ CountsRead \/ CountsTruncates
         \/ CountsWrites \/ Stop
  PROVE  Types'
<1>0. /\ file \in [Peers -> Texts \cup {NoFile}]
      /\ half \in SUBSET Peers /\ hurt \in SUBSET Peers
      /\ index \in Maps \cup {NoIndex, Torn, Corrupt}
      /\ op \in [Peers -> OpRecord]
      /\ count_lock \in Peers \cup {Nobody}
      /\ counting \in Tallies
      /\ cursor \in [Peers -> Nat] /\ shown \in [Peers -> Nat]
  BY DEF Types
<1>1. NotCounting \in Tallies
  BY EmptyIsMap DEF NotCounting, Tallies
<1>2. ASSUME NEW k \in Keys, CountsScan(k) PROVE Types'
  <2>1. UNCHANGED <<file, half, index, op, count_lock, cursor, shown, hurt>>
    BY <1>2 DEF CountsScan
  <2> DEFINE lines == IF k = Counts THEN 0
                      ELSE IF file[k] # NoFile THEN Lines(k) ELSE Legacy[k]
  <2>2. lines \in Nat
    <3>1. k \in Peers \/ k = Counts
      BY DEF Keys
    <3>2. k \in Peers => Lines(k) \in Nat /\ Legacy[k] \in Nat
      BY LinesCount, MessagesConstantsOK DEF MessagesConstantsOK
    <3> QED BY <3>1, <3>2
  <2>3. \/ counting' = [counting EXCEPT !.left = @ \ {k}]
        \/ counting' = [counting EXCEPT !.left = @ \ {k}, !.changed = TRUE,
                                        !.map = Put(@, k, lines)]
    BY <1>2 DEF CountsScan
  <2>4. Put(counting.map, k, lines) \in Maps
    <3> HIDE DEF lines
    <3> QED BY <1>0, <2>2, PutIsMap DEF Tallies
  <2>5. counting' \in Tallies
    <3> HIDE DEF lines
    <3> QED BY <1>0, <2>3, <2>4 DEF Tallies
  <2> QED BY <1>0, <2>1, <2>5 DEF Types
<1>3. ASSUME CountsRead PROVE Types'
  <2>1. UNCHANGED <<file, half, index, op, count_lock, cursor, shown, hurt>>
    BY <1>3 DEF CountsRead
  <2>2. index # Corrupt => Parsed \in Maps
    BY ParsedIsMap
  <2>3. counting' \in Tallies
    BY <1>3, <2>2, EmptyIsMap DEF CountsRead, Tallies
  <2> QED BY <1>0, <2>1, <2>3 DEF Types
<1>4. ASSUME CountsTruncates PROVE Types'
  <2>1. UNCHANGED <<file, half, op, count_lock, cursor, shown, hurt>>
    BY <1>4 DEF CountsTruncates
  <2>2. counting' \in Tallies /\ index' \in Maps \cup {NoIndex, Torn, Corrupt}
    BY <1>0, <1>1, <1>4 DEF CountsTruncates, Tallies
  <2> QED BY <1>0, <2>1, <2>2 DEF Types
<1>5. ASSUME CountsWrites PROVE Types'
  <2>1. UNCHANGED <<file, half, op, count_lock, cursor, shown>>
    BY <1>5 DEF CountsWrites
  <2>2. counting.map \in Maps
    BY <1>0 DEF Tallies
  <2>3. index' = counting.map \/ index' = Corrupt
    BY <1>5, <2>2, WritesMap DEF CountsWrites
  <2>4. hurt' \in SUBSET Peers /\ counting' = NotCounting
    BY <1>0, <1>5 DEF CountsWrites, Outdated
  <2> QED BY <1>0, <1>1, <2>1, <2>2, <2>3, <2>4 DEF Types
<1>6. ASSUME Stop PROVE Types'
  <2>1. UNCHANGED <<file, half, index>>
    BY <1>6 DEF Stop
  <2>2. op' \in [Peers -> OpRecord] /\ counting' \in Tallies
    BY <1>1, <1>6, IdleIsRecord DEF Stop
  <2>3. hurt' \in SUBSET Peers /\ count_lock' = Nobody
    BY <1>0, <1>6 DEF Stop
  <2>4. cursor' \in [Peers -> Nat] /\ shown' \in [Peers -> Nat]
    BY <1>6 DEF Stop
  <2> QED BY <1>0, <2>1, <2>2, <2>3, <2>4 DEF Types
<1> QED BY <1>2, <1>3, <1>4, <1>5, <1>6

-----------------------------------------------------------------------------
(* The conversations.  The call on a peer changes nothing of another one.  *)
Aside(q) ==
  /\ file'[q] = file[q] /\ op'[q] = op[q]
  /\ q \in half' <=> q \in half
  /\ q \in hurt => q \in hurt'
  /\ count_lock' = q <=> count_lock = q
  /\ cursor'[q] = cursor[q] /\ shown'[q] = shown[q]

LEMMA AsideKeeps ==
  ASSUME NEW q \in Peers, Aside(q), Sound(q), Clean(q)
  PROVE  Sound(q)' /\ Clean(q)'
<1>1. Sound(q)'
  BY DEF Aside, Sound
<1>2. Messages(q)' = Messages(q)
  BY DEF Aside, Messages
<1>3. Clean(q)'
  BY <1>2 DEF Aside, Clean, Numbered
<1> QED BY <1>1, <1>3

LEMMA OthersAside ==
  ASSUME MessagesInv, NEW p \in Peers, PeerStep(p), NEW q \in Peers, q # p
  PROVE  Aside(q)
<1> USE DEF Aside, Becomes
<1>0. /\ file \in [Peers -> Texts \cup {NoFile}] /\ op \in [Peers -> OpRecord]
      /\ cursor \in [Peers -> Nat] /\ shown \in [Peers -> Nat]
      /\ Nobody \notin Peers
  BY MessagesConstantsOK DEF MessagesInv, Types, MessagesConstantsOK
<1>1. ASSUME Call(p, "save") \/ Call(p, "read") PROVE Aside(q)
  BY <1>0, <1>1 DEF Call
<1>2. ASSUME Ensure(p) PROVE Aside(q)
  BY <1>0, <1>2 DEF Ensure
<1>3. ASSUME Migrate(p) PROVE Aside(q)
  BY <1>0, <1>3 DEF Migrate
<1>4. ASSUME CurrentCount(p) PROVE Aside(q)
  BY <1>0, <1>4 DEF CurrentCount
<1>5. ASSUME AppendLine(p) PROVE Aside(q)
  BY <1>0, <1>5 DEF AppendLine
<1>6. ASSUME AppendNewline(p) PROVE Aside(q)
  BY <1>0, <1>6 DEF AppendNewline
<1>7. ASSUME IndexFails(p) PROVE Aside(q)
  BY <1>0, <1>7 DEF IndexFails
<1>8. ASSUME SetCountReads(p) PROVE Aside(q)
  BY <1>0, <1>8 DEF SetCountReads, CountLockFree
<1>9. ASSUME SetCountTruncates(p) PROVE Aside(q)
  BY <1>0, <1>9 DEF SetCountTruncates
<1>10. ASSUME SetCountWrites(p) PROVE Aside(q)
  <2>1. count_lock = p
    BY <1>10 DEF SetCountWrites, MessagesInv, Sound, Counting
  <2> QED BY <1>0, <1>10, <2>1 DEF SetCountWrites
<1>11. ASSUME ReadLength(p) PROVE Aside(q)
  BY <1>0, <1>11 DEF ReadLength
<1>12. ASSUME ReadDelta(p) PROVE Aside(q)
  BY <1>0, <1>12 DEF ReadDelta
<1> QED
  BY <1>1, <1>2, <1>3, <1>4, <1>5, <1>6, <1>7, <1>8, <1>9, <1>10, <1>11, <1>12 DEF PeerStep

LEMMA OwnKeeps ==
  ASSUME MessagesInv, NEW p \in Peers, PeerStep(p)
  PROVE  Sound(p)' /\ Clean(p)'
<1> DEFINE f == file[p]
           o == op[p]
           l == Len(Messages(p))
<1>0. /\ file \in [Peers -> Texts \cup {NoFile}] /\ op \in [Peers -> OpRecord]
      /\ cursor \in [Peers -> Nat] /\ shown \in [Peers -> Nat]
      /\ half \in SUBSET Peers
      /\ Nobody \notin Peers /\ NoFile \notin Texts /\ Legacy[p] \in Nat
  BY MessagesConstantsOK DEF MessagesInv, Types, MessagesConstantsOK, Texts
<1>00. Sound(p) /\ Clean(p)
  BY DEF MessagesInv
<1>01. /\ o.n \in Nat /\ l \in Nat /\ Messages(p) \in Texts
       /\ DOMAIN Messages(p) = 1..l
       /\ f # NoFile => Messages(p) = f
       /\ f = NoFile => Messages(p) = <<>> /\ l = 0
  <2>1. o \in OpRecord
    BY <1>0
  <2>2. Messages(p) \in Texts /\ l \in Nat
    BY LinesCount DEF MessagesInv
  <2> QED BY <2>1, <2>2 DEF OpRecord, Messages, Texts
<1> USE DEF Saving, Counting, Becomes
<1> DEFINE Own == Sound(p)' /\ Clean(p)'
(* A step that leaves the conversation alone.                              *)
<1> DEFINE Still == UNCHANGED <<file, half, cursor, shown, hurt>>
<1>S. ASSUME Still PROVE Messages(p)' = Messages(p)
  BY <1>S DEF Messages
<1>1. ASSUME Call(p, "save") \/ Call(p, "read") PROVE Own
  <2>1. Still /\ count_lock' = count_lock /\ o.pc = "idle" /\ op'[p].pc = "ensure"
    <3>1. Still /\ count_lock' = count_lock /\ o = Idle
      BY <1>1 DEF Call, LockFree
    <3>2. \E does \in {"save", "read"} :
             op'[p] = [Idle EXCEPT !.pc = "ensure", !.does = does]
      BY <1>0, <1>1 DEF Call
    <3>3. op'[p].pc = "ensure"
      BY <3>2, IdleIsRecord DEF OpRecord
    <3> QED BY <3>1, <3>3, IdleIsRecord
  <2> QED BY <1>00, <1>S, <2>1 DEF Sound, Clean, Numbered
<1>2. ASSUME Ensure(p) PROVE Own
  <2>1. UNCHANGED <<half, cursor, shown, hurt, count_lock>> /\ o.pc = "ensure"
    BY <1>2 DEF Ensure
  <2>2. CASE f = NoFile /\ Legacy[p] > 0
    <3>1. op'[p].pc = "migrating" /\ file'[p] = <<>>
      BY <1>0, <1>2, <2>2 DEF Ensure, OpRecord
    <3>2. <<>> \in Texts
      BY EmptySeq DEF Texts
    <3>3. Messages(p)' = <<>>
      BY <3>1, <3>2, <1>0 DEF Messages
    <3> QED BY <1>00, <2>1, <3>1, <3>3 DEF Sound, Clean, Numbered
  <2>3. CASE ~(f = NoFile /\ Legacy[p] > 0)
    <3>1. op'[p].pc = "ensured" /\ file' = file
      BY <1>0, <1>2, <2>3 DEF Ensure, OpRecord
    <3> QED BY <1>0, <1>00, <1>S, <2>1, <2>3, <3>1 DEF Sound, Clean, Numbered
  <2> QED BY <2>2, <2>3
<1>3. ASSUME Migrate(p) PROVE Own
  <2> DEFINE g == [i \in 1..Legacy[p] |-> [seq |-> i, glued |-> FALSE]]
  <2>1. UNCHANGED <<half, cursor, shown, hurt, count_lock>> /\ o.pc = "migrating"
    BY <1>3 DEF Migrate
  <2>2. op'[p].pc = "want" /\ op'[p].n = Legacy[p] /\ file'[p] = g
    BY <1>0, <1>3 DEF Migrate, OpRecord
  <2>3. g \in Texts /\ Len(g) = Legacy[p] /\ DOMAIN g = 1..Legacy[p]
    <3>1. g \in [1..Legacy[p] -> [seq : Nat, glued : BOOLEAN]]
      OBVIOUS
    <3>2. g \in UNION {[1..n -> [seq : Nat, glued : BOOLEAN]] : n \in Nat}
      BY <1>0, <3>1
    <3>3. g \in Texts
      BY <3>2, SeqDef DEF Texts
    <3> QED BY <1>0, <3>1, <3>3
  <2>4. g # NoFile /\ Messages(p)' = g
    BY <1>0, <2>2, <2>3 DEF Messages
  <2>5. \A i \in DOMAIN g : g[i] = [seq |-> i, glued |-> FALSE]
    OBVIOUS
  <2> HIDE DEF g
  <2>6. Sound(p)'
    BY <1>00, <2>1, <2>2, <2>4 DEF Sound
  <2>7. Numbered(p)'
    <3>1. \A i \in DOMAIN Messages(p)' : Messages(p)'[i] = [seq |-> i, glued |-> FALSE]
      BY <2>4, <2>5
    <3>2. Len(file'[p]) >= Legacy[p]
      BY <1>0, <2>2, <2>3
    <3> QED BY <3>1, <3>2 DEF Numbered
  <2>8. Clean(p)'
    BY <1>00, <2>1, <2>2, <2>3, <2>7 DEF Clean
  <2> QED BY <2>6, <2>8
<1>4. ASSUME CurrentCount(p) PROVE Own
  <2>1. Still /\ count_lock' = count_lock /\ o.pc = "ensured" /\ index # Corrupt
    BY <1>4 DEF CurrentCount
  <2>2. op'[p].pc = "append" /\ op'[p].n = Counted(p) + 1
    BY <1>0, <1>4 DEF CurrentCount, OpRecord
  <2>3. ASSUME p \notin hurt PROVE Counted(p) = l
    <3>1. Settled(p)
      BY <2>1, <2>3 DEF Settled, Behind
    <3>2. Expected(p) = l
      BY <1>00, <1>01, <2>1 DEF Sound, Expected
    <3>3. CASE p \in DOMAIN Parsed
      <4>1. index \notin {NoIndex, Torn, Corrupt} /\ Parsed = index
        BY <2>1, <3>3 DEF Parsed, EmptyMap
      <4> QED BY <3>1, <3>2, <3>3, <4>1
              DEF Counted, MessagesInv, Truthful, IndexRight, MapRight
    <3>4. CASE p \notin DOMAIN Parsed
      <4>1. \A i \in DOMAIN Messages(p) : ~Messages(p)[i].glued
        BY <1>00, <2>3 DEF Clean, Numbered
      <4> QED BY <3>4, <4>1, LinesCount DEF Counted, MessagesInv
    <3> QED BY <3>3, <3>4
  <2> QED BY <1>00, <1>S, <2>1, <2>2, <2>3 DEF Sound, Clean, Numbered
<1>5. ASSUME AppendLine(p) PROVE Own
  <2> DEFINE m == [seq |-> o.n, glued |-> p \in half]
  <2>1. UNCHANGED <<cursor, shown, hurt, count_lock>> /\ o.pc = "append"
    BY <1>5 DEF AppendLine
  <2>2. /\ op'[p].pc = "line" /\ op'[p].n = o.n
        /\ file'[p] = Append(Messages(p), m)
    BY <1>0, <1>5 DEF AppendLine, OpRecord
  <2>3. /\ Append(Messages(p), m) \in Texts
        /\ Len(Append(Messages(p), m)) = l + 1
        /\ \A k \in 1..l : Append(Messages(p), m)[k] = Messages(p)[k]
        /\ Append(Messages(p), m)[l + 1] = m
    <3>1. m \in [seq : Nat, glued : BOOLEAN]
      BY <1>01
    <3> HIDE DEF m
    <3> QED BY <1>01, <3>1, PutElements DEF Texts
  <2>4. file'[p] # NoFile /\ Messages(p)' = Append(Messages(p), m)
    BY <1>0, <2>2, <2>3 DEF Messages
  <2>5. Sound(p)'
    BY <1>00, <2>1, <2>2, <2>4 DEF Sound
  <2>6. ASSUME p \notin hurt PROVE Numbered(p)' /\ o.n = l + 1
    <3>1. o.n = l + 1 /\ p \notin half
      BY <1>00, <2>1, <2>6 DEF Clean
    <3>2. DOMAIN Messages(p)' = 1..(l + 1)
      BY <2>3, <2>4 DEF Texts
    <3>3. \A i \in 1..(l + 1) : Messages(p)'[i] = [seq |-> i, glued |-> FALSE]
      <4>1. \A i \in 1..l : Messages(p)[i] = [seq |-> i, glued |-> FALSE]
        <5>1. Numbered(p)
          BY <1>00, <2>6 DEF Clean
        <5> HIDE DEF l
        <5> QED BY <1>01, <5>1 DEF Numbered
      <4>2. m = [seq |-> l + 1, glued |-> FALSE]
        <5>1. (p \in half) = FALSE
          BY <3>1
        <5> QED BY <3>1, <5>1
      <4>3. \A i \in 1..(l + 1) : i \in 1..l \/ i = l + 1
        BY <1>01
      <4> HIDE DEF m, l
      <4> QED BY <2>3, <2>4, <4>1, <4>2, <4>3
    <3>4. Len(file'[p]) >= Legacy[p]
      <4>1. l >= Legacy[p]
        <5>1. CASE f = NoFile
          BY <1>00, <1>01, <2>1, <5>1 DEF Sound
        <5>2. CASE f # NoFile
          BY <1>00, <1>01, <2>1, <2>6, <5>2 DEF Clean, Numbered
        <5> QED BY <5>1, <5>2
      <4>2. Len(file'[p]) = l + 1
        BY <2>2, <2>3
      <4> QED BY <1>0, <1>01, <4>1, <4>2
    <3> QED BY <3>1, <3>2, <3>3, <3>4 DEF Numbered
  <2>7. Len(file'[p]) = l + 1 /\ hurt' = hurt
    BY <2>1, <2>2, <2>3
  <2>8. Clean(p)'
    BY <2>2, <2>6, <2>7 DEF Clean
  <2> QED BY <2>5, <2>8
<1>6. ASSUME AppendNewline(p) PROVE Own
  <2>1. UNCHANGED <<file, cursor, shown, hurt, count_lock>> /\ o.pc = "line" /\ p \notin half'
    BY <1>6 DEF AppendNewline
  <2>2. op'[p].pc = "want" /\ op'[p].n = o.n
    BY <1>0, <1>6 DEF AppendNewline, OpRecord
  <2>3. Messages(p)' = Messages(p)
    BY <2>1 DEF Messages
  <2> QED BY <1>00, <2>1, <2>2, <2>3 DEF Sound, Clean, Numbered
<1>7. ASSUME IndexFails(p) PROVE Own
  <2>1. Still /\ count_lock' = count_lock /\ o.pc \in {"ensured", "want"} /\ op'[p] = Idle
    BY <1>0, <1>7 DEF IndexFails
  <2> QED BY <1>00, <1>S, <2>1, IdleIsRecord DEF Sound, Clean, Numbered
<1>8. ASSUME SetCountReads(p) PROVE Own
  <2>1. Still /\ count_lock' = p /\ o.pc = "want" /\ index # Corrupt
    BY <1>8 DEF SetCountReads
  <2>2. op'[p].pc = "have" /\ op'[p].n = o.n /\ op'[p].map = Put(Parsed, p, o.n)
    BY <1>0, <1>8 DEF SetCountReads, OpRecord
  <2>3. p \in DOMAIN op'[p].map /\ op'[p].map[p] = o.n
    <3>1. Parsed \in Maps /\ p \in Keys
      BY <2>1, ParsedIsMap DEF MessagesInv, Keys
    <3> QED BY <1>01, <2>2, <3>1, PutIsMap
  <2> QED BY <1>00, <1>S, <2>1, <2>2, <2>3 DEF Sound, Clean, Numbered
<1>9. ASSUME SetCountTruncates(p) PROVE Own
  <2>1. Still /\ count_lock' = count_lock /\ o.pc = "have"
    BY <1>9 DEF SetCountTruncates
  <2>2. op'[p].pc = "open" /\ op'[p].n = o.n /\ op'[p].map = o.map
    BY <1>0, <1>9 DEF SetCountTruncates, OpRecord
  <2> QED BY <1>00, <1>S, <2>1, <2>2 DEF Sound, Clean, Numbered
<1>10. ASSUME SetCountWrites(p) PROVE Own
  <2>1. Still /\ count_lock' = Nobody /\ o.pc = "open"
    BY <1>10 DEF SetCountWrites
  <2>2. op'[p].pc \in {"idle", "ensured"}
    <3>1. o.then \in {"idle", "ensured"}
      BY <1>0 DEF OpRecord
    <3>2. op'[p] = Idle \/ op'[p] = [Idle EXCEPT !.pc = o.then, !.does = o.does]
      BY <1>0, <1>10 DEF SetCountWrites
    <3> QED BY <3>1, <3>2, IdleIsRecord DEF OpRecord
  <2> QED BY <1>0, <1>00, <1>S, <2>1, <2>2 DEF Sound, Clean, Numbered
<1>11. ASSUME ReadLength(p) PROVE Own
  <2>1. Still /\ count_lock' = count_lock /\ o.pc = "ensured"
    BY <1>11 DEF ReadLength
  <2>2. \/ op'[p] = Idle
        \/ op'[p].pc = "reading" /\ op'[p].n = Len(f) /\ f # NoFile
    BY <1>0, <1>11 DEF ReadLength, OpRecord
  <2> QED BY <1>00, <1>S, <2>1, <2>2, IdleIsRecord DEF Sound, Clean, Numbered
<1>12. ASSUME ReadDelta(p) PROVE Own
  <2>1. /\ UNCHANGED <<file, half, hurt, count_lock>> /\ o.pc = "reading"
        /\ op'[p] = Idle
    BY <1>0, <1>12 DEF ReadDelta
  <2>2. Messages(p)' = Messages(p)
    BY <2>1 DEF Messages
  <2>3. f # NoFile /\ o.n = Len(f) /\ Len(f) \in Nat /\ shown[p] = cursor[p]
    BY <1>00, <1>01, <2>1 DEF Sound
  <2>4. shown'[p] = cursor'[p]
    <3>1. shown[p] \in Nat
      BY <1>0
    <3>2. \/ UNCHANGED <<cursor, shown>>
          \/ cursor'[p] = Len(f) /\ shown'[p] = Len(f)
      BY <1>0, <1>12, <2>3, <3>1 DEF ReadDelta, Seek
    <3> QED BY <2>3, <3>2
  <2> QED BY <1>00, <2>1, <2>2, <2>4, IdleIsRecord DEF Sound, Clean, Numbered
<1> QED
  BY <1>1, <1>2, <1>3, <1>4, <1>5, <1>6, <1>7, <1>8, <1>9, <1>10, <1>11, <1>12 DEF PeerStep

-----------------------------------------------------------------------------
(* The index. *)

LEMMA QuietTruth ==
  ASSUME NEW p \in Peers, Truthful(p), index' = index,
         \A q \in Peers : op'[q].pc \in Counting =>
                            op[q].pc \in Counting /\ op'[q].map = op[q].map,
         Settled(p)' => Settled(p) /\ Expected(p)' = Expected(p)
  PROVE  Truthful(p)'
  BY DEF Truthful, IndexRight, CopiesRight, MapRight

(* The steps of a call that neither read nor write the index in set_count. *)
QuietCall(q) ==
  \/ Call(q, "save") \/ Call(q, "read") \/ Ensure(q) \/ Migrate(q)
  \/ CurrentCount(q) \/ AppendLine(q) \/ AppendNewline(q)
  \/ IndexFails(q) /\ op[q].pc = "ensured"
  \/ ReadLength(q) \/ ReadDelta(q)

LEMMA QuietCalls ==
  ASSUME MessagesInv, NEW q \in Peers, QuietCall(q)
  PROVE  /\ index' = index /\ op'[q].pc \notin Counting
         /\ Settled(q)' => Settled(q) /\ Expected(q)' = Expected(q)
<1> USE DEF Becomes, Counting
<1>0. /\ op \in [Peers -> OpRecord] /\ Idle \in OpRecord /\ Idle.pc = "idle"
      /\ file \in [Peers -> Texts \cup {NoFile}]
  BY IdleIsRecord DEF MessagesInv, Types
<1> DEFINE Quiet == /\ index' = index /\ op'[q].pc \notin Counting
                    /\ \/ op'[q].pc \in Behind
                       \/ UNCHANGED <<file, hurt>> /\ op[q].pc \notin Behind
<1> USE DEF Behind
<1>1. ASSUME Call(q, "save") \/ Call(q, "read") PROVE Quiet
  <2>1. UNCHANGED <<file, hurt, index>> /\ op[q] = Idle
    BY <1>1 DEF Call, LockFree
  <2>2. \E does \in {"save", "read"} :
           op'[q] = [Idle EXCEPT !.pc = "ensure", !.does = does]
    BY <1>0, <1>1 DEF Call
  <2>3. op'[q].pc = "ensure"
    BY <1>0, <2>2 DEF OpRecord
  <2> QED BY <1>0, <2>1, <2>3
<1>2. ASSUME Ensure(q) PROVE Quiet
  <2>1. UNCHANGED <<hurt, index>> /\ op[q].pc = "ensure"
    BY <1>2 DEF Ensure
  <2>2. op'[q].pc = "migrating" \/ (op'[q].pc = "ensured" /\ file' = file)
    <3>1. PICK to \in {"migrating", "ensured"} :
             /\ op' = [op EXCEPT ![q].pc = to]
             /\ to = "ensured" => file' = file
      BY <1>2 DEF Ensure
    <3>2. op'[q] = [op[q] EXCEPT !.pc = to] /\ op[q] \in OpRecord
      BY <1>0, <3>1
    <3>3. op'[q].pc = to
      BY <3>2 DEF OpRecord
    <3> QED BY <3>1, <3>3
  <2> QED BY <2>1, <2>2
<1>3. ASSUME Migrate(q) PROVE Quiet
  BY <1>0, <1>3 DEF Migrate, OpRecord
<1>4. ASSUME CurrentCount(q) PROVE Quiet
  BY <1>0, <1>4 DEF CurrentCount, OpRecord
<1>5. ASSUME AppendLine(q) PROVE Quiet
  <2>1. index' = index /\ op'[q].pc = "line"
    BY <1>0, <1>5 DEF AppendLine, OpRecord
  <2> QED BY <2>1
<1>6. ASSUME AppendNewline(q) PROVE Quiet
  <2>1. index' = index /\ op'[q].pc = "want"
    BY <1>0, <1>6 DEF AppendNewline, OpRecord
  <2> QED BY <2>1
<1>7. ASSUME IndexFails(q), op[q].pc = "ensured" PROVE Quiet
  BY <1>0, <1>7 DEF IndexFails
<1>8. ASSUME ReadLength(q) PROVE Quiet
  <2>1. UNCHANGED <<file, hurt, index>> /\ op[q].pc = "ensured"
    BY <1>8 DEF ReadLength
  <2>2. op'[q].pc \in {"idle", "reading"}
    BY <1>0, <1>8 DEF ReadLength, OpRecord
  <2> QED BY <2>1, <2>2
<1>9. ASSUME ReadDelta(q) PROVE Quiet
  <2>1. UNCHANGED <<file, hurt, index>> /\ op[q].pc = "reading" /\ op'[q] = Idle
    BY <1>0, <1>9 DEF ReadDelta
  <2> QED BY <1>0, <2>1
<1>10. Quiet
  BY <1>1, <1>2, <1>3, <1>4, <1>5, <1>6, <1>7, <1>8, <1>9 DEF QuietCall
<1> QED BY <1>10 DEF Settled, Expected

LEMMA PeerTruth ==
  ASSUME MessagesInv, NEW q \in Peers, PeerStep(q), NEW p \in Peers
  PROVE  Truthful(p)'
<1>0. /\ \A v \in Peers : Sound(v) /\ Clean(v) /\ Truthful(v)
      /\ \A v \in Peers : v # q => Aside(v)
      /\ op \in [Peers -> OpRecord] /\ Nobody \notin Peers
  BY OthersAside, MessagesConstantsOK DEF MessagesInv, Types, MessagesConstantsOK
<1>1. p # q => (Settled(p)' => Settled(p)) /\ Expected(p)' = Expected(p)
  BY <1>0 DEF Aside, Settled, Expected
<1>2. \A v \in Peers : v # q => op'[v] = op[v]
  BY <1>0 DEF Aside
<1>3. \A v \in Peers : op[v].pc \in Counting => count_lock = v
  BY <1>0 DEF Sound
<1>4. ASSUME QuietCall(q) PROVE Truthful(p)'
  BY <1>0, <1>1, <1>2, <1>4, QuietCalls, QuietTruth
<1>5. ASSUME IndexFails(q), op[q].pc # "ensured" PROVE Truthful(p)'
  <2>1. index' = Corrupt /\ count_lock = Nobody /\ op'[q] = Idle
    BY <1>0, <1>5 DEF IndexFails
  <2>2. \A v \in Peers : op'[v].pc \notin Counting
    BY <1>0, <1>2, <1>3, <2>1, IdleIsRecord DEF Counting
  <2> QED BY <2>1, <2>2 DEF Truthful, IndexRight, CopiesRight
<1>6. ASSUME SetCountReads(q) PROVE Truthful(p)'
  <2>1. /\ index' = index /\ index # Corrupt /\ count_lock = Nobody
        /\ op'[q].pc = "have" /\ op'[q].map = Put(Parsed, q, op[q].n)
    BY <1>0, <1>6 DEF SetCountReads, CountLockFree, OpRecord
  <2>2. CASE p = q
    BY <2>1, <2>2 DEF Truthful, Settled, Behind
  <2>3. CASE p # q
    <3>1. SUFFICES ASSUME Settled(p)' PROVE IndexRight(p)' /\ CopiesRight(p)'
      BY DEF Truthful
    <3>2. IndexRight(p)
      BY <1>0, <1>1, <2>3, <3>1 DEF Truthful
    <3>3. IndexRight(p)'
      BY <1>1, <2>1, <2>3, <3>2 DEF IndexRight, MapRight
    <3>4. MapRight(Put(Parsed, q, op[q].n), p)
      <4>1. Parsed \in Maps /\ q \in Keys /\ op[q].n \in Nat
        BY <1>0, <2>1, ParsedIsMap DEF MessagesInv, Keys, OpRecord
      <4>2. MapRight(Parsed, p)
        BY <2>1, <3>2 DEF MapRight, IndexRight, Parsed, EmptyMap
      <4> QED BY <2>3, <4>1, <4>2, PutIsMap DEF MapRight
    <3>5. \A v \in Peers : v # q => op'[v].pc \notin Counting
      BY <1>0, <1>2, <1>3, <2>1
    <3> QED BY <1>1, <2>1, <2>3, <3>3, <3>4, <3>5 DEF CopiesRight, MapRight
  <2> QED BY <2>2, <2>3
<1>7. ASSUME SetCountTruncates(q) PROVE Truthful(p)'
  <2>1. /\ index' = Torn /\ op[q].pc = "have" /\ op'[q].map = op[q].map
    BY <1>0, <1>7 DEF SetCountTruncates, Becomes, OpRecord
  <2>2. \A v \in Peers : v # q => op'[v].pc \notin Counting
    BY <1>0, <1>2, <1>3, <2>1 DEF Counting
  <2>3. CASE p = q
    BY <2>1, <2>2, <2>3 DEF Truthful, IndexRight, CopiesRight
  <2>4. CASE p # q
    <3>1. SUFFICES ASSUME Settled(p)' PROVE IndexRight(p)' /\ CopiesRight(p)'
      BY DEF Truthful
    <3>2. MapRight(op[q].map, p)
      BY <1>0, <1>1, <2>1, <2>4, <3>1 DEF Truthful, CopiesRight, Counting
    <3> QED BY <1>1, <2>1, <2>2, <2>4, <3>2 DEF IndexRight, CopiesRight, MapRight
  <2> QED BY <2>3, <2>4
<1>8. ASSUME SetCountWrites(q) PROVE Truthful(p)'
  <2>1. op[q].pc = "open" /\ UNCHANGED <<file, hurt>>
    BY <1>8 DEF SetCountWrites
  <2>2. index' = op[q].map \/ index' = Corrupt
    BY <1>0, <1>8, WritesMap DEF SetCountWrites, OpRecord
  <2>3. op'[q].pc \notin Counting
    <3>1. op[q].then \in {"idle", "ensured"}
      BY <1>0 DEF OpRecord
    <3>2. op'[q] = Idle \/ op'[q] = [Idle EXCEPT !.pc = op[q].then, !.does = op[q].does]
      BY <1>0, <1>8 DEF SetCountWrites
    <3> QED BY <3>1, <3>2, IdleIsRecord DEF OpRecord, Counting
  <2>4. \A v \in Peers : op'[v].pc \notin Counting
    BY <1>0, <1>2, <1>3, <2>1, <2>3 DEF Counting
  <2>5. CopiesRight(p)'
    BY <2>4 DEF CopiesRight
  <2>6. Settled(p)' => Settled(p)
    BY <1>1, <2>1 DEF Settled, Behind
  <2>7. ASSUME Settled(p) PROVE MapRight(op[q].map, p)
    <3>1. CASE p = q
      <4>1. op[q].map[q] = op[q].n /\ op[q].n = Len(file[q]) /\ file[q] # NoFile
        BY <1>0, <2>1, <2>7, <3>1 DEF Sound, Clean, Counting, Saving, Settled
      <4> QED BY <3>1, <4>1 DEF MapRight, Expected
    <3>2. CASE p # q
      BY <1>0, <2>1, <2>7, <3>2 DEF Truthful, CopiesRight, Counting
    <3> QED BY <3>1, <3>2
  <2>8. Expected(p)' = Expected(p)
    BY <2>1 DEF Expected
  <2> QED BY <2>2, <2>5, <2>6, <2>7, <2>8 DEF Truthful, IndexRight, MapRight
<1> QED BY <1>4, <1>5, <1>6, <1>7, <1>8 DEF PeerStep, QuietCall

-----------------------------------------------------------------------------
(* get_all_counts and a stop.                                              *)

LEMMA CountsKeep ==
  ASSUME MessagesInv,
         \/ (\E k \in Keys : CountsScan(k)) \/ CountsRead \/ CountsTruncates
         \/ CountsWrites,
         NEW p \in Peers
  PROVE  Sound(p)' /\ Clean(p)' /\ Truthful(p)'
<1>0. Sound(p) /\ Clean(p) /\ Truthful(p) /\ Types
  BY DEF MessagesInv
<1>1. /\ UNCHANGED <<file, half, op, count_lock, cursor, shown>>
      /\ hurt \subseteq hurt'
  BY DEF CountsScan, CountsRead, CountsTruncates, CountsWrites
<1>2. Sound(p)' /\ Clean(p)'
  <2>1. Aside(p)
    BY <1>1 DEF Aside
  <2> QED BY <1>0, <2>1, AsideKeeps
<1>3. /\ Settled(p)' => Settled(p)
      /\ Expected(p)' = Expected(p) /\ (CopiesRight(p) => CopiesRight(p)')
  <2>1. Settled(p)' => Settled(p)
    BY <1>1 DEF Settled
  <2>2. Expected(p)' = Expected(p)
    BY <1>1 DEF Expected
  <2>3. CopiesRight(p) => CopiesRight(p)'
    BY <1>1, <2>2 DEF CopiesRight, MapRight
  <2> QED BY <2>1, <2>2, <2>3
<1>4. CASE index' = index \/ index' = Torn
  <2>1. CASE index' = Torn
    BY <1>0, <1>2, <1>3, <2>1 DEF Truthful, IndexRight
  <2>2. CASE index' = index
    <3>1. MapRight(index, p)' <=> MapRight(index, p)
      BY <1>3, <2>2 DEF MapRight
    <3> QED BY <1>0, <1>2, <1>3, <2>2, <3>1 DEF Truthful, IndexRight
  <2> QED BY <1>4, <2>1, <2>2
<1>5. CASE CountsWrites
  <2>1. SUFFICES ASSUME Settled(p)' PROVE IndexRight(p)'
    BY <1>0, <1>2, <1>3 DEF Truthful
  <2>2. index' = counting.map \/ index' = Corrupt
    BY <1>5, WritesMap DEF CountsWrites, MessagesInv, Types, Tallies
  <2>3. p \notin hurt /\ p \notin Outdated(counting.map)
    BY <1>1, <1>5, <2>1 DEF CountsWrites, Settled
  <2>4. Expected(p) = IF file[p] = NoFile THEN Legacy[p] ELSE Lines(p)
    BY <1>0, <2>3, ExpectedIsLines
  <2>5. MapRight(counting.map, p)
    BY <2>3, <2>4 DEF MapRight, Outdated
  <2> QED BY <1>3, <2>2, <2>5 DEF IndexRight, MapRight
<1>6. CountsWrites \/ index' = index \/ index' = Torn
  BY DEF CountsScan, CountsRead, CountsTruncates
<1> QED BY <1>2, <1>4, <1>5, <1>6

LEMMA StopKeeps ==
  ASSUME MessagesInv, Stop, NEW p \in Peers
  PROVE  Sound(p)' /\ Clean(p)' /\ Truthful(p)'
<1>0. Sound(p) /\ Clean(p) /\ Truthful(p) /\ Nobody \notin Peers
  BY MessagesConstantsOK DEF MessagesInv, MessagesConstantsOK
<1>1. /\ UNCHANGED <<file, half, index>> /\ count_lock' = Nobody
      /\ \A q \in Peers : op'[q] = Idle
      /\ cursor'[p] = 0 /\ shown'[p] = 0
      /\ p \notin hurt' => p \notin hurt /\ op[p].pc \notin Behind
  BY DEF Stop, Behind
<1>2. Idle.pc = "idle"
  BY IdleIsRecord
<1>3. Messages(p)' = Messages(p) /\ Expected(p)' = Expected(p)
  BY <1>1 DEF Messages, Expected
<1>4. Sound(p)'
  BY <1>0, <1>1, <1>2 DEF Sound, Counting, Saving
<1>5. Clean(p)'
  BY <1>0, <1>1, <1>2, <1>3 DEF Clean, Numbered, Saving, Behind
<1>6. Truthful(p)'
  <2>1. \A q \in Peers : op'[q].pc \notin Counting
    BY <1>1, <1>2 DEF Counting
  <2>2. Settled(p)' => Settled(p)
    BY <1>1 DEF Settled
  <2> QED BY <1>0, <1>1, <1>3, <2>1, <2>2 DEF Truthful, IndexRight, CopiesRight, MapRight
<1> QED BY <1>4, <1>5, <1>6

LEMMA MessagesStart ==
  ASSUME MessagesInit
  PROVE  MessagesInv
<1>1. Types
  <2>1. NotCounting \in Tallies
    BY EmptyIsMap DEF NotCounting, Tallies
  <2> QED BY <2>1, IdleIsRecord DEF MessagesInit, Types
<1>2. ASSUME NEW p \in Peers PROVE Sound(p) /\ Clean(p) /\ Truthful(p)
  <2>1. /\ file[p] = NoFile /\ op[p] = Idle /\ Idle.pc = "idle" /\ count_lock = Nobody
        /\ half = {} /\ index = NoIndex /\ cursor[p] = 0 /\ shown[p] = 0
        /\ \A q \in Peers : op[q].pc = "idle"
    BY IdleIsRecord DEF MessagesInit
  <2>2. Messages(p) = <<>> /\ Nobody \notin Peers
    BY <2>1, MessagesConstantsOK DEF Messages, MessagesConstantsOK
  <2>3. Sound(p)
    BY <2>1, <2>2 DEF Sound, Counting, Saving
  <2>4. Clean(p)
    BY <2>1, <2>2 DEF Clean, Numbered, Saving
  <2>5. Truthful(p)
    BY <2>1 DEF Truthful, IndexRight, CopiesRight, Counting
  <2> QED BY <2>3, <2>4, <2>5
<1> QED BY <1>1, <1>2 DEF MessagesInv

LEMMA MessagesStep ==
  ASSUME MessagesInv, [MessagesNext]_messageVars
  PROVE  MessagesInv'
<1>1. ASSUME NEW p \in Peers, PeerStep(p) PROVE MessagesInv'
  <2>1. Types'
    BY <1>1, PeerTypes DEF MessagesInv
  <2>2. \A q \in Peers : Sound(q)' /\ Clean(q)'
    BY <1>1, OwnKeeps, OthersAside, AsideKeeps DEF MessagesInv
  <2> QED BY <1>1, <2>1, <2>2, PeerTruth DEF MessagesInv
<1>2. ASSUME \/ \E k \in Keys : CountsScan(k)
             \/ CountsRead \/ CountsTruncates \/ CountsWrites
      PROVE  MessagesInv'
  BY <1>2, OtherTypes, CountsKeep DEF MessagesInv
<1>3. ASSUME Stop PROVE MessagesInv'
  BY <1>3, OtherTypes, StopKeeps DEF MessagesInv
<1>4. ASSUME UNCHANGED messageVars PROVE MessagesInv'
  <2>1. Types'
    BY <1>4 DEF messageVars, MessagesInv, Types
  <2>2. ASSUME NEW p \in Peers PROVE Aside(p) /\ Truthful(p)'
    BY <1>4 DEF messageVars, Aside, MessagesInv, Truthful, Settled, Expected, IndexRight,
                CopiesRight, MapRight
  <2> QED BY <2>1, <2>2, AsideKeeps DEF MessagesInv
<1> QED BY <1>1, <1>2, <1>3, <1>4 DEF MessagesNext, PeerStep

(* The invariant that puts the phase of the call on a peer, its            *)
(* conversation and everything that was read of the index together.        *)
THEOREM MessagesInductive == MessagesSpec => []MessagesInv
  BY MessagesStart, MessagesStep, PTL DEF MessagesSpec

(* Sequence numbers run on for every number of peers and calls, whatever   *)
(* saves, reads, counts and stops come in between (save_message,           *)
(* ensure_jsonl_conversation, set_count).                                  *)
THEOREM NumbersNeverRepeat == MessagesSpec => []NumbersRunOn
<1>1. MessagesInv => NumbersRunOn
  BY DEF MessagesInv, Clean, Numbered, NumbersRunOn
<1> QED BY <1>1, MessagesInductive, PTL

(* Whenever no call on a conversation is under way its entry in the index  *)
(* is right (set_count under count_lock).                                  *)
THEOREM CountsStayTrue == MessagesSpec => []CountsAreTrue
<1>1. ASSUME MessagesInv PROVE CountsAreTrue
  <2>1. \A p \in Peers : Truthful(p)
    BY <1>1 DEF MessagesInv
  <2>2. Idle.pc \notin Behind
    BY IdleIsRecord DEF Behind
  <2> QED BY <2>1, <2>2
          DEF CountsAreTrue, Truthful, Settled, IndexRight, MapRight, Expected
<1> QED BY <1>1, MessagesInductive, PTL

(* A reader gets each message up to its cursor once: the length is read    *)
(* and the rest of the file read under one lock (load_conversation_delta). *)
THEOREM DeltasNeitherMissNorRepeat == MessagesSpec => []DeltasExactlyOnce
<1>1. MessagesInv => DeltasExactlyOnce
  BY DEF MessagesInv, Sound, DeltasExactlyOnce
<1> QED BY <1>1, MessagesInductive, PTL

=============================================================================
