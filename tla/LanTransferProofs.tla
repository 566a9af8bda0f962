------------------------- MODULE LanTransferProofs -------------------------
(***************************************************************************)
(* Proofs about LanTransfer, for every number of attempts, chunks,         *)
(* directories, cuts and crashes, in three parts: its types; the integrity *)
(* of what is received; and what rests on that, the chunk that comes next  *)
(* and the refinement of FileDelivery.  The theorems of the last two parts *)
(* assume Exclusive: the user starts an attempt only when no other one is  *)
(* in progress at either end.  Without it DeliveredIntact is false.        *)
(***************************************************************************)
EXTENDS LanTransfer, QueueLemmas, FiniteSetTheorems

(* Types.                                                                  *)

(* A set of completed chunks counts at most N, and is finite.              *)
LEMMA CountChunks ==
  \A S \in SUBSET Chunk : Cardinality(S) \in 0..N
<1> SUFFICES ASSUME NEW S \in SUBSET Chunk PROVE Cardinality(S) \in 0..N
  OBVIOUS
<1>1. N \in Nat
  BY ConstantsOK DEF ConstantsOK
<1>2. IsFiniteSet(Chunk) /\ Cardinality(Chunk) = N
  BY <1>1, FS_Interval DEF Chunk
<1>3. IsFiniteSet(S) /\ Cardinality(S) <= Cardinality(Chunk)
  BY <1>2, FS_Subset
<1>4. Cardinality(S) \in Nat
  BY <1>3, FS_CardinalityType
<1> QED
  BY <1>1, <1>2, <1>3, <1>4

(* Performing a pending write keeps every inode a file of N chunks.        *)
LEMMA FlushedType ==
  ASSUME TypeOK, NEW s \in Attempts
  PROVE  Flushed(s) \in [Attempts -> Content]
<1>1. CASE inflight[s] = <<>>
  BY <1>1 DEF Flushed, TypeOK
<1>2. CASE inflight[s] # <<>>
  <2>1. inflight \in [Attempts -> Seq([index : Chunk, data : Data])]
    BY DEF TypeOK
  <2>2. Head(inflight[s]) \in [index : Chunk, data : Data]
    BY <1>2, <2>1, QueueTake
  <2>3. PICK w \in [index : Chunk, data : Data] :
          Flushed(s) = [blocks EXCEPT ![handle[s]] = [@ EXCEPT ![w.index] = w.data]]
    BY <1>2, <2>2 DEF Flushed
  <2>4. blocks \in [Attempts -> [Chunk -> Data \cup {Blank}]]
    BY DEF TypeOK, Content
  <2>5. w.data \in Data \cup {Blank}
    BY <2>2
  <2> QED
    <3>1. CASE handle[s] \in Attempts
      <4>1. blocks[handle[s]] \in [Chunk -> Data \cup {Blank}]
        BY <2>4, <3>1
      <4>2. [blocks[handle[s]] EXCEPT ![w.index] = w.data] \in [Chunk -> Data \cup {Blank}]
        BY <2>5, <4>1
      <4> QED
        BY <2>3, <2>4, <4>2 DEF Content
    <3>2. CASE handle[s] \notin Attempts
      BY <2>3, <2>4, <3>2 DEF Content
    <3> QED
      BY <3>1, <3>2
<1> QED
  BY <1>1, <1>2

(* A step keeps every variable in its type.                                *)
LEMMA TypeStep ==
  ASSUME TypeOK, [Next]_vars
  PROVE  TypeOK'
<1> USE ConstantsOK DEF ConstantsOK
<1> USE DEF TypeOK, SenderPC, ReceiverPC, sender, network, memory, disk, outcome, faults,
            Goto, RGoto, HangUp, Reply
<1>1. ASSUME NEW s \in Attempts, Start(s) PROVE TypeOK'
  BY <1>1 DEF Start
<1>2. ASSUME NEW s \in Attempts, OnAccepted(s) PROVE TypeOK'
  <2>1. toSnd \in [Attempts -> Seq(ToSndMsg)] /\ toSnd[s] # <<>>
    BY <1>2 DEF OnAccepted
  <2>2. Head(toSnd[s]) \in ToSndMsg /\ toSnd' \in [Attempts -> Seq(ToSndMsg)]
    BY <1>2, <2>1, QueueTake DEF OnAccepted
  <2>3. Head(toSnd[s]).resume \in 0..N
    BY <1>2, <2>2 DEF OnAccepted, ToSndMsg
  <2>4. PICK r \in 0..N : r = Head(toSnd[s]).resume
    BY <2>3
  <2>5. next' \in [Attempts -> 1..N + 1]
    <3>1. next \in [Attempts -> 1..N + 1] /\ r + 1 \in 1..N + 1
      BY DEF TypeOK
    <3>2. next' = [next EXCEPT ![s] = r + 1]
      BY <1>2, <2>4 DEF OnAccepted
    <3> HIDE DEF TypeOK
    <3> QED
      BY <3>1, <3>2
  <2> QED
    BY <1>2, <2>2, <2>5 DEF OnAccepted
<1>31. ASSUME NEW s \in Attempts, OnRejected(s) PROVE TypeOK'
  <2>1. toSnd \in [Attempts -> Seq(ToSndMsg)] /\ toSnd[s] # <<>>
    BY <1>31 DEF OnRejected
  <2>2. toSnd' \in [Attempts -> Seq(ToSndMsg)]
    BY <1>31, <2>1, QueueTake DEF OnRejected
  <2> QED
    BY <1>31, <2>2 DEF OnRejected
<1>3. ASSUME NEW s \in Attempts, SendChunk(s) PROVE TypeOK'
  <2>1. toSnd \in [Attempts -> Seq(ToSndMsg)] /\ toRcv \in [Attempts -> Seq(ToRcvMsg)]
    BY DEF TypeOK
  <2>2. next[s] \in Chunk /\ file[s] \in [Chunk -> Data]
    BY <1>3 DEF SendChunk, Chunk
  <2>3. [type |-> "chunk", index |-> next[s], data |-> file[s][next[s]]] \in ToRcvMsg
    BY <2>2 DEF ToRcvMsg
  <2>4. toRcv' \in [Attempts -> Seq(ToRcvMsg)]
    BY <1>3, <2>1, <2>3, QueuePut DEF SendChunk
  <2> QED
    <3>1. next' \in [Attempts -> 1..N + 1]
      <4>1. next \in [Attempts -> 1..N + 1] /\ next[s] + 1 \in 1..N + 1
        <5>1. next \in [Attempts -> 1..N + 1] /\ N \in Nat /\ next[s] \in 1..N
          BY <2>2 DEF Chunk
        <5> HIDE DEF TypeOK
        <5> QED
          BY <5>1
      <4>2. next' = [next EXCEPT ![s] = next[s] + 1]
        BY <1>3 DEF SendChunk
      <4> HIDE DEF TypeOK
      <4> QED
        BY <4>1, <4>2
    <3> QED
      BY <1>3, <2>4, <3>1 DEF SendChunk
<1>4. ASSUME NEW s \in Attempts, SendComplete(s) PROVE TypeOK'
  <2>1. toSnd \in [Attempts -> Seq(ToSndMsg)] /\ toRcv \in [Attempts -> Seq(ToRcvMsg)]
    BY DEF TypeOK
  <2>2. [type |-> "complete", hash |-> file[s]] \in ToRcvMsg
    BY DEF ToRcvMsg
  <2>3. toRcv' \in [Attempts -> Seq(ToRcvMsg)]
    BY <1>4, <2>1, <2>2, QueuePut DEF SendComplete
  <2> QED
    BY <1>4, <2>3 DEF SendComplete
<1>5. ASSUME NEW s \in Attempts, CancelSend(s) PROVE TypeOK'
  BY <1>5 DEF CancelSend
<1>6. ASSUME NEW s \in Attempts, OnAck(s) PROVE TypeOK'
  <2>1. toSnd \in [Attempts -> Seq(ToSndMsg)] /\ toRcv \in [Attempts -> Seq(ToRcvMsg)]
    BY DEF TypeOK
  <2>2. toSnd' \in [Attempts -> Seq(ToSndMsg)]
    BY <1>6, <2>1, QueueTake DEF OnAck
  <2> QED
    BY <1>6, <2>2 DEF OnAck
<1>7. ASSUME NEW s \in Attempts, SenderFails(s) PROVE TypeOK'
  BY <1>7 DEF SenderFails
<1>8. ASSUME NEW s \in Attempts, Accept(s) PROVE TypeOK'
  BY <1>8 DEF Accept
<1>9. ASSUME NEW s \in Attempts, Reject(s) PROVE TypeOK'
  <2>1. toSnd \in [Attempts -> Seq(ToSndMsg)] /\ toRcv \in [Attempts -> Seq(ToRcvMsg)]
    BY DEF TypeOK
  <2>2. [type |-> "response", accepted |-> FALSE, resume |-> 0] \in ToSndMsg
    BY DEF ToSndMsg
  <2>3. toSnd' \in [Attempts -> Seq(ToSndMsg)]
    BY <1>9, <2>1, <2>2, QueuePut DEF Reject
  <2> QED
    BY <1>9, <2>3 DEF Reject
<1>10. ASSUME NEW s \in Attempts, RequestLost(s) PROVE TypeOK'
  BY <1>10 DEF RequestLost
<1>11. ASSUME NEW s \in Attempts, OpenResume(s) PROVE TypeOK'
  <2>1. Cardinality(stateFile.completed) \in 0..N
    BY CountChunks
  <2>2. SubSeq(blocks[tempLink], 1, Cardinality(stateFile.completed)) \in Seq(Data \cup {Blank})
    <3>1. tempLink \in Attempts /\ blocks \in [Attempts -> Content] /\ N \in Nat
      BY <1>11 DEF OpenResume, Resumable
    <3> HIDE DEF TypeOK
    <3>2. PICK c \in [1..N -> Data \cup {Blank}] : c = blocks[tempLink]
      BY <3>1 DEF Content, Chunk
    <3> QED
      BY <2>1, <3>1, <3>2, ArrayPrefix
  <2> QED
    BY <1>11, <2>1, <2>2 DEF OpenResume, Resumable
<1>12. ASSUME NEW s \in Attempts, OpenFresh(s) PROVE TypeOK'
  <2>1. saves' \subseteq Snapshot
    BY <1>12 DEF OpenFresh, Snapshot
  <2>2. /\ completed' \in [Attempts -> SUBSET Chunk] /\ saveDir' \in [Attempts -> Dirs]
        /\ resume' \in [Attempts -> 0..N]
    BY <1>12 DEF OpenFresh
  <2>3. hasher' \in [Attempts -> Seq(Data \cup {Blank})]
    BY <1>12, QueueClear DEF OpenFresh
  <2> QED
    BY <1>12, <2>1, <2>2, <2>3 DEF OpenFresh
<1>13. ASSUME NEW s \in Attempts, CreateTemp(s) PROVE TypeOK'
  BY <1>13 DEF CreateTemp, Content, Empty
<1>14. ASSUME NEW s \in Attempts, Respond(s) PROVE TypeOK'
  <2>1. toSnd \in [Attempts -> Seq(ToSndMsg)] /\ toRcv \in [Attempts -> Seq(ToRcvMsg)]
    BY DEF TypeOK
  <2>2. [type |-> "response", accepted |-> TRUE, resume |-> resume[s]] \in ToSndMsg
    BY DEF ToSndMsg
  <2>3. toSnd' \in [Attempts -> Seq(ToSndMsg)]
    BY <1>14, <2>1, <2>2, QueuePut DEF Respond
  <2> QED
    <3>1. left' \in [Attempts -> 0..N]
      BY <1>14 DEF Respond
    <3> QED
      BY <1>14, <2>3, <3>1 DEF Respond
<1>15. ASSUME NEW s \in Attempts, RespondFails(s) PROVE TypeOK'
  BY <1>15 DEF RespondFails
<1>16. ASSUME NEW s \in Attempts, RecvChunk(s) PROVE TypeOK'
  <2>1. toSnd \in [Attempts -> Seq(ToSndMsg)] /\ toRcv \in [Attempts -> Seq(ToRcvMsg)]
    BY DEF TypeOK
  <2>2. toRcv[s] # <<>> /\ Head(toRcv[s]).type = "chunk"
    BY <1>16 DEF RecvChunk
  <2>3. Head(toRcv[s]) \in ToRcvMsg /\ toRcv' \in [Attempts -> Seq(ToRcvMsg)]
    BY <1>16, <2>1, <2>2, QueueTake DEF RecvChunk
  <2>4. Head(toRcv[s]).index \in Chunk /\ Head(toRcv[s]).data \in Data
    BY <2>2, <2>3 DEF ToRcvMsg
  <2>5. PICK i \in Chunk, x \in Data : i = Head(toRcv[s]).index /\ x = Head(toRcv[s]).data
    BY <2>4
  <2>6. Flushed(s) \in [Attempts -> Content]
    BY FlushedType
  <2>7. inflight' \in [Attempts -> Seq([index : Chunk, data : Data])]
    <3>1. [index |-> i, data |-> x] \in [index : Chunk, data : Data]
      OBVIOUS
    <3>2. inflight' = [inflight EXCEPT ![s] = <<[index |-> i, data |-> x]>>]
      BY <1>16, <2>5 DEF RecvChunk
    <3>3. inflight \in [Attempts -> Seq([index : Chunk, data : Data])]
      BY DEF TypeOK
    <3> QED
      BY <3>1, <3>2, <3>3, QueueSet
  <2>8. saves' \subseteq Snapshot
    <3>1. saves \subseteq Snapshot /\ saveDir[s] \in Dirs /\ completed[s] \subseteq Chunk
      BY DEF TypeOK
    <3>2. PICK done \in SUBSET Chunk : done = completed[s] \cup {i}
      BY <3>1
    <3>3. PICK d \in Dirs : d = saveDir[s]
      BY <3>1
    <3>4. \/ saves' = saves
          \/ saves' = saves \cup {[by |-> s, completed |-> done, dir |-> d]}
      BY <1>16, <2>5, <3>2, <3>3 DEF RecvChunk
    <3>5. [by |-> s, completed |-> done, dir |-> d] \in Snapshot
      BY DEF Snapshot
    <3> QED
      BY <3>1, <3>4, <3>5
  <2>9. hasher' \in [Attempts -> Seq(Data \cup {Blank})]
    <3>1. x \in Data \cup {Blank} /\ hasher \in [Attempts -> Seq(Data \cup {Blank})]
      BY DEF TypeOK
    <3> QED
      <4>1. hasher' = [hasher EXCEPT ![s] = Append(@, x)]
        BY <1>16, <2>5 DEF RecvChunk
      <4> QED
        BY <3>1, <4>1, QueuePut
  <2>10. completed' \in [Attempts -> SUBSET Chunk]
    <3>1. completed \in [Attempts -> SUBSET Chunk]
      BY DEF TypeOK
    <3>2. completed' = [completed EXCEPT ![s] = completed[s] \cup {i}]
      BY <1>16, <2>5 DEF RecvChunk
    <3>3. completed[s] \cup {i} \in SUBSET Chunk
      BY <3>1
    <3> HIDE DEF TypeOK
    <3> QED
      BY <3>1, <3>2, <3>3
  <2>11. left' \in [Attempts -> 0..N]
    <3>1. left \in [Attempts -> 0..N]
      BY DEF TypeOK
    <3>2. left[s] > 0 /\ left' = [left EXCEPT ![s] = left[s] - 1]
      BY <1>16 DEF RecvChunk
    <3>3. left[s] - 1 \in 0..N
      BY <3>1, <3>2
    <3> HIDE DEF TypeOK
    <3> QED
      BY <3>1, <3>2, <3>3
  <2> QED
    BY <1>16, <2>3, <2>6, <2>7, <2>8, <2>9, <2>10, <2>11 DEF RecvChunk
<1>17. ASSUME NEW s \in Attempts, VerifyMatches(s) PROVE TypeOK'
  <2>1. toRcv \in [Attempts -> Seq(ToRcvMsg)] /\ toRcv[s] # <<>>
    BY <1>17 DEF VerifyMatches
  <2>2. Flushed(s) \in [Attempts -> Content]
    BY FlushedType
  <2>3. toRcv' \in [Attempts -> Seq(ToRcvMsg)]
    BY <1>17, <2>1, QueueTake DEF VerifyMatches
  <2>4. inflight' \in [Attempts -> Seq([index : Chunk, data : Data])]
    BY <1>17, QueueClear DEF VerifyMatches
  <2> QED
    BY <1>17, <2>2, <2>3, <2>4 DEF VerifyMatches
<1>32. ASSUME NEW s \in Attempts, VerifyMismatches(s) PROVE TypeOK'
  <2>1. toRcv \in [Attempts -> Seq(ToRcvMsg)] /\ toRcv[s] # <<>>
    BY <1>32 DEF VerifyMismatches
  <2>2. Flushed(s) \in [Attempts -> Content]
    BY FlushedType
  <2>3. toRcv' \in [Attempts -> Seq(ToRcvMsg)]
    BY <1>32, <2>1, QueueTake DEF VerifyMismatches
  <2>4. inflight' \in [Attempts -> Seq([index : Chunk, data : Data])]
    BY <1>32, QueueClear DEF VerifyMismatches
  <2> QED
    BY <1>32, <2>2, <2>3, <2>4 DEF VerifyMismatches
<1>18. ASSUME NEW s \in Attempts, Rename(s) PROVE TypeOK'
  BY <1>18 DEF Rename
<1>33. ASSUME NEW s \in Attempts, RenameFails(s) PROVE TypeOK'
  BY <1>33 DEF RenameFails
<1>19. ASSUME NEW s \in Attempts, RemoveState(s) PROVE TypeOK'
  BY <1>19 DEF RemoveState, Absent
<1>20. ASSUME NEW s \in Attempts, Ack(s) PROVE TypeOK'
  <2>1. toSnd \in [Attempts -> Seq(ToSndMsg)] /\ toRcv \in [Attempts -> Seq(ToRcvMsg)]
    BY DEF TypeOK
  <2>2. [type |-> "complete"] \in ToSndMsg
    BY DEF ToSndMsg
  <2>3. toSnd' \in [Attempts -> Seq(ToSndMsg)]
    BY <1>20, <2>1, <2>2, QueuePut DEF Ack
  <2> QED
    BY <1>20, <2>3 DEF Ack
<1>21. ASSUME NEW s \in Attempts, AckFails(s) PROVE TypeOK'
  BY <1>21 DEF AckFails
<1>22. ASSUME NEW s \in Attempts, Record(s) PROVE TypeOK'
  BY <1>22 DEF Record
<1>23. ASSUME NEW s \in Attempts, RecvFails(s) PROVE TypeOK'
  BY <1>23 DEF RecvFails
<1>24. ASSUME NEW s \in Attempts, Report(s) PROVE TypeOK'
  <2>1. toSnd \in [Attempts -> Seq(ToSndMsg)] /\ toRcv \in [Attempts -> Seq(ToRcvMsg)]
    BY DEF TypeOK
  <2>2. [type |-> "error"] \in ToSndMsg
    BY DEF ToSndMsg
  <2>3. toSnd' \in [Attempts -> Seq(ToSndMsg)]
    BY <1>24, <2>1, <2>2, QueuePut DEF Report
  <2> QED
    BY <1>24, <2>3 DEF Report
<1>25. ASSUME NEW s \in Attempts, CleanupTemp(s) PROVE TypeOK'
  BY <1>25 DEF CleanupTemp
<1>26. ASSUME NEW s \in Attempts, WriteLands(s) PROVE TypeOK'
  <2>1. Flushed(s) \in [Attempts -> Content]
    BY FlushedType
  <2>2. inflight' \in [Attempts -> Seq([index : Chunk, data : Data])]
    BY <1>26, QueueClear DEF WriteLands
  <2> QED
    BY <1>26, <2>1, <2>2 DEF WriteLands
<1>27. ASSUME NEW x \in saves, SaveLands(x) PROVE TypeOK'
  <2>1. x.completed \in SUBSET Chunk /\ x.dir \in Dirs
    BY DEF Snapshot
  <2> QED
    BY <1>27, <2>1 DEF SaveLands
<1>28. ASSUME NEW s \in Attempts, Cut(s) PROVE TypeOK'
  <2>1. toSnd \in [Attempts -> Seq(ToSndMsg)] /\ toRcv \in [Attempts -> Seq(ToRcvMsg)]
    BY DEF TypeOK
  <2>2. PICK i \in 0..Len(toRcv[s]), j \in 0..Len(toSnd[s]) :
          /\ toRcv' = [toRcv EXCEPT ![s] = SubSeq(@, 1, i)]
          /\ toSnd' = [toSnd EXCEPT ![s] = SubSeq(@, 1, j)]
    BY <1>28 DEF Cut
  <2>3. toRcv' \in [Attempts -> Seq(ToRcvMsg)] /\ toSnd' \in [Attempts -> Seq(ToSndMsg)]
    BY <2>1, <2>2, QueueCut
  <2> QED
    <3>1. cuts' \in 0..MaxCuts /\ down' \in [Attempts -> BOOLEAN]
      BY <1>28 DEF Cut
    <3> QED
      BY <1>28, <2>3, <3>1 DEF Cut
<1>29. CASE Crash
  <2>1. /\ rpc' \in [Attempts -> ReceiverPC] /\ down' \in [Attempts -> BOOLEAN]
        /\ saves' \subseteq Snapshot
    BY <1>29 DEF Crash
  <2>4. crashes' \in 0..MaxCrashes
    <3>1. crashes < MaxCrashes /\ crashes' = crashes + 1
      BY <1>29 DEF Crash
    <3>2. crashes \in Nat /\ MaxCrashes \in Nat
      OBVIOUS
    <3> HIDE DEF TypeOK, ConstantsOK
    <3> QED
      BY <3>1, <3>2
  <2>2. inflight' \in [Attempts -> Seq([index : Chunk, data : Data])]
    <3>1. <<>> \in Seq([index : Chunk, data : Data])
      BY EmptySeq
    <3> QED
      BY <1>29, <3>1 DEF Crash
  <2>3. stateFile' \in [kind : {"absent", "torn", "saved"},
                        completed : SUBSET Chunk, dir : Dirs]
    <3>1. stateFile' = stateFile \/ stateFile' = [stateFile EXCEPT !.kind = "torn"]
      BY <1>29 DEF Crash
    <3> QED
      BY <3>1
  <2> QED
    BY <1>29, <2>1, <2>2, <2>3, <2>4 DEF Crash
<1>30. CASE UNCHANGED vars
  BY <1>30 DEF vars
<1> QED
  BY <1>1, <1>2, <1>3, <1>4, <1>5, <1>6, <1>7, <1>8, <1>9, <1>10, <1>11, <1>12,
     <1>13, <1>14, <1>15, <1>16, <1>17, <1>18, <1>19, <1>20, <1>21, <1>22, <1>23,
     <1>24, <1>25, <1>26, <1>27, <1>28, <1>29, <1>30,
     <1>31, <1>32, <1>33
     DEF Next, Sender, Handler, AllEnded

(* Every variable keeps its type; completed_chunks and resume points never *)
(* leave the file.                                                         *)
THEOREM TypeCorrect == Spec => []TypeOK
<1>1. Init => TypeOK
  BY ConstantsOK DEF ConstantsOK, Init, TypeOK, SenderPC, ReceiverPC, Content, Empty, Absent, Chunk
<1>2. TypeOK /\ [Next]_vars => TypeOK'
  BY TypeStep
<1> QED
  BY <1>1, <1>2, PTL DEF Spec

-----------------------------------------------------------------------------
(* The inductive invariant, in parts. *)

Active(s) == SenderBusy(s) \/ HandlerLive(s)
OneActive == \A s, t \in Attempts : Active(s) /\ Active(t) => s = t

Unopened == {"none", "request", "open", "create"}
Waiting  == {"request", "open", "create", "respond"}
Held     == {"respond", "recv", "rename"}

(* Before the response nothing was sent either way.                        *)
QuietBeforeResponse ==
  \A s \in Attempts :
    /\ pc[s] = "idle" <=> rpc[s] = "none"
    /\ rpc[s] \in Waiting \cup {"none"} =>
         /\ pc[s] \in {"idle", "waitResponse", "failed"}
         /\ toRcv[s] = <<>> /\ toSnd[s] = <<>> /\ inflight[s] = <<>>
    /\ pc[s] = "waitResponse" =>
         /\ toRcv[s] = <<>> /\ Len(toSnd[s]) <= 1
         /\ rpc[s] \in Waiting \cup {"recv", "unlink", "unstate", "closed"}
         /\ rpc[s] = "recv" => Len(hasher[s]) = resume[s]

(* An inode nobody made yet has no name and is open nowhere.               *)
InodesFresh ==
  \A s \in Attempts : rpc[s] \in Unopened =>
    /\ tempLink # s
    /\ \A d \in Dirs : destLink[d] # s
    /\ \A t \in Attempts : handle[t] # s

(* The handler that has the temp file open has the one the name leads to.  *)
HeldIsTemp ==
  \A s \in Attempts : rpc[s] \in Held => tempLink \in Attempts /\ handle[s] = tempLink

TempIsUnfinished == \A d \in Dirs : destLink[d] # None => destLink[d] # tempLink

(* A write still to be performed goes to the temp file of its own handler  *)
(* or to a file without a name.                                            *)
LateWritesHarmless ==
  \A s \in Attempts : inflight[s] # <<>> =>
    /\ handle[s] \in Attempts
    /\ \A d \in Dirs : destLink[d] # handle[s]
    /\ rpc[s] \in {"recv", "unlink", "unstate", "closed"}
    /\ handle[s] = tempLink => rpc[s] \in {"recv", "unlink"}

(* What is on its way to a receiving handler continues what it has.  The   *)
(* message m is at place k, for a hasher fed h and a sender with the file f.          *)
Fits(m, k, h, f) ==
  /\ m.type = "chunk" => m.index = Len(h) + k /\ m.data = f[m.index]
  /\ m.type = "complete" => m.hash = f

WireContinues ==
  \A s \in Attempts : rpc[s] = "recv" =>
    /\ \A k \in 1..Len(toRcv[s]) : Fits(toRcv[s][k], k, hasher[s], file[s])
    /\ pc[s] = "sending" /\ ~down[s] => next[s] = Len(hasher[s]) + Len(toRcv[s]) + 1

(* Answers tell the truth.                                                 *)
AnswersTrue ==
  \A s \in Attempts : \A k \in 1..Len(toSnd[s]) :
    /\ toSnd[s][k].type = "response" =>
         /\ pc[s] \notin {"sending", "waitAck"}
         /\ toSnd[s][k].accepted => toSnd[s][k].resume = resume[s]
    /\ toSnd[s][k].type = "complete" => s \in saved

(* The chunks fed to the hasher are on disk, counting the pending write,   *)
(* and those after the resume point are the sender's.                      *)
OnDisk(h, c)      == \A i \in 1..Len(h) : c[i] = h[i]
SentFrom(h, f, r) == \A i \in 1..Len(h) : i > r => h[i] = f[i]

HasherTracksDisk ==
  \A s \in Attempts :
    /\ rpc[s] = "create" => hasher[s] = <<>> /\ resume[s] = 0
    /\ rpc[s] = "respond" =>
         Len(hasher[s]) = resume[s] /\ OnDisk(hasher[s], blocks[handle[s]])
    /\ rpc[s] = "recv" =>
         /\ Len(hasher[s]) + left[s] = N
         /\ OnDisk(hasher[s], Flushed(s)[handle[s]])
         /\ SentFrom(hasher[s], file[s], resume[s])
    /\ rpc[s] = "rename" => blocks[handle[s]] = file[s]

Acknowledged ==
  \A s \in Attempts : rpc[s] \in {"renamed", "ack", "record"} => s \in saved

IInv ==
  /\ TypeOK
  /\ OneActive
  /\ QuietBeforeResponse
  /\ InodesFresh
  /\ HeldIsTemp
  /\ TempIsUnfinished
  /\ LateWritesHarmless
  /\ WireContinues
  /\ AnswersTrue
  /\ HasherTracksDisk
  /\ Acknowledged
  /\ DeliveredIntact
  /\ FreshNeverMismatches
  /\ SenderDoneMeansSaved
-----------------------------------------------------------------------------
(* One lemma per part of IInv: a step keeps it. *)

(* At most one attempt is active: only Start makes one so.                 *)
LEMMA OneActiveStep ==
  ASSUME IInv, [Next]_vars, Exclusive
  PROVE  OneActive'
<1> USE DEF sender, network, memory, disk, outcome, faults, Goto, RGoto, HangUp, Reply
<1> USE DEF OneActive, Active, SenderBusy, HandlerLive
<1>0. /\ pc \in [Attempts -> SenderPC]
      /\ rpc \in [Attempts -> ReceiverPC]
      /\ OneActive
  BY ConstantsOK DEF ConstantsOK, IInv, TypeOK
<1>1. ASSUME NEW s \in Attempts, Start(s) PROVE OneActive'
  BY <1>0, <1>1 DEF Start
<1>2. ASSUME NEW s \in Attempts, OnAccepted(s) PROVE OneActive'
  BY <1>0, <1>2 DEF OnAccepted
<1>3. ASSUME NEW s \in Attempts, OnRejected(s) PROVE OneActive'
  BY <1>0, <1>3 DEF OnRejected
<1>4. ASSUME NEW s \in Attempts, SendChunk(s) PROVE OneActive'
  BY <1>0, <1>4 DEF SendChunk
<1>5. ASSUME NEW s \in Attempts, SendComplete(s) PROVE OneActive'
  BY <1>0, <1>5 DEF SendComplete
<1>6. ASSUME NEW s \in Attempts, CancelSend(s) PROVE OneActive'
  BY <1>0, <1>6 DEF CancelSend
<1>7. ASSUME NEW s \in Attempts, OnAck(s) PROVE OneActive'
  BY <1>0, <1>7 DEF OnAck
<1>8. ASSUME NEW s \in Attempts, SenderFails(s) PROVE OneActive'
  BY <1>0, <1>8 DEF SenderFails
<1>9. ASSUME NEW s \in Attempts, Accept(s) PROVE OneActive'
  BY <1>0, <1>9 DEF Accept
<1>10. ASSUME NEW s \in Attempts, Reject(s) PROVE OneActive'
  BY <1>0, <1>10 DEF Reject
<1>11. ASSUME NEW s \in Attempts, RequestLost(s) PROVE OneActive'
  BY <1>0, <1>11 DEF RequestLost
<1>12. ASSUME NEW s \in Attempts, OpenResume(s) PROVE OneActive'
  BY <1>0, <1>12 DEF OpenResume
<1>13. ASSUME NEW s \in Attempts, OpenFresh(s) PROVE OneActive'
  BY <1>0, <1>13 DEF OpenFresh
<1>14. ASSUME NEW s \in Attempts, CreateTemp(s) PROVE OneActive'
  BY <1>0, <1>14 DEF CreateTemp
<1>15. ASSUME NEW s \in Attempts, Respond(s) PROVE OneActive'
  BY <1>0, <1>15 DEF Respond
<1>16. ASSUME NEW s \in Attempts, RespondFails(s) PROVE OneActive'
  BY <1>0, <1>16 DEF RespondFails
<1>17. ASSUME NEW s \in Attempts, RecvChunk(s) PROVE OneActive'
  BY <1>0, <1>17 DEF RecvChunk
<1>18. ASSUME NEW s \in Attempts, VerifyMatches(s) PROVE OneActive'
  BY <1>0, <1>18 DEF VerifyMatches
<1>19. ASSUME NEW s \in Attempts, VerifyMismatches(s) PROVE OneActive'
  BY <1>0, <1>19 DEF VerifyMismatches
<1>20. ASSUME NEW s \in Attempts, Rename(s) PROVE OneActive'
  BY <1>0, <1>20 DEF Rename
<1>21. ASSUME NEW s \in Attempts, RenameFails(s) PROVE OneActive'
  BY <1>0, <1>21 DEF RenameFails
<1>22. ASSUME NEW s \in Attempts, RemoveState(s) PROVE OneActive'
  BY <1>0, <1>22 DEF RemoveState
<1>23. ASSUME NEW s \in Attempts, Ack(s) PROVE OneActive'
  BY <1>0, <1>23 DEF Ack
<1>24. ASSUME NEW s \in Attempts, AckFails(s) PROVE OneActive'
  BY <1>0, <1>24 DEF AckFails
<1>25. ASSUME NEW s \in Attempts, Record(s) PROVE OneActive'
  BY <1>0, <1>25 DEF Record
<1>26. ASSUME NEW s \in Attempts, RecvFails(s) PROVE OneActive'
  BY <1>0, <1>26 DEF RecvFails
<1>27. ASSUME NEW s \in Attempts, Report(s) PROVE OneActive'
  BY <1>0, <1>27 DEF Report
<1>28. ASSUME NEW s \in Attempts, CleanupTemp(s) PROVE OneActive'
  BY <1>0, <1>28 DEF CleanupTemp
<1>29. ASSUME NEW s \in Attempts, WriteLands(s) PROVE OneActive'
  BY <1>0, <1>29 DEF WriteLands
<1>30. ASSUME NEW s \in Attempts, Cut(s) PROVE OneActive'
  BY <1>0, <1>30 DEF Cut
<1>31. ASSUME NEW x \in saves, SaveLands(x) PROVE OneActive'
  BY <1>0, <1>31 DEF SaveLands
<1>32. CASE Crash
  BY <1>0, <1>32 DEF Crash
<1>33. CASE UNCHANGED vars
  BY <1>0, <1>33 DEF vars
<1> QED
  BY <1>1, <1>2, <1>3, <1>4, <1>5, <1>6, <1>7, <1>8, <1>9, <1>10,
     <1>11, <1>12, <1>13, <1>14, <1>15, <1>16, <1>17, <1>18, <1>19, <1>20,
     <1>21, <1>22, <1>23, <1>24, <1>25, <1>26, <1>27, <1>28, <1>29, <1>30,
     <1>31, <1>32, <1>33
     DEF Next, Sender, Handler, AllEnded

(* An inode gets a name or a handle only from the attempt that makes it.   *)
LEMMA InodesFreshStep ==
  ASSUME IInv, [Next]_vars, Exclusive
  PROVE  InodesFresh'
<1> USE DEF sender, network, memory, disk, outcome, faults, Goto, RGoto, HangUp, Reply
<1> USE DEF InodesFresh, Unopened
<1>0. /\ rpc \in [Attempts -> ReceiverPC]
      /\ handle \in [Attempts -> Attempts \cup {None}]
      /\ tempLink \in Attempts \cup {None} /\ destLink \in [Dirs -> Attempts \cup {None}]
      /\ None \notin Attempts
      /\ InodesFresh
  BY ConstantsOK DEF ConstantsOK, IInv, TypeOK
<1>1. ASSUME NEW s \in Attempts, Start(s) PROVE InodesFresh'
  BY <1>0, <1>1 DEF Start
<1>2. ASSUME NEW s \in Attempts, OnAccepted(s) PROVE InodesFresh'
  BY <1>0, <1>2 DEF OnAccepted
<1>3. ASSUME NEW s \in Attempts, OnRejected(s) PROVE InodesFresh'
  BY <1>0, <1>3 DEF OnRejected
<1>4. ASSUME NEW s \in Attempts, SendChunk(s) PROVE InodesFresh'
  BY <1>0, <1>4 DEF SendChunk
<1>5. ASSUME NEW s \in Attempts, SendComplete(s) PROVE InodesFresh'
  BY <1>0, <1>5 DEF SendComplete
<1>6. ASSUME NEW s \in Attempts, CancelSend(s) PROVE InodesFresh'
  BY <1>0, <1>6 DEF CancelSend
<1>7. ASSUME NEW s \in Attempts, OnAck(s) PROVE InodesFresh'
  BY <1>0, <1>7 DEF OnAck
<1>8. ASSUME NEW s \in Attempts, SenderFails(s) PROVE InodesFresh'
  BY <1>0, <1>8 DEF SenderFails
<1>9. ASSUME NEW s \in Attempts, Accept(s) PROVE InodesFresh'
  BY <1>0, <1>9 DEF Accept
<1>10. ASSUME NEW s \in Attempts, Reject(s) PROVE InodesFresh'
  BY <1>0, <1>10 DEF Reject
<1>11. ASSUME NEW s \in Attempts, RequestLost(s) PROVE InodesFresh'
  BY <1>0, <1>11 DEF RequestLost
<1>12. ASSUME NEW s \in Attempts, OpenResume(s) PROVE InodesFresh'
  BY <1>0, <1>12 DEF OpenResume
<1>13. ASSUME NEW s \in Attempts, OpenFresh(s) PROVE InodesFresh'
  BY <1>0, <1>13 DEF OpenFresh
<1>14. ASSUME NEW s \in Attempts, CreateTemp(s) PROVE InodesFresh'
  BY <1>0, <1>14 DEF CreateTemp
<1>15. ASSUME NEW s \in Attempts, Respond(s) PROVE InodesFresh'
  BY <1>0, <1>15 DEF Respond
<1>16. ASSUME NEW s \in Attempts, RespondFails(s) PROVE InodesFresh'
  BY <1>0, <1>16 DEF RespondFails
<1>17. ASSUME NEW s \in Attempts, RecvChunk(s) PROVE InodesFresh'
  BY <1>0, <1>17 DEF RecvChunk
<1>18. ASSUME NEW s \in Attempts, VerifyMatches(s) PROVE InodesFresh'
  BY <1>0, <1>18 DEF VerifyMatches
<1>19. ASSUME NEW s \in Attempts, VerifyMismatches(s) PROVE InodesFresh'
  BY <1>0, <1>19 DEF VerifyMismatches
<1>20. ASSUME NEW s \in Attempts, Rename(s) PROVE InodesFresh'
  BY <1>0, <1>20 DEF Rename
<1>21. ASSUME NEW s \in Attempts, RenameFails(s) PROVE InodesFresh'
  BY <1>0, <1>21 DEF RenameFails
<1>22. ASSUME NEW s \in Attempts, RemoveState(s) PROVE InodesFresh'
  BY <1>0, <1>22 DEF RemoveState
<1>23. ASSUME NEW s \in Attempts, Ack(s) PROVE InodesFresh'
  BY <1>0, <1>23 DEF Ack
<1>24. ASSUME NEW s \in Attempts, AckFails(s) PROVE InodesFresh'
  BY <1>0, <1>24 DEF AckFails
<1>25. ASSUME NEW s \in Attempts, Record(s) PROVE InodesFresh'
  BY <1>0, <1>25 DEF Record
<1>26. ASSUME NEW s \in Attempts, RecvFails(s) PROVE InodesFresh'
  BY <1>0, <1>26 DEF RecvFails
<1>27. ASSUME NEW s \in Attempts, Report(s) PROVE InodesFresh'
  BY <1>0, <1>27 DEF Report
<1>28. ASSUME NEW s \in Attempts, CleanupTemp(s) PROVE InodesFresh'
  BY <1>0, <1>28 DEF CleanupTemp
<1>29. ASSUME NEW s \in Attempts, WriteLands(s) PROVE InodesFresh'
  BY <1>0, <1>29 DEF WriteLands
<1>30. ASSUME NEW s \in Attempts, Cut(s) PROVE InodesFresh'
  BY <1>0, <1>30 DEF Cut
<1>31. ASSUME NEW x \in saves, SaveLands(x) PROVE InodesFresh'
  BY <1>0, <1>31 DEF SaveLands
<1>32. CASE Crash
  BY <1>0, <1>32 DEF Crash
<1>33. CASE UNCHANGED vars
  BY <1>0, <1>33 DEF vars
<1> QED
  BY <1>1, <1>2, <1>3, <1>4, <1>5, <1>6, <1>7, <1>8, <1>9, <1>10,
     <1>11, <1>12, <1>13, <1>14, <1>15, <1>16, <1>17, <1>18, <1>19, <1>20,
     <1>21, <1>22, <1>23, <1>24, <1>25, <1>26, <1>27, <1>28, <1>29, <1>30,
     <1>31, <1>32, <1>33
     DEF Next, Sender, Handler, AllEnded

(* Only the active handler moves the name of the temp file.                *)
LEMMA HeldIsTempStep ==
  ASSUME IInv, [Next]_vars, Exclusive
  PROVE  HeldIsTemp'
<1> USE DEF sender, network, memory, disk, outcome, faults, Goto, RGoto, HangUp, Reply
<1> USE DEF HeldIsTemp, Held, OneActive, Active, SenderBusy, HandlerLive
<1>0. /\ rpc \in [Attempts -> ReceiverPC]
      /\ handle \in [Attempts -> Attempts \cup {None}]
      /\ tempLink \in Attempts \cup {None} /\ destLink \in [Dirs -> Attempts \cup {None}]
      /\ None \notin Attempts
      /\ OneActive
      /\ HeldIsTemp
  BY ConstantsOK DEF ConstantsOK, IInv, TypeOK
<1>1. ASSUME NEW s \in Attempts, Start(s) PROVE HeldIsTemp'
  BY <1>0, <1>1 DEF Start
<1>2. ASSUME NEW s \in Attempts, OnAccepted(s) PROVE HeldIsTemp'
  BY <1>0, <1>2 DEF OnAccepted
<1>3. ASSUME NEW s \in Attempts, OnRejected(s) PROVE HeldIsTemp'
  BY <1>0, <1>3 DEF OnRejected
<1>4. ASSUME NEW s \in Attempts, SendChunk(s) PROVE HeldIsTemp'
  BY <1>0, <1>4 DEF SendChunk
<1>5. ASSUME NEW s \in Attempts, SendComplete(s) PROVE HeldIsTemp'
  BY <1>0, <1>5 DEF SendComplete
<1>6. ASSUME NEW s \in Attempts, CancelSend(s) PROVE HeldIsTemp'
  BY <1>0, <1>6 DEF CancelSend
<1>7. ASSUME NEW s \in Attempts, OnAck(s) PROVE HeldIsTemp'
  BY <1>0, <1>7 DEF OnAck
<1>8. ASSUME NEW s \in Attempts, SenderFails(s) PROVE HeldIsTemp'
  BY <1>0, <1>8 DEF SenderFails
<1>9. ASSUME NEW s \in Attempts, Accept(s) PROVE HeldIsTemp'
  BY <1>0, <1>9 DEF Accept
<1>10. ASSUME NEW s \in Attempts, Reject(s) PROVE HeldIsTemp'
  BY <1>0, <1>10 DEF Reject
<1>11. ASSUME NEW s \in Attempts, RequestLost(s) PROVE HeldIsTemp'
  BY <1>0, <1>11 DEF RequestLost
<1>12. ASSUME NEW s \in Attempts, OpenResume(s) PROVE HeldIsTemp'
  BY <1>0, <1>12 DEF OpenResume, Resumable
<1>13. ASSUME NEW s \in Attempts, OpenFresh(s) PROVE HeldIsTemp'
  BY <1>0, <1>13 DEF OpenFresh
<1>14. ASSUME NEW s \in Attempts, CreateTemp(s) PROVE HeldIsTemp'
  BY <1>0, <1>14 DEF CreateTemp
<1>15. ASSUME NEW s \in Attempts, Respond(s) PROVE HeldIsTemp'
  BY <1>0, <1>15 DEF Respond
<1>16. ASSUME NEW s \in Attempts, RespondFails(s) PROVE HeldIsTemp'
  BY <1>0, <1>16 DEF RespondFails
<1>17. ASSUME NEW s \in Attempts, RecvChunk(s) PROVE HeldIsTemp'
  BY <1>0, <1>17 DEF RecvChunk
<1>18. ASSUME NEW s \in Attempts, VerifyMatches(s) PROVE HeldIsTemp'
  BY <1>0, <1>18 DEF VerifyMatches
<1>19. ASSUME NEW s \in Attempts, VerifyMismatches(s) PROVE HeldIsTemp'
  BY <1>0, <1>19 DEF VerifyMismatches
<1>20. ASSUME NEW s \in Attempts, Rename(s) PROVE HeldIsTemp'
  BY <1>0, <1>20 DEF Rename
<1>21. ASSUME NEW s \in Attempts, RenameFails(s) PROVE HeldIsTemp'
  BY <1>0, <1>21 DEF RenameFails
<1>22. ASSUME NEW s \in Attempts, RemoveState(s) PROVE HeldIsTemp'
  BY <1>0, <1>22 DEF RemoveState
<1>23. ASSUME NEW s \in Attempts, Ack(s) PROVE HeldIsTemp'
  BY <1>0, <1>23 DEF Ack
<1>24. ASSUME NEW s \in Attempts, AckFails(s) PROVE HeldIsTemp'
  BY <1>0, <1>24 DEF AckFails
<1>25. ASSUME NEW s \in Attempts, Record(s) PROVE HeldIsTemp'
  BY <1>0, <1>25 DEF Record
<1>26. ASSUME NEW s \in Attempts, RecvFails(s) PROVE HeldIsTemp'
  BY <1>0, <1>26 DEF RecvFails
<1>27. ASSUME NEW s \in Attempts, Report(s) PROVE HeldIsTemp'
  BY <1>0, <1>27 DEF Report
<1>28. ASSUME NEW s \in Attempts, CleanupTemp(s) PROVE HeldIsTemp'
  BY <1>0, <1>28 DEF CleanupTemp
<1>29. ASSUME NEW s \in Attempts, WriteLands(s) PROVE HeldIsTemp'
  BY <1>0, <1>29 DEF WriteLands
<1>30. ASSUME NEW s \in Attempts, Cut(s) PROVE HeldIsTemp'
  BY <1>0, <1>30 DEF Cut
<1>31. ASSUME NEW x \in saves, SaveLands(x) PROVE HeldIsTemp'
  BY <1>0, <1>31 DEF SaveLands
<1>32. CASE Crash
  BY <1>0, <1>32 DEF Crash
<1>33. CASE UNCHANGED vars
  BY <1>0, <1>33 DEF vars
<1> QED
  BY <1>1, <1>2, <1>3, <1>4, <1>5, <1>6, <1>7, <1>8, <1>9, <1>10,
     <1>11, <1>12, <1>13, <1>14, <1>15, <1>16, <1>17, <1>18, <1>19, <1>20,
     <1>21, <1>22, <1>23, <1>24, <1>25, <1>26, <1>27, <1>28, <1>29, <1>30,
     <1>31, <1>32, <1>33
     DEF Next, Sender, Handler, AllEnded

(* The temp name never leads to a finished file.                           *)
LEMMA TempIsUnfinishedStep ==
  ASSUME IInv, [Next]_vars, Exclusive
  PROVE  TempIsUnfinished'
<1> USE DEF sender, network, memory, disk, outcome, faults, Goto, RGoto, HangUp, Reply
<1> USE DEF TempIsUnfinished, InodesFresh, Unopened
<1>0. /\ rpc \in [Attempts -> ReceiverPC]
      /\ handle \in [Attempts -> Attempts \cup {None}]
      /\ tempLink \in Attempts \cup {None} /\ destLink \in [Dirs -> Attempts \cup {None}]
      /\ None \notin Attempts
      /\ saveDir \in [Attempts -> Dirs]
      /\ InodesFresh
      /\ TempIsUnfinished
  BY ConstantsOK DEF ConstantsOK, IInv, TypeOK
<1>1. ASSUME NEW s \in Attempts, Start(s) PROVE TempIsUnfinished'
  BY <1>0, <1>1 DEF Start
<1>2. ASSUME NEW s \in Attempts, OnAccepted(s) PROVE TempIsUnfinished'
  BY <1>0, <1>2 DEF OnAccepted
<1>3. ASSUME NEW s \in Attempts, OnRejected(s) PROVE TempIsUnfinished'
  BY <1>0, <1>3 DEF OnRejected
<1>4. ASSUME NEW s \in Attempts, SendChunk(s) PROVE TempIsUnfinished'
  BY <1>0, <1>4 DEF SendChunk
<1>5. ASSUME NEW s \in Attempts, SendComplete(s) PROVE TempIsUnfinished'
  BY <1>0, <1>5 DEF SendComplete
<1>6. ASSUME NEW s \in Attempts, CancelSend(s) PROVE TempIsUnfinished'
  BY <1>0, <1>6 DEF CancelSend
<1>7. ASSUME NEW s \in Attempts, OnAck(s) PROVE TempIsUnfinished'
  BY <1>0, <1>7 DEF OnAck
<1>8. ASSUME NEW s \in Attempts, SenderFails(s) PROVE TempIsUnfinished'
  BY <1>0, <1>8 DEF SenderFails
<1>9. ASSUME NEW s \in Attempts, Accept(s) PROVE TempIsUnfinished'
  BY <1>0, <1>9 DEF Accept
<1>10. ASSUME NEW s \in Attempts, Reject(s) PROVE TempIsUnfinished'
  BY <1>0, <1>10 DEF Reject
<1>11. ASSUME NEW s \in Attempts, RequestLost(s) PROVE TempIsUnfinished'
  BY <1>0, <1>11 DEF RequestLost
<1>12. ASSUME NEW s \in Attempts, OpenResume(s) PROVE TempIsUnfinished'
  BY <1>0, <1>12 DEF OpenResume
<1>13. ASSUME NEW s \in Attempts, OpenFresh(s) PROVE TempIsUnfinished'
  BY <1>0, <1>13 DEF OpenFresh
<1>14. ASSUME NEW s \in Attempts, CreateTemp(s) PROVE TempIsUnfinished'
  BY <1>0, <1>14 DEF CreateTemp
<1>15. ASSUME NEW s \in Attempts, Respond(s) PROVE TempIsUnfinished'
  BY <1>0, <1>15 DEF Respond
<1>16. ASSUME NEW s \in Attempts, RespondFails(s) PROVE TempIsUnfinished'
  BY <1>0, <1>16 DEF RespondFails
<1>17. ASSUME NEW s \in Attempts, RecvChunk(s) PROVE TempIsUnfinished'
  BY <1>0, <1>17 DEF RecvChunk
<1>18. ASSUME NEW s \in Attempts, VerifyMatches(s) PROVE TempIsUnfinished'
  BY <1>0, <1>18 DEF VerifyMatches
<1>19. ASSUME NEW s \in Attempts, VerifyMismatches(s) PROVE TempIsUnfinished'
  BY <1>0, <1>19 DEF VerifyMismatches
<1>20. ASSUME NEW s \in Attempts, Rename(s) PROVE TempIsUnfinished'
  BY <1>0, <1>20 DEF Rename
<1>21. ASSUME NEW s \in Attempts, RenameFails(s) PROVE TempIsUnfinished'
  BY <1>0, <1>21 DEF RenameFails
<1>22. ASSUME NEW s \in Attempts, RemoveState(s) PROVE TempIsUnfinished'
  BY <1>0, <1>22 DEF RemoveState
<1>23. ASSUME NEW s \in Attempts, Ack(s) PROVE TempIsUnfinished'
  BY <1>0, <1>23 DEF Ack
<1>24. ASSUME NEW s \in Attempts, AckFails(s) PROVE TempIsUnfinished'
  BY <1>0, <1>24 DEF AckFails
<1>25. ASSUME NEW s \in Attempts, Record(s) PROVE TempIsUnfinished'
  BY <1>0, <1>25 DEF Record
<1>26. ASSUME NEW s \in Attempts, RecvFails(s) PROVE TempIsUnfinished'
  BY <1>0, <1>26 DEF RecvFails
<1>27. ASSUME NEW s \in Attempts, Report(s) PROVE TempIsUnfinished'
  BY <1>0, <1>27 DEF Report
<1>28. ASSUME NEW s \in Attempts, CleanupTemp(s) PROVE TempIsUnfinished'
  BY <1>0, <1>28 DEF CleanupTemp
<1>29. ASSUME NEW s \in Attempts, WriteLands(s) PROVE TempIsUnfinished'
  BY <1>0, <1>29 DEF WriteLands
<1>30. ASSUME NEW s \in Attempts, Cut(s) PROVE TempIsUnfinished'
  BY <1>0, <1>30 DEF Cut
<1>31. ASSUME NEW x \in saves, SaveLands(x) PROVE TempIsUnfinished'
  BY <1>0, <1>31 DEF SaveLands
<1>32. CASE Crash
  BY <1>0, <1>32 DEF Crash
<1>33. CASE UNCHANGED vars
  BY <1>0, <1>33 DEF vars
<1> QED
  BY <1>1, <1>2, <1>3, <1>4, <1>5, <1>6, <1>7, <1>8, <1>9, <1>10,
     <1>11, <1>12, <1>13, <1>14, <1>15, <1>16, <1>17, <1>18, <1>19, <1>20,
     <1>21, <1>22, <1>23, <1>24, <1>25, <1>26, <1>27, <1>28, <1>29, <1>30,
     <1>31, <1>32, <1>33
     DEF Next, Sender, Handler, AllEnded

(* A write left behind never reaches a named file of another transfer.     *)
LEMMA LateWritesHarmlessStep ==
  ASSUME IInv, [Next]_vars, Exclusive
  PROVE  LateWritesHarmless'
<1> USE DEF sender, network, memory, disk, outcome, faults, Goto, RGoto, HangUp, Reply
<1> USE DEF LateWritesHarmless, InodesFresh, Unopened, HeldIsTemp, Held, TempIsUnfinished, OneActive,
           Active, SenderBusy, HandlerLive, QuietBeforeResponse, Waiting
<1>0. /\ rpc \in [Attempts -> ReceiverPC]
      /\ handle \in [Attempts -> Attempts \cup {None}]
      /\ tempLink \in Attempts \cup {None} /\ destLink \in [Dirs -> Attempts \cup {None}]
      /\ None \notin Attempts
      /\ inflight \in [Attempts -> Seq([index : Chunk, data : Data])]
      /\ dir \in [Attempts -> Dirs] /\ saveDir \in [Attempts -> Dirs]
      /\ OneActive
      /\ InodesFresh
      /\ HeldIsTemp
      /\ TempIsUnfinished
      /\ QuietBeforeResponse
      /\ LateWritesHarmless
  BY ConstantsOK DEF ConstantsOK, IInv, TypeOK
<1>1. ASSUME NEW s \in Attempts, Start(s) PROVE LateWritesHarmless'
  BY <1>0, <1>1 DEF Start
<1>2. ASSUME NEW s \in Attempts, OnAccepted(s) PROVE LateWritesHarmless'
  BY <1>0, <1>2 DEF OnAccepted
<1>3. ASSUME NEW s \in Attempts, OnRejected(s) PROVE LateWritesHarmless'
  BY <1>0, <1>3 DEF OnRejected
<1>4. ASSUME NEW s \in Attempts, SendChunk(s) PROVE LateWritesHarmless'
  BY <1>0, <1>4 DEF SendChunk
<1>5. ASSUME NEW s \in Attempts, SendComplete(s) PROVE LateWritesHarmless'
  BY <1>0, <1>5 DEF SendComplete
<1>6. ASSUME NEW s \in Attempts, CancelSend(s) PROVE LateWritesHarmless'
  BY <1>0, <1>6 DEF CancelSend
<1>7. ASSUME NEW s \in Attempts, OnAck(s) PROVE LateWritesHarmless'
  BY <1>0, <1>7 DEF OnAck
<1>8. ASSUME NEW s \in Attempts, SenderFails(s) PROVE LateWritesHarmless'
  BY <1>0, <1>8 DEF SenderFails
<1>9. ASSUME NEW s \in Attempts, Accept(s) PROVE LateWritesHarmless'
  BY <1>0, <1>9 DEF Accept
<1>10. ASSUME NEW s \in Attempts, Reject(s) PROVE LateWritesHarmless'
  BY <1>0, <1>10 DEF Reject
<1>11. ASSUME NEW s \in Attempts, RequestLost(s) PROVE LateWritesHarmless'
  BY <1>0, <1>11 DEF RequestLost
<1>12. ASSUME NEW s \in Attempts, OpenResume(s) PROVE LateWritesHarmless'
  BY <1>0, <1>12 DEF OpenResume
<1>13. ASSUME NEW s \in Attempts, OpenFresh(s) PROVE LateWritesHarmless'
  BY <1>0, <1>13 DEF OpenFresh
<1>14. ASSUME NEW s \in Attempts, CreateTemp(s) PROVE LateWritesHarmless'
  BY <1>0, <1>14 DEF CreateTemp
<1>15. ASSUME NEW s \in Attempts, Respond(s) PROVE LateWritesHarmless'
  BY <1>0, <1>15 DEF Respond
<1>16. ASSUME NEW s \in Attempts, RespondFails(s) PROVE LateWritesHarmless'
  BY <1>0, <1>16 DEF RespondFails
<1>17. ASSUME NEW s \in Attempts, RecvChunk(s) PROVE LateWritesHarmless'
  BY <1>0, <1>17 DEF RecvChunk
<1>18. ASSUME NEW s \in Attempts, VerifyMatches(s) PROVE LateWritesHarmless'
  BY <1>0, <1>18 DEF VerifyMatches
<1>19. ASSUME NEW s \in Attempts, VerifyMismatches(s) PROVE LateWritesHarmless'
  BY <1>0, <1>19 DEF VerifyMismatches
<1>20. ASSUME NEW s \in Attempts, Rename(s) PROVE LateWritesHarmless'
  BY <1>0, <1>20 DEF Rename
<1>21. ASSUME NEW s \in Attempts, RenameFails(s) PROVE LateWritesHarmless'
  BY <1>0, <1>21 DEF RenameFails
<1>22. ASSUME NEW s \in Attempts, RemoveState(s) PROVE LateWritesHarmless'
  <2>1. /\ \A t \in Attempts :
             \/ rpc'[t] = rpc[t]
             \/ rpc[t] = "unstate" /\ rpc'[t] = "closed"
             \/ rpc[t] \in {"renamed", "mismatch"}
        /\ UNCHANGED <<inflight, handle, destLink, tempLink>>
    <3>1. \A t \in Attempts \ {s} : rpc'[t] = rpc[t]
      BY <1>0, <1>22 DEF RemoveState
    <3>2. \/ rpc[s] = "unstate" /\ rpc'[s] = "closed"
          \/ rpc[s] \in {"renamed", "mismatch"}
      BY <1>0, <1>22 DEF RemoveState
    <3>3. UNCHANGED <<inflight, handle, destLink, tempLink>>
      BY <1>22 DEF RemoveState
    <3> QED
      BY <3>1, <3>2, <3>3
  <2>2. LateWritesHarmless
    BY <1>0
  <2> QED
    BY <2>1, <2>2 DEF LateWritesHarmless
<1>23. ASSUME NEW s \in Attempts, Ack(s) PROVE LateWritesHarmless'
  BY <1>0, <1>23 DEF Ack
<1>24. ASSUME NEW s \in Attempts, AckFails(s) PROVE LateWritesHarmless'
  BY <1>0, <1>24 DEF AckFails
<1>25. ASSUME NEW s \in Attempts, Record(s) PROVE LateWritesHarmless'
  BY <1>0, <1>25 DEF Record
<1>26. ASSUME NEW s \in Attempts, RecvFails(s) PROVE LateWritesHarmless'
  BY <1>0, <1>26 DEF RecvFails
<1>27. ASSUME NEW s \in Attempts, Report(s) PROVE LateWritesHarmless'
  BY <1>0, <1>27 DEF Report
<1>28. ASSUME NEW s \in Attempts, CleanupTemp(s) PROVE LateWritesHarmless'
  BY <1>0, <1>28 DEF CleanupTemp
<1>29. ASSUME NEW s \in Attempts, WriteLands(s) PROVE LateWritesHarmless'
  BY <1>0, <1>29 DEF WriteLands
<1>30. ASSUME NEW s \in Attempts, Cut(s) PROVE LateWritesHarmless'
  BY <1>0, <1>30 DEF Cut
<1>31. ASSUME NEW x \in saves, SaveLands(x) PROVE LateWritesHarmless'
  BY <1>0, <1>31 DEF SaveLands
<1>32. CASE Crash
  BY <1>0, <1>32 DEF Crash
<1>33. CASE UNCHANGED vars
  BY <1>0, <1>33 DEF vars
<1> QED
  BY <1>1, <1>2, <1>3, <1>4, <1>5, <1>6, <1>7, <1>8, <1>9, <1>10,
     <1>11, <1>12, <1>13, <1>14, <1>15, <1>16, <1>17, <1>18, <1>19, <1>20,
     <1>21, <1>22, <1>23, <1>24, <1>25, <1>26, <1>27, <1>28, <1>29, <1>30,
     <1>31, <1>32, <1>33
     DEF Next, Sender, Handler, AllEnded

(* Only a handler that renamed its file acknowledges.                      *)
LEMMA AcknowledgedStep ==
  ASSUME IInv, [Next]_vars, Exclusive
  PROVE  Acknowledged'
<1> USE DEF sender, network, memory, disk, outcome, faults, Goto, RGoto, HangUp, Reply
<1> USE DEF Acknowledged
<1>0. /\ rpc \in [Attempts -> ReceiverPC]
      /\ saved \subseteq Attempts
      /\ Acknowledged
  BY ConstantsOK DEF ConstantsOK, IInv, TypeOK
<1>1. ASSUME NEW s \in Attempts, Start(s) PROVE Acknowledged'
  BY <1>0, <1>1 DEF Start
<1>2. ASSUME NEW s \in Attempts, OnAccepted(s) PROVE Acknowledged'
  BY <1>0, <1>2 DEF OnAccepted
<1>3. ASSUME NEW s \in Attempts, OnRejected(s) PROVE Acknowledged'
  BY <1>0, <1>3 DEF OnRejected
<1>4. ASSUME NEW s \in Attempts, SendChunk(s) PROVE Acknowledged'
  BY <1>0, <1>4 DEF SendChunk
<1>5. ASSUME NEW s \in Attempts, SendComplete(s) PROVE Acknowledged'
  BY <1>0, <1>5 DEF SendComplete
<1>6. ASSUME NEW s \in Attempts, CancelSend(s) PROVE Acknowledged'
  BY <1>0, <1>6 DEF CancelSend
<1>7. ASSUME NEW s \in Attempts, OnAck(s) PROVE Acknowledged'
  BY <1>0, <1>7 DEF OnAck
<1>8. ASSUME NEW s \in Attempts, SenderFails(s) PROVE Acknowledged'
  BY <1>0, <1>8 DEF SenderFails
<1>9. ASSUME NEW s \in Attempts, Accept(s) PROVE Acknowledged'
  BY <1>0, <1>9 DEF Accept
<1>10. ASSUME NEW s \in Attempts, Reject(s) PROVE Acknowledged'
  BY <1>0, <1>10 DEF Reject
<1>11. ASSUME NEW s \in Attempts, RequestLost(s) PROVE Acknowledged'
  BY <1>0, <1>11 DEF RequestLost
<1>12. ASSUME NEW s \in Attempts, OpenResume(s) PROVE Acknowledged'
  BY <1>0, <1>12 DEF OpenResume
<1>13. ASSUME NEW s \in Attempts, OpenFresh(s) PROVE Acknowledged'
  BY <1>0, <1>13 DEF OpenFresh
<1>14. ASSUME NEW s \in Attempts, CreateTemp(s) PROVE Acknowledged'
  BY <1>0, <1>14 DEF CreateTemp
<1>15. ASSUME NEW s \in Attempts, Respond(s) PROVE Acknowledged'
  BY <1>0, <1>15 DEF Respond
<1>16. ASSUME NEW s \in Attempts, RespondFails(s) PROVE Acknowledged'
  BY <1>0, <1>16 DEF RespondFails
<1>17. ASSUME NEW s \in Attempts, RecvChunk(s) PROVE Acknowledged'
  BY <1>0, <1>17 DEF RecvChunk
<1>18. ASSUME NEW s \in Attempts, VerifyMatches(s) PROVE Acknowledged'
  BY <1>0, <1>18 DEF VerifyMatches
<1>19. ASSUME NEW s \in Attempts, VerifyMismatches(s) PROVE Acknowledged'
  BY <1>0, <1>19 DEF VerifyMismatches
<1>20. ASSUME NEW s \in Attempts, Rename(s) PROVE Acknowledged'
  BY <1>0, <1>20 DEF Rename
<1>21. ASSUME NEW s \in Attempts, RenameFails(s) PROVE Acknowledged'
  BY <1>0, <1>21 DEF RenameFails
<1>22. ASSUME NEW s \in Attempts, RemoveState(s) PROVE Acknowledged'
  BY <1>0, <1>22 DEF RemoveState
<1>23. ASSUME NEW s \in Attempts, Ack(s) PROVE Acknowledged'
  BY <1>0, <1>23 DEF Ack
<1>24. ASSUME NEW s \in Attempts, AckFails(s) PROVE Acknowledged'
  BY <1>0, <1>24 DEF AckFails
<1>25. ASSUME NEW s \in Attempts, Record(s) PROVE Acknowledged'
  BY <1>0, <1>25 DEF Record
<1>26. ASSUME NEW s \in Attempts, RecvFails(s) PROVE Acknowledged'
  BY <1>0, <1>26 DEF RecvFails
<1>27. ASSUME NEW s \in Attempts, Report(s) PROVE Acknowledged'
  BY <1>0, <1>27 DEF Report
<1>28. ASSUME NEW s \in Attempts, CleanupTemp(s) PROVE Acknowledged'
  BY <1>0, <1>28 DEF CleanupTemp
<1>29. ASSUME NEW s \in Attempts, WriteLands(s) PROVE Acknowledged'
  BY <1>0, <1>29 DEF WriteLands
<1>30. ASSUME NEW s \in Attempts, Cut(s) PROVE Acknowledged'
  BY <1>0, <1>30 DEF Cut
<1>31. ASSUME NEW x \in saves, SaveLands(x) PROVE Acknowledged'
  BY <1>0, <1>31 DEF SaveLands
<1>32. CASE Crash
  BY <1>0, <1>32 DEF Crash
<1>33. CASE UNCHANGED vars
  BY <1>0, <1>33 DEF vars
<1> QED
  BY <1>1, <1>2, <1>3, <1>4, <1>5, <1>6, <1>7, <1>8, <1>9, <1>10,
     <1>11, <1>12, <1>13, <1>14, <1>15, <1>16, <1>17, <1>18, <1>19, <1>20,
     <1>21, <1>22, <1>23, <1>24, <1>25, <1>26, <1>27, <1>28, <1>29, <1>30,
     <1>31, <1>32, <1>33
     DEF Next, Sender, Handler, AllEnded

(* Nothing is sent before the response but the response.                   *)
LEMMA QuietBeforeResponseStep ==
  ASSUME IInv, [Next]_vars, Exclusive
  PROVE  QuietBeforeResponse'
<1> USE DEF sender, network, memory, disk, outcome, faults, Goto, RGoto, HangUp, Reply
<1> USE DEF QuietBeforeResponse, Waiting
<1>0. /\ pc \in [Attempts -> SenderPC]
      /\ rpc \in [Attempts -> ReceiverPC]
      /\ inflight \in [Attempts -> Seq([index : Chunk, data : Data])]
      /\ toRcv \in [Attempts -> Seq(ToRcvMsg)]
      /\ toSnd \in [Attempts -> Seq(ToSndMsg)]
      /\ hasher \in [Attempts -> Seq(Data \cup {Blank})]
      /\ resume \in [Attempts -> 0..N]
      /\ QuietBeforeResponse
      /\ \A s \in Attempts : rpc[s] = "respond" => Len(hasher[s]) = resume[s]
  BY ConstantsOK DEF ConstantsOK, IInv, TypeOK, HasherTracksDisk
<1>1. ASSUME NEW s \in Attempts, Start(s) PROVE QuietBeforeResponse'
  BY <1>0, <1>1 DEF Start
<1>2. ASSUME NEW s \in Attempts, OnAccepted(s) PROVE QuietBeforeResponse'
  BY <1>0, <1>2 DEF OnAccepted
<1>3. ASSUME NEW s \in Attempts, OnRejected(s) PROVE QuietBeforeResponse'
  BY <1>0, <1>3 DEF OnRejected
<1>4. ASSUME NEW s \in Attempts, SendChunk(s) PROVE QuietBeforeResponse'
  BY <1>0, <1>4 DEF SendChunk
<1>5. ASSUME NEW s \in Attempts, SendComplete(s) PROVE QuietBeforeResponse'
  BY <1>0, <1>5 DEF SendComplete
<1>6. ASSUME NEW s \in Attempts, CancelSend(s) PROVE QuietBeforeResponse'
  BY <1>0, <1>6 DEF CancelSend
<1>7. ASSUME NEW s \in Attempts, OnAck(s) PROVE QuietBeforeResponse'
  BY <1>0, <1>7 DEF OnAck
<1>8. ASSUME NEW s \in Attempts, SenderFails(s) PROVE QuietBeforeResponse'
  BY <1>0, <1>8 DEF SenderFails
<1>9. ASSUME NEW s \in Attempts, Accept(s) PROVE QuietBeforeResponse'
  BY <1>0, <1>9 DEF Accept
<1>10. ASSUME NEW s \in Attempts, Reject(s) PROVE QuietBeforeResponse'
  BY <1>0, <1>10 DEF Reject
<1>11. ASSUME NEW s \in Attempts, RequestLost(s) PROVE QuietBeforeResponse'
  BY <1>0, <1>11 DEF RequestLost
<1>12. ASSUME NEW s \in Attempts, OpenResume(s) PROVE QuietBeforeResponse'
  BY <1>0, <1>12 DEF OpenResume
<1>13. ASSUME NEW s \in Attempts, OpenFresh(s) PROVE QuietBeforeResponse'
  BY <1>0, <1>13 DEF OpenFresh
<1>14. ASSUME NEW s \in Attempts, CreateTemp(s) PROVE QuietBeforeResponse'
  BY <1>0, <1>14 DEF CreateTemp
<1>15. ASSUME NEW s \in Attempts, Respond(s) PROVE QuietBeforeResponse'
  <2> DEFINE m == [type |-> "response", accepted |-> TRUE, resume |-> resume[s]]
  <2>1. toSnd' = [toSnd EXCEPT ![s] = Append(@, m)] /\ toSnd[s] = <<>>
    BY <1>0, <1>15 DEF Respond
  <2>2. Len(toSnd'[s]) = 1
    BY <1>0, <2>1
  <2> HIDE DEF m
  <2> QED
    BY <1>0, <1>15, <2>1, <2>2 DEF Respond
<1>16. ASSUME NEW s \in Attempts, RespondFails(s) PROVE QuietBeforeResponse'
  BY <1>0, <1>16 DEF RespondFails
<1>17. ASSUME NEW s \in Attempts, RecvChunk(s) PROVE QuietBeforeResponse'
  BY <1>0, <1>17 DEF RecvChunk
<1>18. ASSUME NEW s \in Attempts, VerifyMatches(s) PROVE QuietBeforeResponse'
  BY <1>0, <1>18 DEF VerifyMatches
<1>19. ASSUME NEW s \in Attempts, VerifyMismatches(s) PROVE QuietBeforeResponse'
  BY <1>0, <1>19 DEF VerifyMismatches
<1>20. ASSUME NEW s \in Attempts, Rename(s) PROVE QuietBeforeResponse'
  BY <1>0, <1>20 DEF Rename
<1>21. ASSUME NEW s \in Attempts, RenameFails(s) PROVE QuietBeforeResponse'
  BY <1>0, <1>21 DEF RenameFails
<1>22. ASSUME NEW s \in Attempts, RemoveState(s) PROVE QuietBeforeResponse'
  BY <1>0, <1>22 DEF RemoveState
<1>23. ASSUME NEW s \in Attempts, Ack(s) PROVE QuietBeforeResponse'
  BY <1>0, <1>23 DEF Ack
<1>24. ASSUME NEW s \in Attempts, AckFails(s) PROVE QuietBeforeResponse'
  BY <1>0, <1>24 DEF AckFails
<1>25. ASSUME NEW s \in Attempts, Record(s) PROVE QuietBeforeResponse'
  BY <1>0, <1>25 DEF Record
<1>26. ASSUME NEW s \in Attempts, RecvFails(s) PROVE QuietBeforeResponse'
  BY <1>0, <1>26 DEF RecvFails
<1>27. ASSUME NEW s \in Attempts, Report(s) PROVE QuietBeforeResponse'
  BY <1>0, <1>27 DEF Report
<1>28. ASSUME NEW s \in Attempts, CleanupTemp(s) PROVE QuietBeforeResponse'
  BY <1>0, <1>28 DEF CleanupTemp
<1>29. ASSUME NEW s \in Attempts, WriteLands(s) PROVE QuietBeforeResponse'
  BY <1>0, <1>29 DEF WriteLands
<1>30. ASSUME NEW s \in Attempts, Cut(s) PROVE QuietBeforeResponse'
  BY <1>0, <1>30 DEF Cut
<1>31. ASSUME NEW x \in saves, SaveLands(x) PROVE QuietBeforeResponse'
  BY <1>0, <1>31 DEF SaveLands
<1>32. CASE Crash
  <2>1. \A s \in Attempts : rpc'[s] = rpc[s] \/ (rpc[s] # "none" /\ rpc'[s] = "closed")
    BY <1>0, <1>32 DEF Crash, HandlerLive
  <2>2. inflight' = [s \in Attempts |-> <<>>] /\ UNCHANGED <<pc, toRcv, toSnd, hasher, resume>>
    BY <1>32 DEF Crash
  <2> QED
    BY <1>0, <2>1, <2>2
<1>33. CASE UNCHANGED vars
  BY <1>0, <1>33 DEF vars
<1> QED
  BY <1>1, <1>2, <1>3, <1>4, <1>5, <1>6, <1>7, <1>8, <1>9, <1>10,
     <1>11, <1>12, <1>13, <1>14, <1>15, <1>16, <1>17, <1>18, <1>19, <1>20,
     <1>21, <1>22, <1>23, <1>24, <1>25, <1>26, <1>27, <1>28, <1>29, <1>30,
     <1>31, <1>32, <1>33
     DEF Next, Sender, Handler, AllEnded

(* The chunks under way continue those received.                           *)
LEMMA WireContinuesStep ==
  ASSUME IInv, [Next]_vars, Exclusive
  PROVE  WireContinues'
<1> USE DEF sender, network, memory, disk, outcome, faults, Goto, RGoto, HangUp, Reply
<1> USE DEF WireContinues, QuietBeforeResponse, Waiting, AnswersTrue
<1>0. /\ pc \in [Attempts -> SenderPC]
      /\ rpc \in [Attempts -> ReceiverPC]
      /\ toRcv \in [Attempts -> Seq(ToRcvMsg)]
      /\ toSnd \in [Attempts -> Seq(ToSndMsg)]
      /\ hasher \in [Attempts -> Seq(Data \cup {Blank})]
      /\ resume \in [Attempts -> 0..N]
      /\ down \in [Attempts -> BOOLEAN]
      /\ next \in [Attempts -> 1..N + 1] /\ N \in Nat
      /\ file \in [Attempts -> [Chunk -> Data]]
      /\ QuietBeforeResponse
      /\ AnswersTrue
      /\ WireContinues
  BY ConstantsOK DEF ConstantsOK, IInv, TypeOK
<1>1. ASSUME NEW s \in Attempts, Start(s) PROVE WireContinues'
  BY <1>0, <1>1 DEF Start
<1>2. ASSUME NEW s \in Attempts, OnAccepted(s) PROVE WireContinues'
  <2>1. /\ rpc[s] = "recv" => toRcv[s] = <<>> /\ Len(hasher[s]) = resume[s]
        /\ UNCHANGED <<rpc, toRcv, hasher, down, file>>
    BY <1>0, <1>2 DEF OnAccepted
  <2>2. next'[s] = resume[s] + 1 /\ resume[s] \in Nat
    <3>1. toSnd[s] \in Seq(ToSndMsg) /\ toSnd[s] # <<>>
      BY <1>0, <1>2 DEF OnAccepted
    <3>2. Head(toSnd[s]) = toSnd[s][1] /\ Len(toSnd[s]) \in Nat \ {0}
      BY <3>1, TakeElements
    <3>3. 1 \in 1..Len(toSnd[s])
      BY <3>2
    <3>4. Head(toSnd[s]).resume = resume[s]
      BY <1>0, <3>2, <3>3, <1>2 DEF OnAccepted
    <3> QED
      BY <1>0, <3>4, <1>2 DEF OnAccepted
  <2>3. rpc[s] = "recv" => next'[s] = Len(hasher[s]) + Len(toRcv[s]) + 1
    <3>1. resume[s] = resume[s] + 0 /\ Len(<<>>) = 0
      BY <2>2
    <3> QED
      BY <2>1, <2>2, <3>1
  <2>4. \A t \in Attempts \ {s} : pc'[t] = pc[t] /\ next'[t] = next[t]
    BY <1>0, <1>2 DEF OnAccepted
  <2>5. WireContinues
    BY <1>0
  <2> QED
    BY <2>1, <2>3, <2>4, <2>5
<1>3. ASSUME NEW s \in Attempts, OnRejected(s) PROVE WireContinues'
  BY <1>0, <1>3 DEF OnRejected
<1>4. ASSUME NEW s \in Attempts, SendChunk(s) PROVE WireContinues'
  <2>2. PICK m \in ToRcvMsg : m = [type |-> "chunk", index |-> next[s], data |-> file[s][next[s]]]
    BY <1>0, <1>4 DEF SendChunk, ToRcvMsg, Chunk
  <2>1. /\ toRcv' = [toRcv EXCEPT ![s] = Append(@, m)]
        /\ next' = [next EXCEPT ![s] = @ + 1]
        /\ pc[s] = "sending" /\ ~down[s]
        /\ UNCHANGED <<pc, rpc, file, down, hasher>>
    BY <2>2, <1>4 DEF SendChunk
  <2>3. /\ Len(toRcv'[s]) = Len(toRcv[s]) + 1 /\ Len(toRcv[s]) \in Nat
        /\ \A k \in 1..Len(toRcv[s]) : toRcv'[s][k] = toRcv[s][k]
        /\ toRcv'[s][Len(toRcv[s]) + 1] = m
        /\ \A k \in 1..Len(toRcv'[s]) : k \in 1..Len(toRcv[s]) \/ k = Len(toRcv[s]) + 1
    <3>1. toRcv[s] \in Seq(ToRcvMsg) /\ toRcv'[s] = Append(toRcv[s], m)
      BY <1>0, <2>1
    <3> QED
      BY <2>2, <3>1, PutElements
  <2>4. next[s] \in Nat /\ next'[s] = next[s] + 1 /\ Len(hasher[s]) \in Nat
    BY <1>0, <2>1, LenProperties
  <2>5. rpc[s] = "recv" => next[s] = Len(hasher[s]) + Len(toRcv[s]) + 1
    BY <1>0, <2>1
  <2>6. rpc[s] = "recv" => Fits(m, Len(toRcv[s]) + 1, hasher[s], file[s])
    <3> SUFFICES ASSUME rpc[s] = "recv"
                 PROVE  Fits(m, Len(toRcv[s]) + 1, hasher[s], file[s])
      OBVIOUS
    <3>1. m.type = "chunk" /\ m.index = next[s] /\ m.data = file[s][m.index]
      BY <2>2
    <3>2. next[s] = Len(hasher[s]) + (Len(toRcv[s]) + 1)
      BY <2>3, <2>4, <2>5, NatAssoc, Zenon
    <3> QED
      BY <3>1, <3>2 DEF Fits
  <2>7. rpc[s] = "recv" => \A k \in 1..Len(toRcv'[s]) : Fits(toRcv'[s][k], k, hasher[s], file[s])
    BY <1>0, <2>3, <2>6
  <2>8. rpc[s] = "recv" => next'[s] = Len(hasher[s]) + Len(toRcv'[s]) + 1
    BY <2>3, <2>4, <2>5, NatAssoc, Zenon
  <2>9. \A t \in Attempts \ {s} : toRcv'[t] = toRcv[t] /\ next'[t] = next[t]
    BY <1>0, <2>1
  <2>10. WireContinues /\ UNCHANGED <<pc, rpc, file, down, hasher>>
    BY <1>0, <2>1
  <2> QED
    BY <2>7, <2>8, <2>9, <2>10
<1>5. ASSUME NEW s \in Attempts, SendComplete(s) PROVE WireContinues'
  <2>2. PICK m \in ToRcvMsg : m = [type |-> "complete", hash |-> file[s]]
    BY <1>0, <1>5 DEF SendComplete, ToRcvMsg, Chunk
  <2>1. /\ toRcv' = [toRcv EXCEPT ![s] = Append(@, m)]
        /\ pc' = [pc EXCEPT ![s] = "waitAck"]
        /\ UNCHANGED <<rpc, file, down, hasher, next>>
    BY <2>2, <1>5 DEF SendComplete
  <2>3. /\ Len(toRcv'[s]) = Len(toRcv[s]) + 1 /\ Len(toRcv[s]) \in Nat
        /\ \A k \in 1..Len(toRcv[s]) : toRcv'[s][k] = toRcv[s][k]
        /\ toRcv'[s][Len(toRcv[s]) + 1] = m
        /\ \A k \in 1..Len(toRcv'[s]) : k \in 1..Len(toRcv[s]) \/ k = Len(toRcv[s]) + 1
    <3>1. toRcv[s] \in Seq(ToRcvMsg) /\ toRcv'[s] = Append(toRcv[s], m)
      BY <1>0, <2>1
    <3> QED
      BY <2>2, <3>1, PutElements
  <2>4. Fits(m, Len(toRcv[s]) + 1, hasher[s], file[s])
    BY <2>2 DEF Fits
  <2>5. rpc[s] = "recv" => \A k \in 1..Len(toRcv'[s]) : Fits(toRcv'[s][k], k, hasher[s], file[s])
    BY <1>0, <2>3, <2>4
  <2>6. /\ \A t \in Attempts \ {s} : toRcv'[t] = toRcv[t] /\ pc'[t] = pc[t]
        /\ pc'[s] = "waitAck"
    BY <1>0, <2>1
  <2> QED
    BY <1>0, <2>1, <2>5, <2>6
<1>6. ASSUME NEW s \in Attempts, CancelSend(s) PROVE WireContinues'
  BY <1>0, <1>6 DEF CancelSend
<1>7. ASSUME NEW s \in Attempts, OnAck(s) PROVE WireContinues'
  BY <1>0, <1>7 DEF OnAck
<1>8. ASSUME NEW s \in Attempts, SenderFails(s) PROVE WireContinues'
  BY <1>0, <1>8 DEF SenderFails
<1>9. ASSUME NEW s \in Attempts, Accept(s) PROVE WireContinues'
  BY <1>0, <1>9 DEF Accept
<1>10. ASSUME NEW s \in Attempts, Reject(s) PROVE WireContinues'
  BY <1>0, <1>10 DEF Reject
<1>11. ASSUME NEW s \in Attempts, RequestLost(s) PROVE WireContinues'
  BY <1>0, <1>11 DEF RequestLost
<1>12. ASSUME NEW s \in Attempts, OpenResume(s) PROVE WireContinues'
  BY <1>0, <1>12 DEF OpenResume
<1>13. ASSUME NEW s \in Attempts, OpenFresh(s) PROVE WireContinues'
  BY <1>0, <1>13 DEF OpenFresh
<1>14. ASSUME NEW s \in Attempts, CreateTemp(s) PROVE WireContinues'
  <2>1. /\ \A t \in Attempts \ {s} : rpc'[t] = rpc[t] /\ toRcv'[t] = toRcv[t]
        /\ rpc'[s] # "recv" /\ UNCHANGED <<pc, next, hasher, down, file>>
    BY <1>0, <1>14 DEF CreateTemp
  <2>2. WireContinues
    BY <1>0
  <2> QED
    BY <2>1, <2>2
<1>15. ASSUME NEW s \in Attempts, Respond(s) PROVE WireContinues'
  <2>1. /\ UNCHANGED <<toRcv, pc, next, hasher, down, file>>
        /\ toRcv[s] = <<>> /\ pc[s] # "sending"
        /\ \A t \in Attempts \ {s} : rpc'[t] = rpc[t]
    BY <1>0, <1>15 DEF Respond
  <2>2. WireContinues /\ Len(toRcv[s]) = 0
    BY <1>0, <2>1
  <2>3. \A k \in 1..Len(toRcv[s]) : FALSE
    BY <2>2
  <2>4. /\ UNCHANGED <<toRcv, pc, next, hasher, down, file>>
        /\ \A t \in Attempts : t = s \/ rpc'[t] = rpc[t]
    BY <2>1
  <2> QED
    BY <2>1, <2>2, <2>3, <2>4
<1>16. ASSUME NEW s \in Attempts, RespondFails(s) PROVE WireContinues'
  BY <1>0, <1>16 DEF RespondFails
<1>17. ASSUME NEW s \in Attempts, RecvChunk(s) PROVE WireContinues'
  <2>1. toRcv[s] \in Seq(ToRcvMsg) /\ toRcv[s] # <<>> /\ rpc[s] = "recv"
    BY <1>0, <1>17 DEF RecvChunk
  <2>2. PICK x \in Data \cup {Blank} : hasher' = [hasher EXCEPT ![s] = Append(@, x)]
    <3>1. Head(toRcv[s]) \in ToRcvMsg /\ Head(toRcv[s]).type = "chunk"
      BY <2>1, <1>17, TakeElements DEF RecvChunk
    <3>2. Head(toRcv[s]).data \in Data \cup {Blank}
      BY <3>1 DEF ToRcvMsg
    <3> QED
      BY <3>2, <1>17 DEF RecvChunk
  <2>3. /\ Len(toRcv[s]) \in Nat \ {0} /\ Len(toRcv'[s]) = Len(toRcv[s]) - 1
        /\ \A k \in 1..Len(toRcv'[s]) : k + 1 \in 1..Len(toRcv[s]) /\ toRcv'[s][k] = toRcv[s][k + 1]
    <3>1. toRcv'[s] = Tail(toRcv[s])
      BY <1>0, <1>17 DEF RecvChunk
    <3> QED
      BY <2>1, <3>1, TakeElements
  <2>4. Len(hasher[s]) \in Nat /\ Len(hasher'[s]) = Len(hasher[s]) + 1
    <3>1. hasher[s] \in Seq(Data \cup {Blank}) /\ hasher'[s] = Append(hasher[s], x)
      BY <1>0, <2>2
    <3> QED
      BY <3>1, PutElements
  <2>5. \A k \in 1..Len(toRcv'[s]) : Fits(toRcv'[s][k], k, hasher'[s], file[s])
    <3> SUFFICES ASSUME NEW k \in 1..Len(toRcv'[s])
                 PROVE  Fits(toRcv'[s][k], k, hasher'[s], file[s])
      OBVIOUS
    <3>1. Fits(toRcv'[s][k], k + 1, hasher[s], file[s])
      BY <1>0, <2>1, <2>3
    <3>2. k \in Nat
      BY <2>3
    <3>3. Len(hasher[s]) + (k + 1) = Len(hasher'[s]) + k
      BY <2>4, <3>2, NatSwap, Zenon
    <3> QED
      BY <3>1, <3>3 DEF Fits
  <2>6. pc[s] = "sending" /\ ~down[s] => next[s] = Len(hasher'[s]) + Len(toRcv'[s]) + 1
    <3> HAVE pc[s] = "sending" /\ ~down[s]
    <3>1. next[s] = Len(hasher[s]) + Len(toRcv[s]) + 1
      BY <1>0, <2>1
    <3>2. Len(hasher[s]) + Len(toRcv[s]) + 1
            = (Len(hasher[s]) + 1) + (Len(toRcv[s]) - 1) + 1
      BY <2>3, <2>4, NatShift, Zenon
    <3> QED
      BY <3>1, <3>2, <2>3, <2>4, Zenon
  <2>7. /\ \A t \in Attempts \ {s} : hasher'[t] = hasher[t] /\ toRcv'[t] = toRcv[t]
        /\ UNCHANGED <<pc, next, rpc, down, file>>
    BY <1>0, <2>2, <1>17 DEF RecvChunk
  <2> QED
    BY <1>0, <2>5, <2>6, <2>7
<1>18. ASSUME NEW s \in Attempts, VerifyMatches(s) PROVE WireContinues'
  <2>1. /\ \A t \in Attempts \ {s} : rpc'[t] = rpc[t] /\ toRcv'[t] = toRcv[t]
        /\ rpc'[s] # "recv" /\ UNCHANGED <<pc, next, hasher, down, file>>
    BY <1>0, <1>18 DEF VerifyMatches
  <2>2. WireContinues
    BY <1>0
  <2> QED
    BY <2>1, <2>2
<1>19. ASSUME NEW s \in Attempts, VerifyMismatches(s) PROVE WireContinues'
  BY <1>0, <1>19 DEF VerifyMismatches
<1>20. ASSUME NEW s \in Attempts, Rename(s) PROVE WireContinues'
  BY <1>0, <1>20 DEF Rename
<1>21. ASSUME NEW s \in Attempts, RenameFails(s) PROVE WireContinues'
  BY <1>0, <1>21 DEF RenameFails
<1>22. ASSUME NEW s \in Attempts, RemoveState(s) PROVE WireContinues'
  <2>1. /\ \A t \in Attempts : rpc'[t] = "recv" => rpc[t] = "recv" /\ down'[t] = down[t]
        /\ UNCHANGED <<toRcv, pc, next, hasher, file>>
    BY <1>0, <1>22 DEF RemoveState
  <2>2. WireContinues
    BY <1>0
  <2> QED
    BY <2>1, <2>2
<1>23. ASSUME NEW s \in Attempts, Ack(s) PROVE WireContinues'
  BY <1>0, <1>23 DEF Ack
<1>24. ASSUME NEW s \in Attempts, AckFails(s) PROVE WireContinues'
  BY <1>0, <1>24 DEF AckFails
<1>25. ASSUME NEW s \in Attempts, Record(s) PROVE WireContinues'
  BY <1>0, <1>25 DEF Record
<1>26. ASSUME NEW s \in Attempts, RecvFails(s) PROVE WireContinues'
  BY <1>0, <1>26 DEF RecvFails
<1>27. ASSUME NEW s \in Attempts, Report(s) PROVE WireContinues'
  BY <1>0, <1>27 DEF Report
<1>28. ASSUME NEW s \in Attempts, CleanupTemp(s) PROVE WireContinues'
  BY <1>0, <1>28 DEF CleanupTemp
<1>29. ASSUME NEW s \in Attempts, WriteLands(s) PROVE WireContinues'
  BY <1>0, <1>29 DEF WriteLands
<1>30. ASSUME NEW s \in Attempts, Cut(s) PROVE WireContinues'
  <2>1. PICK i \in 0..Len(toRcv[s]) : toRcv' = [toRcv EXCEPT ![s] = SubSeq(@, 1, i)]
    BY <1>30 DEF Cut
  <2>2. /\ UNCHANGED <<rpc, pc, next, hasher, file>>
        /\ down' = [down EXCEPT ![s] = TRUE]
    BY <1>30 DEF Cut
  <2>3. /\ Len(toRcv'[s]) = i
        /\ \A k \in 1..i : toRcv'[s][k] = toRcv[s][k]
        /\ \A t \in Attempts \ {s} : toRcv'[t] = toRcv[t]
    BY <1>0, <2>1, QueueCut
  <2>4. \A k \in 1..i : k \in 1..Len(toRcv[s])
    BY <1>0, LenProperties
  <2>5. down'[s] /\ \A t \in Attempts \ {s} : down'[t] = down[t]
    BY <1>0, <2>2
  <2>6. rpc[s] = "recv" => \A k \in 1..Len(toRcv'[s]) : Fits(toRcv'[s][k], k, hasher[s], file[s])
    BY <1>0, <2>3, <2>4
  <2>7. WireContinues
    BY <1>0
  <2> QED
    BY <2>2, <2>3, <2>5, <2>6, <2>7
<1>31. ASSUME NEW x \in saves, SaveLands(x) PROVE WireContinues'
  BY <1>0, <1>31 DEF SaveLands
<1>32. CASE Crash
  BY <1>0, <1>32 DEF Crash
<1>33. CASE UNCHANGED vars
  BY <1>0, <1>33 DEF vars
<1> QED
  BY <1>1, <1>2, <1>3, <1>4, <1>5, <1>6, <1>7, <1>8, <1>9, <1>10,
     <1>11, <1>12, <1>13, <1>14, <1>15, <1>16, <1>17, <1>18, <1>19, <1>20,
     <1>21, <1>22, <1>23, <1>24, <1>25, <1>26, <1>27, <1>28, <1>29, <1>30,
     <1>31, <1>32, <1>33
     DEF Next, Sender, Handler, AllEnded

(* Responses name the resume point, acks follow the rename.                *)
LEMMA AnswersTrueStep ==
  ASSUME IInv, [Next]_vars, Exclusive
  PROVE  AnswersTrue'
<1> USE DEF sender, network, memory, disk, outcome, faults, Goto, RGoto, HangUp, Reply
<1> USE DEF AnswersTrue, QuietBeforeResponse, Waiting, Acknowledged
<1>0. /\ pc \in [Attempts -> SenderPC]
      /\ rpc \in [Attempts -> ReceiverPC]
      /\ toSnd \in [Attempts -> Seq(ToSndMsg)]
      /\ resume \in [Attempts -> 0..N]
      /\ QuietBeforeResponse
      /\ Acknowledged
      /\ AnswersTrue
  BY ConstantsOK DEF ConstantsOK, IInv, TypeOK
<1>1. ASSUME NEW s \in Attempts, Start(s) PROVE AnswersTrue'
  BY <1>0, <1>1 DEF Start
<1>2. ASSUME NEW s \in Attempts, OnAccepted(s) PROVE AnswersTrue'
  BY <1>0, <1>2 DEF OnAccepted
<1>3. ASSUME NEW s \in Attempts, OnRejected(s) PROVE AnswersTrue'
  BY <1>0, <1>3 DEF OnRejected
<1>4. ASSUME NEW s \in Attempts, SendChunk(s) PROVE AnswersTrue'
  BY <1>0, <1>4 DEF SendChunk
<1>5. ASSUME NEW s \in Attempts, SendComplete(s) PROVE AnswersTrue'
  BY <1>0, <1>5 DEF SendComplete
<1>6. ASSUME NEW s \in Attempts, CancelSend(s) PROVE AnswersTrue'
  BY <1>0, <1>6 DEF CancelSend
<1>7. ASSUME NEW s \in Attempts, OnAck(s) PROVE AnswersTrue'
  BY <1>0, <1>7 DEF OnAck
<1>8. ASSUME NEW s \in Attempts, SenderFails(s) PROVE AnswersTrue'
  BY <1>0, <1>8 DEF SenderFails
<1>9. ASSUME NEW s \in Attempts, Accept(s) PROVE AnswersTrue'
  BY <1>0, <1>9 DEF Accept
<1>10. ASSUME NEW s \in Attempts, Reject(s) PROVE AnswersTrue'
  <2>1. toSnd' = [toSnd EXCEPT ![s] = Append(@, [type |-> "response", accepted |-> FALSE, resume |-> 0])] /\ toSnd[s] = <<>>
    BY <1>0, <1>10 DEF Reject
  <2>2. /\ \A t \in Attempts \ {s} : toSnd'[t] = toSnd[t]
        /\ Len(toSnd'[s]) = 1 /\ toSnd'[s][1] = [type |-> "response", accepted |-> FALSE, resume |-> 0]
    BY <1>0, <2>1
  <2>3. pc[s] \notin {"sending", "waitAck"} /\ UNCHANGED <<pc, resume, saved>>
    BY <1>0, <1>10 DEF Reject
  <2> QED
    <3> SUFFICES ASSUME NEW t \in Attempts, NEW k \in 1..Len(toSnd'[t])
                 PROVE  /\ toSnd'[t][k].type = "response" =>
                             /\ pc'[t] \notin {"sending", "waitAck"}
                             /\ toSnd'[t][k].accepted => toSnd'[t][k].resume = resume'[t]
                        /\ toSnd'[t][k].type = "complete" => t \in saved'
      OBVIOUS
    <3>1. CASE t # s
      BY <1>0, <2>2, <2>3, <3>1
    <3>2. CASE t = s
      <4>1. k \in 1..1
        BY <2>2, <3>2
      <4>2. k = 1
        BY <4>1
      <4> QED
        BY <2>2, <2>3, <3>2, <4>2
    <3> QED
      BY <3>1, <3>2
<1>11. ASSUME NEW s \in Attempts, RequestLost(s) PROVE AnswersTrue'
  BY <1>0, <1>11 DEF RequestLost
<1>12. ASSUME NEW s \in Attempts, OpenResume(s) PROVE AnswersTrue'
  BY <1>0, <1>12 DEF OpenResume
<1>13. ASSUME NEW s \in Attempts, OpenFresh(s) PROVE AnswersTrue'
  BY <1>0, <1>13 DEF OpenFresh
<1>14. ASSUME NEW s \in Attempts, CreateTemp(s) PROVE AnswersTrue'
  BY <1>0, <1>14 DEF CreateTemp
<1>15. ASSUME NEW s \in Attempts, Respond(s) PROVE AnswersTrue'
  <2>1. toSnd' = [toSnd EXCEPT ![s] = Append(@, [type |-> "response", accepted |-> TRUE, resume |-> resume[s]])] /\ toSnd[s] = <<>>
    BY <1>0, <1>15 DEF Respond
  <2>2. /\ \A t \in Attempts \ {s} : toSnd'[t] = toSnd[t]
        /\ Len(toSnd'[s]) = 1 /\ toSnd'[s][1] = [type |-> "response", accepted |-> TRUE, resume |-> resume[s]]
    BY <1>0, <2>1
  <2>3. pc[s] \notin {"sending", "waitAck"} /\ UNCHANGED <<pc, resume, saved>>
    BY <1>0, <1>15 DEF Respond
  <2> QED
    <3> SUFFICES ASSUME NEW t \in Attempts, NEW k \in 1..Len(toSnd'[t])
                 PROVE  /\ toSnd'[t][k].type = "response" =>
                             /\ pc'[t] \notin {"sending", "waitAck"}
                             /\ toSnd'[t][k].accepted => toSnd'[t][k].resume = resume'[t]
                        /\ toSnd'[t][k].type = "complete" => t \in saved'
      OBVIOUS
    <3>1. CASE t # s
      BY <1>0, <2>2, <2>3, <3>1
    <3>2. CASE t = s
      <4>1. k \in 1..1
        BY <2>2, <3>2
      <4>2. k = 1
        BY <4>1
      <4> QED
        BY <2>2, <2>3, <3>2, <4>2
    <3> QED
      BY <3>1, <3>2
<1>16. ASSUME NEW s \in Attempts, RespondFails(s) PROVE AnswersTrue'
  BY <1>0, <1>16 DEF RespondFails
<1>17. ASSUME NEW s \in Attempts, RecvChunk(s) PROVE AnswersTrue'
  BY <1>0, <1>17 DEF RecvChunk
<1>18. ASSUME NEW s \in Attempts, VerifyMatches(s) PROVE AnswersTrue'
  BY <1>0, <1>18 DEF VerifyMatches
<1>19. ASSUME NEW s \in Attempts, VerifyMismatches(s) PROVE AnswersTrue'
  BY <1>0, <1>19 DEF VerifyMismatches
<1>20. ASSUME NEW s \in Attempts, Rename(s) PROVE AnswersTrue'
  BY <1>0, <1>20 DEF Rename
<1>21. ASSUME NEW s \in Attempts, RenameFails(s) PROVE AnswersTrue'
  BY <1>0, <1>21 DEF RenameFails
<1>22. ASSUME NEW s \in Attempts, RemoveState(s) PROVE AnswersTrue'
  BY <1>0, <1>22 DEF RemoveState
<1>23. ASSUME NEW s \in Attempts, Ack(s) PROVE AnswersTrue'
  BY <1>0, <1>23 DEF Ack
<1>24. ASSUME NEW s \in Attempts, AckFails(s) PROVE AnswersTrue'
  BY <1>0, <1>24 DEF AckFails
<1>25. ASSUME NEW s \in Attempts, Record(s) PROVE AnswersTrue'
  BY <1>0, <1>25 DEF Record
<1>26. ASSUME NEW s \in Attempts, RecvFails(s) PROVE AnswersTrue'
  BY <1>0, <1>26 DEF RecvFails
<1>27. ASSUME NEW s \in Attempts, Report(s) PROVE AnswersTrue'
  BY <1>0, <1>27 DEF Report
<1>28. ASSUME NEW s \in Attempts, CleanupTemp(s) PROVE AnswersTrue'
  BY <1>0, <1>28 DEF CleanupTemp
<1>29. ASSUME NEW s \in Attempts, WriteLands(s) PROVE AnswersTrue'
  BY <1>0, <1>29 DEF WriteLands
<1>30. ASSUME NEW s \in Attempts, Cut(s) PROVE AnswersTrue'
  BY <1>0, <1>30 DEF Cut
<1>31. ASSUME NEW x \in saves, SaveLands(x) PROVE AnswersTrue'
  BY <1>0, <1>31 DEF SaveLands
<1>32. CASE Crash
  BY <1>0, <1>32 DEF Crash
<1>33. CASE UNCHANGED vars
  BY <1>0, <1>33 DEF vars
<1> QED
  BY <1>1, <1>2, <1>3, <1>4, <1>5, <1>6, <1>7, <1>8, <1>9, <1>10,
     <1>11, <1>12, <1>13, <1>14, <1>15, <1>16, <1>17, <1>18, <1>19, <1>20,
     <1>21, <1>22, <1>23, <1>24, <1>25, <1>26, <1>27, <1>28, <1>29, <1>30,
     <1>31, <1>32, <1>33
     DEF Next, Sender, Handler, AllEnded

(* The hasher and the disk stay in step.                                   *)
LEMMA HasherTracksDiskStep ==
  ASSUME IInv, [Next]_vars, Exclusive
  PROVE  HasherTracksDisk'
<1> USE DEF sender, network, memory, disk, outcome, faults, Goto, RGoto, HangUp, Reply
<1> USE DEF HasherTracksDisk, Flushed
<1>0. /\ rpc \in [Attempts -> ReceiverPC]
      /\ toRcv \in [Attempts -> Seq(ToRcvMsg)]
      /\ hasher \in [Attempts -> Seq(Data \cup {Blank})]
      /\ resume \in [Attempts -> 0..N]
      /\ inflight \in [Attempts -> Seq([index : Chunk, data : Data])]
      /\ handle \in [Attempts -> Attempts \cup {None}]
      /\ tempLink \in Attempts \cup {None} /\ destLink \in [Dirs -> Attempts \cup {None}]
      /\ file \in [Attempts -> [Chunk -> Data]]
      /\ left \in [Attempts -> 0..N] /\ N \in Nat
      /\ blocks \in [Attempts -> Content]
      /\ QuietBeforeResponse
      /\ OneActive
      /\ HeldIsTemp
      /\ LateWritesHarmless
      /\ WireContinues
      /\ HasherTracksDisk
  BY ConstantsOK DEF ConstantsOK, IInv, TypeOK
<1>1. ASSUME NEW s \in Attempts, Start(s) PROVE HasherTracksDisk'
  BY <1>0, <1>1 DEF Start
<1>2. ASSUME NEW s \in Attempts, OnAccepted(s) PROVE HasherTracksDisk'
  BY <1>0, <1>2 DEF OnAccepted
<1>3. ASSUME NEW s \in Attempts, OnRejected(s) PROVE HasherTracksDisk'
  BY <1>0, <1>3 DEF OnRejected
<1>4. ASSUME NEW s \in Attempts, SendChunk(s) PROVE HasherTracksDisk'
  BY <1>0, <1>4 DEF SendChunk
<1>5. ASSUME NEW s \in Attempts, SendComplete(s) PROVE HasherTracksDisk'
  BY <1>0, <1>5 DEF SendComplete
<1>6. ASSUME NEW s \in Attempts, CancelSend(s) PROVE HasherTracksDisk'
  BY <1>0, <1>6 DEF CancelSend
<1>7. ASSUME NEW s \in Attempts, OnAck(s) PROVE HasherTracksDisk'
  BY <1>0, <1>7 DEF OnAck
<1>8. ASSUME NEW s \in Attempts, SenderFails(s) PROVE HasherTracksDisk'
  BY <1>0, <1>8 DEF SenderFails
<1>9. ASSUME NEW s \in Attempts, Accept(s) PROVE HasherTracksDisk'
  BY <1>0, <1>9 DEF Accept
<1>10. ASSUME NEW s \in Attempts, Reject(s) PROVE HasherTracksDisk'
  BY <1>0, <1>10 DEF Reject
<1>11. ASSUME NEW s \in Attempts, RequestLost(s) PROVE HasherTracksDisk'
  BY <1>0, <1>11 DEF RequestLost
<1>12. ASSUME NEW s \in Attempts, OpenResume(s) PROVE HasherTracksDisk'
  <2>1. \A t \in Attempts \ {s} : rpc[t] \in {"none", "closed"} /\ rpc'[t] = rpc[t]
    BY <1>0, <1>12 DEF OpenResume, OneActive, Active, HandlerLive, ReceiverPC
  <2>2. /\ rpc' = [rpc EXCEPT ![s] = "respond"] /\ handle'[s] = tempLink /\ tempLink \in Attempts
        /\ UNCHANGED blocks
    BY <1>0, <1>12 DEF OpenResume, Resumable
  <2>3. PICK k \in 0..N : /\ resume'[s] = k
                         /\ hasher'[s] = SubSeq(blocks[tempLink], 1, k)
    <3>1. Cardinality(stateFile.completed) \in 0..N
      BY CountChunks DEF IInv, TypeOK
    <3> QED
      BY <1>0, <3>1, <1>12 DEF OpenResume
  <2>4. Len(hasher'[s]) = k /\ OnDisk(hasher'[s], blocks[tempLink])
    <3>1. blocks[tempLink] \in [1..N -> Data \cup {Blank}]
      BY <1>0, <2>2 DEF Content, Chunk
    <3>2. PICK c \in [1..N -> Data \cup {Blank}] : c = blocks[tempLink]
      BY <3>1
    <3>3. /\ Len(SubSeq(c, 1, k)) = k
          /\ \A i \in 1..k : SubSeq(c, 1, k)[i] = c[i]
      <4>1. N \in Nat /\ k \in 0..N
        BY <1>0
      <4> QED
        BY <4>1, ArrayPrefix
    <3> QED
      BY <2>3, <3>2, <3>3 DEF OnDisk
  <2> QED
    BY <1>0, <2>1, <2>2, <2>3, <2>4
<1>13. ASSUME NEW s \in Attempts, OpenFresh(s) PROVE HasherTracksDisk'
  BY <1>0, <1>13 DEF OpenFresh
<1>14. ASSUME NEW s \in Attempts, CreateTemp(s) PROVE HasherTracksDisk'
  <2>1. \A t \in Attempts \ {s} : rpc[t] \in {"none", "closed"} /\ rpc'[t] = rpc[t]
    BY <1>0, <1>14 DEF CreateTemp, OneActive, Active, HandlerLive, ReceiverPC
  <2>2. /\ rpc' = [rpc EXCEPT ![s] = "respond"]
        /\ UNCHANGED <<hasher, resume>> /\ hasher[s] = <<>> /\ resume[s] = 0
    BY <1>0, <1>14 DEF CreateTemp
  <2>3. Len(hasher'[s]) = 0 /\ \A c : OnDisk(hasher'[s], c)
    BY <2>2 DEF OnDisk
  <2> QED
    BY <1>0, <2>1, <2>2, <2>3
<1>15. ASSUME NEW s \in Attempts, Respond(s) PROVE HasherTracksDisk'
  <2>1. \A t \in Attempts \ {s} : rpc[t] \in {"none", "closed"} /\ rpc'[t] = rpc[t]
    BY <1>0, <1>15 DEF Respond, OneActive, Active, HandlerLive, ReceiverPC
  <2>2. /\ rpc[s] = "respond" /\ rpc' = [rpc EXCEPT ![s] = "recv"]
        /\ left' = [left EXCEPT ![s] = N - resume[s]]
        /\ UNCHANGED <<hasher, resume, handle, blocks, inflight, file>>
    BY <1>15 DEF Respond
  <2>3. inflight[s] = <<>>
    BY <1>0, <2>2 DEF QuietBeforeResponse, Waiting
  <2>4. Len(hasher[s]) + left'[s] = N
    <3>1. left'[s] = N - resume[s] /\ resume[s] \in 0..N /\ Len(hasher[s]) = resume[s]
      BY <1>0, <2>2
    <3> QED
      BY <1>0, <3>1
  <2>5. SentFrom(hasher[s], file[s], resume[s])
    <3>1. Len(hasher[s]) = resume[s]
      BY <1>0, <2>2
    <3>2. resume[s] \in 0..N /\ N \in Nat
      BY <1>0
    <3> QED
      BY <3>1, <3>2 DEF SentFrom
  <2> QED
    BY <1>0, <2>1, <2>2, <2>3, <2>4, <2>5
<1>16. ASSUME NEW s \in Attempts, RespondFails(s) PROVE HasherTracksDisk'
  BY <1>0, <1>16 DEF RespondFails
<1>17. ASSUME NEW s \in Attempts, RecvChunk(s) PROVE HasherTracksDisk'
  <2>1. \A t \in Attempts \ {s} : rpc[t] \in {"none", "closed"} /\ rpc'[t] = rpc[t]
    BY <1>0, <1>17 DEF RecvChunk, OneActive, Active, HandlerLive, ReceiverPC
  <2>3. toRcv[s] \in Seq(ToRcvMsg) /\ toRcv[s] # <<>> /\ rpc[s] = "recv"
    BY <1>0, <1>17 DEF RecvChunk
  <2>4. /\ Head(toRcv[s]) \in ToRcvMsg
        /\ Fits(Head(toRcv[s]), 1, hasher[s], file[s])
    <3>1. /\ Head(toRcv[s]) = toRcv[s][1] /\ Head(toRcv[s]) \in ToRcvMsg
          /\ Len(toRcv[s]) \in Nat \ {0}
      BY <2>3, TakeElements
    <3>2. 1 \in 1..Len(toRcv[s])
      BY <3>1
    <3> QED
      BY <1>0, <2>3, <3>1, <3>2 DEF WireContinues
  <2>5. /\ Len(hasher[s]) \in Nat /\ hasher[s] \in Seq(Data \cup {Blank})
        /\ Len(hasher[s]) + left[s] = N /\ left[s] \in Nat
        /\ OnDisk(hasher[s], Flushed(s)[handle[s]])
        /\ SentFrom(hasher[s], file[s], resume[s])
    <3>1. hasher[s] \in Seq(Data \cup {Blank})
      BY <1>0
    <3>2. Len(hasher[s]) \in Nat
      BY <3>1, LenProperties
    <3>3. left[s] \in 0..N /\ N \in Nat
      BY <1>0
    <3>4. left[s] \in Nat
      BY <3>3
    <3> HIDE DEF Flushed
    <3> QED
      BY <1>0, <2>3, <3>1, <3>2, <3>4
  <2>6. handle[s] \in Attempts
    BY <1>0, <2>3 DEF HeldIsTemp, Held
  <2>7. PICK m \in ToRcvMsg : m = Head(toRcv[s])
    BY <2>4
  <2>8. /\ m.index \in Chunk /\ m.data \in Data
        /\ m.index = Len(hasher[s]) + 1 /\ m.data = file[s][m.index]
    <3>1. m.type = "chunk"
      BY <2>7, <1>17 DEF RecvChunk
    <3> QED
      BY <2>4, <2>7, <3>1 DEF Fits, ToRcvMsg
  <2>9. /\ UNCHANGED <<rpc, handle, resume, file>>
        /\ left'[s] = left[s] - 1 /\ left[s] > 0
        /\ hasher'[s] = Append(hasher[s], m.data)
    BY <1>0, <2>7, <1>17 DEF RecvChunk
  <2>10. Flushed(s)' = [Flushed(s) EXCEPT ![handle[s]] = [@ EXCEPT ![m.index] = m.data]]
    <3>1. /\ blocks' = Flushed(s)
          /\ inflight'[s] = <<[index |-> m.index, data |-> m.data]>>
      BY <1>0, <2>7, <1>17 DEF RecvChunk
    <3>2. inflight'[s] # <<>> /\ Head(inflight'[s]) = [index |-> m.index, data |-> m.data]
      BY <3>1
    <3>3. Flushed(s)' = [blocks' EXCEPT ![handle'[s]] =
                                [@ EXCEPT ![Head(inflight'[s]).index] = Head(inflight'[s]).data]]
      BY <3>2
    <3>4. /\ Head(inflight'[s]).index = m.index /\ Head(inflight'[s]).data = m.data
          /\ handle'[s] = handle[s]
      BY <2>9, <3>2
    <3> HIDE DEF Flushed
    <3>5. Flushed(s)' = [blocks' EXCEPT ![handle[s]] = [@ EXCEPT ![m.index] = m.data]]
      BY <3>3, <3>4
    <3> QED
      BY <3>1, <3>5
  <2>11. Flushed(s)'[handle[s]] = [Flushed(s)[handle[s]] EXCEPT ![m.index] = m.data]
    <3>1. Flushed(s) \in [Attempts -> Content]
      BY FlushedType DEF IInv
    <3> HIDE DEF Flushed
    <3> QED
      BY <2>6, <2>10, <3>1
  <2>12. /\ Len(hasher'[s]) = Len(hasher[s]) + 1
         /\ \A i \in 1..Len(hasher'[s]) :
              \/ i \in 1..Len(hasher[s]) /\ i # m.index /\ hasher'[s][i] = hasher[s][i]
              \/ i = m.index /\ hasher'[s][i] = m.data
    <3>1. m.data \in Data \cup {Blank}
      BY <2>8
    <3>2. /\ Len(hasher'[s]) = Len(hasher[s]) + 1
          /\ \A i \in 1..Len(hasher[s]) : hasher'[s][i] = hasher[s][i]
          /\ hasher'[s][Len(hasher[s]) + 1] = m.data
          /\ \A i \in 1..Len(hasher'[s]) : i \in 1..Len(hasher[s]) \/ i = Len(hasher[s]) + 1
      BY <2>5, <2>9, <3>1, PutElements
    <3>3. \A i \in 1..Len(hasher[s]) : i # Len(hasher[s]) + 1
      BY <2>5
    <3> QED
      BY <2>8, <3>2, <3>3
  <2>13. OnDisk(hasher'[s], Flushed(s)'[handle[s]])
    <3>1. Flushed(s)[handle[s]] \in [Chunk -> Data \cup {Blank}]
      <4> HIDE DEF Flushed
      <4> QED
        BY <2>6, FlushedType DEF IInv, Content
    <3> HIDE DEF Flushed
    <3>2. PICK c \in [Chunk -> Data \cup {Blank}] : c = Flushed(s)[handle[s]]
      BY <3>1
    <3>3. \A i \in 1..Len(hasher[s]) : i \in Chunk /\ c[i] = hasher[s][i]
      <4>1. Len(hasher[s]) <= N
        BY <1>0, <2>5
      <4> SUFFICES ASSUME NEW i \in 1..Len(hasher[s])
                   PROVE  i \in Chunk /\ c[i] = hasher[s][i]
        OBVIOUS
      <4>2. N \in Nat /\ Len(hasher[s]) \in Nat
        BY <1>0, <2>5
      <4>3. i \in Chunk
        BY <4>1, <4>2 DEF Chunk
      <4>4. OnDisk(hasher[s], c)
        BY <2>5, <3>2
      <4> QED
        BY <4>3, <4>4 DEF OnDisk
    <3>4. /\ [c EXCEPT ![m.index] = m.data][m.index] = m.data
          /\ \A i \in Chunk : i # m.index => [c EXCEPT ![m.index] = m.data][i] = c[i]
      BY <2>8
    <3> QED
      BY <2>11, <2>12, <3>2, <3>3, <3>4 DEF OnDisk
  <2>14. SentFrom(hasher'[s], file[s], resume[s])
    BY <2>5, <2>8, <2>12 DEF SentFrom
  <2>15. Len(hasher'[s]) + left'[s] = N
    <3>1. \A a, b \in Nat : b > 0 => (a + 1) + (b - 1) = a + b
      OBVIOUS
    <3>2. Len(hasher'[s]) + left'[s] = Len(hasher[s]) + left[s]
      BY <2>5, <2>9, <2>12, <3>1, Zenon
    <3> QED
      BY <2>5, <3>2
  <2> HIDE DEF Flushed
  <2> QED
    BY <1>0, <2>1, <2>9, <2>3, <2>13, <2>14, <2>15
<1>18. ASSUME NEW s \in Attempts, VerifyMatches(s) PROVE HasherTracksDisk'
  <2>1. \A t \in Attempts \ {s} : rpc[t] \in {"none", "closed"} /\ rpc'[t] = rpc[t]
    BY <1>0, <1>18 DEF VerifyMatches, OneActive, Active, HandlerLive, ReceiverPC
  <2>3. toRcv[s] \in Seq(ToRcvMsg) /\ toRcv[s] # <<>> /\ rpc[s] = "recv"
    BY <1>0, <1>18 DEF VerifyMatches
  <2>4. /\ Head(toRcv[s]) \in ToRcvMsg
        /\ Fits(Head(toRcv[s]), 1, hasher[s], file[s])
    <3>1. /\ Head(toRcv[s]) = toRcv[s][1] /\ Head(toRcv[s]) \in ToRcvMsg
          /\ Len(toRcv[s]) \in Nat \ {0}
      BY <2>3, TakeElements
    <3>2. 1 \in 1..Len(toRcv[s])
      BY <3>1
    <3> QED
      BY <1>0, <2>3, <3>1, <3>2 DEF WireContinues
  <2>5. /\ Len(hasher[s]) \in Nat /\ hasher[s] \in Seq(Data \cup {Blank})
        /\ Len(hasher[s]) + left[s] = N /\ left[s] \in Nat
        /\ OnDisk(hasher[s], Flushed(s)[handle[s]])
        /\ SentFrom(hasher[s], file[s], resume[s])
    <3>1. hasher[s] \in Seq(Data \cup {Blank})
      BY <1>0
    <3>2. Len(hasher[s]) \in Nat
      BY <3>1, LenProperties
    <3>3. left[s] \in 0..N /\ N \in Nat
      BY <1>0
    <3>4. left[s] \in Nat
      BY <3>3
    <3> HIDE DEF Flushed
    <3> QED
      BY <1>0, <2>3, <3>1, <3>2, <3>4
  <2>6. handle[s] \in Attempts
    BY <1>0, <2>3 DEF HeldIsTemp, Held
  <2>7. /\ rpc' = [rpc EXCEPT ![s] = "rename"] /\ blocks' = Flushed(s)
        /\ UNCHANGED <<handle, file>>
        /\ hasher[s] = Head(toRcv[s]).hash /\ left[s] = 0 /\ Head(toRcv[s]).type = "complete"
    BY <1>18 DEF VerifyMatches
  <2>8. hasher[s] = file[s]
    BY <2>4, <2>7 DEF Fits
  <2>9. Len(hasher[s]) = N
    BY <1>0, <2>5, <2>7
  <2>10. Flushed(s)[handle[s]] = file[s]
    <3>1. Flushed(s)[handle[s]] \in [Chunk -> Data \cup {Blank}]
      <4> HIDE DEF Flushed
      <4> QED
        BY <2>6, FlushedType DEF IInv, Content
    <3> HIDE DEF Flushed
    <3>2. PICK c \in [1..N -> Data \cup {Blank}], f \in [1..N -> Data] :
            c = Flushed(s)[handle[s]] /\ f = file[s]
      BY <1>0, <3>1 DEF Chunk
    <3>3. \A i \in 1..N : c[i] = f[i]
      BY <2>5, <2>8, <2>9, <3>2 DEF OnDisk
    <3>4. c = f
      BY <1>0, <3>3
    <3> QED
      BY <3>2, <3>4
  <2> HIDE DEF Flushed
  <2> QED
    BY <1>0, <2>1, <2>7, <2>10
<1>19. ASSUME NEW s \in Attempts, VerifyMismatches(s) PROVE HasherTracksDisk'
  <2>1. \A t \in Attempts \ {s} : rpc[t] \in {"none", "closed"} /\ rpc'[t] = rpc[t]
    BY <1>0, <1>19 DEF VerifyMismatches, OneActive, Active, HandlerLive, ReceiverPC
  <2>2. rpc' = [rpc EXCEPT ![s] = "mismatch"]
    BY <1>19 DEF VerifyMismatches
  <2> QED
    BY <1>0, <2>1, <2>2
<1>20. ASSUME NEW s \in Attempts, Rename(s) PROVE HasherTracksDisk'
  BY <1>0, <1>20 DEF Rename
<1>21. ASSUME NEW s \in Attempts, RenameFails(s) PROVE HasherTracksDisk'
  BY <1>0, <1>21 DEF RenameFails
<1>22. ASSUME NEW s \in Attempts, RemoveState(s) PROVE HasherTracksDisk'
  <2>1. /\ \A t \in Attempts : rpc'[t] \in {"create", "respond", "recv", "rename"} => rpc'[t] = rpc[t]
        /\ UNCHANGED <<hasher, resume, left, blocks, handle, file, inflight>>
    BY <1>0, <1>22 DEF RemoveState
  <2>2. \A t \in Attempts : Flushed(t)' = Flushed(t)
    BY <2>1
  <2>3. HasherTracksDisk
    BY <1>0
  <2> HIDE DEF Flushed
  <2> QED
    BY <2>1, <2>2, <2>3
<1>23. ASSUME NEW s \in Attempts, Ack(s) PROVE HasherTracksDisk'
  BY <1>0, <1>23 DEF Ack
<1>24. ASSUME NEW s \in Attempts, AckFails(s) PROVE HasherTracksDisk'
  BY <1>0, <1>24 DEF AckFails
<1>25. ASSUME NEW s \in Attempts, Record(s) PROVE HasherTracksDisk'
  BY <1>0, <1>25 DEF Record
<1>26. ASSUME NEW s \in Attempts, RecvFails(s) PROVE HasherTracksDisk'
  BY <1>0, <1>26 DEF RecvFails
<1>27. ASSUME NEW s \in Attempts, Report(s) PROVE HasherTracksDisk'
  BY <1>0, <1>27 DEF Report
<1>28. ASSUME NEW s \in Attempts, CleanupTemp(s) PROVE HasherTracksDisk'
  BY <1>0, <1>28 DEF CleanupTemp
<1>29. ASSUME NEW s \in Attempts, WriteLands(s) PROVE HasherTracksDisk'
  <2>1. /\ blocks' = Flushed(s) /\ inflight' = [inflight EXCEPT ![s] = <<>>]
        /\ inflight[s] # <<>>
        /\ UNCHANGED <<rpc, handle, hasher, resume, left, file>>
    BY <1>29 DEF WriteLands
  <2>2. Flushed(s)' = Flushed(s) /\ rpc[s] \notin {"respond", "rename"}
    BY <1>0, <2>1 DEF LateWritesHarmless
  <2>3. \A t \in Attempts \ {s} : rpc[t] \in {"respond", "recv", "rename"} => handle[t] # handle[s]
    BY <1>0, <2>1 DEF LateWritesHarmless, HeldIsTemp, Held, OneActive, Active, HandlerLive
  <2>4. \A a \in Attempts : a # handle[s] => blocks'[a] = blocks[a]
    BY <1>0, <2>1
  <2>5. \A t \in Attempts \ {s} : rpc[t] \in {"respond", "recv", "rename"} =>
          /\ blocks'[handle[t]] = blocks[handle[t]]
          /\ Flushed(t)'[handle[t]] = Flushed(t)[handle[t]]
    <3> SUFFICES ASSUME NEW t \in Attempts \ {s}, rpc[t] \in {"respond", "recv", "rename"}
                 PROVE  /\ blocks'[handle[t]] = blocks[handle[t]]
                        /\ Flushed(t)'[handle[t]] = Flushed(t)[handle[t]]
      OBVIOUS
    <3>1. handle[t] \in Attempts
      BY <1>0 DEF HeldIsTemp, Held
    <3>2. blocks'[handle[t]] = blocks[handle[t]]
      BY <2>3, <2>4, <3>1
    <3>3. inflight'[t] = inflight[t] /\ handle' = handle
      BY <1>0, <2>1
    <3>4. blocks' \in [Attempts -> Content]
      BY <2>1, FlushedType DEF IInv
    <3> QED
      BY <1>0, <3>1, <3>2, <3>3, <3>4
  <2> HIDE DEF Flushed
  <2> QED
    BY <1>0, <2>1, <2>2, <2>5
<1>30. ASSUME NEW s \in Attempts, Cut(s) PROVE HasherTracksDisk'
  BY <1>0, <1>30 DEF Cut
<1>31. ASSUME NEW x \in saves, SaveLands(x) PROVE HasherTracksDisk'
  BY <1>0, <1>31 DEF SaveLands
<1>32. CASE Crash
  <2>1. \A s \in Attempts : rpc'[s] \notin {"create", "respond", "recv", "rename"}
    BY <1>0, <1>32 DEF Crash, HandlerLive
  <2> HIDE DEF Flushed
  <2> QED
    BY <2>1
<1>33. CASE UNCHANGED vars
  BY <1>0, <1>33 DEF vars
<1> QED
  BY <1>1, <1>2, <1>3, <1>4, <1>5, <1>6, <1>7, <1>8, <1>9, <1>10,
     <1>11, <1>12, <1>13, <1>14, <1>15, <1>16, <1>17, <1>18, <1>19, <1>20,
     <1>21, <1>22, <1>23, <1>24, <1>25, <1>26, <1>27, <1>28, <1>29, <1>30,
     <1>31, <1>32, <1>33
     DEF Next, Sender, Handler, AllEnded

(* A finished file changes only by being replaced.                         *)
LEMMA DeliveredIntactStep ==
  ASSUME IInv, [Next]_vars, Exclusive
  PROVE  DeliveredIntact'
<1> USE DEF sender, network, memory, disk, outcome, faults, Goto, RGoto, HangUp, Reply
<1> USE DEF DeliveredIntact, InodesFresh, Unopened, HeldIsTemp, Held, TempIsUnfinished, LateWritesHarmless, Flushed
<1>0. /\ rpc \in [Attempts -> ReceiverPC]
      /\ handle \in [Attempts -> Attempts \cup {None}]
      /\ tempLink \in Attempts \cup {None} /\ destLink \in [Dirs -> Attempts \cup {None}]
      /\ None \notin Attempts
      /\ saveDir \in [Attempts -> Dirs]
      /\ blocks \in [Attempts -> Content]
      /\ InodesFresh
      /\ HeldIsTemp
      /\ TempIsUnfinished
      /\ LateWritesHarmless
      /\ HasherTracksDisk
      /\ DeliveredIntact
  BY ConstantsOK DEF ConstantsOK, IInv, TypeOK
<1>1. ASSUME NEW s \in Attempts, Start(s) PROVE DeliveredIntact'
  BY <1>0, <1>1 DEF Start
<1>2. ASSUME NEW s \in Attempts, OnAccepted(s) PROVE DeliveredIntact'
  BY <1>0, <1>2 DEF OnAccepted
<1>3. ASSUME NEW s \in Attempts, OnRejected(s) PROVE DeliveredIntact'
  BY <1>0, <1>3 DEF OnRejected
<1>4. ASSUME NEW s \in Attempts, SendChunk(s) PROVE DeliveredIntact'
  BY <1>0, <1>4 DEF SendChunk
<1>5. ASSUME NEW s \in Attempts, SendComplete(s) PROVE DeliveredIntact'
  BY <1>0, <1>5 DEF SendComplete
<1>6. ASSUME NEW s \in Attempts, CancelSend(s) PROVE DeliveredIntact'
  BY <1>0, <1>6 DEF CancelSend
<1>7. ASSUME NEW s \in Attempts, OnAck(s) PROVE DeliveredIntact'
  BY <1>0, <1>7 DEF OnAck
<1>8. ASSUME NEW s \in Attempts, SenderFails(s) PROVE DeliveredIntact'
  BY <1>0, <1>8 DEF SenderFails
<1>9. ASSUME NEW s \in Attempts, Accept(s) PROVE DeliveredIntact'
  BY <1>0, <1>9 DEF Accept
<1>10. ASSUME NEW s \in Attempts, Reject(s) PROVE DeliveredIntact'
  BY <1>0, <1>10 DEF Reject
<1>11. ASSUME NEW s \in Attempts, RequestLost(s) PROVE DeliveredIntact'
  BY <1>0, <1>11 DEF RequestLost
<1>12. ASSUME NEW s \in Attempts, OpenResume(s) PROVE DeliveredIntact'
  BY <1>0, <1>12 DEF OpenResume
<1>13. ASSUME NEW s \in Attempts, OpenFresh(s) PROVE DeliveredIntact'
  BY <1>0, <1>13 DEF OpenFresh
<1>14. ASSUME NEW s \in Attempts, CreateTemp(s) PROVE DeliveredIntact'
  BY <1>0, <1>14 DEF CreateTemp
<1>15. ASSUME NEW s \in Attempts, Respond(s) PROVE DeliveredIntact'
  BY <1>0, <1>15 DEF Respond
<1>16. ASSUME NEW s \in Attempts, RespondFails(s) PROVE DeliveredIntact'
  BY <1>0, <1>16 DEF RespondFails
<1>17. ASSUME NEW s \in Attempts, RecvChunk(s) PROVE DeliveredIntact'
  BY <1>0, <1>17 DEF RecvChunk
<1>18. ASSUME NEW s \in Attempts, VerifyMatches(s) PROVE DeliveredIntact'
  BY <1>0, <1>18 DEF VerifyMatches
<1>19. ASSUME NEW s \in Attempts, VerifyMismatches(s) PROVE DeliveredIntact'
  BY <1>0, <1>19 DEF VerifyMismatches
<1>20. ASSUME NEW s \in Attempts, Rename(s) PROVE DeliveredIntact'
  <2>1. tempLink \in Attempts /\ blocks[tempLink] = file[s]
    BY <1>0, <1>20 DEF Rename, HasherTracksDisk
  <2> QED
    BY <1>0, <2>1, <1>20 DEF Rename
<1>21. ASSUME NEW s \in Attempts, RenameFails(s) PROVE DeliveredIntact'
  BY <1>0, <1>21 DEF RenameFails
<1>22. ASSUME NEW s \in Attempts, RemoveState(s) PROVE DeliveredIntact'
  BY <1>0, <1>22 DEF RemoveState
<1>23. ASSUME NEW s \in Attempts, Ack(s) PROVE DeliveredIntact'
  BY <1>0, <1>23 DEF Ack
<1>24. ASSUME NEW s \in Attempts, AckFails(s) PROVE DeliveredIntact'
  BY <1>0, <1>24 DEF AckFails
<1>25. ASSUME NEW s \in Attempts, Record(s) PROVE DeliveredIntact'
  BY <1>0, <1>25 DEF Record
<1>26. ASSUME NEW s \in Attempts, RecvFails(s) PROVE DeliveredIntact'
  BY <1>0, <1>26 DEF RecvFails
<1>27. ASSUME NEW s \in Attempts, Report(s) PROVE DeliveredIntact'
  BY <1>0, <1>27 DEF Report
<1>28. ASSUME NEW s \in Attempts, CleanupTemp(s) PROVE DeliveredIntact'
  BY <1>0, <1>28 DEF CleanupTemp
<1>29. ASSUME NEW s \in Attempts, WriteLands(s) PROVE DeliveredIntact'
  BY <1>0, <1>29 DEF WriteLands
<1>30. ASSUME NEW s \in Attempts, Cut(s) PROVE DeliveredIntact'
  BY <1>0, <1>30 DEF Cut
<1>31. ASSUME NEW x \in saves, SaveLands(x) PROVE DeliveredIntact'
  BY <1>0, <1>31 DEF SaveLands
<1>32. CASE Crash
  BY <1>0, <1>32 DEF Crash
<1>33. CASE UNCHANGED vars
  BY <1>0, <1>33 DEF vars
<1> QED
  BY <1>1, <1>2, <1>3, <1>4, <1>5, <1>6, <1>7, <1>8, <1>9, <1>10,
     <1>11, <1>12, <1>13, <1>14, <1>15, <1>16, <1>17, <1>18, <1>19, <1>20,
     <1>21, <1>22, <1>23, <1>24, <1>25, <1>26, <1>27, <1>28, <1>29, <1>30,
     <1>31, <1>32, <1>33
     DEF Next, Sender, Handler, AllEnded

(* Without a resume the hasher saw the sender's file.                      *)
LEMMA FreshNeverMismatchesStep ==
  ASSUME IInv, [Next]_vars, Exclusive
  PROVE  FreshNeverMismatches'
<1> USE DEF sender, network, memory, disk, outcome, faults, Goto, RGoto, HangUp, Reply
<1> USE DEF FreshNeverMismatches
<1>0. /\ rpc \in [Attempts -> ReceiverPC]
      /\ toRcv \in [Attempts -> Seq(ToRcvMsg)]
      /\ hasher \in [Attempts -> Seq(Data \cup {Blank})]
      /\ resume \in [Attempts -> 0..N]
      /\ left \in [Attempts -> 0..N] /\ N \in Nat
      /\ file \in [Attempts -> [Chunk -> Data]]
      /\ WireContinues
      /\ HasherTracksDisk
      /\ FreshNeverMismatches
  BY ConstantsOK DEF ConstantsOK, IInv, TypeOK
<1>1. ASSUME NEW s \in Attempts, Start(s) PROVE FreshNeverMismatches'
  BY <1>0, <1>1 DEF Start
<1>2. ASSUME NEW s \in Attempts, OnAccepted(s) PROVE FreshNeverMismatches'
  BY <1>0, <1>2 DEF OnAccepted
<1>3. ASSUME NEW s \in Attempts, OnRejected(s) PROVE FreshNeverMismatches'
  BY <1>0, <1>3 DEF OnRejected
<1>4. ASSUME NEW s \in Attempts, SendChunk(s) PROVE FreshNeverMismatches'
  BY <1>0, <1>4 DEF SendChunk
<1>5. ASSUME NEW s \in Attempts, SendComplete(s) PROVE FreshNeverMismatches'
  BY <1>0, <1>5 DEF SendComplete
<1>6. ASSUME NEW s \in Attempts, CancelSend(s) PROVE FreshNeverMismatches'
  BY <1>0, <1>6 DEF CancelSend
<1>7. ASSUME NEW s \in Attempts, OnAck(s) PROVE FreshNeverMismatches'
  BY <1>0, <1>7 DEF OnAck
<1>8. ASSUME NEW s \in Attempts, SenderFails(s) PROVE FreshNeverMismatches'
  BY <1>0, <1>8 DEF SenderFails
<1>9. ASSUME NEW s \in Attempts, Accept(s) PROVE FreshNeverMismatches'
  BY <1>0, <1>9 DEF Accept
<1>10. ASSUME NEW s \in Attempts, Reject(s) PROVE FreshNeverMismatches'
  BY <1>0, <1>10 DEF Reject
<1>11. ASSUME NEW s \in Attempts, RequestLost(s) PROVE FreshNeverMismatches'
  BY <1>0, <1>11 DEF RequestLost
<1>12. ASSUME NEW s \in Attempts, OpenResume(s) PROVE FreshNeverMismatches'
  BY <1>0, <1>12 DEF OpenResume
<1>13. ASSUME NEW s \in Attempts, OpenFresh(s) PROVE FreshNeverMismatches'
  BY <1>0, <1>13 DEF OpenFresh
<1>14. ASSUME NEW s \in Attempts, CreateTemp(s) PROVE FreshNeverMismatches'
  BY <1>0, <1>14 DEF CreateTemp
<1>15. ASSUME NEW s \in Attempts, Respond(s) PROVE FreshNeverMismatches'
  BY <1>0, <1>15 DEF Respond
<1>16. ASSUME NEW s \in Attempts, RespondFails(s) PROVE FreshNeverMismatches'
  BY <1>0, <1>16 DEF RespondFails
<1>17. ASSUME NEW s \in Attempts, RecvChunk(s) PROVE FreshNeverMismatches'
  BY <1>0, <1>17 DEF RecvChunk
<1>18. ASSUME NEW s \in Attempts, VerifyMatches(s) PROVE FreshNeverMismatches'
  BY <1>0, <1>18 DEF VerifyMatches
<1>19. ASSUME NEW s \in Attempts, VerifyMismatches(s) PROVE FreshNeverMismatches'
  <2>1. rpc[s] = "recv" /\ left[s] = 0 /\ hasher[s] # Head(toRcv[s]).hash
    BY <1>19 DEF VerifyMismatches
  <2>2. Head(toRcv[s]).hash = file[s]
    <3>1. toRcv[s] \in Seq(ToRcvMsg) /\ toRcv[s] # <<>>
      BY <1>0, <1>19 DEF VerifyMismatches
    <3>2. Head(toRcv[s]) = toRcv[s][1] /\ Len(toRcv[s]) \in Nat \ {0}
      BY <3>1, TakeElements
    <3>3. 1 \in 1..Len(toRcv[s])
      BY <3>2
    <3>4. Fits(toRcv[s][1], 1, hasher[s], file[s])
      BY <1>0, <2>1, <3>3 DEF WireContinues
    <3> QED
      BY <3>2, <3>4, <1>19 DEF VerifyMismatches, Fits
  <2>3. /\ Len(hasher[s]) = N
        /\ \A i \in 1..N : i > resume[s] => hasher[s][i] = file[s][i]
    <3>1. /\ Len(hasher[s]) + left[s] = N
          /\ \A i \in 1..Len(hasher[s]) : i > resume[s] => hasher[s][i] = file[s][i]
      BY <1>0, <2>1 DEF HasherTracksDisk, SentFrom
    <3>2. Len(hasher[s]) \in Nat /\ Len(hasher[s]) = N
      BY <1>0, <2>1, <3>1, LenProperties
    <3> QED
      BY <3>1, <3>2
  <2>4. hasher[s] \in [1..N -> Data \cup {Blank}] /\ file[s] \in [1..N -> Data]
    BY <1>0, <2>3, LenProperties DEF Chunk
  <2>5. resume[s] # 0
    <3> SUFFICES ASSUME resume[s] = 0 PROVE FALSE
      OBVIOUS
    <3>1. \A i \in 1..N : hasher[s][i] = file[s][i]
      BY <2>3
    <3>2. PICK h \in [1..N -> Data \cup {Blank}], f \in [1..N -> Data] : h = hasher[s] /\ f = file[s]
      BY <2>4
    <3>3. \A i \in 1..N : h[i] = f[i]
      BY <3>1, <3>2
    <3>4. h = f
      BY <1>0, <3>3
    <3> QED
      BY <2>1, <2>2, <3>2, <3>4
  <2>6. resume[s] > 0
    BY <1>0, <2>5
  <2> QED
    BY <1>0, <2>6, <1>19 DEF VerifyMismatches
<1>20. ASSUME NEW s \in Attempts, Rename(s) PROVE FreshNeverMismatches'
  BY <1>0, <1>20 DEF Rename
<1>21. ASSUME NEW s \in Attempts, RenameFails(s) PROVE FreshNeverMismatches'
  BY <1>0, <1>21 DEF RenameFails
<1>22. ASSUME NEW s \in Attempts, RemoveState(s) PROVE FreshNeverMismatches'
  BY <1>0, <1>22 DEF RemoveState
<1>23. ASSUME NEW s \in Attempts, Ack(s) PROVE FreshNeverMismatches'
  BY <1>0, <1>23 DEF Ack
<1>24. ASSUME NEW s \in Attempts, AckFails(s) PROVE FreshNeverMismatches'
  BY <1>0, <1>24 DEF AckFails
<1>25. ASSUME NEW s \in Attempts, Record(s) PROVE FreshNeverMismatches'
  BY <1>0, <1>25 DEF Record
<1>26. ASSUME NEW s \in Attempts, RecvFails(s) PROVE FreshNeverMismatches'
  BY <1>0, <1>26 DEF RecvFails
<1>27. ASSUME NEW s \in Attempts, Report(s) PROVE FreshNeverMismatches'
  BY <1>0, <1>27 DEF Report
<1>28. ASSUME NEW s \in Attempts, CleanupTemp(s) PROVE FreshNeverMismatches'
  BY <1>0, <1>28 DEF CleanupTemp
<1>29. ASSUME NEW s \in Attempts, WriteLands(s) PROVE FreshNeverMismatches'
  BY <1>0, <1>29 DEF WriteLands
<1>30. ASSUME NEW s \in Attempts, Cut(s) PROVE FreshNeverMismatches'
  BY <1>0, <1>30 DEF Cut
<1>31. ASSUME NEW x \in saves, SaveLands(x) PROVE FreshNeverMismatches'
  BY <1>0, <1>31 DEF SaveLands
<1>32. CASE Crash
  BY <1>0, <1>32 DEF Crash
<1>33. CASE UNCHANGED vars
  BY <1>0, <1>33 DEF vars
<1> QED
  BY <1>1, <1>2, <1>3, <1>4, <1>5, <1>6, <1>7, <1>8, <1>9, <1>10,
     <1>11, <1>12, <1>13, <1>14, <1>15, <1>16, <1>17, <1>18, <1>19, <1>20,
     <1>21, <1>22, <1>23, <1>24, <1>25, <1>26, <1>27, <1>28, <1>29, <1>30,
     <1>31, <1>32, <1>33
     DEF Next, Sender, Handler, AllEnded

(* The sender is done only by an ack.                                      *)
LEMMA SenderDoneMeansSavedStep ==
  ASSUME IInv, [Next]_vars, Exclusive
  PROVE  SenderDoneMeansSaved'
<1> USE DEF sender, network, memory, disk, outcome, faults, Goto, RGoto, HangUp, Reply
<1> USE DEF SenderDoneMeansSaved
<1>0. /\ pc \in [Attempts -> SenderPC]
      /\ toSnd \in [Attempts -> Seq(ToSndMsg)]
      /\ saved \subseteq Attempts
      /\ AnswersTrue
      /\ SenderDoneMeansSaved
  BY ConstantsOK DEF ConstantsOK, IInv, TypeOK
<1>1. ASSUME NEW s \in Attempts, Start(s) PROVE SenderDoneMeansSaved'
  BY <1>0, <1>1 DEF Start
<1>2. ASSUME NEW s \in Attempts, OnAccepted(s) PROVE SenderDoneMeansSaved'
  BY <1>0, <1>2 DEF OnAccepted
<1>3. ASSUME NEW s \in Attempts, OnRejected(s) PROVE SenderDoneMeansSaved'
  BY <1>0, <1>3 DEF OnRejected
<1>4. ASSUME NEW s \in Attempts, SendChunk(s) PROVE SenderDoneMeansSaved'
  BY <1>0, <1>4 DEF SendChunk
<1>5. ASSUME NEW s \in Attempts, SendComplete(s) PROVE SenderDoneMeansSaved'
  BY <1>0, <1>5 DEF SendComplete
<1>6. ASSUME NEW s \in Attempts, CancelSend(s) PROVE SenderDoneMeansSaved'
  BY <1>0, <1>6 DEF CancelSend
<1>7. ASSUME NEW s \in Attempts, OnAck(s) PROVE SenderDoneMeansSaved'
  <2>1. pc[s] = "waitAck" /\ toSnd[s] # <<>> /\ toSnd[s] \in Seq(ToSndMsg)
    BY <1>0, <1>7 DEF OnAck
  <2>2. /\ Head(toSnd[s]) = toSnd[s][1] /\ Head(toSnd[s]) \in ToSndMsg
        /\ Len(toSnd[s]) \in Nat \ {0}
    BY <2>1, TakeElements
  <2>3. 1 \in 1..Len(toSnd[s])
    BY <2>2
  <2>4. /\ Head(toSnd[s]).type # "response"
        /\ Head(toSnd[s]).type = "complete" => s \in saved
    BY <1>0, <2>1, <2>2, <2>3 DEF AnswersTrue
  <2>5. Head(toSnd[s]).type # "error" => s \in saved
    BY <2>2, <2>4 DEF ToSndMsg
  <2> QED
    BY <1>0, <2>5, <1>7 DEF OnAck
<1>8. ASSUME NEW s \in Attempts, SenderFails(s) PROVE SenderDoneMeansSaved'
  BY <1>0, <1>8 DEF SenderFails
<1>9. ASSUME NEW s \in Attempts, Accept(s) PROVE SenderDoneMeansSaved'
  BY <1>0, <1>9 DEF Accept
<1>10. ASSUME NEW s \in Attempts, Reject(s) PROVE SenderDoneMeansSaved'
  BY <1>0, <1>10 DEF Reject
<1>11. ASSUME NEW s \in Attempts, RequestLost(s) PROVE SenderDoneMeansSaved'
  BY <1>0, <1>11 DEF RequestLost
<1>12. ASSUME NEW s \in Attempts, OpenResume(s) PROVE SenderDoneMeansSaved'
  BY <1>0, <1>12 DEF OpenResume
<1>13. ASSUME NEW s \in Attempts, OpenFresh(s) PROVE SenderDoneMeansSaved'
  BY <1>0, <1>13 DEF OpenFresh
<1>14. ASSUME NEW s \in Attempts, CreateTemp(s) PROVE SenderDoneMeansSaved'
  BY <1>0, <1>14 DEF CreateTemp
<1>15. ASSUME NEW s \in Attempts, Respond(s) PROVE SenderDoneMeansSaved'
  BY <1>0, <1>15 DEF Respond
<1>16. ASSUME NEW s \in Attempts, RespondFails(s) PROVE SenderDoneMeansSaved'
  BY <1>0, <1>16 DEF RespondFails
<1>17. ASSUME NEW s \in Attempts, RecvChunk(s) PROVE SenderDoneMeansSaved'
  BY <1>0, <1>17 DEF RecvChunk
<1>18. ASSUME NEW s \in Attempts, VerifyMatches(s) PROVE SenderDoneMeansSaved'
  BY <1>0, <1>18 DEF VerifyMatches
<1>19. ASSUME NEW s \in Attempts, VerifyMismatches(s) PROVE SenderDoneMeansSaved'
  BY <1>0, <1>19 DEF VerifyMismatches
<1>20. ASSUME NEW s \in Attempts, Rename(s) PROVE SenderDoneMeansSaved'
  BY <1>0, <1>20 DEF Rename
<1>21. ASSUME NEW s \in Attempts, RenameFails(s) PROVE SenderDoneMeansSaved'
  BY <1>0, <1>21 DEF RenameFails
<1>22. ASSUME NEW s \in Attempts, RemoveState(s) PROVE SenderDoneMeansSaved'
  BY <1>0, <1>22 DEF RemoveState
<1>23. ASSUME NEW s \in Attempts, Ack(s) PROVE SenderDoneMeansSaved'
  BY <1>0, <1>23 DEF Ack
<1>24. ASSUME NEW s \in Attempts, AckFails(s) PROVE SenderDoneMeansSaved'
  BY <1>0, <1>24 DEF AckFails
<1>25. ASSUME NEW s \in Attempts, Record(s) PROVE SenderDoneMeansSaved'
  BY <1>0, <1>25 DEF Record
<1>26. ASSUME NEW s \in Attempts, RecvFails(s) PROVE SenderDoneMeansSaved'
  BY <1>0, <1>26 DEF RecvFails
<1>27. ASSUME NEW s \in Attempts, Report(s) PROVE SenderDoneMeansSaved'
  BY <1>0, <1>27 DEF Report
<1>28. ASSUME NEW s \in Attempts, CleanupTemp(s) PROVE SenderDoneMeansSaved'
  BY <1>0, <1>28 DEF CleanupTemp
<1>29. ASSUME NEW s \in Attempts, WriteLands(s) PROVE SenderDoneMeansSaved'
  BY <1>0, <1>29 DEF WriteLands
<1>30. ASSUME NEW s \in Attempts, Cut(s) PROVE SenderDoneMeansSaved'
  BY <1>0, <1>30 DEF Cut
<1>31. ASSUME NEW x \in saves, SaveLands(x) PROVE SenderDoneMeansSaved'
  BY <1>0, <1>31 DEF SaveLands
<1>32. CASE Crash
  BY <1>0, <1>32 DEF Crash
<1>33. CASE UNCHANGED vars
  BY <1>0, <1>33 DEF vars
<1> QED
  BY <1>1, <1>2, <1>3, <1>4, <1>5, <1>6, <1>7, <1>8, <1>9, <1>10,
     <1>11, <1>12, <1>13, <1>14, <1>15, <1>16, <1>17, <1>18, <1>19, <1>20,
     <1>21, <1>22, <1>23, <1>24, <1>25, <1>26, <1>27, <1>28, <1>29, <1>30,
     <1>31, <1>32, <1>33
     DEF Next, Sender, Handler, AllEnded

-----------------------------------------------------------------------------
LEMMA InitIInv ==
  ASSUME Init
  PROVE  IInv
<1>0. TypeOK
  BY ConstantsOK DEF ConstantsOK, Init, TypeOK, SenderPC, ReceiverPC, Content, Empty, Absent, Chunk
<1>1. \A s \in Attempts : /\ pc[s] = "idle" /\ rpc[s] = "none"
                          /\ toRcv[s] = <<>> /\ toSnd[s] = <<>> /\ inflight[s] = <<>>
                          /\ handle[s] = None
  BY DEF Init
<1>2. tempLink = None /\ \A d \in Dirs : destLink[d] = None
  BY DEF Init
<1>3. None \notin Attempts
  BY ConstantsOK DEF ConstantsOK
<1>4. OneActive /\ QuietBeforeResponse
  BY <1>1 DEF OneActive, Active, SenderBusy, HandlerLive, QuietBeforeResponse, Waiting
<1>5. InodesFresh /\ HeldIsTemp /\ TempIsUnfinished /\ LateWritesHarmless
  BY <1>1, <1>2, <1>3 DEF InodesFresh, Unopened, HeldIsTemp, Held, TempIsUnfinished, LateWritesHarmless
<1>6. AnswersTrue
  <2>1. \A s \in Attempts : \A k \in 1..Len(toSnd[s]) : FALSE
    BY <1>1
  <2> QED
    BY <2>1 DEF AnswersTrue
<1>7. WireContinues /\ HasherTracksDisk /\ Acknowledged
  BY <1>1 DEF WireContinues, HasherTracksDisk, Acknowledged
<1>8. DeliveredIntact /\ FreshNeverMismatches /\ SenderDoneMeansSaved
  BY <1>1, <1>2 DEF DeliveredIntact, FreshNeverMismatches, SenderDoneMeansSaved
<1> QED
  BY <1>0, <1>4, <1>5, <1>6, <1>7, <1>8 DEF IInv

(* The inductive invariant holds of every reachable state.                 *)
THEOREM Inductive ==
  ASSUME Exclusive
  PROVE  Spec => []IInv
<1>1. Init => IInv
  BY InitIInv
<1>2. IInv /\ [Next]_vars => IInv'
  <2> SUFFICES ASSUME IInv, [Next]_vars PROVE IInv'
    OBVIOUS
  <2>1. TypeOK'
    BY TypeStep DEF IInv
  <2>2. OneActive' /\ QuietBeforeResponse' /\ InodesFresh' /\ HeldIsTemp' /\ TempIsUnfinished'
    BY Exclusive, OneActiveStep, QuietBeforeResponseStep, InodesFreshStep, HeldIsTempStep,
       TempIsUnfinishedStep
  <2>3. LateWritesHarmless' /\ WireContinues' /\ AnswersTrue' /\ HasherTracksDisk' /\ Acknowledged'
    BY Exclusive, LateWritesHarmlessStep, WireContinuesStep, AnswersTrueStep, HasherTracksDiskStep,
       AcknowledgedStep
  <2>4. DeliveredIntact' /\ FreshNeverMismatches' /\ SenderDoneMeansSaved'
    BY Exclusive, DeliveredIntactStep, FreshNeverMismatchesStep, SenderDoneMeansSavedStep
  <2> QED
    BY <2>1, <2>2, <2>3, <2>4 DEF IInv
<1> QED
  BY <1>1, <1>2, PTL DEF Spec

(* Every finished file is, chunk for chunk, one the sender had.            *)
THEOREM Intact ==
  ASSUME Exclusive
  PROVE  Spec => []DeliveredIntact
<1>1. IInv => DeliveredIntact
  BY DEF IInv
<1>2. Spec => []IInv
  BY Inductive
<1> QED
  BY <1>1, <1>2, PTL

(* A transfer that did not resume never fails the verification.            *)
THEOREM FreshMatches ==
  ASSUME Exclusive
  PROVE  Spec => []FreshNeverMismatches
<1>1. IInv => FreshNeverMismatches
  BY DEF IInv
<1>2. Spec => []IInv
  BY Inductive
<1> QED
  BY <1>1, <1>2, PTL

(* The sender reports success only of a file that is verified and in place.*)
THEOREM DoneMeansSaved ==
  ASSUME Exclusive
  PROVE  Spec => []SenderDoneMeansSaved
<1>1. IInv => SenderDoneMeansSaved
  BY DEF IInv
<1>2. Spec => []IInv
  BY Inductive
<1> QED
  BY <1>1, <1>2, PTL

-----------------------------------------------------------------------------
(* The chunk that comes next, and FileDelivery.                            *)

(* The chunks a receiver has are the first ones of the file: those on the  *)
(* disk, in the saves still to run, and in memory, where they are as many  *)
(* as the hasher was fed.                                                  *)
InOrder(S) == \E k \in 0..N : S = 1..k
Counted    == {"create", "respond", "recv"}

SavesInOrder  == InOrder(stateFile.completed) /\ \A x \in saves : InOrder(x.completed)
MemoryInOrder == \A s \in Attempts : rpc[s] \in Counted => completed[s] = 1..Len(hasher[s])

CountedInOrder == SavesInOrder /\ MemoryInOrder

LEMMA EmptyInOrder == InOrder({})
<1>1. N \in Nat
  BY ConstantsOK DEF ConstantsOK
<1>2. 1..0 = {} /\ 0 \in 0..N
  BY <1>1
<1> QED BY <1>2 DEF InOrder

LEMMA AbsentInOrder == InOrder(Absent.completed)
  BY EmptyInOrder DEF Absent

(* The chunk a handler takes is the one after those it has.                *)
LEMMA NextChunkFollows ==
  ASSUME IInv, MemoryInOrder, NEW s \in Attempts, rpc[s] = "recv",
         toRcv[s] # <<>>, Head(toRcv[s]).type = "chunk"
  PROVE  /\ Head(toRcv[s]).index = Len(hasher[s]) + 1
         /\ completed[s] = 1..Len(hasher[s])
<1>1. toRcv[s] \in Seq(ToRcvMsg)
  BY DEF IInv, TypeOK
<1>2. Len(toRcv[s]) \in Nat \ {0} /\ Head(toRcv[s]) = toRcv[s][1]
  BY <1>1, TakeElements
<1>3. Fits(toRcv[s][1], 1, hasher[s], file[s])
  <2>1. 1 \in 1..Len(toRcv[s])
    BY <1>2
  <2> QED BY <2>1 DEF IInv, WireContinues
<1>4. Head(toRcv[s]).index = Len(hasher[s]) + 1
  BY <1>2, <1>3 DEF Fits
<1>5. completed[s] = 1..Len(hasher[s])
  BY DEF MemoryInOrder, Counted
<1> QED BY <1>4, <1>5

(* A step that leaves completed, hasher and saves alone keeps the order,   *)
(* and so does one that removes the state file.                            *)
LEMMA QuietKeepsOrder ==
  ASSUME CountedInOrder, UNCHANGED <<completed, hasher>>,
         saves' \subseteq saves,
         stateFile' = stateFile \/ stateFile' = Absent
           \/ (\E x \in saves : stateFile'.completed = x.completed)
           \/ stateFile'.completed = stateFile.completed,
         \A s \in Attempts : rpc'[s] \in Counted => rpc[s] \in Counted
  PROVE  CountedInOrder'
<1>1. SavesInOrder'
  BY AbsentInOrder DEF CountedInOrder, SavesInOrder, InOrder
<1>2. MemoryInOrder'
  BY DEF CountedInOrder, MemoryInOrder
<1> QED BY <1>1, <1>2 DEF CountedInOrder

LEMMA OpenResumeKeepsOrder ==
  ASSUME IInv, CountedInOrder, NEW s \in Attempts, OpenResume(s)
  PROVE  CountedInOrder'
<1>1. PICK k \in 0..N : stateFile.completed = 1..k
  BY DEF CountedInOrder, SavesInOrder, InOrder
<1>2. N \in Nat
  BY ConstantsOK DEF ConstantsOK
<1>3. k \in Nat /\ k \in Int
  BY <1>2
<1>4. Cardinality(stateFile.completed) = k
  BY <1>1, <1>3, FS_Interval
<1>5. tempLink \in Attempts /\ blocks[tempLink] \in [1..N -> Data \cup {Blank}]
  BY DEF OpenResume, Resumable, IInv, TypeOK, Content, Chunk
<1>6. Len(SubSeq(blocks[tempLink], 1, k)) = k
  BY <1>2, <1>5, ArrayPrefix
<1>7. /\ hasher' = [hasher EXCEPT ![s] = SubSeq(blocks[tempLink], 1, k)]
      /\ completed' = [completed EXCEPT ![s] = 1..k]
      /\ rpc' = [rpc EXCEPT ![s] = "respond"]
      /\ UNCHANGED <<saves, stateFile>>
  BY <1>1, <1>4 DEF OpenResume, RGoto, disk
<1>8. /\ hasher \in [Attempts -> Seq(Data \cup {Blank})]
      /\ completed \in [Attempts -> SUBSET Chunk]
      /\ rpc \in [Attempts -> ReceiverPC]
  BY DEF IInv, TypeOK
<1>9. completed'[s] = 1..Len(hasher'[s])
  BY <1>6, <1>7, <1>8
<1>10. \A t \in Attempts \ {s} : /\ completed'[t] = completed[t]
                                 /\ hasher'[t] = hasher[t] /\ rpc'[t] = rpc[t]
  BY <1>7, <1>8
<1>11. MemoryInOrder'
  BY <1>9, <1>10 DEF CountedInOrder, MemoryInOrder
<1>12. SavesInOrder'
  BY <1>7 DEF CountedInOrder, SavesInOrder, InOrder
<1> QED BY <1>11, <1>12 DEF CountedInOrder

LEMMA OpenFreshKeepsOrder ==
  ASSUME IInv, CountedInOrder, NEW s \in Attempts, OpenFresh(s)
  PROVE  CountedInOrder'
<1>1. /\ hasher' = [hasher EXCEPT ![s] = <<>>]
      /\ completed' = [completed EXCEPT ![s] = {}]
      /\ rpc' = [rpc EXCEPT ![s] = "create"]
      /\ saves' = saves \cup {[by |-> s, completed |-> {}, dir |-> dir[s]]}
      /\ stateFile' = stateFile
  BY DEF OpenFresh, RGoto
<1>2. /\ hasher \in [Attempts -> Seq(Data \cup {Blank})]
      /\ completed \in [Attempts -> SUBSET Chunk]
      /\ rpc \in [Attempts -> ReceiverPC]
  BY DEF IInv, TypeOK
<1>3. completed'[s] = 1..Len(hasher'[s])
  BY <1>1, <1>2
<1>4. \A t \in Attempts \ {s} : /\ completed'[t] = completed[t]
                                /\ hasher'[t] = hasher[t] /\ rpc'[t] = rpc[t]
  BY <1>1, <1>2
<1>5. MemoryInOrder'
  BY <1>3, <1>4 DEF CountedInOrder, MemoryInOrder
<1>6. \A x \in saves' : x \in saves \/ x.completed = {}
  BY <1>1
<1>7. SavesInOrder'
  BY <1>1, <1>6, EmptyInOrder DEF CountedInOrder, SavesInOrder, InOrder
<1> QED BY <1>5, <1>7 DEF CountedInOrder

LEMMA RecvChunkKeepsOrder ==
  ASSUME IInv, CountedInOrder, NEW s \in Attempts, RecvChunk(s)
  PROVE  CountedInOrder'
<1> DEFINE m == Head(toRcv[s])
           h == hasher[s]
           n == Len(h)
<1>1. /\ rpc[s] = "recv" /\ rpc' = rpc /\ stateFile' = stateFile
      /\ toRcv[s] # <<>> /\ m.type = "chunk"
      /\ hasher' = [hasher EXCEPT ![s] = Append(h, m.data)]
      /\ completed' = [completed EXCEPT ![s] = completed[s] \cup {m.index}]
      /\ \/ saves' = saves
         \/ saves' = saves \cup {[by |-> s, completed |-> completed[s] \cup {m.index},
                                  dir |-> saveDir[s]]}
  BY DEF RecvChunk
<1>2. /\ hasher \in [Attempts -> Seq(Data \cup {Blank})]
      /\ completed \in [Attempts -> SUBSET Chunk]
      /\ toRcv[s] \in Seq(ToRcvMsg)
  BY DEF IInv, TypeOK
<1>3. m \in ToRcvMsg
  BY <1>1, <1>2, TakeElements
<1>4. m.data \in Data \cup {Blank} /\ m.index \in 1..N
  BY <1>1, <1>3 DEF ToRcvMsg, Chunk
<1>5. n \in Nat /\ Len(Append(h, m.data)) = n + 1
  BY <1>2, <1>4, PutElements
<1>6. m.index = n + 1 /\ completed[s] = 1..n
  BY <1>1, NextChunkFollows DEF CountedInOrder
<1>7. completed[s] \cup {m.index} = 1..(n + 1)
  BY <1>5, <1>6
<1>8. MemoryInOrder'
  <2>1. completed'[s] = 1..Len(hasher'[s])
    BY <1>1, <1>2, <1>5, <1>7
  <2>2. \A t \in Attempts \ {s} : completed'[t] = completed[t] /\ hasher'[t] = hasher[t]
    BY <1>1, <1>2
  <2> QED BY <1>1, <2>1, <2>2 DEF CountedInOrder, MemoryInOrder
<1>9. SavesInOrder'
  <2>1. N \in Nat
    BY ConstantsOK DEF ConstantsOK
  <2>2. InOrder(1..(n + 1))
    BY <2>1, <1>4, <1>5, <1>6 DEF InOrder
  <2>3. \A x \in saves' : x \in saves
           \/ x = [by |-> s, completed |-> 1..(n + 1), dir |-> saveDir[s]]
    <3> HIDE DEF m, n
    <3> QED BY <1>1, <1>7
  <2>4. \A x \in saves' : x \in saves \/ x.completed = 1..(n + 1)
    <3> HIDE DEF m, n
    <3> QED BY <2>3
  <2> QED BY <1>1, <2>2, <2>4 DEF CountedInOrder, SavesInOrder, InOrder
<1> QED BY <1>8, <1>9 DEF CountedInOrder

(* The other steps of an attempt are quiet.                                *)
QuietStep(s) ==
  \/ Start(s) \/ OnAccepted(s) \/ OnRejected(s) \/ SendChunk(s) \/ SendComplete(s) \/ CancelSend(s)
  \/ OnAck(s) \/ SenderFails(s) \/ Accept(s) \/ Reject(s) \/ RequestLost(s) \/ CreateTemp(s)
  \/ Respond(s) \/ RespondFails(s) \/ VerifyMatches(s) \/ VerifyMismatches(s) \/ Rename(s) \/ RenameFails(s)
  \/ RemoveState(s) \/ Ack(s) \/ AckFails(s) \/ Record(s) \/ RecvFails(s) \/ Report(s)
  \/ CleanupTemp(s) \/ WriteLands(s) \/ Cut(s)

LEMMA QuietSteps ==
  ASSUME IInv, CountedInOrder, NEW s \in Attempts, QuietStep(s)
  PROVE  CountedInOrder'
<1> USE DEF sender, network, memory, disk, outcome, faults, Goto, RGoto, Counted
<1>0. rpc \in [Attempts -> ReceiverPC]
  BY DEF IInv, TypeOK
<1> DEFINE Quiet == /\ UNCHANGED <<completed, hasher, saves>>
                    /\ stateFile' = stateFile \/ stateFile' = Absent
                    /\ \A t \in Attempts : rpc'[t] \in Counted => rpc[t] \in Counted
<1>1. ASSUME Start(s) PROVE Quiet
  BY <1>0, <1>1 DEF Start
<1>2. ASSUME OnAccepted(s) PROVE Quiet
  BY <1>0, <1>2 DEF OnAccepted
<1>3. ASSUME OnRejected(s) PROVE Quiet
  BY <1>0, <1>3 DEF OnRejected
<1>4. ASSUME SendChunk(s) PROVE Quiet
  BY <1>0, <1>4 DEF SendChunk
<1>5. ASSUME SendComplete(s) PROVE Quiet
  BY <1>0, <1>5 DEF SendComplete
<1>6. ASSUME CancelSend(s) PROVE Quiet
  BY <1>0, <1>6 DEF CancelSend
<1>7. ASSUME OnAck(s) PROVE Quiet
  BY <1>0, <1>7 DEF OnAck
<1>8. ASSUME SenderFails(s) PROVE Quiet
  BY <1>0, <1>8 DEF SenderFails
<1>9. ASSUME Accept(s) PROVE Quiet
  BY <1>0, <1>9 DEF Accept
<1>10. ASSUME Reject(s) PROVE Quiet
  BY <1>0, <1>10 DEF Reject
<1>11. ASSUME RequestLost(s) PROVE Quiet
  BY <1>0, <1>11 DEF RequestLost
<1>12. ASSUME CreateTemp(s) PROVE Quiet
  BY <1>0, <1>12 DEF CreateTemp
<1>13. ASSUME Respond(s) PROVE Quiet
  BY <1>0, <1>13 DEF Respond
<1>14. ASSUME RespondFails(s) PROVE Quiet
  BY <1>0, <1>14 DEF RespondFails
<1>15. ASSUME VerifyMatches(s) PROVE Quiet
  BY <1>0, <1>15 DEF VerifyMatches
<1>16. ASSUME VerifyMismatches(s) PROVE Quiet
  BY <1>0, <1>16 DEF VerifyMismatches
<1>17. ASSUME Rename(s) PROVE Quiet
  BY <1>0, <1>17 DEF Rename
<1>18. ASSUME RenameFails(s) PROVE Quiet
  BY <1>0, <1>18 DEF RenameFails
<1>19. ASSUME RemoveState(s) PROVE Quiet
  BY <1>0, <1>19 DEF RemoveState
<1>20. ASSUME Ack(s) PROVE Quiet
  BY <1>0, <1>20 DEF Ack
<1>21. ASSUME AckFails(s) PROVE Quiet
  BY <1>0, <1>21 DEF AckFails
<1>22. ASSUME Record(s) PROVE Quiet
  BY <1>0, <1>22 DEF Record
<1>23. ASSUME RecvFails(s) PROVE Quiet
  BY <1>0, <1>23 DEF RecvFails
<1>24. ASSUME Report(s) PROVE Quiet
  BY <1>0, <1>24 DEF Report
<1>25. ASSUME CleanupTemp(s) PROVE Quiet
  BY <1>0, <1>25 DEF CleanupTemp
<1>26. ASSUME WriteLands(s) PROVE Quiet
  BY <1>0, <1>26 DEF WriteLands
<1>27. ASSUME Cut(s) PROVE Quiet
  BY <1>0, <1>27 DEF Cut
<1>28. Quiet
  BY <1>1, <1>2, <1>3, <1>4, <1>5, <1>6, <1>7, <1>8, <1>9, <1>10, <1>11, <1>12, <1>13, <1>14, <1>15, <1>16, <1>17, <1>18, <1>19, <1>20, <1>21, <1>22, <1>23, <1>24, <1>25, <1>26, <1>27 DEF QuietStep
<1> QED BY <1>28, QuietKeepsOrder

LEMMA CrashKeepsOrder ==
  ASSUME IInv, CountedInOrder, Crash
  PROVE  CountedInOrder'
<1>1. rpc \in [Attempts -> ReceiverPC]
  BY DEF IInv, TypeOK
<1>2. \A s \in Attempts : rpc'[s] \in Counted => rpc[s] \in Counted
  BY <1>1 DEF Crash, HandlerLive, Counted
<1>3. UNCHANGED <<completed, hasher>> /\ saves' \subseteq saves
  BY DEF Crash
<1>4. stateFile' = stateFile \/ stateFile' = [stateFile EXCEPT !.kind = "torn"]
  BY DEF Crash
<1>5. stateFile'.completed = stateFile.completed
  <2>1. stateFile \in [kind : {"absent", "torn", "saved"},
                       completed : SUBSET Chunk, dir : Dirs]
    BY DEF IInv, TypeOK
  <2>2. [stateFile EXCEPT !.kind = "torn"].completed = stateFile.completed
    BY <2>1
  <2> QED BY <1>4, <2>2
<1> QED BY <1>2, <1>3, <1>5, QuietKeepsOrder

LEMMA SaveKeepsOrder ==
  ASSUME IInv, CountedInOrder, NEW x \in saves, SaveLands(x)
  PROVE  CountedInOrder'
<1>1. /\ stateFile' = [kind |-> "saved", completed |-> x.completed, dir |-> x.dir]
      /\ saves' = saves \ {x}
      /\ UNCHANGED <<completed, hasher, rpc>>
  BY DEF SaveLands, memory
<1>2. stateFile'.completed = x.completed
  BY <1>1
<1> QED BY <1>1, <1>2, QuietKeepsOrder

LEMMA OrderStep ==
  ASSUME IInv, CountedInOrder, [Next]_vars
  PROVE  CountedInOrder'
<1>1. ASSUME NEW s \in Attempts, Sender(s) \/ Handler(s) PROVE CountedInOrder'
  <2>1. QuietStep(s) \/ OpenResume(s) \/ OpenFresh(s) \/ RecvChunk(s)
    BY <1>1 DEF Sender, Handler, QuietStep
  <2> QED BY <2>1, QuietSteps, OpenResumeKeepsOrder, OpenFreshKeepsOrder, RecvChunkKeepsOrder
<1>2. ASSUME NEW s \in Attempts,
             Start(s) \/ CancelSend(s) \/ Reject(s) \/ WriteLands(s) \/ Cut(s)
      PROVE  CountedInOrder'
  <2>1. QuietStep(s)
    BY <1>2 DEF QuietStep
  <2> QED BY <2>1, QuietSteps
<1>3. ASSUME NEW x \in saves, SaveLands(x) PROVE CountedInOrder'
  BY <1>3, SaveKeepsOrder
<1>4. ASSUME Crash PROVE CountedInOrder'
  BY <1>4, CrashKeepsOrder
<1>5. ASSUME UNCHANGED vars PROVE CountedInOrder'
  <2>1. UNCHANGED <<completed, hasher, saves, stateFile, rpc>>
    BY <1>5 DEF vars, memory, disk
  <2> QED BY <2>1, QuietKeepsOrder
<1> QED BY <1>1, <1>2, <1>3, <1>4, <1>5 DEF Next, AllEnded

LEMMA OrderStart ==
  ASSUME Init
  PROVE  CountedInOrder
<1>1. stateFile = Absent /\ saves = {} /\ \A s \in Attempts : rpc[s] = "none"
  BY DEF Init
<1>2. SavesInOrder
  BY <1>1, AbsentInOrder DEF SavesInOrder
<1>3. MemoryInOrder
  BY <1>1 DEF MemoryInOrder, Counted
<1> QED BY <1>2, <1>3 DEF CountedInOrder

(* The chunk about to be read is the first one the receiver lacks, however *)
(* many saves landed late, were torn or were lost before (OnAccepted,      *)
(* OpenResume, RecvChunk).                                                 *)
THEOREM ResumesWhereItStopped ==
  ASSUME Exclusive
  PROVE  Spec => []NextChunkIsFirstMissing
<1>1. Spec => []IInv
  BY Inductive
<1>2. Init => CountedInOrder
  BY OrderStart
<1>3. IInv /\ CountedInOrder /\ [Next]_vars => CountedInOrder'
  BY OrderStep
<1>4. IInv /\ CountedInOrder => NextChunkIsFirstMissing
  BY NextChunkFollows DEF NextChunkIsFirstMissing, CountedInOrder
<1> QED BY <1>1, <1>2, <1>3, <1>4, PTL DEF Spec

-----------------------------------------------------------------------------
(* LanTransfer implements FileDelivery. *)

(* A handler that renamed the file only goes on to its end.                *)
RenamedOnce == \A s \in saved : rpc[s] \in {"renamed", "ack", "record", "closed"}

LEMMA RenamedOnceStep ==
  ASSUME TypeOK, RenamedOnce, [Next]_vars
  PROVE  RenamedOnce'
<1> USE DEF sender, network, memory, disk, outcome, faults, Goto, RGoto, RenamedOnce
<1>0. rpc \in [Attempts -> ReceiverPC] /\ saved \subseteq Attempts /\ RenamedOnce
  BY DEF TypeOK
<1>1. ASSUME NEW s \in Attempts, Start(s) PROVE RenamedOnce'
  BY <1>0, <1>1 DEF Start
<1>2. ASSUME NEW s \in Attempts, OnAccepted(s) PROVE RenamedOnce'
  BY <1>0, <1>2 DEF OnAccepted
<1>3. ASSUME NEW s \in Attempts, OnRejected(s) PROVE RenamedOnce'
  BY <1>0, <1>3 DEF OnRejected
<1>4. ASSUME NEW s \in Attempts, SendChunk(s) PROVE RenamedOnce'
  BY <1>0, <1>4 DEF SendChunk
<1>5. ASSUME NEW s \in Attempts, SendComplete(s) PROVE RenamedOnce'
  BY <1>0, <1>5 DEF SendComplete
<1>6. ASSUME NEW s \in Attempts, CancelSend(s) PROVE RenamedOnce'
  BY <1>0, <1>6 DEF CancelSend
<1>7. ASSUME NEW s \in Attempts, OnAck(s) PROVE RenamedOnce'
  BY <1>0, <1>7 DEF OnAck
<1>8. ASSUME NEW s \in Attempts, SenderFails(s) PROVE RenamedOnce'
  BY <1>0, <1>8 DEF SenderFails
<1>9. ASSUME NEW s \in Attempts, Accept(s) PROVE RenamedOnce'
  BY <1>0, <1>9 DEF Accept
<1>10. ASSUME NEW s \in Attempts, Reject(s) PROVE RenamedOnce'
  BY <1>0, <1>10 DEF Reject
<1>11. ASSUME NEW s \in Attempts, RequestLost(s) PROVE RenamedOnce'
  BY <1>0, <1>11 DEF RequestLost
<1>12. ASSUME NEW s \in Attempts, OpenResume(s) PROVE RenamedOnce'
  BY <1>0, <1>12 DEF OpenResume
<1>13. ASSUME NEW s \in Attempts, OpenFresh(s) PROVE RenamedOnce'
  BY <1>0, <1>13 DEF OpenFresh
<1>14. ASSUME NEW s \in Attempts, CreateTemp(s) PROVE RenamedOnce'
  BY <1>0, <1>14 DEF CreateTemp
<1>15. ASSUME NEW s \in Attempts, Respond(s) PROVE RenamedOnce'
  BY <1>0, <1>15 DEF Respond
<1>16. ASSUME NEW s \in Attempts, RespondFails(s) PROVE RenamedOnce'
  BY <1>0, <1>16 DEF RespondFails
<1>17. ASSUME NEW s \in Attempts, RecvChunk(s) PROVE RenamedOnce'
  BY <1>0, <1>17 DEF RecvChunk
<1>18. ASSUME NEW s \in Attempts, VerifyMatches(s) PROVE RenamedOnce'
  BY <1>0, <1>18 DEF VerifyMatches
<1>19. ASSUME NEW s \in Attempts, VerifyMismatches(s) PROVE RenamedOnce'
  BY <1>0, <1>19 DEF VerifyMismatches
<1>20. ASSUME NEW s \in Attempts, Rename(s) PROVE RenamedOnce'
  BY <1>0, <1>20 DEF Rename
<1>21. ASSUME NEW s \in Attempts, RenameFails(s) PROVE RenamedOnce'
  BY <1>0, <1>21 DEF RenameFails
<1>22. ASSUME NEW s \in Attempts, RemoveState(s) PROVE RenamedOnce'
  BY <1>0, <1>22 DEF RemoveState
<1>23. ASSUME NEW s \in Attempts, Ack(s) PROVE RenamedOnce'
  BY <1>0, <1>23 DEF Ack
<1>24. ASSUME NEW s \in Attempts, AckFails(s) PROVE RenamedOnce'
  BY <1>0, <1>24 DEF AckFails
<1>25. ASSUME NEW s \in Attempts, Record(s) PROVE RenamedOnce'
  BY <1>0, <1>25 DEF Record
<1>26. ASSUME NEW s \in Attempts, RecvFails(s) PROVE RenamedOnce'
  BY <1>0, <1>26 DEF RecvFails
<1>27. ASSUME NEW s \in Attempts, Report(s) PROVE RenamedOnce'
  BY <1>0, <1>27 DEF Report
<1>28. ASSUME NEW s \in Attempts, CleanupTemp(s) PROVE RenamedOnce'
  BY <1>0, <1>28 DEF CleanupTemp
<1>29. ASSUME NEW s \in Attempts, WriteLands(s) PROVE RenamedOnce'
  BY <1>0, <1>29 DEF WriteLands
<1>30. ASSUME NEW s \in Attempts, Cut(s) PROVE RenamedOnce'
  BY <1>0, <1>30 DEF Cut
<1>31. ASSUME NEW x \in saves, SaveLands(x) PROVE RenamedOnce'
  BY <1>0, <1>31 DEF SaveLands
<1>32. ASSUME Crash PROVE RenamedOnce'
  BY <1>0, <1>32 DEF Crash, HandlerLive
<1>33. ASSUME UNCHANGED vars PROVE RenamedOnce'
  BY <1>0, <1>33 DEF vars
<1> QED
  BY <1>1, <1>2, <1>3, <1>4, <1>5, <1>6, <1>7, <1>8, <1>9, <1>10,
     <1>11, <1>12, <1>13, <1>14, <1>15, <1>16, <1>17, <1>18, <1>19, <1>20,
     <1>21, <1>22, <1>23, <1>24, <1>25, <1>26, <1>27, <1>28, <1>29, <1>30,
     <1>31, <1>32, <1>33
     DEF Next, Sender, Handler, AllEnded

(* What FileDelivery sees of a state.                                      *)
Started   == {s \in Attempts : pc[s] # "idle"}
Confirmed == {s \in Attempts : pc[s] = "done"}
Place     == [d \in Dirs |-> IF destLink[d] = None THEN None ELSE blocks[destLink[d]]]

LEMMA Seen ==
  /\ Delivery!Init <=>
        (Started = {} /\ Place = [d \in Dirs |-> None] /\ saved = {} /\ Confirmed = {})
  /\ UNCHANGED Delivery!vars <=> UNCHANGED <<file, Started, Place, saved, Confirmed>>
  BY DEF Delivery!Init, Delivery!vars, Started, Place, Confirmed

(* Writing, truncating and creating an inode touches no finished file.     *)
FinishedKept == \A d \in Dirs : destLink[d] # None => blocks'[destLink[d]] = blocks[destLink[d]]

LEMMA KeptPlace ==
  ASSUME FinishedKept, destLink' = destLink
  PROVE  Place' = Place
  BY DEF FinishedKept, Place

LEMMA FlushKeeps ==
  ASSUME IInv, NEW s \in Attempts, blocks' = Flushed(s)
  PROVE  FinishedKept
<1>1. /\ blocks \in [Attempts -> Content]
      /\ destLink \in [Dirs -> Attempts \cup {None}]
  BY DEF IInv, TypeOK
<1>2. CASE inflight[s] = <<>>
  BY <1>2 DEF Flushed, FinishedKept
<1>3. CASE inflight[s] # <<>>
  <2>1. handle[s] \in Attempts /\ \A d \in Dirs : destLink[d] # handle[s]
    BY <1>3 DEF IInv, LateWritesHarmless
  <2>2. \A t \in Attempts : t # handle[s] => blocks'[t] = blocks[t]
    BY <1>1, <1>3, <2>1 DEF Flushed
  <2> QED BY <1>1, <2>1, <2>2 DEF FinishedKept
<1> QED BY <1>2, <1>3

LEMMA CreateKeeps ==
  ASSUME IInv, NEW s \in Attempts, CreateTemp(s)
  PROVE  FinishedKept
<1>1. /\ blocks \in [Attempts -> Content]
      /\ destLink \in [Dirs -> Attempts \cup {None}]
      /\ tempLink \in Attempts \cup {None}
  BY DEF IInv, TypeOK
<1>2. rpc[s] = "create"
  BY DEF CreateTemp, RGoto
<1>3. \A d \in Dirs : destLink[d] # s
  BY <1>2 DEF IInv, InodesFresh, Unopened
<1>4. \A d \in Dirs : destLink[d] # None => destLink[d] # tempLink
  BY DEF IInv, TempIsUnfinished
<1>5. PICK inode \in Attempts : /\ inode \in {s, tempLink}
                               /\ blocks' = [blocks EXCEPT ![inode] = Empty]
  BY <1>1 DEF CreateTemp
<1> QED BY <1>1, <1>3, <1>4, <1>5 DEF FinishedKept

(* A first attempt step is Offer, the rename Deliver, the ack Confirm.     *)
LEMMA StartOffers ==
  ASSUME IInv, NEW s \in Attempts, Start(s)
  PROVE  Delivery!Offer(s)
<1>1. /\ pc[s] = "idle" /\ pc' = [pc EXCEPT ![s] = "waitResponse"]
      /\ UNCHANGED <<file, blocks, destLink, saved>>
  BY DEF Start, Goto, disk, outcome
<1>2. pc \in [Attempts -> SenderPC]
  BY DEF IInv, TypeOK
<1>3. Started' = Started \cup {s} /\ s \notin Started /\ Confirmed' = Confirmed
  BY <1>1, <1>2 DEF Started, Confirmed
<1>4. Place' = Place
  BY <1>1 DEF Place
<1> QED BY <1>1, <1>3, <1>4 DEF Delivery!Offer, Started, Place, Confirmed

LEMMA RenameDelivers ==
  ASSUME IInv, RenamedOnce, NEW s \in Attempts, Rename(s),
         NEW d \in Dirs, d = saveDir[s]
  PROVE  Delivery!Deliver(s, d)
<1>1. /\ rpc[s] = "rename" /\ tempLink # None
      /\ destLink' = [destLink EXCEPT ![d] = tempLink]
      /\ saved' = saved \cup {s}
      /\ UNCHANGED <<file, pc, blocks>>
  BY DEF Rename, RGoto, sender
<1>2. /\ destLink \in [Dirs -> Attempts \cup {None}]
      /\ tempLink \in Attempts \cup {None}
  BY DEF IInv, TypeOK
<1>3. s \in Started \ saved
  <2>1. pc[s] # "idle"
    BY <1>1 DEF IInv, QuietBeforeResponse
  <2>2. s \notin saved
    BY <1>1 DEF RenamedOnce
  <2> QED BY <2>1, <2>2 DEF Started
<1>4. blocks[tempLink] = file[s]
  <2>1. handle[s] = tempLink
    BY <1>1 DEF IInv, HeldIsTemp, Held
  <2>2. blocks[handle[s]] = file[s]
    BY <1>1 DEF IInv, HasherTracksDisk
  <2> QED BY <2>1, <2>2
<1>5. Place' = [Place EXCEPT ![d] = file[s]]
  BY <1>1, <1>2, <1>4 DEF Place
<1>6. Started' = Started /\ Confirmed' = Confirmed
  BY <1>1 DEF Started, Confirmed
<1> QED BY <1>1, <1>2, <1>3, <1>5, <1>6 DEF Delivery!Deliver, Started, Place, Confirmed

LEMMA AckConfirms ==
  ASSUME IInv, IInv', NEW s \in Attempts, OnAck(s)
  PROVE  Delivery!Confirm(s) \/ UNCHANGED Delivery!vars
<1>1. /\ pc[s] = "waitAck" /\ pc' = [pc EXCEPT ![s] = pc'[s]]
      /\ pc'[s] \in {"failed", "done"}
      /\ UNCHANGED <<file, blocks, destLink, saved>>
  BY DEF OnAck, Goto, disk, outcome, IInv, TypeOK
<1>2. pc \in [Attempts -> SenderPC]
  BY DEF IInv, TypeOK
<1>3. Started' = Started /\ s \notin Confirmed
  BY <1>1, <1>2 DEF Started, Confirmed
<1>4. Place' = Place
  BY <1>1 DEF Place
<1>5. CASE pc'[s] = "failed"
  <2>1. Confirmed' = Confirmed
    BY <1>1, <1>2, <1>5 DEF Confirmed
  <2> QED BY <1>1, <1>3, <1>4, <2>1, Seen
<1>6. CASE pc'[s] = "done"
  <2>1. Confirmed' = Confirmed \cup {s}
    BY <1>1, <1>2, <1>6 DEF Confirmed
  <2>2. s \in saved
    BY <1>1, <1>6 DEF IInv, SenderDoneMeansSaved
  <2> QED BY <1>1, <1>3, <1>4, <2>1, <2>2 DEF Delivery!Confirm, Started, Place, Confirmed
<1> QED BY <1>1, <1>5, <1>6

(* Every other step is one FileDelivery does not see.                      *)
InnerStep(s) ==
  \/ OnAccepted(s) \/ OnRejected(s) \/ SendChunk(s) \/ SendComplete(s) \/ CancelSend(s) \/ SenderFails(s)
  \/ Accept(s) \/ Reject(s) \/ RequestLost(s) \/ OpenResume(s) \/ OpenFresh(s) \/ CreateTemp(s)
  \/ Respond(s) \/ RespondFails(s) \/ RecvChunk(s) \/ VerifyMatches(s) \/ VerifyMismatches(s) \/ RenameFails(s)
  \/ RemoveState(s) \/ Ack(s) \/ AckFails(s) \/ Record(s) \/ RecvFails(s) \/ Report(s)
  \/ CleanupTemp(s) \/ WriteLands(s) \/ Cut(s)

LEMMA InnerStutters ==
  ASSUME IInv, NEW s \in Attempts, InnerStep(s)
  PROVE  UNCHANGED Delivery!vars
<1> USE DEF sender, network, memory, disk, outcome, faults, Goto
<1> DEFINE Same == UNCHANGED <<file, destLink, saved, Started, Confirmed>> /\ FinishedKept
<1>0. pc \in [Attempts -> SenderPC]
  BY DEF IInv, TypeOK
<1> USE DEF Started, Confirmed
<1>1. ASSUME OnAccepted(s) PROVE Same
  BY <1>0, <1>1 DEF OnAccepted, FinishedKept
<1>2. ASSUME OnRejected(s) PROVE Same
  BY <1>0, <1>2 DEF OnRejected, FinishedKept
<1>3. ASSUME SendChunk(s) PROVE Same
  BY <1>0, <1>3 DEF SendChunk, FinishedKept
<1>4. ASSUME SendComplete(s) PROVE Same
  BY <1>0, <1>4 DEF SendComplete, FinishedKept
<1>5. ASSUME CancelSend(s) PROVE Same
  BY <1>0, <1>5 DEF CancelSend, FinishedKept
<1>6. ASSUME SenderFails(s) PROVE Same
  BY <1>0, <1>6 DEF SenderFails, FinishedKept
<1>7. ASSUME Accept(s) PROVE Same
  BY <1>0, <1>7 DEF Accept, FinishedKept
<1>8. ASSUME Reject(s) PROVE Same
  BY <1>0, <1>8 DEF Reject, FinishedKept
<1>9. ASSUME RequestLost(s) PROVE Same
  BY <1>0, <1>9 DEF RequestLost, FinishedKept
<1>10. ASSUME OpenResume(s) PROVE Same
  BY <1>0, <1>10 DEF OpenResume, FinishedKept
<1>11. ASSUME OpenFresh(s) PROVE Same
  BY <1>0, <1>11 DEF OpenFresh, FinishedKept
<1>12. ASSUME CreateTemp(s) PROVE Same
  BY <1>0, <1>12, CreateKeeps DEF CreateTemp
<1>13. ASSUME Respond(s) PROVE Same
  BY <1>0, <1>13 DEF Respond, FinishedKept
<1>14. ASSUME RespondFails(s) PROVE Same
  BY <1>0, <1>14 DEF RespondFails, FinishedKept
<1>15. ASSUME RecvChunk(s) PROVE Same
  BY <1>0, <1>15, FlushKeeps DEF RecvChunk
<1>16. ASSUME VerifyMatches(s) PROVE Same
  BY <1>0, <1>16, FlushKeeps DEF VerifyMatches
<1>17. ASSUME VerifyMismatches(s) PROVE Same
  BY <1>0, <1>17, FlushKeeps DEF VerifyMismatches
<1>18. ASSUME RenameFails(s) PROVE Same
  BY <1>0, <1>18 DEF RenameFails, FinishedKept
<1>19. ASSUME RemoveState(s) PROVE Same
  BY <1>0, <1>19 DEF RemoveState, FinishedKept
<1>20. ASSUME Ack(s) PROVE Same
  BY <1>0, <1>20 DEF Ack, FinishedKept
<1>21. ASSUME AckFails(s) PROVE Same
  BY <1>0, <1>21 DEF AckFails, FinishedKept
<1>22. ASSUME Record(s) PROVE Same
  BY <1>0, <1>22 DEF Record, FinishedKept
<1>23. ASSUME RecvFails(s) PROVE Same
  BY <1>0, <1>23 DEF RecvFails, FinishedKept
<1>24. ASSUME Report(s) PROVE Same
  BY <1>0, <1>24 DEF Report, FinishedKept
<1>25. ASSUME CleanupTemp(s) PROVE Same
  BY <1>0, <1>25 DEF CleanupTemp, FinishedKept
<1>26. ASSUME WriteLands(s) PROVE Same
  BY <1>0, <1>26, FlushKeeps DEF WriteLands
<1>27. ASSUME Cut(s) PROVE Same
  BY <1>0, <1>27 DEF Cut, FinishedKept
<1>28. Same
  BY <1>1, <1>2, <1>3, <1>4, <1>5, <1>6, <1>7, <1>8, <1>9, <1>10,
     <1>11, <1>12, <1>13, <1>14, <1>15, <1>16, <1>17, <1>18, <1>19, <1>20,
     <1>21, <1>22, <1>23, <1>24, <1>25, <1>26, <1>27 DEF InnerStep
<1> HIDE DEF Started, Confirmed
<1> QED BY <1>28, KeptPlace, Seen

LEMMA StepIsDelivery ==
  ASSUME IInv, IInv', RenamedOnce, [Next]_vars
  PROVE  [Delivery!Next]_Delivery!vars
<1>1. ASSUME NEW s \in Attempts, Start(s) PROVE Delivery!Next
  BY <1>1, StartOffers DEF Delivery!Next
<1>2. ASSUME NEW s \in Attempts, Rename(s) PROVE Delivery!Next
  <2>1. PICK d \in Dirs : d = saveDir[s]
    BY DEF IInv, TypeOK
  <2>2. Delivery!Deliver(s, d)
    BY <1>2, <2>1, RenameDelivers
  <2> QED BY <2>2 DEF Delivery!Next
<1>3. ASSUME NEW s \in Attempts, OnAck(s) PROVE Delivery!Next \/ UNCHANGED Delivery!vars
  BY <1>3, AckConfirms DEF Delivery!Next
<1>4. ASSUME NEW s \in Attempts, InnerStep(s) PROVE UNCHANGED Delivery!vars
  BY <1>4, InnerStutters
<1>5. ASSUME \/ \E x \in saves : SaveLands(x)
             \/ Crash
             \/ UNCHANGED vars
      PROVE  UNCHANGED Delivery!vars
  <2>1. UNCHANGED <<file, pc, blocks, destLink, saved>>
    BY <1>5 DEF SaveLands, Crash, vars, sender, disk, outcome
  <2>2. UNCHANGED <<file, Started, Place, saved, Confirmed>>
    BY <2>1 DEF Started, Place, Confirmed
  <2> QED BY <2>2, Seen
<1>6. ASSUME NEW s \in Attempts,
             \/ Start(s) \/ Sender(s) \/ CancelSend(s) \/ Reject(s)
             \/ Handler(s) \/ WriteLands(s) \/ Cut(s)
      PROVE  Start(s) \/ Rename(s) \/ OnAck(s) \/ InnerStep(s)
  BY <1>6 DEF Sender, Handler, InnerStep
<1> QED BY <1>1, <1>2, <1>3, <1>4, <1>5, <1>6 DEF Next, AllEnded

(* The detailed transfer keeps the promise of FileDelivery: a directory    *)
(* gets whole files only, each attempt delivers once, and a sender takes   *)
(* an attempt for completed only after its delivery.                       *)
THEOREM KeepsThePromise ==
  ASSUME Exclusive
  PROVE  Spec => ImplementsDelivery
<1>1. Spec => []IInv
  BY Inductive
<1>2. Init => RenamedOnce
  BY DEF Init, RenamedOnce
<1>3. IInv /\ RenamedOnce /\ [Next]_vars => RenamedOnce'
  BY RenamedOnceStep DEF IInv
<1>4. Init => Delivery!Init
  <2>1. ASSUME Init PROVE Started = {} /\ Confirmed = {} /\ Place = [d \in Dirs |-> None] /\ saved = {}
    BY <2>1 DEF Init, Started, Confirmed, Place
  <2> QED BY <2>1, Seen
<1>5. IInv /\ IInv' /\ RenamedOnce /\ [Next]_vars => [Delivery!Next]_Delivery!vars
  BY StepIsDelivery
<1> QED BY <1>1, <1>2, <1>3, <1>4, <1>5, PTL DEF Spec, ImplementsDelivery, Delivery!Spec

=============================================================================
