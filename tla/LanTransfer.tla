---------------------------- MODULE LanTransfer ----------------------------
(***************************************************************************)
(* One file sent over the LAN path, as many times as the user tries: the   *)
(* sender's do_send_file against the receiver's handle_transfer_request,   *)
(* FileReceiver and TransferState.  All the attempts carry the same        *)
(* file_id, which hashes only the file name and the size, so they meet in  *)
(* one temp file temp/<id>.tmp and one state file transfers/<id>.json.     *)
(*                                                                         *)
(* Chunk i of the model is chunk_index i-1 of the code.  A file is the     *)
(* sequence of its chunks and stands for its own SHA-256.  An inode is     *)
(* named by the attempt that created it.                                   *)
(***************************************************************************)
EXTENDS Naturals, Sequences, FiniteSets

CONSTANTS
  Attempts,    \* the attempts to send the file, each by one connection
  N,           \* total_chunks
  Data,        \* what a chunk can hold
  Blank,       \* what set_len leaves in a chunk nothing was written to
  Files,       \* the contents the sender's file may have at an attempt
  Dirs,        \* download directories
  None,        \* no link, no inode
  SaveEvery,   \* write_chunk_raw saves the state every 32 chunks
  Exclusive,   \* the user starts an attempt only when none is in progress
  MaxCuts,     \* bound: connections the network breaks
  MaxCrashes,  \* bound: crashes of the receiving process
  Window       \* bound: chunks under way in one connection

Chunk   == 1..N
Content == [Chunk -> Data \cup {Blank}]

ASSUME ConstantsOK ==
  /\ N \in Nat
  /\ SaveEvery \in Nat \ {0}
  /\ Files \subseteq [Chunk -> Data]
  /\ Blank \notin Data
  /\ Dirs # {}
  /\ None \notin Attempts
  /\ Exclusive \in BOOLEAN
  /\ MaxCuts \in Nat /\ MaxCrashes \in Nat /\ Window \in Nat \ {0}

VARIABLES
  file,       \* what the sender's file holds at each attempt
  dir,        \* the receiver's download_dir at each attempt
  pc,         \* where do_send_file is
  next,       \* the sender's chunk_index
  rpc,        \* where handle_transfer_request is
  toRcv,      \* messages on their way to the receiver
  toSnd,      \* messages on their way to the sender
  down,       \* the connection is closed or broken
  handle,     \* FileReceiver.temp_file: the inode it has open
  completed,  \* FileReceiver.state.completed_chunks
  saveDir,    \* FileReceiver.state.file_path, its directory
  resume,     \* FileReceiver.resume_from_chunk
  hasher,     \* FileReceiver.hasher: the chunks fed to it
  left,       \* rounds left of the receive loop
  inflight,   \* the write tokio's File has accepted and not performed
  blocks,     \* disk: the chunks each inode holds
  tempLink,   \* disk: the inode temp/<id>.tmp names
  destLink,   \* disk: the inode the finished file of a directory names
  stateFile,  \* disk: transfers/<id>.json
  saves,      \* spawned saves of the state that have not run yet
  saved,      \* attempts whose finalize renamed the temp file
  history,    \* attempts with a "receive completed" record
  cuts, crashes

sender   == <<file, dir, pc, next>>
network  == <<toRcv, toSnd, down>>
memory   == <<handle, completed, saveDir, resume, hasher, left, inflight>>
disk     == <<blocks, tempLink, destLink, stateFile, saves>>
outcome  == <<saved, history>>
faults   == <<cuts, crashes>>
vars     == <<sender, rpc, network, memory, disk, outcome, faults>>

-----------------------------------------------------------------------------
SenderPC   == {"idle", "waitResponse", "sending", "waitAck",
               "done", "failed", "cancelled"}
ReceiverPC == {"none", "request", "open", "create", "respond", "recv",
               "mismatch", "report", "unlink", "unstate",
               "rename", "renamed", "ack", "record", "closed"}

Snapshot == [by : Attempts, completed : SUBSET Chunk, dir : Dirs]
ToRcvMsg == [type : {"chunk"}, index : Chunk, data : Data]
            \cup [type : {"complete"}, hash : [Chunk -> Data]]
ToSndMsg == [type : {"response"}, accepted : BOOLEAN, resume : 0..N]
            \cup [type : {"complete", "error"}]

(* Types.  completed_chunks and the resume point stay within the file.     *)
TypeOK ==
  /\ file \in [Attempts -> Files]
  /\ dir \in [Attempts -> Dirs]
  /\ pc \in [Attempts -> SenderPC]
  /\ next \in [Attempts -> 1..N + 1]
  /\ rpc \in [Attempts -> ReceiverPC]
  /\ toRcv \in [Attempts -> Seq(ToRcvMsg)]
  /\ toSnd \in [Attempts -> Seq(ToSndMsg)]
  /\ down \in [Attempts -> BOOLEAN]
  /\ handle \in [Attempts -> Attempts \cup {None}]
  /\ completed \in [Attempts -> SUBSET Chunk]
  /\ saveDir \in [Attempts -> Dirs]
  /\ resume \in [Attempts -> 0..N]
  /\ hasher \in [Attempts -> Seq(Data \cup {Blank})]
  /\ left \in [Attempts -> 0..N]
  /\ inflight \in [Attempts -> Seq([index : Chunk, data : Data])]
  /\ blocks \in [Attempts -> Content]
  /\ tempLink \in Attempts \cup {None}
  /\ destLink \in [Dirs -> Attempts \cup {None}]
  /\ stateFile \in [kind : {"absent", "torn", "saved"},
                    completed : SUBSET Chunk, dir : Dirs]
  /\ saves \subseteq Snapshot
  /\ saved \subseteq Attempts
  /\ history \subseteq Attempts
  /\ cuts \in 0..MaxCuts
  /\ crashes \in 0..MaxCrashes

Absent == [kind |-> "absent", completed |-> {},
           dir |-> CHOOSE d \in Dirs : TRUE]
Empty  == [i \in Chunk |-> Blank]

Init ==
  /\ file \in [Attempts -> Files]
  /\ dir \in [Attempts -> Dirs]
  /\ pc = [s \in Attempts |-> "idle"]
  /\ next = [s \in Attempts |-> 1]
  /\ rpc = [s \in Attempts |-> "none"]
  /\ toRcv = [s \in Attempts |-> <<>>]
  /\ toSnd = [s \in Attempts |-> <<>>]
  /\ down = [s \in Attempts |-> TRUE]
  /\ handle = [s \in Attempts |-> None]
  /\ completed = [s \in Attempts |-> {}]
  /\ saveDir = dir
  /\ resume = [s \in Attempts |-> 0]
  /\ hasher = [s \in Attempts |-> <<>>]
  /\ left = [s \in Attempts |-> 0]
  /\ inflight = [s \in Attempts |-> <<>>]
  /\ blocks = [s \in Attempts |-> Empty]
  /\ tempLink = None
  /\ destLink = [d \in Dirs |-> None]
  /\ stateFile = Absent
  /\ saves = {}
  /\ saved = {}
  /\ history = {}
  /\ cuts = 0
  /\ crashes = 0

SenderBusy(s)  == pc[s] \in {"waitResponse", "sending", "waitAck"}
HandlerLive(s) == rpc[s] \notin {"none", "closed"}
Ended(s)       == pc[s] \in {"done", "failed", "cancelled"} /\ ~HandlerLive(s)

Goto(s, from, to)  == pc[s] = from /\ pc' = [pc EXCEPT ![s] = to]
RGoto(s, from, to) == rpc[s] = from /\ rpc' = [rpc EXCEPT ![s] = to]
HangUp(s)          == down' = [down EXCEPT ![s] = TRUE]
Reply(s, m)        == toSnd' = [toSnd EXCEPT ![s] = Append(@, m)]

(* The blocks once the write tokio still holds for s is performed.         *)
Flushed(s) ==
  IF inflight[s] = <<>> THEN blocks
  ELSE LET w == Head(inflight[s])
       IN  [blocks EXCEPT ![handle[s]] = [@ EXCEPT ![w.index] = w.data]]

-----------------------------------------------------------------------------
(* The sender: do_send_file.                                               *)

(* Connect and write TransferRequest.                                      *)
Start(s) ==
  /\ Goto(s, "idle", "waitResponse")
  /\ Exclusive => \A t \in Attempts : ~SenderBusy(t) /\ ~HandlerLive(t)
  /\ down' = [down EXCEPT ![s] = FALSE]
  /\ RGoto(s, "none", "request")
  /\ UNCHANGED <<file, dir, next, toRcv, toSnd, memory, disk, outcome, faults>>

(* Mutant: the resume point taken for the last chunk to send again.        *)
OnAcceptedOverlapping(s) ==
  /\ toSnd[s] # <<>> /\ Head(toSnd[s]).type = "response" /\ Head(toSnd[s]).accepted
  /\ Goto(s, "waitResponse", "sending")
  /\ next' = [next EXCEPT ![s] =
       IF Head(toSnd[s]).resume = 0 THEN 1 ELSE Head(toSnd[s]).resume]
  /\ toSnd' = [toSnd EXCEPT ![s] = Tail(@)]
  /\ UNCHANGED <<file, dir, rpc, toRcv, down, memory, disk, outcome, faults>>

OnAccepted(s) ==
  /\ toSnd[s] # <<>> /\ Head(toSnd[s]).type = "response" /\ Head(toSnd[s]).accepted
  /\ Goto(s, "waitResponse", "sending")
  /\ next' = [next EXCEPT ![s] = Head(toSnd[s]).resume + 1]
  /\ toSnd' = [toSnd EXCEPT ![s] = Tail(@)]
  /\ UNCHANGED <<file, dir, rpc, toRcv, down, memory, disk, outcome, faults>>

OnRejected(s) ==
  /\ toSnd[s] # <<>> /\ Head(toSnd[s]).type = "response" /\ ~Head(toSnd[s]).accepted
  /\ Goto(s, "waitResponse", "failed")
  /\ toSnd' = [toSnd EXCEPT ![s] = Tail(@)]
  /\ HangUp(s)
  /\ UNCHANGED <<file, dir, next, rpc, toRcv, memory, disk, outcome, faults>>

(* One round of the chunk loop: read, hash, write to the socket.           *)
SendChunk(s) ==
  /\ pc[s] = "sending" /\ next[s] <= N
  /\ ~down[s] /\ Len(toRcv[s]) < Window
  /\ toRcv' = [toRcv EXCEPT ![s] =
       Append(@, [type |-> "chunk", index |-> next[s], data |-> file[s][next[s]]])]
  /\ next' = [next EXCEPT ![s] = @ + 1]
  /\ UNCHANGED <<file, dir, pc, rpc, toSnd, down, memory, disk, outcome, faults>>

(* The hash covers the whole file: the chunks a resumed transfer skips are *)
(* read and hashed as well.                                                *)
SendComplete(s) ==
  /\ next[s] = N + 1
  /\ ~down[s]
  /\ Goto(s, "sending", "waitAck")
  /\ toRcv' = [toRcv EXCEPT ![s] =
                 Append(@, [type |-> "complete", hash |-> file[s]])]
  /\ UNCHANGED <<file, dir, next, rpc, toSnd, down, memory, disk, outcome, faults>>

(* The loop finds the id in `cancelled` and returns.                       *)
CancelSend(s) ==
  /\ next[s] <= N
  /\ Goto(s, "sending", "cancelled")
  /\ HangUp(s)
  /\ UNCHANGED <<file, dir, next, rpc, toRcv, toSnd, memory, disk, outcome, faults>>

(* Mutant: any answer is taken for the ack.                                *)
OnAckAny(s) ==
  /\ pc[s] = "waitAck" /\ toSnd[s] # <<>>
  /\ Goto(s, "waitAck", "done")
  /\ toSnd' = [toSnd EXCEPT ![s] = Tail(@)]
  /\ HangUp(s)
  /\ UNCHANGED <<file, dir, next, rpc, toRcv, memory, disk, outcome, faults>>

OnAck(s) ==
  /\ pc[s] = "waitAck" /\ toSnd[s] # <<>>
  /\ Goto(s, "waitAck", IF Head(toSnd[s]).type = "error" THEN "failed" ELSE "done")
  /\ toSnd' = [toSnd EXCEPT ![s] = Tail(@)]
  /\ HangUp(s)
  /\ UNCHANGED <<file, dir, next, rpc, toRcv, memory, disk, outcome, faults>>

(* Mutant: nobody looks for the end of the stream while waiting.           *)
SenderFailsWriting(s) ==
  /\ down[s] /\ Goto(s, "sending", "failed")
  /\ UNCHANGED <<file, dir, next, rpc, network, memory, disk, outcome, faults>>

(* A socket write fails, or a read meets the end of the stream.            *)
SenderFails(s) ==
  /\ down[s]
  /\ pc[s] = "sending" \/ (pc[s] \in {"waitResponse", "waitAck"} /\ toSnd[s] = <<>>)
  /\ pc' = [pc EXCEPT ![s] = "failed"]
  /\ UNCHANGED <<file, dir, next, rpc, network, memory, disk, outcome, faults>>

Sender(s) ==
  \/ OnAccepted(s) \/ OnRejected(s) \/ SendChunk(s) \/ SendComplete(s) \/ OnAck(s) \/ SenderFails(s)

-----------------------------------------------------------------------------
(* The receiver: handle_transfer_request up to the response.               *)

(* require_confirmation and the user's answer, or none required.           *)
Accept(s) ==
  /\ RGoto(s, "request", "open")
  /\ UNCHANGED <<sender, network, memory, disk, outcome, faults>>

Reject(s) ==
  /\ RGoto(s, "request", "closed")
  /\ Reply(s, [type |-> "response", accepted |-> FALSE, resume |-> 0])
  /\ HangUp(s)
  /\ UNCHANGED <<sender, toRcv, memory, disk, outcome, faults>>

(* The connection ends before the request is read.                         *)
RequestLost(s) ==
  /\ down[s]
  /\ RGoto(s, "request", "closed")
  /\ UNCHANGED <<sender, network, memory, disk, outcome, faults>>

Resumable ==
  /\ tempLink # None
  /\ stateFile.kind = "saved"
  /\ Cardinality(stateFile.completed) # N      \* is_complete

(* Mutant: the resume point is not remembered for the response.            *)
OpenResumeUnsaid(s) ==
  LET k == Cardinality(stateFile.completed) IN
  /\ Resumable
  /\ RGoto(s, "open", "respond")
  /\ handle' = [handle EXCEPT ![s] = tempLink]
  /\ completed' = [completed EXCEPT ![s] = stateFile.completed]
  /\ saveDir' = [saveDir EXCEPT ![s] = stateFile.dir]
  /\ hasher' = [hasher EXCEPT ![s] = SubSeq(blocks[tempLink], 1, k)]
  /\ UNCHANGED <<sender, network, resume, left, inflight, disk, outcome, faults>>

(* FileReceiver::new, state and temp file found: reopen the temp file and  *)
(* hash the chunks before the resume point from the disk.                  *)
OpenResume(s) ==
  LET k == Cardinality(stateFile.completed) IN    \* next_expected_chunk
  /\ Resumable
  /\ RGoto(s, "open", "respond")
  /\ handle' = [handle EXCEPT ![s] = tempLink]
  /\ completed' = [completed EXCEPT ![s] = stateFile.completed]
  /\ saveDir' = [saveDir EXCEPT ![s] = stateFile.dir]
  /\ resume' = [resume EXCEPT ![s] = k]
  /\ hasher' = [hasher EXCEPT ![s] = SubSeq(blocks[tempLink], 1, k)]
  /\ UNCHANGED <<sender, network, left, inflight, disk, outcome, faults>>

(* FileReceiver::new, a fresh transfer: the save of the initial state is   *)
(* only spawned.  A save running at this moment may hide a good state file *)
(* from the reader.                                                        *)
OpenFresh(s) ==
  /\ ~Resumable \/ saves # {}
  /\ RGoto(s, "open", "create")
  /\ saves' = saves \cup {[by |-> s, completed |-> {}, dir |-> dir[s]]}
  /\ completed' = [completed EXCEPT ![s] = {}]
  /\ saveDir' = [saveDir EXCEPT ![s] = dir[s]]
  /\ resume' = [resume EXCEPT ![s] = 0]
  /\ hasher' = [hasher EXCEPT ![s] = <<>>]
  /\ UNCHANGED <<sender, network, handle, left, inflight, blocks, tempLink,
                 destLink, stateFile, outcome, faults>>

(* File::create truncates the file temp/<id>.tmp names, or makes one.      *)
CreateTemp(s) ==
  LET inode == IF tempLink = None THEN s ELSE tempLink IN
  /\ RGoto(s, "create", "respond")
  /\ tempLink' = inode
  /\ blocks' = [blocks EXCEPT ![inode] = Empty]
  /\ handle' = [handle EXCEPT ![s] = inode]
  /\ UNCHANGED <<sender, network, completed, saveDir, resume, hasher, left,
                 inflight, destLink, stateFile, saves, outcome, faults>>

(* Mutant: the loop bound is inclusive.                                    *)
RespondInclusive(s) ==
  /\ RGoto(s, "respond", "recv")
  /\ Reply(s, [type |-> "response", accepted |-> TRUE, resume |-> resume[s]])
  /\ left' = [left EXCEPT ![s] = N - resume[s] + 1]
  /\ UNCHANGED <<sender, toRcv, down, handle, completed, saveDir, resume, hasher,
                 inflight, disk, outcome, faults>>

Respond(s) ==
  /\ RGoto(s, "respond", "recv")
  /\ Reply(s, [type |-> "response", accepted |-> TRUE, resume |-> resume[s]])
  /\ left' = [left EXCEPT ![s] = N - resume[s]]
  /\ UNCHANGED <<sender, toRcv, down, handle, completed, saveDir, resume, hasher,
                 inflight, disk, outcome, faults>>

(* The response cannot be written: return, keeping temp and state file.    *)
RespondFails(s) ==
  /\ down[s]
  /\ RGoto(s, "respond", "closed")
  /\ UNCHANGED <<sender, network, memory, disk, outcome, faults>>

-----------------------------------------------------------------------------
(* The receiver: the chunk loop, finalize and cleanup.                     *)

(* write_chunk_raw: the seek waits for the write before, the write itself  *)
(* is left to tokio, and every SaveEvery chunks a save is spawned.         *)
RecvChunk(s) ==
  /\ rpc[s] = "recv" /\ left[s] > 0
  /\ toRcv[s] # <<>> /\ Head(toRcv[s]).type = "chunk"
  /\ LET m    == Head(toRcv[s])
         done == completed[s] \cup {m.index}
     IN  /\ blocks' = Flushed(s)
         /\ inflight' = [inflight EXCEPT ![s] = <<[index |-> m.index, data |-> m.data]>>]
         /\ hasher' = [hasher EXCEPT ![s] = Append(@, m.data)]
         /\ completed' = [completed EXCEPT ![s] = done]
         /\ saves' = IF Cardinality(done) % SaveEvery = 0
                     THEN saves \cup {[by |-> s, completed |-> done, dir |-> saveDir[s]]}
                     ELSE saves
  /\ left' = [left EXCEPT ![s] = @ - 1]
  /\ toRcv' = [toRcv EXCEPT ![s] = Tail(@)]
  /\ UNCHANGED <<sender, rpc, toSnd, down, handle, saveDir, resume, tempLink,
                 destLink, stateFile, outcome, faults>>

(* Mutants: the hash is not compared; the file is not flushed before it is *)
(* moved.                                                                  *)
VerifyAnyHash(s) ==
  /\ rpc[s] = "recv" /\ left[s] = 0
  /\ toRcv[s] # <<>> /\ Head(toRcv[s]).type = "complete"
  /\ RGoto(s, "recv", "rename")
  /\ toRcv' = [toRcv EXCEPT ![s] = Tail(@)]
  /\ blocks' = Flushed(s)
  /\ inflight' = [inflight EXCEPT ![s] = <<>>]
  /\ UNCHANGED <<sender, toSnd, down, handle, completed, saveDir, resume, hasher,
                 left, tempLink, destLink, stateFile, saves, outcome, faults>>

VerifyUnflushed(s) ==
  /\ rpc[s] = "recv" /\ left[s] = 0
  /\ toRcv[s] # <<>> /\ Head(toRcv[s]).type = "complete"
  /\ hasher[s] = Head(toRcv[s]).hash
  /\ RGoto(s, "recv", "rename")
  /\ toRcv' = [toRcv EXCEPT ![s] = Tail(@)]
  /\ UNCHANGED <<sender, toSnd, down, memory, disk, outcome, faults>>

(* finalize, up to the comparison of the hashes.  On a mismatch it removes *)
(* the temp file at once.                                                  *)
VerifyMatches(s) ==
  /\ rpc[s] = "recv" /\ left[s] = 0
  /\ toRcv[s] # <<>> /\ Head(toRcv[s]).type = "complete"
  /\ hasher[s] = Head(toRcv[s]).hash
  /\ RGoto(s, "recv", "rename")
  /\ toRcv' = [toRcv EXCEPT ![s] = Tail(@)]
  /\ blocks' = Flushed(s)
  /\ inflight' = [inflight EXCEPT ![s] = <<>>]
  /\ UNCHANGED <<sender, toSnd, down, handle, completed, saveDir, resume, hasher,
                 left, tempLink, destLink, stateFile, saves, outcome, faults>>

VerifyMismatches(s) ==
  /\ rpc[s] = "recv" /\ left[s] = 0
  /\ toRcv[s] # <<>> /\ Head(toRcv[s]).type = "complete"
  /\ hasher[s] # Head(toRcv[s]).hash
  /\ RGoto(s, "recv", "mismatch")
  /\ toRcv' = [toRcv EXCEPT ![s] = Tail(@)]
  /\ blocks' = Flushed(s)
  /\ inflight' = [inflight EXCEPT ![s] = <<>>]
  /\ tempLink' = None
  /\ UNCHANGED <<sender, toSnd, down, handle, completed, saveDir, resume, hasher,
                 left, destLink, stateFile, saves, outcome, faults>>

(* The file is moved to where the state, not this request, says.           *)
Rename(s) ==
  /\ tempLink # None
  /\ RGoto(s, "rename", "renamed")
  /\ destLink' = [destLink EXCEPT ![saveDir[s]] = tempLink]
  /\ tempLink' = None
  /\ saved' = saved \cup {s}
  /\ UNCHANGED <<sender, network, memory, blocks, stateFile, saves, history, faults>>

(* The directory cannot be made, or another handler's cleanup took the     *)
(* temp file away.                                                         *)
RenameFails(s) ==
  /\ RGoto(s, "rename", "report")
  /\ UNCHANGED <<sender, network, memory, disk, outcome, faults>>

(* The state file goes after the rename, after a mismatch and in cleanup.  *)
RemoveState(s) ==
  /\ \/ RGoto(s, "renamed", "ack")
     \/ RGoto(s, "mismatch", "report")
     \/ RGoto(s, "unstate", "closed") 
  /\ stateFile' = Absent
  /\ down' = [down EXCEPT ![s] = @ \/ rpc[s] = "unstate"]
  /\ UNCHANGED <<sender, toRcv, toSnd, memory, blocks, tempLink, destLink, saves,
                 outcome, faults>>

Ack(s) ==
  /\ RGoto(s, "ack", "record")
  /\ Reply(s, [type |-> "complete"])
  /\ UNCHANGED <<sender, toRcv, down, memory, disk, outcome, faults>>

(* The ack cannot be written: return without a history record.             *)
AckFails(s) ==
  /\ down[s]
  /\ RGoto(s, "ack", "closed")
  /\ UNCHANGED <<sender, network, memory, disk, outcome, faults>>

Record(s) ==
  /\ RGoto(s, "record", "closed")
  /\ history' = history \cup {s}
  /\ HangUp(s)
  /\ UNCHANGED <<sender, toRcv, toSnd, memory, disk, saved, faults>>

(* The stream ends in the chunk loop or before TransferComplete.           *)
RecvFails(s) ==
  /\ down[s] /\ toRcv[s] = <<>>
  /\ RGoto(s, "recv", "unlink")
  /\ UNCHANGED <<sender, network, memory, disk, outcome, faults>>

(* Tell the sender why; whether it can be written makes no difference.     *)
Report(s) ==
  /\ RGoto(s, "report", "unlink")
  /\ Reply(s, [type |-> "error"])
  /\ UNCHANGED <<sender, toRcv, down, memory, disk, outcome, faults>>

(* cleanup: the name temp/<id>.tmp goes, whichever inode it names.         *)
CleanupTemp(s) ==
  /\ RGoto(s, "unlink", "unstate")
  /\ tempLink' = None
  /\ UNCHANGED <<sender, network, memory, blocks, destLink, stateFile, saves,
                 outcome, faults>>

Handler(s) ==
  \/ Accept(s) \/ RequestLost(s) \/ OpenResume(s) \/ OpenFresh(s) \/ CreateTemp(s)
  \/ Respond(s) \/ RespondFails(s) \/ RecvChunk(s) \/ VerifyMatches(s)
  \/ VerifyMismatches(s) \/ Rename(s) \/ RenameFails(s)
  \/ RemoveState(s) \/ Ack(s) \/ AckFails(s) \/ Record(s) \/ RecvFails(s)
  \/ Report(s) \/ CleanupTemp(s)

-----------------------------------------------------------------------------
(* What happens beside the two: blocking threads, the network, crashes.    *)

(* tokio's blocking thread performs a write; it outlives the File.         *)
WriteLands(s) ==
  /\ inflight[s] # <<>>
  /\ blocks' = Flushed(s)
  /\ inflight' = [inflight EXCEPT ![s] = <<>>]
  /\ UNCHANGED <<sender, rpc, network, handle, completed, saveDir, resume, hasher,
                 left, tempLink, destLink, stateFile, saves, outcome, faults>>

(* Spawned saves run in any order, even when the transfer is over.         *)
SaveLands(x) ==
  /\ stateFile' = [kind |-> "saved", completed |-> x.completed, dir |-> x.dir]
  /\ saves' = saves \ {x}
  /\ UNCHANGED <<sender, rpc, network, memory, blocks, tempLink, destLink,
                 outcome, faults>>

(* A connection breaks; each side may still read a part of what was sent.  *)
Cut(s) ==
  /\ cuts < MaxCuts /\ cuts' = cuts + 1
  /\ ~down[s]
  /\ HangUp(s)
  /\ \E i \in 0..Len(toRcv[s]), j \in 0..Len(toSnd[s]) :
       /\ toRcv' = [toRcv EXCEPT ![s] = SubSeq(@, 1, i)]
       /\ toSnd' = [toSnd EXCEPT ![s] = SubSeq(@, 1, j)]
  /\ UNCHANGED <<sender, rpc, memory, disk, outcome, crashes>>

(* The receiving process dies and is started again.  Its handlers and what *)
(* its threads had still to write are gone; a save cut short leaves a file *)
(* that does not parse.                                                    *)
Crash ==
  /\ crashes < MaxCrashes /\ crashes' = crashes + 1
  /\ \E s \in Attempts : HandlerLive(s)
  /\ rpc' = [s \in Attempts |-> IF HandlerLive(s) THEN "closed" ELSE rpc[s]]
  /\ down' = [s \in Attempts |-> down[s] \/ HandlerLive(s)]
  /\ inflight' = [s \in Attempts |-> <<>>]
  /\ saves' = {}
  /\ stateFile' \in {stateFile} \cup {[stateFile EXCEPT !.kind = "torn"] : x \in saves}
  /\ UNCHANGED <<sender, toRcv, toSnd, handle, completed, saveDir, resume, hasher,
                 left, blocks, tempLink, destLink, outcome, cuts>>

(* Every attempt has ended: the program is idle, not stuck.                *)
AllEnded ==
  /\ \A s \in Attempts : Ended(s)
  /\ UNCHANGED vars

Next ==
  \/ \E s \in Attempts :
       \/ Start(s) \/ Sender(s) \/ CancelSend(s)
       \/ Reject(s) \/ Handler(s)
       \/ WriteLands(s) \/ Cut(s)
  \/ \E x \in saves : SaveLands(x)
  \/ Crash
  \/ AllEnded

Spec == Init /\ [][Next]_vars

(* Both programs keep running, the user answers a prompt, and the blocking *)
(* threads get to their work.                                              *)
Fairness ==
  /\ \A s \in Attempts :
       /\ WF_vars(Sender(s))
       /\ WF_vars(Handler(s))
       /\ WF_vars(WriteLands(s))
  /\ WF_vars(\E x \in saves : SaveLands(x))

FairSpec == Spec /\ Fairness

-----------------------------------------------------------------------------
(* Properties.                                                             *)

(* A finished file in a download directory is, chunk for chunk, what the   *)
(* sender had at one of the attempts that were renamed into place: the     *)
(* hash FileReceiver takes of the received data in memory also holds for   *)
(* the disk, whatever crashed, resumed or landed late.                     *)
DeliveredIntact ==
  \A d \in Dirs : destLink[d] # None =>
    \E s \in saved : blocks[destLink[d]] = file[s]

(* Only a resumed transfer can fail verification: what it found on disk    *)
(* may be stale.  One that starts at chunk 0 always matches.               *)
FreshNeverMismatches ==
  \A s \in Attempts : rpc[s] = "mismatch" => resume[s] > 0

(* Sender and receiver agree on the resume point: the chunk about to be    *)
(* read is the first one the receiver lacks, and it is never one it has.   *)
NextChunkIsFirstMissing ==
  \A s \in Attempts :
    rpc[s] = "recv" /\ toRcv[s] # <<>> /\ Head(toRcv[s]).type = "chunk" =>
      /\ Head(toRcv[s]).index = Len(hasher[s]) + 1
      /\ completed[s] = 1..Len(hasher[s])

(* When the sender records the transfer as completed, the receiver has     *)
(* verified the file and moved it into place.                              *)
SenderDoneMeansSaved ==
  \A s \in Attempts : pc[s] = "done" => s \in saved

(* An attempt that was started ends, at both ends.                         *)
EveryAttemptEnds ==
  \A s \in Attempts : pc[s] = "waitResponse" ~> Ended(s)

(* The abstract promise: whole files delivered, and confirmed only then.   *)
Delivery == INSTANCE FileDelivery WITH
  started   <- {s \in Attempts : pc[s] # "idle"},
  place     <- [d \in Dirs |-> IF destLink[d] = None THEN None
                               ELSE blocks[destLink[d]]],
  delivered <- saved,
  confirmed <- {s \in Attempts : pc[s] = "done"}

ImplementsDelivery == Delivery!Spec
=============================================================================
