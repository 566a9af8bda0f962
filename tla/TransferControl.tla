-------------------------- MODULE TransferControl --------------------------
(***************************************************************************)
(* What the user steers of the transfers of one device: files and folders  *)
(* that wait for the semaphore, run, are paused, resumed and cancelled     *)
(* (do_send_file, the single stream of do_send_file_iroh, send_folder,     *)
(* send_folder_via_iroh and their send_file_for_folder), the progress      *)
(* entries the user sees, and the prompts of the device that receives      *)
(* them (handle_transfer_request).                                         *)
(*                                                                         *)
(* A file's entry and flags are kept by its file_id, which any number of   *)
(* transfers of that file share; a folder has an id of its own.  What the  *)
(* chunks hold, where they land and what the receiver shows once it has    *)
(* said yes is not here.                                                   *)
(***************************************************************************)
EXTENDS Naturals, Sequences, FiniteSets

CONSTANTS
  Jobs,       \* the transfers
  Folders,    \* those that send a folder
  Work,       \* the files of each job, in the order it sends them
  Id,         \* the id each job's entry and flags are kept under
  Chunks,     \* total_chunks of every file
  Limits,     \* max_concurrent: the first semaphore's and the ones after it
  None,       \* no semaphore, no prompt
  MaxEvents   \* bound: commands and changes of the configuration by the
              \* user, connections, reads and writes that fail

Ids   == {Id[j] : j \in Jobs}
Files == UNION {{Work[j][n] : n \in 1..Len(Work[j])} : j \in Jobs}
Sems  == 1..Len(Limits)

ASSUME ConstantsOK ==
  /\ Folders \subseteq Jobs
  /\ \A j \in Jobs : Work[j] \in Seq(Files) /\ Work[j] # <<>>
  /\ \A j \in Jobs \ Folders : Work[j] = <<Id[j]>>
  /\ Chunks \in Nat \ {0}
  /\ Len(Limits) > 0 /\ \A s \in Sems : Limits[s] \in Nat \ {0}
  /\ None \notin Sems \cup Jobs
  /\ MaxEvents \in Nat

VARIABLES
  pc,         \* where each job is
  at,         \* the file of its work it is at
  chunk,      \* chunk_index
  entry,      \* ProgressTracker: the status under each id
  shownPaused,\* ids whose entry says paused
  cancelled,  \* TransferService.cancelled
  paused,     \* TransferService.paused
  sem,        \* TransferService.semaphore: the one in use
  line,       \* the jobs waiting for each semaphore, in turn
  held,       \* the semaphore each job has a permit of
  clicks,     \* commands of the user that have not run yet
  midway,     \* commands that have done the first of their two steps
  request,    \* where handle_transfer_request is with each job's request
  pending,    \* pending_confirmations: whose prompt is there, by file
  prompted,   \* files whose pending_confirm entry the receiver's user sees
  events

job      == <<pc, at, chunk>>
list     == <<entry, shownPaused>>
flags    == <<cancelled, paused>>
permits  == <<sem, line, held>>
commands == <<clicks, midway>>
receiver == <<request, pending, prompted>>
vars     == <<job, list, flags, permits, commands, receiver, events>>

Command == {"cancel", "pause", "resume"}

(* Types.  A job never passes its last file or its last chunk.             *)
TypeOK ==
  /\ pc \in [Jobs -> {"idle", "asking", "permit", "next", "loop", "poll",
                      "ack", "clearing", "over"}]
  /\ \A j \in Jobs : at[j] \in 1..Len(Work[j]) + 1
  /\ chunk \in [Jobs -> 0..Chunks]
  /\ entry \in [Ids -> {"none", "queued", "active", "error"}]
  /\ shownPaused \subseteq {i \in Ids : entry[i] # "none"}
  /\ cancelled \subseteq Ids /\ paused \subseteq Ids
  /\ sem \in Sems
  /\ line \in [Sems -> Seq(Jobs)]
  /\ held \in [Jobs -> Sems \cup {None}]
  /\ clicks \subseteq Command \X Ids /\ midway \subseteq Command \X Ids
  /\ request \in [Jobs -> {"none", "asking", "said yes", "said no", "yes", "no"}]
  /\ pending \in [Files -> Jobs \cup {None}]
  /\ prompted \subseteq Files
  /\ events \in 0..MaxEvents

Init ==
  /\ pc = [j \in Jobs |-> "idle"]
  /\ at = [j \in Jobs |-> 1]
  /\ chunk = [j \in Jobs |-> 0]
  /\ entry = [i \in Ids |-> "none"]
  /\ shownPaused = {}
  /\ cancelled = {} /\ paused = {}
  /\ sem = 1
  /\ line = [s \in Sems |-> <<>>]
  /\ held = [j \in Jobs |-> None]
  /\ clicks = {} /\ midway = {}
  /\ request = [j \in Jobs |-> "none"]
  /\ pending = [f \in Files |-> None]
  /\ prompted = {}
  /\ events = 0

Goto(j, where) == pc' = [pc EXCEPT ![j] = where]
FileOf(j) == Work[j][at[j]]

-----------------------------------------------------------------------------
(* ProgressTracker.                                                        *)

(* register_queued replaces whatever entry the id had.                     *)
RegisterQueued(i) ==
  /\ entry' = [entry EXCEPT ![i] = "queued"]
  /\ shownPaused' = shownPaused \ {i}

SetActive(i) ==
  /\ entry' = [entry EXCEPT ![i] = IF @ = "none" THEN @ ELSE "active"]
  /\ UNCHANGED shownPaused

RemoveProgress(i) ==
  /\ entry' = [entry EXCEPT ![i] = "none"]
  /\ shownPaused' = shownPaused \ {i}

SetPaused(i, on) ==
  /\ shownPaused' = IF on /\ entry[i] # "none" THEN shownPaused \cup {i}
                                               ELSE shownPaused \ {i}
  /\ UNCHANGED entry

-----------------------------------------------------------------------------
(* The jobs.                                                               *)

(* The permit goes with the function that holds it.                        *)
Return(j) ==
  /\ Goto(j, "over")
  /\ held' = [held EXCEPT ![j] = None]

JoinLine(j) == line' = [line EXCEPT ![sem] = Append(@, j)]

(* A file asks the receiver before it waits for a permit, a folder waits   *)
(* for the permit first.                                                   *)
Submit(j) ==
  /\ pc[j] = "idle"
  /\ RegisterQueued(Id[j])
  /\ IF j \in Folders THEN Goto(j, "permit") /\ JoinLine(j)
                      ELSE Goto(j, "asking") /\ UNCHANGED line
  /\ UNCHANGED <<at, chunk, flags, sem, held, commands, receiver, events>>

(* The request cannot be written: a file's entry stays, with the error.    *)
SubmitFails(j) ==
  /\ j \notin Folders /\ pc[j] = "asking" /\ request[j] = "none"
  /\ events < MaxEvents /\ events' = events + 1
  /\ Return(j)
  /\ entry' = [entry EXCEPT ![Id[j]] = IF @ = "none" THEN @ ELSE "error"]
  /\ UNCHANGED <<at, chunk, shownPaused, flags, sem, line, commands, receiver>>

(* One file of a folder is through, sent or not: on to the next one.       *)
NextFile(j) ==
  /\ Goto(j, "next")
  /\ at' = [at EXCEPT ![j] = @ + 1]
  /\ chunk' = [chunk EXCEPT ![j] = 0]
  /\ request' = [request EXCEPT ![j] = "none"]
  /\ UNCHANGED <<list, held, pending, prompted>>

(* A file on its own is through: its entry goes, and its permit.           *)
FileEnds(j) ==
  /\ Return(j)
  /\ RemoveProgress(Id[j])
  /\ UNCHANGED <<at, chunk, receiver>>

Over(j) == IF j \in Folders THEN NextFile(j) ELSE FileEnds(j)

OnRejected(j) ==
  /\ pc[j] = "asking" /\ request[j] = "no"
  /\ Over(j)
  /\ UNCHANGED <<flags, sem, line, commands, events>>

(* do_send_file clones the semaphore in use now, after the answer; a file  *)
(* of a folder goes on under the folder's permit.                          *)
OnAccepted(j) ==
  /\ pc[j] = "asking" /\ request[j] = "yes"
  /\ IF j \in Folders THEN Goto(j, "loop") /\ UNCHANGED line
                      ELSE Goto(j, "permit") /\ JoinLine(j)
  /\ UNCHANGED <<at, chunk, list, flags, sem, held, commands, receiver, events>>

Free(s) == Cardinality({j \in Jobs : held[j] = s}) < Limits[s]

(* tokio's Semaphore serves the waiting in turn.                           *)
(* Mutant: the one that is served stays in line.                           *)
AcquireKeepsTurn(j) ==
  /\ pc[j] = "permit"
  /\ \E s \in Sems :
       /\ line[s] # <<>> /\ Head(line[s]) = j /\ Free(s)
       /\ held' = [held EXCEPT ![j] = s]
       /\ UNCHANGED line
  /\ SetActive(Id[j])
  /\ Goto(j, IF j \in Folders THEN "next" ELSE "loop")
  /\ UNCHANGED <<at, chunk, flags, sem, commands, receiver, events>>

Acquire(j) ==
  /\ pc[j] = "permit"
  /\ \E s \in Sems :
       /\ line[s] # <<>> /\ Head(line[s]) = j /\ Free(s)
       /\ held' = [held EXCEPT ![j] = s]
       /\ line' = [line EXCEPT ![s] = Tail(@)]
  /\ SetActive(Id[j])
  /\ Goto(j, IF j \in Folders THEN "next" ELSE "loop")
  /\ UNCHANGED <<at, chunk, flags, sem, commands, receiver, events>>

(* The loop of send_folder over its files.                                 *)
NextOfFolder(j) ==
  /\ pc[j] = "next" /\ at[j] <= Len(Work[j]) /\ Id[j] \notin cancelled
  /\ Goto(j, "asking")
  /\ UNCHANGED <<at, chunk, list, flags, permits, commands, receiver, events>>

FolderEnds(j) ==
  /\ pc[j] = "next" /\ (at[j] > Len(Work[j]) \/ Id[j] \in cancelled)
  /\ RemoveProgress(Id[j])
  /\ Goto(j, "clearing")
  /\ UNCHANGED <<at, chunk, flags, permits, commands, receiver, events>>

(* Mutant: the flag goes when it is seen, also for a folder.               *)
SeesCancelClearing(j) ==
  /\ pc[j] = "loop" /\ Id[j] \in cancelled
  /\ IF j \in Folders
     THEN NextFile(j)
     ELSE RemoveProgress(Id[j]) /\ Goto(j, "clearing") /\ UNCHANGED <<at, chunk, held, receiver>>
  /\ cancelled' = cancelled \ {Id[j]}
  /\ UNCHANGED <<paused, sem, line, commands, events>>

(* The check of cancelled before each chunk.                               *)
SeesCancel(j) ==
  /\ pc[j] = "loop" /\ Id[j] \in cancelled
  /\ IF j \in Folders
     THEN NextFile(j)
     ELSE RemoveProgress(Id[j]) /\ Goto(j, "clearing") /\ UNCHANGED <<at, chunk, held, receiver>>
  /\ UNCHANGED <<flags, sem, line, commands, events>>

SeesNone(j) ==
  /\ pc[j] = "loop" /\ Id[j] \notin cancelled
  /\ Goto(j, "poll")
  /\ UNCHANGED <<at, chunk, list, flags, permits, commands, receiver, events>>

(* The pause loop lets go, and the chunk is read and sent.                 *)
SendChunk(j) ==
  /\ pc[j] = "poll" /\ Id[j] \notin paused
  /\ chunk' = [chunk EXCEPT ![j] = @ + 1]
  /\ Goto(j, IF chunk[j] + 1 = Chunks THEN "ack" ELSE "loop")
  /\ UNCHANGED <<at, list, flags, permits, commands, receiver, events>>

(* The connection is not made, a read or a write of a chunk fails, or the  *)
(* answer to the request or to TransferComplete is an error.               *)
TransferFails(j) ==
  /\ \/ pc[j] \in {"loop", "ack"}
     \/ pc[j] = "poll" /\ Id[j] \notin paused
     \/ pc[j] = "asking" /\ request[j] \in {"none", "yes", "no"}
  /\ events < MaxEvents /\ events' = events + 1
  /\ Over(j)
  /\ UNCHANGED <<flags, sem, line, commands>>

OnAck(j) ==
  /\ pc[j] = "ack"
  /\ Over(j)
  /\ UNCHANGED <<flags, sem, line, commands, events>>

(* cancelled.remove, after the entry.                                      *)
ClearFlag(j) ==
  /\ pc[j] = "clearing"
  /\ cancelled' = cancelled \ {Id[j]}
  /\ Return(j)
  /\ UNCHANGED <<at, chunk, list, paused, sem, line, commands, receiver, events>>

-----------------------------------------------------------------------------
(* The user of the sending device.  A command is given on an entry that is *)
(* shown, when the one before on that entry is through, and runs as a task *)
(* of its own, later.                                                      *)

Quiet(i) == \A c \in Command : <<c, i>> \notin clicks \cup midway

Give(c, ids) ==
  /\ events < MaxEvents /\ events' = events + 1
  /\ clicks' = clicks \cup ({c} \X {i \in ids : Quiet(i)})
  /\ UNCHANGED <<job, list, flags, permits, midway, receiver>>

Click(i, c) ==
  /\ entry[i] # "none" /\ Quiet(i)
  /\ c = "pause" => i \notin shownPaused
  /\ c = "resume" => i \in shownPaused
  /\ Give(c, {i})

Begin(i, c) ==
  /\ <<c, i>> \in clicks
  /\ clicks' = clicks \ {<<c, i>>}
  /\ midway' = midway \cup {<<c, i>>}
  /\ UNCHANGED <<job, list, permits, receiver, events>>

Finish(i, c) ==
  /\ <<c, i>> \in midway
  /\ midway' = midway \ {<<c, i>>}
  /\ UNCHANGED <<job, flags, permits, clicks, receiver, events>>

(* A transfer that has not failed gets the flag ...                        *)
CancelTransfer(i) ==
  /\ <<"cancel", i>> \in clicks /\ entry[i] # "error"
  /\ clicks' = clicks \ {<<"cancel", i>>}
  /\ cancelled' = cancelled \cup {i}
  /\ UNCHANGED <<job, list, paused, permits, midway, receiver, events>>

(* ... the entry of one that has failed is removed, after it was looked at.*)
CancelFailed(i) == entry[i] = "error" /\ Begin(i, "cancel") /\ UNCHANGED flags
Dismiss(i)      == Finish(i, "cancel") /\ RemoveProgress(i)

PauseTransfer(i) ==
  /\ Begin(i, "pause")
  /\ paused' = paused \cup {i}
  /\ UNCHANGED cancelled

ShowPaused(i) == Finish(i, "pause") /\ SetPaused(i, TRUE)

ResumeTransfer(i) ==
  /\ Begin(i, "resume")
  /\ paused' = paused \ {i}
  /\ UNCHANGED cancelled

(* Mutant: resuming forgets the entry.                                     *)
ShowResumedNot(i) == Finish(i, "resume") /\ UNCHANGED list
ShowResumed(i)    == Finish(i, "resume") /\ SetPaused(i, FALSE)

(* pause_all and resume_all pick from list_all, then go one by one.        *)
PauseAll ==
  LET them == {i \in Ids : entry[i] = "active" /\ i \notin shownPaused} IN
    Cardinality(them) > 1 /\ Give("pause", them)

ResumeAll == Cardinality(shownPaused) > 1 /\ Give("resume", shownPaused)

(* Saving the configuration puts a new semaphore in the place of the one   *)
(* the transfers hold and wait for.                                        *)
UpdateMaxConcurrent ==
  /\ sem < Len(Limits) /\ events < MaxEvents
  /\ sem' = sem + 1 /\ events' = events + 1
  /\ UNCHANGED <<job, list, flags, line, held, commands, receiver>>

-----------------------------------------------------------------------------
(* The receiver: the prompt of handle_transfer_request.                    *)

(* The entry is registered and the sender put into pending_confirmations,  *)
(* where it replaces the one of an earlier request for the same file.      *)
Prompt(j) ==
  /\ pc[j] = "asking" /\ request[j] = "none"
  /\ request' = [request EXCEPT ![j] = "asking"]
  /\ prompted' = prompted \cup {FileOf(j)}
  /\ pending' = [pending EXCEPT ![FileOf(j)] = j]
  /\ UNCHANGED <<job, list, flags, permits, commands, events>>

(* confirm_transfer and reject_transfer, from the prompt the user sees.    *)
Say(f, answer) ==
  /\ f \in prompted /\ pending[f] # None
  /\ request' = [request EXCEPT ![pending[f]] = answer]
  /\ pending' = [pending EXCEPT ![f] = None]
  /\ UNCHANGED <<job, list, flags, permits, commands, prompted, events>>

ConfirmTransfer(f) == Say(f, "said yes")
RejectTransfer(f)  == Say(f, "said no")

(* Mutant: waking clears every prompt.                                     *)
WakesForAll(j) ==
  /\ pc[j] = "asking" /\ request[j] \in {"said yes", "said no"}
  /\ prompted' = {}
  /\ request' = [request EXCEPT ![j] = IF @ = "said yes" THEN "yes" ELSE "no"]
  /\ UNCHANGED <<job, list, flags, permits, commands, pending, events>>

(* rx.await returns: the answer, or false because the sender was replaced. *)
Wakes(j) ==
  /\ pc[j] = "asking"
  /\ \/ request[j] \in {"said yes", "said no"}
     \/ request[j] = "asking" /\ pending[FileOf(j)] # j
  /\ prompted' = prompted \ {FileOf(j)}
  /\ request' = [request EXCEPT ![j] = IF @ = "said yes" THEN "yes" ELSE "no"]
  /\ UNCHANGED <<job, list, flags, permits, commands, pending, events>>

-----------------------------------------------------------------------------
Run(j) == \/ OnRejected(j) \/ OnAccepted(j) \/ Acquire(j) \/ NextOfFolder(j)
          \/ FolderEnds(j) \/ SeesCancel(j) \/ SeesNone(j) \/ SendChunk(j)
          \/ OnAck(j) \/ ClearFlag(j)
Receive(j) == Prompt(j) \/ Wakes(j)

Next ==
  \/ \E j \in Jobs : Submit(j) \/ SubmitFails(j) \/ TransferFails(j) \/ Run(j) \/ Receive(j)
  \/ \E i \in Ids : \/ CancelTransfer(i) \/ CancelFailed(i) \/ Dismiss(i)
                    \/ PauseTransfer(i) \/ ShowPaused(i)
                    \/ ResumeTransfer(i) \/ ShowResumed(i)
                    \/ \E c \in Command : Click(i, c)
  \/ \E f \in Files : ConfirmTransfer(f) \/ RejectTransfer(f)
  \/ PauseAll \/ ResumeAll \/ UpdateMaxConcurrent

Spec == Init /\ [][Next]_vars

(* The runtime runs every transfer and every request handler that can go   *)
(* on.  Nobody has to send, to give a command or to answer a prompt.       *)
FairSpec ==
  /\ Spec
  /\ \A j \in Jobs : WF_vars(Run(j)) /\ WF_vars(Receive(j))

-----------------------------------------------------------------------------
(* A cancelled transfer stops, a folder without asking for another file,   *)
(* unless it is paused or another transfer of the same file takes the flag.*)
CancelStops ==
  \A j \in Jobs :
    pc[j] \in {"next", "loop", "poll"} /\ Id[j] \in cancelled
      ~> \/ pc[j] = "over" \/ Id[j] \in paused
         \/ \E h \in Jobs \ {j} : Id[h] = Id[j]

(* A transfer in line gets its permit unless one that holds a permit of    *)
(* that semaphore waits for a user: it is paused, or the prompt of a       *)
(* folder's file is open.                                                  *)
WaiterServed ==
  \A j \in Jobs, s \in Sems :
    pc[j] = "permit" /\ (\E n \in 1..Len(line[s]) : line[s][n] = j)
      ~> \/ pc[j] # "permit"
         \/ \E h \in Jobs : held[h] = s /\ (Id[h] \in paused \/ pc[h] = "asking")

Waits(j) == request[j] \in {"asking", "said yes", "said no"}

(* The prompt of a request stays on the screen until its user has said     *)
(* something, as long as no request for the same file that it replaced is  *)
(* still to wake.                                                          *)
PromptStays ==
  [][\A j \in Jobs :
       /\ request[j] = "asking" /\ FileOf(j) \in prompted
       /\ \A h \in Jobs \ {j} : Waits(h) => FileOf(h) # FileOf(j)
       => FileOf(j) \in prompted' \/ request'[j] # "asking"]_vars

(* What the user sees as paused is paused, or its resumption is midway:    *)
(* the commands, and the transfers that end or start under the same id     *)
(* meanwhile, keep the entry and the flag together.                        *)
ShownPausedIsPaused ==
  \A i \in shownPaused : i \in paused \/ <<"resume", i>> \in midway
=============================================================================
