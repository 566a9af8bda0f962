----------------------- MODULE TransferControlProofs -----------------------
(***************************************************************************)
(* What the user steers, for any number of transfers, folders, files,      *)
(* limits and commands: whose entry says paused, whose prompt is open, who *)
(* waits for a permit and how many have one.                               *)
(***************************************************************************)
EXTENDS TransferControl, QueueLemmas, FiniteSetTheorems

Places   == {"idle", "asking", "permit", "next", "loop", "poll", "ack", "clearing", "over"}
Answers  == {"none", "asking", "said yes", "said no", "yes", "no"}
AtAFile  == {"idle", "asking", "permit", "loop", "poll", "ack"}
InAFile  == {"idle", "asking", "permit", "next", "loop", "poll"}

JobTypes ==
  /\ pc \in [Jobs -> Places]
  /\ at \in [Jobs -> Nat \ {0}] /\ chunk \in [Jobs -> Nat]
  /\ \A j \in Jobs : /\ at[j] <= Len(Work[j]) + 1
                     /\ pc[j] \in AtAFile => at[j] <= Len(Work[j])
                     /\ chunk[j] <= Chunks
                     /\ pc[j] \in InAFile => chunk[j] < Chunks

ListTypes ==
  /\ entry \in [Ids -> {"none", "queued", "active", "error"}]
  /\ shownPaused \subseteq Ids
  /\ \A i \in shownPaused : entry[i] # "none"

FlagTypes == /\ cancelled \subseteq Ids /\ paused \subseteq Ids
             /\ clicks \subseteq Command \X Ids /\ midway \subseteq Command \X Ids
             /\ events \in 0..MaxEvents

PermitTypes ==
  /\ sem \in Sems /\ line \in [Sems -> Seq(Jobs)]
  /\ held \in [Jobs -> Sems \cup {None}]

PromptTypes ==
  /\ request \in [Jobs -> Answers]
  /\ pending \in [Files -> Jobs \cup {None}] /\ prompted \subseteq Files

Types == JobTypes /\ ListTypes /\ FlagTypes /\ PermitTypes /\ PromptTypes

-----------------------------------------------------------------------------
LEMMA Lengths ==
  ASSUME NEW j \in Jobs
  PROVE  /\ Len(Work[j]) \in Nat \ {0} /\ Id[j] \in Ids
         /\ \A n \in Nat \ {0} : n <= Len(Work[j]) => Work[j][n] \in Files
<1>1. Work[j] \in Seq(Files) /\ Work[j] # <<>>
  BY ConstantsOK DEF ConstantsOK
<1>2. Len(Work[j]) \in Nat /\ Len(Work[j]) # 0
  BY <1>1, LenProperties, EmptySeq
<1>3. \A n \in 1..Len(Work[j]) : Work[j][n] \in Files
  BY DEF Files
<1> QED BY <1>2, <1>3 DEF Ids

LEMMA TypesStart == Init => Types
<1> SUFFICES ASSUME Init PROVE Types
  OBVIOUS
<1>0. Chunks \in Nat \ {0} /\ 1 \in Sems /\ None \notin Sems \cup Jobs
      /\ MaxEvents \in Nat
  BY ConstantsOK DEF ConstantsOK, Sems
<1>1. JobTypes
  BY <1>0, Lengths DEF Init, JobTypes, Places, AtAFile, InAFile
<1>2. ListTypes /\ FlagTypes /\ PromptTypes
  BY <1>0 DEF Init, ListTypes, FlagTypes, PromptTypes, Answers
<1>3. PermitTypes
  <2>1. <<>> \in Seq(Jobs)
    BY EmptySeq
  <2> QED BY <1>0, <2>1 DEF Init, PermitTypes
<1> QED BY <1>1, <1>2, <1>3 DEF Types

-----------------------------------------------------------------------------
(* What moves a job, a list, a flag, a permit, a prompt; all other actions *)
(* leave them alone.                                                       *)
Working(j) == \/ Submit(j) \/ SubmitFails(j) \/ TransferFails(j) \/ Run(j)
User       == \/ \E i \in Ids : \/ CancelTransfer(i) \/ CancelFailed(i) \/ Dismiss(i)
                                \/ PauseTransfer(i) \/ ShowPaused(i)
                                \/ ResumeTransfer(i) \/ ShowResumed(i)
                                \/ \E c \in Command : Click(i, c)
              \/ PauseAll \/ ResumeAll
Answering  == \E f \in Files : ConfirmTransfer(f) \/ RejectTransfer(f)

LEMMA Split ==
  ASSUME [Next]_vars
  PROVE  \/ \E j \in Jobs : Working(j) \/ Receive(j)
         \/ User \/ Answering \/ UpdateMaxConcurrent \/ UNCHANGED vars
  BY DEF Next, Working, User, Answering

(* The user's commands touch the list, the flags and the commands.         *)
LEMMA UserKeeps ==
  ASSUME User
  PROVE  UNCHANGED <<job, permits, receiver>>
<1>1. ASSUME NEW i \in Ids,
             \/ CancelTransfer(i) \/ CancelFailed(i) \/ Dismiss(i)
             \/ PauseTransfer(i) \/ ShowPaused(i)
             \/ ResumeTransfer(i) \/ ShowResumed(i)
      PROVE  UNCHANGED <<job, permits, receiver>>
  BY <1>1 DEF CancelTransfer, CancelFailed, Dismiss, PauseTransfer, ShowPaused,
              ResumeTransfer, ShowResumed, Begin, Finish
<1>2. ASSUME NEW i \in Ids, NEW c \in Command, Click(i, c)
      PROVE  UNCHANGED <<job, permits, receiver>>
  BY <1>2 DEF Click, Give
<1>3. ASSUME PauseAll \/ ResumeAll PROVE UNCHANGED <<job, permits, receiver>>
  BY <1>3 DEF PauseAll, ResumeAll, Give
<1> QED BY <1>1, <1>2, <1>3 DEF User

(* The receiver touches nothing but prompts.                               *)
LEMMA ReceiverKeeps ==
  ASSUME \/ \E j \in Jobs : Receive(j)
         \/ Answering
  PROVE  UNCHANGED <<job, list, flags, permits, commands, events>>
<1>1. ASSUME NEW j \in Jobs, Receive(j)
      PROVE  UNCHANGED <<job, list, flags, permits, commands, events>>
  BY <1>1 DEF Receive, Prompt, Wakes
<1>2. ASSUME NEW f \in Files, ConfirmTransfer(f) \/ RejectTransfer(f)
      PROVE  UNCHANGED <<job, list, flags, permits, commands, events>>
  BY <1>2 DEF ConfirmTransfer, RejectTransfer, Say
<1> QED BY <1>1, <1>2 DEF Answering

(* A job that works leaves the commands and the pause flags alone, shows   *)
(* nothing as paused, and asks for nothing of the receiver.                *)
LEMMA WorkKeeps ==
  ASSUME NEW j \in Jobs, Working(j)
  PROVE  /\ UNCHANGED <<paused, sem, commands, pending, prompted>>
         /\ cancelled' \subseteq cancelled /\ shownPaused' \subseteq shownPaused
         /\ \/ UNCHANGED request
            \/ request' = [request EXCEPT ![j] = "none"] /\ pc[j] # "asking"
            \/ /\ request' = [request EXCEPT ![j] = "none"]
               /\ request[j] \in {"none", "yes", "no"}
<1>0. USE DEF commands, flags, permits, receiver, list
<1>1. CASE Submit(j)
  BY <1>1 DEF Submit, RegisterQueued
<1>2. CASE SubmitFails(j)
  BY <1>2 DEF SubmitFails
<1>3. ASSUME Over(j)
      PROVE  /\ UNCHANGED <<pending, prompted>>
             /\ shownPaused' \subseteq shownPaused
             /\ UNCHANGED request \/ request' = [request EXCEPT ![j] = "none"]
  BY <1>3 DEF Over, NextFile, FileEnds, RemoveProgress
<1>4. CASE TransferFails(j)
  BY <1>3, <1>4 DEF TransferFails
<1>5. CASE OnRejected(j) \/ OnAck(j)
  BY <1>3, <1>5 DEF OnRejected, OnAck
<1>6. CASE OnAccepted(j)
  BY <1>6 DEF OnAccepted
<1>7. CASE Acquire(j)
  BY <1>7 DEF Acquire, SetActive
<1>8. CASE NextOfFolder(j) \/ SeesNone(j) \/ SendChunk(j)
  BY <1>8 DEF NextOfFolder, SeesNone, SendChunk
<1>9. CASE FolderEnds(j)
  BY <1>9 DEF FolderEnds, RemoveProgress
<1>10. CASE SeesCancel(j)
  BY <1>10 DEF SeesCancel, NextFile, RemoveProgress
<1>11. CASE ClearFlag(j)
  BY <1>11 DEF ClearFlag
<1> QED BY <1>1, <1>2, <1>4, <1>5, <1>6, <1>7, <1>8, <1>9, <1>10, <1>11
        DEF Working, Run

-----------------------------------------------------------------------------
(* Jobs.                                                                   *)
LEMMA JobGoes ==
  ASSUME JobTypes, NEW j \in Jobs, NEW q \in Places, NEW a \in Nat \ {0}, NEW c \in Nat,
         Goto(j, q), at' = [at EXCEPT ![j] = a], chunk' = [chunk EXCEPT ![j] = c],
         a <= Len(Work[j]) + 1, q \in AtAFile => a <= Len(Work[j]),
         c <= Chunks, q \in InAFile => c < Chunks
  PROVE  JobTypes'
  BY DEF JobTypes, Goto

LEMMA JobStep ==
  ASSUME JobTypes, [Next]_vars
  PROVE  JobTypes'
<1>0. Chunks \in Nat \ {0}
  BY ConstantsOK DEF ConstantsOK
<1>1. ASSUME NEW j \in Jobs, Working(j) PROVE JobTypes'
  <2> DEFINE a == at[j]
             c == chunk[j]
             l == Len(Work[j])
  <2>0. /\ pc[j] \in Places /\ a \in Nat \ {0} /\ c \in Nat /\ l \in Nat \ {0}
        /\ a <= l + 1 /\ c <= Chunks
        /\ pc[j] \in AtAFile => a <= l
        /\ pc[j] \in InAFile => c < Chunks
    BY <1>1, Lengths DEF JobTypes
  <2>00. at = [at EXCEPT ![j] = a] /\ chunk = [chunk EXCEPT ![j] = c]
    BY DEF JobTypes
  <2>1. ASSUME NEW q \in Places, Goto(j, q), UNCHANGED <<at, chunk>>,
               q \in AtAFile => a <= l, q \in InAFile => c < Chunks
        PROVE  JobTypes'
    BY <2>0, <2>00, <2>1, JobGoes
  <2>2. ASSUME Over(j), pc[j] \in AtAFile PROVE JobTypes'
    <3>1. CASE NextFile(j)
      <4>1. /\ Goto(j, "next") /\ at' = [at EXCEPT ![j] = a + 1]
            /\ chunk' = [chunk EXCEPT ![j] = 0]
        BY <3>1 DEF NextFile
      <4>2. /\ a + 1 \in Nat \ {0} /\ 0 \in Nat /\ a + 1 <= l + 1
            /\ 0 <= Chunks /\ 0 < Chunks
        BY <1>0, <2>0, <2>2
      <4>3. "next" \in Places /\ "next" \notin AtAFile
        BY DEF Places, AtAFile
      <4> HIDE DEF a, c, l
      <4> QED BY <4>1, <4>2, <4>3, JobGoes DEF l
    <3>2. CASE FileEnds(j)
      BY <2>1, <3>2 DEF FileEnds, Return, Places, AtAFile, InAFile
    <3> QED BY <2>2, <3>1, <3>2 DEF Over
  <2>3. CASE Submit(j)
    BY <2>0, <2>1, <2>3 DEF Submit, Places, AtAFile, InAFile
  <2>4. CASE SubmitFails(j) \/ ClearFlag(j)
    BY <2>1, <2>4 DEF SubmitFails, ClearFlag, Return, Places, AtAFile, InAFile
  <2>5. CASE TransferFails(j) \/ OnRejected(j) \/ OnAck(j)
    BY <2>2, <2>5 DEF TransferFails, OnRejected, OnAck, AtAFile
  <2>6. CASE OnAccepted(j)
    BY <2>0, <2>1, <2>6 DEF OnAccepted, Places, AtAFile, InAFile
  <2>7. CASE Acquire(j)
    BY <2>0, <2>1, <2>7 DEF Acquire, Places, AtAFile, InAFile
  <2>8. CASE NextOfFolder(j)
    BY <2>0, <2>1, <2>8 DEF NextOfFolder, Places, AtAFile, InAFile
  <2>9. CASE FolderEnds(j)
    BY <2>1, <2>9 DEF FolderEnds, Places, AtAFile, InAFile
  <2>10. CASE SeesCancel(j)
    <3>1. CASE NextFile(j)
      BY <2>2, <2>10, <3>1 DEF SeesCancel, Over, AtAFile, NextFile, FileEnds, Return, RemoveProgress, JobTypes
    <3> QED BY <2>1, <2>10, <3>1 DEF SeesCancel, Places, AtAFile, InAFile
  <2>11. CASE SeesNone(j)
    BY <2>0, <2>1, <2>11 DEF SeesNone, Places, AtAFile, InAFile
  <2>12. CASE SendChunk(j)
    <3>1. c < Chunks /\ a <= l
      BY <2>0, <2>12 DEF SendChunk, AtAFile, InAFile
    <3>2. chunk' = [chunk EXCEPT ![j] = c + 1] /\ at' = [at EXCEPT ![j] = a]
      BY <2>00, <2>12 DEF SendChunk
    <3>3. CASE c + 1 = Chunks
      <4>1. Goto(j, "ack")
        BY <2>12, <3>3 DEF SendChunk
      <4>2. "ack" \in Places /\ "ack" \notin InAFile
        BY DEF Places, InAFile
      <4>3. a \in Nat \ {0} /\ c + 1 \in Nat /\ c + 1 <= Chunks /\ a <= l + 1
        BY <1>0, <2>0, <3>1, <3>3
      <4> HIDE DEF a, c, l
      <4> QED BY <3>1, <3>2, <4>1, <4>2, <4>3, JobGoes DEF l
    <3>4. CASE c + 1 # Chunks
      <4>1. Goto(j, "loop")
        BY <2>12, <3>4 DEF SendChunk
      <4>2. c + 1 < Chunks /\ c + 1 \in Nat
        BY <1>0, <2>0, <3>1, <3>4
      <4>3. "loop" \in Places
        BY DEF Places
      <4>4. a \in Nat \ {0} /\ c + 1 <= Chunks /\ a <= l + 1
        BY <1>0, <2>0, <3>1, <4>2
      <4> HIDE DEF a, c, l
      <4> QED BY <3>1, <3>2, <4>1, <4>2, <4>3, <4>4, JobGoes DEF l
    <3> QED BY <3>3, <3>4
  <2> QED BY <1>1, <2>3, <2>4, <2>5, <2>6, <2>7, <2>8, <2>9, <2>10, <2>11, <2>12
          DEF Working, Run
<1>2. CASE UNCHANGED job
  BY <1>2 DEF job, JobTypes
<1> QED BY <1>1, <1>2, Split, UserKeeps, ReceiverKeeps DEF UpdateMaxConcurrent, vars

-----------------------------------------------------------------------------
(* The list and the flags.                                                 *)
LEMMA ListChanges ==
  ASSUME ListTypes, NEW i \in Ids,
         \/ RegisterQueued(i) \/ SetActive(i) \/ RemoveProgress(i)
         \/ SetPaused(i, TRUE) \/ SetPaused(i, FALSE)
  PROVE  ListTypes'
  BY DEF ListTypes, RegisterQueued, SetActive, RemoveProgress, SetPaused

LEMMA ListStep ==
  ASSUME ListTypes, [Next]_vars
  PROVE  ListTypes'
<1>1. ASSUME UNCHANGED list PROVE ListTypes'
  BY <1>1 DEF list, ListTypes
<1>2. ASSUME NEW j \in Jobs, Working(j) PROVE ListTypes'
  <2>1. Id[j] \in Ids
    BY Lengths
  <2>2. ASSUME Over(j) PROVE ListTypes'
    BY <1>1, <2>1, <2>2, ListChanges DEF Over, NextFile, FileEnds
  <2>3. CASE Submit(j) \/ Acquire(j) \/ FolderEnds(j)
    BY <2>1, <2>3, ListChanges DEF Submit, Acquire, FolderEnds
  <2>4. CASE SubmitFails(j)
    BY <2>1, <2>4 DEF SubmitFails, ListTypes
  <2>5. CASE TransferFails(j) \/ OnRejected(j) \/ OnAck(j)
    BY <2>2, <2>5 DEF TransferFails, OnRejected, OnAck
  <2>6. CASE SeesCancel(j)
    BY <1>1, <2>1, <2>6, ListChanges DEF SeesCancel, NextFile
  <2>7. CASE OnAccepted(j) \/ NextOfFolder(j) \/ SeesNone(j) \/ SendChunk(j) \/ ClearFlag(j)
    BY <1>1, <2>7 DEF OnAccepted, NextOfFolder, SeesNone, SendChunk, ClearFlag
  <2> QED BY <1>2, <2>3, <2>4, <2>5, <2>6, <2>7 DEF Working, Run
<1>3. ASSUME User PROVE ListTypes'
  <2>1. ASSUME NEW i \in Ids, Dismiss(i) \/ ShowPaused(i) \/ ShowResumed(i)
        PROVE  ListTypes'
    BY <2>1, ListChanges DEF Dismiss, ShowPaused, ShowResumed
  <2>2. ASSUME NEW i \in Ids,
               CancelTransfer(i) \/ CancelFailed(i) \/ PauseTransfer(i) \/ ResumeTransfer(i)
        PROVE  ListTypes'
    BY <1>1, <2>2 DEF CancelTransfer, CancelFailed, PauseTransfer, ResumeTransfer, Begin
  <2>3. ASSUME NEW i \in Ids, NEW c \in Command, Click(i, c) PROVE ListTypes'
    BY <1>1, <2>3 DEF Click, Give
  <2>4. CASE PauseAll \/ ResumeAll
    BY <1>1, <2>4 DEF PauseAll, ResumeAll, Give
  <2> QED BY <1>3, <2>1, <2>2, <2>3, <2>4 DEF User
<1> QED BY <1>1, <1>2, <1>3, Split, ReceiverKeeps DEF UpdateMaxConcurrent, vars

LEMMA FlagStep ==
  ASSUME FlagTypes, ListTypes, [Next]_vars
  PROVE  FlagTypes'
<1> USE DEF FlagTypes
<1>0. MaxEvents \in Nat
  BY ConstantsOK DEF ConstantsOK
<1>1. ASSUME NEW j \in Jobs, Working(j) PROVE FlagTypes'
  <2>1. events' \in 0..MaxEvents
    <3>1. CASE SubmitFails(j) \/ TransferFails(j)
      BY <1>0, <3>1 DEF SubmitFails, TransferFails
    <3>2. CASE Submit(j) \/ Run(j)
      BY <3>2 DEF Submit, Run, OnRejected, OnAccepted, Acquire, NextOfFolder, FolderEnds,
                  SeesCancel, SeesNone, SendChunk, OnAck, ClearFlag
    <3> QED BY <1>1, <3>1, <3>2 DEF Working
  <2> QED BY <1>1, <2>1, WorkKeeps DEF commands
<1>2. ASSUME NEW c \in Command, NEW ids \in SUBSET Ids, Give(c, ids) PROVE FlagTypes'
  <2>1. {c} \X {i \in ids : Quiet(i)} \subseteq Command \X Ids
    OBVIOUS
  <2>2. events' \in 0..MaxEvents
    BY <1>0, <1>2 DEF Give
  <2> QED BY <1>2, <2>1, <2>2 DEF Give, flags
<1>3. ASSUME User PROVE FlagTypes'
  <2>1. ASSUME NEW i \in Ids, NEW c \in Command, Begin(i, c), UNCHANGED flags PROVE FlagTypes'
    BY <2>1 DEF Begin, flags
  <2>2. ASSUME NEW i \in Ids, CancelTransfer(i) PROVE FlagTypes'
    BY <2>2 DEF CancelTransfer
  <2>3. ASSUME NEW i \in Ids, CancelFailed(i) PROVE FlagTypes'
    BY <2>1, <2>3 DEF CancelFailed, Command
  <2>4. ASSUME NEW i \in Ids, Dismiss(i) \/ ShowPaused(i) \/ ShowResumed(i) PROVE FlagTypes'
    BY <2>4 DEF Dismiss, ShowPaused, ShowResumed, Finish, flags
  <2>5. ASSUME NEW i \in Ids, PauseTransfer(i) \/ ResumeTransfer(i) PROVE FlagTypes'
    BY <2>5 DEF PauseTransfer, ResumeTransfer, Begin, Command
  <2>6. ASSUME NEW i \in Ids, NEW c \in Command, Click(i, c) PROVE FlagTypes'
    BY <1>2, <2>6 DEF Click
  <2>7. CASE PauseAll \/ ResumeAll
    BY <1>2, <2>7 DEF PauseAll, ResumeAll, Command, ListTypes
  <2> QED BY <1>3, <2>2, <2>3, <2>4, <2>5, <2>6, <2>7 DEF User
<1>4. CASE UpdateMaxConcurrent
  BY <1>0, <1>4 DEF UpdateMaxConcurrent, flags, commands
<1>5. CASE UNCHANGED <<flags, commands, events>>
  BY <1>5 DEF flags, commands
<1> QED BY <1>1, <1>3, <1>4, <1>5, Split, ReceiverKeeps DEF vars

-----------------------------------------------------------------------------
(* Commands: one at a time on an entry, and the flag before the entry when *)
(* pausing and when resuming.                                              *)
OneCommand ==
  \A i \in Ids, c, d \in Command :
    /\ <<c, i>> \in clicks \cup midway /\ <<d, i>> \in clicks \cup midway => c = d
    /\ <<c, i>> \notin clicks \cap midway
PausedFirst == \A i \in Ids : <<"pause", i>> \in midway => i \in paused

CommandInv == OneCommand /\ PausedFirst /\ ShownPausedIsPaused

LEMMA CommandStart == Init => CommandInv
  BY DEF Init, CommandInv, OneCommand, PausedFirst, ShownPausedIsPaused

LEMMA CommandStep ==
  ASSUME Types, CommandInv, [Next]_vars
  PROVE  CommandInv'
<1> USE DEF CommandInv
<1>0. /\ shownPaused \subseteq Ids
      /\ clicks \subseteq Command \X Ids /\ midway \subseteq Command \X Ids
  BY DEF Types, ListTypes, FlagTypes
<1>1. ASSUME shownPaused' \subseteq shownPaused, UNCHANGED <<paused, commands>>
      PROVE  CommandInv'
  BY <1>1 DEF commands, OneCommand, PausedFirst, ShownPausedIsPaused
<1>2. ASSUME NEW c \in Command, NEW ids \in SUBSET Ids, Give(c, ids) PROVE CommandInv'
  <2>1. /\ clicks' = clicks \cup ({c} \X {i \in ids : Quiet(i)})
        /\ UNCHANGED <<paused, shownPaused, midway>>
    BY <1>2 DEF Give, list, flags
  <2>2. OneCommand'
    BY <1>0, <2>1 DEF OneCommand, Quiet
  <2> QED BY <2>1, <2>2 DEF PausedFirst, ShownPausedIsPaused
<1>3. ASSUME NEW i \in Ids, NEW c \in Command, Begin(i, c) PROVE OneCommand'
  BY <1>0, <1>3 DEF Begin, OneCommand
<1>4. ASSUME NEW i \in Ids, NEW c \in Command, Finish(i, c) PROVE OneCommand'
  BY <1>0, <1>4 DEF Finish, OneCommand, commands
<1>5. ASSUME NEW i \in Ids, CancelTransfer(i) PROVE CommandInv'
  <2>1. /\ clicks' = clicks \ {<<"cancel", i>>}
        /\ UNCHANGED <<paused, shownPaused, midway>>
    BY <1>5 DEF CancelTransfer, list
  <2>2. OneCommand'
    BY <2>1 DEF OneCommand
  <2> QED BY <2>1, <2>2 DEF PausedFirst, ShownPausedIsPaused
<1>6. ASSUME NEW i \in Ids, CancelFailed(i) PROVE CommandInv'
  <2>1. OneCommand'
    BY <1>3, <1>6 DEF CancelFailed, Command
  <2> QED BY <1>6, <2>1 DEF CancelFailed, Begin, flags, list, PausedFirst, ShownPausedIsPaused
<1>7. ASSUME NEW i \in Ids, Dismiss(i) PROVE CommandInv'
  <2>1. OneCommand'
    BY <1>4, <1>7 DEF Dismiss, Command
  <2> QED BY <1>7, <2>1 DEF Dismiss, Finish, RemoveProgress, flags, PausedFirst, ShownPausedIsPaused
<1>8. ASSUME NEW i \in Ids, PauseTransfer(i) PROVE CommandInv'
  <2>1. OneCommand'
    BY <1>3, <1>8 DEF PauseTransfer, Command
  <2> QED BY <1>8, <2>1 DEF PauseTransfer, Begin, list, PausedFirst, ShownPausedIsPaused
<1>9. ASSUME NEW i \in Ids, ShowPaused(i) PROVE CommandInv'
  <2>1. OneCommand'
    BY <1>4, <1>9 DEF ShowPaused, Command
  <2>2. i \in paused
    BY <1>9 DEF ShowPaused, Finish, PausedFirst
  <2> QED BY <1>9, <2>1, <2>2 DEF ShowPaused, Finish, SetPaused, flags, PausedFirst, ShownPausedIsPaused
<1>10. ASSUME NEW i \in Ids, ResumeTransfer(i) PROVE CommandInv'
  <2>1. OneCommand'
    BY <1>3, <1>10 DEF ResumeTransfer, Command
  <2>2. <<"pause", i>> \notin midway
    BY <1>10 DEF ResumeTransfer, Begin, OneCommand, Command
  <2> QED BY <1>10, <2>1, <2>2 DEF ResumeTransfer, Begin, list, PausedFirst, ShownPausedIsPaused
<1>11. ASSUME NEW i \in Ids, ShowResumed(i) PROVE CommandInv'
  <2>1. OneCommand'
    BY <1>4, <1>11 DEF ShowResumed, Command
  <2> QED BY <1>11, <2>1 DEF ShowResumed, Finish, SetPaused, flags, PausedFirst, ShownPausedIsPaused
<1>12. ASSUME NEW i \in Ids, NEW c \in Command, Click(i, c) PROVE CommandInv'
  BY <1>2, <1>12 DEF Click
<1>13. CASE PauseAll \/ ResumeAll
  BY <1>0, <1>2, <1>13 DEF PauseAll, ResumeAll, Command
<1>14. CASE User
  BY <1>5, <1>6, <1>7, <1>8, <1>9, <1>10, <1>11, <1>12, <1>13, <1>14 DEF User
<1>15. ASSUME NEW j \in Jobs, Working(j) PROVE CommandInv'
  BY <1>1, <1>15, WorkKeeps
<1> QED BY <1>1, <1>14, <1>15, Split, ReceiverKeeps
        DEF UpdateMaxConcurrent, vars, list, flags

-----------------------------------------------------------------------------
(* Permits.  A job in line waits for a permit and has none; a job that     *)
(* sends has one; no more have one of a semaphore than its limit.          *)
Holders(s) == {j \in Jobs : held[j] = s}
Sending    == {"loop", "poll", "ack"}

Waiting == \A s \in Sems : \A n \in 1..Len(line[s]) : pc[line[s][n]] = "permit"
InTurn  == \A s, t \in Sems : \A n \in 1..Len(line[s]), m \in 1..Len(line[t]) :
             line[s][n] = line[t][m] => s = t /\ n = m
(* Nobody who waits is forgotten.                                          *)
NoTurnLost ==
  \A j \in Jobs : pc[j] = "permit" =>
    \E s \in Sems : \E n \in 1..Len(line[s]) : line[s][n] = j
Held ==
  \A j \in Jobs :
    /\ pc[j] \in Sending => held[j] # None
    /\ pc[j] \in {"idle", "permit", "over"} => held[j] = None
    /\ j \in Folders /\ pc[j] \in {"next", "asking", "clearing"} => held[j] # None
    /\ j \notin Folders => pc[j] # "next" /\ (pc[j] = "asking" => held[j] = None)
(* No more transfers send at a time than the limit they were started under.*)
LimitKept ==
  /\ \A s \in Sems : /\ IsFiniteSet(Holders(s))
                     /\ Cardinality(Holders(s)) <= Limits[s]
  /\ \A j \in Jobs : pc[j] \in Sending => \E s \in Sems : j \in Holders(s)

LineInv   == Waiting /\ InTurn /\ NoTurnLost
PermitInv == PermitTypes /\ LineInv /\ Held /\ LimitKept

(* The three ways a job goes on.                                           *)
Queues(j) == /\ pc[j] # "permit" /\ held[j] = None
             /\ Goto(j, "permit") /\ JoinLine(j) /\ UNCHANGED held
Serves(j) == \E s \in Sems :
  /\ pc[j] = "permit" /\ line[s] # <<>> /\ Head(line[s]) = j /\ Free(s)
  /\ held' = [held EXCEPT ![j] = s] /\ line' = [line EXCEPT ![s] = Tail(@)]
  /\ Goto(j, IF j \in Folders THEN "next" ELSE "loop")
Goes(j, q) == /\ pc[j] # "permit" /\ q # "permit" /\ q # "idle"
              /\ Goto(j, q) /\ UNCHANGED line
              /\ \/ UNCHANGED held
                 \/ held' = [held EXCEPT ![j] = None]
              /\ q \in Sending => held'[j] # None
              /\ q = "over" => held'[j] = None
              /\ j \in Folders /\ q \in {"next", "asking", "clearing"} => held'[j] # None
              /\ j \notin Folders => q # "next" /\ (q = "asking" => held'[j] = None)

LEMMA PermitMoves ==
  ASSUME Types, Held, NEW j \in Jobs, Working(j)
  PROVE  Queues(j) \/ Serves(j) \/ \E q \in Places : Goes(j, q)
<1> USE DEF Types, JobTypes, PermitTypes
<1>0. None \notin Sems
  BY ConstantsOK DEF ConstantsOK
<1>00. pc[j] \in Places /\ held[j] \in Sems \cup {None}
  OBVIOUS
<1> DEFINE P == \E q \in Places : Goes(j, q)
<1>1. ASSUME Over(j), UNCHANGED line, pc[j] \in {"asking", "loop", "poll", "ack"} PROVE P
  <2>1. CASE j \in Folders
    <3>1. Goes(j, "next")
      BY <1>00, <1>1, <2>1 DEF Over, NextFile, Goes, Sending, Held
    <3> QED BY <3>1 DEF Places
  <2>2. CASE j \notin Folders
    <3>1. Goes(j, "over")
      BY <1>00, <1>1, <2>2 DEF Over, FileEnds, Return, Goes, Sending, Held
    <3> QED BY <3>1 DEF Places
  <2> QED BY <2>1, <2>2
<1>2. CASE Submit(j)
  <2>1. CASE j \in Folders
    BY <1>2, <2>1 DEF Submit, Queues, Held
  <2>2. CASE j \notin Folders
    <3>1. Goes(j, "asking")
      BY <1>2, <2>2 DEF Submit, Goes, Sending, Held
    <3> QED BY <3>1 DEF Places
  <2> QED BY <2>1, <2>2
<1>3. CASE SubmitFails(j) \/ ClearFlag(j)
  <2>1. Goes(j, "over")
    BY <1>3 DEF SubmitFails, ClearFlag, Return, Goes, Sending
  <2> QED BY <2>1 DEF Places
<1>4. CASE TransferFails(j) \/ OnRejected(j) \/ OnAck(j)
  BY <1>1, <1>4 DEF TransferFails, OnRejected, OnAck
<1>5. CASE OnAccepted(j)
  <2>1. CASE j \in Folders
    <3>1. Goes(j, "loop")
      BY <1>5, <2>1 DEF OnAccepted, permits, Goes, Sending, Held
    <3> QED BY <3>1 DEF Places
  <2>2. CASE j \notin Folders
    BY <1>5, <2>2 DEF OnAccepted, Queues, Held
  <2> QED BY <2>1, <2>2
<1>6. CASE Acquire(j)
  BY <1>6 DEF Acquire, Serves
<1>7. CASE NextOfFolder(j)
  <2>1. Goes(j, "asking")
    BY <1>7 DEF NextOfFolder, permits, Goes, Sending, Held
  <2> QED BY <2>1 DEF Places
<1>8. CASE FolderEnds(j)
  <2>1. Goes(j, "clearing")
    BY <1>8 DEF FolderEnds, permits, Goes, Sending, Held
  <2> QED BY <2>1 DEF Places
<1>9. CASE SeesCancel(j)
  <2>1. CASE j \in Folders
    <3>1. Goes(j, "next")
      BY <1>9, <2>1 DEF SeesCancel, NextFile, Goes, Sending, Held
    <3> QED BY <3>1 DEF Places
  <2>2. CASE j \notin Folders
    <3>1. Goes(j, "clearing")
      BY <1>9, <2>2 DEF SeesCancel, Goes, Sending, Held
    <3> QED BY <3>1 DEF Places
  <2> QED BY <2>1, <2>2
<1>10. CASE SeesNone(j)
  <2>1. Goes(j, "poll")
    BY <1>10 DEF SeesNone, permits, Goes, Sending, Held
  <2> QED BY <2>1 DEF Places
<1>11. CASE SendChunk(j)
  <2>1. Goes(j, "ack") \/ Goes(j, "loop")
    BY <1>11 DEF SendChunk, permits, Goes, Sending, Held
  <2> QED BY <2>1 DEF Places
<1> QED BY <1>2, <1>3, <1>4, <1>5, <1>6, <1>7, <1>8, <1>9, <1>10, <1>11
        DEF Working, Run

LEMMA PermitStart == Init => PermitInv
<1> SUFFICES ASSUME Init PROVE PermitInv
  OBVIOUS
<1>1. PermitTypes
  BY TypesStart DEF Types
<1>2. \A s \in Sems : line[s] = <<>> /\ Len(line[s]) = 0
  BY DEF Init
<1>3. LineInv
  BY <1>2 DEF Init, LineInv, Waiting, InTurn, NoTurnLost
<1>4. Held
  BY DEF Init, Held, Sending
<1>5. \A s \in Sems : Holders(s) = {}
  BY ConstantsOK DEF Init, Holders, ConstantsOK
<1>6. \A s \in Sems : 0 <= Limits[s]
  BY ConstantsOK DEF ConstantsOK
<1>7. LimitKept
  BY <1>5, <1>6, FS_EmptySet DEF LimitKept, Init, Sending
<1> QED BY <1>1, <1>3, <1>4, <1>7 DEF PermitInv

LEMMA QueuesStep ==
  ASSUME Types, PermitInv, NEW j \in Jobs, Queues(j), sem' = sem
  PROVE  PermitInv'
<1> DEFINE q == line[sem]
<1>0. /\ sem \in Sems /\ line \in [Sems -> Seq(Jobs)] /\ pc \in [Jobs -> Places]
      /\ held \in [Jobs -> Sems \cup {None}]
  BY DEF Types, PermitTypes, JobTypes
<1>1. /\ Append(q, j) \in Seq(Jobs) /\ Len(q) \in Nat /\ Len(Append(q, j)) = Len(q) + 1
      /\ \A k \in 1..Len(q) : Append(q, j)[k] = q[k]
      /\ Append(q, j)[Len(q) + 1] = j
      /\ \A k \in 1..Len(Append(q, j)) : k \in 1..Len(q) \/ k = Len(q) + 1
  BY <1>0, PutElements
<1>2. line'[sem] = Append(q, j) /\ \A s \in Sems \ {sem} : line'[s] = line[s]
  BY <1>0 DEF Queues, JoinLine
<1>3. pc'[j] = "permit" /\ \A k \in Jobs \ {j} : pc'[k] = pc[k]
  BY <1>0 DEF Queues, Goto
<1>4. PermitTypes'
  BY <1>0, <1>1 DEF PermitTypes, Queues, JoinLine
<1>5. \A s \in Sems : \A k \in 1..Len(line'[s]) :
         \/ k \in 1..Len(line[s]) /\ line'[s][k] = line[s][k] /\ line[s][k] # j
         \/ s = sem /\ k = Len(line[sem]) + 1 /\ line'[s][k] = j
  <2>1. \A s \in Sems : \A k \in 1..Len(line[s]) : line[s][k] # j
    BY DEF PermitInv, LineInv, Waiting, Queues
  <2> QED BY <1>1, <1>2, <2>1
<1>6. Waiting'
  <2>1. \A s \in Sems : \A k \in 1..Len(line[s]) : line[s][k] \in Jobs
    BY <1>0, ElementOfSeq
  <2> QED BY <1>3, <1>5, <2>1 DEF PermitInv, LineInv, Waiting
<1>7. InTurn'
  <2> SUFFICES ASSUME NEW s \in Sems, NEW t \in Sems, NEW n \in 1..Len(line'[s]),
                      NEW m \in 1..Len(line'[t]), line'[s][n] = line'[t][m]
               PROVE  s = t /\ n = m
    BY DEF InTurn
  <2>1. \/ n \in 1..Len(line[s]) /\ line'[s][n] = line[s][n] /\ line[s][n] # j
        \/ s = sem /\ n = Len(line[sem]) + 1 /\ line'[s][n] = j
    BY <1>5
  <2>2. \/ m \in 1..Len(line[t]) /\ line'[t][m] = line[t][m] /\ line[t][m] # j
        \/ t = sem /\ m = Len(line[sem]) + 1 /\ line'[t][m] = j
    BY <1>5
  <2>3. CASE n \in 1..Len(line[s]) /\ m \in 1..Len(line[t]) /\ line[s][n] = line[t][m]
    BY <2>3 DEF PermitInv, LineInv, InTurn
  <2> QED BY <2>1, <2>2, <2>3
<1>8. NoTurnLost'
  <2>1. \A s \in Sems : \A k \in 1..Len(line[s]) :
          k \in 1..Len(line'[s]) /\ line'[s][k] = line[s][k]
    BY <1>1, <1>2
  <2>2. Len(q) + 1 \in 1..Len(line'[sem]) /\ line'[sem][Len(q) + 1] = j
    BY <1>1, <1>2
  <2>3. ASSUME NEW k \in Jobs, pc[k] = "permit"
        PROVE  \E s \in Sems : \E n \in 1..Len(line'[s]) : line'[s][n] = k
    <3>1. PICK s \in Sems : \E n \in 1..Len(line[s]) : line[s][n] = k
      BY <2>3 DEF PermitInv, LineInv, NoTurnLost
    <3> QED BY <2>1, <3>1
  <2> QED BY <1>0, <1>3, <2>2, <2>3 DEF NoTurnLost
<1>9. Held'
  BY <1>3 DEF PermitInv, Held, Queues, Sending
<1>10. LimitKept'
  BY <1>3 DEF PermitInv, LimitKept, Holders, Queues, Sending
<1> QED BY <1>4, <1>6, <1>7, <1>8, <1>9, <1>10 DEF PermitInv, LineInv

LEMMA ServesStep ==
  ASSUME Types, PermitInv, NEW j \in Jobs, Serves(j), sem' = sem
  PROVE  PermitInv'
<1>1. PICK s \in Sems :
        /\ pc[j] = "permit" /\ line[s] # <<>> /\ Head(line[s]) = j /\ Free(s)
        /\ held' = [held EXCEPT ![j] = s] /\ line' = [line EXCEPT ![s] = Tail(@)]
        /\ Goto(j, IF j \in Folders THEN "next" ELSE "loop")
  BY DEF Serves
<1> DEFINE q == line[s]
<1>0. /\ sem \in Sems /\ line \in [Sems -> Seq(Jobs)] /\ pc \in [Jobs -> Places]
      /\ held \in [Jobs -> Sems \cup {None}] /\ None \notin Sems
  BY ConstantsOK DEF Types, PermitTypes, JobTypes, ConstantsOK
<1>2. /\ Tail(q) \in Seq(Jobs) /\ Len(q) \in Nat \ {0} /\ Len(Tail(q)) = Len(q) - 1
      /\ q[1] = j
      /\ \A k \in 1..Len(Tail(q)) : k + 1 \in 1..Len(q) /\ Tail(q)[k] = q[k + 1]
  BY <1>0, <1>1, TakeElements
<1>3. line'[s] = Tail(q) /\ \A t \in Sems \ {s} : line'[t] = line[t]
  BY <1>0, <1>1
<1>4. /\ pc'[j] \in {"next", "loop"} /\ \A k \in Jobs \ {j} : pc'[k] = pc[k]
      /\ j \notin Folders => pc'[j] = "loop"
      /\ held'[j] = s /\ \A k \in Jobs \ {j} : held'[k] = held[k]
      /\ held[j] = None
  BY <1>0, <1>1 DEF Goto, PermitInv, Held
<1>5. PermitTypes'
  BY <1>0, <1>1, <1>2 DEF PermitTypes
<1>6. \A t \in Sems : \A k \in 1..Len(line'[t]) :
         \/ t # s /\ k \in 1..Len(line[t]) /\ line'[t][k] = line[t][k]
         \/ t = s /\ k + 1 \in 1..Len(line[s]) /\ line'[t][k] = line[s][k + 1] /\ k + 1 # 1
  <2>1. \A k \in 1..Len(Tail(q)) : k + 1 # 1
    BY <1>2
  <2> QED BY <1>2, <1>3, <2>1
<1>7. \A t \in Sems : \A k \in 1..Len(line'[t]) : line'[t][k] \in Jobs \ {j}
  <2>1. \A t \in Sems : \A k \in 1..Len(line[t]) :
           line[t][k] \in Jobs /\ (line[t][k] = j => t = s /\ k = 1)
    <3>1. 1 \in 1..Len(q)
      BY <1>2
    <3> QED BY <1>0, <1>2, <3>1, ElementOfSeq DEF PermitInv, LineInv, InTurn
  <2> QED BY <1>6, <2>1
<1>8. Waiting'
  BY <1>4, <1>6, <1>7 DEF PermitInv, LineInv, Waiting
<1>9. InTurn'
  <2> SUFFICES ASSUME NEW t \in Sems, NEW u \in Sems, NEW n \in 1..Len(line'[t]),
                      NEW m \in 1..Len(line'[u]), line'[t][n] = line'[u][m]
               PROVE  t = u /\ n = m
    BY DEF InTurn
  <2>1. n \in Nat /\ m \in Nat /\ (n + 1 = m + 1 => n = m)
    OBVIOUS
  <2>2. \/ t # s /\ n \in 1..Len(line[t]) /\ line'[t][n] = line[t][n]
        \/ t = s /\ n + 1 \in 1..Len(line[s]) /\ line'[t][n] = line[s][n + 1]
    BY <1>6
  <2>3. \/ u # s /\ m \in 1..Len(line[u]) /\ line'[u][m] = line[u][m]
        \/ u = s /\ m + 1 \in 1..Len(line[s]) /\ line'[u][m] = line[s][m + 1]
    BY <1>6
  <2>4. \A x \in Sems, y \in Sems : \A a \in 1..Len(line[x]), b \in 1..Len(line[y]) :
          line[x][a] = line[y][b] => x = y /\ a = b
    BY DEF PermitInv, LineInv, InTurn
  <2>5. CASE t = s /\ u = s
    BY <2>1, <2>2, <2>3, <2>4, <2>5
  <2>6. CASE t # s \/ u # s
    BY <2>2, <2>3, <2>4, <2>6
  <2> QED BY <2>5, <2>6
<1>10. NoTurnLost'
  <2> SUFFICES ASSUME NEW k \in Jobs, pc'[k] = "permit"
               PROVE  \E t \in Sems : \E n \in 1..Len(line'[t]) : line'[t][n] = k
    BY DEF NoTurnLost
  <2>1. k # j /\ pc[k] = "permit"
    BY <1>4
  <2>0. PICK t \in Sems : \E n \in 1..Len(line[t]) : line[t][n] = k
    BY <2>1 DEF PermitInv, LineInv, NoTurnLost
  <2>2. PICK n \in 1..Len(line[t]) : line[t][n] = k
    BY <2>0
  <2>3. CASE t # s
    BY <1>3, <2>2, <2>3
  <2>4. CASE t = s
    <3>1. n # 1
      BY <1>2, <2>1, <2>2, <2>4
    <3>2. n - 1 \in 1..Len(Tail(q)) /\ Tail(q)[n - 1] = q[n]
      BY <1>2, <2>2, <2>4, <3>1
    <3> QED BY <1>3, <2>2, <2>4, <3>2
  <2> QED BY <2>3, <2>4
<1>11. Held'
  BY <1>0, <1>4 DEF PermitInv, Held, Sending
<1>12. LimitKept'
  <2>1. Holders(s)' = Holders(s) \cup {j} /\ j \notin Holders(s)
    BY <1>0, <1>4 DEF Holders
  <2>2. \A t \in Sems \ {s} : Holders(t)' = Holders(t)
    BY <1>0, <1>4 DEF Holders
  <2>3. /\ IsFiniteSet(Holders(s)') /\ Cardinality(Holders(s)') = Cardinality(Holders(s)) + 1
        /\ Cardinality(Holders(s)) \in Nat
    BY <2>1, FS_AddElement, FS_CardinalityType DEF PermitInv, LimitKept
  <2>4. Cardinality(Holders(s)) < Limits[s] /\ Limits[s] \in Nat
    BY <1>1, ConstantsOK DEF Free, Holders, ConstantsOK
  <2>5. Cardinality(Holders(s)') <= Limits[s]
    BY <2>3, <2>4
  <2>6. ASSUME NEW k \in Jobs, pc'[k] \in Sending PROVE \E t \in Sems : k \in Holders(t)'
    BY <1>0, <1>4, <2>1, <2>2, <2>6 DEF PermitInv, LimitKept, Holders, Sending
  <2>7. \A t \in Sems : IsFiniteSet(Holders(t)') /\ Cardinality(Holders(t)') <= Limits[t]
    BY <2>2, <2>3, <2>5 DEF PermitInv, LimitKept
  <2> QED BY <2>6, <2>7 DEF LimitKept
<1> QED BY <1>5, <1>8, <1>9, <1>10, <1>11, <1>12 DEF PermitInv, LineInv

LEMMA GoesStep ==
  ASSUME Types, PermitInv, NEW j \in Jobs, NEW p \in Places, Goes(j, p), sem' = sem
  PROVE  PermitInv'
<1>0. /\ line \in [Sems -> Seq(Jobs)] /\ pc \in [Jobs -> Places]
      /\ held \in [Jobs -> Sems \cup {None}] /\ None \notin Sems
  BY ConstantsOK DEF Types, PermitTypes, JobTypes, ConstantsOK
<1>1. /\ pc'[j] = p /\ p # "permit" /\ pc[j] # "permit"
      /\ \A k \in Jobs \ {j} : pc'[k] = pc[k]
  BY <1>0 DEF Goes, Goto
<1>2. PermitTypes'
  BY <1>0 DEF Goes, Types, PermitTypes
<1>3. /\ \A k \in Jobs \ {j} : held'[k] = held[k]
      /\ held'[j] \in {held[j], None}
  BY <1>0 DEF Goes
<1>4. LineInv'
  <2>1. \A s \in Sems : \A k \in 1..Len(line[s]) : line[s][k] \in Jobs
    BY <1>0, ElementOfSeq
  <2>2. line' = line
    BY DEF Goes
  <2> QED BY <1>1, <2>1, <2>2 DEF PermitInv, LineInv, Waiting, InTurn, NoTurnLost
<1>5. Held'
  BY <1>1, <1>3 DEF PermitInv, Held, Goes, Sending
<1>6. LimitKept'
  <2>1. \A s \in Sems : Holders(s)' \subseteq Holders(s)
    BY <1>0, <1>3 DEF Holders
  <2>2. \A s \in Sems : /\ IsFiniteSet(Holders(s)')
                        /\ Cardinality(Holders(s)') <= Cardinality(Holders(s))
                        /\ Cardinality(Holders(s)') \in Nat /\ Cardinality(Holders(s)) \in Nat
    BY <2>1, FS_Subset, FS_CardinalityType DEF PermitInv, LimitKept
  <2>3. \A s \in Sems : Limits[s] \in Nat /\ Cardinality(Holders(s)) <= Limits[s]
    BY ConstantsOK DEF ConstantsOK, PermitInv, LimitKept
  <2>4. \A s \in Sems : Cardinality(Holders(s)') <= Limits[s]
    BY <2>2, <2>3
  <2>5. \A k \in Jobs : pc'[k] \in Sending => held'[k] \in Sems
    BY <1>2, <1>5 DEF Held, PermitTypes
  <2> QED BY <2>2, <2>4, <2>5 DEF LimitKept, Holders
<1> QED BY <1>2, <1>4, <1>5, <1>6 DEF PermitInv

LEMMA PermitStep ==
  ASSUME Types, PermitInv, [Next]_vars
  PROVE  PermitInv'
<1>1. ASSUME NEW j \in Jobs, Working(j) PROVE PermitInv'
  BY <1>1, WorkKeeps, PermitMoves, QueuesStep, ServesStep, GoesStep DEF PermitInv
<1>2. ASSUME UNCHANGED <<pc, line, held>>, sem' \in Sems PROVE PermitInv'
  <2>1. PermitTypes'
    BY <1>2 DEF PermitInv, PermitTypes
  <2>2. LineInv'
    BY <1>2 DEF PermitInv, LineInv, Waiting, InTurn, NoTurnLost
  <2>3. Held' /\ LimitKept'
    BY <1>2 DEF PermitInv, Held, LimitKept, Holders
  <2> QED BY <2>1, <2>2, <2>3 DEF PermitInv
<1>3. CASE UpdateMaxConcurrent
  <2>1. sem' \in Sems
    BY <1>3, ConstantsOK DEF UpdateMaxConcurrent, Types, PermitTypes, Sems, ConstantsOK
  <2> QED BY <1>2, <1>3, <2>1 DEF UpdateMaxConcurrent, job
<1>4. CASE UNCHANGED <<job, permits>>
  BY <1>2, <1>4 DEF job, permits, Types, PermitTypes
<1> QED BY <1>1, <1>3, <1>4, Split, UserKeeps, ReceiverKeeps DEF vars

-----------------------------------------------------------------------------
(* Prompts.  A request that waits belongs to a job that asks, and whoever  *)
(* is in pending_confirmations waits for the answer about that file.       *)
AskersWait == \A j \in Jobs : Waits(j) => pc[j] = "asking"
AnswersGoHome ==
  \A f \in Files : pending[f] # None =>
    request[pending[f]] = "asking" /\ FileOf(pending[f]) = f
PromptInv == PromptTypes /\ AskersWait /\ AnswersGoHome

LEMMA PromptStart == Init => PromptInv
<1> SUFFICES ASSUME Init PROVE PromptInv
  OBVIOUS
<1>1. PromptTypes
  BY TypesStart DEF Types
<1> QED BY <1>1 DEF Init, PromptInv, AskersWait, AnswersGoHome, Waits

LEMMA AskedFile ==
  ASSUME JobTypes, NEW j \in Jobs, pc[j] = "asking"
  PROVE  FileOf(j) \in Files
  BY Lengths DEF JobTypes, AtAFile, FileOf

(* Work does not disturb a request that waits.                             *)
LEMMA WorkLeaves ==
  ASSUME Types, PromptInv, NEW j \in Jobs, Working(j)
  PROVE  /\ ~Waits(j)
         /\ \A k \in Jobs \ {j} : pc'[k] = pc[k] /\ at'[k] = at[k]
<1> USE DEF Types, JobTypes
<1>1. ASSUME Waits(j) PROVE FALSE
  <2>1. pc[j] = "asking"
    BY <1>1 DEF PromptInv, AskersWait
  <2> QED BY <1>1, <2>1
          DEF Waits, Working, Run, Submit, SubmitFails, TransferFails, OnRejected,
              OnAccepted, Acquire, NextOfFolder, FolderEnds, SeesCancel, SeesNone,
              SendChunk, OnAck, ClearFlag
<1>2. ASSUME Over(j) PROVE \A k \in Jobs \ {j} : pc'[k] = pc[k] /\ at'[k] = at[k]
  BY <1>2 DEF Over, NextFile, FileEnds, Return, Goto
<1>3. \A k \in Jobs \ {j} : pc'[k] = pc[k] /\ at'[k] = at[k]
  <2>1. CASE TransferFails(j) \/ OnRejected(j) \/ OnAck(j)
    BY <1>2, <2>1 DEF TransferFails, OnRejected, OnAck
  <2>2. CASE Submit(j) \/ SubmitFails(j) \/ ClearFlag(j)
    BY <2>2 DEF Submit, SubmitFails, ClearFlag, Return, Goto
  <2>3. CASE OnAccepted(j) \/ Acquire(j) \/ NextOfFolder(j) \/ FolderEnds(j)
    BY <2>3 DEF OnAccepted, Acquire, NextOfFolder, FolderEnds, Goto
  <2>4. CASE SeesCancel(j) \/ SeesNone(j) \/ SendChunk(j)
    BY <2>4 DEF SeesCancel, SeesNone, SendChunk, NextFile, Goto
  <2> QED BY <2>1, <2>2, <2>3, <2>4 DEF Working, Run
<1> QED BY <1>1, <1>3

LEMMA PromptStep ==
  ASSUME Types, PromptInv, [Next]_vars
  PROVE  PromptInv'
<1>0. None \notin Jobs
  BY ConstantsOK DEF ConstantsOK
<1>00. /\ request \in [Jobs -> Answers]
       /\ pending \in [Files -> Jobs \cup {None}] /\ prompted \subseteq Files
       /\ AskersWait /\ AnswersGoHome
  BY DEF PromptInv, PromptTypes
<1>1. ASSUME NEW j \in Jobs, Working(j) PROVE PromptInv'
  <2>1. /\ ~Waits(j) /\ \A k \in Jobs \ {j} : pc'[k] = pc[k] /\ at'[k] = at[k]
    BY <1>1, WorkLeaves
  <2>2. /\ UNCHANGED <<pending, prompted>>
        /\ UNCHANGED request \/ request' = [request EXCEPT ![j] = "none"]
    BY <1>1, WorkKeeps
  <2>3. /\ ~Waits(j)' /\ \A k \in Jobs \ {j} : request'[k] = request[k]
        /\ request' \in [Jobs -> Answers]
    BY <1>00, <2>1, <2>2 DEF Waits, Answers
  <2>4. AskersWait'
    BY <1>00, <2>1, <2>3 DEF AskersWait, Waits
  <2>5. AnswersGoHome'
    <3> SUFFICES ASSUME NEW f \in Files, pending'[f] # None
                 PROVE  request'[pending'[f]] = "asking" /\ FileOf(pending[f])' = f
      BY <2>2 DEF AnswersGoHome
    <3>1. /\ pending'[f] = pending[f] /\ pending[f] \in Jobs
          /\ request[pending[f]] = "asking" /\ FileOf(pending[f]) = f
      BY <1>00, <2>2 DEF AnswersGoHome
    <3>2. pending[f] # j
      BY <2>1, <3>1 DEF Waits
    <3> QED BY <2>1, <2>3, <3>1, <3>2 DEF FileOf
  <2> QED BY <1>00, <2>2, <2>3, <2>4, <2>5 DEF PromptInv, PromptTypes
<1>2. ASSUME NEW j \in Jobs, Prompt(j) PROVE PromptInv'
  <2>1. pc[j] = "asking" /\ FileOf(j) \in Files
    BY <1>2, AskedFile DEF Prompt, Types
  <2>2. /\ request' = [request EXCEPT ![j] = "asking"] /\ UNCHANGED <<pc, at>>
        /\ pending' = [pending EXCEPT ![FileOf(j)] = j]
        /\ prompted' = prompted \cup {FileOf(j)} /\ request[j] = "none"
    BY <1>2 DEF Prompt, job
  <2>3. PromptTypes'
    BY <1>00, <2>1, <2>2 DEF PromptTypes, Answers
  <2>4. AskersWait'
    BY <1>00, <2>1, <2>2 DEF AskersWait, Waits
  <2>5. AnswersGoHome'
    BY <1>0, <1>00, <2>1, <2>2 DEF AnswersGoHome, FileOf
  <2> QED BY <2>3, <2>4, <2>5 DEF PromptInv
<1>3. ASSUME NEW j \in Jobs, Wakes(j) PROVE PromptInv'
  <2>1. /\ pc[j] = "asking" /\ UNCHANGED <<pc, at, pending>>
        /\ prompted' = prompted \ {FileOf(j)}
        /\ request' = [request EXCEPT ![j] = IF @ = "said yes" THEN "yes" ELSE "no"]
        /\ \/ request[j] \in {"said yes", "said no"}
           \/ request[j] = "asking" /\ pending[FileOf(j)] # j
    BY <1>3 DEF Wakes, job
  <2>2. PromptTypes'
    BY <1>00, <2>1 DEF PromptTypes, Answers
  <2>3. AskersWait'
    BY <1>00, <2>1 DEF AskersWait, Waits
  <2>4. AnswersGoHome'
    <3>1. \A f \in Files : pending[f] # j \/ j = None
      BY <1>00, <2>1 DEF AnswersGoHome
    <3> QED BY <1>00, <2>1, <3>1 DEF AnswersGoHome, FileOf
  <2> QED BY <2>2, <2>3, <2>4 DEF PromptInv
<1>4. ASSUME NEW f \in Files, NEW answer \in {"said yes", "said no"}, Say(f, answer)
      PROVE  PromptInv'
  <2> DEFINE h == pending[f]
  <2>1. /\ h \in Jobs /\ UNCHANGED <<pc, at, prompted>>
        /\ request' = [request EXCEPT ![h] = answer]
        /\ pending' = [pending EXCEPT ![f] = None]
    BY <1>00, <1>4 DEF Say, job
  <2>2. request[h] = "asking" /\ FileOf(h) = f
    BY <1>0, <1>00, <2>1 DEF AnswersGoHome
  <2>3. PromptTypes'
    BY <1>00, <2>1 DEF PromptTypes, Answers
  <2>4. AskersWait'
    BY <1>00, <2>1, <2>2 DEF AskersWait, Waits
  <2>5. AnswersGoHome'
    <3>1. \A g \in Files \ {f} : pending[g] # h
      BY <1>0, <1>00, <2>1, <2>2 DEF AnswersGoHome
    <3> SUFFICES ASSUME NEW g \in Files, pending'[g] # None
                 PROVE  request'[pending'[g]] = "asking" /\ FileOf(pending[g])' = g
      BY DEF AnswersGoHome
    <3>2. g # f /\ pending'[g] = pending[g] /\ pending[g] \in Jobs
      BY <1>00, <2>1
    <3>3. request[pending[g]] = "asking" /\ FileOf(pending[g]) = g /\ pending[g] # h
      BY <1>00, <3>1, <3>2 DEF AnswersGoHome
    <3> HIDE DEF h
    <3>4. request'[pending[g]] = request[pending[g]]
      BY <1>00, <2>1, <3>2, <3>3
    <3> QED BY <2>1, <3>2, <3>3, <3>4 DEF FileOf
  <2> QED BY <2>3, <2>4, <2>5 DEF PromptInv
<1>5. ASSUME UNCHANGED <<job, receiver>> PROVE PromptInv'
  BY <1>00, <1>5 DEF job, receiver, PromptInv, PromptTypes, AskersWait, AnswersGoHome, Waits, FileOf
<1>6. CASE Answering
  BY <1>4, <1>6 DEF Answering, ConfirmTransfer, RejectTransfer
<1>7. CASE UpdateMaxConcurrent
  BY <1>5, <1>7 DEF UpdateMaxConcurrent
<1> QED BY <1>1, <1>2, <1>3, <1>5, <1>6, <1>7, Split, UserKeeps DEF vars, Receive

-----------------------------------------------------------------------------
Sound == Types /\ CommandInv /\ PermitInv /\ PromptInv

LEMMA SoundAlways == Spec => []Sound
<1>1. Init => Sound
  BY TypesStart, CommandStart, PermitStart, PromptStart DEF Sound
<1>2. Sound /\ [Next]_vars => Sound'
  <2> SUFFICES ASSUME Sound, [Next]_vars PROVE Sound'
    OBVIOUS
  <2>1. Types /\ CommandInv /\ PermitInv /\ PromptInv
    BY DEF Sound
  <2>2. JobTypes /\ ListTypes /\ FlagTypes
    BY <2>1 DEF Types
  <2>3. JobTypes' /\ ListTypes' /\ FlagTypes'
    BY <2>2, JobStep, ListStep, FlagStep
  <2>4. CommandInv' /\ PermitInv' /\ PromptInv'
    BY <2>1, CommandStep, PermitStep, PromptStep
  <2> QED BY <2>3, <2>4 DEF Sound, Types, PermitInv, PromptInv
<1> QED BY <1>1, <1>2, PTL DEF Spec

(* Types.  A job never passes its last file or its last chunk.             *)
THEOREM TypesHold == Spec => []TypeOK
<1>1. Sound => TypeOK
  <2> SUFFICES ASSUME Sound PROVE TypeOK
    OBVIOUS
  <2>1. JobTypes /\ ListTypes /\ FlagTypes /\ PermitTypes /\ PromptTypes
    BY DEF Sound, Types
  <2>2. \A j \in Jobs : at[j] \in 1..Len(Work[j]) + 1
    BY <2>1, Lengths DEF JobTypes
  <2>3. chunk \in [Jobs -> 0..Chunks]
    BY <2>1, ConstantsOK DEF JobTypes, ConstantsOK
  <2> QED BY <2>1, <2>2, <2>3 DEF TypeOK, JobTypes, ListTypes, FlagTypes, PermitTypes,
                                  PromptTypes, Places, Answers
<1> QED BY <1>1, SoundAlways, PTL

(* What the user sees as paused is paused, or its resumption is midway.    *)
THEOREM PausedIsPaused == Spec => []ShownPausedIsPaused
<1>1. Sound => ShownPausedIsPaused
  BY DEF Sound, CommandInv
<1> QED BY <1>1, SoundAlways, PTL

(* A prompt is closed by an answer, unless a request for the same file     *)
(* that was replaced is still to wake.                                     *)
THEOREM PromptsStay == Spec => PromptStays
<1>1. Sound /\ [Next]_vars =>
        [\A j \in Jobs :
           /\ request[j] = "asking" /\ FileOf(j) \in prompted
           /\ \A h \in Jobs \ {j} : Waits(h) => FileOf(h) # FileOf(j)
           => FileOf(j) \in prompted' \/ request'[j] # "asking"]_vars
  <2> SUFFICES ASSUME Sound, [Next]_vars, NEW j \in Jobs,
                      request[j] = "asking", FileOf(j) \in prompted,
                      \A h \in Jobs \ {j} : Waits(h) => FileOf(h) # FileOf(j),
                      FileOf(j) \notin prompted'
               PROVE  request'[j] # "asking"
    OBVIOUS
  <2>1. ASSUME NEW h \in Jobs, Wakes(h) PROVE request'[j] # "asking"
    <3>1. FileOf(h) = FileOf(j) /\ Waits(h)
      BY <2>1 DEF Wakes, Waits
    <3> QED BY <2>1, <3>1 DEF Wakes, Sound, Types, PromptTypes
  <2>2. ASSUME prompted \subseteq prompted' PROVE FALSE
    BY <2>2
  <2>3. ASSUME NEW h \in Jobs, Prompt(h) PROVE prompted \subseteq prompted'
    BY <2>3 DEF Prompt
  <2>4. ASSUME NEW h \in Jobs, Working(h) PROVE prompted \subseteq prompted'
    BY <2>4, WorkKeeps
  <2>5. CASE Answering
    BY <2>2, <2>5 DEF Answering, ConfirmTransfer, RejectTransfer, Say
  <2>6. CASE User \/ UpdateMaxConcurrent \/ UNCHANGED vars
    BY <2>2, <2>6, UserKeeps DEF UpdateMaxConcurrent, receiver, vars
  <2> QED BY <2>1, <2>2, <2>3, <2>4, <2>5, <2>6, Split DEF Receive
<1> QED BY <1>1, SoundAlways, PTL DEF Spec, PromptStays

(* At most as many transfers send under a semaphore as it has permits,     *)
(* whatever semaphores came after it, and each of them has a permit.       *)
THEOREM LimitsKept == Spec => []LimitKept
<1>1. Sound => LimitKept
  BY DEF Sound, PermitInv
<1> QED BY <1>1, SoundAlways, PTL

(* Who waits for a permit is in the line of a semaphore, also of one that  *)
(* was replaced, until it is served.                                       *)
THEOREM TurnsKept == Spec => []NoTurnLost
<1>1. Sound => NoTurnLost
  BY DEF Sound, PermitInv, LineInv
<1> QED BY <1>1, SoundAlways, PTL

(* confirm_transfer and reject_transfer answer a request that still waits, *)
(* and one about the file the prompt names.                                *)
THEOREM AnswersReach == Spec => []AnswersGoHome
<1>1. Sound => AnswersGoHome
  BY DEF Sound, PromptInv
<1> QED BY <1>1, SoundAlways, PTL
=============================================================================
