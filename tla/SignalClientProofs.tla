------------------------- MODULE SignalClientProofs -------------------------
(***************************************************************************)
(* The clients of one desktop program, for any number of commands,         *)
(* clients, requests and sessions: whose answer a call gets, which clients *)
(* stay open, and whose address is announced.                              *)
(***************************************************************************)
EXTENDS SignalClient, QueueLemmas, TLAPS

Places == {"idle", "lock", "in", "dial", "poll", "take", "drop", "put",
           "watch", "send", "full", "wait", "done"}
Words  == {"none", "ok", "error", "closed", "timeout", "issued"}

(* What is sent and what comes back: its second part is whose it is.       *)
Requests == ({"register", "update"} \X Dialers) \cup {<<Kind[k], k>> : k \in Askers}
Answers  == ({"registered"} \X Dialers)
            \cup {<<"code", k>> : k \in {h \in Askers : Kind[h] = "invite"}}
            \cup {<<"result", k>> : k \in {h \in Askers : Kind[h] = "accept"}}
            \cup {<<"result", "issued">>}

(* Which commands come where.                                              *)
Placed(k) ==
  /\ pc[k] \in {"dial", "poll", "put", "watch"} => k \in Dialers
  /\ pc[k] \in {"take", "drop"} => k \in Writers
  /\ pc[k] = "drop" => Kind[k] # "startup"
  /\ pc[k] \in {"in", "send", "full", "wait"} => k \notin Writers
  /\ pc[k] \in {"full", "wait"} => k \in Askers

CommandTypes ==
  /\ session \in Sessions
  /\ pc \in [Calls -> Places] /\ \A k \in Calls : Placed(k)
  /\ outcome \in [Calls -> Words \cup Calls]
  /\ old \in [Calls -> Dialers \cup {None}]
GuardTypes == waiting \in Seq(Calls) /\ inside \subseteq Calls
SharedTypes ==
  /\ slot \in Dialers \cup {None} /\ watcher \in Dialers \cup {None}
  /\ watched \subseteq Dialers /\ overtaken \in BOOLEAN /\ lost \subseteq Dialers
ClientTypes ==
  /\ status \in [Dialers -> {"disconnected", "connecting", "connected"}]
  /\ out \in [Dialers -> BOOLEAN]
  /\ busy \in [Dialers -> Calls \cup {None}]
  /\ pending \in [Dialers -> [Asked -> Calls \cup {None}]]
TaskTypes ==
  /\ chan \in [Dialers -> Seq(Requests)] /\ \A c \in Dialers : Len(chan[c]) <= Cap
  /\ wr \in [Dialers -> {"none", "running", "ended"}]
  /\ rd \in [Dialers -> {"none", "reading", "updating", "closing", "ended"}]
NetTypes ==
  /\ up \in [Dialers -> {"none", "open", "half", "closed"}]
  /\ toSrv \in [Dialers -> Seq(Requests)] /\ \A c \in Dialers : Len(toSrv[c]) <= Window
  /\ toCli \in [Dialers -> Seq(Answers)]
  /\ events \in 0..MaxEvents

TypeInv == /\ CommandTypes /\ GuardTypes /\ SharedTypes
           /\ ClientTypes /\ TaskTypes /\ NetTypes

-----------------------------------------------------------------------------
LEMMA Kinds ==
  /\ Kind \in [Calls -> {"startup", "connect", "configure", "disconnect", "status",
                         "invite", "accept", "iroh"}]
  /\ None \notin Calls /\ Words \cap Calls = {}
  /\ Dialers \subseteq Writers /\ Writers \subseteq Calls /\ Askers \subseteq Calls
  /\ Askers \cap Writers = {}
  /\ \A k \in Writers \ Dialers : Kind[k] = "disconnect"
  /\ \A k \in Askers : Kind[k] \in Asked
  /\ Dialers \subseteq Calls
  BY ConstantsOK DEF ConstantsOK, Words, Dialers, Writers, Askers, Asked

LEMMA AnswerParts ==
  ASSUME NEW m \in Answers
  PROVE  /\ m[2] \in Calls \cup {"issued"}
         /\ m[1] = "code" => m[2] \in Askers /\ Kind[m[2]] = "invite"
         /\ m[1] = "result" => \/ m[2] = "issued"
                               \/ m[2] \in Askers /\ Kind[m[2]] = "accept"
         /\ m[2] \in Askers => m[1] \in {"code", "result"}
  BY Kinds DEF Answers, Askers, Dialers

LEMMA RequestParts ==
  ASSUME NEW m \in Requests
  PROVE  /\ m[2] \in Calls
         /\ m[2] \in Askers => m[1] = Kind[m[2]]
         /\ m[2] \notin Askers => m[1] \in {"register", "update"} /\ m[2] \in Dialers
  BY Kinds DEF Requests, Askers, Dialers

(* What the server makes of a request.                                     *)
LEMMA Replied ==
  ASSUME NEW m \in Requests
  PROVE  \/ Reply(m) = <<>>
         \/ \E a \in Answers : Reply(m) = <<a>> /\ a[2] = m[2]
<1>1. CASE m[2] \in Askers
  <2>1. m[1] = Kind[m[2]] /\ Kind[m[2]] \in {"invite", "accept"}
    BY <1>1, RequestParts DEF Askers
  <2>2. CASE Kind[m[2]] = "invite"
    <3>1. Reply(m) = << <<"code", m[2]>> >> /\ <<"code", m[2]>> \in Answers
      BY <1>1, <2>1, <2>2 DEF Reply, Answers
    <3> QED BY <3>1
  <2>3. CASE Kind[m[2]] = "accept"
    <3>1. Reply(m) = << <<"result", m[2]>> >> /\ <<"result", m[2]>> \in Answers
      BY <1>1, <2>1, <2>3 DEF Reply, Answers
    <3> QED BY <3>1
  <2> QED BY <2>1, <2>2, <2>3
<1>2. CASE m[2] \notin Askers
  <2>1. m[1] \in {"register", "update"} /\ m[2] \in Dialers
    BY <1>2, RequestParts
  <2>2. CASE m[1] = "register"
    <3>1. Reply(m) = << <<"registered", m[2]>> >> /\ <<"registered", m[2]>> \in Answers
      BY <2>1, <2>2 DEF Reply, Answers
    <3> QED BY <3>1
  <2>3. CASE m[1] = "update"
    BY <2>3 DEF Reply
  <2> QED BY <2>1, <2>2, <2>3
<1> QED BY <1>1, <1>2

LEMMA RepliesAreAnswers ==
  ASSUME NEW m \in Requests
  PROVE  Reply(m) \in Seq(Answers)
<1> DEFINE r == Reply(m)
<1>1. r = <<>> \/ \E a \in Answers : r = <<a>>
  BY Replied
<1> HIDE DEF r
<1>2. \A a \in Answers : <<a>> \in Seq(Answers)
  OBVIOUS
<1>3. r \in Seq(Answers)
  BY <1>1, <1>2, EmptySeq
<1> QED BY <1>3 DEF r

-----------------------------------------------------------------------------
(* Types, group by group.                                                  *)
LEMMA CommandTypesStep ==
  ASSUME TypeInv, [Next]_vars
  PROVE  CommandTypes'
<1> USE DEF TypeInv, CommandTypes, Placed, Places, Words, Goto
<1>0. CommandTypes
  OBVIOUS
<1>1. ASSUME NEW k \in Calls, Give(k) \/ Granted(k) \/ SendOverIroh(k)
      PROVE  CommandTypes'
  BY <1>1, Kinds DEF Give, Granted, SendOverIroh, Lock, Dialers
<1>2. ASSUME NEW k \in Calls,
             \/ Look(k) \/ IrohEnds(k) \/ SendFails(k) \/ Answered(k) \/ TimesOut(k)
             \/ SeesDisconnected(k) \/ GivesUp(k) \/ DialFails(k)
      PROVE  CommandTypes'
  <2>1. PICK what \in Words :
          Return(k, what) /\ UNCHANGED <<session, old>>
    BY <1>2 DEF Look, IrohEnds, SendFails, Answered, TimesOut, SeesDisconnected,
                GivesUp, DialFails
  <2> QED BY <2>1 DEF Return
<1>3. ASSUME NEW k \in Writers, TakeOld(k) \/ DropSender(k)
      PROVE  CommandTypes'
  <2>1. /\ \/ Return(k, "ok")
           \/ /\ outcome' = outcome
              /\ \/ Goto(k, AfterDrop(k)) /\ Kind[k] # "disconnect"
                 \/ Goto(k, "drop")
        /\ Kind[k] # "startup" /\ session' = session
        /\ old' \in [Calls -> Dialers \cup {None}]
    BY <1>3, Kinds DEF TakeOld, DropSender, SharedTypes
  <2>2. Kind[k] # "disconnect" =>
          AfterDrop(k) \in {"dial", "put"} /\ k \in Dialers
    BY <2>1 DEF AfterDrop, Writers, Dialers
  <2> QED BY <2>1, <2>2, Kinds DEF Return
<1>4. ASSUME NEW k \in Writers, TakeNone(k) \/ Put(k) \/ Watch(k) \/ WatchFirst(k)
      PROVE  CommandTypes'
  <2>1. /\ \/ Return(k, "ok")
           \/ outcome' = outcome
              /\ (Goto(k, "put") \/ Goto(k, "watch") \/ Goto(k, "lock"))
        /\ k \in Dialers /\ UNCHANGED <<session, old>>
    BY <1>4, Kinds DEF TakeNone, Put, Watch, WatchFirst, Lock, Dialers, Writers
  <2> QED BY <2>1, Kinds DEF Return
<1>5. ASSUME NEW k \in Askers, Prepare(k) \/ Send(k) \/ Room(k)
      PROVE  CommandTypes'
  BY <1>5, Kinds DEF Prepare, Send, Room, Tell
<1>6. ASSUME NEW c \in Dialers, Dial(c) \/ SeesConnected(c)
      PROVE  CommandTypes'
  <2>1. /\ Goto(c, "poll") \/ Goto(c, "lock") \/ Goto(c, "put") \/ Goto(c, "watch")
        /\ UNCHANGED <<session, outcome, old>>
    <3>1. CASE Dial(c)
      BY <3>1 DEF Dial
    <3>2. CASE SeesConnected(c)
      BY <3>2 DEF SeesConnected, Lock, Dialers
    <3> QED BY <1>6, <3>1, <3>2
  <2> QED BY <2>1, Kinds
<1>7. ASSUME NEW c \in Dialers, OnInviteCode(c) \/ OnInviteResult(c)
      PROVE  CommandTypes'
  <2>1. Head(toCli[c])[2] \in Words \cup Calls
    <3>1. toCli[c] \in Seq(Answers) /\ toCli[c] # <<>>
      BY <1>7 DEF OnInviteCode, OnInviteResult, Resolve, Got, NetTypes
    <3>2. Head(toCli[c]) \in Answers
      BY <3>1
    <3> QED BY <3>2, AnswerParts
  <2> QED BY <1>7, <2>1 DEF OnInviteCode, OnInviteResult, Resolve, Tell
<1>8. ASSUME NEW c \in Dialers,
             \/ OnRegistered(c) \/ Registered(c) \/ ReadEnds(c) \/ AbortWriter(c)
             \/ WriteTask(c) \/ Serve(c) \/ CodeUsed(c)
             \/ ServerSeesEnd(c) \/ ServerCloses(c)
      PROVE  UNCHANGED <<session, command>>
  BY <1>8 DEF OnRegistered, Registered, ReadEnds, AbortWriter, WriteTask, Write,
              WriteEnds, Serve, CodeUsed, ServerSeesEnd, ServerCloses, Closed
<1>9. CASE UNCHANGED <<session, command>>
  BY <1>9 DEF command
<1>10. UNCHANGED vars => UNCHANGED <<session, command>>
  BY DEF vars
<1> QED BY <1>1, <1>2, <1>3, <1>4, <1>5, <1>6, <1>7, <1>8, <1>9, <1>10, Kinds
        DEF Next, Change, Ask, Connect, Read

LEMMA GuardTypesStep ==
  ASSUME TypeInv, [Next]_vars
  PROVE  GuardTypes'
<1> USE DEF TypeInv, GuardTypes
<1>1. ASSUME NEW k \in Calls, Give(k) \/ Granted(k)
      PROVE  GuardTypes'
  <2>1. CASE Give(k)
    <3>1. UNCHANGED guard \/ Lock(k)
      BY <2>1 DEF Give
    <3> QED BY <3>1, PutElements DEF Lock, guard
  <2>2. CASE Granted(k)
    BY <2>2, TakeElements DEF Granted
  <2> QED BY <1>1, <2>1, <2>2
<1>2. ASSUME NEW k \in Calls,
             \/ Look(k) \/ IrohEnds(k) \/ SendFails(k) \/ Answered(k) \/ TimesOut(k)
             \/ SeesDisconnected(k) \/ GivesUp(k) \/ DialFails(k)
             \/ TakeOld(k) \/ DropSender(k) \/ Put(k) \/ Watch(k)
      PROVE  GuardTypes'
  <2>1. UNCHANGED guard \/ Release(k)
    <3>1. CASE \/ Look(k) \/ IrohEnds(k) \/ SendFails(k) \/ Answered(k) \/ TimesOut(k)
               \/ SeesDisconnected(k) \/ GivesUp(k) \/ DialFails(k) \/ Watch(k)
      BY <3>1 DEF Look, IrohEnds, SendFails, Answered, TimesOut, SeesDisconnected,
                  GivesUp, DialFails, Watch, Return
    <3>2. CASE TakeOld(k) \/ DropSender(k)
      BY <3>2 DEF TakeOld, DropSender, Return
    <3>3. CASE Put(k)
      <4>1. k \in Dialers
        BY <3>3 DEF Put, CommandTypes, Placed
      <4> QED BY <3>3, <4>1 DEF Put, Return, Dialers
    <3> QED BY <1>2, <3>1, <3>2, <3>3
  <2> QED BY <2>1 DEF guard, Release
<1>3. ASSUME NEW k \in Calls, WatchFirst(k) \/ SeesConnected(k)
      PROVE  GuardTypes'
  <2>1. UNCHANGED guard \/ Lock(k)
    <3>1. CASE WatchFirst(k)
      BY <3>1 DEF WatchFirst
    <3>2. CASE SeesConnected(k)
      <4>1. k \in Dialers
        BY <3>2 DEF SeesConnected, CommandTypes, Placed
      <4> QED BY <3>2, <4>1 DEF SeesConnected, Dialers
    <3> QED BY <1>3, <3>1, <3>2
  <2> QED BY <2>1, PutElements DEF Lock, guard
<1>4. ASSUME NEW k \in Calls,
             \/ SendOverIroh(k) \/ TakeNone(k) \/ Prepare(k) \/ Send(k) \/ Room(k)
             \/ Dial(k)
      PROVE  UNCHANGED guard
  BY <1>4 DEF SendOverIroh, TakeNone, Prepare, Send, Room, Dial
<1>5. ASSUME NEW c \in Dialers, Read(c) \/ WriteTask(c) \/ Serve(c) \/ CodeUsed(c)
                                \/ ServerSeesEnd(c) \/ ServerCloses(c)
      PROVE  UNCHANGED guard
  BY <1>5 DEF Read, OnRegistered, Registered, OnInviteCode, OnInviteResult, Resolve,
              ReadEnds, AbortWriter, WriteTask, Write, WriteEnds, Serve, CodeUsed,
              ServerSeesEnd, ServerCloses, Closed
<1>6. CASE UNCHANGED guard
  BY <1>6 DEF guard
<1>7. UNCHANGED vars => UNCHANGED guard
  BY DEF vars
<1> QED BY <1>1, <1>2, <1>3, <1>4, <1>5, <1>6, <1>7, Kinds DEF Next, Change, Ask, Connect

(* The steps that leave the slot, the watcher and their history alone.     *)
LEMMA SharedSame ==
  ASSUME [Next]_vars
  PROVE  \/ UNCHANGED shared
         \/ \E k \in Writers : \/ TakeOld(k) \/ TakeNone(k) \/ Put(k)
                               \/ Watch(k) \/ WatchFirst(k)
<1>1. ASSUME NEW k \in Calls,
             \/ Give(k) \/ Granted(k) \/ Look(k) \/ SendOverIroh(k) \/ IrohEnds(k)
             \/ DropSender(k) \/ Ask(k)
      PROVE  UNCHANGED shared
  BY <1>1 DEF Give, Granted, Look, SendOverIroh, IrohEnds, DropSender, Ask, Prepare,
              Send, Room, SendFails, Answered, TimesOut
<1>2. ASSUME NEW c \in Dialers,
             \/ Connect(c) \/ DialFails(c) \/ Read(c) \/ WriteTask(c)
             \/ Serve(c) \/ CodeUsed(c) \/ ServerSeesEnd(c) \/ ServerCloses(c)
      PROVE  UNCHANGED shared
  BY <1>2 DEF Connect, Dial, SeesConnected, SeesDisconnected, GivesUp, DialFails,
              Read, OnRegistered, Registered, OnInviteCode, OnInviteResult, Resolve,
              ReadEnds, AbortWriter, WriteTask, Write, WriteEnds, Serve, CodeUsed,
              ServerSeesEnd, ServerCloses, Closed
<1>3. UNCHANGED vars => UNCHANGED shared
  BY DEF vars
<1> QED BY <1>1, <1>2, <1>3, Kinds DEF Next, Change

LEMMA SharedTypesStep ==
  ASSUME TypeInv, [Next]_vars
  PROVE  SharedTypes'
<1> USE DEF TypeInv, SharedTypes
<1>1. ASSUME NEW k \in Writers,
             TakeOld(k) \/ TakeNone(k) \/ Put(k) \/ Watch(k) \/ WatchFirst(k)
      PROVE  SharedTypes'
  <2>1. pc[k] \in {"put", "watch"} => k \in Dialers
    BY Kinds DEF CommandTypes, Placed
  <2>2. CASE TakeOld(k) \/ TakeNone(k)
    BY <2>2 DEF TakeOld, TakeNone
  <2>3. CASE Put(k)
    BY <2>1, <2>3 DEF Put, Overtakes
  <2>4. CASE Watch(k) \/ WatchFirst(k)
    BY <2>1, <2>4 DEF Watch, WatchFirst, Overtakes
  <2> QED BY <1>1, <2>2, <2>3, <2>4
<1>2. CASE UNCHANGED shared
  BY <1>2 DEF shared
<1> QED BY <1>1, <1>2, SharedSame

LEMMA ClientTypesStep ==
  ASSUME TypeInv, [Next]_vars
  PROVE  ClientTypes'
<1> USE DEF TypeInv, ClientTypes
<1>1. ASSUME NEW k \in Writers, DropSender(k)
      PROVE  ClientTypes'
  BY <1>1, Kinds DEF DropSender, CommandTypes
<1>2. ASSUME NEW k \in Askers, Prepare(k)
      PROVE  ClientTypes'
  <2>1. Kind[k] \in Asked /\ k \in Calls /\ slot \in Dialers
    BY <1>2, Kinds DEF Prepare, SharedTypes
  <2> QED BY <1>2, <2>1 DEF Prepare
<1>3. ASSUME NEW k \in Askers, Send(k) \/ Room(k) \/ SendFails(k)
      PROVE  ClientTypes'
  BY <1>3, Kinds DEF Send, Room, SendFails
<1>4. ASSUME NEW c \in Dialers, Dial(c) \/ DialFails(c) \/ Registered(c) \/ ReadEnds(c)
                                \/ AbortWriter(c)
      PROVE  ClientTypes'
  BY <1>4 DEF Dial, DialFails, Registered, ReadEnds, AbortWriter
<1>5. ASSUME NEW c \in Dialers, OnInviteCode(c) \/ OnInviteResult(c)
      PROVE  ClientTypes'
  BY <1>5 DEF OnInviteCode, OnInviteResult, Resolve, Asked
<1>6. ASSUME NEW k \in Calls,
             \/ Give(k) \/ Granted(k) \/ Look(k) \/ SendOverIroh(k) \/ IrohEnds(k)
             \/ TakeOld(k) \/ TakeNone(k) \/ Put(k) \/ Watch(k) \/ WatchFirst(k)
             \/ Answered(k) \/ TimesOut(k)
             \/ SeesConnected(k) \/ SeesDisconnected(k) \/ GivesUp(k)
             \/ OnRegistered(k) \/ WriteTask(k) \/ Serve(k) \/ CodeUsed(k)
             \/ ServerSeesEnd(k) \/ ServerCloses(k)
      PROVE  UNCHANGED client
  BY <1>6 DEF Give, Granted, Look, SendOverIroh, IrohEnds, TakeOld, TakeNone, Put,
              Watch, WatchFirst, Answered, TimesOut, SeesConnected, SeesDisconnected,
              GivesUp, OnRegistered, WriteTask, Write, WriteEnds, Serve, CodeUsed,
              ServerSeesEnd, ServerCloses, Closed
<1>7. CASE UNCHANGED client
  BY <1>7 DEF client
<1>8. UNCHANGED vars => UNCHANGED client
  BY DEF vars
<1> QED BY <1>1, <1>2, <1>3, <1>4, <1>5, <1>6, <1>7, <1>8, Kinds
        DEF Next, Change, Ask, Connect, Read

(* The steps that leave the queues of every client and its tasks alone.    *)
LEMMA TasksSame ==
  ASSUME [Next]_vars
  PROVE  \/ UNCHANGED tasks
         \/ \E k \in Askers : Send(k) \/ Room(k)
         \/ \E c \in Dialers : \/ Dial(c) \/ OnRegistered(c) \/ Registered(c)
                               \/ ReadEnds(c) \/ AbortWriter(c) \/ WriteTask(c)
<1>1. ASSUME NEW k \in Calls,
             \/ Give(k) \/ Granted(k) \/ Look(k) \/ SendOverIroh(k) \/ IrohEnds(k)
             \/ Change(k) \/ Prepare(k) \/ SendFails(k) \/ Answered(k) \/ TimesOut(k)
             \/ SeesConnected(k) \/ SeesDisconnected(k) \/ GivesUp(k) \/ DialFails(k)
             \/ OnInviteCode(k) \/ OnInviteResult(k) \/ Serve(k) \/ CodeUsed(k)
             \/ ServerSeesEnd(k) \/ ServerCloses(k)
      PROVE  UNCHANGED tasks
  BY <1>1 DEF Give, Granted, Look, SendOverIroh, IrohEnds, Change, TakeOld, TakeNone,
              DropSender, Put, Watch, WatchFirst, Prepare, SendFails, Answered,
              TimesOut, SeesConnected, SeesDisconnected, GivesUp, DialFails,
              OnInviteCode, OnInviteResult, Resolve, Serve, CodeUsed,
              ServerSeesEnd, ServerCloses, Closed
<1>2. UNCHANGED vars => UNCHANGED tasks
  BY DEF vars
<1> QED BY <1>1, <1>2, Kinds DEF Next, Ask, Connect, Read

(* What is put into a channel is a request.                                *)
LEMMA NewRequests ==
  /\ \A k \in Askers : <<Kind[k], k>> \in Requests
  /\ \A c \in Dialers : <<"register", c>> \in Requests /\ <<"update", c>> \in Requests
  BY DEF Requests

LEMMA TaskTypesStep ==
  ASSUME TypeInv, [Next]_vars
  PROVE  TaskTypes'
<1> USE DEF TypeInv, TaskTypes
<1>1. ASSUME NEW k \in Askers, Send(k) \/ Room(k)
      PROVE  TaskTypes'
  <2> DEFINE m == <<Kind[k], k>>
  <2>1. CASE chan' = chan
    BY <1>1, <2>1 DEF Send, Room
  <2>2. CASE chan' = [chan EXCEPT ![slot] = Append(@, m)] /\ Len(chan[slot]) < Cap
    <3>1. m \in Requests
      BY NewRequests
    <3> HIDE DEF m
    <3>2. ASSUME NEW c \in Dialers
          PROVE  chan'[c] \in Seq(Requests) /\ Len(chan'[c]) <= Cap
      <4>1. chan[c] \in Seq(Requests) /\ Len(chan[c]) <= Cap /\ Cap \in Nat
        BY ConstantsOK DEF ConstantsOK
      <4>2. chan'[c] = IF c = slot THEN Append(chan[c], m) ELSE chan[c]
        BY <2>2
      <4> QED BY <2>2, <3>1, <4>1, <4>2, PutElements
    <3> QED BY <1>1, <2>2, <3>2 DEF Send, Room
  <2> QED BY <1>1, <2>1, <2>2 DEF Send, Room
<1>2. ASSUME NEW c \in Dialers, Registered(c)
      PROVE  TaskTypes'
  <2>1. chan[c] \in Seq(Requests) /\ <<"update", c>> \in Requests /\ Cap \in Nat
        /\ Len(chan[c]) <= Cap
    BY NewRequests, ConstantsOK DEF ConstantsOK
  <2> DEFINE q == IF Dead(c) THEN chan[c] ELSE Append(chan[c], <<"update", c>>)
  <2>2. q \in Seq(Requests) /\ Len(q) <= Cap
    BY <1>2, <2>1, PutElements DEF Registered
  <2>3. chan' = [chan EXCEPT ![c] = q] /\ rd' = [rd EXCEPT ![c] = "reading"] /\ wr' = wr
    BY <1>2 DEF Registered
  <2> HIDE DEF q
  <2> QED BY <2>2, <2>3
<1>3. ASSUME NEW c \in Dialers, Dial(c) \/ OnRegistered(c) \/ ReadEnds(c)
      PROVE  TaskTypes'
  BY <1>3 DEF Dial, OnRegistered, ReadEnds
<1>4. ASSUME NEW c \in Dialers, AbortWriter(c) \/ WriteEnds(c)
      PROVE  TaskTypes'
  <2>1. <<>> \in Seq(Requests) /\ Len(<<>>) = 0 /\ 0 <= Cap
    BY ConstantsOK DEF ConstantsOK
  <2> QED BY <1>4, <2>1 DEF AbortWriter, WriteEnds
<1>5. ASSUME NEW c \in Dialers, Write(c)
      PROVE  TaskTypes'
  <2>1. /\ Tail(chan[c]) \in Seq(Requests) /\ Len(Tail(chan[c])) <= Cap
        /\ chan' = [chan EXCEPT ![c] = Tail(@)] /\ UNCHANGED <<wr, rd>>
    BY <1>5, TakeElements, ConstantsOK DEF ConstantsOK, Write
  <2> QED BY <2>1
<1>6. CASE UNCHANGED tasks
  BY <1>6 DEF tasks
<1> QED BY <1>1, <1>2, <1>3, <1>4, <1>5, <1>6, TasksSame DEF WriteTask

LEMMA NetSame ==
  ASSUME [Next]_vars
  PROVE  \/ UNCHANGED net /\ (events' = events \/ Event)
         \/ \E c \in Dialers : \/ Dial(c) \/ OnRegistered(c) \/ OnInviteCode(c)
                               \/ OnInviteResult(c) \/ WriteTask(c) \/ Serve(c)
                               \/ CodeUsed(c) \/ ServerSeesEnd(c) \/ ServerCloses(c)
<1>1. ASSUME NEW k \in Calls,
             \/ Give(k) \/ Granted(k) \/ Look(k) \/ SendOverIroh(k) \/ IrohEnds(k)
             \/ Change(k) \/ Ask(k)
             \/ SeesConnected(k) \/ SeesDisconnected(k) \/ GivesUp(k) \/ DialFails(k)
             \/ Registered(k) \/ ReadEnds(k) \/ AbortWriter(k)
      PROVE  UNCHANGED net /\ (events' = events \/ Event)
  BY <1>1 DEF Give, Granted, Look, SendOverIroh, IrohEnds, Change, TakeOld, TakeNone,
              DropSender, Put, Watch, WatchFirst, Ask, Prepare, Send, Room, SendFails,
              Answered, TimesOut, SeesConnected, SeesDisconnected, GivesUp, DialFails,
              Registered, ReadEnds, AbortWriter
<1>2. UNCHANGED vars => UNCHANGED net /\ events' = events
  BY DEF vars
<1> QED BY <1>1, <1>2, Kinds DEF Next, Connect, Read

LEMMA NetTypesStep ==
  ASSUME TypeInv, [Next]_vars
  PROVE  NetTypes'
<1> USE DEF TypeInv, NetTypes
<1>0. MaxEvents \in Nat /\ Window \in Nat \ {0} /\ (Event => events' \in 0..MaxEvents)
  BY ConstantsOK DEF ConstantsOK, Event
<1>1. ASSUME NEW c \in Dialers, Dial(c)
      PROVE  NetTypes'
  <2> DEFINE m == <<"register", c>>
  <2>1. m \in Requests /\ toSrv' = [toSrv EXCEPT ![c] = <<m>>]
    BY <1>1, NewRequests DEF Dial
  <2>2. /\ up' = [up EXCEPT ![c] = "open"] /\ UNCHANGED <<toCli, events>>
    BY <1>1 DEF Dial
  <2> HIDE DEF m
  <2>3. <<m>> \in Seq(Requests) /\ Len(<<m>>) = 1
    BY <2>1
  <2> QED BY <1>0, <2>1, <2>2, <2>3
<1>2. ASSUME NEW c \in Dialers, OnRegistered(c) \/ OnInviteCode(c) \/ OnInviteResult(c)
      PROVE  NetTypes'
  <2>1. /\ toCli[c] # <<>> /\ toCli' = [toCli EXCEPT ![c] = Tail(@)]
        /\ UNCHANGED <<up, toSrv, events>>
    BY <1>2 DEF OnRegistered, OnInviteCode, OnInviteResult, Resolve, Got
  <2>2. Tail(toCli[c]) \in Seq(Answers)
    BY <2>1, TakeElements
  <2> QED BY <2>1, <2>2
<1>3. ASSUME NEW c \in Dialers, Write(c)
      PROVE  NetTypes'
  <2>1. Head(chan[c]) \in Requests
    BY <1>3, TakeElements DEF TaskTypes, Write
  <2>2. /\ Append(toSrv[c], Head(chan[c])) \in Seq(Requests)
        /\ Len(Append(toSrv[c], Head(chan[c]))) <= Window
    BY <1>0, <1>3, <2>1, PutElements DEF Write
  <2> QED BY <1>3, <2>2 DEF Write
<1>4. ASSUME NEW c \in Dialers, WriteEnds(c)
      PROVE  NetTypes'
  BY <1>4 DEF WriteEnds
<1>5. ASSUME NEW c \in Dialers, Serve(c)
      PROVE  NetTypes'
  <2>1. /\ Tail(toSrv[c]) \in Seq(Requests) /\ Len(Tail(toSrv[c])) <= Window
        /\ Head(toSrv[c]) \in Requests
    BY <1>0, <1>5, TakeElements DEF Serve
  <2>2. toCli[c] \o Reply(Head(toSrv[c])) \in Seq(Answers)
    BY <2>1, RepliesAreAnswers, ConcatProperties
  <2>3. /\ toSrv' = [toSrv EXCEPT ![c] = Tail(@)]
        /\ toCli' = [toCli EXCEPT ![c] = @ \o Reply(Head(toSrv[c]))]
        /\ UNCHANGED <<up, events>>
    BY <1>5 DEF Serve
  <2> QED BY <2>1, <2>2, <2>3
<1>6. ASSUME NEW c \in Dialers, CodeUsed(c)
      PROVE  NetTypes'
  <2>1. <<"result", "issued">> \in Answers
    BY DEF Answers
  <2>2. Append(toCli[c], <<"result", "issued">>) \in Seq(Answers)
    BY <2>1, PutElements
  <2> QED BY <1>0, <1>6, <2>2 DEF CodeUsed
<1>7. ASSUME NEW c \in Dialers, ServerSeesEnd(c) \/ ServerCloses(c)
      PROVE  NetTypes'
  <2>1. <<>> \in Seq(Requests) /\ Len(<<>>) = 0
    OBVIOUS
  <2>2. Closed(c) /\ events' \in 0..MaxEvents
    BY <1>0, <1>7 DEF ServerSeesEnd, ServerCloses
  <2> QED BY <1>0, <2>1, <2>2 DEF Closed
<1>8. CASE UNCHANGED net /\ (events' = events \/ Event)
  BY <1>0, <1>8 DEF net
<1> QED BY <1>1, <1>2, <1>3, <1>4, <1>5, <1>6, <1>7, <1>8, NetSame DEF WriteTask

LEMMA TypeStart == Init => TypeInv
<1> SUFFICES ASSUME Init PROVE TypeInv
  OBVIOUS
<1> USE DEF Init
<1>0. GuardTypes /\ SharedTypes
  <2>1. waiting \in Seq(Calls)
    BY DEF Init
  <2> QED BY <2>1 DEF GuardTypes, SharedTypes
<1>1. CommandTypes
  BY DEF CommandTypes, Placed, Places, Words
<1>2. ClientTypes
  BY DEF ClientTypes
<1>3. TaskTypes /\ NetTypes
  BY ConstantsOK DEF ConstantsOK, TaskTypes, NetTypes
<1> QED BY <1>0, <1>1, <1>2, <1>3 DEF TypeInv

-----------------------------------------------------------------------------
(* The guard of the slot.  Who holds it is seen from where a command is; a *)
(* writer excludes everybody; who waits for it waits once.                 *)
Holds(k) ==
  \/ pc[k] \in {"in", "send", "full", "wait", "take", "drop", "put"}
  \/ Kind[k] = "configure" /\ pc[k] \in {"dial", "poll", "watch"}

InsideHolds == \A k \in Calls : k \in inside <=> Holds(k)
Exclusive   == \A k \in inside : k \in Writers => inside = {k}
InLine      == \A n \in 1..Len(waiting) : pc[waiting[n]] = "lock"
OnceInLine  == \A n, m \in 1..Len(waiting) : waiting[n] = waiting[m] => n = m

GuardInv == InsideHolds /\ Exclusive /\ InLine /\ OnceInLine

(* What a step does to the guard and to the place of a command.            *)
Rests == {"lock", "done"}
Stays(k) == \E w \in Places \ {"lock"} :
              Goto(k, w) /\ UNCHANGED guard /\ pc[k] \notin Rests /\ (Holds(k)' <=> Holds(k))
Lines(k) == Lock(k) /\ pc[k] \notin Rests /\ ~Holds(k)
Leaves(k) == \E w \in Places \ {"lock"} :
               Goto(k, w) /\ Release(k) /\ pc[k] \notin Rests /\ ~Holds(k)'

LEMMA GuardMoves ==
  ASSUME TypeInv, [Next]_vars
  PROVE  \/ UNCHANGED <<pc, guard>>
         \/ \E k \in Calls : Stays(k) \/ Lines(k) \/ Leaves(k) \/ Granted(k)
<1> USE DEF TypeInv, Rests
<1>0. /\ pc \in [Calls -> Places] /\ \A k \in Calls : Placed(k)
      /\ \A k \in Calls, w \in Places : Goto(k, w) => pc'[k] = w
  BY DEF CommandTypes, Goto
<1>1. ASSUME NEW k \in Calls, Give(k)
      PROVE  Stays(k) \/ Lines(k)
  BY <1>0, <1>1 DEF Give, Stays, Lines, Holds, Places
<1>2. ASSUME NEW k \in Calls,
             \/ Look(k) \/ IrohEnds(k) \/ SendFails(k) \/ Answered(k) \/ TimesOut(k)
             \/ SeesDisconnected(k) \/ GivesUp(k) \/ DialFails(k)
             \/ Watch(k)
      PROVE  Leaves(k)
  <2>1. Goto(k, "done") /\ Release(k) /\ pc[k] \notin Rests
    BY <1>2 DEF Look, IrohEnds, SendFails, Answered, TimesOut, SeesDisconnected,
                GivesUp, DialFails, Watch, Return
  <2> QED BY <1>0, <2>1 DEF Leaves, Holds, Places
<1>3. ASSUME NEW k \in Writers, TakeOld(k) \/ DropSender(k)
      PROVE  Stays(k) \/ Leaves(k)
  <2>1. /\ pc[k] \in {"take", "drop"} /\ Kind[k] # "startup"
        /\ \/ Goto(k, "done") /\ Release(k)
           \/ /\ UNCHANGED guard
              /\ \/ Goto(k, AfterDrop(k)) /\ Kind[k] # "disconnect"
                 \/ Goto(k, "drop")
    BY <1>0, <1>3, Kinds DEF TakeOld, DropSender, Return, Placed
  <2>2. CASE Goto(k, "done") /\ Release(k)
    BY <1>0, <2>1, <2>2, Kinds DEF Leaves, Holds, Places
  <2>3. CASE UNCHANGED guard /\ Goto(k, "drop")
    BY <1>0, <2>1, <2>3, Kinds DEF Stays, Holds, Places
  <2>4. CASE UNCHANGED guard /\ Goto(k, AfterDrop(k)) /\ Kind[k] # "disconnect"
    <3>1. \/ AfterDrop(k) = "dial" /\ Kind[k] = "configure"
          \/ AfterDrop(k) = "put"
      BY <2>4 DEF AfterDrop
    <3> QED BY <1>0, <2>1, <2>4, <3>1, Kinds DEF Stays, Holds, Places
  <2> QED BY <2>1, <2>2, <2>3, <2>4
<1>4. ASSUME NEW k \in Writers, TakeNone(k)
      PROVE  Stays(k)
  BY <1>0, <1>4, Kinds DEF TakeNone, Stays, Holds, Places
<1>5. ASSUME NEW k \in Writers, Put(k)
      PROVE  Stays(k) \/ Leaves(k)
  <2>1. k \in Dialers /\ pc[k] = "put"
    BY <1>0, <1>5, Kinds DEF Placed, Put
  <2>2. \/ Kind[k] = "connect" /\ Goto(k, "watch") /\ Release(k)
        \/ Kind[k] = "configure" /\ Goto(k, "watch") /\ UNCHANGED guard
        \/ Goto(k, "done") /\ Release(k)
    BY <1>5, <2>1 DEF Put, Return, Dialers
  <2> QED BY <1>0, <2>1, <2>2, Kinds DEF Stays, Leaves, Holds, Places
<1>6. ASSUME NEW k \in Writers, WatchFirst(k)
      PROVE  Lines(k)
  BY <1>6 DEF WatchFirst, Lines, Holds
<1>7. ASSUME NEW c \in Dialers, Dial(c) \/ SeesConnected(c)
      PROVE  Stays(c) \/ Lines(c)
  <2>1. CASE Dial(c)
    BY <1>0, <2>1, Kinds DEF Dial, Stays, Holds, Places
  <2>2. CASE SeesConnected(c)
    <3>1. pc[c] = "poll"
          /\ \/ Kind[c] = "connect" /\ Lock(c)
             \/ Kind[c] = "configure" /\ Goto(c, "put") /\ UNCHANGED guard
             \/ Kind[c] = "startup" /\ Goto(c, "watch") /\ UNCHANGED guard
      BY <2>2 DEF SeesConnected, Dialers
    <3> QED BY <1>0, <3>1, Kinds DEF Stays, Lines, Holds, Places
  <2> QED BY <1>7, <2>1, <2>2
<1>8. ASSUME NEW k \in Calls, SendOverIroh(k) \/ Prepare(k) \/ Send(k) \/ Room(k)
      PROVE  Stays(k)
  <2>1. /\ pc[k] \in {"in", "send", "full"} /\ UNCHANGED guard
        /\ Goto(k, "send") \/ Goto(k, "wait") \/ Goto(k, "full")
    BY <1>8 DEF SendOverIroh, Prepare, Send, Room
  <2> QED BY <1>0, <2>1 DEF Stays, Holds, Places
<1>9. ASSUME NEW c \in Dialers, Read(c) \/ WriteTask(c) \/ Serve(c) \/ CodeUsed(c)
                                \/ ServerSeesEnd(c) \/ ServerCloses(c)
      PROVE  UNCHANGED <<pc, guard>>
  BY <1>9 DEF Read, OnRegistered, Registered, OnInviteCode, OnInviteResult, Resolve,
              ReadEnds, AbortWriter, WriteTask, Write, WriteEnds, Serve, CodeUsed,
              ServerSeesEnd, ServerCloses, Closed, command
<1>10. UNCHANGED vars => UNCHANGED <<pc, guard>>
  BY DEF vars, command
<1> QED BY <1>1, <1>2, <1>3, <1>4, <1>5, <1>6, <1>7, <1>8, <1>9, <1>10, Kinds
        DEF Next, Change, Ask, Connect

LEMMA GuardStep ==
  ASSUME TypeInv, GuardInv, [Next]_vars
  PROVE  GuardInv'
<1> USE DEF GuardInv
<1>0. /\ pc \in [Calls -> Places] /\ waiting \in Seq(Calls) /\ inside \subseteq Calls
      /\ Len(waiting) \in Nat /\ \A n \in 1..Len(waiting) : waiting[n] \in Calls
  BY LenProperties, ElementOfSeq DEF TypeInv, CommandTypes, GuardTypes
<1>1. CASE UNCHANGED <<pc, guard>>
  BY <1>1 DEF guard, InsideHolds, Exclusive, InLine, OnceInLine, Holds
<1>2. ASSUME NEW k \in Calls, Stays(k)
      PROVE  GuardInv'
  <2>1. /\ \A h \in Calls \ {k} : pc'[h] = pc[h]
        /\ waiting' = waiting /\ inside' = inside /\ pc[k] # "lock"
        /\ Holds(k)' <=> Holds(k)
    BY <1>0, <1>2 DEF Stays, Rests, Goto, guard
  <2>2. InsideHolds'
    BY <2>1 DEF InsideHolds, Holds
  <2>3. InLine' /\ OnceInLine'
    BY <1>0, <2>1 DEF InLine, OnceInLine
  <2> QED BY <2>1, <2>2, <2>3 DEF Exclusive
<1>3. ASSUME NEW k \in Calls, Leaves(k)
      PROVE  GuardInv'
  <2>1. /\ \A h \in Calls \ {k} : pc'[h] = pc[h]
        /\ waiting' = waiting /\ inside' = inside \ {k} /\ pc[k] # "lock"
        /\ ~Holds(k)'
    BY <1>0, <1>3 DEF Leaves, Rests, Release, Goto
  <2>2. InsideHolds'
    BY <2>1 DEF InsideHolds, Holds
  <2>3. InLine' /\ OnceInLine'
    BY <1>0, <2>1 DEF InLine, OnceInLine
  <2> QED BY <2>1, <2>2, <2>3 DEF Exclusive
<1>4. ASSUME NEW k \in Calls, Lines(k)
      PROVE  GuardInv'
  <2>1. /\ \A h \in Calls \ {k} : pc'[h] = pc[h]
        /\ waiting' = Append(waiting, k) /\ inside' = inside /\ pc[k] # "lock"
        /\ pc'[k] = "lock" /\ ~Holds(k)
    BY <1>0, <1>4 DEF Lines, Rests, Lock, Goto
  <2>2. InsideHolds'
    BY <2>1 DEF InsideHolds, Holds
  <2>3. /\ \A n \in 1..Len(waiting) : waiting'[n] = waiting[n] /\ waiting[n] # k
        /\ waiting'[Len(waiting) + 1] = k
        /\ \A n \in 1..Len(waiting') : n \in 1..Len(waiting) \/ n = Len(waiting) + 1
    BY <1>0, <2>1, PutElements DEF InLine
  <2>4. InLine'
    BY <1>0, <2>1, <2>3 DEF InLine
  <2>5. OnceInLine'
    BY <1>0, <2>3 DEF OnceInLine
  <2> QED BY <2>1, <2>2, <2>4, <2>5 DEF Exclusive
<1>5. ASSUME NEW k \in Calls, Granted(k)
      PROVE  GuardInv'
  <2>1. /\ \A h \in Calls \ {k} : pc'[h] = pc[h]
        /\ waiting # <<>> /\ k = Head(waiting) /\ waiting' = Tail(waiting)
        /\ inside' = inside \cup {k}
        /\ pc'[k] \in {"take", "in"}
        /\ IF k \in Writers THEN inside = {} ELSE inside \cap Writers = {}
    BY <1>0, <1>5 DEF Granted, Goto
  <2>2. /\ Len(waiting) \in Nat \ {0} /\ k = waiting[1]
        /\ Len(waiting') = Len(waiting) - 1
        /\ \A n \in 1..Len(waiting') : n + 1 \in 1..Len(waiting) /\ waiting'[n] = waiting[n + 1]
    BY <1>0, <2>1, TakeElements
  <2>3. \A n \in 1..Len(waiting') : waiting'[n] # k /\ waiting'[n] \in Calls
    BY <1>0, <2>2 DEF OnceInLine
  <2>4. InsideHolds'
    BY <2>1 DEF InsideHolds, Holds
  <2>5. InLine'
    BY <2>1, <2>2, <2>3 DEF InLine
  <2>6. OnceInLine'
    <3>1. \A n, m \in 1..Len(waiting') : n + 1 = m + 1 => n = m
      BY <2>2
    <3> QED BY <2>2, <3>1 DEF OnceInLine
  <2>7. Exclusive'
    BY <2>1 DEF Exclusive
  <2> QED BY <2>4, <2>5, <2>6, <2>7
<1> QED BY <1>1, <1>2, <1>3, <1>4, <1>5, GuardMoves

LEMMA GuardStart == Init => GuardInv
  BY DEF Init, GuardInv, InsideHolds, Exclusive, InLine, OnceInLine, Holds

(* While a command holds the guard for writing nobody reads the slot, and  *)
(* while one reads it nobody changes it.                                   *)
LEMMA Alone ==
  ASSUME TypeInv, GuardInv, NEW k \in Calls, NEW h \in Calls, k # h,
         Holds(k), Holds(h)
  PROVE  k \notin Writers /\ h \notin Writers
  BY DEF GuardInv, InsideHolds, Exclusive

-----------------------------------------------------------------------------
(* Which step changes what.                                                *)
LEMMA ClientSame ==
  ASSUME [Next]_vars
  PROVE  \/ UNCHANGED client
         \/ \E k \in Writers : DropSender(k)
         \/ \E k \in Askers : Prepare(k) \/ Send(k) \/ Room(k) \/ SendFails(k)
         \/ \E c \in Dialers : \/ Dial(c) \/ DialFails(c) \/ Registered(c)
                               \/ OnInviteCode(c) \/ OnInviteResult(c)
                               \/ ReadEnds(c) \/ AbortWriter(c)
<1>1. ASSUME NEW k \in Calls,
             \/ Give(k) \/ Granted(k) \/ Look(k) \/ SendOverIroh(k) \/ IrohEnds(k)
             \/ TakeOld(k) \/ TakeNone(k) \/ Put(k) \/ Watch(k) \/ WatchFirst(k)
             \/ Answered(k) \/ TimesOut(k)
             \/ SeesConnected(k) \/ SeesDisconnected(k) \/ GivesUp(k)
             \/ OnRegistered(k) \/ WriteTask(k) \/ Serve(k) \/ CodeUsed(k)
             \/ ServerSeesEnd(k) \/ ServerCloses(k)
      PROVE  UNCHANGED client
  BY <1>1 DEF Give, Granted, Look, SendOverIroh, IrohEnds, TakeOld, TakeNone, Put,
              Watch, WatchFirst, Answered, TimesOut, SeesConnected, SeesDisconnected,
              GivesUp, OnRegistered, WriteTask, Write, WriteEnds, Serve, CodeUsed,
              ServerSeesEnd, ServerCloses, Closed
<1>2. UNCHANGED vars => UNCHANGED client
  BY DEF vars
<1> QED BY <1>1, <1>2, Kinds DEF Next, Change, Ask, Connect, Read

(* A command that changes the slot moves by these steps.                   *)
LEMMA WriterMoves ==
  ASSUME TypeInv, [Next]_vars, NEW c \in Writers
  PROVE  \/ pc'[c] = pc[c]
         \/ Give(c) \/ Granted(c)
         \/ Dial(c) \/ DialFails(c) \/ SeesConnected(c) \/ SeesDisconnected(c) \/ GivesUp(c)
         \/ TakeOld(c) \/ TakeNone(c) \/ DropSender(c)
         \/ Put(c) \/ Watch(c) \/ WatchFirst(c)
<1>0. pc \in [Calls -> Places] /\ c \in Calls /\ c \notin Askers
      /\ (pc[c] \notin {"in", "send", "full", "wait"})
  BY Kinds DEF TypeInv, CommandTypes, Placed
<1>1. ASSUME NEW k \in Calls \ {c}, NEW w \in Places, Goto(k, w)
      PROVE  pc'[c] = pc[c]
  BY <1>0, <1>1 DEF Goto
<1>2. ASSUME NEW k \in Calls \ {c}, Give(k) \/ Granted(k)
      PROVE  pc'[c] = pc[c]
  BY <1>0, <1>2 DEF Give, Granted, Lock, Goto
<1>3. ASSUME NEW k \in Calls,
             \/ Look(k) \/ SendOverIroh(k) \/ IrohEnds(k)
             \/ Prepare(k) \/ Send(k) \/ Room(k) \/ SendFails(k) \/ Answered(k) \/ TimesOut(k)
      PROVE  pc'[c] = pc[c]
  BY <1>0, <1>3 DEF Look, SendOverIroh, IrohEnds, Prepare, Send, Room, SendFails,
                    Answered, TimesOut, Return, Goto
<1>4. ASSUME NEW k \in Calls \ {c},
             \/ Dial(k) \/ DialFails(k) \/ SeesDisconnected(k) \/ GivesUp(k)
             \/ TakeOld(k) \/ TakeNone(k) \/ DropSender(k) \/ Watch(k) \/ WatchFirst(k)
      PROVE  pc'[c] = pc[c]
  BY <1>0, <1>4 DEF Dial, DialFails, SeesDisconnected, GivesUp, TakeOld, TakeNone,
                    DropSender, Watch, WatchFirst, Return, Lock, Goto
<1>5. ASSUME NEW k \in Dialers \ {c}, SeesConnected(k)
      PROVE  pc'[c] = pc[c]
  BY <1>0, <1>5 DEF SeesConnected, Dialers, Lock, Goto
<1>6. ASSUME NEW k \in Writers \ {c}, Put(k)
      PROVE  pc'[c] = pc[c]
  <2>1. k \in Dialers
    BY <1>6, Kinds DEF Put, TypeInv, CommandTypes, Placed
  <2> QED BY <1>0, <1>6, <2>1 DEF Put, Dialers, Return, Goto
<1>7. ASSUME NEW k \in Dialers, Read(k) \/ WriteTask(k) \/ Serve(k) \/ CodeUsed(k)
                                \/ ServerSeesEnd(k) \/ ServerCloses(k)
      PROVE  pc' = pc
  BY <1>7 DEF Read, OnRegistered, Registered, OnInviteCode, OnInviteResult, Resolve,
              ReadEnds, AbortWriter, WriteTask, Write, WriteEnds, Serve, CodeUsed,
              ServerSeesEnd, ServerCloses, Closed, command
<1>8. UNCHANGED vars => pc' = pc
  BY DEF vars, command
<1> QED BY <1>2, <1>3, <1>4, <1>5, <1>6, <1>7, <1>8, Kinds DEF Next, Change, Ask, Connect

(* The way of such a command, and where it turns off it.                   *)
LEMMA WriterWay ==
  ASSUME TypeInv, GuardInv, [Next]_vars, NEW c \in Writers
  PROVE  \/ pc'[c] = pc[c]
         \/ /\ pc[c] = "idle"
            /\ \/ Kind[c] \in {"startup", "connect"} /\ pc'[c] = "dial"
               \/ Kind[c] \in {"configure", "disconnect"} /\ pc'[c] = "lock"
         \/ pc[c] = "lock" /\ pc'[c] = "take"
         \/ pc[c] = "dial" /\ Dial(c) /\ pc'[c] = "poll"
         \/ pc[c] = "dial" /\ DialFails(c) /\ pc'[c] = "done"
         \/ /\ pc[c] = "poll" /\ SeesConnected(c)
            /\ \/ Kind[c] = "connect" /\ pc'[c] = "lock"
               \/ Kind[c] = "configure" /\ pc'[c] = "put"
               \/ Kind[c] = "startup" /\ pc'[c] = "watch"
         \/ /\ pc[c] = "poll" /\ pc'[c] = "done"
            /\ SeesDisconnected(c) \/ GivesUp(c)
         \/ /\ pc[c] = "take" /\ TakeOld(c) /\ Kind[c] # "startup"
            /\ \/ pc'[c] = "drop" /\ slot # None
               \/ pc'[c] = "done" /\ slot = None /\ Kind[c] = "disconnect"
               \/ pc'[c] = AfterDrop(c) /\ slot = None /\ Kind[c] # "disconnect"
         \/ pc[c] = "take" /\ TakeNone(c) /\ Kind[c] = "startup" /\ pc'[c] = "put"
         \/ /\ pc[c] = "drop" /\ DropSender(c) /\ Kind[c] # "startup"
            /\ \/ pc'[c] = "done" /\ Kind[c] = "disconnect"
               \/ pc'[c] = AfterDrop(c) /\ Kind[c] # "disconnect"
         \/ /\ pc[c] = "put" /\ Put(c)
            /\ \/ Kind[c] # "startup" /\ pc'[c] = "watch"
               \/ Kind[c] = "startup" /\ pc'[c] = "done"
         \/ pc[c] = "watch" /\ Watch(c) /\ Kind[c] # "startup" /\ pc'[c] = "done"
         \/ pc[c] = "watch" /\ WatchFirst(c) /\ Kind[c] = "startup" /\ pc'[c] = "lock"
<1>0. /\ pc \in [Calls -> Places] /\ c \in Calls /\ Placed(c)
      /\ Kind[c] \in {"startup", "connect", "configure", "disconnect"}
      /\ c \in Dialers => Kind[c] # "disconnect"
  BY Kinds DEF TypeInv, CommandTypes, Dialers, Writers
<1>a. ASSUME NEW w, Goto(c, w)
      PROVE  pc'[c] = w
  BY <1>0, <1>a DEF Goto
<1>1. CASE Give(c)
  BY <1>0, <1>a, <1>1 DEF Give, Lock
<1>2. CASE Granted(c)
  <2>1. pc[c] = "lock"
    <3>1. waiting \in Seq(Calls) /\ waiting # <<>> /\ Head(waiting) = c
      BY <1>2 DEF Granted, TypeInv, GuardTypes
    <3>2. 1 \in 1..Len(waiting) /\ waiting[1] = c
      BY <3>1, TakeElements
    <3> QED BY <3>2 DEF GuardInv, InLine
  <2> QED BY <1>0, <1>a, <1>2, <2>1 DEF Granted
<1>3. CASE Dial(c) \/ DialFails(c) \/ SeesDisconnected(c) \/ GivesUp(c)
  BY <1>a, <1>3 DEF Dial, DialFails, SeesDisconnected, GivesUp, Return
<1>4. CASE SeesConnected(c)
  BY <1>0, <1>a, <1>4 DEF SeesConnected, Placed, Lock
<1>5. CASE TakeOld(c) \/ DropSender(c)
  BY <1>0, <1>a, <1>5 DEF TakeOld, DropSender, Return, Placed
<1>6. CASE TakeNone(c) \/ Watch(c) \/ WatchFirst(c)
  BY <1>a, <1>6 DEF TakeNone, Watch, WatchFirst, Return, Lock
<1>7. CASE Put(c)
  BY <1>0, <1>a, <1>7 DEF Put, Placed, Return
<1> QED BY <1>1, <1>2, <1>3, <1>4, <1>5, <1>6, <1>7, WriterMoves

(* Nobody waits for an answer of another kind.                             *)
PendingKind == \A c \in Dialers, q \in Asked :
  pending[c][q] # None => pending[c][q] \in Askers /\ Kind[pending[c][q]] = q

LEMMA PendingKindStep ==
  ASSUME TypeInv, PendingKind, [Next]_vars
  PROVE  PendingKind'
<1>0. pending \in [Dialers -> [Asked -> Calls \cup {None}]]
  BY DEF TypeInv, ClientTypes
<1>1. ASSUME NEW k \in Askers, Prepare(k)
      PROVE  PendingKind'
  <2>1. Kind[k] \in Asked /\ slot \in Dialers
    BY <1>1, Kinds DEF Prepare, TypeInv, SharedTypes
  <2> QED BY <1>0, <1>1, <2>1 DEF Prepare, PendingKind
<1>2. ASSUME NEW c \in Dialers, OnInviteCode(c) \/ OnInviteResult(c)
      PROVE  PendingKind'
  BY <1>0, <1>2 DEF OnInviteCode, OnInviteResult, Resolve, PendingKind, Asked
<1>3. CASE UNCHANGED client
  BY <1>3 DEF client, PendingKind
<1>4. CASE \/ \E k \in Writers : DropSender(k)
           \/ \E k \in Askers : Send(k) \/ Room(k) \/ SendFails(k)
           \/ \E c \in Dialers : \/ Dial(c) \/ DialFails(c) \/ Registered(c)
                                 \/ ReadEnds(c) \/ AbortWriter(c)
  <2>1. pending' = pending
    BY <1>4 DEF DropSender, Send, Room, SendFails, Dial, DialFails, Registered,
                ReadEnds, AbortWriter
  <2> QED BY <2>1 DEF PendingKind
<1> QED BY <1>1, <1>2, <1>3, <1>4, ClientSame

(* A command gets something when it returns, when another takes its place, *)
(* and with an answer.                                                     *)
Returns(k) == \E what \in Words :
  Return(k, what) /\ (k \in Askers /\ outcome[k] = "none" => what \in {"error", "timeout"})

LEMMA OutcomeMoves ==
  ASSUME TypeInv, PendingKind, [Next]_vars
  PROVE  \/ outcome' = outcome
         \/ \E k \in Calls : Returns(k)
         \/ \E k \in Askers : Prepare(k) /\ pending[slot][Kind[k]] \in Askers \cup {None}
         \/ \E c \in Dialers, q \in Asked :
              /\ \/ OnInviteCode(c) /\ q = "invite"
                 \/ OnInviteResult(c) /\ q = "accept"
              /\ pending[c][q] \in Askers \cup {None}
<1>1. ASSUME NEW h \in Calls,
             \/ Look(h) \/ IrohEnds(h) \/ SendFails(h) \/ Answered(h) \/ TimesOut(h)
             \/ SeesDisconnected(h) \/ GivesUp(h) \/ DialFails(h)
      PROVE  Returns(h)
  BY <1>1 DEF Look, IrohEnds, SendFails, Answered, TimesOut, SeesDisconnected,
              GivesUp, DialFails, Words, Returns, Askers
<1>2. ASSUME NEW h \in Writers, TakeOld(h) \/ DropSender(h) \/ Put(h) \/ Watch(h)
      PROVE  outcome' = outcome \/ Returns(h)
  <2>1. pc[h] = "put" => h \in Dialers
    BY Kinds DEF TypeInv, CommandTypes, Placed
  <2>2. outcome' = outcome \/ Return(h, "ok")
    BY <1>2, <2>1 DEF TakeOld, DropSender, Put, Watch, Dialers
  <2> QED BY <2>2, Kinds DEF Words, Returns
<1>3. ASSUME NEW h \in Askers, Prepare(h)
      PROVE  pending[slot][Kind[h]] \in Askers \cup {None}
  <2>1. slot \in Dialers /\ Kind[h] \in Asked
    BY <1>3, Kinds DEF Prepare, TypeInv, SharedTypes
  <2> QED BY <2>1 DEF PendingKind
<1>4. ASSUME NEW c \in Dialers, NEW q \in Asked
      PROVE  pending[c][q] \in Askers \cup {None}
  BY DEF PendingKind
<1>5. ASSUME NEW h \in Calls,
             \/ Give(h) \/ Granted(h) \/ SendOverIroh(h) \/ TakeNone(h) \/ WatchFirst(h)
             \/ Send(h) \/ Room(h) \/ Dial(h) \/ SeesConnected(h)
             \/ OnRegistered(h) \/ Registered(h) \/ ReadEnds(h) \/ AbortWriter(h)
             \/ WriteTask(h) \/ Serve(h) \/ CodeUsed(h) \/ ServerSeesEnd(h) \/ ServerCloses(h)
      PROVE  outcome' = outcome
  BY <1>5 DEF Give, Granted, SendOverIroh, TakeNone, WatchFirst, Send, Room, Dial,
              SeesConnected, OnRegistered, Registered, ReadEnds, AbortWriter, WriteTask,
              Write, WriteEnds, Serve, CodeUsed, ServerSeesEnd, ServerCloses, Closed,
              command
<1>6. UNCHANGED vars => outcome' = outcome
  BY DEF vars, command
<1>7. "invite" \in Asked /\ "accept" \in Asked
  BY DEF Asked
<1>8. \/ UNCHANGED vars
      \/ \E h \in Calls :
           \/ Look(h) \/ IrohEnds(h) \/ SendFails(h) \/ Answered(h) \/ TimesOut(h)
           \/ SeesDisconnected(h) \/ GivesUp(h) \/ DialFails(h)
           \/ Give(h) \/ Granted(h) \/ SendOverIroh(h) \/ TakeNone(h) \/ WatchFirst(h)
           \/ Send(h) \/ Room(h) \/ Dial(h) \/ SeesConnected(h)
           \/ OnRegistered(h) \/ Registered(h) \/ ReadEnds(h) \/ AbortWriter(h)
           \/ WriteTask(h) \/ Serve(h) \/ CodeUsed(h) \/ ServerSeesEnd(h) \/ ServerCloses(h)
      \/ \E h \in Writers : TakeOld(h) \/ DropSender(h) \/ Put(h) \/ Watch(h)
      \/ \E h \in Askers : Prepare(h)
      \/ \E c \in Dialers : OnInviteCode(c) \/ OnInviteResult(c)
  BY Kinds DEF Next, Change, Ask, Connect, Read
<1> QED
  <2>1. CASE \E c \in Dialers : OnInviteCode(c) \/ OnInviteResult(c)
    BY <1>4, <1>7, <2>1
  <2>2. CASE \E h \in Askers : Prepare(h)
    BY <1>3, <2>2
  <2>3. CASE \E h \in Writers : TakeOld(h) \/ DropSender(h) \/ Put(h) \/ Watch(h)
    BY <1>2, <2>3, Kinds
  <2> QED BY <1>1, <1>5, <1>6, <1>8, <2>1, <2>2, <2>3

(* What a command got stays, and who asked for nothing gets it on return.  *)
LEMMA OutcomeStays ==
  ASSUME TypeInv, PendingKind, [Next]_vars, NEW k \in Calls
  PROVE  /\ outcome[k] # "none" => outcome'[k] = outcome[k]
         /\ k \notin Askers /\ pc'[k] # "done" => outcome'[k] = outcome[k]
<1>0. outcome \in [Calls -> Words \cup Calls] /\ pc \in [Calls -> Places]
  BY DEF TypeInv, CommandTypes
<1>1. ASSUME NEW h \in Calls, NEW what, Return(h, what)
      PROVE  \/ outcome'[k] = outcome[k]
             \/ outcome[k] = "none" /\ pc'[k] = "done"
  BY <1>0, <1>1 DEF Return, Goto
<1>2. ASSUME NEW h \in Askers \cup {None}, NEW what, Tell(h, what)
      PROVE  \/ outcome'[k] = outcome[k]
             \/ outcome[k] = "none" /\ k \in Askers
  BY <1>0, <1>2, Kinds DEF Tell
<1> QED BY <1>1, <1>2, OutcomeMoves
        DEF Returns, Prepare, OnInviteCode, OnInviteResult, Resolve

-----------------------------------------------------------------------------
(* Which clients are open.                                                 *)
Through(c) == \/ pc[c] = "done"
              \/ pc[c] = "watch" /\ Kind[c] # "startup"
SlotHas(c) == slot = c => Through(c)
SlotFree(k) == \/ Kind[k] # "startup" /\ pc[k] \in {"drop", "put"}
               \/ Kind[k] = "configure" /\ pc[k] \in {"dial", "poll"}
               => slot = None
SlotLost(k) == Kind[k] = "startup" /\ pc[k] = "put" => slot \in lost \cup {None}
NoOld(k)      == pc[k] # "drop" => old[k] = None
Undialed(c)   == \/ pc[c] \in {"idle", "dial"}
                 \/ Kind[c] = "configure" /\ pc[c] \in {"lock", "take", "drop"}
                 => ~out[c]
Unanswered(k) == k \notin Askers /\ pc[k] # "done" => outcome[k] = "none"
Polled(c)     == pc[c] = "poll" /\ status[c] = "disconnected"
                   => rd[c] = "closing" \/ ~out[c]
Closable(c) ==
  out[c] /\ slot # c /\ Through(c) =>
    \/ outcome[c] = "timeout" \/ rd[c] = "closing" \/ c \in lost
    \/ \E k \in Writers : old[k] = c

OpenInv == /\ \A c \in Dialers : SlotHas(c) /\ Undialed(c) /\ Polled(c) /\ Closable(c)
           /\ \A k \in Calls : SlotFree(k) /\ SlotLost(k) /\ NoOld(k) /\ Unanswered(k)

(* What is known of every step below.                                      *)
Sound == TypeInv /\ GuardInv /\ PendingKind /\ OpenInv

LEMMA Parts ==
  ASSUME Sound
  PROVE  /\ TypeInv /\ GuardInv /\ PendingKind
         /\ \A c \in Dialers : SlotHas(c) /\ Undialed(c) /\ Polled(c) /\ Closable(c)
         /\ \A k \in Calls : SlotFree(k) /\ SlotLost(k) /\ NoOld(k) /\ Unanswered(k)
         /\ pc \in [Calls -> Places] /\ outcome \in [Calls -> Words \cup Calls]
         /\ old \in [Calls -> Dialers \cup {None}]
         /\ out \in [Dialers -> BOOLEAN] /\ slot \in Dialers \cup {None}
         /\ status \in [Dialers -> {"disconnected", "connecting", "connected"}]
         /\ rd \in [Dialers -> {"none", "reading", "updating", "closing", "ended"}]
         /\ \A k \in Calls : Placed(k)
  BY DEF Sound, OpenInv, TypeInv, CommandTypes, SharedTypes, ClientTypes, TaskTypes

LEMMA SlotMoves ==
  ASSUME [Next]_vars
  PROVE  \/ slot' = slot
         \/ \E k \in Writers : TakeOld(k) /\ slot' = None
         \/ \E k \in Writers : Put(k) /\ slot' = k
  BY SharedSame DEF TakeOld, TakeNone, Put, Watch, WatchFirst, shared

LEMMA LostGrows ==
  ASSUME [Next]_vars
  PROVE  lost \subseteq lost'
  BY SharedSame DEF TakeOld, TakeNone, Put, Watch, WatchFirst, shared

LEMMA OutMoves ==
  ASSUME Sound, [Next]_vars, NEW c \in Dialers
  PROVE  /\ out'[c] => out[c] \/ Dial(c)
         /\ pc[c] # "dial" =>
              /\ rd[c] = "closing" => rd'[c] = "closing" \/ ~out'[c]
              /\ status'[c] = "disconnected" =>
                   status[c] = "disconnected" \/ rd'[c] = "closing" \/ ~out'[c]
<1>0. /\ out \in [Dialers -> BOOLEAN]
      /\ status \in [Dialers -> {"disconnected", "connecting", "connected"}]
      /\ rd \in [Dialers -> {"none", "reading", "updating", "closing", "ended"}]
      /\ old \in [Calls -> Dialers \cup {None}] /\ Writers \subseteq Calls
  BY Parts, Kinds
<1> DEFINE Fewer == /\ out'[c] => out[c] \/ Dial(c)
                    /\ pc[c] # "dial" /\ status'[c] = "disconnected" =>
                         status[c] = "disconnected" \/ ReadEnds(c) \/ ~out'[c]
           Closing == pc[c] # "dial" /\ rd[c] = "closing" =>
                        rd'[c] = "closing" \/ ~out'[c]
<1>1. Fewer
  <2>1. ASSUME NEW k \in Writers, DropSender(k)
        PROVE  Fewer
    BY <1>0, <2>1 DEF DropSender
  <2>2. ASSUME NEW d \in Dialers, Dial(d) \/ DialFails(d)
        PROVE  Fewer
    BY <1>0, <2>2 DEF Dial, DialFails
  <2>3. ASSUME NEW d \in Dialers, Registered(d) \/ ReadEnds(d) \/ AbortWriter(d)
        PROVE  Fewer
    BY <1>0, <2>3 DEF Registered, ReadEnds, AbortWriter
  <2>4. ASSUME NEW k \in Calls, \/ Prepare(k) \/ Send(k) \/ Room(k) \/ SendFails(k)
                                \/ OnInviteCode(k) \/ OnInviteResult(k)
        PROVE  Fewer
    BY <2>4 DEF Prepare, Send, Room, SendFails, OnInviteCode, OnInviteResult, Resolve
  <2>5. CASE UNCHANGED client
    BY <2>5 DEF client
  <2> QED BY <2>1, <2>2, <2>3, <2>4, <2>5, ClientSame, Kinds
<1>2. Closing
  <2>1. ASSUME NEW d \in Dialers, \/ Dial(d) \/ OnRegistered(d) \/ Registered(d)
                                  \/ ReadEnds(d) \/ AbortWriter(d) \/ WriteTask(d)
        PROVE  Closing
    BY <1>0, <2>1 DEF Dial, OnRegistered, Got, Registered, ReadEnds, AbortWriter,
                      WriteTask, Write, WriteEnds
  <2>2. ASSUME NEW k \in Askers, Send(k) \/ Room(k)
        PROVE  rd' = rd
    BY <2>2 DEF Send, Room
  <2>3. UNCHANGED tasks => rd' = rd
    BY DEF tasks
  <2> QED BY <2>1, <2>2, <2>3, TasksSame
<1>3. ReadEnds(c) => rd'[c] = "closing"
  BY <1>0 DEF ReadEnds
<1> QED BY <1>1, <1>2, <1>3

LEMMA OldMoves ==
  ASSUME TypeInv, [Next]_vars
  PROVE  \/ old' = old
         \/ \E k \in Writers : TakeOld(k) \/ DropSender(k)
<1>1. ASSUME NEW k \in Calls,
             \/ Give(k) \/ Granted(k) \/ Look(k) \/ SendOverIroh(k) \/ IrohEnds(k)
             \/ TakeNone(k) \/ Put(k) \/ Watch(k) \/ WatchFirst(k) \/ Ask(k)
             \/ Connect(k) \/ DialFails(k)
      PROVE  old' = old
  BY <1>1 DEF Give, Granted, Look, SendOverIroh, IrohEnds, TakeNone, Put, Watch,
              WatchFirst, Ask, Prepare, Send, Room, SendFails, Answered, TimesOut,
              Connect, Dial, SeesConnected, SeesDisconnected, GivesUp, DialFails
<1>2. ASSUME NEW c \in Dialers, Read(c) \/ WriteTask(c) \/ Serve(c) \/ CodeUsed(c)
                                \/ ServerSeesEnd(c) \/ ServerCloses(c)
      PROVE  old' = old
  BY <1>2 DEF Read, OnRegistered, Registered, OnInviteCode, OnInviteResult, Resolve,
              ReadEnds, AbortWriter, WriteTask, Write, WriteEnds, Serve, CodeUsed,
              ServerSeesEnd, ServerCloses, Closed, command
<1>3. UNCHANGED vars => old' = old
  BY DEF vars, command
<1> QED BY <1>1, <1>2, <1>3, Kinds DEF Next, Change

(* Every part, kept by every step.                                         *)
LEMMA SlotHasStep ==
  ASSUME Sound, [Next]_vars, NEW c \in Dialers
  PROVE  SlotHas(c)'
<1>0. SlotHas(c) /\ c # None
  BY Parts, Kinds
<1>1. slot = c \/ Put(c) => Through(c)'
  <2>1. Put(c) => pc[c] = "put"
    BY DEF Put
  <2>2. ASSUME Through(c)
        PROVE  pc'[c] = pc[c] \/ pc'[c] = "done"
    BY <2>2, Parts, WriterWay, Kinds DEF Through
  <2>3. ASSUME pc[c] = "put"
        PROVE  pc'[c] = pc[c] \/ Through(c)'
    BY <2>3, Parts, WriterWay, Kinds DEF Through
  <2>4. ASSUME Put(c)
        PROVE  pc'[c] # "put"
    <3>1. c \in Calls /\ Kind[c] \in {"startup", "connect", "configure"}
      BY Kinds DEF Dialers
    <3> QED BY <2>4, <3>1, Parts DEF Put, Return, Goto
  <2> QED BY <1>0, <2>1, <2>2, <2>3, <2>4 DEF SlotHas, Through
<1> QED BY <1>0, <1>1, SlotMoves DEF SlotHas

(* A command that is about to fill the slot finds it as it left it.        *)
Filling(k) == \/ pc[k] \in {"drop", "put"}
              \/ Kind[k] = "configure" /\ pc[k] \in {"dial", "poll"}

LEMMA SlotKept ==
  ASSUME Sound, [Next]_vars, NEW k \in Calls, Filling(k)
  PROVE  slot' = slot \/ slot' = None \/ Put(k)
<1>1. Holds(k) /\ (pc[k] \in {"drop", "put"} => k \in Writers)
      /\ (Kind[k] = "configure" => k \in Writers)
  BY Parts, Kinds DEF Filling, Holds, Placed, Writers
<1>2. ASSUME NEW h \in Writers, Put(h), h # k
      PROVE  FALSE
  BY <1>1, <1>2, Parts, Kinds, Alone DEF Put, Holds, Filling
<1> QED BY <1>2, SlotMoves

LEMMA SlotFreeStep ==
  ASSUME Sound, [Next]_vars, NEW k \in Calls
  PROVE  SlotFree(k)' /\ SlotLost(k)'
<1>0. CASE k \notin Writers
  <2>1. pc'[k] \notin {"drop", "put"} /\ Kind[k] # "configure"
    BY <1>0, Parts, CommandTypesStep, Kinds DEF CommandTypes, Placed, Writers
  <2> QED BY <2>1 DEF SlotFree, SlotLost
<1> SUFFICES ASSUME k \in Writers
             PROVE  SlotFree(k)' /\ SlotLost(k)'
  BY <1>0
<1>3. /\ SlotFree(k) /\ SlotLost(k) /\ lost \subseteq lost' /\ TypeInv /\ GuardInv
      /\ pc[k] \in {"put", "dial", "poll"} => k \in Dialers
      /\ Kind[k] \in {"startup", "connect", "configure", "disconnect"}
  BY Parts, LostGrows, Kinds DEF Writers, Placed
<1>1. ASSUME Filling(k)
      PROVE  SlotFree(k)' /\ SlotLost(k)'
  <2>1. CASE pc'[k] = pc[k]
    <3>1. ~Put(k)
      BY <1>3, <2>1, Parts DEF Put, Return, Goto, Dialers
    <3> QED BY <1>3, <1>1, <2>1, <3>1, SlotKept DEF SlotFree, SlotLost
  <2>2. CASE DropSender(k) /\ pc[k] = "drop"
    <3>1. slot' = slot /\ Kind[k] # "startup"
      BY <1>3, <2>2, Parts DEF DropSender, shared, Placed
    <3> QED BY <1>3, <2>2, <3>1 DEF SlotFree, SlotLost
  <2>3. CASE Dial(k) \/ SeesConnected(k)
    <3>1. slot' = slot /\ pc[k] \in {"dial", "poll"} /\ Kind[k] = "configure"
      BY <1>1, <2>3 DEF Dial, SeesConnected, shared, Filling
    <3> QED BY <1>3, <3>1 DEF SlotFree, SlotLost
  <2>4. CASE pc'[k] \in {"done", "watch"}
    BY <2>4 DEF SlotFree, SlotLost
  <2> QED BY <1>3, <1>1, <2>1, <2>2, <2>3, <2>4, WriterWay DEF Filling
<1>2. ASSUME ~Filling(k)
      PROVE  SlotFree(k)' /\ SlotLost(k)'
  <2>1. CASE TakeOld(k)
    <3>1. slot' = None
      BY <2>1 DEF TakeOld
    <3> QED BY <3>1 DEF SlotFree, SlotLost
  <2>2. CASE TakeNone(k)
    <3>1. slot' = slot /\ slot \in lost' \cup {None} /\ Kind[k] = "startup"
      BY <2>2 DEF TakeNone
    <3> QED BY <3>1 DEF SlotFree, SlotLost
  <2>3. CASE ~TakeOld(k) /\ ~TakeNone(k)
    <3>1. pc'[k] \notin {"drop", "put"}
          /\ ~(Kind[k] = "configure" /\ pc'[k] \in {"dial", "poll"})
      BY <1>3, <1>2, <2>3, WriterWay DEF Filling
    <3> QED BY <3>1 DEF SlotFree, SlotLost
  <2> QED BY <2>1, <2>2, <2>3
<1> QED BY <1>1, <1>2

LEMMA DoneStays ==
  ASSUME Sound, [Next]_vars, NEW k \in Calls, pc[k] = "done"
  PROVE  pc'[k] = "done"
<1>1. ASSUME NEW h \in Calls, Stays(h) \/ Lines(h) \/ Leaves(h)
      PROVE  pc'[k] = "done"
  BY <1>1, Parts DEF Stays, Lines, Leaves, Rests, Goto, Lock
<1>2. ASSUME NEW h \in Calls, Granted(h)
      PROVE  pc'[k] = "done"
  <2>1. waiting \in Seq(Calls) /\ waiting # <<>> /\ Head(waiting) = h
    BY <1>2, Parts DEF Granted, TypeInv, GuardTypes
  <2>2. 1 \in 1..Len(waiting) /\ waiting[1] = h
    BY <2>1, TakeElements
  <2>3. pc[h] = "lock"
    BY <2>2, Parts DEF GuardInv, InLine
  <2> QED BY <1>2, <2>3, Parts DEF Granted, Goto
<1> QED BY <1>1, <1>2, GuardMoves, Parts

LEMMA NoOldStep ==
  ASSUME Sound, [Next]_vars, NEW k \in Calls
  PROVE  NoOld(k)'
<1>1. CASE pc[k] = "drop" /\ pc'[k] # "drop"
  <2>1. DropSender(k)
    BY <1>1, Parts, WriterWay DEF Placed
  <2> QED BY <2>1, Parts DEF DropSender, NoOld
<1>2. CASE pc[k] # "drop"
  <2>1. old[k] = None /\ Writers \subseteq Calls
    BY <1>2, Parts, Kinds DEF NoOld
  <2>2. ASSUME NEW h \in Writers, TakeOld(h)
        PROVE  NoOld(k)'
    BY <2>1, <2>2, Parts DEF TakeOld, Goto, NoOld
  <2>3. ASSUME NEW h \in Writers, DropSender(h)
        PROVE  NoOld(k)'
    BY <2>1, <2>3, Parts DEF DropSender, NoOld
  <2> QED BY <2>1, <2>2, <2>3, OldMoves, Parts DEF NoOld
<1> QED BY <1>1, <1>2 DEF NoOld

LEMMA UndialedStep ==
  ASSUME Sound, [Next]_vars, NEW c \in Dialers
  PROVE  Undialed(c)'
<1>1. SUFFICES ASSUME out'[c]
               PROVE  /\ pc'[c] \notin {"idle", "dial"}
                      /\ Kind[c] = "configure" => pc'[c] \notin {"lock", "take", "drop"}
  BY DEF Undialed
<1>2. c \in Writers /\ Kind[c] \in {"startup", "connect", "configure"} /\ Undialed(c)
  BY Parts, Kinds DEF Dialers
<1>3. CASE Dial(c)
  BY <1>2, <1>3, Parts, Kinds DEF Dial, Goto
<1>4. CASE out[c]
  <2>1. /\ pc[c] \notin {"idle", "dial"}
        /\ Kind[c] = "configure" => pc[c] \notin {"lock", "take", "drop"}
    BY <1>2, <1>4 DEF Undialed
  <2> QED BY <1>2, <2>1, WriterWay, Parts DEF AfterDrop
<1> QED BY <1>1, <1>3, <1>4, OutMoves

LEMMA UnansweredStep ==
  ASSUME Sound, [Next]_vars, NEW k \in Calls
  PROVE  Unanswered(k)'
<1>1. pc'[k] # "done" => pc[k] # "done"
  BY DoneStays
<1> QED BY <1>1, OutcomeStays, Parts DEF Unanswered

LEMMA PolledStep ==
  ASSUME Sound, [Next]_vars, NEW c \in Dialers
  PROVE  Polled(c)'
<1>1. SUFFICES ASSUME pc'[c] = "poll", status'[c] = "disconnected"
               PROVE  rd'[c] = "closing" \/ ~out'[c]
  BY DEF Polled
<1>2. c \in Writers /\ Kind[c] \in {"startup", "connect", "configure"} /\ Polled(c)
  BY Parts, Kinds DEF Dialers
<1>3. ~Dial(c)
  BY <1>1, Parts DEF Dial
<1>4. pc[c] = "poll"
  BY <1>1, <1>2, <1>3, WriterWay, Parts DEF AfterDrop
<1> QED BY <1>1, <1>2, <1>3, <1>4, OutMoves DEF Polled

LEMMA ClosableStep ==
  ASSUME Sound, [Next]_vars, NEW c \in Dialers
  PROVE  Closable(c)'
<1> DEFINE Excused == \/ outcome[c] = "timeout" \/ rd[c] = "closing" \/ c \in lost
                      \/ \E k \in Writers : old[k] = c
<1>1. SUFFICES ASSUME out'[c], slot' # c, Through(c)'
               PROVE  Excused'
  BY DEF Closable
<1>2. /\ c \in Writers /\ Kind[c] \in {"startup", "connect", "configure"} /\ c # None
      /\ Closable(c) /\ Undialed(c) /\ Polled(c) /\ Unanswered(c) /\ c \in Calls \ Askers
      /\ Writers \subseteq Calls
  BY Parts, Kinds DEF Dialers
<1>3. out[c] /\ ~Dial(c)
  <2>1. Dial(c) => pc'[c] = "poll"
    BY <1>2, Parts DEF Dial, Goto
  <2> QED BY <1>1, <2>1, OutMoves DEF Through
<1>4. pc[c] # "dial"
  BY <1>2, <1>3 DEF Undialed
<1>5. ASSUME Excused
      PROVE  Excused'
  <2>1. outcome[c] = "timeout" => outcome'[c] = "timeout"
    BY <1>2, OutcomeStays, Parts
  <2>2. rd[c] = "closing" => rd'[c] = "closing"
    BY <1>1, <1>4, OutMoves
  <2>3. c \in lost => c \in lost'
    BY LostGrows
  <2>4. ASSUME NEW k \in Writers, old[k] = c
        PROVE  old'[k] = c
    <3>1. ASSUME NEW h \in Writers, TakeOld(h)
          PROVE  old'[k] = c
      <4>1. pc[h] = "take" /\ old[h] = None
        BY <1>2, <3>1, Parts DEF TakeOld, NoOld
      <4> QED BY <1>2, <2>4, <3>1, <4>1, Parts DEF TakeOld
    <3>2. ASSUME NEW h \in Writers, DropSender(h)
          PROVE  old'[k] = c
      <4>1. h = k => ~out'[c]
        BY <1>2, <2>4, <3>2, Parts DEF DropSender
      <4> QED BY <1>1, <1>2, <2>4, <3>2, <4>1, Parts DEF DropSender
    <3> QED BY <2>4, <3>1, <3>2, OldMoves, Parts
  <2> QED BY <1>5, <2>1, <2>2, <2>3, <2>4
<1>6. CASE Through(c) /\ slot # c
  BY <1>2, <1>3, <1>5, <1>6 DEF Closable
<1>7. CASE Through(c) /\ slot = c
  <2>1. ASSUME NEW k \in Writers, TakeOld(k)
        PROVE  Excused'
    BY <1>2, <1>7, <2>1, Parts DEF TakeOld
  <2>2. ASSUME NEW k \in Writers, Put(k)
        PROVE  c \in lost
    BY <1>2, <1>7, <2>2, Parts DEF Put, SlotFree, SlotLost
  <2> QED BY <1>1, <1>5, <1>7, <2>1, <2>2, SlotMoves
<1>8. CASE ~Through(c)
  <2>1. CASE SeesDisconnected(c)
    <3>1. rd[c] = "closing"
      BY <1>2, <1>3, <2>1 DEF SeesDisconnected, Polled
    <3> QED BY <1>5, <3>1
  <2>2. CASE GivesUp(c)
    <3>1. outcome[c] = "none"
      BY <1>2, <2>2 DEF GivesUp, Unanswered
    <3> QED BY <1>2, <2>2, <3>1, Parts DEF GivesUp, Return
  <2>3. ~Put(c)
    BY <1>1 DEF Put
  <2>4. ~Watch(c)
    BY <1>8 DEF Watch, Through
  <2> QED BY <1>1, <1>2, <1>3, <1>4, <1>8, <2>1, <2>2, <2>3, <2>4, WriterWay, Parts
          DEF Through, AfterDrop
<1> QED BY <1>6, <1>7, <1>8

LEMMA SoundStart == Init => Sound
<1> SUFFICES ASSUME Init PROVE Sound
  OBVIOUS
<1>1. TypeInv /\ GuardInv
  BY TypeStart, GuardStart
<1>2. PendingKind
  BY DEF Init, PendingKind
<1>3. \A c \in Dialers : SlotHas(c) /\ Undialed(c) /\ Polled(c) /\ Closable(c)
  BY Kinds DEF Init, SlotHas, Undialed, Polled, Closable, Through
<1>4. \A k \in Calls : SlotFree(k) /\ SlotLost(k) /\ NoOld(k) /\ Unanswered(k)
  BY DEF Init, SlotFree, SlotLost, NoOld, Unanswered
<1> QED BY <1>1, <1>2, <1>3, <1>4 DEF Sound, OpenInv

LEMMA SoundStep ==
  ASSUME Sound, [Next]_vars
  PROVE  Sound'
<1>1. TypeInv'
  BY Parts, CommandTypesStep, GuardTypesStep, SharedTypesStep, ClientTypesStep,
     TaskTypesStep, NetTypesStep DEF TypeInv
<1>2. GuardInv' /\ PendingKind'
  BY Parts, GuardStep, PendingKindStep
<1>3. OpenInv'
  BY SlotHasStep, UndialedStep, PolledStep, ClosableStep, SlotFreeStep, NoOldStep,
     UnansweredStep DEF OpenInv
<1> QED BY <1>1, <1>2, <1>3 DEF Sound

-----------------------------------------------------------------------------
(* The client in the slot and its watcher, as long as no two commands      *)
(* overtook each other: who goes for the watcher finds its client in the   *)
(* slot or the slot empty, and the task at the start has its watcher when  *)
(* it goes for the slot.                                                   *)
WatchesNext == \A k \in Dialers :
  Kind[k] # "startup" /\ pc[k] = "watch" => slot \in {k, None}
WatchedFirst == \A k \in Dialers :
  Kind[k] = "startup" /\ pc[k] \in {"lock", "take", "put"} => k \in watched
WatchedLast == slot # None /\ pc[slot] = "done" => slot \in watched

WatchInv == ~overtaken => WatchesNext /\ WatchedFirst /\ WatchedLast

LEMMA WatchStep ==
  ASSUME Sound, WatchInv, [Next]_vars
  PROVE  WatchInv'
<1> SUFFICES ASSUME ~overtaken'
             PROVE  WatchesNext' /\ WatchedFirst' /\ WatchedLast'
  BY DEF WatchInv
<1>0. /\ pc \in [Calls -> Places] /\ slot \in Dialers \cup {None}
      /\ \A c \in Dialers : SlotHas(c) /\ c \in Writers /\ c \in Calls /\ c # None
      /\ \A c \in Dialers : Kind[c] \in {"startup", "connect", "configure"}
      /\ TypeInv /\ GuardInv
  BY Parts, Kinds DEF Dialers
<1>1. ASSUME NEW k \in Calls, Overtakes(k)
      PROVE  /\ ~overtaken
             /\ \A h \in Calls \ {k} : ~Between(h)
  BY <1>1 DEF Overtakes
<1>2. ASSUME NEW k \in Writers, Put(k)
      PROVE  WatchesNext' /\ WatchedFirst' /\ WatchedLast'
  <2>1. /\ k \in Dialers /\ pc[k] = "put" /\ slot' = k /\ watched' = watched
        /\ Overtakes(k)
    BY <1>2, Parts, Kinds DEF Put, Placed
  <2>2. /\ pc' = [pc EXCEPT ![k] = pc'[k]]
        /\ pc'[k] = IF Kind[k] = "startup" THEN "done" ELSE "watch"
    BY <1>0, <1>2, <2>1 DEF Put, Return, Goto
  <2>3. WatchesNext'
    BY <1>0, <1>1, <2>1, <2>2 DEF WatchesNext, Between
  <2>4. WatchedFirst'
    BY <1>0, <1>1, <2>1, <2>2 DEF WatchedFirst, Between
  <2>5. WatchedLast'
    BY <1>0, <1>1, <2>1, <2>2 DEF WatchInv, WatchedFirst, WatchedLast
  <2> QED BY <2>3, <2>4, <2>5
<1>3. ASSUME NEW k \in Writers, Watch(k)
      PROVE  WatchesNext' /\ WatchedFirst' /\ WatchedLast'
  <2>1. /\ k \in Dialers /\ pc[k] = "watch" /\ Kind[k] # "startup" /\ slot' = slot
        /\ k \in watched' /\ Overtakes(k) /\ pc' = [pc EXCEPT ![k] = "done"]
    BY <1>3, Parts, Kinds DEF Watch, Placed, Return, Goto
  <2>2. slot \in {k, None}
    BY <1>1, <2>1, <1>0 DEF WatchInv, WatchesNext
  <2>3. WatchesNext' /\ WatchedFirst'
    BY <1>0, <1>1, <2>1 DEF WatchesNext, WatchedFirst, Between
  <2>4. WatchedLast'
    BY <2>1, <2>2 DEF WatchedLast
  <2> QED BY <2>3, <2>4
<1>4. ASSUME NEW k \in Writers, WatchFirst(k)
      PROVE  WatchesNext' /\ WatchedFirst' /\ WatchedLast'
  <2>1. /\ k \in Dialers /\ pc[k] = "watch" /\ Kind[k] = "startup" /\ slot' = slot
        /\ watched' = watched \cup {k} /\ Overtakes(k) /\ pc' = [pc EXCEPT ![k] = "lock"]
    BY <1>4, Parts, Kinds DEF WatchFirst, Placed, Lock, Goto
  <2>2. WatchesNext' /\ WatchedFirst'
    BY <1>0, <1>1, <2>1 DEF WatchesNext, WatchedFirst, Between
  <2>3. slot # k
    BY <1>0, <2>1 DEF SlotHas, Through
  <2>4. WatchedLast'
    BY <1>0, <1>1, <2>1, <2>3 DEF WatchInv, WatchedLast
  <2> QED BY <2>2, <2>4
<1>5. ASSUME UNCHANGED <<watched, overtaken>>, slot' \in {slot, None},
             \A k \in Dialers : ~Put(k) /\ ~Watch(k) /\ ~WatchFirst(k)
      PROVE  WatchesNext' /\ WatchedFirst' /\ WatchedLast'
  <2>1. WatchesNext /\ WatchedFirst /\ WatchedLast
    BY <1>5 DEF WatchInv
  <2>2. ASSUME NEW k \in Dialers
        PROVE  /\ Kind[k] # "startup" /\ pc'[k] = "watch" => pc[k] = "watch"
               /\ Kind[k] = "startup" /\ pc'[k] \in {"lock", "take", "put"}
                    => pc[k] \in {"lock", "take", "put"}
               /\ Through(k) => pc'[k] = pc[k]
    BY <1>0, <1>5, WriterWay DEF AfterDrop, Through
  <2>3. WatchesNext' /\ WatchedFirst'
    BY <1>5, <2>1, <2>2 DEF WatchesNext, WatchedFirst
  <2>4. WatchedLast'
    BY <1>0, <1>5, <2>1, <2>2 DEF WatchedLast, SlotHas
  <2> QED BY <2>3, <2>4
<1>6. ASSUME NEW k \in Writers, TakeOld(k) \/ TakeNone(k)
      PROVE  /\ UNCHANGED <<watched, overtaken>> /\ slot' \in {slot, None}
             /\ \A h \in Dialers : ~Put(h) /\ ~Watch(h) /\ ~WatchFirst(h)
  <2>1. /\ UNCHANGED <<watched, overtaken, watcher>> /\ slot' \in {slot, None}
        /\ pc[k] = "take" /\ pc'[k] # "take"
    BY <1>0, <1>6, Kinds DEF TakeOld, TakeNone, Return, Goto, AfterDrop
  <2>2. ASSUME NEW h \in Dialers, Put(h) \/ Watch(h) \/ WatchFirst(h)
        PROVE  FALSE
    <3>1. pc[h] \in {"put", "watch"} /\ \E w : Goto(h, w)
      BY <1>0, <2>2 DEF Put, Watch, WatchFirst, Return, Lock
    <3> QED BY <1>0, <2>1, <3>1, Kinds DEF Goto
  <2> QED BY <2>1, <2>2
<1>7. CASE UNCHANGED shared
  <2>1. ASSUME NEW h \in Dialers, Put(h) \/ Watch(h) \/ WatchFirst(h)
        PROVE  WatchesNext' /\ WatchedFirst' /\ WatchedLast'
    BY <1>0, <1>2, <1>3, <1>4, <2>1
  <2> QED BY <1>5, <1>7, <2>1 DEF shared
<1> QED BY <1>2, <1>3, <1>4, <1>5, <1>6, <1>7, SharedSame

LEMMA WatchStart == Init => WatchInv
  BY Kinds DEF Init, WatchInv, WatchesNext, WatchedFirst, WatchedLast

-----------------------------------------------------------------------------
(* Requests and answers on their way.  A request for h, and the answer to  *)
(* it, is a message whose second part is h: it is in one place only.       *)
Pipes == {"chan", "toSrv", "toCli"}
Queue(p, c) == CASE p = "chan"  -> chan[c]
                 [] p = "toSrv" -> toSrv[c]
                 [] p = "toCli" -> toCli[c]
Messages(p) == IF p = "toCli" THEN Answers ELSE Requests
At(h, p, c, i) == i \in 1..Len(Queue(p, c)) /\ Queue(p, c)[i][2] = h

LEMMA QueueTypes ==
  ASSUME Sound, NEW p \in Pipes, NEW c \in Dialers
  PROVE  /\ Queue(p, c) \in Seq(Messages(p)) /\ Len(Queue(p, c)) \in Nat
         /\ Queue(p, c)[1] = Head(Queue(p, c))
<1>1. Queue(p, c) \in Seq(Messages(p))
  BY Parts DEF TypeInv, TaskTypes, NetTypes, Pipes, Queue, Messages
<1> QED BY <1>1, LenProperties

(* What a step does to a queue.                                            *)
Took(p, c)      == Queue(p, c) # <<>> /\ Queue(p, c)' = Tail(Queue(p, c))
Gained(p, c, m) == m \in Messages(p) /\ Queue(p, c)' = Append(Queue(p, c), m)
Cleared(p, c)   == \A i \in Nat, h \in Askers : ~At(h, p, c, i)'
SameBut(S)      == \A p \in Pipes, c \in Dialers :
                     <<p, c>> \notin S => Queue(p, c)' = Queue(p, c)

Passed(p, q, c) == \E m \in Messages(q) :
  /\ Took(p, c) /\ Gained(q, c, m) /\ m[2] = Head(Queue(p, c))[2]
  /\ SameBut({<<p, c>>, <<q, c>>})

LEMMA TookAt ==
  ASSUME Sound, NEW p \in Pipes, NEW c \in Dialers, Took(p, c),
         NEW h, NEW i \in Nat, At(h, p, c, i)'
  PROVE  i + 1 # 1 /\ At(h, p, c, i + 1)
  BY QueueTypes, TakeElements DEF Took, At

LEMMA GainedAt ==
  ASSUME Sound, NEW p \in Pipes, NEW c \in Dialers, NEW m, Gained(p, c, m),
         NEW h, NEW i \in Nat, At(h, p, c, i)'
  PROVE  At(h, p, c, i) \/ (i = Len(Queue(p, c)) + 1 /\ m[2] = h)
  BY QueueTypes, PutElements DEF Gained, At

LEMMA TakesMessage ==
  ASSUME Sound, NEW c \in Dialers, OnRegistered(c) \/ OnInviteCode(c) \/ OnInviteResult(c)
  PROVE  Took("toCli", c) /\ SameBut({<<"toCli", c>>})
<1>1. /\ toCli[c] # <<>> /\ toCli' = [toCli EXCEPT ![c] = Tail(@)]
      /\ UNCHANGED <<chan, toSrv>> /\ toCli \in [Dialers -> Seq(Answers)]
  BY Parts DEF OnRegistered, OnInviteCode, OnInviteResult, Resolve, Got, tasks, TypeInv,
               NetTypes
<1> QED BY <1>1 DEF Queue, Took, SameBut, Pipes

LEMMA QueueMoves ==
  ASSUME Sound, [Next]_vars
  PROVE  \/ \A p \in Pipes, c \in Dialers : Queue(p, c)' = Queue(p, c) \/ Cleared(p, c)
         \/ \E p \in Pipes, c \in Dialers : Took(p, c) /\ SameBut({<<p, c>>})
         \/ \E p \in Pipes, c \in Dialers : \E m \in Messages(p) :
              m[2] \notin Askers /\ Gained(p, c, m) /\ SameBut({<<p, c>>})
         \/ \E k \in Askers, c \in Dialers :
              /\ Send(k) \/ Room(k)
              /\ pc'[k] = "wait" /\ slot = c
              /\ Gained("chan", c, <<Kind[k], k>>) /\ SameBut({<<"chan", c>>})
         \/ \E c \in Dialers : Passed("chan", "toSrv", c) \/ Passed("toSrv", "toCli", c)
<1> DEFINE Nothing == \A p \in Pipes, c \in Dialers :
                        Queue(p, c)' = Queue(p, c) \/ Cleared(p, c)
<1>0. /\ chan \in [Dialers -> Seq(Requests)] /\ toSrv \in [Dialers -> Seq(Requests)]
      /\ toCli \in [Dialers -> Seq(Answers)] /\ slot \in Dialers \cup {None}
      /\ pc \in [Calls -> Places] /\ Askers \subseteq Calls
  BY Parts, Kinds DEF TypeInv, TaskTypes, NetTypes
<1>1. ASSUME NEW k \in Askers, Send(k) \/ Room(k)
      PROVE  \/ Nothing
             \/ \E c \in Dialers :
                  /\ pc'[k] = "wait" /\ slot = c
                  /\ Gained("chan", c, <<Kind[k], k>>) /\ SameBut({<<"chan", c>>})
  <2>1. UNCHANGED <<toSrv, toCli>>
    BY <1>1 DEF Send, Room, net
  <2>2. CASE chan' = chan
    BY <2>1, <2>2 DEF Queue, Pipes
  <2>3. CASE chan' # chan
    <3>1. pc'[k] = "wait" /\ chan' = [chan EXCEPT ![slot] = Append(@, <<Kind[k], k>>)]
      BY <1>0, <1>1, <2>3 DEF Send, Room, Goto
    <3>2. PICK c \in Dialers : slot = c
      BY <1>0, <2>3, <3>1, Kinds
    <3> DEFINE m == <<Kind[k], k>>
    <3>3. m \in Messages("chan")
      BY NewRequests DEF Messages
    <3>4. chan' = [chan EXCEPT ![c] = Append(chan[c], m)]
      BY <3>1, <3>2
    <3> HIDE DEF m
    <3>5. Gained("chan", c, m)
      BY <1>0, <3>3, <3>4 DEF Queue, Gained
    <3>6. SameBut({<<"chan", c>>})
      BY <1>0, <2>1, <3>4 DEF SameBut, Pipes, Queue
    <3> QED BY <3>1, <3>2, <3>5, <3>6 DEF m
  <2> QED BY <2>2, <2>3
<1>2. ASSUME NEW c \in Dialers, Registered(c)
      PROVE  Nothing \/ \E m \in Messages("chan") :
                          m[2] \notin Askers /\ Gained("chan", c, m) /\ SameBut({<<"chan", c>>})
  <2>1. UNCHANGED <<toSrv, toCli>>
    BY <1>2 DEF Registered, net
  <2>2. CASE Dead(c)
    <3>1. chan' = chan
      BY <1>0, <1>2, <2>2 DEF Registered
    <3> QED BY <2>1, <3>1 DEF Queue, Pipes
  <2>3. CASE ~Dead(c)
    <3> DEFINE m == <<"update", c>>
    <3>1. m \in Messages("chan") /\ m[2] \notin Askers
      BY NewRequests, Kinds DEF Messages
    <3>2. chan' = [chan EXCEPT ![c] = Append(chan[c], m)]
      BY <1>2, <2>3 DEF Registered
    <3> HIDE DEF m
    <3>3. Gained("chan", c, m)
      BY <1>0, <3>1, <3>2 DEF Queue, Gained
    <3>4. SameBut({<<"chan", c>>})
      BY <1>0, <2>1, <3>2 DEF SameBut, Pipes, Queue
    <3> QED BY <3>1, <3>3, <3>4
  <2> QED BY <2>2, <2>3
<1>3. ASSUME NEW c \in Dialers, CodeUsed(c)
      PROVE  \E m \in Messages("toCli") :
               m[2] \notin Askers /\ Gained("toCli", c, m) /\ SameBut({<<"toCli", c>>})
  <2> DEFINE m == <<"result", "issued">>
  <2>1. m \in Messages("toCli") /\ m[2] \notin Askers
    BY Kinds DEF Messages, Answers, Words
  <2>2. toCli' = [toCli EXCEPT ![c] = Append(toCli[c], m)] /\ UNCHANGED <<chan, toSrv>>
    BY <1>3 DEF CodeUsed, tasks
  <2> HIDE DEF m
  <2>3. Gained("toCli", c, m) /\ SameBut({<<"toCli", c>>})
    BY <1>0, <2>1, <2>2 DEF Queue, Gained, SameBut, Pipes
  <2> QED BY <2>1, <2>3
<1>4. ASSUME NEW c \in Dialers, OnRegistered(c) \/ OnInviteCode(c) \/ OnInviteResult(c)
      PROVE  Took("toCli", c) /\ SameBut({<<"toCli", c>>})
  BY <1>4, TakesMessage
<1>5. ASSUME NEW c \in Dialers, Write(c)
      PROVE  Passed("chan", "toSrv", c)
  <2> DEFINE m == Head(chan[c])
  <2>1. m \in Requests
    BY <1>0, <1>5, TakeElements DEF Write
  <2>2. /\ chan[c] # <<>> /\ chan' = [chan EXCEPT ![c] = Tail(@)]
        /\ toSrv' = [toSrv EXCEPT ![c] = Append(toSrv[c], m)] /\ toCli' = toCli
    BY <1>5 DEF Write
  <2>3. m = Head(Queue("chan", c))
    BY DEF Queue
  <2> HIDE DEF m
  <2>4. Took("chan", c) /\ Gained("toSrv", c, m)
    BY <1>0, <2>1, <2>2 DEF Queue, Took, Gained, Messages
  <2>5. SameBut({<<"chan", c>>, <<"toSrv", c>>})
    BY <1>0, <2>2 DEF Queue, SameBut, Pipes
  <2> QED BY <2>1, <2>3, <2>4, <2>5 DEF Passed, Messages
<1>6. ASSUME NEW c \in Dialers, Serve(c)
      PROVE  \/ Took("toSrv", c) /\ SameBut({<<"toSrv", c>>})
             \/ Passed("toSrv", "toCli", c)
  <2>1. /\ toSrv[c] # <<>> /\ toSrv' = [toSrv EXCEPT ![c] = Tail(@)]
        /\ toCli' = [toCli EXCEPT ![c] = toCli[c] \o Reply(Head(toSrv[c]))]
        /\ chan' = chan
    BY <1>6 DEF Serve, tasks
  <2>2. Head(toSrv[c]) \in Requests
    BY <1>0, <2>1, TakeElements
  <2>3. Took("toSrv", c)
    BY <1>0, <2>1 DEF Queue, Took
  <2>4. CASE Reply(Head(toSrv[c])) = <<>>
    <3>1. toCli' = toCli
      BY <1>0, <2>1, <2>4, ConcatEmptySeq
    <3>2. SameBut({<<"toSrv", c>>})
      BY <1>0, <2>1, <3>1 DEF Queue, SameBut, Pipes
    <3> QED BY <2>3, <3>2
  <2>5. ASSUME NEW a \in Answers, Reply(Head(toSrv[c])) = <<a>>, a[2] = Head(toSrv[c])[2]
        PROVE  Passed("toSrv", "toCli", c)
    <3>1. toCli[c] \o <<a>> = Append(toCli[c], a)
      BY <1>0, AppendIsConcat
    <3>2. toCli' = [toCli EXCEPT ![c] = Append(toCli[c], a)]
      BY <2>1, <2>5, <3>1
    <3>3. Gained("toCli", c, a)
      BY <1>0, <3>2 DEF Queue, Gained, Messages
    <3>4. SameBut({<<"toSrv", c>>, <<"toCli", c>>})
      BY <1>0, <2>1, <3>2 DEF Queue, SameBut, Pipes
    <3>5. a[2] = Head(Queue("toSrv", c))[2]
      BY <2>5 DEF Queue
    <3> QED BY <2>3, <3>3, <3>4, <3>5 DEF Passed, Messages
  <2> QED BY <2>2, <2>3, <2>4, <2>5, Replied
<1>7. ASSUME NEW c \in Dialers, Dial(c)
      PROVE  Nothing
  <2> DEFINE m == <<"register", c>>
  <2>1. m[2] \notin Askers
    BY Kinds
  <2>2. toSrv' = [toSrv EXCEPT ![c] = <<m>>] /\ UNCHANGED <<chan, toCli>>
    BY <1>7 DEF Dial
  <2> HIDE DEF m
  <2>3. Cleared("toSrv", c)
    <3>1. Queue("toSrv", c)' = <<m>>
      BY <1>0, <2>2 DEF Queue
    <3> QED BY <2>1, <3>1 DEF Cleared, At
  <2> QED BY <1>0, <2>2, <2>3 DEF Queue, Pipes
<1>8. ASSUME NEW c \in Dialers, AbortWriter(c) \/ WriteEnds(c)
      PROVE  Nothing
  <2>1. chan' = [chan EXCEPT ![c] = <<>>] /\ UNCHANGED <<toSrv, toCli>>
    BY <1>8 DEF AbortWriter, WriteEnds, net
  <2>2. Cleared("chan", c)
    BY <1>0, <2>1 DEF Queue, Cleared, At
  <2> QED BY <1>0, <2>1, <2>2 DEF Queue, Pipes
<1>9. ASSUME NEW c \in Dialers, ServerSeesEnd(c) \/ ServerCloses(c)
      PROVE  Nothing
  <2>1. toSrv' = [toSrv EXCEPT ![c] = <<>>] /\ UNCHANGED <<chan, toCli>>
    BY <1>9 DEF ServerSeesEnd, ServerCloses, Closed, tasks
  <2>2. Cleared("toSrv", c)
    BY <1>0, <2>1 DEF Queue, Cleared, At
  <2> QED BY <1>0, <2>1, <2>2 DEF Queue, Pipes
<1>10. CASE UNCHANGED net /\ UNCHANGED tasks
  BY <1>10 DEF net, tasks, Queue, Pipes
<1>11. ASSUME NEW c \in Dialers, ReadEnds(c)
       PROVE  UNCHANGED <<chan, toSrv, toCli>>
  BY <1>11 DEF ReadEnds, net
<1>12. UNCHANGED <<chan, toSrv, toCli>> => Nothing
  BY DEF Queue, Pipes
<1>13. "chan" \in Pipes /\ "toSrv" \in Pipes /\ "toCli" \in Pipes
  BY DEF Pipes
<1> HIDE DEF Nothing
<1>14. CASE \E k \in Askers : Send(k) \/ Room(k)
  BY <1>1, <1>14 DEF Nothing
<1>15. CASE \E c \in Dialers : \/ Dial(c) \/ AbortWriter(c) \/ ServerSeesEnd(c)
                               \/ ServerCloses(c) \/ WriteEnds(c) \/ ReadEnds(c)
  BY <1>7, <1>8, <1>9, <1>11, <1>12, <1>15 DEF Nothing
<1>16. CASE \E c \in Dialers : OnRegistered(c) \/ OnInviteCode(c) \/ OnInviteResult(c)
  BY <1>4, <1>13, <1>16
<1>17. CASE \E c \in Dialers : Registered(c) \/ CodeUsed(c)
  BY <1>2, <1>3, <1>13, <1>17 DEF Nothing
<1>18. CASE \E c \in Dialers : Write(c) \/ Serve(c)
  BY <1>5, <1>6, <1>13, <1>18
<1> QED BY <1>10, <1>14, <1>15, <1>16, <1>17, <1>18, TasksSame, NetSame
        DEF WriteTask, Nothing

-----------------------------------------------------------------------------
(* Whose answer a call gets.                                               *)
Sent(h)    == pc[h] \in {"wait", "done"}
Owed(c, h) == pending[c][Kind[h]] = h \/ outcome[h] # "none"

Heard    == \A k \in Askers :
              outcome[k] \in {"none", "error", "closed", "timeout", "issued"} \cup Askers
Spent    == \A h, k \in Askers : outcome[k] = h => Sent(h)
Asking   == \A h \in Askers :
              pc[h] \in {"send", "full"} => slot # None /\ Owed(slot, h)
Underway == \A h \in Askers, c \in Dialers, p \in Pipes, i \in Nat :
              At(h, p, c, i) => /\ Sent(h) /\ Owed(c, h)
                                /\ \A k \in Askers : outcome[k] # h
OnePlace == \A h \in Askers, c, d \in Dialers, p, q \in Pipes, i, j \in Nat :
              At(h, p, c, i) /\ At(h, q, d, j) => p = q /\ c = d /\ i = j

AnswerInv == Heard /\ Spent /\ Asking /\ Underway /\ OnePlace /\ AnswerIsOwn

(* The way of a call that asks.                                            *)
LEMMA AskerMoves ==
  ASSUME Sound, [Next]_vars, NEW h \in Askers
  PROVE  pc'[h] = pc[h] \/ Give(h) \/ Granted(h) \/ Look(h) \/ Ask(h)
<1>0. /\ pc \in [Calls -> Places] /\ h \in Calls /\ h \notin Writers
      /\ Kind[h] # "iroh" /\ Writers \subseteq Calls
  BY Parts, Kinds DEF Askers
<1>1. ASSUME NEW k \in Calls \ {h},
             \/ Give(k) \/ Granted(k) \/ Look(k) \/ SendOverIroh(k) \/ IrohEnds(k) \/ Ask(k)
      PROVE  pc'[h] = pc[h]
  BY <1>0, <1>1 DEF Give, Granted, Look, SendOverIroh, IrohEnds, Ask, Prepare, Send, Room,
                    SendFails, Answered, TimesOut, Return, Lock, Goto
<1>2. ASSUME NEW k \in Writers, Change(k)
      PROVE  pc'[h] = pc[h]
  <2>1. pc[k] = "put" => k \in Dialers
    BY Parts, Kinds DEF Placed
  <2>2. \E w : Goto(k, w)
    BY <1>2, <2>1 DEF Change, TakeOld, TakeNone, DropSender, Put, Watch, WatchFirst,
                      Return, Lock, Dialers
  <2> QED BY <1>0, <2>2 DEF Goto
<1>3. ASSUME NEW c \in Dialers, Connect(c) \/ DialFails(c)
      PROVE  pc'[h] = pc[h]
  <2>1. \E w : Goto(c, w)
    BY <1>3 DEF Connect, Dial, SeesConnected, SeesDisconnected, GivesUp, DialFails, Return,
                Lock, Dialers
  <2> QED BY <1>0, <2>1, Kinds DEF Goto
<1>4. ASSUME NEW c \in Dialers, Read(c) \/ WriteTask(c) \/ Serve(c) \/ CodeUsed(c)
                                \/ ServerSeesEnd(c) \/ ServerCloses(c)
      PROVE  pc' = pc
  BY <1>4 DEF Read, OnRegistered, Registered, OnInviteCode, OnInviteResult, Resolve,
              ReadEnds, AbortWriter, WriteTask, Write, WriteEnds, Serve, CodeUsed,
              ServerSeesEnd, ServerCloses, Closed, command
<1>5. UNCHANGED vars => pc' = pc
  BY DEF vars, command
<1>6. ~SendOverIroh(h) /\ ~IrohEnds(h)
  BY <1>0 DEF SendOverIroh, IrohEnds
<1> QED BY <1>1, <1>2, <1>3, <1>4, <1>5, <1>6, Kinds DEF Next

LEMMA AskerWay ==
  ASSUME Sound, [Next]_vars, NEW h \in Askers
  PROVE  /\ Sent(h) => Sent(h)'
         /\ pc'[h] \in {"send", "full"} => Prepare(h) \/ pc[h] \in {"send", "full"}
<1>0. pc \in [Calls -> Places] /\ h \in Calls /\ h \notin Writers
  BY Parts, Kinds
<1>1. CASE Give(h) \/ Look(h)
  BY <1>0, <1>1 DEF Give, Look, Lock, Return, Goto, Sent
<1>2. CASE Granted(h)
  <2>1. waiting \in Seq(Calls) /\ waiting # <<>> /\ Head(waiting) = h
    BY <1>2, Parts DEF Granted, TypeInv, GuardTypes
  <2>2. 1 \in 1..Len(waiting) /\ waiting[1] = h
    BY <2>1, TakeElements
  <2>3. pc[h] = "lock"
    BY <2>2, Parts DEF GuardInv, InLine
  <2> QED BY <1>0, <1>2, <2>3 DEF Granted, Goto, Sent
<1>3. CASE Ask(h) /\ ~Prepare(h)
  BY <1>0, <1>3 DEF Ask, Send, Room, SendFails, Answered, TimesOut, Return, Goto, Sent
<1>4. CASE Prepare(h)
  BY <1>4 DEF Prepare, Sent
<1> QED BY <1>1, <1>2, <1>3, <1>4, AskerMoves DEF Sent

(* The sender of a call stays where it is until somebody tells the call.   *)
LEMMA OwedStays ==
  ASSUME Sound, [Next]_vars, NEW c \in Dialers, NEW h \in Askers, Owed(c, h)
  PROVE  Owed(c, h)'
<1>0. /\ pending \in [Dialers -> [Asked -> Calls \cup {None}]] /\ h \in Calls
      /\ Kind[h] \in Asked /\ Words \cap Calls = {} /\ "invite" \in Asked /\ "accept" \in Asked
      /\ slot \in Dialers \cup {None} /\ toCli \in [Dialers -> Seq(Answers)]
      /\ \A k \in Askers : Kind[k] \in Asked
  BY Parts, Kinds DEF TypeInv, ClientTypes, NetTypes, Asked
<1>1. CASE outcome[h] # "none"
  BY <1>0, <1>1, OutcomeStays, Parts DEF Owed
<1>2. CASE pending[c][Kind[h]] = h /\ outcome[h] = "none"
  <2>1. ASSUME NEW k \in Askers, Prepare(k)
        PROVE  Owed(c, h)'
    <3>1. CASE slot = c /\ Kind[k] = Kind[h]
      <4>1. outcome'[h] = "closed"
        BY <1>0, <1>2, <2>1, <3>1 DEF Prepare, Tell
      <4> QED BY <4>1 DEF Owed
    <3>2. CASE ~(slot = c /\ Kind[k] = Kind[h])
      <4>1. pending'[c][Kind[h]] = pending[c][Kind[h]]
        BY <1>0, <2>1, <3>2 DEF Prepare
      <4> QED BY <1>2, <4>1 DEF Owed
    <3> QED BY <3>1, <3>2
  <2>2. ASSUME NEW d \in Dialers, OnInviteCode(d) \/ OnInviteResult(d)
        PROVE  Owed(c, h)'
    <3>1. PICK q \in Asked : \E what : Resolve(d, what, q)
      BY <1>0, <2>2 DEF OnInviteCode, OnInviteResult
    <3>2. Head(toCli[d])[2] # "none"
      <4>1. Head(toCli[d]) \in Answers
        BY <1>0, <3>1, TakeElements DEF Resolve, Got
      <4> QED BY <1>0, <4>1, AnswerParts DEF Words
    <3>3. CASE d = c /\ q = Kind[h]
      <4>1. outcome'[h] = Head(toCli[d])[2]
        BY <1>0, <1>2, <3>1, <3>3 DEF Resolve, Tell
      <4> QED BY <3>2, <4>1 DEF Owed
    <3>4. CASE ~(d = c /\ q = Kind[h])
      <4>1. pending'[c][Kind[h]] = pending[c][Kind[h]]
        BY <1>0, <3>1, <3>4 DEF Resolve
      <4> QED BY <1>2, <4>1 DEF Owed
    <3> QED BY <3>3, <3>4
  <2>3. CASE pending' = pending
    BY <1>2, <2>3 DEF Owed
  <2>4. ASSUME NEW k \in Calls, \/ DropSender(k) \/ Send(k) \/ Room(k) \/ SendFails(k)
                                \/ Dial(k) \/ DialFails(k) \/ Registered(k)
                                \/ ReadEnds(k) \/ AbortWriter(k)
        PROVE  pending' = pending
    BY <2>4 DEF DropSender, Send, Room, SendFails, Dial, DialFails, Registered,
                ReadEnds, AbortWriter
  <2>5. UNCHANGED client => pending' = pending
    BY DEF client
  <2> QED BY <2>1, <2>2, <2>3, <2>4, <2>5, ClientSame, Kinds
<1> QED BY <1>1, <1>2 DEF Owed

(* A call that asks holds the guard, so that the slot stays.               *)
LEMMA SlotStays ==
  ASSUME Sound, [Next]_vars, NEW h \in Askers, pc[h] \in {"send", "full"}
  PROVE  slot' = slot
<1>1. h \in Calls /\ h \notin Writers /\ Holds(h)
  BY Kinds DEF Holds
<1>2. ASSUME NEW k \in Writers, pc[k] \in {"take", "put"}
      PROVE  FALSE
  BY <1>1, <1>2, Parts, Alone, Kinds DEF Holds
<1> QED BY <1>2, SlotMoves DEF TakeOld, Put

(* A call gets the answer at the head of a connection, as the one whose    *)
(* sender is there.                                                        *)
LEMMA GetsAnswer ==
  ASSUME Sound, [Next]_vars, NEW k \in Askers, NEW h \in Askers,
         outcome'[k] = h, outcome[k] # h
  PROVE  \E c \in Dialers : /\ At(h, "toCli", c, 1) /\ pending[c][Kind[h]] = k
                            /\ Took("toCli", c) /\ SameBut({<<"toCli", c>>})
<1>0. /\ Words \cap Calls = {} /\ h \in Calls /\ k \in Calls
      /\ outcome \in [Calls -> Words \cup Calls] /\ toCli \in [Dialers -> Seq(Answers)]
      /\ TypeInv /\ PendingKind
  BY Parts, Kinds DEF TypeInv, NetTypes
<1>1. ASSUME NEW x \in Calls, Returns(x)
      PROVE  FALSE
  BY <1>0, <1>1 DEF Returns, Return
<1>2. ASSUME NEW x \in Askers, Prepare(x)
      PROVE  FALSE
  BY <1>0, <1>2 DEF Prepare, Tell, Words
<1>3. ASSUME NEW c \in Dialers, NEW q \in Asked, NEW what, Resolve(c, what, q),
             <<what, q>> \in {<<"code", "invite">>, <<"result", "accept">>}
      PROVE  At(h, "toCli", c, 1) /\ pending[c][Kind[h]] = k
  <2> DEFINE m == Head(toCli[c])
  <2>0. \/ what = "code" /\ q = "invite"
        \/ what = "result" /\ q = "accept"
    BY <1>3
  <2>1. toCli[c] # <<>> /\ m[1] = what /\ Tell(pending[c][q], m[2])
    BY <1>3 DEF Resolve, Got
  <2>2. /\ m \in Answers /\ Len(toCli[c]) \in Nat \ {0} /\ m = toCli[c][1]
    BY <1>0, <2>1, TakeElements
  <2> HIDE DEF m
  <2>3. m[2] = h /\ pending[c][q] = k
    BY <1>0, <2>1 DEF Tell
  <2>4. Kind[h] = q
    BY <1>0, <2>0, <2>1, <2>2, <2>3, AnswerParts DEF Words
  <2>5. At(h, "toCli", c, 1)
    BY <2>2, <2>3 DEF At, Queue
  <2> QED BY <2>3, <2>4, <2>5
<1>4. ASSUME NEW c \in Dialers, OnInviteCode(c) \/ OnInviteResult(c)
      PROVE  /\ At(h, "toCli", c, 1) /\ pending[c][Kind[h]] = k
             /\ Took("toCli", c) /\ SameBut({<<"toCli", c>>})
  <2>0. "invite" \in Asked /\ "accept" \in Asked
    BY DEF Asked
  <2>1. At(h, "toCli", c, 1) /\ pending[c][Kind[h]] = k
    <3>1. CASE Resolve(c, "code", "invite")
      BY <1>3, <2>0, <3>1
    <3>2. CASE Resolve(c, "result", "accept")
      BY <1>3, <2>0, <3>2
    <3> QED BY <1>4, <3>1, <3>2 DEF OnInviteCode, OnInviteResult
  <2> QED BY <1>4, <2>1, TakesMessage
<1> QED BY <1>0, <1>1, <1>2, <1>4, OutcomeMoves

LEMMA HeardStep ==
  ASSUME Sound, AnswerInv, [Next]_vars
  PROVE  Heard'
<1>0. /\ outcome \in [Calls -> Words \cup Calls] /\ TypeInv /\ PendingKind
      /\ toCli \in [Dialers -> Seq(Answers)] /\ Heard /\ Askers \subseteq Calls
  BY Parts, Kinds DEF AnswerInv, TypeInv, NetTypes
<1>1. ASSUME NEW x \in Calls, Returns(x)
      PROVE  Heard'
  BY <1>0, <1>1 DEF Returns, Return, Heard
<1>2. ASSUME NEW x \in Askers, Prepare(x)
      PROVE  Heard'
  BY <1>0, <1>2 DEF Prepare, Tell, Heard
<1>3. ASSUME NEW c \in Dialers, OnInviteCode(c) \/ OnInviteResult(c)
      PROVE  Heard'
  <2>1. PICK q : /\ Tell(pending[c][q], Head(toCli[c])[2]) /\ toCli[c] # <<>>
                 /\ Head(toCli[c])[1] \in {"code", "result"}
    BY <1>3 DEF OnInviteCode, OnInviteResult, Resolve, Got
  <2>2. Head(toCli[c]) \in Answers
    BY <1>0, <2>1, TakeElements
  <2>3. Head(toCli[c])[2] \in Askers \cup {"issued"}
    BY <2>1, <2>2, AnswerParts
  <2> QED BY <1>0, <2>1, <2>3 DEF Tell, Heard
<1> QED BY <1>0, <1>1, <1>2, <1>3, OutcomeMoves DEF Heard

LEMMA SpentStep ==
  ASSUME Sound, AnswerInv, [Next]_vars
  PROVE  Spent'
<1> SUFFICES ASSUME NEW h \in Askers, NEW k \in Askers, outcome'[k] = h
             PROVE  Sent(h)'
  BY DEF Spent
<1>1. Sent(h)
  <2>1. CASE outcome[k] = h
    BY <2>1 DEF AnswerInv, Spent
  <2>2. CASE outcome[k] # h
    <3>1. PICK c \in Dialers : At(h, "toCli", c, 1)
      BY <2>2, GetsAnswer
    <3>2. "toCli" \in Pipes /\ 1 \in Nat
      BY DEF Pipes
    <3> QED BY <3>1, <3>2 DEF AnswerInv, Underway
  <2> QED BY <2>1, <2>2
<1> QED BY <1>1, AskerWay

LEMMA AskingStep ==
  ASSUME Sound, AnswerInv, [Next]_vars
  PROVE  Asking'
<1> SUFFICES ASSUME NEW h \in Askers, pc'[h] \in {"send", "full"}
             PROVE  slot' # None /\ Owed(slot, h)'
  BY DEF Asking
<1>1. CASE Prepare(h)
  <2>1. Kind[h] \in Asked /\ slot \in Dialers /\ slot' = slot /\ slot # None
        /\ pending \in [Dialers -> [Asked -> Calls \cup {None}]]
    BY <1>1, Parts, Kinds DEF Prepare, shared, TypeInv, ClientTypes
  <2> QED BY <1>1, <2>1 DEF Prepare, Owed
<1>2. CASE pc[h] \in {"send", "full"}
  <2>1. slot' = slot /\ slot \in Dialers /\ slot # None /\ Owed(slot, h)
    BY <1>2, Parts, SlotStays DEF AnswerInv, Asking
  <2>2. PICK c \in Dialers : c = slot
    BY <2>1
  <2>3. Owed(c, h)'
    BY <2>1, <2>2, OwedStays
  <2> QED BY <2>1, <2>2, <2>3 DEF Owed
<1> QED BY <1>1, <1>2, AskerWay

(* Where a message is, it came from the same connection, or was just sent. *)
LEMMA CameFrom ==
  ASSUME Sound, [Next]_vars, NEW h \in Askers, NEW c \in Dialers, NEW p \in Pipes,
         NEW i \in Nat, At(h, p, c, i)'
  PROVE  \/ \E q \in Pipes, j \in Nat : At(h, q, c, j)
         \/ pc[h] \in {"send", "full"} /\ pc'[h] = "wait" /\ slot = c
<1>0. Queue(p, c)' = Queue(p, c) => At(h, p, c, i)
  BY DEF At
<1>1. ASSUME NEW q \in Pipes, NEW d \in Dialers, Took(q, d), SameBut({<<q, d>>})
      PROVE  \E r \in Pipes, j \in Nat : At(h, r, c, j)
  <2>1. CASE p = q /\ c = d
    BY <1>1, <2>1, TookAt
  <2>2. CASE ~(p = q /\ c = d)
    BY <1>0, <1>1, <2>2 DEF SameBut
  <2> QED BY <2>1, <2>2
<1>2. ASSUME NEW q \in Pipes, NEW d \in Dialers, NEW m,
             Gained(q, d, m), SameBut({<<q, d>>})
      PROVE  At(h, p, c, i) \/ (c = d /\ m[2] = h)
  <2>1. CASE p = q /\ c = d
    BY <1>2, <2>1, GainedAt
  <2>2. CASE ~(p = q /\ c = d)
    BY <1>0, <1>2, <2>2 DEF SameBut
  <2> QED BY <2>1, <2>2
<1>3. ASSUME NEW q \in Pipes, NEW r \in Pipes, NEW d \in Dialers, Passed(q, r, d), q # r
      PROVE  \E s \in Pipes, j \in Nat : At(h, s, c, j)
  <2>1. PICK m : /\ Took(q, d) /\ Gained(r, d, m) /\ m[2] = Head(Queue(q, d))[2]
                 /\ SameBut({<<q, d>>, <<r, d>>})
    BY <1>3 DEF Passed
  <2>2. CASE p = q /\ c = d
    BY <2>1, <2>2, TookAt
  <2>3. CASE p = r /\ c = d
    <3>1. CASE At(h, p, c, i)
      BY <3>1
    <3>2. CASE m[2] = h
      <4>1. At(h, q, d, 1)
        BY <2>1, <3>2, QueueTypes, EmptySeq DEF At, Took
      <4> QED BY <2>3, <4>1
    <3> QED BY <2>1, <2>3, <3>1, <3>2, GainedAt
  <2>4. CASE <<p, c>> \notin {<<q, d>>, <<r, d>>}
    BY <1>0, <2>1, <2>4 DEF SameBut
  <2> QED BY <2>2, <2>3, <2>4
<1>4. ASSUME NEW k \in Askers, NEW d \in Dialers, Send(k) \/ Room(k), pc'[k] = "wait",
             slot = d, Gained("chan", d, <<Kind[k], k>>), SameBut({<<"chan", d>>})
      PROVE  \/ At(h, p, c, i)
             \/ pc[h] \in {"send", "full"} /\ pc'[h] = "wait" /\ slot = c
  <2>1. "chan" \in Pipes /\ pc[k] \in {"send", "full"}
    BY <1>4 DEF Pipes, Send, Room
  <2>2. At(h, p, c, i) \/ (c = d /\ k = h)
    BY <1>2, <1>4, <2>1
  <2> QED BY <1>4, <2>1, <2>2
<1>5. "chan" \in Pipes /\ "toSrv" \in Pipes /\ "toCli" \in Pipes
  BY DEF Pipes
<1>6. ~Cleared(p, c)
  BY DEF Cleared
<1> QED BY <1>0, <1>1, <1>2, <1>3, <1>4, <1>5, <1>6, QueueMoves

LEMMA UnderwayStep ==
  ASSUME Sound, AnswerInv, [Next]_vars
  PROVE  Underway'
<1> SUFFICES ASSUME NEW h \in Askers, NEW c \in Dialers, NEW p \in Pipes, NEW i \in Nat,
                    At(h, p, c, i)'
             PROVE  Sent(h)' /\ Owed(c, h)' /\ \A k \in Askers : outcome'[k] # h
  BY DEF Underway, Sent, Owed
<1>0. "toCli" \in Pipes /\ 1 \in Nat
  BY DEF Pipes
<1>1. ASSUME NEW q \in Pipes, NEW j \in Nat, At(h, q, c, j)
      PROVE  Sent(h)' /\ Owed(c, h)' /\ \A k \in Askers : outcome'[k] # h
  <2>1. Sent(h) /\ Owed(c, h) /\ \A k \in Askers : outcome[k] # h
    BY <1>1 DEF AnswerInv, Underway
  <2>2. ASSUME NEW k \in Askers, outcome'[k] = h
        PROVE  FALSE
    <3>1. PICK d \in Dialers : /\ At(h, "toCli", d, 1) /\ Took("toCli", d)
                               /\ SameBut({<<"toCli", d>>})
      BY <2>1, <2>2, GetsAnswer
    <3>2. CASE p = "toCli" /\ c = d
      <4>1. i + 1 # 1 /\ At(h, "toCli", d, i + 1) /\ i + 1 \in Nat
        BY <1>0, <3>1, <3>2, TookAt
      <4> QED BY <1>0, <3>1, <4>1 DEF AnswerInv, OnePlace
    <3>3. CASE ~(p = "toCli" /\ c = d)
      <4>1. At(h, p, c, i)
        BY <3>1, <3>3 DEF SameBut, At
      <4> QED BY <1>0, <3>1, <3>3, <4>1 DEF AnswerInv, OnePlace
    <3> QED BY <3>2, <3>3
  <2> QED BY <2>1, <2>2, AskerWay, OwedStays
<1>2. CASE pc[h] \in {"send", "full"} /\ pc'[h] = "wait" /\ slot = c
  <2>1. ~Sent(h) /\ Sent(h)' /\ Owed(c, h)
    BY <1>2 DEF Sent, AnswerInv, Asking
  <2>2. ASSUME NEW k \in Askers, outcome'[k] = h
        PROVE  FALSE
    <3>1. outcome[k] # h
      BY <2>1 DEF AnswerInv, Spent
    <3>2. PICK d \in Dialers : At(h, "toCli", d, 1)
      BY <2>2, <3>1, GetsAnswer
    <3> QED BY <1>0, <2>1, <3>2 DEF AnswerInv, Underway
  <2> QED BY <2>1, <2>2, OwedStays
<1> QED BY <1>1, <1>2, CameFrom

LEMMA OnePlaceStep ==
  ASSUME Sound, AnswerInv, [Next]_vars
  PROVE  OnePlace'
<1> SUFFICES ASSUME NEW h \in Askers, NEW c \in Dialers, NEW d \in Dialers,
                    NEW p \in Pipes, NEW q \in Pipes, NEW i \in Nat, NEW j \in Nat,
                    At(h, p, c, i)', At(h, q, d, j)'
             PROVE  p = q /\ c = d /\ i = j
  BY DEF OnePlace
<1>0. ASSUME NEW c1 \in Dialers, NEW c2 \in Dialers, NEW p1 \in Pipes, NEW p2 \in Pipes,
             NEW i1 \in Nat, NEW i2 \in Nat, At(h, p1, c1, i1), At(h, p2, c2, i2)
      PROVE  p1 = p2 /\ c1 = c2 /\ i1 = i2
  BY <1>0 DEF AnswerInv, OnePlace
<1>1. ASSUME NEW p1 \in Pipes, NEW c1 \in Dialers, Queue(p1, c1)' = Queue(p1, c1),
             NEW i1 \in Nat, At(h, p1, c1, i1)'
      PROVE  At(h, p1, c1, i1)
  BY <1>1 DEF At
<1>2. CASE \A p1 \in Pipes, c1 \in Dialers :
             Queue(p1, c1)' = Queue(p1, c1) \/ Cleared(p1, c1)
  <2>1. At(h, p, c, i) /\ At(h, q, d, j)
    BY <1>1, <1>2 DEF Cleared
  <2> QED BY <1>0, <2>1
<1>3. ASSUME NEW r \in Pipes, NEW e \in Dialers, Took(r, e), SameBut({<<r, e>>})
      PROVE  p = q /\ c = d /\ i = j
  <2>1. IF p = r /\ c = e THEN At(h, p, c, i + 1) ELSE At(h, p, c, i)
    BY <1>1, <1>3, TookAt DEF SameBut
  <2>2. IF q = r /\ d = e THEN At(h, q, d, j + 1) ELSE At(h, q, d, j)
    BY <1>1, <1>3, TookAt DEF SameBut
  <2>3. i + 1 \in Nat /\ j + 1 \in Nat /\ (i + 1 = j + 1 => i = j)
    OBVIOUS
  <2> QED BY <1>0, <2>1, <2>2, <2>3
<1>4. ASSUME NEW r \in Pipes, NEW e \in Dialers, NEW m, Gained(r, e, m), SameBut({<<r, e>>}),
             m[2] # h \/ \A p1 \in Pipes, c1 \in Dialers, i1 \in Nat : ~At(h, p1, c1, i1)
      PROVE  p = q /\ c = d /\ i = j
  <2>1. \/ At(h, p, c, i)
        \/ p = r /\ c = e /\ i = Len(Queue(r, e)) + 1 /\ m[2] = h
    BY <1>1, <1>4, GainedAt DEF SameBut
  <2>2. \/ At(h, q, d, j)
        \/ q = r /\ d = e /\ j = Len(Queue(r, e)) + 1 /\ m[2] = h
    BY <1>1, <1>4, GainedAt DEF SameBut
  <2> QED BY <1>0, <1>4, <2>1, <2>2
<1>5. ASSUME NEW r \in Pipes, NEW s \in Pipes, NEW e \in Dialers, Passed(r, s, e), r # s
      PROVE  p = q /\ c = d /\ i = j
  <2>1. PICK m : /\ Took(r, e) /\ Gained(s, e, m) /\ m[2] = Head(Queue(r, e))[2]
                 /\ SameBut({<<r, e>>, <<s, e>>})
    BY <1>5 DEF Passed
  <2>2. m[2] = h => At(h, r, e, 1)
    <3>1. /\ Queue(r, e) \in Seq(Messages(r)) /\ Len(Queue(r, e)) \in Nat
          /\ Queue(r, e)[1] = Head(Queue(r, e))
      BY QueueTypes
    <3>2. Queue(r, e) # <<>> /\ m[2] = Head(Queue(r, e))[2]
      BY <2>1 DEF Took
    <3>3. Len(Queue(r, e)) # 0
      <4> DEFINE w == Queue(r, e)  S == Messages(r)
      <4>1. w \in Seq(S) /\ w # <<>>
        BY <3>1, <3>2
      <4> HIDE DEF w, S
      <4>2. Len(w) # 0
        BY <4>1, EmptySeq
      <4> QED BY <4>2 DEF w
    <3>4. 1 \in 1..Len(Queue(r, e))
      BY <3>1, <3>3
    <3> QED BY <3>1, <3>2, <3>4 DEF At
  <2>3. ASSUME NEW p1 \in Pipes, NEW c1 \in Dialers, NEW i1 \in Nat, At(h, p1, c1, i1)'
        PROVE  \/ p1 = r /\ c1 = e /\ At(h, r, e, i1 + 1) /\ i1 + 1 # 1
               \/ p1 = s /\ c1 = e /\ i1 = Len(Queue(s, e)) + 1 /\ At(h, r, e, 1)
               \/ ~(p1 = r /\ c1 = e) /\ At(h, p1, c1, i1)
    <3>1. CASE p1 = r /\ c1 = e
      BY <2>1, <2>3, <3>1, TookAt
    <3>2. CASE p1 = s /\ c1 = e
      BY <1>5, <2>1, <2>2, <2>3, <3>2, GainedAt
    <3>3. CASE <<p1, c1>> \notin {<<r, e>>, <<s, e>>}
      BY <1>1, <2>1, <2>3, <3>3 DEF SameBut
    <3> QED BY <3>1, <3>2, <3>3
  <2>4. i + 1 \in Nat /\ j + 1 \in Nat /\ 1 \in Nat /\ (i + 1 = j + 1 => i = j)
    OBVIOUS
  <2>5. \/ p = r /\ c = e /\ At(h, r, e, i + 1) /\ i + 1 # 1
        \/ p = s /\ c = e /\ i = Len(Queue(s, e)) + 1 /\ At(h, r, e, 1)
        \/ ~(p = r /\ c = e) /\ At(h, p, c, i)
    BY <2>3
  <2>6. \/ q = r /\ d = e /\ At(h, r, e, j + 1) /\ j + 1 # 1
        \/ q = s /\ d = e /\ j = Len(Queue(s, e)) + 1 /\ At(h, r, e, 1)
        \/ ~(q = r /\ d = e) /\ At(h, q, d, j)
    BY <2>3
  <2> QED BY <1>0, <2>4, <2>5, <2>6
<1>6. ASSUME NEW k \in Askers, NEW e \in Dialers, Send(k) \/ Room(k),
             Gained("chan", e, <<Kind[k], k>>), SameBut({<<"chan", e>>})
      PROVE  p = q /\ c = d /\ i = j
  <2> DEFINE m == <<Kind[k], k>>
  <2>1. "chan" \in Pipes /\ m[2] = k
    BY DEF Pipes
  <2>2. k = h => \A p1 \in Pipes, c1 \in Dialers, i1 \in Nat : ~At(h, p1, c1, i1)
    <3>1. ~Sent(k)
      BY <1>6 DEF Send, Room, Sent
    <3> QED BY <3>1 DEF AnswerInv, Underway
  <2> HIDE DEF m
  <2> QED BY <1>4, <1>6, <2>1, <2>2 DEF m
<1>7. "chan" \in Pipes /\ "toSrv" \in Pipes /\ "toCli" \in Pipes
  BY DEF Pipes
<1> QED BY <1>2, <1>3, <1>4, <1>5, <1>6, <1>7, QueueMoves

LEMMA OwnStep ==
  ASSUME Sound, AnswerInv, [Next]_vars
  PROVE  AnswerIsOwn'
<1> DEFINE Wrong == \E g \in Askers : outcome[g] \in {"closed", "timeout", "error", "issued"}
<1> SUFFICES ASSUME NEW k \in Askers, NEW h \in Askers \ {k}, outcome'[k] = h
             PROVE  outcome'[h] \notin {"none", h} /\ Wrong'
  BY DEF AnswerIsOwn
<1>1. outcome[h] \notin {"none", h} /\ Wrong
  <2>1. CASE outcome[k] = h
    BY <2>1 DEF AnswerInv, AnswerIsOwn
  <2>2. CASE outcome[k] # h
    <3>1. PICK c \in Dialers : At(h, "toCli", c, 1) /\ pending[c][Kind[h]] = k
      BY <2>2, GetsAnswer
    <3>2. Owed(c, h) /\ outcome[h] # h
      <4>1. "toCli" \in Pipes /\ 1 \in Nat
        BY DEF Pipes
      <4> QED BY <3>1, <4>1 DEF AnswerInv, Underway
    <3>3. outcome[h] # "none"
      BY <3>1, <3>2 DEF Owed
    <3>4. \/ outcome[h] \in {"closed", "timeout", "error", "issued"}
          \/ outcome[h] \in Askers \ {h}
      BY <3>2, <3>3 DEF AnswerInv, Heard
    <3>5. outcome[h] \in Askers \ {h} => Wrong
      BY DEF AnswerInv, AnswerIsOwn
    <3> QED BY <3>2, <3>3, <3>4, <3>5
  <2> QED BY <2>1, <2>2
<1>2. \A g \in Askers : outcome[g] # "none" => outcome'[g] = outcome[g]
  BY OutcomeStays, Parts, Kinds
<1> QED BY <1>1, <1>2

LEMMA AnswerStart == Init => AnswerInv
<1> SUFFICES ASSUME Init PROVE AnswerInv
  OBVIOUS
<1>1. \A k \in Askers : outcome[k] = "none" /\ pc[k] = "idle" /\ k # "none"
  BY Kinds DEF Init, Words
<1>2. \A h \in Askers, p \in Pipes, c \in Dialers, i \in Nat : ~At(h, p, c, i)
  BY DEF Init, At, Queue, Pipes
<1>3. Heard /\ Spent /\ Asking /\ AnswerIsOwn
  BY <1>1 DEF Heard, Spent, Asking, AnswerIsOwn
<1>4. Underway /\ OnePlace
  BY <1>2 DEF Underway, OnePlace
<1> QED BY <1>3, <1>4 DEF AnswerInv

-----------------------------------------------------------------------------
LEMMA SoundAlways == Spec => []Sound
  BY SoundStart, SoundStep, PTL DEF Spec

(* Types.  The guard is held by one writer or by readers, the channel and  *)
(* the connection within their bounds.                                     *)
THEOREM TypesHold == Spec => []TypeOK
<1>1. Sound => TypeOK
  <2> SUFFICES ASSUME Sound PROVE TypeOK
    OBVIOUS
  <2>0. TypeInv /\ GuardInv
    BY Parts
  <2>1. \A n \in 1..Len(waiting) : waiting[n] \in Calls \ inside
    <3>1. \A n \in 1..Len(waiting) : waiting[n] \in Calls
      BY <2>0, ElementOfSeq DEF TypeInv, GuardTypes
    <3> QED BY <2>0, <3>1 DEF GuardInv, InLine, InsideHolds, Holds
  <2>2. \A k \in inside : k \in Writers => inside = {k}
    BY <2>0 DEF GuardInv, Exclusive
  <2>3. /\ session \in Sessions /\ pc \in [Calls -> Places]
        /\ outcome \in [Calls -> Words \cup Calls]
        /\ old \in [Calls -> Dialers \cup {None}] /\ inside \subseteq Calls
    BY <2>0 DEF TypeInv, CommandTypes, GuardTypes
  <2> QED BY <2>0, <2>1, <2>2, <2>3
          DEF TypeInv, SharedTypes, ClientTypes, TaskTypes, NetTypes, TypeOK,
              Places, Words
<1> QED BY <1>1, SoundAlways, PTL

(* A client that is not in the slot has been told to disconnect, or is on  *)
(* its way there, unless its connect timed out or the task of run_app      *)
(* overwrote it.                                                           *)
THEOREM NoClientForgotten == Spec => []NoneLeftOpen
<1>1. Sound => NoneLeftOpen
  BY Parts DEF NoneLeftOpen, Closable, Through
<1> QED BY <1>1, SoundAlways, PTL

(* Its watcher announces the address of the client in the slot, unless two *)
(* commands overtook each other between the slot and the watcher.          *)
THEOREM WatcherIsThere == Spec => []WatcherFollows
<1>1. WatchInv => WatcherFollows
  BY DEF WatchInv, WatchedLast, WatcherFollows
<1>2. Sound /\ WatchInv /\ [Next]_vars => WatchInv'
  BY WatchStep
<1> QED BY <1>1, <1>2, WatchStart, SoundAlways, PTL DEF Spec

(* A call may get the answer to another, but never one that somebody still *)
(* waits for, nor one that somebody got; and the first wrong answer comes  *)
(* from a call that had given up or from a code that was used meanwhile.   *)
THEOREM AnswersAreOwn == Spec => []AnswerIsOwn
<1>1. AnswerInv => AnswerIsOwn
  BY DEF AnswerInv
<1>2. Sound /\ AnswerInv /\ [Next]_vars => AnswerInv'
  BY HeardStep, SpentStep, AskingStep, UnderwayStep, OnePlaceStep, OwnStep DEF AnswerInv
<1> QED BY <1>1, <1>2, AnswerStart, SoundAlways, PTL DEF Spec

=============================================================================
