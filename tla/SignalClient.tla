---------------------------- MODULE SignalClient ----------------------------
(***************************************************************************)
(* The connections of one desktop program to signalling servers: the       *)
(* SignalClient of each (connect, disconnect, generate_invite,             *)
(* accept_invite, send_msg, handle_incoming, its read and write tasks) and *)
(* the commands that share them through the RwLock AppState.signal_client. *)
(*                                                                         *)
(* Every command that connects makes a client of its own, named after the  *)
(* command.  What the server says of friends is SignalServer's; here it    *)
(* may answer, stay silent or close.                                       *)
(***************************************************************************)
EXTENDS Naturals, Sequences

CONSTANTS
  Calls,      \* commands, each given at most once
  Kind,       \* what each of them is
  None,       \* no client, no command
  Cap,        \* mpsc::channel(64) of the write task
  Window,     \* bound: requests under way to a server
  Sessions,   \* bound: the sets of commands that are given in one run
  MaxEvents   \* bound: failed dials, closed connections, codes used by others

Dialers  == {k \in Calls : Kind[k] \in {"startup", "connect", "configure"}}
Askers   == {k \in Calls : Kind[k] \in {"invite", "accept"}}
Writers  == {k \in Calls : Kind[k] \in {"startup", "connect", "configure", "disconnect"}}
Asked    == {"invite", "accept"}

ASSUME ConstantsOK ==
  /\ Kind \in [Calls -> {"startup", "connect", "configure", "disconnect", "status",
                         "invite", "accept", "iroh"}]
  /\ None \notin Calls
  /\ Calls \cap {"none", "ok", "error", "closed", "timeout", "issued"} = {}
  /\ Sessions \subseteq SUBSET Calls
  /\ Cap \in Nat \ {0} /\ Window \in Nat \ {0} /\ MaxEvents \in Nat

VARIABLES
  session,    \* the commands that are given in this run
  pc,         \* where each command is
  outcome,    \* what it got: the command whose answer it is, or why not
  old,        \* the client a command is disconnecting
  waiting,    \* signal_client: the commands in line for the guard
  inside,     \* those that hold it
  slot,       \* the client in it
  watcher,    \* iroh_watcher: the client of the watcher in it
  watched,    \* the clients whose watcher runs
  status,     \* SignalClient.status
  out,        \* is outgoing_tx there?
  busy,       \* the command that keeps outgoing_tx locked, waiting for room
  chan,       \* the channel of the write task
  wr,         \* the write task
  rd,         \* the read task
  pending,    \* pending_invite and pending_accept
  up,         \* the TCP connection
  toSrv, toCli,
  events,
  overtaken,  \* history: two commands overtook each other between the slot
              \* and the watcher
  lost        \* history: clients overwritten in the slot

command == <<pc, outcome, old>>
guard   == <<waiting, inside>>
shared  == <<slot, watcher, watched, overtaken, lost>>
client  == <<status, out, busy, pending>>
tasks   == <<chan, wr, rd>>
net     == <<up, toSrv, toCli>>
vars    == <<session, command, guard, shared, client, tasks, net, events>>

(* Types.  The guard is held by one writer or by readers, the channel and  *)
(* the connection within their bounds.                                     *)
TypeOK ==
  /\ session \in Sessions
  /\ pc \in [Calls -> {"idle", "lock", "in", "dial", "poll", "take", "drop", "put",
                       "watch", "send", "full", "wait", "done"}]
  /\ outcome \in [Calls -> {"none", "ok", "error", "closed", "timeout", "issued"} \cup Calls]
  /\ old \in [Calls -> Dialers \cup {None}]
  /\ inside \subseteq Calls
  /\ \A k \in inside : k \in Writers => inside = {k}
  /\ \A n \in 1..Len(waiting) : waiting[n] \in Calls \ inside
  /\ slot \in Dialers \cup {None} 
  /\ watcher \in Dialers \cup {None} /\ watched \subseteq Dialers
  /\ status \in [Dialers -> {"disconnected", "connecting", "connected"}]
  /\ out \in [Dialers -> BOOLEAN]
  /\ busy \in [Dialers -> Calls \cup {None}]
  /\ pending \in [Dialers -> [Asked -> Calls \cup {None}]]
  /\ \A c \in Dialers : Len(chan[c]) <= Cap /\ Len(toSrv[c]) <= Window
  /\ wr \in [Dialers -> {"none", "running", "ended"}]
  /\ rd \in [Dialers -> {"none", "reading", "updating", "closing", "ended"}]
  /\ up \in [Dialers -> {"none", "open", "half", "closed"}]
  /\ events \in 0..MaxEvents
  /\ overtaken \in BOOLEAN /\ lost \subseteq Dialers

Init ==
  /\ session \in Sessions
  /\ pc = [k \in Calls |-> "idle"]
  /\ outcome = [k \in Calls |-> "none"]
  /\ old = [k \in Calls |-> None]
  /\ waiting = <<>> /\ inside = {}
  /\ slot = None /\ watcher = None /\ watched = {}
  /\ status = [c \in Dialers |-> "disconnected"]
  /\ out = [c \in Dialers |-> FALSE]
  /\ busy = [c \in Dialers |-> None]
  /\ chan = [c \in Dialers |-> <<>>]
  /\ wr = [c \in Dialers |-> "none"]
  /\ rd = [c \in Dialers |-> "none"]
  /\ pending = [c \in Dialers |-> [q \in Asked |-> None]]
  /\ up = [c \in Dialers |-> "none"]
  /\ toSrv = [c \in Dialers |-> <<>>]
  /\ toCli = [c \in Dialers |-> <<>>]
  /\ events = 0
  /\ overtaken = FALSE /\ lost = {}

Goto(k, where) == pc' = [pc EXCEPT ![k] = where]
Event == events < MaxEvents /\ events' = events + 1

-----------------------------------------------------------------------------
(* AppState.signal_client: tokio's RwLock serves the waiting in turn, and  *)
(* readers together.                                                       *)

Lock(k)    == Goto(k, "lock") /\ waiting' = Append(waiting, k) /\ UNCHANGED inside
Release(k) == inside' = inside \ {k} /\ UNCHANGED waiting

(* The command is through: its guard goes, if it holds one.                *)
Return(k, what) ==
  /\ Goto(k, "done")
  /\ outcome' = [outcome EXCEPT ![k] = IF @ = "none" THEN what ELSE @]
  /\ Release(k)

Granted(k) ==
  /\ waiting # <<>> /\ Head(waiting) = k
  /\ IF k \in Writers THEN inside = {} ELSE inside \cap Writers = {}
  /\ waiting' = Tail(waiting)
  /\ inside' = inside \cup {k}
  /\ Goto(k, IF k \in Writers THEN "take" ELSE "in")
  /\ UNCHANGED <<session, outcome, old, shared, client, tasks, net, events>>

(* connect_signal_server and the task of run_app dial before they ask for  *)
(* the guard, update_config dials while it holds it.                       *)
Give(k) ==
  /\ k \in session /\ pc[k] = "idle"
  /\ IF Kind[k] \in {"startup", "connect"} THEN Goto(k, "dial") /\ UNCHANGED guard
                                            ELSE Lock(k)
  /\ UNCHANGED <<session, outcome, old, shared, client, tasks, net, events>>

-----------------------------------------------------------------------------
(* SignalClient::connect.                                                  *)

(* The connection is there: register is written, and the tasks run.        *)
Dial(c) ==
  /\ pc[c] = "dial" /\ Goto(c, "poll")
  /\ status' = [status EXCEPT ![c] = "connecting"]
  /\ up' = [up EXCEPT ![c] = "open"]
  /\ toSrv' = [toSrv EXCEPT ![c] = <<<<"register", c>>>>]
  /\ out' = [out EXCEPT ![c] = TRUE]
  /\ wr' = [wr EXCEPT ![c] = "running"]
  /\ rd' = [rd EXCEPT ![c] = "reading"]
  /\ UNCHANGED <<session, outcome, old, guard, shared, busy, pending, chan, toCli, events>>

DialFails(c) ==
  /\ pc[c] = "dial" /\ Event
  /\ status' = [status EXCEPT ![c] = "connecting"]
  /\ Return(c, "error")
  /\ UNCHANGED <<session, old, shared, out, busy, pending, tasks, net>>

(* The loop over status, every 100 ms, for 10 s.                           *)
SeesConnected(c) ==
  /\ pc[c] = "poll" /\ status[c] = "connected"
  /\ CASE Kind[c] = "connect"   -> Lock(c)
       [] Kind[c] = "configure" -> Goto(c, "put") /\ UNCHANGED guard
       [] Kind[c] = "startup"   -> Goto(c, "watch") /\ UNCHANGED guard
  /\ UNCHANGED <<session, outcome, old, shared, client, tasks, net, events>>

SeesDisconnected(c) ==
  /\ pc[c] = "poll" /\ status[c] = "disconnected"
  /\ Return(c, "error")
  /\ UNCHANGED <<session, old, shared, client, tasks, net, events>>

(* The client is given up, its tasks and its connection are not.           *)
GivesUp(c) ==
  /\ pc[c] = "poll" /\ status[c] # "disconnected"
  /\ Return(c, "timeout")
  /\ UNCHANGED <<session, old, shared, client, tasks, net, events>>

-----------------------------------------------------------------------------
(* The commands that hold the guard for writing.                           *)

AfterDrop(k) == CASE Kind[k] = "disconnect" -> "drop"
                  [] Kind[k] = "configure"  -> "dial"
                  [] OTHER                  -> "put"

(* Mutant: the old client is dropped, not disconnected.                    *)
TakeOldForgetting(k) ==
  /\ pc[k] = "take" /\ Kind[k] # "startup"
  /\ slot' = None
  /\ IF Kind[k] = "disconnect" THEN Return(k, "ok")
                               ELSE Goto(k, AfterDrop(k)) /\ UNCHANGED <<outcome, guard>>
  /\ UNCHANGED <<session, old, watcher, watched, overtaken, lost, client, tasks, net, events>>

(* guard.take(), and old.disconnect() if there is one; the task of run_app *)
(* overwrites what is there.                                               *)
TakeOld(k) ==
  /\ pc[k] = "take" /\ Kind[k] # "startup"
  /\ old' = [old EXCEPT ![k] = slot]
  /\ slot' = None
  /\ IF slot = None
     THEN IF Kind[k] = "disconnect" THEN Return(k, "ok")
                                    ELSE Goto(k, AfterDrop(k)) /\ UNCHANGED <<outcome, guard>>
     ELSE Goto(k, "drop") /\ UNCHANGED <<outcome, guard>>
  /\ UNCHANGED <<session, watcher, watched, overtaken, lost, client, tasks, net, events>>

TakeNone(k) ==
  /\ pc[k] = "take" /\ Kind[k] = "startup"
  /\ Goto(k, "put")
  /\ lost' = IF slot = None THEN lost ELSE lost \cup {slot}
  /\ UNCHANGED <<session, outcome, old, guard, slot, watcher, watched, overtaken, client, tasks, net, events>>

(* disconnect: outgoing_tx goes, then the status.                          *)
DropSender(k) ==
  /\ pc[k] = "drop" /\ old[k] # None /\ busy[old[k]] = None
  /\ out' = [out EXCEPT ![old[k]] = FALSE]
  /\ status' = [status EXCEPT ![old[k]] = "disconnected"]
  /\ old' = [old EXCEPT ![k] = None]
  /\ IF Kind[k] = "disconnect" THEN Return(k, "ok")
                               ELSE Goto(k, AfterDrop(k)) /\ UNCHANGED <<outcome, guard>>
  /\ UNCHANGED <<session, shared, busy, pending, tasks, net, events>>

(* The client and its watcher have their places one after the other.       *)
Between(k) == \/ pc[k] = "watch"
              \/ Kind[k] = "startup" /\ pc[k] \in {"lock", "take", "put"}

Overtakes(k) == overtaken' = (overtaken \/ \E h \in Calls \ {k} : Between(h))

(* The new client takes the slot.  update_config keeps the guard until its *)
(* watcher is there, connect_signal_server lets it go, and the task of     *)
(* run_app is through.                                                     *)
Put(k) ==
  /\ pc[k] = "put"
  /\ slot' = k
  /\ Overtakes(k)
  /\ CASE Kind[k] = "connect"   -> Goto(k, "watch") /\ Release(k) /\ UNCHANGED outcome
       [] Kind[k] = "configure" -> Goto(k, "watch") /\ UNCHANGED <<guard, outcome>>
       [] Kind[k] = "startup"   -> Return(k, "ok")
  /\ UNCHANGED <<session, old, watcher, watched, lost, client, tasks, net, events>>

(* Mutant: the handle is stored, the watcher not spawned.                  *)
WatchSwapped(k) ==
  /\ pc[k] = "watch" /\ Kind[k] # "startup"
  /\ watcher' = k
  /\ Overtakes(k)
  /\ Return(k, "ok")
  /\ UNCHANGED <<session, old, slot, watched, lost, client, tasks, net, events>>

(* spawn_iroh_addr_watcher, and the watcher that is there is aborted ...   *)
Watch(k) ==
  /\ pc[k] = "watch" /\ Kind[k] # "startup"
  /\ watched' = (watched \ {watcher}) \cup {k}
  /\ watcher' = k
  /\ Overtakes(k)
  /\ Return(k, "ok")
  /\ UNCHANGED <<session, old, slot, lost, client, tasks, net, events>>

(* ... but not by the task of run_app, which goes for the slot next.       *)
WatchFirst(k) ==
  /\ pc[k] = "watch" /\ Kind[k] = "startup"
  /\ watched' = watched \cup {k}
  /\ watcher' = k
  /\ Overtakes(k)
  /\ Lock(k)
  /\ UNCHANGED <<session, outcome, old, slot, lost, client, tasks, net, events>>

-----------------------------------------------------------------------------
(* The commands that hold it for reading.                                  *)

(* Nothing to ask, or nobody.                                              *)
Look(k) ==
  /\ pc[k] = "in" /\ (Kind[k] = "status" \/ slot = None)
  /\ Return(k, IF Kind[k] = "status" THEN "ok" ELSE "error")
  /\ UNCHANGED <<session, old, shared, client, tasks, net, events>>

(* A file that goes over iroh: the guard is held until it is sent.         *)
SendOverIroh(k) ==
  /\ pc[k] = "in" /\ Kind[k] = "iroh" /\ slot # None
  /\ Goto(k, "send")
  /\ UNCHANGED <<session, outcome, old, guard, shared, client, tasks, net, events>>

IrohEnds(k) ==
  /\ pc[k] = "send" /\ Kind[k] = "iroh"
  /\ Return(k, "ok")
  /\ UNCHANGED <<session, old, shared, client, tasks, net, events>>

(* A call that still waits hears of it.                                    *)
Tell(h, what) ==
  outcome' = [k \in Calls |-> IF k = h /\ outcome[k] = "none" THEN what ELSE outcome[k]]

(* Mutant: the call before is not told.                                    *)
PrepareKeeping(k) ==
  /\ pc[k] = "in" /\ k \in Askers /\ slot # None
  /\ pending' = [pending EXCEPT ![slot][Kind[k]] = k]
  /\ Goto(k, "send")
  /\ UNCHANGED <<session, outcome, old, guard, shared, status, out, busy, tasks, net, events>>

(* The sender of the answer takes the place of that of an earlier call,    *)
(* which is dropped.                                                       *)
Prepare(k) ==
  /\ pc[k] = "in" /\ k \in Askers /\ slot # None
  /\ Tell(pending[slot][Kind[k]], "closed")
  /\ pending' = [pending EXCEPT ![slot][Kind[k]] = k]
  /\ Goto(k, "send")
  /\ UNCHANGED <<session, old, guard, shared, status, out, busy, tasks, net, events>>

Dead(c) == ~out[c] \/ wr[c] # "running"

(* send_msg: outgoing_tx is locked until the channel takes the request.    *)
Send(k) ==
  /\ pc[k] = "send" /\ k \in Askers /\ busy[slot] = None /\ ~Dead(slot)
  /\ IF Len(chan[slot]) < Cap
     THEN /\ chan' = [chan EXCEPT ![slot] = Append(@, <<Kind[k], k>>)]
          /\ Goto(k, "wait")
          /\ UNCHANGED busy
     ELSE /\ busy' = [busy EXCEPT ![slot] = k]
          /\ Goto(k, "full")
          /\ UNCHANGED chan
  /\ UNCHANGED <<session, outcome, old, guard, shared, status, out, pending, wr, rd, net, events>>

Room(k) ==
  /\ pc[k] = "full" /\ Len(chan[slot]) < Cap /\ wr[slot] = "running"
  /\ chan' = [chan EXCEPT ![slot] = Append(@, <<Kind[k], k>>)]
  /\ busy' = [busy EXCEPT ![slot] = None]
  /\ Goto(k, "wait")
  /\ UNCHANGED <<session, outcome, old, guard, shared, status, out, pending, wr, rd, net, events>>

SendFails(k) ==
  /\ \/ pc[k] = "send" /\ k \in Askers /\ busy[slot] = None /\ Dead(slot)
     \/ pc[k] = "full" /\ wr[slot] = "ended"
  /\ busy' = [busy EXCEPT ![slot] = IF @ = k THEN None ELSE @]
  /\ Return(k, "error")
  /\ UNCHANGED <<session, old, shared, status, out, pending, tasks, net, events>>

Answered(k) ==
  /\ pc[k] = "wait" /\ outcome[k] # "none"
  /\ Return(k, "ok")
  /\ UNCHANGED <<session, old, shared, client, tasks, net, events>>

(* Mutant: only the end of the connection ends the wait.                   *)
TimesOutOnClose(k) ==
  /\ pc[k] = "wait" /\ outcome[k] = "none" /\ rd[slot] = "ended"
  /\ Return(k, "timeout")
  /\ UNCHANGED <<session, old, shared, client, tasks, net, events>>

(* After 10 s.  The sender stays where it is.                              *)
TimesOut(k) ==
  /\ pc[k] = "wait" /\ outcome[k] = "none"
  /\ Return(k, "timeout")
  /\ UNCHANGED <<session, old, shared, client, tasks, net, events>>

-----------------------------------------------------------------------------
(* The read task and handle_incoming.                                      *)

Got(c, what) ==
  /\ rd[c] = "reading" /\ toCli[c] # <<>> /\ Head(toCli[c])[1] = what
  /\ toCli' = [toCli EXCEPT ![c] = Tail(@)]
  /\ UNCHANGED <<up, toSrv>>

OnRegistered(c) ==
  /\ Got(c, "registered")
  /\ rd' = [rd EXCEPT ![c] = "updating"]
  /\ UNCHANGED <<session, command, guard, shared, client, chan, wr, events>>

(* The observed address goes back to the server, if outgoing_tx is there;  *)
(* then the status is Connected, whatever it was.                          *)
Registered(c) ==
  /\ rd[c] = "updating" /\ busy[c] = None
  /\ Dead(c) \/ Len(chan[c]) < Cap
  /\ chan' = [chan EXCEPT ![c] = IF Dead(c) THEN @ ELSE Append(@, <<"update", c>>)]
  /\ status' = [status EXCEPT ![c] = "connected"]
  /\ rd' = [rd EXCEPT ![c] = "reading"]
  /\ UNCHANGED <<session, command, guard, shared, out, busy, pending, wr, net, events>>

(* InviteCode and InviteResult: whoever waits gets it.                     *)
Resolve(c, what, q) ==
  /\ Got(c, what)
  /\ Tell(pending[c][q], Head(toCli[c])[2])
  /\ pending' = [pending EXCEPT ![c][q] = None]
  /\ UNCHANGED <<session, pc, old, guard, shared, status, out, busy, tasks, events>>

OnInviteCode(c)   == Resolve(c, "code", "invite")
OnInviteResult(c) == Resolve(c, "result", "accept")

(* Mutant: the status stays as it is.                                      *)
ReadEndsQuietly(c) ==
  /\ rd[c] = "reading" /\ up[c] = "closed" /\ toCli[c] = <<>>
  /\ rd' = [rd EXCEPT ![c] = "closing"]
  /\ UNCHANGED <<session, command, guard, shared, client, chan, wr, net, events>>

ReadEnds(c) ==
  /\ rd[c] = "reading" /\ up[c] = "closed" /\ toCli[c] = <<>>
  /\ status' = [status EXCEPT ![c] = "disconnected"]
  /\ rd' = [rd EXCEPT ![c] = "closing"]
  /\ UNCHANGED <<session, command, guard, shared, out, busy, pending, chan, wr, net, events>>

AbortWriter(c) ==
  /\ rd[c] = "closing" /\ busy[c] = None
  /\ out' = [out EXCEPT ![c] = FALSE]
  /\ wr' = [wr EXCEPT ![c] = "ended"]
  /\ rd' = [rd EXCEPT ![c] = "ended"]
  /\ chan' = [chan EXCEPT ![c] = <<>>]
  /\ UNCHANGED <<session, command, guard, shared, status, busy, pending, net, events>>

(* The write task.                                                         *)
Write(c) ==
  /\ wr[c] = "running" /\ chan[c] # <<>> /\ up[c] = "open" /\ Len(toSrv[c]) < Window
  /\ toSrv' = [toSrv EXCEPT ![c] = Append(@, Head(chan[c]))]
  /\ chan' = [chan EXCEPT ![c] = Tail(@)]
  /\ UNCHANGED <<session, command, guard, shared, client, wr, rd, up, toCli, events>>

(* A write fails, or the channel is closed and empty: the write half goes. *)
WriteEnds(c) ==
  /\ wr[c] = "running"
  /\ \/ chan[c] # <<>> /\ up[c] = "closed"
     \/ chan[c] = <<>> /\ ~out[c]
  /\ wr' = [wr EXCEPT ![c] = "ended"]
  /\ chan' = [chan EXCEPT ![c] = <<>>]
  /\ up' = [up EXCEPT ![c] = IF @ = "open" THEN "half" ELSE @]
  /\ UNCHANGED <<session, command, guard, shared, client, rd, toSrv, toCli, events>>

-----------------------------------------------------------------------------
(* The server, as far as a client can tell.                                *)

Reply(m) == CASE m[1] = "register" -> <<<<"registered", m[2]>>>>
              [] m[1] = "invite"   -> <<<<"code", m[2]>>>>
              [] m[1] = "accept"   -> <<<<"result", m[2]>>>>
              [] OTHER             -> <<>>

Serve(c) ==
  /\ up[c] \in {"open", "half"} /\ toSrv[c] # <<>>
  /\ toSrv' = [toSrv EXCEPT ![c] = Tail(@)]
  /\ toCli' = [toCli EXCEPT ![c] = @ \o Reply(Head(toSrv[c]))]
  /\ UNCHANGED <<session, command, guard, shared, client, tasks, up, events>>

(* Somebody accepts a code this device was given: its issuer hears of it   *)
(* with an InviteResult, too.                                              *)
CodeUsed(c) ==
  /\ up[c] = "open" /\ Event
  /\ \E k \in Askers : Kind[k] = "invite" /\ outcome[k] \in Calls
  /\ toCli' = [toCli EXCEPT ![c] = Append(@, <<"result", "issued">>)]
  /\ UNCHANGED <<session, command, guard, shared, client, tasks, up, toSrv>>

Closed(c) ==
  /\ up' = [up EXCEPT ![c] = "closed"]
  /\ toSrv' = [toSrv EXCEPT ![c] = <<>>]
  /\ UNCHANGED <<session, command, guard, shared, client, tasks, toCli>>

ServerSeesEnd(c) == up[c] = "half" /\ Closed(c) /\ UNCHANGED events
ServerCloses(c)  == up[c] = "open" /\ Event /\ Closed(c)

-----------------------------------------------------------------------------
Connect(c)  == Dial(c) \/ SeesConnected(c) \/ SeesDisconnected(c) \/ GivesUp(c)
Change(k)   == TakeOld(k) \/ TakeNone(k) \/ DropSender(k) \/ Put(k)
               \/ Watch(k) \/ WatchFirst(k)
Ask(k)      == \/ Prepare(k) \/ Send(k) \/ Room(k) \/ SendFails(k)
               \/ Answered(k) \/ TimesOut(k)
Read(c)     == \/ OnRegistered(c) \/ Registered(c) \/ OnInviteCode(c)
               \/ OnInviteResult(c) \/ ReadEnds(c) \/ AbortWriter(c)
WriteTask(c) == Write(c) \/ WriteEnds(c)

Next ==
  \/ \E k \in Calls : Give(k) \/ Granted(k) \/ Look(k) \/ SendOverIroh(k) \/ IrohEnds(k)
  \/ \E k \in Writers : Change(k)
  \/ \E k \in Askers : Ask(k)
  \/ \E c \in Dialers : \/ Connect(c) \/ DialFails(c) \/ Read(c) \/ WriteTask(c)
                        \/ Serve(c) \/ CodeUsed(c) \/ ServerSeesEnd(c) \/ ServerCloses(c)

Spec == Init /\ [][Next]_vars

(* The runtime does not stop while a task is ready, time passes, and the   *)
(* server closes a connection it has read to the end.  It need not answer, *)
(* and a file sent over iroh need not come to an end.  Nothing stronger is *)
(* needed: no task can go on for ever and keep the others waiting.         *)
Progress ==
  \/ \E k \in Calls : Granted(k) \/ Look(k) \/ SendOverIroh(k) \/ Change(k) \/ Ask(k)
  \/ \E c \in Dialers : Connect(c) \/ Read(c) \/ WriteTask(c) \/ ServerSeesEnd(c)

FairSpec == Spec /\ WF_vars(Progress)

-----------------------------------------------------------------------------
(* A command returns, unless a file that is sent over iroh holds the guard *)
(* or a request waits for a server that does not read.                     *)
CommandReturns ==
  \A k \in Calls :
    pc[k] # "idle" ~> \/ pc[k] = "done"
                      \/ \E h \in inside : Kind[h] = "iroh"
                      \/ \E c \in Dialers : busy[c] # None

(* A client without a sender does not go on saying that it is connected,   *)
(* even when Registered arrives after disconnect.                          *)
StatusHonest ==
  \A c \in Dialers : status[c] = "connected" /\ ~out[c] ~> status[c] # "connected"

(* accept_invite may hand out the answer to another code, but never one    *)
(* that a call still waits for, nor one answer twice; and the first wrong  *)
(* answer comes from a call that had given up, or from a code of this      *)
(* device that was used meanwhile.                                         *)
AnswerIsOwn ==
  \A k \in Askers :
    outcome[k] \in Askers \ {k} =>
      /\ outcome[outcome[k]] \notin {"none", outcome[k]}
      /\ \E h \in Askers : outcome[h] \in {"closed", "timeout", "error", "issued"}

(* A client that is not in the slot has been told to disconnect, or is on  *)
(* its way there; only one whose connect timed out, or that the task of    *)
(* run_app overwrote, lives on without anybody who could close it.         *)
NoneLeftOpen ==
  \A c \in Dialers :
    out[c] /\ slot # c =>
      \/ pc[c] # "done" \/ outcome[c] = "timeout" \/ rd[c] = "closing"
      \/ c \in lost \/ \E k \in Writers : old[k] = c

(* The client in the slot has a watcher that announces its iroh address,   *)
(* once the command that put it there is through, unless two of them       *)
(* overtook each other between the slot and the watcher.                   *)
WatcherFollows ==
  slot # None /\ pc[slot] = "done" /\ ~overtaken => slot \in watched
=============================================================================
