--------------------------- MODULE SignalServer ---------------------------
(***************************************************************************)
(* The signalling server, handle_connection of server.rs: who is online,   *)
(* who is whose friend, invite codes, and the messages relayed or kept for *)
(* a device that is offline.  Every connection is one task; an action is   *)
(* one critical section of its handler or one wait between two of them.    *)
(* The client's part is what SignalClient::handle_incoming does with what  *)
(* it receives.  The connection counters are in SignalAdmission.           *)
(*                                                                         *)
(* The transfer address and the iroh address of a device are one address:  *)
(* the two update messages differ in the field they name.                  *)
(***************************************************************************)
EXTENDS Naturals, Sequences, FiniteSets

CONSTANTS
  Devices, Conns,
  Owner,       \* the device that opens a connection
  Codes,       \* invite codes; generate_code never repeats one
  Msgs,        \* chat messages, each sent once
  Addrs,       \* addresses a device may have
  NoAddr,      \* the empty address, what a connection starts with
  NoFriend,    \* a device missing from a friend list
  Off,         \* a friend listed as offline
  None,        \* no connection, no device
  QueueCap,    \* mpsc::channel(64)
  OfflineCap,  \* 200 messages kept for an offline device
  Overlap,     \* handlers of different connections run at the same time
  Reconnect,   \* a device may connect before its last connection is gone
  MaxBreaks    \* bound: connections that break under a handler at work

ASSUME ConstantsOK ==
  /\ Owner \in [Conns -> Devices]
  /\ NoAddr \in Addrs
  /\ NoFriend \notin Addrs \cup {Off} /\ Off \notin Addrs
  /\ None \notin Conns \cup Devices \cup Msgs
  /\ QueueCap \in Nat \ {0} /\ OfflineCap \in Nat
  /\ Overlap \in BOOLEAN /\ Reconnect \in BOOLEAN
  /\ MaxBreaks \in Nat

VARIABLES
  phase,    \* where the handler of a connection is
  job,      \* its local variables in the operation it is at
  held,     \* its `offline`: the messages it took from the offline queue
  snap,     \* its `online_friends`
  cur,      \* its current_transfer_addr and current_iroh_addr
  open,     \* the receiving end of its mpsc channel exists
  queue,    \* its mpsc channel
  broken,   \* the connection is closed or broken
  online,   \* ServerState.online: the connection whose tx is in the entry
  addr,     \* the address in that entry
  friends,  \* ServerState.friends
  codes,    \* ServerState.invite_codes, and the codes not used yet
  offline,  \* ServerState.offline_msgs
  sent,     \* messages the clients have sent
  view,     \* SignalClient.friends of the client since it connected
  received, \* messages a device handed to its message store
  paired,   \* the acceptors a code made friends of its issuer
  missed    \* connections a notification did not fit in the channel of

handler == <<phase, job, held, snap, cur>>
channel == <<open, queue>>
roster  == <<online, addr>>
clients == <<sent, view, received>>
vars    == <<handler, channel, broken, roster, friends, codes, offline, clients,
             paired, missed>>

-----------------------------------------------------------------------------
Opening == {"snapshot", "greet", "insert", "announce"}
Working == {"notify", "reply", "pair", "lookup", "answer", "tell", "route", "park"}
Leaving == {"remove", "farewell"}
Phase   == {"none", "serving", "gone"} \cup Opening \cup Working \cup Leaving

Standing == Addrs \cup {Off, NoFriend}
Relayed  == [msg : Msgs, from : Devices]
Note     == [type : {"online", "paired"}, dev : Devices, addr : Addrs]
            \cup [type : {"offline"}, dev : Devices]
            \cup [type : {"relayed"}, body : Relayed]
            \cup [type : {"code", "refused", "pairedOffline"}]
Job      == [to : Devices \cup {None}, code : Codes \cup {None},
             standing : Standing, msg : Msgs \cup {None}, txs : SUBSET Conns,
             note : Note \cup {None}]
Nobody   == [d \in Devices |-> NoFriend]
NoJob    == [to |-> None, code |-> None, standing |-> NoFriend, msg |-> None,
             txs |-> {}, note |-> None]

(* Types; channels and offline queues within their capacity.               *)
TypeOK ==
  /\ phase \in [Conns -> Phase]
  /\ job \in [Conns -> Job]
  /\ held \in [Conns -> Seq(Relayed)]
  /\ snap \in [Conns -> [Devices -> Standing]]
  /\ cur \in [Conns -> Addrs]
  /\ open \in [Conns -> BOOLEAN]
  /\ queue \in [Conns -> Seq(Note)]
  /\ \A c \in Conns : Len(queue[c]) <= QueueCap
  /\ broken \in [Conns -> BOOLEAN]
  /\ online \in [Devices -> Conns \cup {None}]
  /\ addr \in [Devices -> Addrs]
  /\ friends \in [Devices -> SUBSET Devices]
  /\ codes \in [Codes -> [issuer : Devices \cup {None},
                          state : {"unused", "valid", "expired", "removed"}]]
  /\ offline \in [Devices -> Seq(Relayed)]
  /\ \A d \in Devices : Len(offline[d]) <= OfflineCap
  /\ sent \subseteq Msgs
  /\ view \in [Conns -> [Devices -> Standing]]
  /\ received \in [Devices -> Seq(Relayed)]
  /\ paired \in [Codes -> SUBSET Devices]
  /\ missed \subseteq Conns

Init ==
  /\ phase = [c \in Conns |-> "none"]
  /\ job = [c \in Conns |-> NoJob]
  /\ held = [c \in Conns |-> <<>>]
  /\ snap = [c \in Conns |-> Nobody]
  /\ cur = [c \in Conns |-> NoAddr]
  /\ open = [c \in Conns |-> FALSE]
  /\ queue = [c \in Conns |-> <<>>]
  /\ broken = [c \in Conns |-> FALSE]
  /\ online = [d \in Devices |-> None]
  /\ addr = [d \in Devices |-> NoAddr]
  /\ friends = [d \in Devices |-> {}]
  /\ codes = [k \in Codes |-> [issuer |-> None, state |-> "unused"]]
  /\ offline = [d \in Devices |-> <<>>]
  /\ sent = {}
  /\ view = [c \in Conns |-> Nobody]
  /\ received = [d \in Devices |-> <<>>]
  /\ paired = [k \in Codes |-> {}]
  /\ missed = {}

Idle(c) == phase[c] \in {"none", "serving", "gone"}
Calm    == \A c \in Conns : Idle(c)
(* With Overlap FALSE an operation starts when no other is under way.      *)
MayStart == Overlap \/ Calm

Goto(c, from, to) == phase[c] = from /\ phase' = [phase EXCEPT ![c] = to]
Serving(c)        == phase[c] = "serving" /\ ~broken[c] /\ MayStart

(* try_send to the channels of T: a closed or full channel loses the note. *)
Room(c)      == open[c] /\ Len(queue[c]) < QueueCap
(* Mutant: an unbounded channel.                                           *)
TellUnbounded(T, n) == queue' = [c \in Conns |-> IF c \in T /\ open[c]
                                                 THEN Append(queue[c], n) ELSE queue[c]]
Tell(T, n)   == queue' = [c \in Conns |-> IF c \in T /\ Room(c)
                                          THEN Append(queue[c], n) ELSE queue[c]]
Misses(T)    == missed' = missed \cup {c \in T : open[c] /\ ~Room(c)}
Listed(S)    == {online[d] : d \in {e \in S : online[e] # None}}
Here(d)      == IF online[d] = None THEN Off ELSE addr[d]
Presence(c)  == [type |-> "online", dev |-> Owner[c], addr |-> cur[c]]

-----------------------------------------------------------------------------
(* Registration.                                                           *)

MayRegister(c) ==
  /\ MayStart
  /\ Reconnect \/ \A x \in Conns : Owner[x] = Owner[c] => phase[x] \in {"none", "gone"}

(* Mutant: the offline queue is read, not taken.                           *)
RegisterCopies(c) ==
  /\ MayRegister(c)
  /\ Goto(c, "none", "snapshot")
  /\ held' = [held EXCEPT ![c] = offline[Owner[c]]]
  /\ UNCHANGED <<job, snap, cur, channel, broken, roster, friends, codes, offline,
                 clients, paired, missed>>

(* The connection is admitted, its Register read, and what was kept for    *)
(* the device while it was offline taken.                                  *)
Register(c) ==
  /\ MayRegister(c)
  /\ Goto(c, "none", "snapshot")
  /\ held' = [held EXCEPT ![c] = offline[Owner[c]]]
  /\ offline' = [offline EXCEPT ![Owner[c]] = <<>>]
  /\ UNCHANGED <<job, snap, cur, channel, broken, roster, friends, codes,
                 clients, paired, missed>>

Snapshot(c) ==
  /\ Goto(c, "snapshot", "greet")
  /\ snap' = [snap EXCEPT ![c] = [d \in Devices |->
                IF d \in friends[Owner[c]] THEN Here(d) ELSE NoFriend]]
  /\ UNCHANGED <<job, held, cur, channel, broken, roster, friends, codes, offline,
                 clients, paired, missed>>

(* OfflineMessages is written; the client stores them.                     *)
PushOffline(c) ==
  /\ phase[c] = "greet" /\ ~broken[c] /\ held[c] # <<>>
  /\ received' = [received EXCEPT ![Owner[c]] = @ \o held[c]]
  /\ held' = [held EXCEPT ![c] = <<>>]
  /\ UNCHANGED <<phase, job, snap, cur, channel, broken, roster, friends, codes,
                 offline, sent, view, paired, missed>>

(* Registered is written; the client replaces its friend list.             *)
Greet(c) ==
  /\ held[c] = <<>> /\ ~broken[c]
  /\ Goto(c, "greet", "insert")
  /\ view' = [view EXCEPT ![c] = snap[c]]
  /\ snap' = [snap EXCEPT ![c] = Nobody]
  /\ UNCHANGED <<job, held, cur, channel, broken, roster, friends, codes,
                 offline, sent, received, paired, missed>>

(* One of the two writes fails: return.  What was taken from the offline   *)
(* queue and not written is lost.                                          *)
GreetFails(c) ==
  /\ broken[c]
  /\ Goto(c, "greet", "gone")
  /\ held' = [held EXCEPT ![c] = <<>>]
  /\ snap' = [snap EXCEPT ![c] = Nobody]
  /\ UNCHANGED <<job, cur, channel, broken, roster, friends, codes, offline,
                 clients, paired, missed>>

(* Mutant: a device without friends is not listed.                         *)
InsertWithFriends(c) ==
  /\ Goto(c, "insert", "announce")
  /\ open' = [open EXCEPT ![c] = TRUE]
  /\ online' = IF friends[Owner[c]] = {} THEN online ELSE [online EXCEPT ![Owner[c]] = c]
  /\ addr' = [addr EXCEPT ![Owner[c]] = cur[c]]
  /\ UNCHANGED <<job, held, snap, cur, queue, broken, friends, codes, offline,
                 clients, paired, missed>>

(* online.insert: an older connection of the device loses its entry.       *)
Insert(c) ==
  /\ Goto(c, "insert", "announce")
  /\ open' = [open EXCEPT ![c] = TRUE]
  /\ online' = [online EXCEPT ![Owner[c]] = c]
  /\ addr' = [addr EXCEPT ![Owner[c]] = cur[c]]
  /\ UNCHANGED <<job, held, snap, cur, queue, broken, friends, codes, offline,
                 clients, paired, missed>>

(* Every friend that is online now is told.                                *)
Announce(c) ==
  /\ Goto(c, "announce", "serving")
  /\ Tell(Listed(friends[Owner[c]]), Presence(c))
  /\ Misses(Listed(friends[Owner[c]]))
  /\ UNCHANGED <<job, held, snap, cur, open, broken, roster, friends, codes,
                 offline, clients, paired>>

-----------------------------------------------------------------------------
(* The read loop: UpdateTransferAddr, UpdateIrohAddr.                      *)

(* collect_friend_txs_and_update_addr, under online.write.                 *)
UpdateAddr(c, a) ==
  LET d == Owner[c] IN
  /\ Serving(c) /\ a # cur[c]
  /\ Goto(c, "serving", "notify")
  /\ cur' = [cur EXCEPT ![c] = a]
  /\ addr' = IF online[d] = None THEN addr ELSE [addr EXCEPT ![d] = a]
  /\ job' = [job EXCEPT ![c] = [NoJob EXCEPT !.txs = Listed(friends[d])]]
  /\ UNCHANGED <<held, snap, channel, broken, online, friends, codes, offline,
                 clients, paired, missed>>

(* notify_friends_online, after the locks are released.                    *)
Notify(c) ==
  /\ Goto(c, "notify", "serving")
  /\ Tell(job[c].txs, Presence(c))
  /\ Misses(job[c].txs)
  /\ job' = [job EXCEPT ![c] = NoJob]
  /\ UNCHANGED <<held, snap, cur, open, broken, roster, friends, codes, offline,
                 clients, paired>>

-----------------------------------------------------------------------------
(* The read loop: GenerateInvite, AcceptInvite.                            *)

GenerateInvite(c, k) ==
  /\ Serving(c) /\ codes[k].state = "unused"
  /\ Goto(c, "serving", "reply")
  /\ codes' = [codes EXCEPT ![k] = [issuer |-> Owner[c], state |-> "valid"]]
  /\ job' = [job EXCEPT ![c] = [NoJob EXCEPT !.note = [type |-> "code"]]]
  /\ UNCHANGED <<held, snap, cur, channel, broken, roster, friends, offline,
                 clients, paired, missed>>

(* tx.send(..).await to the own client: waits for room, and fails only     *)
(* when the writer is gone.                                                *)
SendOwn(c, n) ==
  /\ open[c] => Room(c)
  /\ Tell({c}, n)

Reply(c) ==
  /\ Goto(c, "reply", "serving")
  /\ SendOwn(c, job[c].note)
  /\ job' = [job EXCEPT ![c] = NoJob]
  /\ UNCHANGED <<held, snap, cur, open, broken, roster, friends, codes, offline,
                 clients, paired, missed>>

(* Mutant: the code stays in the table.                                    *)
AcceptInviteKeeps(c, k) ==
  /\ Serving(c) /\ codes[k].state = "valid"
  /\ Goto(c, "serving", "pair")
  /\ job' = [job EXCEPT ![c] = [NoJob EXCEPT !.to = codes[k].issuer, !.code = k]]
  /\ UNCHANGED <<held, snap, cur, channel, broken, roster, friends, codes, offline,
                 clients, paired, missed>>

(* The code is taken out of the table, whoever offers it.                  *)
AcceptInvite(c, k) ==
  /\ Serving(c) /\ codes[k].state = "valid"
  /\ Goto(c, "serving", "pair")
  /\ codes' = [codes EXCEPT ![k].state = "removed"]
  /\ job' = [job EXCEPT ![c] = [NoJob EXCEPT !.to = codes[k].issuer, !.code = k]]
  /\ UNCHANGED <<held, snap, cur, channel, broken, roster, friends, offline,
                 clients, paired, missed>>

(* No such code, or one 600 seconds old; it is removed all the same.       *)
RefuseInvite(c, k) ==
  /\ Serving(c) /\ codes[k].state # "valid"
  /\ Goto(c, "serving", "reply")
  /\ codes' = [codes EXCEPT ![k].state = IF @ = "expired" THEN "removed" ELSE @]
  /\ job' = [job EXCEPT ![c] = [NoJob EXCEPT !.note = [type |-> "refused"]]]
  /\ UNCHANGED <<held, snap, cur, channel, broken, roster, friends, offline,
                 clients, paired, missed>>

(* friends.write: both directions at once.                                 *)
Pair(c) ==
  LET d == Owner[c]  e == job[c].to IN
  /\ Goto(c, "pair", "lookup")
  /\ friends' = [x \in Devices |->
       friends[x] \cup (IF x = d THEN {e} ELSE {}) \cup (IF x = e THEN {d} ELSE {})]
  /\ paired' = [paired EXCEPT ![job[c].code] = @ \cup {d}]
  /\ UNCHANGED <<job, held, snap, cur, channel, broken, roster, codes, offline,
                 clients, missed>>

(* online.read: what to tell the acceptor of the issuer.                   *)
Lookup(c) ==
  /\ Goto(c, "lookup", "answer")
  /\ job' = [job EXCEPT ![c].standing = Here(job[c].to)]
  /\ UNCHANGED <<held, snap, cur, channel, broken, roster, friends, codes, offline,
                 clients, paired, missed>>

Answer(c) ==
  LET s == job[c].standing IN
  /\ phase[c] = "answer"
  /\ SendOwn(c, IF s = Off THEN [type |-> "pairedOffline"]
                ELSE [type |-> "paired", dev |-> job[c].to, addr |-> s])
  /\ phase' = [phase EXCEPT ![c] = IF s = Off THEN "serving" ELSE "tell"]
  /\ job' = [job EXCEPT ![c] = IF s = Off THEN NoJob ELSE @]
  /\ UNCHANGED <<held, snap, cur, open, broken, roster, friends, codes, offline,
                 clients, paired, missed>>

(* The issuer, if it is still online, gets FriendOnline and InviteResult,  *)
(* each only if it fits.                                                   *)
TellIssuer(c) ==
  LET T    == Listed({job[c].to})
      news == <<Presence(c), [Presence(c) EXCEPT !.type = "paired"]>>
      fit(x) == IF ~open[x] THEN 0
                ELSE IF QueueCap - Len(queue[x]) > 2 THEN 2 ELSE QueueCap - Len(queue[x])
  IN
  /\ Goto(c, "tell", "serving")
  /\ queue' = [x \in Conns |-> IF x \in T THEN queue[x] \o SubSeq(news, 1, fit(x))
                               ELSE queue[x]]
  /\ missed' = missed \cup {x \in T : open[x] /\ fit(x) = 0}
  /\ job' = [job EXCEPT ![c] = NoJob]
  /\ UNCHANGED <<held, snap, cur, open, broken, roster, friends, codes, offline,
                 clients, paired>>

-----------------------------------------------------------------------------
(* The read loop: RelayMessage.                                            *)

(* Mutant: whoever asks may relay.                                         *)
RelayToAnyone(c, m, d) ==
  /\ Serving(c) /\ m \notin sent
  /\ sent' = sent \cup {m}
  /\ Goto(c, "serving", "route")
  /\ job' = [job EXCEPT ![c] = [NoJob EXCEPT !.msg = m, !.to = d]]
  /\ UNCHANGED <<held, snap, cur, channel, broken, roster, friends, codes, offline,
                 view, received, paired, missed>>

Relay(c, m, d) ==
  /\ Serving(c) /\ m \notin sent
  /\ sent' = sent \cup {m}
  /\ d \in friends[Owner[c]]
  /\ Goto(c, "serving", "route")
  /\ job' = [job EXCEPT ![c] = [NoJob EXCEPT !.msg = m, !.to = d]]
  /\ UNCHANGED <<held, snap, cur, channel, broken, roster, friends, codes, offline,
                 view, received, paired, missed>>

RefuseRelay(c, m, d) ==
  /\ Serving(c) /\ m \notin sent
  /\ sent' = sent \cup {m}
  /\ d \notin friends[Owner[c]]
  /\ Goto(c, "serving", "reply")
  /\ job' = [job EXCEPT ![c] = [NoJob EXCEPT !.note = [type |-> "refused"]]]
  /\ UNCHANGED <<held, snap, cur, channel, broken, roster, friends, codes, offline,
                 view, received, paired, missed>>

Body(c) == [msg |-> job[c].msg, from |-> Owner[c]]

(* online.read: the target is listed; its channel takes it or it is lost.  *)
Route(c) ==
  /\ Goto(c, "route", "serving")
  /\ online[job[c].to] # None
  /\ Tell({online[job[c].to]}, [type |-> "relayed", body |-> Body(c)])
  /\ job' = [job EXCEPT ![c] = NoJob]
  /\ UNCHANGED <<held, snap, cur, open, broken, roster, friends, codes, offline,
                 clients, paired, missed>>

RouteNowhere(c) ==
  /\ Goto(c, "route", "park")
  /\ online[job[c].to] = None
  /\ UNCHANGED <<job, held, snap, cur, channel, broken, roster, friends, codes,
                 offline, clients, paired, missed>>

(* offline_msgs.write, after online is released.                           *)
Park(c) ==
  LET d == job[c].to IN
  /\ Goto(c, "park", "serving")
  /\ offline' = IF Len(offline[d]) < OfflineCap
                THEN [offline EXCEPT ![d] = Append(@, Body(c))] ELSE offline
  /\ job' = [job EXCEPT ![c] = NoJob]
  /\ UNCHANGED <<held, snap, cur, channel, broken, roster, friends, codes, clients,
                 paired, missed>>

-----------------------------------------------------------------------------
(* The end of a connection.                                                *)

(* The read fails, or the rate limit is exceeded: leave the loop and abort *)
(* the writer.  The client keeps its friend list until the next connection *)
(* replaces it; nothing below looks at it, and it is dropped here.         *)
Leave(c) ==
  /\ MayStart
  /\ Goto(c, "serving", "remove")
  /\ open' = [open EXCEPT ![c] = FALSE]
  /\ queue' = [queue EXCEPT ![c] = <<>>]
  /\ view' = [view EXCEPT ![c] = Nobody]
  /\ UNCHANGED <<job, held, snap, cur, broken, roster, friends, codes, offline,
                 sent, received, paired, missed>>

(* Mutant: the entry stays.                                                *)
RemoveForgotten(c) ==
  /\ Goto(c, "remove", "farewell")
  /\ UNCHANGED <<job, held, snap, cur, channel, broken, roster, friends, codes,
                 offline, clients, paired, missed>>

(* online.remove(device_id), whichever connection the entry belongs to.    *)
Remove(c) ==
  /\ Goto(c, "remove", "farewell")
  /\ online' = [online EXCEPT ![Owner[c]] = None]
  /\ UNCHANGED <<job, held, snap, cur, channel, broken, addr, friends, codes,
                 offline, clients, paired, missed>>

(* Mutant: nobody is told.                                                 *)
FarewellUnsaid(c) ==
  /\ Goto(c, "farewell", "gone")
  /\ UNCHANGED <<job, held, snap, cur, channel, broken, roster, friends, codes,
                 offline, clients, paired, missed>>

Farewell(c) ==
  /\ Goto(c, "farewell", "gone")
  /\ Tell(Listed(friends[Owner[c]]), [type |-> "offline", dev |-> Owner[c]])
  /\ Misses(Listed(friends[Owner[c]]))
  /\ UNCHANGED <<job, held, snap, cur, open, broken, roster, friends, codes,
                 offline, clients, paired>>

-----------------------------------------------------------------------------
(* The writer task, the client, time and the network.                      *)

(* The client's friend list after one message, as handle_incoming has it.  *)
Seen(v, n) ==
  CASE n.type = "online"  -> [v EXCEPT ![n.dev] = n.addr]
    [] n.type = "offline" -> [v EXCEPT ![n.dev] = IF @ = NoFriend THEN @ ELSE Off]
    [] n.type = "paired"  -> [v EXCEPT ![n.dev] = IF @ = NoFriend THEN n.addr ELSE @]
    [] OTHER              -> v

(* write_task writes the next message and the client handles it.           *)
Deliver(c) ==
  /\ open[c] /\ ~broken[c] /\ queue[c] # <<>>
  /\ LET n == Head(queue[c]) IN
       /\ view' = [view EXCEPT ![c] = Seen(@, n)]
       /\ received' = IF n.type = "relayed"
                      THEN [received EXCEPT ![Owner[c]] = Append(@, n.body)]
                      ELSE received
  /\ queue' = [queue EXCEPT ![c] = Tail(@)]
  /\ UNCHANGED <<handler, open, broken, roster, friends, codes, offline, sent,
                 paired, missed>>

(* A write fails: write_task ends and the channel with it.                 *)
WriterEnds(c) ==
  /\ open[c] /\ broken[c] /\ queue[c] # <<>>
  /\ open' = [open EXCEPT ![c] = FALSE]
  /\ queue' = [queue EXCEPT ![c] = <<>>]
  /\ UNCHANGED <<handler, broken, roster, friends, codes, offline, clients, paired,
                 missed>>

Break(c) ==
  /\ phase[c] \notin {"none", "gone"} \cup Leaving /\ ~broken[c]
  /\ Cardinality({x \in Conns : broken[x]}) < MaxBreaks
  /\ broken' = [broken EXCEPT ![c] = TRUE]
  /\ UNCHANGED <<handler, channel, roster, friends, codes, offline,
                 clients, paired, missed>>

(* Ten minutes pass.                                                       *)
Expire(k) ==
  /\ codes[k].state = "valid"
  /\ codes' = [codes EXCEPT ![k].state = "expired"]
  /\ UNCHANGED <<handler, channel, broken, roster, friends, offline, clients,
                 paired, missed>>

(* The periodic cleanup_expired_invites.                                   *)
CleanupInvites ==
  /\ \E k \in Codes : codes[k].state = "expired"
  /\ codes' = [k \in Codes |-> IF codes[k].state = "expired"
                               THEN [codes[k] EXCEPT !.state = "removed"] ELSE codes[k]]
  /\ UNCHANGED <<handler, channel, broken, roster, friends, offline, clients,
                 paired, missed>>

AllGone ==
  /\ \A c \in Conns : phase[c] = "gone"
  /\ UNCHANGED vars

(* What a handler does without waiting for its client.                     *)
Handler(c) ==
  \/ Snapshot(c) \/ PushOffline(c) \/ Greet(c) \/ GreetFails(c)
  \/ Insert(c) \/ Announce(c) \/ Notify(c) \/ Reply(c) \/ Pair(c) \/ Lookup(c)
  \/ Answer(c) \/ TellIssuer(c) \/ Route(c) \/ RouteNowhere(c) \/ Park(c)
  \/ Remove(c) \/ Farewell(c)

Request(c) ==
  \/ \E a \in Addrs : UpdateAddr(c, a)
  \/ \E k \in Codes : GenerateInvite(c, k) \/ AcceptInvite(c, k) \/ RefuseInvite(c, k)
  \/ \E m \in Msgs, d \in Devices : Relay(c, m, d) \/ RefuseRelay(c, m, d)

Next ==
  \/ \E c \in Conns :
       \/ Register(c) \/ Handler(c) \/ Request(c) \/ Leave(c)
       \/ Deliver(c) \/ WriterEnds(c) \/ Break(c)
  \/ \E k \in Codes : Expire(k)
  \/ CleanupInvites
  \/ AllGone

Spec == Init /\ [][Next]_vars

-----------------------------------------------------------------------------
(* Properties.                                                             *)

(* Every place a message is at: those of a connection, those of a device.  *)
OnConn(m, c) ==
  (IF job[c].msg = m THEN {<<"handler", c>>} ELSE {})
  \cup {<<"held", c, i>> : i \in {j \in DOMAIN held[c] : held[c][j].msg = m}}
  \cup {<<"channel", c, i>> : i \in {j \in DOMAIN queue[c] :
         queue[c][j].type = "relayed" /\ queue[c][j].body.msg = m}}
AtDevice(m, d) ==
  {<<"offline", d, i>> : i \in {j \in DOMAIN offline[d] : offline[d][j].msg = m}}
  \cup {<<"stored", d, i>> : i \in {j \in DOMAIN received[d] : received[d][j].msg = m}}
Places(m) == UNION ({OnConn(m, c) : c \in Conns} \cup {AtDevice(m, d) : d \in Devices})

(* A message is never in two places and never stored twice, over the live  *)
(* route, the offline queue, reconnections and failed registrations.       *)
AtMostOnce == \A m \in Msgs : Cardinality(Places(m)) <= 1

(* What a device receives comes from a friend of its own.                  *)
OnlyFriendsTalk ==
  \A d \in Devices : \A i \in DOMAIN received[d] : received[d][i].from \in friends[d]

(* An invite code makes one pair, however many devices send it at once.    *)
CodePairsOnce == \A k \in Codes : Cardinality(paired[k]) <= 1

(* Nobody is listed as online whose handler is over: a listed connection   *)
(* still has to run its own removal.                                       *)
NoGhosts ==
  \A d \in Devices : online[d] # None =>
    phase[online[d]] \in {"announce", "serving", "remove"} \cup Working

(* The only connection of a device, once it is served, is listed.          *)
ConnectedIsListed ==
  \A c \in Conns :
    /\ phase[c] = "serving" /\ ~broken[c]
    /\ \A x \in Conns \ {c} : Owner[x] = Owner[c] => phase[x] \in {"none", "gone"}
    => online[Owner[c]] = c

(* README: messages for an offline device are pushed once it is online.    *)
(* When nothing is under way none is left for a device that is.            *)
NothingParkedForOnline ==
  Calm => \A d \in Devices : online[d] # None => offline[d] = <<>>

(* README: friends are told when a device comes, goes or moves.  When      *)
(* nothing is under way and no channel overflowed, a client knows of each  *)
(* friend what the server knows.                                           *)
ViewsAgree ==
  Calm /\ (\A c \in Conns : queue[c] = <<>>) =>
    \A d \in Devices : LET c == online[d] IN
      c # None /\ c \notin missed /\ ~broken[c] =>
        \A e \in friends[d] : IF online[e] = None THEN view[c][e] \in {Off, NoFriend}
                                                   ELSE view[c][e] = addr[e]
=============================================================================
