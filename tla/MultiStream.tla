---------------------------- MODULE MultiStream ----------------------------
(***************************************************************************)
(* One large file sent over iroh on several streams, and sent again by a   *)
(* user who saw the first transfer stand still.  The sender is             *)
(* do_send_file_iroh with send_data_streams and iroh_get_or_connect; the   *)
(* receiver is accept_iroh_loop, handle_iroh_stream and                    *)
(* handle_iroh_multi_control with its writer tasks.                        *)
(*                                                                         *)
(* Both transfers carry the same file_id, so they share temp/<id>.tmp, and *)
(* on one connection the entry of data_routes.  Chunk c is chunk_index c   *)
(* and holds c when it is in its place.                                    *)
(***************************************************************************)
EXTENDS Naturals, Sequences, FiniteSets

CONSTANTS
  K,          \* transfers of the file, one after the other
  N,          \* total_chunks
  NStreams,   \* stream_count
  AskFirst,   \* require_confirmation of the receiver
  Cap,        \* mpsc::channel(16) between the reader and the writer of a stream
  Window,     \* bound: items under way in one QUIC stream
  MaxConns,   \* bound: connections made
  MaxFaults   \* bound: connections that break or cannot be made, writers
              \* that fail

ASSUME ConstantsOK ==
  /\ K \in Nat \ {0} /\ N \in Nat \ {0} /\ NStreams \in Nat \ {0, 1}
  /\ AskFirst \in BOOLEAN
  /\ Cap \in Nat \ {0} /\ Window \in Nat \ {0}
  /\ MaxConns \in Nat \ {0} /\ MaxFaults \in Nat

Transfers == 1..K
Chunks    == 0..N - 1
Streams   == 0..NStreams - 1
Conns     == 1..MaxConns
Nobody    == 0       \* no connection, no transfer, no file
Stopped   == K + 1   \* a reader that has ended
Zero      == N       \* what set_len leaves in a chunk
Header    == N       \* the DataStreamHeader among the chunks of a stream

(* The partition of total chunks over n streams.                           *)
PerStream(total, n)  == (total + n - 1) \div n
FirstOf(i, total, n) == i * PerStream(total, n)
(* Mutant: the end of a range is taken for its last chunk.                 *)
PastInclusive(i, total, n) ==
  IF (i + 1) * PerStream(total, n) < total THEN (i + 1) * PerStream(total, n) + 1
                                           ELSE total
PastOf(i, total, n)  == IF (i + 1) * PerStream(total, n) < total
                        THEN (i + 1) * PerStream(total, n) ELSE total
RangeOf(i, total, n) == FirstOf(i, total, n)..PastOf(i, total, n) - 1

VARIABLES
  alive,    \* connections that are open
  cached,   \* iroh_conn_cache: the connection to the peer, or Nobody
  on,       \* the connection of each transfer
  spc,      \* where do_send_file_iroh is
  sprog,    \* status of the sender's progress entry
  opened,   \* data streams opened so far
  task,     \* the task of each data stream
  next,     \* its chunk_index
  toRcv,    \* control stream, to the receiver
  toSnd,    \* control stream, to the sender
  wire,     \* each data stream
  rpc,      \* where handle_iroh_multi_control is
  rprog,    \* status of the receiver's progress entry
  pending,  \* pending_confirmations: whose prompt is there
  route,    \* data_routes of each connection: whose senders are there
  reader,   \* handle_iroh_stream of each data stream: the transfer whose
            \* sender it cloned, or its state
  chan,     \* the channel of each writer
  writer,   \* each writer task
  wfile,    \* the file it has open
  pos,      \* the chunk its next write falls on
  temp,     \* disk: the file temp/<id>.tmp names
  final,    \* disk: the file the download directory's name names
  data,     \* disk: the chunks of each file, by the transfer that made it
  sent,     \* transfers the sender has recorded as completed
  received, \* transfers the receiver has recorded as completed
  faults

send == <<spc, sprog, on, opened, task, next, sent>>
net  == <<alive, cached, toRcv, toSnd, wire>>
recv == <<rpc, rprog, pending, route, reader, received>>
wr   == <<chan, writer, wfile, pos>>
disk == <<temp, final, data>>
vars == <<send, net, recv, wr, disk, faults>>

-----------------------------------------------------------------------------
SenderOver   == {"done", "failed", "rejected"}
ReceiverOver == {"done", "failed", "rejected", "unpublished"}
Blank == [c \in Chunks |-> Zero]

(* Types.  A writer's place stays within the file, a channel within its    *)
(* capacity.                                                               *)
TypeOK ==
  /\ alive \subseteq Conns
  /\ cached \in Conns \cup {Nobody}
  /\ on \in [Transfers -> Conns \cup {Nobody}]
  /\ spc \in [Transfers -> {"idle", "connected", "requested", "opening",
                            "joining", "waiting"} \cup SenderOver]
  /\ sprog \in {"none", "queued", "active", "error"}
  /\ opened \in [Transfers -> 0..NStreams]
  /\ task \in [Transfers -> [Streams -> {"none", "running", "ended"}]]
  /\ next \in [Transfers -> [Streams -> 0..N]]
  /\ toRcv \in [Transfers -> Seq({"request", "complete"})]
  /\ toSnd \in [Transfers -> Seq({"accepted", "rejected", "ack"})]
  /\ wire \in [Transfers -> [Streams -> Seq(Chunks \cup {Header})]]
  /\ \A k \in Transfers, i \in Streams :
       Len(wire[k][i]) <= Window /\ Len(chan[k][i]) <= Cap
  /\ rpc \in [Transfers -> {"none", "asking", "accepted", "prepared", "joining",
                            "joined", "completed", "renamed"} \cup ReceiverOver]
  /\ rprog \in {"none", "pending", "active"}
  /\ pending \in Transfers \cup {Nobody}
  /\ route \in [Conns -> Transfers \cup {Nobody}]
  /\ reader \in [Transfers -> [Streams -> 0..Stopped]]
  /\ chan \in [Transfers -> [Streams -> Seq(Chunks)]]
  /\ writer \in [Transfers -> [Streams -> {"none", "spawned", "first", "next",
                                           "failed", "ended"}]]
  /\ wfile \in [Transfers -> [Streams -> Transfers \cup {Nobody}]]
  /\ pos \in [Transfers -> [Streams -> 0..N]]
  /\ temp \in Transfers \cup {Nobody}
  /\ final \in Transfers \cup {Nobody}
  /\ data \in [Transfers -> [Chunks -> Chunks \cup {Zero}]]
  /\ sent \subseteq Transfers /\ received \subseteq Transfers
  /\ faults \in 0..MaxFaults

Init ==
  /\ alive = {} /\ cached = Nobody
  /\ on = [k \in Transfers |-> Nobody]
  /\ spc = [k \in Transfers |-> "idle"]
  /\ sprog = "none"
  /\ opened = [k \in Transfers |-> 0]
  /\ task = [k \in Transfers |-> [i \in Streams |-> "none"]]
  /\ next = [k \in Transfers |-> [i \in Streams |-> 0]]
  /\ toRcv = [k \in Transfers |-> <<>>]
  /\ toSnd = [k \in Transfers |-> <<>>]
  /\ wire = [k \in Transfers |-> [i \in Streams |-> <<>>]]
  /\ rpc = [k \in Transfers |-> "none"]
  /\ rprog = "none" /\ pending = Nobody
  /\ route = [c \in Conns |-> Nobody]
  /\ reader = [k \in Transfers |-> [i \in Streams |-> Nobody]]
  /\ chan = [k \in Transfers |-> [i \in Streams |-> <<>>]]
  /\ writer = [k \in Transfers |-> [i \in Streams |-> "none"]]
  /\ wfile = [k \in Transfers |-> [i \in Streams |-> Nobody]]
  /\ pos = [k \in Transfers |-> [i \in Streams |-> 0]]
  /\ temp = Nobody /\ final = Nobody
  /\ data = [k \in Transfers |-> Blank]
  /\ sent = {} /\ received = {}
  /\ faults = 0

Up(k) == on[k] \in alive

(* ProgressTracker::set_active, set_error: of an entry that is there.      *)
Marked(entry, status) == IF entry = "none" THEN entry ELSE status

-----------------------------------------------------------------------------
(* The sender.                                                             *)

(* The user sends the file, again only when the transfer before stands     *)
(* still or is over.                                                       *)
MaySend(k) == spc[k] = "idle" /\ \A j \in 1..k - 1 : spc[j] \in SenderOver \cup {"waiting"}

(* iroh_get_or_connect finds an open connection in the cache ...           *)
Reuse(k) ==
  /\ MaySend(k) /\ cached \in alive
  /\ on' = [on EXCEPT ![k] = cached]
  /\ spc' = [spc EXCEPT ![k] = "connected"]
  /\ sprog' = "queued"
  /\ UNCHANGED <<opened, task, next, sent, net, recv, wr, disk, faults>>

(* ... or makes one and keeps it there ...                                 *)
Connect(k) ==
  /\ MaySend(k) /\ cached \notin alive
  /\ cached' = IF cached = Nobody THEN 1 ELSE cached + 1
  /\ cached' \in Conns
  /\ alive' = alive \cup {cached'}
  /\ on' = [on EXCEPT ![k] = cached']
  /\ spc' = [spc EXCEPT ![k] = "connected"]
  /\ sprog' = "queued"
  /\ UNCHANGED <<opened, task, next, sent, toRcv, toSnd, wire, recv, wr, disk, faults>>

(* ... or fails three times.                                               *)
ConnectFails(k) ==
  /\ MaySend(k) /\ cached \notin alive
  /\ faults < MaxFaults /\ faults' = faults + 1
  /\ spc' = [spc EXCEPT ![k] = "failed"]
  /\ sprog' = "none"
  /\ UNCHANGED <<on, opened, task, next, sent, net, recv, wr, disk>>

Request(k) ==
  /\ spc[k] = "connected" /\ Up(k)
  /\ toRcv' = [toRcv EXCEPT ![k] = <<"request">>]
  /\ spc' = [spc EXCEPT ![k] = "requested"]
  /\ UNCHANGED <<sprog, on, opened, task, next, sent, alive, cached, toSnd, wire, recv, wr, disk, faults>>

(* A failed open_bi or request leaves the entry, with the error.           *)
RequestFails(k) ==
  /\ spc[k] = "connected" /\ ~Up(k)
  /\ spc' = [spc EXCEPT ![k] = "failed"]
  /\ sprog' = Marked(sprog, "error")
  /\ UNCHANGED <<on, opened, task, next, sent, net, recv, wr, disk, faults>>

Answered(k, answer) ==
  /\ toSnd[k] # <<>> /\ Head(toSnd[k]) = answer /\ Up(k)
  /\ toSnd' = [toSnd EXCEPT ![k] = Tail(@)]
  /\ UNCHANGED <<on, opened, task, next, alive, cached, toRcv, wire, recv, wr, disk, faults>>

OnAccepted(k) ==
  /\ spc[k] = "requested" /\ Answered(k, "accepted")
  /\ spc' = [spc EXCEPT ![k] = "opening"]
  /\ sprog' = Marked(sprog, "active")
  /\ UNCHANGED sent

OnRejected(k) ==
  /\ spc[k] = "requested" /\ Answered(k, "rejected")
  /\ spc' = [spc EXCEPT ![k] = "rejected"]
  /\ sprog' = "none"
  /\ UNCHANGED sent

MoreStreams(k) == opened[k] < NStreams /\ FirstOf(opened[k], N, NStreams) < N

(* Open the next data stream, write its header and spawn its task.         *)
OpenStream(k) ==
  /\ spc[k] = "opening" /\ MoreStreams(k) /\ Up(k)
  /\ LET i == opened[k] IN
       /\ wire' = [wire EXCEPT ![k][i] = <<Header>>]
       /\ task' = [task EXCEPT ![k][i] = "running"]
       /\ next' = [next EXCEPT ![k][i] = FirstOf(i, N, NStreams)]
       /\ opened' = [opened EXCEPT ![k] = i + 1]
  /\ UNCHANGED <<spc, sprog, on, sent, alive, cached, toRcv, toSnd, recv, wr, disk, faults>>

(* A data stream that cannot be opened ends the transfer and, with the     *)
(* JoinSet, its tasks.                                                     *)
OpenFails(k) ==
  /\ spc[k] = "opening" /\ MoreStreams(k) /\ ~Up(k)
  /\ spc' = [spc EXCEPT ![k] = "failed"]
  /\ sprog' = "none"
  /\ task' = [task EXCEPT ![k] = [i \in Streams |->
                IF task[k][i] = "none" THEN "none" ELSE "ended"]]
  /\ UNCHANGED <<on, opened, next, sent, net, recv, wr, disk, faults>>

AllOpened(k) ==
  /\ spc[k] = "opening" /\ ~MoreStreams(k)
  /\ spc' = [spc EXCEPT ![k] = "joining"]
  /\ UNCHANGED <<sprog, on, opened, task, next, sent, net, recv, wr, disk, faults>>

SendChunk(k, i) ==
  /\ task[k][i] = "running" /\ next[k][i] < PastOf(i, N, NStreams)
  /\ Up(k) /\ reader[k][i] # Stopped /\ Len(wire[k][i]) < Window
  /\ wire' = [wire EXCEPT ![k][i] = Append(@, next[k][i])]
  /\ next' = [next EXCEPT ![k][i] = @ + 1]
  /\ UNCHANGED <<spc, sprog, on, opened, task, sent, alive, cached, toRcv, toSnd, recv, wr, disk, faults>>

(* The task has sent its range, or a write fails: send_data_streams only   *)
(* logs that.                                                              *)
TaskEnds(k, i) ==
  /\ task[k][i] = "running"
  /\ next[k][i] = PastOf(i, N, NStreams) \/ reader[k][i] = Stopped
  /\ task' = [task EXCEPT ![k][i] = "ended"]
  /\ UNCHANGED <<spc, sprog, on, opened, next, sent, net, recv, wr, disk, faults>>

(* join_next is through: TransferComplete on the control stream.           *)
Complete(k) ==
  /\ spc[k] = "joining" /\ \A i \in Streams : task[k][i] # "running"
  /\ Up(k)
  /\ toRcv' = [toRcv EXCEPT ![k] = Append(@, "complete")]
  /\ spc' = [spc EXCEPT ![k] = "waiting"]
  /\ UNCHANGED <<sprog, on, opened, task, next, sent, alive, cached, toSnd, wire, recv, wr, disk, faults>>

OnAck(k) ==
  /\ spc[k] = "waiting" /\ Answered(k, "ack")
  /\ spc' = [spc EXCEPT ![k] = "done"]
  /\ sprog' = "none"
  /\ sent' = sent \cup {k}

(* The control stream is gone, with the connection or because the          *)
(* receiver's handler returned without an answer.                          *)
SenderFails(k) ==
  /\ \/ spc[k] \in {"requested", "waiting"} /\ toSnd[k] = <<>> /\ rpc[k] \in ReceiverOver
     \/ spc[k] \in {"requested", "waiting", "joining"} /\ ~Up(k)
  /\ \A i \in Streams : task[k][i] # "running"
  /\ spc' = [spc EXCEPT ![k] = "failed"]
  /\ sprog' = "none"
  /\ UNCHANGED <<on, opened, task, next, sent, net, recv, wr, disk, faults>>

-----------------------------------------------------------------------------
(* The receiver's control handler.                                         *)

Taken(k, m) ==
  /\ toRcv[k] # <<>> /\ Head(toRcv[k]) = m /\ Up(k)
  /\ toRcv' = [toRcv EXCEPT ![k] = Tail(@)]
  /\ UNCHANGED <<alive, cached, toSnd, wire>>

(* A prompt replaces the one that is there: its sender is dropped.         *)
OnRequest(k) ==
  /\ rpc[k] = "none" /\ Taken(k, "request")
  /\ rpc' = [rpc EXCEPT ![k] = IF AskFirst THEN "asking" ELSE "accepted"]
  /\ rprog' = IF AskFirst THEN "pending" ELSE rprog
  /\ pending' = IF AskFirst THEN k ELSE pending
  /\ UNCHANGED <<route, reader, received, send, wr, disk, faults>>

Accept(k) ==
  /\ rpc[k] = "asking" /\ pending = k
  /\ pending' = Nobody
  /\ rpc' = [rpc EXCEPT ![k] = "accepted"]
  /\ rprog' = "none"
  /\ UNCHANGED <<route, reader, received, send, net, wr, disk, faults>>

(* The user says no, or the prompt was replaced.                           *)
Reject(k) ==
  /\ rpc[k] = "asking"
  /\ pending' = IF pending = k THEN Nobody ELSE pending
  /\ rpc' = [rpc EXCEPT ![k] = "rejected"]
  /\ rprog' = "none"
  /\ toSnd' = [toSnd EXCEPT ![k] = IF Up(k) THEN <<"rejected">> ELSE @]
  /\ UNCHANGED <<route, reader, received, send, alive, cached, toRcv, wire, wr, disk, faults>>

(* File::create empties the temp file that is there; the senders of all    *)
(* the channels move into data_routes before the response goes out.        *)
Prepare(k) ==
  /\ rpc[k] = "accepted"
  /\ temp' = IF temp = Nobody THEN k ELSE temp
  /\ data' = [data EXCEPT ![temp'] = Blank]
  /\ route' = [route EXCEPT ![on[k]] = k]
  /\ rprog' = "active"
  /\ rpc' = [rpc EXCEPT ![k] = "prepared"]
  /\ UNCHANGED <<pending, reader, received, send, net, wr, final, faults>>

(* The response goes out and the writer tasks are spawned.                 *)
Respond(k) ==
  /\ rpc[k] = "prepared" /\ Up(k)
  /\ toSnd' = [toSnd EXCEPT ![k] = <<"accepted">>]
  /\ writer' = [writer EXCEPT ![k] = [i \in Streams |-> "spawned"]]
  /\ rpc' = [rpc EXCEPT ![k] = "joining"]
  /\ UNCHANGED <<rprog, pending, route, reader, received, send, alive, cached, toRcv, wire, chan, wfile, pos, disk, faults>>

RespondFails(k) ==
  /\ rpc[k] = "prepared" /\ ~Up(k)
  /\ route' = [route EXCEPT ![on[k]] = Nobody]
  /\ rprog' = "none"
  /\ temp' = Nobody
  /\ rpc' = [rpc EXCEPT ![k] = "failed"]
  /\ UNCHANGED <<pending, reader, received, send, net, wr, final, data, faults>>

(* writer_set.join_next is through; whatever the writers returned is only  *)
(* logged.                                                                 *)
(* Mutant: the first writer that ends is enough.                           *)
JoinedEarly(k) ==
  /\ rpc[k] = "joining"
  /\ \E i \in Streams : writer[k][i] \in {"failed", "ended"}
  /\ route' = [route EXCEPT ![on[k]] = Nobody]
  /\ rpc' = [rpc EXCEPT ![k] = "joined"]
  /\ UNCHANGED <<pending, rprog, reader, received, send, net, wr, disk, faults>>

Joined(k) ==
  /\ rpc[k] = "joining"
  /\ \A i \in Streams : writer[k][i] \in {"failed", "ended"}
  /\ route' = [route EXCEPT ![on[k]] = Nobody]
  /\ rpc' = [rpc EXCEPT ![k] = "joined"]
  /\ UNCHANGED <<pending, rprog, reader, received, send, net, wr, disk, faults>>

OnComplete(k) ==
  /\ rpc[k] = "joined" /\ Taken(k, "complete")
  /\ rpc' = [rpc EXCEPT ![k] = "completed"]
  /\ UNCHANGED <<rprog, pending, route, reader, received, send, wr, disk, faults>>

CompleteLost(k) ==
  /\ rpc[k] = "joined"
  /\ ~Up(k) \/ (toRcv[k] = <<>> /\ spc[k] \in SenderOver)
  /\ rprog' = "none"
  /\ temp' = Nobody
  /\ rpc' = [rpc EXCEPT ![k] = "failed"]
  /\ UNCHANGED <<pending, route, reader, received, send, net, wr, final, data, faults>>

Publish(k) ==
  /\ rpc[k] = "completed" /\ temp # Nobody
  /\ final' = temp /\ temp' = Nobody
  /\ rpc' = [rpc EXCEPT ![k] = "renamed"]
  /\ UNCHANGED <<rprog, pending, route, reader, received, send, net, wr, data, faults>>

(* Neither rename nor copy finds the temp file: the progress entry stays.  *)
PublishFails(k) ==
  /\ rpc[k] = "completed" /\ temp = Nobody
  /\ rpc' = [rpc EXCEPT ![k] = "unpublished"]
  /\ UNCHANGED <<rprog, pending, route, reader, received, send, net, wr, disk, faults>>

(* The acknowledgement goes out before anything looks at the hash.         *)
Ack(k) ==
  /\ rpc[k] = "renamed" /\ Up(k)
  /\ toSnd' = [toSnd EXCEPT ![k] = Append(@, "ack")]
  /\ rprog' = "none"
  /\ received' = received \cup {k}
  /\ rpc' = [rpc EXCEPT ![k] = "done"]
  /\ UNCHANGED <<pending, route, reader, send, alive, cached, toRcv, wire, wr, disk, faults>>

AckFails(k) ==
  /\ rpc[k] = "renamed" /\ ~Up(k)
  /\ rprog' = "none"
  /\ rpc' = [rpc EXCEPT ![k] = "failed"]
  /\ UNCHANGED <<pending, route, reader, received, send, net, wr, disk, faults>>

-----------------------------------------------------------------------------
(* The data streams.                                                       *)

Arrived(k, i) == wire[k][i] # <<>> /\ Up(k)

Consume(k, i) ==
  /\ wire' = [wire EXCEPT ![k][i] = Tail(@)]
  /\ UNCHANGED <<alive, cached, toRcv, toSnd>>

(* The header: clone the sender that data_routes holds now, or give the    *)
(* stream up.                                                              *)
ReadHeader(k, i) ==
  /\ reader[k][i] = Nobody /\ Arrived(k, i) /\ Consume(k, i)
  /\ reader' = [reader EXCEPT ![k][i] =
       IF route[on[k]] = Nobody THEN Stopped ELSE route[on[k]]]
  /\ UNCHANGED <<rpc, rprog, pending, route, received, send, wr, disk, faults>>

Open(k, i) == writer[k][i] \in {"none", "spawned", "first", "next"}

Forward(k, i) ==
  /\ reader[k][i] \in Transfers /\ Arrived(k, i)
  /\ LET t == reader[k][i] IN
       /\ Open(t, i) /\ Len(chan[t][i]) < Cap
       /\ chan' = [chan EXCEPT ![t][i] = Append(@, Head(wire[k][i]))]
  /\ Consume(k, i)
  /\ UNCHANGED <<recv, send, writer, wfile, pos, disk, faults>>

(* The stream ends or the channel is closed.                               *)
ReaderEnds(k, i) ==
  /\ reader[k][i] \in Transfers
  /\ \/ wire[k][i] = <<>> /\ task[k][i] = "ended"
     \/ wire[k][i] # <<>> /\ ~Open(reader[k][i], i)
  /\ reader' = [reader EXCEPT ![k][i] = Stopped]
  /\ UNCHANGED <<rpc, rprog, pending, route, received, send, net, wr, disk, faults>>

OpenTemp(k, i) ==
  /\ writer[k][i] = "spawned"
  /\ IF temp = Nobody
     THEN /\ writer' = [writer EXCEPT ![k][i] = "failed"]
          /\ chan' = [chan EXCEPT ![k][i] = <<>>]
          /\ UNCHANGED wfile
     ELSE /\ writer' = [writer EXCEPT ![k][i] = "first"]
          /\ wfile' = [wfile EXCEPT ![k][i] = temp]
          /\ UNCHANGED chan
  /\ UNCHANGED <<pos, recv, send, net, disk, faults>>

(* Seek for the first chunk only, then write where the last one ended.     *)
(* Mutant: the writer does not seek.                                       *)
WriteChunkUnsought(k, i) ==
  /\ writer[k][i] \in {"first", "next"} /\ chan[k][i] # <<>>
  /\ LET at == pos[k][i] IN
       /\ data' = [data EXCEPT ![wfile[k][i]] =
            [c \in Chunks |-> IF c = at THEN Head(chan[k][i]) ELSE @[c]]]
       /\ pos' = [pos EXCEPT ![k][i] = at + 1]
  /\ writer' = [writer EXCEPT ![k][i] = "next"]
  /\ chan' = [chan EXCEPT ![k][i] = Tail(@)]
  /\ UNCHANGED <<wfile, recv, send, net, temp, final, faults>>

WriteChunk(k, i) ==
  /\ writer[k][i] \in {"first", "next"} /\ chan[k][i] # <<>>
  /\ LET at == IF writer[k][i] = "first" THEN Head(chan[k][i]) ELSE pos[k][i] IN
       /\ data' = [data EXCEPT ![wfile[k][i]] =
            [c \in Chunks |-> IF c = at THEN Head(chan[k][i]) ELSE @[c]]]
       /\ pos' = [pos EXCEPT ![k][i] = IF at = N THEN N ELSE at + 1]
  /\ writer' = [writer EXCEPT ![k][i] = "next"]
  /\ chan' = [chan EXCEPT ![k][i] = Tail(@)]
  /\ UNCHANGED <<wfile, recv, send, net, temp, final, faults>>

WriterFails(k, i) ==
  /\ writer[k][i] \in {"first", "next"} /\ chan[k][i] # <<>>
  /\ faults < MaxFaults /\ faults' = faults + 1
  /\ writer' = [writer EXCEPT ![k][i] = "failed"]
  /\ chan' = [chan EXCEPT ![k][i] = <<>>]
  /\ UNCHANGED <<wfile, pos, recv, send, net, disk>>

Feeds(k, i) == {j \in Transfers : reader[j][i] = k}

(* recv returns None once every sender is gone: the one in data_routes and *)
(* the clones of the readers.                                              *)
WriterEnds(k, i) ==
  /\ writer[k][i] \in {"first", "next"} /\ chan[k][i] = <<>>
  /\ route[on[k]] # k /\ Feeds(k, i) = {}
  /\ writer' = [writer EXCEPT ![k][i] = "ended"]
  /\ UNCHANGED <<chan, wfile, pos, recv, send, net, disk, faults>>

(* What was under way is lost with the connection; the tasks that only     *)
(* read from it or write to it fail at their next operation.               *)
Break ==
  /\ faults < MaxFaults /\ faults' = faults + 1
  /\ \E c \in alive :
       LET cut == {k \in Transfers : on[k] = c} IN
         /\ alive' = alive \ {c}
         /\ toRcv' = [k \in Transfers |-> IF k \in cut THEN <<>> ELSE toRcv[k]]
         /\ toSnd' = [k \in Transfers |-> IF k \in cut THEN <<>> ELSE toSnd[k]]
         /\ wire' = [k \in Transfers |-> [i \in Streams |->
                       IF k \in cut THEN <<>> ELSE wire[k][i]]]
         /\ task' = [k \in Transfers |-> [i \in Streams |->
                       IF k \in cut /\ task[k][i] = "running" THEN "ended" ELSE task[k][i]]]
         /\ reader' = [k \in Transfers |-> [i \in Streams |->
                       IF k \in cut /\ task[k][i] # "none" THEN Stopped ELSE reader[k][i]]]
  /\ UNCHANGED <<cached, spc, sprog, on, opened, next, sent, rpc, rprog, pending, route, received, wr, disk>>

-----------------------------------------------------------------------------
Start(k)    == Reuse(k) \/ Connect(k) \/ ConnectFails(k)
Negotiate(k) == Request(k) \/ RequestFails(k) \/ OnAccepted(k) \/ OnRejected(k)
Stream(k)   == \/ OpenStream(k) \/ OpenFails(k) \/ AllOpened(k)
               \/ Complete(k) \/ OnAck(k) \/ SenderFails(k)
Answer(k)   == Accept(k) \/ Reject(k)
Control(k)  == \/ OnRequest(k) \/ Prepare(k) \/ Respond(k) \/ RespondFails(k)
               \/ Joined(k) \/ OnComplete(k) \/ CompleteLost(k)
               \/ Publish(k) \/ PublishFails(k) \/ Ack(k) \/ AckFails(k)
Reader(k, i) == ReadHeader(k, i) \/ Forward(k, i) \/ ReaderEnds(k, i)
Writer(k, i) == OpenTemp(k, i) \/ WriteChunk(k, i) \/ WriterEnds(k, i)
Tasks(k, i)  == SendChunk(k, i) \/ TaskEnds(k, i)

Next ==
  \/ \E k \in Transfers : Start(k) \/ Negotiate(k) \/ Stream(k) \/ Answer(k) \/ Control(k)
  \/ \E k \in Transfers, i \in Streams :
       Tasks(k, i) \/ Reader(k, i) \/ Writer(k, i) \/ WriterFails(k, i)
  \/ Break

Spec == Init /\ [][Next]_vars

(* The runtime polls every task that is ready.  Nobody has to send,        *)
(* answer a prompt, break a connection or fail.                            *)
FairSpec ==
  /\ Spec
  /\ \A k \in Transfers : WF_vars(Negotiate(k)) /\ WF_vars(Stream(k)) /\ WF_vars(Control(k))
  /\ \A k \in Transfers, i \in Streams :
       WF_vars(Tasks(k, i)) /\ WF_vars(Reader(k, i)) /\ WF_vars(Writer(k, i))

-----------------------------------------------------------------------------
(* When every data stream is open, every chunk is in the range of exactly  *)
(* one of them, also of a file with fewer chunks than streams.             *)
EveryChunkInOneRange ==
  \A k \in Transfers : spc[k] \in {"joining", "waiting"} =>
    \A c \in Chunks :
      \E i \in 0..opened[k] - 1 :
        /\ c \in RangeOf(i, N, NStreams)
        /\ \A j \in 0..opened[k] - 1 : c \in RangeOf(j, N, NStreams) => j = i

Alone == Cardinality({k \in Transfers : rpc[k] \notin {"none", "asking", "accepted", "rejected"}}) <= 1

(* Seeking once per stream is enough: as long as no second transfer of the *)
(* file was let in, every chunk a writer has written is in its place.      *)
ChunksInPlace ==
  Alone => \A f \in Transfers, c \in Chunks : data[f][c] \in {c, Zero}

(* The route is there before the response and stays until the writers have *)
(* ended: a data stream is turned away only after that.                    *)
RouteCovers ==
  Alone => \A k \in Transfers, i \in Streams :
    Up(k) /\ reader[k][i] = Stopped =>
      task[k][i] = "ended" \/ writer[k][i] \in {"failed", "ended"}

(* A file that has its final name is not written to any more.              *)
PublishedStays ==
  [][Alone' /\ final # Nobody => final' = final /\ data'[final] = data[final]]_vars

(* A multi-stream transfer that the receiver accepted ends.                *)
TransferEnds ==
  \A k \in Transfers : spc[k] = "waiting" ~> spc[k] \in SenderOver
=============================================================================
