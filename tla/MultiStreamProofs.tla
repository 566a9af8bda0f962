------------------------- MODULE MultiStreamProofs -------------------------
(***************************************************************************)
(* Proofs about a file sent on several streams, for any number of          *)
(* transfers, chunks, streams, connections and faults and any capacity of  *)
(* the channels.                                                           *)
(*                                                                         *)
(* Alone, once lost, is lost for good: what holds while one transfer only  *)
(* was let in is carried by an invariant of the form Alone => ..., and a   *)
(* step that keeps Alone can use it for the state before.                  *)
(***************************************************************************)
EXTENDS MultiStream, FiniteSetTheorems, TLAPS

-----------------------------------------------------------------------------
(* The partition of the chunks.                                            *)

(* Two ranges with the same step do not overlap.                           *)
LEMMA StepsApart ==
  ASSUME NEW p \in Nat, NEW i \in Nat, NEW j \in Nat, i < j
  PROVE  (i + 1) * p <= j * p
<1>1. PICK d \in Nat : j = i + 1 + d
  <2>1. j - i - 1 \in Nat /\ j = i + 1 + (j - i - 1)
    OBVIOUS
  <2> QED BY <2>1
<1>2. j * p = (i + 1) * p + d * p
  BY <1>1
<1>3. d * p \in Nat /\ (i + 1) * p \in Nat
  OBVIOUS
<1> QED BY <1>2, <1>3

(* A chunk lies between two multiples of the step.                         *)
LEMMA Quotient ==
  ASSUME NEW p \in Nat \ {0}, NEW c \in Nat
  PROVE  /\ c \div p \in Nat
         /\ (c \div p) * p <= c
         /\ c < ((c \div p) + 1) * p
<1>1. p > 0 /\ c \div p \in Int
  OBVIOUS
<1>2. c \div p >= 0
  BY <1>1
<1>3. p * (c \div p) <= c
  BY <1>1
<1>4. c < p * ((c \div p) + 1)
  BY <1>1
<1> QED BY <1>1, <1>2, <1>3, <1>4

(* The step is positive, and as many ranges as streams reach the end.      *)
LEMMA StepCovers ==
  ASSUME NEW total \in Nat \ {0}, NEW n \in Nat \ {0}
  PROVE  PerStream(total, n) \in Nat \ {0} /\ total <= n * PerStream(total, n)
<1> DEFINE q == total + n - 1
           p == q \div n
<1>1. q \in Nat /\ q = total + n - 1
  OBVIOUS
<1> HIDE DEF q
<1>2. p \in Nat /\ q < (p + 1) * n
  BY <1>1, Quotient
<1> HIDE DEF p
<1>3. total <= n * p
  <2>1. (p + 1) * n = n * p + n /\ n * p \in Nat
    BY <1>2
  <2> QED BY <1>1, <1>2, <2>1
<1>4. p > 0
  <2>1. SUFFICES ASSUME p <= 0 PROVE FALSE
    BY <1>2
  <2>2. p = 0
    BY <1>2, <2>1
  <2>3. n * p = 0
    BY <2>2
  <2> QED BY <1>3, <2>3
<1> USE DEF p, q
<1> QED BY <1>2, <1>3, <1>4 DEF PerStream

(* The chunk c is in the range of stream c \div p and in no other.         *)
LEMMA InOneRange ==
  ASSUME NEW total \in Nat \ {0}, NEW n \in Nat \ {0}, NEW m \in 0..n,
         ~(m < n /\ FirstOf(m, total, n) < total),
         NEW c \in 0..total - 1
  PROVE  \E i \in 0..m - 1 :
           /\ c \in RangeOf(i, total, n)
           /\ \A j \in 0..m - 1 : c \in RangeOf(j, total, n) => j = i
<1> DEFINE p == PerStream(total, n)
           i == c \div p
<1>1. p \in Nat \ {0} /\ total <= n * p
  BY StepCovers
<1>2. total <= m * p
  BY <1>1 DEF FirstOf
<1> HIDE DEF p
<1>3. i \in Nat /\ i * p <= c /\ c < (i + 1) * p
  BY <1>1, Quotient
<1> HIDE DEF i
<1>4. i < m
  <2>1. SUFFICES ASSUME m <= i PROVE FALSE
    BY <1>3
  <2>2. m * p <= i * p
    <3>1. CASE m = i
      BY <3>1, <1>1, <1>3
    <3>2. CASE m < i
      <4>1. (m + 1) * p <= i * p
        BY <3>2, <1>1, <1>3, StepsApart
      <4>2. (m + 1) * p = m * p + p /\ m * p \in Nat /\ i * p \in Nat
        BY <1>1, <1>3
      <4> QED BY <4>1, <4>2, <1>1
    <3> QED BY <2>1, <3>1, <3>2, <1>3
  <2>3. i * p \in Nat /\ m * p \in Nat
    BY <1>1, <1>3
  <2> QED BY <1>2, <1>3, <2>2, <2>3
<1>5. \A j \in Nat : c \in RangeOf(j, total, n) <=> j * p <= c /\ c < (j + 1) * p
  <2> TAKE j \in Nat
  <2>1. j * p \in Nat /\ (j + 1) * p \in Nat
    BY <1>1
  <2> QED BY <2>1, <1>1 DEF RangeOf, FirstOf, PastOf, p
<1>6. ASSUME NEW j \in 0..m - 1, c \in RangeOf(j, total, n)
      PROVE  j = i
  <2>1. j \in Nat /\ j * p <= c /\ c < (j + 1) * p
    BY <1>5, <1>6
  <2>2. i * p \in Nat /\ j * p \in Nat /\ (i + 1) * p \in Nat /\ (j + 1) * p \in Nat
    BY <1>1, <1>3, <2>1
  <2>3. ~(i < j)
    <3>1. i < j => (i + 1) * p <= j * p
      BY <1>1, <1>3, <2>1, StepsApart
    <3> QED BY <3>1, <2>1, <2>2, <1>3
  <2>4. ~(j < i)
    <3>1. j < i => (j + 1) * p <= i * p
      BY <1>1, <1>3, <2>1, StepsApart
    <3> QED BY <3>1, <2>1, <2>2, <1>3
  <2> QED BY <2>1, <2>3, <2>4, <1>3
<1>7. i \in 0..m - 1 /\ c \in RangeOf(i, total, n)
  BY <1>3, <1>4, <1>5
<1> QED BY <1>6, <1>7

-----------------------------------------------------------------------------
(* Types.                                                                  *)

LEMMA Ranges ==
  /\ K \in Nat \ {0} /\ N \in Nat \ {0} /\ NStreams \in Nat \ {0, 1}
  /\ Cap \in Nat \ {0} /\ Window \in Nat \ {0} /\ MaxConns \in Nat \ {0}
  /\ MaxFaults \in Nat
  /\ 0 \in Streams
  /\ Nobody \notin Transfers /\ Stopped \notin Transfers /\ Nobody # Stopped
  /\ Transfers \cup {Nobody} \subseteq 0..Stopped /\ Stopped \in 0..Stopped
  /\ Nobody \notin Conns
  /\ Zero \notin Chunks /\ Header \notin Chunks
BY ConstantsOK DEF ConstantsOK, Streams, Transfers, Conns, Chunks, Nobody, Stopped,
                   Zero, Header

(* A chunk of a range is a chunk of the file.                              *)
LEMMA RangeEnds ==
  ASSUME NEW i \in Streams
  PROVE  /\ FirstOf(i, N, NStreams) \in Nat
         /\ PastOf(i, N, NStreams) \in Nat /\ PastOf(i, N, NStreams) <= N
<1>1. N \in Nat \ {0} /\ NStreams \in Nat \ {0} /\ i \in Nat
  BY Ranges DEF Streams
<1>2. PerStream(N, NStreams) \in Nat
  BY <1>1, StepCovers
<1>3. i * PerStream(N, NStreams) \in Nat /\ (i + 1) * PerStream(N, NStreams) \in Nat
  BY <1>1, <1>2
<1> QED BY <1>1, <1>3 DEF FirstOf, PastOf

LEMMA BeforeThePast ==
  ASSUME NEW i \in Streams, NEW n \in 0..N, n < PastOf(i, N, NStreams)
  PROVE  n \in Chunks /\ n \in Nat
<1>1. PastOf(i, N, NStreams) \in Nat /\ PastOf(i, N, NStreams) <= N /\ N \in Nat
  BY RangeEnds, Ranges
<1>2. n \in Nat /\ n < N
  BY <1>1
<1> QED BY <1>1, <1>2 DEF Chunks

-----------------------------------------------------------------------------
(* The inductive invariant, in parts.                                      *)

Unanswered == {"none", "asking", "accepted", "rejected"}
Past       == {"joined", "completed", "renamed", "done", "failed", "unpublished"}
LetIn      == {k \in Transfers : rpc[k] \notin Unanswered}

(* A connection is never made twice; a transfer the receiver knows of has  *)
(* one.                                                                    *)
Linked ==
  /\ alive \subseteq 1..cached
  /\ \A k \in Transfers :
       /\ on[k] \in 0..cached
       /\ rpc[k] # "none" \/ toRcv[k] # <<>> =>
            spc[k] \notin {"idle", "connected"} /\ on[k] # Nobody
       /\ spc[k] = "connected" => on[k] # Nobody

(* Nothing is opened before the receiver has spawned its writers.          *)
AcceptedFirst ==
  \A k \in Transfers :
    (\/ spc[k] \in {"opening", "joining", "waiting", "done"}
     \/ opened[k] > 0
     \/ \E n \in DOMAIN toSnd[k] : toSnd[k][n] = "accepted")
      => \A i \in Streams : writer[k][i] # "none"

EveryStreamOpened ==
  \A k \in Transfers : spc[k] \in {"joining", "waiting"} => ~MoreStreams(k)

StreamsOpened ==
  \A k \in Transfers, i \in Streams :
    /\ task[k][i] # "none" => i < opened[k]
    /\ wire[k][i] # <<>> \/ reader[k][i] # Nobody => task[k][i] # "none"
    /\ reader[k][i] = Nobody /\ task[k][i] # "none" => wire[k][i] # <<>>

(* The writers run while the handler joins them.                           *)
WritersLive ==
  \A k \in Transfers, i \in Streams :
    /\ rpc[k] \in Unanswered \cup {"prepared"} => writer[k][i] = "none"
    /\ rpc[k] = "joining" => writer[k][i] # "none"
    /\ rpc[k] \in Past => writer[k][i] \in {"none", "failed", "ended"}

RoutesLetIn ==
  /\ \A c \in Conns : route[c] # Nobody => route[c] \in LetIn
  /\ \A k \in Transfers, i \in Streams :
       reader[k][i] \in Transfers => reader[k][i] \in LetIn

(* What is under way on a data stream is the header, until it is read, and *)
(* the chunks up to the one the task sends next.                           *)
WireInOrder ==
  \A k \in Transfers, i \in Streams : reader[k][i] # Stopped =>
    \A n \in DOMAIN wire[k][i] :
      wire[k][i][n] = IF n = 1 /\ reader[k][i] = Nobody THEN Header
                      ELSE next[k][i] + n - 1 - Len(wire[k][i])

FinalPublished ==
  final # Nobody => \E k \in Transfers : rpc[k] \in {"renamed", "done", "failed"}

(* While one transfer only was let in: its route is there ...              *)
RouteStays ==
  \A k \in Transfers : rpc[k] \in {"prepared", "joining"} => route[on[k]] = k

(* ... and each channel continues what its writer has written, and the     *)
(* wire continues the channel.                                             *)
ChanInOrder ==
  \A k \in Transfers, i \in Streams :
    /\ \A n \in 1..Len(chan[k][i]) - 1 : chan[k][i][n + 1] = chan[k][i][n] + 1
    /\ writer[k][i] = "next" /\ chan[k][i] # <<>> => chan[k][i][1] = pos[k][i]
    /\ reader[k][i] = Nobody => chan[k][i] = <<>> /\ writer[k][i] # "next"
    /\ reader[k][i] \in Transfers /\ Open(k, i) =>
         /\ chan[k][i] # <<>> =>
              chan[k][i][Len(chan[k][i])] + Len(wire[k][i]) + 1 = next[k][i]
         /\ chan[k][i] = <<>> /\ writer[k][i] = "next" =>
              pos[k][i] + Len(wire[k][i]) = next[k][i]

Covered ==
  \A k \in Transfers, i \in Streams :
    Up(k) /\ reader[k][i] = Stopped =>
      task[k][i] = "ended" \/ writer[k][i] \in {"failed", "ended"}

InPlace == \A f \in Transfers, c \in Chunks : data[f][c] \in {c, Zero}

Always == /\ TypeOK /\ Linked /\ AcceptedFirst /\ EveryStreamOpened
          /\ StreamsOpened /\ WritersLive /\ RoutesLetIn /\ WireInOrder /\ FinalPublished
WhenAlone == RouteStays /\ ChanInOrder /\ Covered /\ InPlace

IInv == Always /\ (Alone => WhenAlone)

-----------------------------------------------------------------------------
(* A function of functions, changed in one place.                          *)
LEMMA Changed ==
  ASSUME NEW A, NEW B, NEW S, NEW f \in [A -> [B -> S]],
         NEW a \in A, NEW b \in B, NEW v
  PROVE  /\ v \in S => [f EXCEPT ![a][b] = v] \in [A -> [B -> S]]
         /\ \A x \in A, y \in B :
              [f EXCEPT ![a][b] = v][x][y] = IF x = a /\ y = b THEN v ELSE f[x][y]
OBVIOUS

(* The head and the tail of a sequence.                                    *)
LEMMA Taking ==
  ASSUME NEW S, NEW q \in Seq(S), q # <<>>
  PROVE  /\ Len(q) \in Nat \ {0} /\ Head(q) = q[1] /\ Head(q) \in S
         /\ Tail(q) \in Seq(S) /\ Len(Tail(q)) = Len(q) - 1
         /\ \A n \in 1..Len(q) - 1 : Tail(q)[n] = q[n + 1]
OBVIOUS

LEMMA Appending ==
  ASSUME NEW S, NEW q \in Seq(S), NEW e \in S
  PROVE  /\ Append(q, e) \in Seq(S) /\ Append(q, e) # <<>>
         /\ Len(Append(q, e)) = Len(q) + 1
         /\ Append(q, e)[Len(q) + 1] = e
         /\ \A n \in 1..Len(q) : Append(q, e)[n] = q[n]
OBVIOUS

(* What a data stream carries after its header is a chunk of the file.     *)
LEMMA CarriesChunks ==
  ASSUME TypeOK, WireInOrder, NEW k \in Transfers, NEW i \in Streams,
         reader[k][i] \in Transfers, wire[k][i] # <<>>
  PROVE  Head(wire[k][i]) \in Chunks
<1>1. wire[k][i] \in Seq(Chunks \cup {Header}) /\ next[k][i] \in 0..N
  BY DEF TypeOK
<1>2. /\ Len(wire[k][i]) \in Nat \ {0} /\ Head(wire[k][i]) = wire[k][i][1]
      /\ Head(wire[k][i]) \in Chunks \cup {Header}
      /\ 1 \in DOMAIN wire[k][i]
  BY <1>1, Taking
<1>3. reader[k][i] # Nobody /\ reader[k][i] # Stopped
  BY Ranges
<1>4. wire[k][i][1] = next[k][i] - Len(wire[k][i])
  BY <1>1, <1>2, <1>3 DEF WireInOrder
<1>5. Head(wire[k][i]) # N
  BY <1>1, <1>2, <1>4, Ranges
<1> QED BY <1>2, <1>5 DEF Header

(* Types, by who holds the state.                                          *)
SendTypes ==
  /\ spc \in [Transfers -> {"idle", "connected", "requested", "opening",
                            "joining", "waiting"} \cup SenderOver]
  /\ sprog \in {"none", "queued", "active", "error"}
  /\ on \in [Transfers -> Conns \cup {Nobody}]
  /\ opened \in [Transfers -> 0..NStreams]
  /\ task \in [Transfers -> [Streams -> {"none", "running", "ended"}]]
  /\ next \in [Transfers -> [Streams -> 0..N]]
  /\ sent \subseteq Transfers
NetTypes ==
  /\ alive \subseteq Conns
  /\ cached \in Conns \cup {Nobody}
  /\ toRcv \in [Transfers -> Seq({"request", "complete"})]
  /\ toSnd \in [Transfers -> Seq({"accepted", "rejected", "ack"})]
  /\ wire \in [Transfers -> [Streams -> Seq(Chunks \cup {Header})]]
  /\ \A k \in Transfers, i \in Streams : Len(wire[k][i]) <= Window
RecvTypes ==
  /\ rpc \in [Transfers -> {"none", "asking", "accepted", "prepared", "joining",
                            "joined", "completed", "renamed"} \cup ReceiverOver]
  /\ rprog \in {"none", "pending", "active"}
  /\ pending \in Transfers \cup {Nobody}
  /\ route \in [Conns -> Transfers \cup {Nobody}]
  /\ reader \in [Transfers -> [Streams -> 0..Stopped]]
  /\ received \subseteq Transfers
WriteTypes ==
  /\ chan \in [Transfers -> [Streams -> Seq(Chunks)]]
  /\ \A k \in Transfers, i \in Streams : Len(chan[k][i]) <= Cap
  /\ writer \in [Transfers -> [Streams -> {"none", "spawned", "first", "next",
                                           "failed", "ended"}]]
  /\ wfile \in [Transfers -> [Streams -> Transfers \cup {Nobody}]]
  /\ pos \in [Transfers -> [Streams -> 0..N]]
DiskTypes ==
  /\ temp \in Transfers \cup {Nobody}
  /\ final \in Transfers \cup {Nobody}
  /\ data \in [Transfers -> [Chunks -> Chunks \cup {Zero}]]

LEMMA TypeParts ==
  TypeOK <=> /\ SendTypes /\ NetTypes /\ RecvTypes /\ WriteTypes /\ DiskTypes
             /\ faults \in 0..MaxFaults
BY DEF TypeOK, SendTypes, NetTypes, RecvTypes, WriteTypes, DiskTypes

(* A message is taken from a data stream.                                  *)
LEMMA Consumed ==
  ASSUME NetTypes, NEW k \in Transfers, NEW i \in Streams, wire[k][i] # <<>>,
         Consume(k, i)
  PROVE  NetTypes'
<1> DEFINE v == Tail(wire[k][i])
<1>1. /\ wire \in [Transfers -> [Streams -> Seq(Chunks \cup {Header})]]
      /\ \A j \in Transfers, l \in Streams : Len(wire[j][l]) <= Window
  BY DEF NetTypes
<1>2. v \in Seq(Chunks \cup {Header}) /\ Len(v) <= Window
  <2>1. wire[k][i] \in Seq(Chunks \cup {Header}) /\ Len(wire[k][i]) <= Window
    BY <1>1
  <2>2. v \in Seq(Chunks \cup {Header}) /\ Len(v) = Len(wire[k][i]) - 1
        /\ Len(wire[k][i]) \in Nat
    BY <2>1, Taking
  <2> QED BY <2>1, <2>2, Ranges
<1>3. wire' = [wire EXCEPT ![k][i] = v] /\ UNCHANGED <<alive, cached, toRcv, toSnd>>
  BY DEF Consume
<1> HIDE DEF v
<1>4. /\ wire' \in [Transfers -> [Streams -> Seq(Chunks \cup {Header})]]
      /\ \A j \in Transfers, l \in Streams : Len(wire'[j][l]) <= Window
  BY <1>1, <1>2, <1>3
<1> QED BY <1>3, <1>4 DEF NetTypes

(* A channel is dropped.                                                   *)
LEMMA Emptied ==
  ASSUME WriteTypes, NEW k \in Transfers, NEW i \in Streams,
         chan' = [chan EXCEPT ![k][i] = <<>>]
  PROVE  /\ chan' \in [Transfers -> [Streams -> Seq(Chunks)]]
         /\ \A j \in Transfers, l \in Streams : Len(chan'[j][l]) <= Cap
<1>1. <<>> \in Seq(Chunks) /\ Len(<<>>) <= Cap
  BY Ranges
<1>2. /\ chan \in [Transfers -> [Streams -> Seq(Chunks)]]
      /\ \A j \in Transfers, l \in Streams : Len(chan[j][l]) <= Cap
  BY DEF WriteTypes
<1>3. chan' \in [Transfers -> [Streams -> Seq(Chunks)]]
  BY <1>1, <1>2
<1>4. \A j \in Transfers, l \in Streams : chan'[j][l] = <<>> \/ chan'[j][l] = chan[j][l]
  BY <1>2
<1> QED BY <1>1, <1>2, <1>3, <1>4

LEMMA TypesKept ==
  ASSUME TypeOK, WireInOrder, [Next]_vars
  PROVE  TypeOK'
<1>a. /\ SendTypes /\ NetTypes /\ RecvTypes /\ WriteTypes /\ DiskTypes
      /\ faults \in 0..MaxFaults
  BY TypeParts
<1>b. SUFFICES /\ SendTypes' /\ NetTypes' /\ RecvTypes' /\ WriteTypes' /\ DiskTypes'
               /\ faults' \in 0..MaxFaults
  BY DEF TypeOK, SendTypes, NetTypes, RecvTypes, WriteTypes, DiskTypes
<1>c. /\ UNCHANGED send => SendTypes'
      /\ UNCHANGED net => NetTypes'
      /\ UNCHANGED recv => RecvTypes'
      /\ UNCHANGED wr => WriteTypes'
      /\ UNCHANGED disk => DiskTypes'
      /\ UNCHANGED faults => faults' \in 0..MaxFaults
  <2>1. UNCHANGED send => SendTypes'
    BY <1>a DEF SendTypes, send
  <2>2. UNCHANGED net => NetTypes'
    BY <1>a DEF NetTypes, net
  <2>3. UNCHANGED recv => RecvTypes'
    BY <1>a DEF RecvTypes, recv
  <2>4. UNCHANGED wr => WriteTypes'
    BY <1>a DEF WriteTypes, wr
  <2>5. UNCHANGED disk => DiskTypes'
    BY <1>a DEF DiskTypes, disk
  <2> QED BY <1>a, <2>1, <2>2, <2>3, <2>4, <2>5
<1>0. CASE UNCHANGED vars
  BY <1>0, <1>c DEF vars
<1>1. ASSUME NEW k \in Transfers,
             Start(k) \/ Negotiate(k) \/ Stream(k) \/ Answer(k) \/ Control(k)
      PROVE  /\ SendTypes' /\ NetTypes' /\ RecvTypes' /\ WriteTypes' /\ DiskTypes'
             /\ faults' \in 0..MaxFaults
  <2>1. CASE Reuse(k)
    <3>1. cached \in Conns
      BY <1>a, <2>1 DEF Reuse, NetTypes
    <3>2. SendTypes'
      BY <1>a, <2>1, <3>1, Ranges DEF Reuse, SendTypes, SenderOver
    <3> QED BY <3>1, <3>2, <1>c, <2>1 DEF Reuse
  <2>2. CASE Connect(k)
    <3>1. SendTypes'
      BY <1>a, <2>2, Ranges DEF Connect, SendTypes, SenderOver
    <3>2. NetTypes'
      BY <1>a, <2>2, Ranges DEF Connect, NetTypes
    <3> QED BY <3>1, <3>2, <1>c, <2>2 DEF Connect
  <2>3. CASE ConnectFails(k)
    <3>1. SendTypes'
      BY <1>a, <2>3, Ranges DEF ConnectFails, SendTypes, SenderOver
    <3>2. faults' \in 0..MaxFaults
      BY <1>a, <2>3, Ranges DEF ConnectFails
    <3> QED BY <3>1, <3>2, <1>c, <2>3 DEF ConnectFails
  <2>4. CASE Request(k)
    <3>1. SendTypes'
      BY <1>a, <2>4, Ranges DEF Request, SendTypes, SenderOver
    <3>2. NetTypes'
      BY <1>a, <2>4, Ranges DEF Request, NetTypes
    <3> QED BY <3>1, <3>2, <1>c, <2>4 DEF Request
  <2>5. CASE RequestFails(k)
    <3>1. SendTypes'
      BY <1>a, <2>5, Ranges DEF RequestFails, Marked, SendTypes, SenderOver
    <3> QED BY <3>1, <1>c, <2>5 DEF RequestFails
  <2>6. CASE OnAccepted(k)
    <3>1. SendTypes'
      BY <1>a, <2>6, Ranges DEF OnAccepted, Answered, Marked, SendTypes, SenderOver
    <3>2. NetTypes'
      BY <1>a, <2>6, Ranges DEF OnAccepted, Answered, Marked, NetTypes
    <3> QED BY <3>1, <3>2, <1>c, <2>6 DEF OnAccepted, Answered
  <2>7. CASE OnRejected(k)
    <3>1. SendTypes'
      BY <1>a, <2>7, Ranges DEF OnRejected, Answered, SendTypes, SenderOver
    <3>2. NetTypes'
      BY <1>a, <2>7, Ranges DEF OnRejected, Answered, NetTypes
    <3> QED BY <3>1, <3>2, <1>c, <2>7 DEF OnRejected, Answered
  <2>8. CASE OpenStream(k)
    <3>1. SendTypes'
      <4> DEFINE i == opened[k]
      <4>1. /\ spc \in [Transfers -> {"idle", "connected", "requested", "opening",
                            "joining", "waiting"} \cup SenderOver]
            /\ opened \in [Transfers -> 0..NStreams]
            /\ task \in [Transfers -> [Streams -> {"none", "running", "ended"}]]
            /\ next \in [Transfers -> [Streams -> 0..N]]
        BY <1>a DEF SendTypes
      <4>2. i \in Streams /\ i + 1 \in 0..NStreams
        BY <4>1, <2>8, Ranges DEF OpenStream, MoreStreams, Streams
      <4>3. FirstOf(i, N, NStreams) \in 0..N
        <5>1. FirstOf(i, N, NStreams) \in Nat
          BY <4>2, RangeEnds
        <5>2. FirstOf(i, N, NStreams) < N
          BY <2>8 DEF OpenStream, MoreStreams
        <5> QED BY <5>1, <5>2, Ranges
      <4> HIDE DEF i
      <4>4. /\ task' = [task EXCEPT ![k][i] = "running"]
            /\ next' = [next EXCEPT ![k][i] = FirstOf(i, N, NStreams)]
            /\ opened' = [opened EXCEPT ![k] = i + 1]
            /\ UNCHANGED <<spc, sprog, on, sent>>
        BY <2>8 DEF OpenStream, i
      <4>5. task' \in [Transfers -> [Streams -> {"none", "running", "ended"}]]
        BY <4>1, <4>2, <4>4
      <4>6. next' \in [Transfers -> [Streams -> 0..N]]
        BY <4>1, <4>2, <4>3, <4>4
      <4>7. opened' \in [Transfers -> 0..NStreams]
        BY <4>1, <4>2, <4>4
      <4> QED BY <1>a, <4>4, <4>5, <4>6, <4>7 DEF SendTypes
    <3>2. NetTypes'
      <4> DEFINE i == opened[k]
                 v == <<Header>>
      <4>1. /\ wire \in [Transfers -> [Streams -> Seq(Chunks \cup {Header})]]
            /\ \A j \in Transfers, l \in Streams : Len(wire[j][l]) <= Window
        BY <1>a DEF NetTypes
      <4>2. i \in Streams
        BY <1>a, <2>8, Ranges DEF OpenStream, MoreStreams, Streams, SendTypes
      <4>3. v \in Seq(Chunks \cup {Header}) /\ Len(v) <= Window
        BY Ranges
      <4>4. wire' = [wire EXCEPT ![k][i] = v] /\ UNCHANGED <<alive, cached, toRcv, toSnd>>
        BY <2>8 DEF OpenStream
      <4> HIDE DEF i, v
      <4>5. /\ wire' \in [Transfers -> [Streams -> Seq(Chunks \cup {Header})]]
            /\ \A j \in Transfers, l \in Streams : Len(wire'[j][l]) <= Window
        BY <4>1, <4>2, <4>3, <4>4
      <4> QED BY <1>a, <4>4, <4>5 DEF NetTypes
    <3> QED BY <3>1, <3>2, <1>c, <2>8 DEF OpenStream
  <2>9. CASE OpenFails(k)
    <3>1. SendTypes'
      BY <1>a, <2>9, Ranges DEF OpenFails, SendTypes, SenderOver
    <3> QED BY <3>1, <1>c, <2>9 DEF OpenFails
  <2>10. CASE AllOpened(k)
    <3>1. SendTypes'
      BY <1>a, <2>10, Ranges DEF AllOpened, SendTypes, SenderOver
    <3> QED BY <3>1, <1>c, <2>10 DEF AllOpened
  <2>11. CASE Complete(k)
    <3>1. SendTypes'
      BY <1>a, <2>11, Ranges DEF Complete, SendTypes, SenderOver
    <3>2. NetTypes'
      BY <1>a, <2>11, Ranges DEF Complete, NetTypes
    <3> QED BY <3>1, <3>2, <1>c, <2>11 DEF Complete
  <2>12. CASE OnAck(k)
    <3>1. SendTypes'
      BY <1>a, <2>12, Ranges DEF OnAck, Answered, SendTypes, SenderOver
    <3>2. NetTypes'
      BY <1>a, <2>12, Ranges DEF OnAck, Answered, NetTypes
    <3> QED BY <3>1, <3>2, <1>c, <2>12 DEF OnAck, Answered
  <2>13. CASE SenderFails(k)
    <3>1. SendTypes'
      BY <1>a, <2>13, Ranges DEF SenderFails, SendTypes, SenderOver
    <3> QED BY <3>1, <1>c, <2>13 DEF SenderFails
  <2>14. CASE Accept(k)
    <3>1. RecvTypes'
      BY <1>a, <2>14, Ranges DEF Accept, RecvTypes, ReceiverOver
    <3> QED BY <3>1, <1>c, <2>14 DEF Accept
  <2>15. CASE Reject(k)
    <3>1. NetTypes'
      <4>1. <<"rejected">> \in Seq({"accepted", "rejected", "ack"})
        OBVIOUS
      <4>2. toSnd' \in [Transfers -> Seq({"accepted", "rejected", "ack"})]
        BY <1>a, <2>15, <4>1 DEF Reject, NetTypes
      <4> QED BY <1>a, <2>15, <4>2 DEF Reject, NetTypes
    <3>2. RecvTypes'
      BY <1>a, <2>15, Ranges DEF Reject, RecvTypes, ReceiverOver
    <3> QED BY <3>1, <3>2, <1>c, <2>15 DEF Reject
  <2>16. CASE OnRequest(k)
    <3>1. NetTypes'
      BY <1>a, <2>16, Ranges DEF OnRequest, Taken, NetTypes
    <3>2. RecvTypes'
      BY <1>a, <2>16, Ranges DEF OnRequest, Taken, RecvTypes, ReceiverOver
    <3> QED BY <3>1, <3>2, <1>c, <2>16 DEF OnRequest, Taken
  <2>17. CASE Prepare(k)
    <3>1. RecvTypes'
      BY <1>a, <2>17, Ranges DEF Prepare, Blank, RecvTypes, ReceiverOver
    <3>2. DiskTypes'
      BY <1>a, <2>17, Ranges DEF Prepare, Blank, DiskTypes
    <3> QED BY <3>1, <3>2, <1>c, <2>17 DEF Prepare
  <2>18. CASE Respond(k)
    <3>1. NetTypes'
      BY <1>a, <2>18, Ranges DEF Respond, NetTypes
    <3>2. RecvTypes'
      BY <1>a, <2>18, Ranges DEF Respond, RecvTypes, ReceiverOver
    <3>3. WriteTypes'
      BY <1>a, <2>18, Ranges DEF Respond, WriteTypes
    <3> QED BY <3>1, <3>2, <3>3, <1>c, <2>18 DEF Respond
  <2>19. CASE RespondFails(k)
    <3>1. RecvTypes'
      BY <1>a, <2>19, Ranges DEF RespondFails, RecvTypes, ReceiverOver
    <3>2. DiskTypes'
      BY <1>a, <2>19, Ranges DEF RespondFails, DiskTypes
    <3> QED BY <3>1, <3>2, <1>c, <2>19 DEF RespondFails
  <2>20. CASE Joined(k)
    <3>1. RecvTypes'
      BY <1>a, <2>20, Ranges DEF Joined, RecvTypes, ReceiverOver
    <3> QED BY <3>1, <1>c, <2>20 DEF Joined
  <2>21. CASE OnComplete(k)
    <3>1. NetTypes'
      BY <1>a, <2>21, Ranges DEF OnComplete, Taken, NetTypes
    <3>2. RecvTypes'
      BY <1>a, <2>21, Ranges DEF OnComplete, Taken, RecvTypes, ReceiverOver
    <3> QED BY <3>1, <3>2, <1>c, <2>21 DEF OnComplete, Taken
  <2>22. CASE CompleteLost(k)
    <3>1. RecvTypes'
      BY <1>a, <2>22, Ranges DEF CompleteLost, RecvTypes, ReceiverOver
    <3>2. DiskTypes'
      BY <1>a, <2>22, Ranges DEF CompleteLost, DiskTypes
    <3> QED BY <3>1, <3>2, <1>c, <2>22 DEF CompleteLost
  <2>23. CASE Publish(k)
    <3>1. RecvTypes'
      BY <1>a, <2>23, Ranges DEF Publish, RecvTypes, ReceiverOver
    <3>2. DiskTypes'
      BY <1>a, <2>23, Ranges DEF Publish, DiskTypes
    <3> QED BY <3>1, <3>2, <1>c, <2>23 DEF Publish
  <2>24. CASE PublishFails(k)
    <3>1. RecvTypes'
      BY <1>a, <2>24, Ranges DEF PublishFails, RecvTypes, ReceiverOver
    <3> QED BY <3>1, <1>c, <2>24 DEF PublishFails
  <2>25. CASE Ack(k)
    <3>1. NetTypes'
      BY <1>a, <2>25, Ranges DEF Ack, NetTypes
    <3>2. RecvTypes'
      BY <1>a, <2>25, Ranges DEF Ack, RecvTypes, ReceiverOver
    <3> QED BY <3>1, <3>2, <1>c, <2>25 DEF Ack
  <2>26. CASE AckFails(k)
    <3>1. RecvTypes'
      BY <1>a, <2>26, Ranges DEF AckFails, RecvTypes, ReceiverOver
    <3> QED BY <3>1, <1>c, <2>26 DEF AckFails
  <2> QED BY <1>1, <2>1, <2>2, <2>3, <2>4, <2>5, <2>6, <2>7, <2>8, <2>9,
            <2>10, <2>11, <2>12, <2>13, <2>14, <2>15, <2>16, <2>17, <2>18,
            <2>19, <2>20, <2>21, <2>22, <2>23, <2>24, <2>25, <2>26
          DEF Start, Negotiate, Stream, Answer, Control
<1>2. ASSUME NEW k \in Transfers, NEW i \in Streams,
             Tasks(k, i) \/ Reader(k, i) \/ Writer(k, i) \/ WriterFails(k, i)
      PROVE  /\ SendTypes' /\ NetTypes' /\ RecvTypes' /\ WriteTypes' /\ DiskTypes'
             /\ faults' \in 0..MaxFaults
  <2>1. CASE SendChunk(k, i)
    <3>1. SendTypes'
      <4>1. next \in [Transfers -> [Streams -> 0..N]]
        BY <1>a DEF SendTypes
      <4>2. next[k][i] + 1 \in 0..N
        <5>1. next[k][i] \in 0..N /\ next[k][i] < PastOf(i, N, NStreams)
          BY <4>1, <2>1 DEF SendChunk
        <5> QED BY <5>1, RangeEnds, Ranges
      <4>3. next' = [next EXCEPT ![k][i] = next[k][i] + 1]
        BY <2>1 DEF SendChunk
      <4>4. next' \in [Transfers -> [Streams -> 0..N]]
        BY <4>1, <4>2, <4>3
      <4> QED BY <1>a, <2>1, <4>4 DEF SendChunk, SendTypes
    <3>2. NetTypes'
      <4> DEFINE v == Append(wire[k][i], next[k][i])
      <4>1. /\ wire \in [Transfers -> [Streams -> Seq(Chunks \cup {Header})]]
            /\ \A j \in Transfers, l \in Streams : Len(wire[j][l]) <= Window
        BY <1>a DEF NetTypes
      <4>2. next[k][i] \in Chunks
        <5>1. next[k][i] \in 0..N /\ next[k][i] < PastOf(i, N, NStreams)
          BY <1>a, <2>1 DEF SendChunk, SendTypes
        <5> QED BY <5>1, RangeEnds, Ranges DEF Chunks
      <4>3. wire[k][i] \in Seq(Chunks \cup {Header}) /\ Len(wire[k][i]) < Window
        BY <4>1, <2>1 DEF SendChunk
      <4>4. v \in Seq(Chunks \cup {Header}) /\ Len(v) <= Window
        BY <4>2, <4>3, Ranges
      <4>5. wire' = [wire EXCEPT ![k][i] = v] /\ UNCHANGED <<alive, cached, toRcv, toSnd>>
        BY <2>1 DEF SendChunk
      <4> HIDE DEF v
      <4>6. /\ wire' \in [Transfers -> [Streams -> Seq(Chunks \cup {Header})]]
            /\ \A j \in Transfers, l \in Streams : Len(wire'[j][l]) <= Window
        BY <4>1, <4>4, <4>5
      <4> QED BY <1>a, <4>5, <4>6 DEF NetTypes
    <3> QED BY <3>1, <3>2, <1>c, <2>1 DEF SendChunk
  <2>2. CASE TaskEnds(k, i)
    <3>1. SendTypes'
      <4>1. task' \in [Transfers -> [Streams -> {"none", "running", "ended"}]]
        BY <1>a, <2>2 DEF TaskEnds, SendTypes
      <4> QED BY <1>a, <2>2, <4>1 DEF TaskEnds, SendTypes
    <3> QED BY <3>1, <1>c, <2>2 DEF TaskEnds
  <2>3. CASE ReadHeader(k, i)
    <3>1. NetTypes'
      BY <1>a, <2>3, Consumed DEF ReadHeader, Arrived
    <3>2. RecvTypes'
      <4>1. on[k] \in Conns
        BY <1>a, <2>3 DEF ReadHeader, Arrived, Up, NetTypes
      <4>2. reader \in [Transfers -> [Streams -> 0..Stopped]]
        BY <1>a DEF RecvTypes
      <4>3. PICK v \in 0..Stopped : reader' = [reader EXCEPT ![k][i] = v]
        <5>1. (IF route[on[k]] = Nobody THEN Stopped ELSE route[on[k]]) \in 0..Stopped
          BY <1>a, <4>1, Ranges DEF RecvTypes
        <5> QED BY <5>1, <2>3 DEF ReadHeader
      <4>4. reader' \in [Transfers -> [Streams -> 0..Stopped]]
        BY <4>2, <4>3
      <4> QED BY <1>a, <2>3, <4>4 DEF ReadHeader, RecvTypes
    <3> QED BY <3>1, <3>2, <1>c, <2>3 DEF ReadHeader, Consume
  <2>4. CASE Forward(k, i)
    <3>1. NetTypes'
      BY <1>a, <2>4, Consumed DEF Forward, Arrived
    <3>2. WriteTypes'
      <4> DEFINE t == reader[k][i]
                 v == Append(chan[t][i], Head(wire[k][i]))
      <4>1. /\ chan \in [Transfers -> [Streams -> Seq(Chunks)]]
            /\ \A j \in Transfers, l \in Streams : Len(chan[j][l]) <= Cap
        BY <1>a DEF WriteTypes
      <4>2. t \in Transfers /\ Len(chan[t][i]) < Cap /\ wire[k][i] # <<>>
        BY <2>4 DEF Forward, Arrived
      <4>3. Head(wire[k][i]) \in Chunks
        BY <4>2, CarriesChunks
      <4>4. v \in Seq(Chunks) /\ Len(v) <= Cap
        BY <4>1, <4>2, <4>3, Ranges
      <4>5. chan' = [chan EXCEPT ![t][i] = v] /\ UNCHANGED <<writer, wfile, pos>>
        BY <2>4 DEF Forward
      <4> HIDE DEF t, v
      <4>6. /\ chan' \in [Transfers -> [Streams -> Seq(Chunks)]]
            /\ \A j \in Transfers, l \in Streams : Len(chan'[j][l]) <= Cap
        BY <4>1, <4>2, <4>4, <4>5
      <4> QED BY <1>a, <4>5, <4>6 DEF WriteTypes
    <3> QED BY <3>1, <3>2, <1>c, <2>4 DEF Forward, Consume
  <2>5. CASE ReaderEnds(k, i)
    <3>1. RecvTypes'
      <4>1. reader \in [Transfers -> [Streams -> 0..Stopped]]
        BY <1>a DEF RecvTypes
      <4>2. reader' = [reader EXCEPT ![k][i] = Stopped]
        BY <2>5 DEF ReaderEnds
      <4>3. reader' \in [Transfers -> [Streams -> 0..Stopped]]
        BY <4>1, <4>2, Ranges
      <4> QED BY <1>a, <2>5, <4>3 DEF ReaderEnds, RecvTypes
    <3> QED BY <3>1, <1>c, <2>5 DEF ReaderEnds
  <2>6. CASE OpenTemp(k, i)
    <3>1. WriteTypes'
      <4>1. CASE temp = Nobody
        <5>1. writer' \in [Transfers -> [Streams -> {"none", "spawned", "first", "next",
                                                     "failed", "ended"}]]
          <6>1. writer' = [writer EXCEPT ![k][i] = "failed"]
            BY <2>6, <4>1 DEF OpenTemp
          <6> QED BY <1>a, <6>1 DEF WriteTypes
        <5>2. chan' = [chan EXCEPT ![k][i] = <<>>] /\ UNCHANGED <<wfile, pos>>
          BY <2>6, <4>1 DEF OpenTemp
        <5> QED BY <1>a, <5>1, <5>2, Emptied DEF WriteTypes
      <4>2. CASE temp # Nobody
        <5>1. writer' \in [Transfers -> [Streams -> {"none", "spawned", "first", "next",
                                                     "failed", "ended"}]]
          <6>1. writer' = [writer EXCEPT ![k][i] = "first"]
            BY <2>6, <4>2 DEF OpenTemp
          <6> QED BY <1>a, <6>1 DEF WriteTypes
        <5>2. temp \in Transfers /\ wfile' = [wfile EXCEPT ![k][i] = temp]
              /\ UNCHANGED <<chan, pos>>
          BY <1>a, <2>6, <4>2 DEF OpenTemp, DiskTypes
        <5>3. wfile' \in [Transfers -> [Streams -> Transfers \cup {Nobody}]]
          BY <1>a, <5>2 DEF WriteTypes
        <5> QED BY <1>a, <5>1, <5>2, <5>3 DEF WriteTypes
      <4> QED BY <4>1, <4>2
    <3> QED BY <3>1, <1>c, <2>6 DEF OpenTemp
  <2>7. CASE WriteChunk(k, i)
    <3>1. WriteTypes'
      <4> DEFINE at == IF writer[k][i] = "first" THEN Head(chan[k][i]) ELSE pos[k][i]
                 p  == IF at = N THEN N ELSE at + 1
                 v  == Tail(chan[k][i])
      <4>1. /\ chan \in [Transfers -> [Streams -> Seq(Chunks)]]
            /\ \A j \in Transfers, l \in Streams : Len(chan[j][l]) <= Cap
            /\ writer \in [Transfers -> [Streams -> {"none", "spawned", "first", "next",
                                                     "failed", "ended"}]]
            /\ pos \in [Transfers -> [Streams -> 0..N]]
        BY <1>a DEF WriteTypes
      <4>2. /\ Head(chan[k][i]) \in Chunks /\ v \in Seq(Chunks) /\ Len(v) <= Cap
        <5>1. chan[k][i] \in Seq(Chunks) /\ chan[k][i] # <<>> /\ Len(chan[k][i]) <= Cap
          BY <4>1, <2>7 DEF WriteChunk
        <5>2. /\ Head(chan[k][i]) \in Chunks /\ v \in Seq(Chunks)
              /\ Len(v) = Len(chan[k][i]) - 1 /\ Len(chan[k][i]) \in Nat
          BY <5>1, Taking
        <5> QED BY <5>1, <5>2, Ranges
      <4>3. p \in 0..N
        <5>1. at \in 0..N
          <6>1. pos[k][i] \in 0..N
            BY <4>1
          <6>2. Head(chan[k][i]) \in 0..N
            BY <4>2, Ranges DEF Chunks
          <6> QED BY <6>1, <6>2
        <5> HIDE DEF at
        <5> QED BY <5>1, Ranges
      <4>4. /\ chan' = [chan EXCEPT ![k][i] = v] /\ pos' = [pos EXCEPT ![k][i] = p]
            /\ writer' = [writer EXCEPT ![k][i] = "next"] /\ UNCHANGED wfile
        BY <2>7 DEF WriteChunk
      <4> HIDE DEF p, v
      <4>5. /\ chan' \in [Transfers -> [Streams -> Seq(Chunks)]]
            /\ \A j \in Transfers, l \in Streams : Len(chan'[j][l]) <= Cap
        BY <4>1, <4>2, <4>4
      <4>6. pos' \in [Transfers -> [Streams -> 0..N]]
        BY <4>1, <4>3, <4>4
      <4>7. writer' \in [Transfers -> [Streams -> {"none", "spawned", "first", "next",
                                                   "failed", "ended"}]]
        BY <4>1, <4>4
      <4> QED BY <1>a, <4>4, <4>5, <4>6, <4>7 DEF WriteTypes
    <3>2. DiskTypes'
      <4> DEFINE at == IF writer[k][i] = "first" THEN Head(chan[k][i]) ELSE pos[k][i]
                 f  == wfile[k][i]
                 h  == Head(chan[k][i])
      <4>1. data \in [Transfers -> [Chunks -> Chunks \cup {Zero}]]
        BY <1>a DEF DiskTypes
      <4>2. h \in Chunks
        BY <1>a, <2>7, Taking DEF WriteChunk, WriteTypes
      <4>3. data' = [data EXCEPT ![f] = [c \in Chunks |-> IF c = at THEN h ELSE @[c]]]
        BY <2>7 DEF WriteChunk
      <4> HIDE DEF at, f, h
      <4>4. data' \in [Transfers -> [Chunks -> Chunks \cup {Zero}]]
        BY <4>1, <4>2, <4>3
      <4> QED BY <1>a, <2>7, <4>4 DEF WriteChunk, DiskTypes
    <3> QED BY <3>1, <3>2, <1>c, <2>7 DEF WriteChunk
  <2>8. CASE WriterEnds(k, i)
    <3>1. WriteTypes'
      BY <1>a, <2>8, Ranges DEF WriterEnds, WriteTypes
    <3> QED BY <3>1, <1>c, <2>8 DEF WriterEnds
  <2>9. CASE WriterFails(k, i)
    <3>1. WriteTypes'
      BY <1>a, <2>9, Ranges DEF WriterFails, WriteTypes
    <3>2. faults' \in 0..MaxFaults
      BY <1>a, <2>9, Ranges DEF WriterFails
    <3> QED BY <3>1, <3>2, <1>c, <2>9 DEF WriterFails
  <2> QED BY <1>2, <2>1, <2>2, <2>3, <2>4, <2>5, <2>6, <2>7, <2>8, <2>9
          DEF Tasks, Reader, Writer
<1>3. CASE Break
  <2>1. SendTypes'
    BY <1>a, <1>3, Ranges DEF Break, SendTypes, SenderOver
  <2>2. NetTypes'
    BY <1>a, <1>3, Ranges DEF Break, NetTypes
  <2>3. RecvTypes'
    BY <1>a, <1>3, Ranges DEF Break, RecvTypes, ReceiverOver
  <2>4. faults' \in 0..MaxFaults
    BY <1>a, <1>3, Ranges DEF Break
  <2> QED BY <2>1, <2>2, <2>3, <2>4, <1>c, <1>3 DEF Break
<1> QED BY <1>0, <1>1, <1>2, <1>3 DEF Next

(* A step keeps the parts that need nothing but the types.                 *)
LEMMA RpcTypes ==
  ASSUME TypeOK
  PROVE  /\ rpc \in [Transfers -> {"none", "asking", "accepted", "prepared", "joining",
                            "joined", "completed", "renamed"} \cup ReceiverOver]
         /\ spc \in [Transfers -> {"idle", "connected", "requested", "opening",
                            "joining", "waiting"} \cup SenderOver]
         /\ on \in [Transfers -> Conns \cup {Nobody}]
         /\ toRcv \in [Transfers -> Seq({"request", "complete"})]
         /\ toSnd \in [Transfers -> Seq({"accepted", "rejected", "ack"})]
         /\ opened \in [Transfers -> 0..NStreams]
         /\ alive \subseteq Conns /\ cached \in Conns \cup {Nobody}
BY DEF TypeOK

LEMMA StreamTypes ==
  ASSUME TypeOK
  PROVE  /\ writer \in [Transfers -> [Streams -> {"none", "spawned", "first", "next",
                                                  "failed", "ended"}]]
         /\ reader \in [Transfers -> [Streams -> 0..Stopped]]
         /\ task \in [Transfers -> [Streams -> {"none", "running", "ended"}]]
         /\ wire \in [Transfers -> [Streams -> Seq(Chunks \cup {Header})]]
         /\ chan \in [Transfers -> [Streams -> Seq(Chunks)]]
         /\ next \in [Transfers -> [Streams -> 0..N]]
         /\ pos \in [Transfers -> [Streams -> 0..N]]
         /\ route \in [Conns -> Transfers \cup {Nobody}]
         /\ temp \in Transfers \cup {Nobody} /\ final \in Transfers \cup {Nobody}
BY DEF TypeOK

(* Types of one data stream.                                               *)
LEMMA OneStream ==
  ASSUME TypeOK, NEW k \in Transfers, NEW i \in Streams
  PROVE  /\ writer[k][i] \in {"none", "spawned", "first", "next", "failed", "ended"}
         /\ reader[k][i] \in 0..Stopped
         /\ task[k][i] \in {"none", "running", "ended"}
         /\ wire[k][i] \in Seq(Chunks \cup {Header})
         /\ chan[k][i] \in Seq(Chunks)
         /\ next[k][i] \in 0..N /\ next[k][i] \in Nat
         /\ pos[k][i] \in 0..N /\ pos[k][i] \in Nat
<1>1. 0..N \subseteq Nat
  BY Ranges
<1> QED BY <1>1, StreamTypes

(* What the steps of a data stream do, stream by stream.                   *)
LEMMA AnsweredDoes ==
  ASSUME TypeOK, NEW k \in Transfers, NEW answer, Answered(k, answer)
  PROVE  /\ 1 \in DOMAIN toSnd[k] /\ toSnd[k][1] = answer
         /\ \A n \in DOMAIN toSnd'[k] :
              n + 1 \in DOMAIN toSnd[k] /\ toSnd'[k][n] = toSnd[k][n + 1]
         /\ \A j \in Transfers \ {k} : toSnd'[j] = toSnd[j]
         /\ Up(k)
         /\ UNCHANGED <<on, opened, task, next, alive, cached, toRcv, wire, recv, wr, disk,
                        faults>>
<1>1. /\ toSnd[k] # <<>> /\ Head(toSnd[k]) = answer /\ Up(k)
      /\ toSnd' = [toSnd EXCEPT ![k] = Tail(toSnd[k])]
      /\ UNCHANGED <<on, opened, task, next, alive, cached, toRcv, wire, recv, wr, disk,
                     faults>>
  BY DEF Answered
<1>2. toSnd[k] \in Seq({"accepted", "rejected", "ack"})
  BY RpcTypes
<1>3. toSnd'[k] = Tail(toSnd[k]) /\ \A j \in Transfers \ {k} : toSnd'[j] = toSnd[j]
  BY <1>1, RpcTypes
<1>4. /\ Len(toSnd[k]) \in Nat \ {0} /\ toSnd[k][1] = answer
      /\ Len(toSnd'[k]) = Len(toSnd[k]) - 1
      /\ \A n \in 1..Len(toSnd[k]) - 1 : toSnd'[k][n] = toSnd[k][n + 1]
      /\ DOMAIN toSnd[k] = 1..Len(toSnd[k]) /\ DOMAIN toSnd'[k] = 1..Len(toSnd'[k])
  <2>1. /\ Tail(toSnd[k]) \in Seq({"accepted", "rejected", "ack"})
        /\ Len(toSnd[k]) \in Nat \ {0} /\ Head(toSnd[k]) = toSnd[k][1]
        /\ Len(Tail(toSnd[k])) = Len(toSnd[k]) - 1
        /\ \A n \in 1..Len(toSnd[k]) - 1 : Tail(toSnd[k])[n] = toSnd[k][n + 1]
    BY <1>1, <1>2, Taking
  <2>2. DOMAIN toSnd[k] = 1..Len(toSnd[k]) /\ DOMAIN Tail(toSnd[k]) = 1..Len(Tail(toSnd[k]))
    BY <1>2, <2>1
  <2> QED BY <1>1, <1>3, <2>1, <2>2
<1> QED BY <1>1, <1>3, <1>4

LEMMA OpenStreamDoes ==
  ASSUME TypeOK, NEW k \in Transfers, OpenStream(k)
  PROVE  \E i \in Streams :
         /\ i = opened[k] /\ i + 1 \in 0..NStreams
         /\ spc[k] = "opening" /\ MoreStreams(k)
         /\ \A j \in Transfers, l \in Streams :
              wire'[j][l] = IF j = k /\ l = i THEN <<Header>> ELSE wire[j][l]
         /\ \A j \in Transfers, l \in Streams :
              task'[j][l] = IF j = k /\ l = i THEN "running" ELSE task[j][l]
         /\ \A j \in Transfers, l \in Streams :
              next'[j][l] = IF j = k /\ l = i THEN FirstOf(i, N, NStreams) ELSE next[j][l]
         /\ \A j \in Transfers : opened'[j] = IF j = k THEN i + 1 ELSE opened[j]
         /\ UNCHANGED <<spc, sprog, on, sent, alive, cached, toRcv, toSnd, recv, wr, disk,
                        faults>>
<1> DEFINE i == opened[k]
<1>1. i \in Streams /\ i + 1 \in 0..NStreams
  BY RpcTypes, Ranges DEF OpenStream, MoreStreams, Streams
<1>2. /\ spc[k] = "opening" /\ MoreStreams(k)
      /\ wire' = [wire EXCEPT ![k][i] = <<Header>>]
      /\ task' = [task EXCEPT ![k][i] = "running"]
      /\ next' = [next EXCEPT ![k][i] = FirstOf(i, N, NStreams)]
      /\ opened' = [opened EXCEPT ![k] = i + 1]
      /\ UNCHANGED <<spc, sprog, on, sent, alive, cached, toRcv, toSnd, recv, wr, disk, faults>>
  BY DEF OpenStream
<1>5. \A j \in Transfers : opened'[j] = IF j = k THEN i + 1 ELSE opened[j]
  BY <1>2, RpcTypes
<1>3. i = opened[k]
  OBVIOUS
<1> HIDE DEF i
<1>4. \A j \in Transfers, l \in Streams :
        /\ wire'[j][l] = IF j = k /\ l = i THEN <<Header>> ELSE wire[j][l]
        /\ task'[j][l] = IF j = k /\ l = i THEN "running" ELSE task[j][l]
        /\ next'[j][l] = IF j = k /\ l = i THEN FirstOf(i, N, NStreams) ELSE next[j][l]
  BY <1>1, <1>2, StreamTypes
<1> QED BY <1>1, <1>2, <1>3, <1>4, <1>5

LEMMA OpenFailsDoes ==
  ASSUME TypeOK, NEW k \in Transfers, OpenFails(k)
  PROVE  /\ spc[k] = "opening" /\ ~Up(k) /\ spc' = [spc EXCEPT ![k] = "failed"]
         /\ \A j \in Transfers : spc'[j] = IF j = k THEN "failed" ELSE spc[j]
         /\ \A j \in Transfers, l \in Streams :
              task'[j][l] = IF j = k /\ task[k][l] # "none" THEN "ended" ELSE task[j][l]
         /\ UNCHANGED <<on, opened, next, sent, net, recv, wr, disk, faults>>
BY StreamTypes, RpcTypes DEF OpenFails

LEMMA RespondDoes ==
  ASSUME TypeOK, NEW k \in Transfers, Respond(k)
  PROVE  /\ rpc[k] = "prepared" /\ Up(k)
         /\ \A j \in Transfers, l \in Streams :
              writer'[j][l] = IF j = k THEN "spawned" ELSE writer[j][l]
         /\ \A j \in Transfers :
              /\ rpc'[j] = IF j = k THEN "joining" ELSE rpc[j]
              /\ toSnd'[j] = IF j = k THEN <<"accepted">> ELSE toSnd[j]
         /\ UNCHANGED <<rprog, pending, route, reader, received, send, alive, cached, toRcv,
                        wire, chan, wfile, pos, disk, faults>>
BY StreamTypes, RpcTypes DEF Respond

LEMMA BreakDoes ==
  ASSUME TypeOK, Break
  PROVE  \E c \in alive :
         /\ alive' = alive \ {c}
         /\ \A j \in Transfers :
              /\ toRcv'[j] = IF on[j] = c THEN <<>> ELSE toRcv[j]
              /\ toSnd'[j] = IF on[j] = c THEN <<>> ELSE toSnd[j]
         /\ \A j \in Transfers, l \in Streams :
              /\ wire'[j][l] = IF on[j] = c THEN <<>> ELSE wire[j][l]
              /\ task'[j][l] = IF on[j] = c /\ task[j][l] = "running" THEN "ended"
                               ELSE task[j][l]
              /\ reader'[j][l] = IF on[j] = c /\ task[j][l] # "none" THEN Stopped
                                 ELSE reader[j][l]
         /\ UNCHANGED <<cached, spc, sprog, on, opened, next, sent, rpc, rprog, pending,
                        route, received, wr, disk>>
BY DEF Break

LEMMA SendChunkDoes ==
  ASSUME TypeOK, NEW k \in Transfers, NEW i \in Streams, SendChunk(k, i)
  PROVE  /\ task[k][i] = "running"
         /\ next[k][i] < PastOf(i, N, NStreams)
         /\ reader[k][i] # Stopped
         /\ \A j \in Transfers, l \in Streams :
              wire'[j][l] = IF j = k /\ l = i THEN Append(wire[k][i], next[k][i]) ELSE wire[j][l]
         /\ \A j \in Transfers, l \in Streams :
              next'[j][l] = IF j = k /\ l = i THEN next[k][i] + 1 ELSE next[j][l]
         /\ UNCHANGED <<spc, sprog, on, opened, task, sent, alive, cached, toRcv, toSnd, recv, wr,
                        disk, faults>>
<1>1. /\ task[k][i] = "running" /\ next[k][i] < PastOf(i, N, NStreams)
      /\ reader[k][i] # Stopped
      /\ wire' = [wire EXCEPT ![k][i] = Append(wire[k][i], next[k][i])]
      /\ next' = [next EXCEPT ![k][i] = next[k][i] + 1]
      /\ UNCHANGED <<spc, sprog, on, opened, task, sent, alive, cached, toRcv, toSnd, recv,
                     wr, disk, faults>>
  <2>1. /\ wire \in [Transfers -> [Streams -> Seq(Chunks \cup {Header})]]
        /\ next \in [Transfers -> [Streams -> 0..N]]
    BY StreamTypes
  <2> QED BY <2>1 DEF SendChunk
<1>2. /\ wire \in [Transfers -> [Streams -> Seq(Chunks \cup {Header})]]
      /\ next \in [Transfers -> [Streams -> 0..N]]
  BY StreamTypes
<1>3. \A j \in Transfers, l \in Streams :
        wire'[j][l] = IF j = k /\ l = i THEN Append(wire[k][i], next[k][i]) ELSE wire[j][l]
  <2> DEFINE v == Append(wire[k][i], next[k][i])
  <2>1. wire' = [wire EXCEPT ![k][i] = v]
    BY <1>1
  <2> HIDE DEF v
  <2>2. \A j \in Transfers, l \in Streams :
          wire'[j][l] = IF j = k /\ l = i THEN v ELSE wire[j][l]
    BY <1>2, <2>1
  <2> QED BY <2>2 DEF v
<1>4. \A j \in Transfers, l \in Streams :
        next'[j][l] = IF j = k /\ l = i THEN next[k][i] + 1 ELSE next[j][l]
  BY <1>1, <1>2
<1> QED BY <1>1, <1>3, <1>4

LEMMA TaskEndsDoes ==
  ASSUME TypeOK, NEW k \in Transfers, NEW i \in Streams, TaskEnds(k, i)
  PROVE  /\ task[k][i] = "running"
         /\ \A j \in Transfers, l \in Streams :
              task'[j][l] = IF j = k /\ l = i THEN "ended" ELSE task[j][l]
         /\ UNCHANGED <<spc, sprog, on, opened, next, sent, net, recv, wr, disk, faults>>
<1>1. task \in [Transfers -> [Streams -> {"none", "running", "ended"}]]
  BY StreamTypes
<1> QED BY <1>1 DEF TaskEnds

LEMMA ReadHeaderDoes ==
  ASSUME TypeOK, NEW k \in Transfers, NEW i \in Streams, ReadHeader(k, i)
  PROVE  /\ reader[k][i] = Nobody
         /\ wire[k][i] # <<>>
         /\ Up(k)
         /\ on[k] \in Conns
         /\ \A j \in Transfers, l \in Streams :
              wire'[j][l] = IF j = k /\ l = i THEN Tail(wire[k][i]) ELSE wire[j][l]
         /\ \A j \in Transfers, l \in Streams :
              reader'[j][l] = IF j = k /\ l = i
                              THEN (IF route[on[k]] = Nobody THEN Stopped ELSE route[on[k]])
                              ELSE reader[j][l]
         /\ UNCHANGED <<send, alive, cached, toRcv, toSnd, rpc, rprog, pending, route, received, wr,
                        disk, faults>>
<1> DEFINE v == Tail(wire[k][i])
           r == IF route[on[k]] = Nobody THEN Stopped ELSE route[on[k]]
<1>1. /\ wire \in [Transfers -> [Streams -> Seq(Chunks \cup {Header})]]
      /\ reader \in [Transfers -> [Streams -> 0..Stopped]]
  BY StreamTypes
<1>2. /\ reader[k][i] = Nobody /\ wire[k][i] # <<>> /\ Up(k)
      /\ UNCHANGED <<send, alive, cached, toRcv, toSnd, rpc, rprog, pending, route,
                     received, wr, disk, faults>>
  BY DEF ReadHeader, Consume, Arrived
<1>3. wire' = [wire EXCEPT ![k][i] = v] /\ reader' = [reader EXCEPT ![k][i] = r]
  BY <1>1 DEF ReadHeader, Consume
<1>4. on[k] \in Conns
  BY <1>2, RpcTypes DEF Up
<1> HIDE DEF v, r
<1>5. /\ \A j \in Transfers, l \in Streams :
           wire'[j][l] = IF j = k /\ l = i THEN v ELSE wire[j][l]
      /\ \A j \in Transfers, l \in Streams :
           reader'[j][l] = IF j = k /\ l = i THEN r ELSE reader[j][l]
  BY <1>1, <1>3
<1> QED BY <1>2, <1>4, <1>5 DEF v, r

LEMMA ForwardDoes ==
  ASSUME TypeOK, NEW k \in Transfers, NEW i \in Streams, Forward(k, i)
  PROVE  /\ reader[k][i] \in Transfers
         /\ wire[k][i] # <<>>
         /\ Open(reader[k][i], i)
         /\ \A j \in Transfers, l \in Streams :
              wire'[j][l] = IF j = k /\ l = i THEN Tail(wire[k][i]) ELSE wire[j][l]
         /\ \A j \in Transfers, l \in Streams :
              chan'[j][l] = IF j = reader[k][i] /\ l = i
                            THEN Append(chan[reader[k][i]][i], Head(wire[k][i]))
                            ELSE chan[j][l]
         /\ UNCHANGED <<send, alive, cached, toRcv, toSnd, recv, writer, wfile, pos, disk, faults>>
<1> DEFINE v == Tail(wire[k][i])
           t == reader[k][i]
           e == Append(chan[t][i], Head(wire[k][i]))
<1>1. /\ wire \in [Transfers -> [Streams -> Seq(Chunks \cup {Header})]]
      /\ chan \in [Transfers -> [Streams -> Seq(Chunks)]]
  BY StreamTypes
<1>2. /\ t \in Transfers /\ wire[k][i] # <<>> /\ Open(t, i)
      /\ UNCHANGED <<send, alive, cached, toRcv, toSnd, recv, writer, wfile, pos, disk,
                     faults>>
  BY DEF Forward, Consume, Arrived
<1>3. wire' = [wire EXCEPT ![k][i] = v] /\ chan' = [chan EXCEPT ![t][i] = e]
  BY <1>1, <1>2 DEF Forward, Consume
<1> HIDE DEF v, t, e
<1>4. /\ \A j \in Transfers, l \in Streams :
           wire'[j][l] = IF j = k /\ l = i THEN v ELSE wire[j][l]
      /\ \A j \in Transfers, l \in Streams :
           chan'[j][l] = IF j = t /\ l = i THEN e ELSE chan[j][l]
  BY <1>1, <1>2, <1>3
<1> QED BY <1>2, <1>4 DEF v, t, e

LEMMA ReaderEndsDoes ==
  ASSUME TypeOK, NEW k \in Transfers, NEW i \in Streams, ReaderEnds(k, i)
  PROVE  /\ reader[k][i] \in Transfers
         /\ \/ task[k][i] = "ended"
            \/ wire[k][i] # <<>> /\ ~Open(reader[k][i], i)
         /\ \A j \in Transfers, l \in Streams :
              reader'[j][l] = IF j = k /\ l = i THEN Stopped ELSE reader[j][l]
         /\ UNCHANGED <<send, net, rpc, rprog, pending, route, received, wr, disk, faults>>
<1>1. reader \in [Transfers -> [Streams -> 0..Stopped]]
  BY StreamTypes
<1> QED BY <1>1 DEF ReaderEnds

LEMMA OpenTempDoes ==
  ASSUME TypeOK, NEW k \in Transfers, NEW i \in Streams, OpenTemp(k, i)
  PROVE  /\ writer[k][i] = "spawned"
         /\ \A j \in Transfers, l \in Streams :
              writer'[j][l] = IF j = k /\ l = i
                              THEN (IF temp = Nobody THEN "failed" ELSE "first")
                              ELSE writer[j][l]
         /\ \A j \in Transfers, l \in Streams :
              chan'[j][l] = IF j = k /\ l = i
                            THEN (IF temp = Nobody THEN <<>> ELSE chan[k][i])
                            ELSE chan[j][l]
         /\ \A j \in Transfers, l \in Streams :
              wfile'[j][l] = IF j = k /\ l = i
                             THEN (IF temp = Nobody THEN wfile[k][i] ELSE temp)
                             ELSE wfile[j][l]
         /\ UNCHANGED <<send, net, recv, pos, disk, faults>>
<1>1. CASE temp = Nobody
  <2>1. /\ writer' = [writer EXCEPT ![k][i] = "failed"]
        /\ chan' = [chan EXCEPT ![k][i] = <<>>] /\ UNCHANGED wfile
    BY <1>1 DEF OpenTemp
  <2> QED BY <1>1, <2>1, StreamTypes DEF OpenTemp
<1>2. CASE temp # Nobody
  <2>1. /\ writer' = [writer EXCEPT ![k][i] = "first"]
        /\ wfile' = [wfile EXCEPT ![k][i] = temp] /\ UNCHANGED chan
    BY <1>2 DEF OpenTemp
  <2>2. wfile \in [Transfers -> [Streams -> Transfers \cup {Nobody}]]
    BY DEF TypeOK
  <2> QED BY <1>2, <2>1, <2>2, StreamTypes DEF OpenTemp
<1> QED BY <1>1, <1>2

LEMMA WriterEndsDoes ==
  ASSUME TypeOK, NEW k \in Transfers, NEW i \in Streams, WriterEnds(k, i)
  PROVE  /\ writer[k][i] \in {"first", "next"}
         /\ \A j \in Transfers, l \in Streams :
              writer'[j][l] = IF j = k /\ l = i THEN "ended" ELSE writer[j][l]
         /\ UNCHANGED <<send, net, recv, chan, wfile, pos, disk, faults>>
<1>1. writer \in [Transfers -> [Streams -> {"none", "spawned", "first", "next",
                                            "failed", "ended"}]]
  BY StreamTypes
<1> QED BY <1>1 DEF WriterEnds

LEMMA WriterFailsDoes ==
  ASSUME TypeOK, NEW k \in Transfers, NEW i \in Streams, WriterFails(k, i)
  PROVE  /\ writer[k][i] \in {"first", "next"}
         /\ \A j \in Transfers, l \in Streams :
              writer'[j][l] = IF j = k /\ l = i THEN "failed" ELSE writer[j][l]
         /\ \A j \in Transfers, l \in Streams :
              chan'[j][l] = IF j = k /\ l = i THEN <<>> ELSE chan[j][l]
         /\ faults' = faults + 1
         /\ UNCHANGED <<send, net, recv, wfile, pos, disk>>
<1>1. /\ writer \in [Transfers -> [Streams -> {"none", "spawned", "first", "next",
                                               "failed", "ended"}]]
      /\ chan \in [Transfers -> [Streams -> Seq(Chunks)]]
  BY StreamTypes
<1> QED BY <1>1 DEF WriterFails

LEMMA WriteChunkDoes ==
  ASSUME TypeOK, NEW k \in Transfers, NEW i \in Streams, WriteChunk(k, i)
  PROVE  /\ writer[k][i] \in {"first", "next"} /\ chan[k][i] # <<>>
         /\ \A j \in Transfers, l \in Streams :
              writer'[j][l] = IF j = k /\ l = i THEN "next" ELSE writer[j][l]
         /\ \A j \in Transfers, l \in Streams :
              chan'[j][l] = IF j = k /\ l = i THEN Tail(chan[k][i]) ELSE chan[j][l]
         /\ \E at \in 0..N :
              /\ at = IF writer[k][i] = "first" THEN Head(chan[k][i]) ELSE pos[k][i]
              /\ \A j \in Transfers, l \in Streams :
                   pos'[j][l] = IF j = k /\ l = i
                                THEN (IF at = N THEN N ELSE at + 1) ELSE pos[j][l]
              /\ \A f \in Transfers, c \in Chunks :
                   data'[f][c] = IF f = wfile[k][i] /\ c = at
                                 THEN Head(chan[k][i]) ELSE data[f][c]
         /\ UNCHANGED <<send, net, recv, wfile, temp, final, faults>>
<1> DEFINE at == IF writer[k][i] = "first" THEN Head(chan[k][i]) ELSE pos[k][i]
           p  == IF at = N THEN N ELSE at + 1
           h  == Head(chan[k][i])
           v  == Tail(chan[k][i])
<1>1. /\ writer[k][i] \in {"first", "next"} /\ chan[k][i] # <<>>
      /\ writer' = [writer EXCEPT ![k][i] = "next"]
      /\ chan' = [chan EXCEPT ![k][i] = v] /\ pos' = [pos EXCEPT ![k][i] = p]
      /\ data' = [data EXCEPT ![wfile[k][i]] = [c \in Chunks |-> IF c = at THEN h ELSE @[c]]]
      /\ UNCHANGED <<send, net, recv, wfile, temp, final, faults>>
  BY DEF WriteChunk
<1>2. at \in 0..N
  <2>1. chan[k][i] \in Seq(Chunks) /\ pos[k][i] \in 0..N
    BY StreamTypes
  <2>2. Head(chan[k][i]) \in Chunks
    BY <2>1, <1>1, Taking
  <2>3. Head(chan[k][i]) \in 0..N
    BY <2>2, Ranges DEF Chunks
  <2> QED BY <2>1, <2>3
<1>3. at = IF writer[k][i] = "first" THEN Head(chan[k][i]) ELSE pos[k][i]
  OBVIOUS
<1>4. p = IF at = N THEN N ELSE at + 1
  OBVIOUS
<1> HIDE DEF at, p, v
<1>5. \A j \in Transfers, l \in Streams :
        /\ writer'[j][l] = IF j = k /\ l = i THEN "next" ELSE writer[j][l]
        /\ chan'[j][l] = IF j = k /\ l = i THEN v ELSE chan[j][l]
        /\ pos'[j][l] = IF j = k /\ l = i THEN p ELSE pos[j][l]
  BY <1>1, StreamTypes
<1>6. \A f \in Transfers, c \in Chunks :
        data'[f][c] = IF f = wfile[k][i] /\ c = at THEN h ELSE data[f][c]
  <2>1. data \in [Transfers -> [Chunks -> Chunks \cup {Zero}]]
    BY DEF TypeOK
  <2> HIDE DEF h
  <2> QED BY <2>1, <1>1
<1> QED BY <1>1, <1>2, <1>3, <1>4, <1>5, <1>6 DEF v

LEMMA HeaderIsRead ==
  ASSUME TypeOK, NEW k \in Transfers, NEW i \in Streams, ReadHeader(k, i)
  PROVE  /\ reader'[k][i] \in Transfers \cup {Stopped} /\ reader'[k][i] # Nobody
         /\ reader[k][i] = Nobody /\ reader[k][i] # Stopped
<1>1. /\ reader'[k][i] = IF route[on[k]] = Nobody THEN Stopped ELSE route[on[k]]
      /\ on[k] \in Conns /\ reader[k][i] = Nobody
  BY ReadHeaderDoes
<1>2. route[on[k]] \in Transfers \cup {Nobody}
  BY <1>1, StreamTypes
<1> QED BY <1>1, <1>2, Ranges

(* The parts that need nothing but the types.                              *)
(* No connection is made twice.                                            *)
LEMMA LinkedKept ==
  ASSUME TypeOK, Linked, [Next]_vars
  PROVE  Linked'
<1>0. UNCHANGED <<rpc, on, spc, toRcv, alive, cached>> => Linked'
  BY DEF Linked, SenderOver, ReceiverOver
<1>1. ASSUME NEW k \in Transfers,
             Start(k) \/ Negotiate(k) \/ Stream(k) \/ Answer(k) \/ Control(k)
      PROVE  Linked'
  <2>1. CASE Reuse(k)
    BY RpcTypes, Ranges, <2>1 DEF Linked, Reuse, MaySend, SenderOver, ReceiverOver, send, net, recv
  <2>2. CASE Connect(k)
    <3>1. cached \in Nat /\ cached' = cached + 1
      BY RpcTypes, <2>2, Ranges DEF Connect, Conns, Nobody
    <3>2. alive' \subseteq 1..cached' /\ \A j \in 1..cached : j \in 1..cached'
      BY <3>1, <2>2 DEF Linked, Connect
    <3>3. ASSUME NEW j \in Transfers PROVE on'[j] \in 0..cached' /\ (on'[j] = Nobody => on[j] = Nobody /\ j # k)
      BY RpcTypes, <3>1, <2>2 DEF Linked, Connect, Nobody
    <3>4. spc' = [spc EXCEPT ![k] = "connected"] /\ UNCHANGED <<rpc, toRcv>> /\ spc[k] = "idle"
      BY <2>2 DEF Connect, MaySend, recv
    <3> QED BY RpcTypes, <3>2, <3>3, <3>4 DEF Linked
  <2>3. CASE ConnectFails(k)
    BY RpcTypes, Ranges, <2>3 DEF Linked, ConnectFails, MaySend, SenderOver, ReceiverOver, send, net,
        recv
  <2>4. CASE Request(k)
    BY RpcTypes, Ranges, <2>4 DEF Linked, Request, SenderOver, ReceiverOver, send, net, recv
  <2>5. CASE RequestFails(k)
    BY RpcTypes, Ranges, <2>5 DEF Linked, RequestFails, Marked, SenderOver, ReceiverOver, send, net, recv
  <2>6. CASE OnAccepted(k)
    BY RpcTypes, Ranges, <2>6 DEF Linked, OnAccepted, Answered, Marked, SenderOver, ReceiverOver, send,
        net, recv
  <2>7. CASE OnRejected(k)
    BY RpcTypes, Ranges, <2>7 DEF Linked, OnRejected, Answered, SenderOver, ReceiverOver, send, net, recv
  <2>8. CASE OpenFails(k)
    BY OpenFailsDoes, <2>8 DEF Linked, SenderOver, ReceiverOver, send, net, recv
  <2>9. CASE AllOpened(k)
    BY RpcTypes, Ranges, <2>9 DEF Linked, AllOpened, SenderOver, ReceiverOver, send, net, recv
  <2>10. CASE Complete(k)
    BY RpcTypes, Ranges, <2>10 DEF Linked, Complete, Up, SenderOver, ReceiverOver, send, net, recv
  <2>11. CASE OnAck(k)
    BY RpcTypes, Ranges, <2>11 DEF Linked, OnAck, Answered, SenderOver, ReceiverOver, send, net, recv
  <2>12. CASE SenderFails(k)
    BY RpcTypes, Ranges, <2>12 DEF Linked, SenderFails, SenderOver, ReceiverOver, send, net, recv
  <2>13. CASE Accept(k)
    BY RpcTypes, Ranges, <2>13 DEF Linked, Accept, SenderOver, ReceiverOver, send, net, recv
  <2>14. CASE Reject(k)
    BY RpcTypes, Ranges, <2>14 DEF Linked, Reject, SenderOver, ReceiverOver, send, net, recv
  <2>15. CASE OnRequest(k)
    BY RpcTypes, Ranges, <2>15 DEF Linked, OnRequest, Taken, SenderOver, ReceiverOver, send, net, recv
  <2>16. CASE Prepare(k)
    BY RpcTypes, Ranges, <2>16 DEF Linked, Prepare, Blank, SenderOver, ReceiverOver, send, net, recv
  <2>17. CASE Respond(k)
    BY RespondDoes, <2>17 DEF Linked, SenderOver, ReceiverOver, send, net, recv
  <2>18. CASE RespondFails(k)
    BY RpcTypes, Ranges, <2>18 DEF Linked, RespondFails, SenderOver, ReceiverOver, send, net, recv
  <2>19. CASE Joined(k)
    BY RpcTypes, Ranges, <2>19 DEF Linked, Joined, SenderOver, ReceiverOver, send, net, recv
  <2>20. CASE OnComplete(k)
    BY RpcTypes, Ranges, <2>20 DEF Linked, OnComplete, Taken, SenderOver, ReceiverOver, send, net, recv
  <2>21. CASE CompleteLost(k)
    BY RpcTypes, Ranges, <2>21 DEF Linked, CompleteLost, SenderOver, ReceiverOver, send, net, recv
  <2>22. CASE Publish(k)
    BY RpcTypes, Ranges, <2>22 DEF Linked, Publish, SenderOver, ReceiverOver, send, net, recv
  <2>23. CASE PublishFails(k)
    BY RpcTypes, Ranges, <2>23 DEF Linked, PublishFails, SenderOver, ReceiverOver, send, net, recv
  <2>24. CASE Ack(k)
    BY RpcTypes, Ranges, <2>24 DEF Linked, Ack, SenderOver, ReceiverOver, send, net, recv
  <2>25. CASE AckFails(k)
    BY RpcTypes, Ranges, <2>25 DEF Linked, AckFails, SenderOver, ReceiverOver, send, net, recv
  <2> QED BY <1>0, <1>1, <2>1, <2>2, <2>3, <2>4, <2>5, <2>6, <2>7, <2>8,
            <2>9, <2>10, <2>11, <2>12, <2>13, <2>14, <2>15, <2>16, <2>17,
            <2>18, <2>19, <2>20, <2>21, <2>22, <2>23, <2>24, <2>25
          DEF Start, Negotiate, Stream, Answer, Control, OpenStream,
              Answered, Taken, send, net, recv, wr, disk
<1>2. ASSUME NEW k \in Transfers, NEW i \in Streams,
             Tasks(k, i) \/ Reader(k, i) \/ Writer(k, i) \/ WriterFails(k, i)
      PROVE  Linked'
  <2> QED BY <1>0, <1>2
          DEF Tasks, Reader, Writer, SendChunk, TaskEnds, ReadHeader,
              Forward, ReaderEnds, OpenTemp, WriteChunk, WriterEnds,
              WriterFails, Consume, send, net, recv, wr, disk
<1>3. CASE Break
  BY BreakDoes, <1>3 DEF Linked, SenderOver, ReceiverOver, send, net, recv
<1>4. CASE UNCHANGED vars
  BY <1>0, <1>4 DEF vars, send, net, recv, wr, disk
<1> QED BY <1>1, <1>2, <1>3, <1>4 DEF Next

(* Nothing is opened before the writers are there.                         *)
LEMMA AcceptedFirstKept ==
  ASSUME TypeOK, AcceptedFirst, [Next]_vars
  PROVE  AcceptedFirst'
<1>0. UNCHANGED <<spc, opened, toSnd, writer>> => AcceptedFirst'
  BY DEF AcceptedFirst, SenderOver
<1>1. ASSUME NEW k \in Transfers,
             Start(k) \/ Negotiate(k) \/ Stream(k) \/ Answer(k) \/ Control(k)
      PROVE  AcceptedFirst'
  <2>1. CASE Reuse(k)
    BY RpcTypes, Ranges, <2>1 DEF AcceptedFirst, Reuse, MaySend, SenderOver, send, net, wr
  <2>2. CASE Connect(k)
    BY RpcTypes, Ranges, <2>2 DEF AcceptedFirst, Connect, MaySend, SenderOver, send, net, wr
  <2>3. CASE ConnectFails(k)
    BY RpcTypes, Ranges, <2>3 DEF AcceptedFirst, ConnectFails, MaySend, SenderOver, send, net, wr
  <2>4. CASE Request(k)
    BY RpcTypes, Ranges, <2>4 DEF AcceptedFirst, Request, SenderOver, send, net, wr
  <2>5. CASE RequestFails(k)
    BY RpcTypes, Ranges, <2>5 DEF AcceptedFirst, RequestFails, Marked, SenderOver, send, net, wr
  <2>6. CASE OnAccepted(k)
    <3>1. /\ 1 \in DOMAIN toSnd[k] /\ toSnd[k][1] = "accepted"
          /\ \A n \in DOMAIN toSnd'[k] :
               n + 1 \in DOMAIN toSnd[k] /\ toSnd'[k][n] = toSnd[k][n + 1]
          /\ \A j \in Transfers \ {k} : toSnd'[j] = toSnd[j]
          /\ UNCHANGED <<opened, wr>>
      BY <2>6, AnsweredDoes DEF OnAccepted
    <3>2. \A j \in Transfers : spc'[j] = IF j = k THEN "opening" ELSE spc[j]
      BY <2>6, RpcTypes DEF OnAccepted
    <3> QED BY <3>1, <3>2 DEF AcceptedFirst, wr
  <2>7. CASE OnRejected(k)
    <3>1. /\ 1 \in DOMAIN toSnd[k] /\ toSnd[k][1] = "rejected"
          /\ \A n \in DOMAIN toSnd'[k] :
               n + 1 \in DOMAIN toSnd[k] /\ toSnd'[k][n] = toSnd[k][n + 1]
          /\ \A j \in Transfers \ {k} : toSnd'[j] = toSnd[j]
          /\ UNCHANGED <<opened, wr>>
      BY <2>7, AnsweredDoes DEF OnRejected
    <3>2. \A j \in Transfers : spc'[j] = IF j = k THEN "rejected" ELSE spc[j]
      BY <2>7, RpcTypes DEF OnRejected
    <3> QED BY <3>1, <3>2, <2>7 DEF AcceptedFirst, wr, OnRejected
  <2>8. CASE OpenStream(k)
    BY OpenStreamDoes, <2>8 DEF AcceptedFirst, MoreStreams, SenderOver, send, net, wr
  <2>9. CASE OpenFails(k)
    BY OpenFailsDoes, <2>9 DEF AcceptedFirst, SenderOver, send, net, wr
  <2>10. CASE AllOpened(k)
    BY RpcTypes, Ranges, <2>10 DEF AcceptedFirst, AllOpened, SenderOver, send, net, wr
  <2>11. CASE Complete(k)
    BY RpcTypes, Ranges, <2>11 DEF AcceptedFirst, Complete, Up, SenderOver, send, net, wr
  <2>12. CASE OnAck(k)
    <3>1. /\ 1 \in DOMAIN toSnd[k] /\ toSnd[k][1] = "ack"
          /\ \A n \in DOMAIN toSnd'[k] :
               n + 1 \in DOMAIN toSnd[k] /\ toSnd'[k][n] = toSnd[k][n + 1]
          /\ \A j \in Transfers \ {k} : toSnd'[j] = toSnd[j]
          /\ UNCHANGED <<opened, wr>>
      BY <2>12, AnsweredDoes DEF OnAck
    <3>2. \A j \in Transfers : spc'[j] = IF j = k THEN "done" ELSE spc[j]
      BY <2>12, RpcTypes DEF OnAck
    <3> QED BY <3>1, <3>2, <2>12 DEF AcceptedFirst, wr, OnAck
  <2>13. CASE SenderFails(k)
    BY RpcTypes, Ranges, <2>13 DEF AcceptedFirst, SenderFails, SenderOver, send, net, wr
  <2>14. CASE Reject(k)
    <3>1. \A j \in Transfers : toSnd'[j] = toSnd[j] \/ toSnd'[j] = <<"rejected">>
      BY <2>14, RpcTypes DEF Reject
    <3>2. \A n \in DOMAIN <<"rejected">> : <<"rejected">>[n] # "accepted"
      OBVIOUS
    <3> QED BY <3>1, <3>2, <2>14 DEF AcceptedFirst, Reject, send, wr
  <2>15. CASE Respond(k)
    BY RespondDoes, <2>15 DEF AcceptedFirst, SenderOver, send, net, wr
  <2>16. CASE Ack(k)
    <3>1. \A j \in Transfers \ {k} : toSnd'[j] = toSnd[j]
      BY <2>16, RpcTypes DEF Ack
    <3>2. toSnd[k] \in Seq({"accepted", "rejected", "ack"}) /\ toSnd'[k] = Append(toSnd[k], "ack")
      BY <2>16, RpcTypes DEF Ack
    <3>3. \A n \in DOMAIN toSnd'[k] : toSnd'[k][n] = "accepted" =>
            n \in DOMAIN toSnd[k] /\ toSnd[k][n] = "accepted"
      BY <3>2, Appending
    <3> QED BY <3>1, <3>3, <2>16 DEF AcceptedFirst, Ack, send, wr
  <2> QED BY <1>0, <1>1, <2>1, <2>2, <2>3, <2>4, <2>5, <2>6, <2>7, <2>8,
            <2>9, <2>10, <2>11, <2>12, <2>13, <2>14, <2>15, <2>16
          DEF Start, Negotiate, Stream, Answer, Control, Accept, OnRequest,
              Prepare, RespondFails, Joined, OnComplete, CompleteLost,
              Publish, PublishFails, AckFails, Answered, Taken, send, net,
              recv, wr, disk
<1>2. ASSUME NEW k \in Transfers, NEW i \in Streams,
             Tasks(k, i) \/ Reader(k, i) \/ Writer(k, i) \/ WriterFails(k, i)
      PROVE  AcceptedFirst'
  <2>1. CASE OpenTemp(k, i)
    BY OpenTempDoes, <2>1 DEF AcceptedFirst, SenderOver, send, net, wr
  <2>2. CASE WriteChunk(k, i)
    BY WriteChunkDoes, <2>2 DEF AcceptedFirst, SenderOver, send, net, wr
  <2>3. CASE WriterEnds(k, i)
    BY WriterEndsDoes, <2>3 DEF AcceptedFirst, SenderOver, send, net, wr
  <2>4. CASE WriterFails(k, i)
    BY WriterFailsDoes, <2>4 DEF AcceptedFirst, SenderOver, send, net, wr
  <2> QED BY <1>0, <1>2, <2>1, <2>2, <2>3, <2>4
          DEF Tasks, Reader, Writer, SendChunk, TaskEnds, ReadHeader,
              Forward, ReaderEnds, Consume, send, net, recv, wr, disk
<1>3. CASE Break
  BY BreakDoes, <1>3 DEF AcceptedFirst, SenderOver, send, net, wr
<1>4. CASE UNCHANGED vars
  BY <1>0, <1>4 DEF vars, send, net, recv, wr, disk
<1> QED BY <1>1, <1>2, <1>3, <1>4 DEF Next

(* A data stream is opened once, in turn.                                  *)
LEMMA StreamsOpenedKept ==
  ASSUME TypeOK, StreamsOpened, [Next]_vars
  PROVE  StreamsOpened'
<1>0. UNCHANGED <<opened, task, wire, reader>> => StreamsOpened'
  BY DEF StreamsOpened
<1>1. ASSUME NEW k \in Transfers,
             Start(k) \/ Negotiate(k) \/ Stream(k) \/ Answer(k) \/ Control(k)
      PROVE  StreamsOpened'
  <2>1. CASE OpenStream(k)
    <3>1. PICK i \in Streams :
            /\ i = opened[k] /\ spc[k] = "opening" /\ UNCHANGED <<spc, reader>>
            /\ \A j \in Transfers, l \in Streams :
                 /\ wire'[j][l] = IF j = k /\ l = i THEN <<Header>> ELSE wire[j][l]
                 /\ task'[j][l] = IF j = k /\ l = i THEN "running" ELSE task[j][l]
            /\ \A j \in Transfers : opened'[j] = IF j = k THEN i + 1 ELSE opened[j]
      BY OpenStreamDoes, <2>1 DEF recv
    <3>2. i \in Nat /\ \A l \in Streams : l < i => l < i + 1
      BY Ranges DEF Streams
    <3> SUFFICES ASSUME NEW j \in Transfers, NEW l \in Streams
                 PROVE  /\ task'[j][l] # "none" => l < opened'[j]
                        /\ wire'[j][l] # <<>> \/ reader'[j][l] # Nobody
                             => task'[j][l] # "none"
                        /\ reader'[j][l] = Nobody /\ task'[j][l] # "none"
                             => wire'[j][l] # <<>>
      BY DEF StreamsOpened
    <3>3. CASE j = k /\ l = i
      <4>1. <<Header>> # <<>>
        OBVIOUS
      <4> QED BY <3>1, <3>2, <3>3, <4>1
    <3>4. CASE ~(j = k /\ l = i)
      <4>1. task'[j][l] = task[j][l] /\ wire'[j][l] = wire[j][l] /\ reader' = reader
        BY <3>1, <3>4
      <4>2. l < opened[j] => l < opened'[j]
        BY <3>1, <3>2
      <4> QED BY <4>1, <4>2 DEF StreamsOpened
    <3> QED BY <3>3, <3>4
  <2>2. CASE OpenFails(k)
    BY OpenFailsDoes, <2>2 DEF StreamsOpened, send, net, recv
  <2> QED BY <1>0, <1>1, <2>1, <2>2
          DEF Start, Negotiate, Stream, Answer, Control, Reuse, Connect,
              ConnectFails, Request, RequestFails, OnAccepted, OnRejected,
              AllOpened, Complete, OnAck, SenderFails, Accept, Reject,
              OnRequest, Prepare, Respond, RespondFails, Joined, OnComplete,
              CompleteLost, Publish, PublishFails, Ack, AckFails, Answered,
              Taken, send, net, recv, wr, disk
<1>2. ASSUME NEW k \in Transfers, NEW i \in Streams,
             Tasks(k, i) \/ Reader(k, i) \/ Writer(k, i) \/ WriterFails(k, i)
      PROVE  StreamsOpened'
  <2>1. CASE SendChunk(k, i)
    <3>1. wire[k][i] \in Seq(Chunks \cup {Header}) /\ next[k][i] \in Chunks
      <4>1. wire[k][i] \in Seq(Chunks \cup {Header}) /\ next[k][i] \in 0..N
        BY OneStream
      <4>2. next[k][i] < PastOf(i, N, NStreams)
        BY SendChunkDoes, <2>1
      <4> QED BY <4>1, <4>2, BeforeThePast
    <3>2. Append(wire[k][i], next[k][i]) # <<>>
      BY <3>1
    <3>3. /\ \A j \in Transfers, l \in Streams :
               wire'[j][l] = IF j = k /\ l = i THEN Append(wire[k][i], next[k][i])
                             ELSE wire[j][l]
          /\ task[k][i] = "running"
          /\ UNCHANGED <<opened, task, reader>>
      BY SendChunkDoes, <2>1 DEF recv
    <3>4. \A j \in Transfers, l \in Streams :
            wire'[j][l] # <<>> /\ wire[j][l] = <<>> => task[j][l] = "running"
      BY <3>3
    <3>5. \A j \in Transfers, l \in Streams : wire[j][l] # <<>> => wire'[j][l] # <<>>
      BY <3>2, <3>3
    <3> QED BY <3>3, <3>4, <3>5 DEF StreamsOpened
  <2>2. CASE TaskEnds(k, i)
    BY TaskEndsDoes, <2>2 DEF StreamsOpened, send, net, recv
  <2>3. CASE ReadHeader(k, i)
    <3>1. /\ \A j \in Transfers, l \in Streams :
               wire'[j][l] = IF j = k /\ l = i THEN Tail(wire[k][i]) ELSE wire[j][l]
          /\ \A j \in Transfers, l \in Streams :
               ~(j = k /\ l = i) => reader'[j][l] = reader[j][l]
          /\ UNCHANGED <<opened, task>>
          /\ wire[k][i] # <<>>
      <4>1. /\ \A j \in Transfers, l \in Streams :
                 reader'[j][l] = IF j = k /\ l = i
                    THEN (IF route[on[k]] = Nobody THEN Stopped ELSE route[on[k]])
                    ELSE reader[j][l]
        BY ReadHeaderDoes, <2>3
      <4>2. /\ \A j \in Transfers, l \in Streams :
                 wire'[j][l] = IF j = k /\ l = i THEN Tail(wire[k][i]) ELSE wire[j][l]
            /\ wire[k][i] # <<>> /\ UNCHANGED <<opened, task>>
        BY ReadHeaderDoes, <2>3 DEF send
      <4> QED BY <4>1, <4>2
    <3>2. reader'[k][i] # Nobody
      BY HeaderIsRead, <2>3
    <3> QED BY <3>1, <3>2 DEF StreamsOpened
  <2>4. CASE Forward(k, i)
    <3>1. /\ \A j \in Transfers, l \in Streams :
               wire'[j][l] = IF j = k /\ l = i THEN Tail(wire[k][i]) ELSE wire[j][l]
          /\ UNCHANGED <<opened, task, reader>>
          /\ reader[k][i] # Nobody /\ wire[k][i] # <<>>
      BY ForwardDoes, <2>4, Ranges DEF recv, send
    <3> QED BY <3>1 DEF StreamsOpened
  <2>5. CASE ReaderEnds(k, i)
    <3>1. Stopped # Nobody /\ reader[k][i] # Nobody
      BY ReaderEndsDoes, <2>5, Ranges
    <3> QED BY ReaderEndsDoes, <2>5, <3>1 DEF StreamsOpened, send, net
  <2> QED BY <1>0, <1>2, <2>1, <2>2, <2>3, <2>4, <2>5
          DEF Tasks, Reader, Writer, OpenTemp, WriteChunk, WriterEnds,
              WriterFails, Consume, send, net, recv, wr, disk
<1>3. CASE Break
  <2>1. \A j \in Transfers, l \in Streams :
          /\ \/ reader'[j][l] = Stopped /\ task[j][l] # "none" /\ task'[j][l] # "none"
             \/ task[j][l] = "none" /\ task'[j][l] = "none" /\ reader'[j][l] = reader[j][l]
             \/ /\ reader'[j][l] = reader[j][l] /\ task'[j][l] = task[j][l]
                /\ wire'[j][l] = wire[j][l]
          /\ wire'[j][l] = wire[j][l] \/ wire'[j][l] = <<>>
          /\ UNCHANGED opened
    BY BreakDoes, <1>3
  <2> QED BY <2>1, Ranges DEF StreamsOpened
<1>4. CASE UNCHANGED vars
  BY <1>0, <1>4 DEF vars, send, net, recv, wr, disk
<1> QED BY <1>1, <1>2, <1>3, <1>4 DEF Next

(* The tasks are joined when every data stream was opened.                 *)
LEMMA EveryStreamOpenedKept ==
  ASSUME TypeOK, EveryStreamOpened, [Next]_vars
  PROVE  EveryStreamOpened'
<1>0. UNCHANGED <<spc, opened>> => EveryStreamOpened'
  BY DEF EveryStreamOpened, MoreStreams
<1>1. ASSUME NEW k \in Transfers,
             Start(k) \/ Negotiate(k) \/ Stream(k) \/ Answer(k) \/ Control(k)
      PROVE  EveryStreamOpened'
  <2>1. CASE Reuse(k)
    BY RpcTypes, Ranges, <2>1 DEF EveryStreamOpened, Reuse, MaySend, MoreStreams, send
  <2>2. CASE Connect(k)
    BY RpcTypes, Ranges, <2>2 DEF EveryStreamOpened, Connect, MaySend, MoreStreams, send
  <2>3. CASE ConnectFails(k)
    BY RpcTypes, Ranges, <2>3 DEF EveryStreamOpened, ConnectFails, MaySend, MoreStreams, send
  <2>4. CASE Request(k)
    BY RpcTypes, Ranges, <2>4 DEF EveryStreamOpened, Request, MoreStreams, send
  <2>5. CASE RequestFails(k)
    BY RpcTypes, Ranges, <2>5 DEF EveryStreamOpened, RequestFails, Marked, MoreStreams, send
  <2>6. CASE OnAccepted(k)
    BY RpcTypes, Ranges, <2>6 DEF EveryStreamOpened, OnAccepted, Answered, Marked, MoreStreams, send
  <2>7. CASE OnRejected(k)
    BY RpcTypes, Ranges, <2>7 DEF EveryStreamOpened, OnRejected, Answered, MoreStreams, send
  <2>8. CASE OpenStream(k)
    <3>1. /\ spc[k] = "opening" /\ UNCHANGED spc
          /\ \A j \in Transfers : j # k => opened'[j] = opened[j]
      BY OpenStreamDoes, <2>8
    <3> QED BY <3>1 DEF EveryStreamOpened, MoreStreams
  <2>9. CASE OpenFails(k)
    BY OpenFailsDoes, <2>9 DEF EveryStreamOpened, MoreStreams, send
  <2>10. CASE AllOpened(k)
    BY RpcTypes, Ranges, <2>10 DEF EveryStreamOpened, AllOpened, MoreStreams, send
  <2>11. CASE Complete(k)
    BY RpcTypes, Ranges, <2>11 DEF EveryStreamOpened, Complete, Up, MoreStreams, send
  <2>12. CASE OnAck(k)
    BY RpcTypes, Ranges, <2>12 DEF EveryStreamOpened, OnAck, Answered, MoreStreams, send
  <2>13. CASE SenderFails(k)
    BY RpcTypes, Ranges, <2>13 DEF EveryStreamOpened, SenderFails, MoreStreams, send
  <2> QED BY <1>0, <1>1, <2>1, <2>2, <2>3, <2>4, <2>5, <2>6, <2>7, <2>8,
            <2>9, <2>10, <2>11, <2>12, <2>13
          DEF Start, Negotiate, Stream, Answer, Control, Accept, Reject,
              OnRequest, Prepare, Respond, RespondFails, Joined, OnComplete,
              CompleteLost, Publish, PublishFails, Ack, AckFails, Answered,
              Taken, send, net, recv, wr, disk
<1>2. ASSUME NEW k \in Transfers, NEW i \in Streams,
             Tasks(k, i) \/ Reader(k, i) \/ Writer(k, i) \/ WriterFails(k, i)
      PROVE  EveryStreamOpened'
  <2> QED BY <1>0, <1>2
          DEF Tasks, Reader, Writer, SendChunk, TaskEnds, ReadHeader,
              Forward, ReaderEnds, OpenTemp, WriteChunk, WriterEnds,
              WriterFails, Consume, send, net, recv, wr, disk
<1>3. CASE Break
  BY <1>0, <1>3 DEF Break, wr, disk
<1>4. CASE UNCHANGED vars
  BY <1>0, <1>4 DEF vars, send, net, recv, wr, disk
<1> QED BY <1>1, <1>2, <1>3, <1>4 DEF Next

(* The writers run while the handler joins them.                           *)
LEMMA WritersLiveKept ==
  ASSUME TypeOK, WritersLive, AcceptedFirst, [Next]_vars
  PROVE  WritersLive'
<1>0. UNCHANGED <<rpc, writer>> => WritersLive'
  BY DEF WritersLive, ReceiverOver, Unanswered, Past
<1>1. ASSUME NEW k \in Transfers,
             Start(k) \/ Negotiate(k) \/ Stream(k) \/ Answer(k) \/ Control(k)
      PROVE  WritersLive'
  <2>1. CASE Accept(k)
    BY RpcTypes, StreamTypes, Ranges, <2>1 DEF WritersLive, Accept, ReceiverOver, Unanswered, Past, recv, wr
  <2>2. CASE Reject(k)
    BY RpcTypes, StreamTypes, Ranges, <2>2 DEF WritersLive, Reject, ReceiverOver, Unanswered, Past, recv, wr
  <2>3. CASE OnRequest(k)
    BY RpcTypes, StreamTypes, Ranges, <2>3 DEF WritersLive, OnRequest, Taken, ReceiverOver, Unanswered, Past, recv, wr
  <2>4. CASE Prepare(k)
    BY RpcTypes, StreamTypes, Ranges, <2>4 DEF WritersLive, Prepare, Blank, ReceiverOver, Unanswered, Past, recv, wr
  <2>5. CASE Respond(k)
    BY RespondDoes, <2>5 DEF WritersLive, ReceiverOver, Unanswered, Past, recv, wr
  <2>6. CASE RespondFails(k)
    BY RpcTypes, StreamTypes, Ranges, <2>6 DEF WritersLive, RespondFails, ReceiverOver, Unanswered, Past, recv, wr
  <2>7. CASE Joined(k)
    BY RpcTypes, StreamTypes, Ranges, <2>7 DEF WritersLive, Joined, ReceiverOver, Unanswered, Past, recv, wr
  <2>8. CASE OnComplete(k)
    BY RpcTypes, StreamTypes, Ranges, <2>8 DEF WritersLive, OnComplete, Taken, ReceiverOver, Unanswered, Past, recv,
        wr
  <2>9. CASE CompleteLost(k)
    BY RpcTypes, StreamTypes, Ranges, <2>9 DEF WritersLive, CompleteLost, ReceiverOver, Unanswered, Past, recv, wr
  <2>10. CASE Publish(k)
    BY RpcTypes, StreamTypes, Ranges, <2>10 DEF WritersLive, Publish, ReceiverOver, Unanswered, Past, recv, wr
  <2>11. CASE PublishFails(k)
    BY RpcTypes, StreamTypes, Ranges, <2>11 DEF WritersLive, PublishFails, ReceiverOver, Unanswered, Past, recv, wr
  <2>12. CASE Ack(k)
    BY RpcTypes, StreamTypes, Ranges, <2>12 DEF WritersLive, Ack, ReceiverOver, Unanswered, Past, recv, wr
  <2>13. CASE AckFails(k)
    BY RpcTypes, StreamTypes, Ranges, <2>13 DEF WritersLive, AckFails, ReceiverOver, Unanswered, Past, recv, wr
  <2> QED BY <1>0, <1>1, <2>1, <2>2, <2>3, <2>4, <2>5, <2>6, <2>7, <2>8,
            <2>9, <2>10, <2>11, <2>12, <2>13
          DEF Start, Negotiate, Stream, Answer, Control, Reuse, Connect,
              ConnectFails, Request, RequestFails, OnAccepted, OnRejected,
              OpenStream, OpenFails, AllOpened, Complete, OnAck, SenderFails,
              Answered, Taken, send, net, recv, wr, disk
<1>2. ASSUME NEW k \in Transfers, NEW i \in Streams,
             Tasks(k, i) \/ Reader(k, i) \/ Writer(k, i) \/ WriterFails(k, i)
      PROVE  WritersLive'
  <2>1. CASE OpenTemp(k, i)
    BY OpenTempDoes, <2>1 DEF WritersLive, ReceiverOver, Unanswered, Past, recv, wr
  <2>2. CASE WriteChunk(k, i)
    BY WriteChunkDoes, <2>2 DEF WritersLive, ReceiverOver, Unanswered, Past, recv, wr
  <2>3. CASE WriterEnds(k, i)
    BY WriterEndsDoes, <2>3 DEF WritersLive, ReceiverOver, Unanswered, Past, recv, wr
  <2>4. CASE WriterFails(k, i)
    BY WriterFailsDoes, <2>4 DEF WritersLive, ReceiverOver, Unanswered, Past, recv, wr
  <2> QED BY <1>0, <1>2, <2>1, <2>2, <2>3, <2>4
          DEF Tasks, Reader, Writer, SendChunk, TaskEnds, ReadHeader,
              Forward, ReaderEnds, Consume, send, net, recv, wr, disk
<1>3. CASE Break
  BY <1>0, <1>3 DEF Break, wr, disk
<1>4. CASE UNCHANGED vars
  BY <1>0, <1>4 DEF vars, send, net, recv, wr, disk
<1> QED BY <1>1, <1>2, <1>3, <1>4 DEF Next

(* A route leads to a transfer that was let in.                            *)
LEMMA RoutesLetInKept ==
  ASSUME TypeOK, RoutesLetIn, [Next]_vars
  PROVE  RoutesLetIn'
<1>0. UNCHANGED <<rpc, route, reader>> => RoutesLetIn'
  BY DEF RoutesLetIn, ReceiverOver, Unanswered, LetIn
<1>1. ASSUME NEW k \in Transfers,
             Start(k) \/ Negotiate(k) \/ Stream(k) \/ Answer(k) \/ Control(k)
      PROVE  RoutesLetIn'
  <2>1. CASE Accept(k)
    BY RpcTypes, StreamTypes, Ranges, <2>1 DEF RoutesLetIn, Accept, ReceiverOver, Unanswered, LetIn, recv
  <2>2. CASE Reject(k)
    BY RpcTypes, StreamTypes, Ranges, <2>2 DEF RoutesLetIn, Reject, ReceiverOver, Unanswered, LetIn, recv
  <2>3. CASE OnRequest(k)
    BY RpcTypes, StreamTypes, Ranges, <2>3 DEF RoutesLetIn, OnRequest, Taken, ReceiverOver, Unanswered, LetIn, recv
  <2>4. CASE Prepare(k)
    BY RpcTypes, StreamTypes, Ranges, <2>4 DEF RoutesLetIn, Prepare, Blank, ReceiverOver, Unanswered, LetIn, recv
  <2>5. CASE Respond(k)
    BY RespondDoes, <2>5 DEF RoutesLetIn, ReceiverOver, Unanswered, LetIn, recv
  <2>6. CASE RespondFails(k)
    BY RpcTypes, StreamTypes, Ranges, <2>6 DEF RoutesLetIn, RespondFails, ReceiverOver, Unanswered, LetIn, recv
  <2>7. CASE Joined(k)
    BY RpcTypes, StreamTypes, Ranges, <2>7 DEF RoutesLetIn, Joined, ReceiverOver, Unanswered, LetIn, recv
  <2>8. CASE OnComplete(k)
    BY RpcTypes, StreamTypes, Ranges, <2>8 DEF RoutesLetIn, OnComplete, Taken, ReceiverOver, Unanswered, LetIn, recv
  <2>9. CASE CompleteLost(k)
    BY RpcTypes, StreamTypes, Ranges, <2>9 DEF RoutesLetIn, CompleteLost, ReceiverOver, Unanswered, LetIn, recv
  <2>10. CASE Publish(k)
    BY RpcTypes, StreamTypes, Ranges, <2>10 DEF RoutesLetIn, Publish, ReceiverOver, Unanswered, LetIn, recv
  <2>11. CASE PublishFails(k)
    BY RpcTypes, StreamTypes, Ranges, <2>11 DEF RoutesLetIn, PublishFails, ReceiverOver, Unanswered, LetIn, recv
  <2>12. CASE Ack(k)
    BY RpcTypes, StreamTypes, Ranges, <2>12 DEF RoutesLetIn, Ack, ReceiverOver, Unanswered, LetIn, recv
  <2>13. CASE AckFails(k)
    BY RpcTypes, StreamTypes, Ranges, <2>13 DEF RoutesLetIn, AckFails, ReceiverOver, Unanswered, LetIn, recv
  <2> QED BY <1>0, <1>1, <2>1, <2>2, <2>3, <2>4, <2>5, <2>6, <2>7, <2>8,
            <2>9, <2>10, <2>11, <2>12, <2>13
          DEF Start, Negotiate, Stream, Answer, Control, Reuse, Connect,
              ConnectFails, Request, RequestFails, OnAccepted, OnRejected,
              OpenStream, OpenFails, AllOpened, Complete, OnAck, SenderFails,
              Answered, Taken, send, net, recv, wr, disk
<1>2. ASSUME NEW k \in Transfers, NEW i \in Streams,
             Tasks(k, i) \/ Reader(k, i) \/ Writer(k, i) \/ WriterFails(k, i)
      PROVE  RoutesLetIn'
  <2>1. CASE ReadHeader(k, i)
    <3>1. /\ \A j \in Transfers, l \in Streams :
               \/ reader'[j][l] = reader[j][l]
               \/ reader'[j][l] = Stopped
               \/ on[k] \in Conns /\ route[on[k]] # Nobody /\ reader'[j][l] = route[on[k]]
          /\ LetIn' = LetIn /\ UNCHANGED route
      <4>1. \A j \in Transfers, l \in Streams :
              reader'[j][l] = IF j = k /\ l = i
                 THEN (IF route[on[k]] = Nobody THEN Stopped ELSE route[on[k]])
                 ELSE reader[j][l]
        BY ReadHeaderDoes, <2>1
      <4>2. on[k] \in Conns /\ UNCHANGED <<rpc, route>>
        BY ReadHeaderDoes, <2>1
      <4>3. LetIn' = LetIn
        BY <4>2 DEF LetIn
      <4>4. CASE route[on[k]] = Nobody
        BY <4>1, <4>2, <4>3, <4>4
      <4>5. CASE route[on[k]] # Nobody
        BY <4>1, <4>2, <4>3, <4>5
      <4> QED BY <4>4, <4>5
    <3> QED BY <3>1, Ranges DEF RoutesLetIn
  <2>2. CASE ReaderEnds(k, i)
    <3>1. /\ \A j \in Transfers, l \in Streams :
               \/ reader'[j][l] = reader[j][l]
               \/ reader'[j][l] = Stopped
          /\ LetIn' = LetIn /\ UNCHANGED route
      BY ReaderEndsDoes, <2>2 DEF LetIn
    <3> QED BY <3>1, Ranges DEF RoutesLetIn
  <2> QED BY <1>0, <1>2, <2>1, <2>2
          DEF Tasks, Reader, Writer, SendChunk, TaskEnds, Forward, OpenTemp,
              WriteChunk, WriterEnds, WriterFails, Consume, send, net, recv,
              wr, disk
<1>3. CASE Break
  BY Ranges, BreakDoes, <1>3 DEF RoutesLetIn, ReceiverOver, Unanswered, LetIn, recv
<1>4. CASE UNCHANGED vars
  BY <1>0, <1>4 DEF vars, send, net, recv, wr, disk
<1> QED BY <1>1, <1>2, <1>3, <1>4 DEF Next

(* A file with its final name was published.                               *)
LEMMA FinalPublishedKept ==
  ASSUME TypeOK, FinalPublished, [Next]_vars
  PROVE  FinalPublished'
<1>0. UNCHANGED <<rpc, final>> => FinalPublished'
  BY DEF FinalPublished, ReceiverOver
<1>1. ASSUME NEW k \in Transfers,
             Start(k) \/ Negotiate(k) \/ Stream(k) \/ Answer(k) \/ Control(k)
      PROVE  FinalPublished'
  <2>1. CASE Accept(k)
    BY RpcTypes, StreamTypes, Ranges, <2>1 DEF FinalPublished, Accept, ReceiverOver, recv, disk
  <2>2. CASE Reject(k)
    BY RpcTypes, StreamTypes, Ranges, <2>2 DEF FinalPublished, Reject, ReceiverOver, recv, disk
  <2>3. CASE OnRequest(k)
    BY RpcTypes, StreamTypes, Ranges, <2>3 DEF FinalPublished, OnRequest, Taken, ReceiverOver, recv, disk
  <2>4. CASE Prepare(k)
    BY RpcTypes, StreamTypes, Ranges, <2>4 DEF FinalPublished, Prepare, Blank, ReceiverOver, recv, disk
  <2>5. CASE Respond(k)
    BY RespondDoes, <2>5 DEF FinalPublished, ReceiverOver, recv, disk
  <2>6. CASE RespondFails(k)
    BY RpcTypes, StreamTypes, Ranges, <2>6 DEF FinalPublished, RespondFails, ReceiverOver, recv, disk
  <2>7. CASE Joined(k)
    BY RpcTypes, StreamTypes, Ranges, <2>7 DEF FinalPublished, Joined, ReceiverOver, recv, disk
  <2>8. CASE OnComplete(k)
    BY RpcTypes, StreamTypes, Ranges, <2>8 DEF FinalPublished, OnComplete, Taken, ReceiverOver, recv, disk
  <2>9. CASE CompleteLost(k)
    BY RpcTypes, StreamTypes, Ranges, <2>9 DEF FinalPublished, CompleteLost, ReceiverOver, recv, disk
  <2>10. CASE Publish(k)
    BY RpcTypes, StreamTypes, Ranges, <2>10 DEF FinalPublished, Publish, ReceiverOver, recv, disk
  <2>11. CASE PublishFails(k)
    BY RpcTypes, StreamTypes, Ranges, <2>11 DEF FinalPublished, PublishFails, ReceiverOver, recv, disk
  <2>12. CASE Ack(k)
    BY RpcTypes, StreamTypes, Ranges, <2>12 DEF FinalPublished, Ack, ReceiverOver, recv, disk
  <2>13. CASE AckFails(k)
    BY RpcTypes, StreamTypes, Ranges, <2>13 DEF FinalPublished, AckFails, ReceiverOver, recv, disk
  <2> QED BY <1>0, <1>1, <2>1, <2>2, <2>3, <2>4, <2>5, <2>6, <2>7, <2>8,
            <2>9, <2>10, <2>11, <2>12, <2>13
          DEF Start, Negotiate, Stream, Answer, Control, Reuse, Connect,
              ConnectFails, Request, RequestFails, OnAccepted, OnRejected,
              OpenStream, OpenFails, AllOpened, Complete, OnAck, SenderFails,
              Answered, Taken, send, net, recv, wr, disk
<1>2. ASSUME NEW k \in Transfers, NEW i \in Streams,
             Tasks(k, i) \/ Reader(k, i) \/ Writer(k, i) \/ WriterFails(k, i)
      PROVE  FinalPublished'
  <2> QED BY <1>0, <1>2
          DEF Tasks, Reader, Writer, SendChunk, TaskEnds, ReadHeader,
              Forward, ReaderEnds, OpenTemp, WriteChunk, WriterEnds,
              WriterFails, Consume, send, net, recv, wr, disk
<1>3. CASE Break
  BY <1>0, <1>3 DEF Break, wr, disk
<1>4. CASE UNCHANGED vars
  BY <1>0, <1>4 DEF vars, send, net, recv, wr, disk
<1> QED BY <1>1, <1>2, <1>3, <1>4 DEF Next

(* The state of one data stream: what WireInOrder says of it.              *)
InOrder(r, w, x) ==
  r # Stopped => \A n \in DOMAIN w :
    w[n] = IF n = 1 /\ r = Nobody THEN Header ELSE x + n - 1 - Len(w)

LEMMA WireParts ==
  WireInOrder <=> \A k \in Transfers, i \in Streams :
                    InOrder(reader[k][i], wire[k][i], next[k][i])
BY DEF WireInOrder, InOrder

LEMMA SentInOrder ==
  ASSUME NEW r, NEW S, NEW w \in Seq(S), NEW x \in Nat, x \in S, InOrder(r, w, x),
         r = Nobody => w # <<>>
  PROVE  InOrder(r, Append(w, x), x + 1)
<1>1. /\ DOMAIN w = 1..Len(w) /\ DOMAIN Append(w, x) = 1..Len(w) + 1
      /\ Len(w) \in Nat /\ Len(Append(w, x)) = Len(w) + 1
      /\ Append(w, x)[Len(w) + 1] = x
      /\ \A n \in 1..Len(w) : Append(w, x)[n] = w[n]
      /\ w # <<>> => Len(w) # 0
  BY Appending
<1> SUFFICES ASSUME r # Stopped, NEW n \in 1..Len(w) + 1
             PROVE  Append(w, x)[n] = IF n = 1 /\ r = Nobody THEN Header
                                      ELSE x + 1 + n - 1 - (Len(w) + 1)
  BY <1>1 DEF InOrder
<1>2. CASE n \in 1..Len(w)
  BY <1>1, <1>2 DEF InOrder
<1>3. CASE n = Len(w) + 1
  BY <1>1, <1>3
<1> QED BY <1>1, <1>2, <1>3

LEMMA TakenInOrder ==
  ASSUME NEW r, NEW t, NEW S, NEW w \in Seq(S), w # <<>>, NEW x \in Nat,
         InOrder(r, w, x), r # Stopped, t # Nobody
  PROVE  InOrder(t, Tail(w), x)
<1>1. /\ DOMAIN w = 1..Len(w) /\ DOMAIN Tail(w) = 1..Len(w) - 1
      /\ Len(w) \in Nat \ {0} /\ Len(Tail(w)) = Len(w) - 1
      /\ \A n \in 1..Len(w) - 1 : Tail(w)[n] = w[n + 1]
  <2>1. Tail(w) \in Seq(S) /\ DOMAIN w = 1..Len(w)
    BY Taking
  <2>2. DOMAIN Tail(w) = 1..Len(Tail(w))
    BY <2>1
  <2> QED BY <2>1, <2>2, Taking
<1> SUFFICES ASSUME NEW n \in 1..Len(w) - 1
             PROVE  Tail(w)[n] = x + n - 1 - (Len(w) - 1)
  BY <1>1 DEF InOrder
<1>2. n + 1 \in DOMAIN w /\ n + 1 # 1
  BY <1>1
<1>3. w[n + 1] = x + (n + 1) - 1 - Len(w)
  BY <1>2 DEF InOrder
<1> QED BY <1>1, <1>3

(* The wire stays in order.                                                *)
LEMMA WireKept ==
  ASSUME TypeOK, StreamsOpened, WireInOrder, [Next]_vars
  PROVE  WireInOrder'
<1>0. UNCHANGED <<reader, wire, next>> => WireInOrder'
  BY DEF WireInOrder
<1>1. ASSUME NEW k \in Transfers,
             Start(k) \/ Negotiate(k) \/ Stream(k) \/ Answer(k) \/ Control(k)
      PROVE  WireInOrder'
  <2>1. CASE OpenStream(k)
    <3> SUFFICES ASSUME NEW j \in Transfers, NEW l \in Streams
                 PROVE  InOrder(reader'[j][l], wire'[j][l], next'[j][l])
      BY DEF WireInOrder, InOrder
    <3>1. InOrder(reader[j][l], wire[j][l], next[j][l])
      BY WireParts
    <3>2. PICK i \in Streams :
            /\ i = opened[k]
            /\ reader'[j][l] = reader[j][l]
            /\ wire'[j][l] = IF j = k /\ l = i THEN <<Header>> ELSE wire[j][l]
            /\ next'[j][l] = IF j = k /\ l = i THEN FirstOf(i, N, NStreams) ELSE next[j][l]
      BY OpenStreamDoes, <2>1 DEF recv
    <3>3. CASE j = k /\ l = i
      <4>1. reader[k][i] = Nobody
        <5>1. ~(i < opened[k])
          BY <3>2, Ranges DEF Streams
        <5> QED BY <5>1, OneStream DEF StreamsOpened
      <4>2. InOrder(Nobody, <<Header>>, next'[j][l])
        BY DEF InOrder
      <4> QED BY <3>2, <3>3, <4>1, <4>2
    <3>4. CASE ~(j = k /\ l = i)
      BY <3>1, <3>2, <3>4
    <3> QED BY <3>3, <3>4
  <2> QED BY <1>0, <1>1, <2>1
          DEF Start, Negotiate, Stream, Answer, Control, Reuse, Connect,
              ConnectFails, Request, RequestFails, OnAccepted, OnRejected,
              OpenFails, AllOpened, Complete, OnAck, SenderFails, Accept,
              Reject, OnRequest, Prepare, Respond, RespondFails, Joined,
              OnComplete, CompleteLost, Publish, PublishFails, Ack, AckFails,
              Answered, Taken, send, net, recv, wr, disk
<1>2. ASSUME NEW k \in Transfers, NEW i \in Streams,
             Tasks(k, i) \/ Reader(k, i) \/ Writer(k, i) \/ WriterFails(k, i)
      PROVE  WireInOrder'
  <2>1. CASE SendChunk(k, i)
    <3> SUFFICES ASSUME NEW j \in Transfers, NEW l \in Streams
                 PROVE  InOrder(reader'[j][l], wire'[j][l], next'[j][l])
      BY DEF WireInOrder, InOrder
    <3>1. InOrder(reader[j][l], wire[j][l], next[j][l])
      BY WireParts
    <3>2. /\ task[k][i] = "running" /\ next[k][i] < PastOf(i, N, NStreams)
          /\ reader'[j][l] = reader[j][l]
          /\ wire'[j][l] = IF j = k /\ l = i THEN Append(wire[k][i], next[k][i])
                           ELSE wire[j][l]
          /\ next'[j][l] = IF j = k /\ l = i THEN next[k][i] + 1 ELSE next[j][l]
      BY SendChunkDoes, <2>1 DEF recv
    <3>3. CASE j = k /\ l = i
      <4>1. reader[k][i] = Nobody => wire[k][i] # <<>>
        BY <3>2 DEF StreamsOpened
      <4>2. wire[k][i] \in Seq(Chunks \cup {Header}) /\ next[k][i] \in 0..N
        BY StreamTypes
      <4>3. next[k][i] \in Nat /\ next[k][i] \in Chunks \cup {Header}
        BY <3>2, <4>2, BeforeThePast
      <4>4. InOrder(reader[k][i], wire[k][i], next[k][i])
        BY WireParts
      <4>5. InOrder(reader[k][i], Append(wire[k][i], next[k][i]), next[k][i] + 1)
        BY <4>1, <4>2, <4>3, <4>4, SentInOrder
      <4> QED BY <3>2, <3>3, <4>5
    <3>4. CASE ~(j = k /\ l = i)
      BY <3>1, <3>2, <3>4
    <3> QED BY <3>3, <3>4
  <2>2. CASE ReadHeader(k, i)
    <3> SUFFICES ASSUME NEW j \in Transfers, NEW l \in Streams
                 PROVE  InOrder(reader'[j][l], wire'[j][l], next'[j][l])
      BY DEF WireInOrder, InOrder
    <3>1. InOrder(reader[j][l], wire[j][l], next[j][l])
      BY WireParts
    <3>2. /\ wire[k][i] # <<>> /\ next'[j][l] = next[j][l]
          /\ wire'[j][l] = IF j = k /\ l = i THEN Tail(wire[k][i]) ELSE wire[j][l]
      BY ReadHeaderDoes, <2>2 DEF send
    <3>3. /\ reader'[k][i] # Nobody /\ reader[k][i] # Stopped
          /\ ~(j = k /\ l = i) => reader'[j][l] = reader[j][l]
      BY ReadHeaderDoes, HeaderIsRead, <2>2 DEF recv
    <3>4. CASE j = k /\ l = i
      <4>1. wire[k][i] \in Seq(Chunks \cup {Header}) /\ next[k][i] \in Nat
        BY OneStream
      <4>2. InOrder(reader[k][i], wire[k][i], next[k][i])
        BY WireParts
      <4>3. InOrder(reader'[k][i], Tail(wire[k][i]), next[k][i])
        BY <3>2, <3>3, <4>1, <4>2, TakenInOrder
      <4> QED BY <3>2, <3>4, <4>3
    <3>5. CASE ~(j = k /\ l = i)
      BY <3>1, <3>2, <3>3, <3>5
    <3> QED BY <3>4, <3>5
  <2>3. CASE Forward(k, i)
    <3> SUFFICES ASSUME NEW j \in Transfers, NEW l \in Streams
                 PROVE  InOrder(reader'[j][l], wire'[j][l], next'[j][l])
      BY DEF WireInOrder, InOrder
    <3>1. InOrder(reader[j][l], wire[j][l], next[j][l])
      BY WireParts
    <3>2. /\ wire[k][i] # <<>> /\ next'[j][l] = next[j][l]
          /\ wire'[j][l] = IF j = k /\ l = i THEN Tail(wire[k][i]) ELSE wire[j][l]
      BY ForwardDoes, <2>3 DEF send
    <3>3. /\ reader'[k][i] # Nobody /\ reader[k][i] # Stopped
          /\ ~(j = k /\ l = i) => reader'[j][l] = reader[j][l]
      BY ForwardDoes, Ranges, <2>3 DEF recv
    <3>4. CASE j = k /\ l = i
      <4>1. wire[k][i] \in Seq(Chunks \cup {Header}) /\ next[k][i] \in Nat
        BY OneStream
      <4>2. InOrder(reader[k][i], wire[k][i], next[k][i])
        BY WireParts
      <4>3. InOrder(reader'[k][i], Tail(wire[k][i]), next[k][i])
        BY <3>2, <3>3, <4>1, <4>2, TakenInOrder
      <4> QED BY <3>2, <3>4, <4>3
    <3>5. CASE ~(j = k /\ l = i)
      BY <3>1, <3>2, <3>3, <3>5
    <3> QED BY <3>4, <3>5
  <2>4. CASE ReaderEnds(k, i)
    <3> SUFFICES ASSUME NEW j \in Transfers, NEW l \in Streams
                 PROVE  InOrder(reader'[j][l], wire'[j][l], next'[j][l])
      BY DEF WireInOrder, InOrder
    <3>1. InOrder(reader[j][l], wire[j][l], next[j][l])
      BY WireParts
    <3>2. /\ wire'[j][l] = wire[j][l] /\ next'[j][l] = next[j][l]
          /\ reader'[j][l] = Stopped \/ reader'[j][l] = reader[j][l]
      BY ReaderEndsDoes, <2>4 DEF send, net
    <3> QED BY <3>1, <3>2 DEF InOrder
  <2> QED BY <1>0, <1>2, <2>1, <2>2, <2>3, <2>4
          DEF Tasks, Reader, Writer, TaskEnds, OpenTemp, WriteChunk,
              WriterEnds, WriterFails, Consume, send, net, recv, wr, disk
<1>3. CASE Break
  <2> SUFFICES ASSUME NEW j \in Transfers, NEW l \in Streams
                 PROVE  InOrder(reader'[j][l], wire'[j][l], next'[j][l])
    BY DEF WireInOrder, InOrder
  <2>1. InOrder(reader[j][l], wire[j][l], next[j][l])
    BY WireParts
  <2>2. /\ wire'[j][l] = <<>> \/ wire'[j][l] = wire[j][l]
        /\ next'[j][l] = next[j][l]
        /\ reader'[j][l] = Stopped \/ reader'[j][l] = reader[j][l]
    BY BreakDoes, <1>3
  <2>3. InOrder(reader[j][l], <<>>, next[j][l])
    BY DEF InOrder
  <2>4. CASE wire'[j][l] = <<>>
    BY <2>1, <2>2, <2>3, <2>4 DEF InOrder
  <2>5. CASE wire'[j][l] = wire[j][l]
    <3>1. CASE reader'[j][l] = Stopped
      BY <3>1 DEF InOrder
    <3>2. CASE reader'[j][l] = reader[j][l]
      BY <2>1, <2>2, <2>5, <3>2
    <3> QED BY <2>2, <3>1, <3>2
  <2> QED BY <2>2, <2>4, <2>5
<1>4. CASE UNCHANGED vars
  BY <1>0, <1>4 DEF vars, send, net, recv, wr, disk
<1> QED BY <1>1, <1>2, <1>3, <1>4 DEF Next

(* While one transfer only is let in.                                      *)
Lone == \A j, k \in LetIn : j = k

LEMMA AloneIsLone == ASSUME Alone PROVE Lone
<1>1. IsFiniteSet(LetIn)
  <2>1. IsFiniteSet(Transfers)
    BY FS_Interval, Ranges DEF Transfers
  <2> QED BY <2>1, FS_Subset DEF LetIn
<1>2. Cardinality(LetIn) <= 1
  BY DEF Alone, LetIn, Unanswered
<1> SUFFICES ASSUME NEW j \in LetIn, NEW k \in LetIn, j # k PROVE FALSE
  BY DEF Lone
<1>3. IsFiniteSet({j, k}) /\ Cardinality({j, k}) <= Cardinality(LetIn)
  BY <1>1, FS_Subset
<1>4. Cardinality({j}) = 1 /\ IsFiniteSet({j})
  BY FS_Singleton
<1>5. Cardinality({j} \cup {k}) = 2
  <2>1. Cardinality({j} \cup {k}) = Cardinality({j}) + 1
    BY <1>4, FS_AddElement
  <2> QED BY <1>4, <2>1
<1>6. {j} \cup {k} = {j, k} /\ Cardinality(LetIn) \in Nat
  BY <1>1, FS_CardinalityType
<1> QED BY <1>2, <1>3, <1>5, <1>6

(* A transfer that was let in stays let in.                                *)
LEMMA LetInGrows == ASSUME TypeOK, [Next]_vars PROVE LetIn \subseteq LetIn'
<1> USE RpcTypes DEF LetIn, Unanswered, ReceiverOver
<1>0. UNCHANGED rpc => LetIn \subseteq LetIn'
  OBVIOUS
<1>1. ASSUME NEW k \in Transfers,
             Start(k) \/ Negotiate(k) \/ Stream(k) \/ Answer(k) \/ Control(k)
      PROVE  LetIn \subseteq LetIn'
  <2>1. CASE Accept(k)
    BY <2>1 DEF Accept
  <2>2. CASE Reject(k)
    BY <2>2 DEF Reject
  <2>3. CASE OnRequest(k)
    BY <2>3 DEF OnRequest
  <2>4. CASE Prepare(k)
    BY <2>4 DEF Prepare
  <2>5. CASE Respond(k)
    BY <2>5 DEF Respond
  <2>6. CASE RespondFails(k)
    BY <2>6 DEF RespondFails
  <2>7. CASE Joined(k)
    BY <2>7 DEF Joined
  <2>8. CASE OnComplete(k)
    BY <2>8 DEF OnComplete
  <2>9. CASE CompleteLost(k)
    BY <2>9 DEF CompleteLost
  <2>10. CASE Publish(k)
    BY <2>10 DEF Publish
  <2>11. CASE PublishFails(k)
    BY <2>11 DEF PublishFails
  <2>12. CASE Ack(k)
    BY <2>12 DEF Ack
  <2>13. CASE AckFails(k)
    BY <2>13 DEF AckFails
  <2> QED BY <1>0, <1>1, <2>1, <2>2, <2>3, <2>4, <2>5, <2>6, <2>7, <2>8,
            <2>9, <2>10, <2>11, <2>12, <2>13
          DEF Start, Negotiate, Stream, Answer, Control, Reuse, Connect,
              ConnectFails, Request, RequestFails, OnAccepted, OnRejected,
              OpenStream, OpenFails, AllOpened, Complete, OnAck, SenderFails,
              Answered, Taken, recv
<1>2. ASSUME NEW k \in Transfers, NEW i \in Streams,
             Tasks(k, i) \/ Reader(k, i) \/ Writer(k, i) \/ WriterFails(k, i)
      PROVE  LetIn \subseteq LetIn'
  BY <1>0, <1>2 DEF Tasks, Reader, Writer, SendChunk, TaskEnds, ReadHeader, Forward,
       ReaderEnds, OpenTemp, WriteChunk, WriterEnds, WriterFails, recv
<1>3. CASE Break
  BY <1>0, <1>3 DEF Break
<1>4. CASE UNCHANGED vars
  BY <1>0, <1>4 DEF vars, recv
<1> QED BY <1>1, <1>2, <1>3, <1>4 DEF Next

LEMMA AloneWas == ASSUME TypeOK, [Next]_vars, Alone' PROVE Alone
<1>1. IsFiniteSet(LetIn')
  <2>1. IsFiniteSet(Transfers)
    BY FS_Interval, Ranges DEF Transfers
  <2>2. LetIn' \subseteq Transfers
    BY DEF LetIn
  <2> QED BY <2>1, <2>2, FS_Subset
<1>2. IsFiniteSet(LetIn) /\ Cardinality(LetIn) <= Cardinality(LetIn')
  BY <1>1, LetInGrows, FS_Subset
<1>3. Cardinality(LetIn) \in Nat /\ Cardinality(LetIn') \in Nat
  BY <1>1, <1>2, FS_CardinalityType
<1>4. Cardinality(LetIn') <= 1
  BY DEF Alone, LetIn, Unanswered
<1>5. Cardinality(LetIn) <= 1
  BY <1>2, <1>3, <1>4
<1> QED BY <1>5 DEF Alone, LetIn, Unanswered

(* A transfer with a data stream was let in, and its reader feeds its own  *)
(* writers.                                                                *)
LEMMA StreamsLetIn ==
  ASSUME TypeOK, AcceptedFirst, StreamsOpened, WritersLive,
         NEW k \in Transfers, NEW i \in Streams, task[k][i] # "none"
  PROVE  writer[k][i] # "none" /\ k \in LetIn
<1>1. opened[k] > 0
  <2>1. i < opened[k]
    BY DEF StreamsOpened
  <2>2. i \in Nat /\ opened[k] \in 0..NStreams
    BY RpcTypes, Ranges DEF Streams
  <2> QED BY <2>1, <2>2, Ranges
<1>2. writer[k][i] # "none"
  BY <1>1 DEF AcceptedFirst
<1>3. rpc[k] \notin Unanswered
  BY <1>2 DEF WritersLive
<1> QED BY <1>2, <1>3 DEF LetIn

LEMMA OwnReader ==
  ASSUME TypeOK, AcceptedFirst, StreamsOpened, WritersLive, RoutesLetIn, Lone,
         NEW k \in Transfers, NEW i \in Streams, reader[k][i] \in Transfers
  PROVE  reader[k][i] = k
<1>1. task[k][i] # "none"
  BY Ranges DEF StreamsOpened
<1>2. k \in LetIn
  BY <1>1, StreamsLetIn
<1> QED BY <1>2 DEF RoutesLetIn, Lone

(* The route of the only transfer stays until its writers have ended.      *)
LEMMA RouteStaysKept ==
  ASSUME TypeOK, Linked, Lone, Lone', RouteStays, [Next]_vars
  PROVE  RouteStays'
<1>0. UNCHANGED <<rpc, on, route>> => RouteStays'
  BY DEF RouteStays
<1>1. ASSUME NEW k \in Transfers,
             Start(k) \/ Negotiate(k) \/ Stream(k) \/ Answer(k) \/ Control(k)
      PROVE  RouteStays'
  <2>1. CASE Reuse(k)
    <3> SUFFICES ASSUME NEW j \in Transfers, rpc'[j] \in {"prepared", "joining"}
                 PROVE  route'[on'[j]] = j
      BY DEF RouteStays
    <3>1. spc[k] = "idle" /\ UNCHANGED <<rpc, route>>
          /\ \A x \in Transfers : x # k => on'[x] = on[x]
      BY <2>1, RpcTypes DEF Reuse, MaySend, recv
    <3>2. j # k
      BY <3>1 DEF Linked
    <3> QED BY <3>1, <3>2 DEF RouteStays
  <2>2. CASE Connect(k)
    <3> SUFFICES ASSUME NEW j \in Transfers, rpc'[j] \in {"prepared", "joining"}
                 PROVE  route'[on'[j]] = j
      BY DEF RouteStays
    <3>1. spc[k] = "idle" /\ UNCHANGED <<rpc, route>>
          /\ \A x \in Transfers : x # k => on'[x] = on[x]
      BY <2>2, RpcTypes DEF Connect, MaySend, recv
    <3>2. j # k
      BY <3>1 DEF Linked
    <3> QED BY <3>1, <3>2 DEF RouteStays
  <2>3. CASE Accept(k)
    <3> SUFFICES ASSUME NEW j \in Transfers, rpc'[j] \in {"prepared", "joining"}
                 PROVE  route'[on'[j]] = j
      BY DEF RouteStays
    <3>1. /\ \A x \in Transfers \ {k} : rpc'[x] = rpc[x]
          /\ rpc'[k] \notin {"prepared", "joining"} /\ UNCHANGED <<route, on>>
      BY <2>3, RpcTypes DEF Accept, send, recv
    <3> QED BY <3>1 DEF RouteStays
  <2>4. CASE Reject(k)
    <3> SUFFICES ASSUME NEW j \in Transfers, rpc'[j] \in {"prepared", "joining"}
                 PROVE  route'[on'[j]] = j
      BY DEF RouteStays
    <3>1. /\ \A x \in Transfers \ {k} : rpc'[x] = rpc[x]
          /\ rpc'[k] \notin {"prepared", "joining"} /\ UNCHANGED <<route, on>>
      BY <2>4, RpcTypes DEF Reject, send, recv
    <3> QED BY <3>1 DEF RouteStays
  <2>5. CASE OnRequest(k)
    <3> SUFFICES ASSUME NEW j \in Transfers, rpc'[j] \in {"prepared", "joining"}
                 PROVE  route'[on'[j]] = j
      BY DEF RouteStays
    <3>1. /\ \A x \in Transfers \ {k} : rpc'[x] = rpc[x]
          /\ rpc'[k] \notin {"prepared", "joining"} /\ UNCHANGED <<route, on>>
      BY <2>5, RpcTypes DEF OnRequest, Taken, send, recv
    <3> QED BY <3>1 DEF RouteStays
  <2>6. CASE Prepare(k)
    <3> SUFFICES ASSUME NEW j \in Transfers, rpc'[j] \in {"prepared", "joining"}
                 PROVE  route'[on'[j]] = j
      BY DEF RouteStays
    <3>1. rpc[k] = "accepted" /\ on' = on
          /\ rpc' = [rpc EXCEPT ![k] = "prepared"] /\ route' = [route EXCEPT ![on[k]] = k]
      BY <2>6 DEF Prepare, send
    <3>2. k \in LetIn' /\ j \in LetIn'
      BY <3>1, RpcTypes DEF LetIn, Unanswered
    <3>3. on[k] \in Conns
      BY <3>1, RpcTypes DEF Linked
    <3> QED BY <3>1, <3>2, <3>3, StreamTypes DEF Lone
  <2>7. CASE Respond(k)
    <3> SUFFICES ASSUME NEW j \in Transfers, rpc'[j] \in {"prepared", "joining"}
                 PROVE  route'[on'[j]] = j
      BY DEF RouteStays
    <3>1. /\ rpc[k] = "prepared" /\ \A x \in Transfers \ {k} : rpc'[x] = rpc[x]
          /\ UNCHANGED <<route, on>>
      BY <2>7, RpcTypes DEF Respond, send
    <3> QED BY <3>1 DEF RouteStays
  <2>8. CASE RespondFails(k)
    <3> SUFFICES ASSUME NEW j \in Transfers, rpc'[j] \in {"prepared", "joining"}
                 PROVE  route'[on'[j]] = j
      BY DEF RouteStays
    <3>1. /\ rpc[k] \in {"prepared", "joining"} /\ rpc'[k] \notin {"prepared", "joining"}
          /\ \A x \in Transfers \ {k} : rpc'[x] = rpc[x]
      BY <2>8, RpcTypes DEF RespondFails
    <3>2. j # k /\ j \in LetIn /\ k \in LetIn
      BY <3>1 DEF LetIn, Unanswered
    <3> QED BY <3>2 DEF Lone
  <2>9. CASE Joined(k)
    <3> SUFFICES ASSUME NEW j \in Transfers, rpc'[j] \in {"prepared", "joining"}
                 PROVE  route'[on'[j]] = j
      BY DEF RouteStays
    <3>1. /\ rpc[k] \in {"prepared", "joining"} /\ rpc'[k] \notin {"prepared", "joining"}
          /\ \A x \in Transfers \ {k} : rpc'[x] = rpc[x]
      BY <2>9, RpcTypes DEF Joined
    <3>2. j # k /\ j \in LetIn /\ k \in LetIn
      BY <3>1 DEF LetIn, Unanswered
    <3> QED BY <3>2 DEF Lone
  <2>10. CASE OnComplete(k)
    <3> SUFFICES ASSUME NEW j \in Transfers, rpc'[j] \in {"prepared", "joining"}
                 PROVE  route'[on'[j]] = j
      BY DEF RouteStays
    <3>1. /\ \A x \in Transfers \ {k} : rpc'[x] = rpc[x]
          /\ rpc'[k] \notin {"prepared", "joining"} /\ UNCHANGED <<route, on>>
      BY <2>10, RpcTypes DEF OnComplete, Taken, send, recv
    <3> QED BY <3>1 DEF RouteStays
  <2>11. CASE CompleteLost(k)
    <3> SUFFICES ASSUME NEW j \in Transfers, rpc'[j] \in {"prepared", "joining"}
                 PROVE  route'[on'[j]] = j
      BY DEF RouteStays
    <3>1. /\ \A x \in Transfers \ {k} : rpc'[x] = rpc[x]
          /\ rpc'[k] \notin {"prepared", "joining"} /\ UNCHANGED <<route, on>>
      BY <2>11, RpcTypes DEF CompleteLost, send, recv
    <3> QED BY <3>1 DEF RouteStays
  <2>12. CASE Publish(k)
    <3> SUFFICES ASSUME NEW j \in Transfers, rpc'[j] \in {"prepared", "joining"}
                 PROVE  route'[on'[j]] = j
      BY DEF RouteStays
    <3>1. /\ \A x \in Transfers \ {k} : rpc'[x] = rpc[x]
          /\ rpc'[k] \notin {"prepared", "joining"} /\ UNCHANGED <<route, on>>
      BY <2>12, RpcTypes DEF Publish, send, recv
    <3> QED BY <3>1 DEF RouteStays
  <2>13. CASE PublishFails(k)
    <3> SUFFICES ASSUME NEW j \in Transfers, rpc'[j] \in {"prepared", "joining"}
                 PROVE  route'[on'[j]] = j
      BY DEF RouteStays
    <3>1. /\ \A x \in Transfers \ {k} : rpc'[x] = rpc[x]
          /\ rpc'[k] \notin {"prepared", "joining"} /\ UNCHANGED <<route, on>>
      BY <2>13, RpcTypes DEF PublishFails, send, recv
    <3> QED BY <3>1 DEF RouteStays
  <2>14. CASE Ack(k)
    <3> SUFFICES ASSUME NEW j \in Transfers, rpc'[j] \in {"prepared", "joining"}
                 PROVE  route'[on'[j]] = j
      BY DEF RouteStays
    <3>1. /\ \A x \in Transfers \ {k} : rpc'[x] = rpc[x]
          /\ rpc'[k] \notin {"prepared", "joining"} /\ UNCHANGED <<route, on>>
      BY <2>14, RpcTypes DEF Ack, send, recv
    <3> QED BY <3>1 DEF RouteStays
  <2>15. CASE AckFails(k)
    <3> SUFFICES ASSUME NEW j \in Transfers, rpc'[j] \in {"prepared", "joining"}
                 PROVE  route'[on'[j]] = j
      BY DEF RouteStays
    <3>1. /\ \A x \in Transfers \ {k} : rpc'[x] = rpc[x]
          /\ rpc'[k] \notin {"prepared", "joining"} /\ UNCHANGED <<route, on>>
      BY <2>15, RpcTypes DEF AckFails, send, recv
    <3> QED BY <3>1 DEF RouteStays
  <2> QED BY <1>0, <1>1, <2>1, <2>2, <2>3, <2>4, <2>5, <2>6, <2>7, <2>8,
            <2>9, <2>10, <2>11, <2>12, <2>13, <2>14, <2>15
          DEF Start, Negotiate, Stream, Answer, Control, ConnectFails,
              Request, RequestFails, OnAccepted, OnRejected, OpenStream,
              OpenFails, AllOpened, Complete, OnAck, SenderFails, Answered,
              Taken, send, net, recv, wr, disk
<1>2. ASSUME NEW k \in Transfers, NEW i \in Streams,
             Tasks(k, i) \/ Reader(k, i) \/ Writer(k, i) \/ WriterFails(k, i)
      PROVE  RouteStays'
  <2> QED BY <1>0, <1>2
          DEF Tasks, Reader, Writer, SendChunk, TaskEnds, ReadHeader,
              Forward, ReaderEnds, OpenTemp, WriteChunk, WriterEnds,
              WriterFails, Consume, send, net, recv, wr, disk
<1>3. CASE Break
  BY <1>0, <1>3 DEF Break, wr, disk
<1>4. CASE UNCHANGED vars
  BY <1>0, <1>4 DEF vars, send, net, recv, wr, disk
<1> QED BY <1>1, <1>2, <1>3, <1>4 DEF Next

(* The chunks of one data stream behind its header.                        *)
Opens == {"none", "spawned", "first", "next"}

(* What ChanInOrder says of a reader r, a writer in state s, a wire w, a   *)
(* channel c, the next chunk x and the place p of the writer.              *)
Chained(r, s, w, c, x, p) ==
  /\ \A n \in 1..Len(c) - 1 : c[n + 1] = c[n] + 1
  /\ s = "next" /\ c # <<>> => c[1] = p
  /\ r = Nobody => c = <<>> /\ s # "next"
  /\ r \in Transfers /\ s \in Opens =>
       /\ c # <<>> => c[Len(c)] + Len(w) + 1 = x
       /\ c = <<>> /\ s = "next" => p + Len(w) = x

StreamChained(k, i) ==
  Chained(reader[k][i], writer[k][i], wire[k][i], chan[k][i], next[k][i], pos[k][i])

LEMMA ChanParts ==
  ChanInOrder <=> \A k \in Transfers, i \in Streams : StreamChained(k, i)
BY DEF ChanInOrder, StreamChained, Chained, Open, Opens

LEMMA ChanPartsNext ==
  ASSUME \A k \in Transfers, i \in Streams : StreamChained(k, i)'
  PROVE  ChanInOrder'
BY DEF ChanInOrder, StreamChained, Chained, Open, Opens

LEMMA ChainSend ==
  ASSUME NEW r, NEW s, NEW S, NEW w \in Seq(S), NEW e \in S, NEW c \in Seq(Chunks),
         NEW x \in Nat, NEW p \in Nat, Chained(r, s, w, c, x, p)
  PROVE  Chained(r, s, Append(w, e), c, x + 1, p)
<1>1. Len(Append(w, e)) = Len(w) + 1 /\ Len(w) \in Nat
  BY Appending
<1>2. c # <<>> => c[Len(c)] \in Nat
  <2>1. SUFFICES ASSUME c # <<>> PROVE c[Len(c)] \in Nat
    OBVIOUS
  <2>2. Len(c) \in 1..Len(c)
    BY <2>1, Taking
  <2>3. c[Len(c)] \in Chunks
    BY <2>2
  <2> QED BY <2>3, Ranges DEF Chunks
<1>3. ASSUME r \in Transfers, s \in Opens
      PROVE  /\ c # <<>> => c[Len(c)] + Len(Append(w, e)) + 1 = x + 1
             /\ c = <<>> /\ s = "next" => p + Len(Append(w, e)) = x + 1
  <2>1. /\ c # <<>> => c[Len(c)] + Len(w) + 1 = x
        /\ c = <<>> /\ s = "next" => p + Len(w) = x
    BY <1>3 DEF Chained
  <2>2. ASSUME c # <<>> PROVE c[Len(c)] + Len(Append(w, e)) + 1 = x + 1
    BY <1>1, <1>2, <2>1, <2>2
  <2>3. ASSUME c = <<>>, s = "next" PROVE p + Len(Append(w, e)) = x + 1
    BY <1>1, <2>1, <2>3
  <2> QED BY <2>2, <2>3
<1> DEFINE v == Append(w, e)
<1> HIDE DEF v
<1>4. ASSUME r \in Transfers, s \in Opens
      PROVE  /\ c # <<>> => c[Len(c)] + Len(v) + 1 = x + 1
             /\ c = <<>> /\ s = "next" => p + Len(v) = x + 1
  BY <1>3, <1>4 DEF v
<1>5. Chained(r, s, v, c, x + 1, p)
  BY <1>4 DEF Chained
<1> QED BY <1>5 DEF v

LEMMA ChainTake ==
  ASSUME NEW r \in Transfers, NEW s \in Opens, NEW S, NEW w \in Seq(S), w # <<>>,
         NEW c \in Seq(Chunks), NEW x \in Nat, NEW p \in Nat,
         Chained(r, s, w, c, x, p), Head(w) \in Chunks, Head(w) + Len(w) = x
  PROVE  Chained(r, s, Tail(w), Append(c, Head(w)), x, p)
<1> DEFINE e == Head(w)
           d == Append(c, e)
<1>1. Len(w) \in Nat \ {0} /\ Len(Tail(w)) = Len(w) - 1
  BY Taking
<1>2. e \in Nat /\ e + Len(w) = x
  BY Ranges DEF Chunks
<1>3. /\ d # <<>> /\ Len(d) = Len(c) + 1 /\ d[Len(c) + 1] = e /\ Len(c) \in Nat
      /\ \A n \in 1..Len(c) : d[n] = c[n]
      /\ c # <<>> => Len(c) # 0
      /\ c = <<>> => Len(c) = 0
  BY Appending
<1>4. r # Nobody
  BY Ranges
<1>5. \A n \in 1..Len(c) : c[n] \in Nat
  <2>1. \A n \in 1..Len(c) : c[n] \in Chunks
    OBVIOUS
  <2> QED BY <2>1, Ranges DEF Chunks
<1> HIDE DEF e, d
<1>6. \A n \in 1..Len(d) - 1 : d[n + 1] = d[n] + 1
  <2> SUFFICES ASSUME NEW n \in 1..Len(c) PROVE d[n + 1] = d[n] + 1
    BY <1>3
  <2>1. CASE n < Len(c)
    <3>1. n + 1 \in 1..Len(c) /\ n \in 1..Len(c) - 1
      BY <1>3, <2>1
    <3>2. c[n + 1] = c[n] + 1
      BY <3>1 DEF Chained
    <3> QED BY <1>3, <3>1, <3>2
  <2>2. CASE n = Len(c)
    <3>1. c # <<>>
      BY <1>3, <2>2
    <3>2. c[Len(c)] + Len(w) + 1 = x
      BY <3>1 DEF Chained
    <3>3. c[Len(c)] \in Nat
      BY <1>5, <2>2
    <3> QED BY <1>1, <1>2, <1>3, <2>2, <3>2, <3>3
  <2> QED BY <1>3, <2>1, <2>2
<1>7. s = "next" => d[1] = p
  <2> SUFFICES ASSUME s = "next" PROVE d[1] = p
    OBVIOUS
  <2>1. CASE c = <<>>
    <3>1. p + Len(w) = x
      BY <2>1 DEF Chained
    <3> QED BY <1>1, <1>2, <1>3, <2>1, <3>1
  <2>2. CASE c # <<>>
    <3>1. c[1] = p
      BY <2>2 DEF Chained
    <3> QED BY <1>3, <2>2, <3>1
  <2> QED BY <2>1, <2>2
<1>8. d[Len(d)] + Len(Tail(w)) + 1 = x
  BY <1>1, <1>2, <1>3
<1> QED BY <1>3, <1>4, <1>6, <1>7, <1>8 DEF Chained, e, d

LEMMA ChainWrite ==
  ASSUME NEW r, NEW s \in {"first", "next"}, NEW w, Len(w) \in Nat,
         NEW c \in Seq(Chunks), c # <<>>, NEW x \in Nat, NEW p \in Nat,
         Chained(r, s, w, c, x, p)
  PROVE  /\ c[1] = IF s = "first" THEN Head(c) ELSE p
         /\ c[1] \in Chunks
         /\ Chained(r, "next", w, Tail(c), x, c[1] + 1)
<1> DEFINE d == Tail(c)
<1>1. /\ Len(c) \in Nat \ {0} /\ Head(c) = c[1] /\ Len(d) = Len(c) - 1
      /\ \A n \in 1..Len(c) - 1 : d[n] = c[n + 1]
      /\ d \in Seq(Chunks)
  BY Taking
<1>2. c[1] = IF s = "first" THEN Head(c) ELSE p
  BY <1>1 DEF Chained
<1>3. \A n \in 1..Len(c) : c[n] \in Chunks /\ c[n] \in Nat
  <2>1. \A n \in 1..Len(c) : c[n] \in Chunks
    OBVIOUS
  <2> QED BY <2>1, Ranges DEF Chunks
<1>4. /\ d = <<>> => Len(c) = 1
      /\ d # <<>> => Len(c) > 1
  <2> HIDE DEF d
  <2>1. d = <<>> => Len(d) = 0
    OBVIOUS
  <2>2. d # <<>> => Len(d) # 0
    BY <1>1, Taking
  <2> QED BY <1>1, <2>1, <2>2
<1>5. r # Nobody
  BY DEF Chained
<1>6. \A n \in 1..Len(c) - 1 : c[n + 1] = c[n] + 1
  BY DEF Chained
<1> HIDE DEF d
<1>7. \A n \in 1..Len(d) - 1 : d[n + 1] = d[n] + 1
  <2> SUFFICES ASSUME NEW n \in 1..Len(c) - 2 PROVE d[n + 1] = d[n] + 1
    BY <1>1
  <2>1. /\ n \in 1..Len(c) - 1 /\ n + 1 \in 1..Len(c) - 1
    BY <1>1
  <2> QED BY <1>1, <1>6, <2>1
<1>8. d # <<>> => d[1] = c[1] + 1
  BY <1>1, <1>4, <1>6
<1>9. r \in Transfers =>
        /\ d # <<>> => d[Len(d)] + Len(w) + 1 = x
        /\ d = <<>> => c[1] + 1 + Len(w) = x
  <2> SUFFICES ASSUME r \in Transfers
               PROVE  /\ d # <<>> => d[Len(d)] + Len(w) + 1 = x
                      /\ d = <<>> => c[1] + 1 + Len(w) = x
    OBVIOUS
  <2>1. c[Len(c)] + Len(w) + 1 = x
    BY DEF Chained, Opens
  <2>2. d # <<>> => d[Len(d)] = c[Len(c)]
    <3> SUFFICES ASSUME d # <<>> PROVE d[Len(d)] = c[Len(c)]
      OBVIOUS
    <3>1. Len(d) \in 1..Len(c) - 1 /\ Len(d) + 1 = Len(c)
      BY <1>1, <1>4
    <3> QED BY <1>1, <3>1
  <2>3. d = <<>> => c[1] = c[Len(c)]
    BY <1>4
  <2>4. c[1] \in Nat /\ c[Len(c)] \in Nat
    BY <1>1, <1>3
  <2> QED BY <2>1, <2>2, <2>3, <2>4
<1>10. Chained(r, "next", w, d, x, c[1] + 1)
  BY <1>5, <1>7, <1>8, <1>9 DEF Chained
<1>11. c[1] \in Chunks
  BY <1>1, <1>3
<1> QED BY <1>2, <1>10, <1>11 DEF d

(* What empties a channel, ends a reader or a writer keeps the rest.       *)
LEMMA ChainEnds ==
  ASSUME NEW r, NEW s, NEW w, NEW c, NEW x, NEW p, Chained(r, s, w, c, x, p)
  PROVE  /\ Chained(r, "failed", w, <<>>, x, p)
         /\ Chained(r, "ended", w, c, x, p)
         /\ s = "spawned" => Chained(r, "first", w, c, x, p)
         /\ s = "none" => Chained(r, "spawned", w, c, x, p)
         /\ \A v : Chained(Stopped, s, v, c, x, p)
         /\ r = Nobody => \A t \in Transfers \cup {Nobody, Stopped} : \A v, y :
                             Chained(t, s, v, c, y, p)
<1>1. Stopped \notin Transfers /\ Stopped # Nobody /\ Nobody \notin Transfers
  BY Ranges
<1>2. 1..Len(<<>>) - 1 = {}
  OBVIOUS
<1> QED BY <1>1, <1>2 DEF Chained, Opens

(* The channel of each stream stays in order.                              *)
(* What a writer that is in order writes.                                  *)
WritesNext(k, i) ==
  /\ Head(chan[k][i]) \in Chunks
  /\ Chained(reader[k][i], writer'[k][i], wire[k][i], chan'[k][i], next[k][i], pos'[k][i])
  /\ \A f \in Transfers, c \in Chunks :
       data'[f][c] = data[f][c] \/ (c = Head(chan[k][i]) /\ data'[f][c] = c)
  /\ UNCHANGED <<temp, final>>

LEMMA WriterGoesOn ==
  ASSUME TypeOK, NEW k \in Transfers, NEW i \in Streams, StreamChained(k, i),
         WriteChunk(k, i)
  PROVE  WritesNext(k, i)
<1>1. /\ writer[k][i] \in {"first", "next"} /\ chan[k][i] # <<>>
      /\ writer'[k][i] = "next" /\ chan'[k][i] = Tail(chan[k][i])
  BY WriteChunkDoes
<1>2. PICK at \in 0..N :
        /\ at = IF writer[k][i] = "first" THEN Head(chan[k][i]) ELSE pos[k][i]
        /\ pos'[k][i] = IF at = N THEN N ELSE at + 1
        /\ \A f \in Transfers, c \in Chunks :
             data'[f][c] = IF f = wfile[k][i] /\ c = at THEN Head(chan[k][i])
                           ELSE data[f][c]
  BY WriteChunkDoes
<1>3. /\ wire[k][i] \in Seq(Chunks \cup {Header}) /\ chan[k][i] \in Seq(Chunks)
      /\ next[k][i] \in Nat /\ pos[k][i] \in Nat
  BY OneStream
<1>4. Len(wire[k][i]) \in Nat /\ Head(chan[k][i]) = chan[k][i][1]
  BY <1>1, <1>3, Taking
<1>5. Chained(reader[k][i], writer[k][i], wire[k][i], chan[k][i], next[k][i], pos[k][i])
  BY DEF StreamChained
<1>6. /\ chan[k][i][1] = IF writer[k][i] = "first" THEN Head(chan[k][i]) ELSE pos[k][i]
      /\ chan[k][i][1] \in Chunks
      /\ Chained(reader[k][i], "next", wire[k][i], Tail(chan[k][i]), next[k][i],
                 chan[k][i][1] + 1)
  <2> DEFINE r == reader[k][i]
             s == writer[k][i]
             w == wire[k][i]
             c == chan[k][i]
             x == next[k][i]
             p == pos[k][i]
  <2>1. /\ s \in {"first", "next"} /\ Len(w) \in Nat /\ c \in Seq(Chunks) /\ c # <<>>
        /\ x \in Nat /\ p \in Nat /\ Chained(r, s, w, c, x, p)
    BY <1>1, <1>3, <1>4, <1>5
  <2> HIDE DEF r, s, w, c, x, p
  <2>2. /\ c[1] = IF s = "first" THEN Head(c) ELSE p
        /\ c[1] \in Chunks
        /\ Chained(r, "next", w, Tail(c), x, c[1] + 1)
    BY <2>1, ChainWrite
  <2> QED BY <2>2 DEF r, s, w, c, x, p
<1>7. at = chan[k][i][1] /\ at # N
  BY <1>2, <1>6, Ranges DEF Zero
<1>8. UNCHANGED <<temp, final>>
  BY WriteChunkDoes
<1>9. pos'[k][i] = chan[k][i][1] + 1
  BY <1>2, <1>7
<1>10. Chained(reader[k][i], writer'[k][i], wire[k][i], chan'[k][i], next[k][i], pos'[k][i])
  BY <1>1, <1>6, <1>9
<1>11. Head(chan[k][i]) \in Chunks
  BY <1>4, <1>6
<1>12. \A f \in Transfers, c \in Chunks :
         data'[f][c] = data[f][c] \/ (c = Head(chan[k][i]) /\ data'[f][c] = c)
  BY <1>2, <1>4, <1>7
<1> QED BY <1>8, <1>10, <1>11, <1>12 DEF WritesNext

(* Each channel stays in order.                                            *)
LEMMA ChanInOrderKept ==
  ASSUME TypeOK, AcceptedFirst, StreamsOpened, WritersLive, RoutesLetIn,
         WireInOrder, Lone, ChanInOrder, [Next]_vars
  PROVE  ChanInOrder'
<1>a. \A k \in Transfers, i \in Streams : StreamChained(k, i)
  BY ChanParts
<1>0. UNCHANGED <<chan, writer, pos, reader, next, wire>> => ChanInOrder'
  BY DEF ChanInOrder, Open
<1>1. ASSUME NEW k \in Transfers,
             Start(k) \/ Negotiate(k) \/ Stream(k) \/ Answer(k) \/ Control(k)
      PROVE  ChanInOrder'
  <2>1. CASE OpenStream(k)
    <3> SUFFICES ASSUME NEW j \in Transfers, NEW l \in Streams
                 PROVE  StreamChained(j, l)'
      BY ChanPartsNext
    <3>0. StreamChained(j, l)
      BY <1>a
    <3>1. PICK i \in Streams :
            /\ i = opened[k] /\ UNCHANGED <<reader, chan, writer, pos>>
            /\ \A x \in Transfers, y \in Streams :
                 x # k \/ y # i => wire'[x][y] = wire[x][y] /\ next'[x][y] = next[x][y]
      BY <2>1, OpenStreamDoes DEF recv, wr
    <3>2. CASE j = k /\ l = i
      <4>1. reader[j][l] = Nobody
        <5>1. ~(i < opened[k])
          BY <3>1, RpcTypes
        <5> QED BY <3>2, <5>1 DEF StreamsOpened
      <4>2. \A v, y : Chained(Nobody, writer[j][l], v, chan[j][l], y, pos[j][l])
        BY <3>0, <4>1, ChainEnds DEF StreamChained
      <4> QED BY <3>1, <4>1, <4>2 DEF StreamChained
    <3>3. CASE ~(j = k /\ l = i)
      BY <3>0, <3>1, <3>3 DEF StreamChained
    <3> QED BY <3>2, <3>3
  <2>2. CASE Respond(k)
    <3> SUFFICES ASSUME NEW j \in Transfers, NEW l \in Streams
                 PROVE  StreamChained(j, l)'
      BY ChanPartsNext
    <3>0. StreamChained(j, l)
      BY <1>a
    <3>1. /\ rpc[k] = "prepared"
          /\ \A x \in Transfers, y \in Streams :
               writer'[x][y] = IF x = k THEN "spawned" ELSE writer[x][y]
          /\ UNCHANGED <<reader, next, wire, chan, pos>>
      BY <2>2, RespondDoes DEF send
    <3>2. CASE j = k
      <4>1. writer[j][l] = "none"
        BY <3>1, <3>2 DEF WritersLive
      <4>2. Chained(reader[j][l], "spawned", wire[j][l], chan[j][l], next[j][l], pos[j][l])
        BY <3>0, <4>1, ChainEnds DEF StreamChained
      <4> QED BY <3>1, <3>2, <4>2 DEF StreamChained
    <3>3. CASE j # k
      BY <3>0, <3>1, <3>3 DEF StreamChained
    <3> QED BY <3>2, <3>3
  <2> QED BY <1>0, <1>1, <2>1, <2>2
          DEF Start, Negotiate, Stream, Answer, Control, Reuse, Connect,
              ConnectFails, Request, RequestFails, OnAccepted, OnRejected,
              OpenFails, AllOpened, Complete, OnAck, SenderFails, Accept,
              Reject, OnRequest, Prepare, RespondFails, Joined, OnComplete,
              CompleteLost, Publish, PublishFails, Ack, AckFails, Answered,
              Taken, send, net, recv, wr, disk
<1>2. ASSUME NEW k \in Transfers, NEW i \in Streams,
             Tasks(k, i) \/ Reader(k, i) \/ Writer(k, i) \/ WriterFails(k, i)
      PROVE  ChanInOrder'
  <2>1. CASE SendChunk(k, i)
    <3> SUFFICES ASSUME NEW j \in Transfers, NEW l \in Streams
                 PROVE  StreamChained(j, l)'
      BY ChanPartsNext
    <3>0. StreamChained(j, l)
      BY <1>a
    <3>1. /\ \A x \in Transfers, y \in Streams :
               wire'[x][y] = IF x = k /\ y = i THEN Append(wire[k][i], next[k][i])
                             ELSE wire[x][y]
          /\ \A x \in Transfers, y \in Streams :
               next'[x][y] = IF x = k /\ y = i THEN next[k][i] + 1 ELSE next[x][y]
          /\ UNCHANGED <<recv, wr>>
      BY <2>1, SendChunkDoes
    <3>a. UNCHANGED <<reader, writer, chan, pos>>
      BY <3>1 DEF recv, wr
    <3>2. CASE j = k /\ l = i
      <4>0. Chained(reader[k][i], writer[k][i], wire[k][i], chan[k][i], next[k][i],
                    pos[k][i])
        BY <3>0, <3>2 DEF StreamChained
      <4>1. /\ wire[k][i] \in Seq(0..N) /\ next[k][i] \in 0..N /\ next[k][i] \in Nat
            /\ chan[k][i] \in Seq(Chunks) /\ pos[k][i] \in Nat
        <5>1. Chunks \cup {Header} = 0..N
          BY Ranges DEF Chunks, Header
        <5> QED BY <5>1, OneStream
      <4>2. Chained(reader[k][i], writer[k][i], Append(wire[k][i], next[k][i]), chan[k][i],
                    next[k][i] + 1, pos[k][i])
        BY <4>0, <4>1, ChainSend
      <4>3. /\ wire'[k][i] = Append(wire[k][i], next[k][i])
            /\ next'[k][i] = next[k][i] + 1
        BY <3>1
      <4> QED BY <3>a, <3>2, <4>2, <4>3 DEF StreamChained
    <3>3. CASE ~(j = k /\ l = i)
      <4>1. wire'[j][l] = wire[j][l] /\ next'[j][l] = next[j][l]
        BY <3>1, <3>3
      <4> QED BY <3>0, <3>a, <4>1 DEF StreamChained
    <3> QED BY <3>2, <3>3
  <2>2. CASE ReadHeader(k, i)
    <3> SUFFICES ASSUME NEW j \in Transfers, NEW l \in Streams
                 PROVE  StreamChained(j, l)'
      BY ChanPartsNext
    <3>0. StreamChained(j, l)
      BY <1>a
    <3>1. /\ UNCHANGED <<writer, chan, next, pos>>
          /\ \A x \in Transfers, y \in Streams : x # k \/ y # i =>
               reader'[x][y] = reader[x][y] /\ wire'[x][y] = wire[x][y]
      BY <2>2, ReadHeaderDoes DEF send, wr
    <3>2. CASE j = k /\ l = i
      <4>1. reader'[k][i] \in Transfers \cup {Nobody, Stopped} /\ reader[k][i] = Nobody
        BY <2>2, HeaderIsRead
      <4>2. \A r \in Transfers \cup {Nobody, Stopped} : \A v, y :
              Chained(r, writer[k][i], v, chan[k][i], y, pos[k][i])
        BY <3>0, <3>2, <4>1, ChainEnds DEF StreamChained
      <4> QED BY <3>1, <3>2, <4>1, <4>2 DEF StreamChained
    <3>9. CASE ~(j = k /\ l = i)
      BY <3>0, <3>1, <3>9 DEF StreamChained
    <3> QED BY <3>2, <3>9
  <2>3. CASE Forward(k, i)
    <3> SUFFICES ASSUME NEW j \in Transfers, NEW l \in Streams
                 PROVE  StreamChained(j, l)'
      BY ChanPartsNext
    <3>0. StreamChained(j, l)
      BY <1>a
    <3>1. /\ reader[k][i] \in Transfers /\ wire[k][i] # <<>> /\ Open(reader[k][i], i)
          /\ UNCHANGED <<reader, writer, next, pos>>
      BY <2>3, ForwardDoes DEF send, recv
    <3>2. reader[k][i] = k
      BY <3>1, OwnReader
    <3>3. /\ wire'[k][i] = Tail(wire[k][i])
          /\ chan'[k][i] = Append(chan[k][i], Head(wire[k][i]))
          /\ \A x \in Transfers, y \in Streams : x # k \/ y # i =>
               wire'[x][y] = wire[x][y] /\ chan'[x][y] = chan[x][y]
      <4>1. /\ \A x \in Transfers, y \in Streams :
                 wire'[x][y] = IF x = k /\ y = i THEN Tail(wire[k][i]) ELSE wire[x][y]
            /\ \A x \in Transfers, y \in Streams :
                 chan'[x][y] = IF x = reader[k][i] /\ y = i
                               THEN Append(chan[reader[k][i]][i], Head(wire[k][i]))
                               ELSE chan[x][y]
        BY <2>3, ForwardDoes
      <4>2. \A x \in Transfers, y \in Streams :
              chan'[x][y] = IF x = k /\ y = i THEN Append(chan[k][i], Head(wire[k][i]))
                            ELSE chan[x][y]
        BY <3>2, <4>1
      <4> QED BY <4>1, <4>2
    <3>4. CASE j = k /\ l = i
      <4>0. Chained(k, writer[k][i], wire[k][i], chan[k][i], next[k][i], pos[k][i])
        BY <3>0, <3>2, <3>4 DEF StreamChained
      <4>1. Head(wire[k][i]) \in Chunks
        BY <3>1, CarriesChunks
      <4>2. /\ wire[k][i] \in Seq(Chunks \cup {Header}) /\ chan[k][i] \in Seq(Chunks)
            /\ next[k][i] \in Nat /\ pos[k][i] \in Nat
        BY OneStream
      <4>3. Head(wire[k][i]) + Len(wire[k][i]) = next[k][i]
        <5>1. /\ Len(wire[k][i]) \in Nat \ {0} /\ Head(wire[k][i]) = wire[k][i][1]
              /\ 1 \in DOMAIN wire[k][i]
          BY <3>1, <4>2, Taking
        <5>2. reader[k][i] # Nobody /\ reader[k][i] # Stopped
          BY <3>1, Ranges
        <5>3. wire[k][i][1] = next[k][i] - Len(wire[k][i])
          BY <4>2, <5>1, <5>2 DEF WireInOrder
        <5> QED BY <4>2, <5>1, <5>3
      <4>4. writer[k][i] \in Opens
        BY <3>1, <3>2 DEF Open, Opens
      <4>5. Chained(k, writer[k][i], Tail(wire[k][i]),
                    Append(chan[k][i], Head(wire[k][i])), next[k][i], pos[k][i])
        BY <3>1, <4>0, <4>1, <4>2, <4>3, <4>4, ChainTake
      <4> QED BY <3>1, <3>2, <3>3, <3>4, <4>5 DEF StreamChained
    <3>5. CASE ~(j = k /\ l = i)
      BY <3>0, <3>1, <3>3, <3>5 DEF StreamChained
    <3> QED BY <3>4, <3>5
  <2>4. CASE ReaderEnds(k, i)
    <3> SUFFICES ASSUME NEW j \in Transfers, NEW l \in Streams
                 PROVE  StreamChained(j, l)'
      BY ChanPartsNext
    <3>0. StreamChained(j, l)
      BY <1>a
    <3>1. /\ UNCHANGED <<writer, wire, chan, next, pos>>
          /\ \A x \in Transfers, y \in Streams : x # k \/ y # i =>
               /\ reader'[x][y] = reader[x][y]
          /\ reader'[k][i] = Stopped
      BY <2>4, ReaderEndsDoes DEF send, net, wr
    <3>2. CASE j = k /\ l = i
      <4>0. Chained(reader[k][i], writer[k][i], wire[k][i], chan[k][i], next[k][i],
                    pos[k][i])
        BY <3>0, <3>2 DEF StreamChained
      <4>a. Chained(Stopped, writer[k][i], wire[k][i], chan[k][i], next[k][i], pos[k][i])
        BY <4>0, ChainEnds
      <4> QED BY <3>1, <3>2, <4>a DEF StreamChained
    <3>9. CASE ~(j = k /\ l = i)
      BY <3>0, <3>1, <3>9 DEF StreamChained
    <3> QED BY <3>2, <3>9
  <2>5. CASE OpenTemp(k, i)
    <3> SUFFICES ASSUME NEW j \in Transfers, NEW l \in Streams
                 PROVE  StreamChained(j, l)'
      BY ChanPartsNext
    <3>0. StreamChained(j, l)
      BY <1>a
    <3>1. /\ UNCHANGED <<reader, wire, next, pos>>
          /\ \A x \in Transfers, y \in Streams : x # k \/ y # i =>
               writer'[x][y] = writer[x][y] /\ chan'[x][y] = chan[x][y]
      BY <2>5, OpenTempDoes DEF send, net, recv
    <3>2. CASE j = k /\ l = i
      <4>1. /\ writer[k][i] = "spawned"
            /\ \/ writer'[k][i] = "failed" /\ chan'[k][i] = <<>>
               \/ writer'[k][i] = "first" /\ chan'[k][i] = chan[k][i]
        BY <2>5, OpenTempDoes
      <4>2. /\ Chained(reader[k][i], "failed", wire[k][i], <<>>, next[k][i], pos[k][i])
            /\ Chained(reader[k][i], "first", wire[k][i], chan[k][i], next[k][i],
                       pos[k][i])
        BY <3>0, <3>2, <4>1, ChainEnds DEF StreamChained
      <4> QED BY <3>1, <3>2, <4>1, <4>2 DEF StreamChained
    <3>9. CASE ~(j = k /\ l = i)
      BY <3>0, <3>1, <3>9 DEF StreamChained
    <3> QED BY <3>2, <3>9
  <2>6. CASE WriteChunk(k, i)
    <3> SUFFICES ASSUME NEW j \in Transfers, NEW l \in Streams
                 PROVE  StreamChained(j, l)'
      BY ChanPartsNext
    <3>0. StreamChained(j, l)
      BY <1>a
    <3>1. /\ UNCHANGED <<reader, wire, next>>
          /\ \A x \in Transfers, y \in Streams : x # k \/ y # i =>
               /\ writer'[x][y] = writer[x][y]
               /\ chan'[x][y] = chan[x][y]
               /\ pos'[x][y] = pos[x][y]
      BY <2>6, WriteChunkDoes DEF send, net, recv
    <3>2. CASE j = k /\ l = i
      <4>1. WritesNext(k, i)
        BY <1>a, <2>6, WriterGoesOn
      <4> QED BY <3>1, <3>2, <4>1 DEF StreamChained, WritesNext
    <3>9. CASE ~(j = k /\ l = i)
      BY <3>0, <3>1, <3>9 DEF StreamChained
    <3> QED BY <3>2, <3>9
  <2>7. CASE WriterEnds(k, i)
    <3> SUFFICES ASSUME NEW j \in Transfers, NEW l \in Streams
                 PROVE  StreamChained(j, l)'
      BY ChanPartsNext
    <3>0. StreamChained(j, l)
      BY <1>a
    <3>1. /\ UNCHANGED <<reader, wire, chan, next, pos>>
          /\ \A x \in Transfers, y \in Streams : x # k \/ y # i =>
               /\ writer'[x][y] = writer[x][y]
          /\ writer'[k][i] = "ended"
      BY <2>7, WriterEndsDoes DEF send, net, recv
    <3>2. CASE j = k /\ l = i
      <4>0. Chained(reader[k][i], writer[k][i], wire[k][i], chan[k][i], next[k][i],
                    pos[k][i])
        BY <3>0, <3>2 DEF StreamChained
      <4>a. Chained(reader[k][i], "ended", wire[k][i], chan[k][i], next[k][i], pos[k][i])
        BY <4>0, ChainEnds
      <4> QED BY <3>1, <3>2, <4>a DEF StreamChained
    <3>9. CASE ~(j = k /\ l = i)
      BY <3>0, <3>1, <3>9 DEF StreamChained
    <3> QED BY <3>2, <3>9
  <2>8. CASE WriterFails(k, i)
    <3> SUFFICES ASSUME NEW j \in Transfers, NEW l \in Streams
                 PROVE  StreamChained(j, l)'
      BY ChanPartsNext
    <3>0. StreamChained(j, l)
      BY <1>a
    <3>1. /\ UNCHANGED <<reader, wire, next, pos>>
          /\ \A x \in Transfers, y \in Streams : x # k \/ y # i =>
               /\ writer'[x][y] = writer[x][y]
               /\ chan'[x][y] = chan[x][y]
          /\ writer'[k][i] = "failed"
          /\ chan'[k][i] = <<>>
      BY <2>8, WriterFailsDoes DEF send, net, recv
    <3>2. CASE j = k /\ l = i
      <4>0. Chained(reader[k][i], writer[k][i], wire[k][i], chan[k][i], next[k][i],
                    pos[k][i])
        BY <3>0, <3>2 DEF StreamChained
      <4>a. Chained(reader[k][i], "failed", wire[k][i], <<>>, next[k][i], pos[k][i])
        BY <4>0, ChainEnds
      <4> QED BY <3>1, <3>2, <4>a DEF StreamChained
    <3>9. CASE ~(j = k /\ l = i)
      BY <3>0, <3>1, <3>9 DEF StreamChained
    <3> QED BY <3>2, <3>9
  <2> QED BY <1>0, <1>2, <2>1, <2>2, <2>3, <2>4, <2>5, <2>6, <2>7, <2>8
          DEF Tasks, Reader, Writer, TaskEnds, Consume, send, net, recv, wr,
              disk
<1>3. CASE Break
  <2> SUFFICES ASSUME NEW j \in Transfers, NEW l \in Streams
               PROVE  StreamChained(j, l)'
    BY ChanPartsNext
  <2>0. StreamChained(j, l)
    BY <1>a
  <2>1. PICK c \in alive :
          /\ \A x \in Transfers, y \in Streams :
               /\ wire'[x][y] = IF on[x] = c THEN <<>> ELSE wire[x][y]
               /\ reader'[x][y] = IF on[x] = c /\ task[x][y] # "none" THEN Stopped
                                  ELSE reader[x][y]
          /\ UNCHANGED <<writer, chan, next, pos>>
    BY <1>3, BreakDoes DEF wr
  <2>2. CASE on[j] # c
    BY <2>0, <2>1, <2>2 DEF StreamChained
  <2>3. CASE on[j] = c /\ task[j][l] # "none"
    <3>1. \A v : Chained(Stopped, writer[j][l], v, chan[j][l], next[j][l], pos[j][l])
      BY <2>0, ChainEnds DEF StreamChained
    <3> QED BY <2>1, <2>3, <3>1 DEF StreamChained
  <2>4. CASE on[j] = c /\ task[j][l] = "none"
    <3>1. reader[j][l] = Nobody
      BY <2>4 DEF StreamsOpened
    <3>2. \A v : Chained(Nobody, writer[j][l], v, chan[j][l], next[j][l], pos[j][l])
      BY <2>0, <3>1, ChainEnds DEF StreamChained
    <3> QED BY <2>1, <2>4, <3>1, <3>2 DEF StreamChained
  <2> QED BY <2>2, <2>3, <2>4
<1>4. CASE UNCHANGED vars
  BY <1>0, <1>4 DEF vars, send, net, recv, wr, disk
<1> QED BY <1>1, <1>2, <1>3, <1>4 DEF Next

(* A data stream is turned away only when it does not matter.              *)
(* The only transfer is covered until its writers have ended.              *)
LEMMA CoveredKept ==
  ASSUME TypeOK, Linked, AcceptedFirst, StreamsOpened, WritersLive,
         RoutesLetIn, RouteStays, Lone, Covered, [Next]_vars
  PROVE  Covered'
<1>0. UNCHANGED <<alive, on, reader, task, writer>> => Covered'
  BY DEF Covered, Up
<1>1. ASSUME NEW k \in Transfers,
             Start(k) \/ Negotiate(k) \/ Stream(k) \/ Answer(k) \/ Control(k)
      PROVE  Covered'
  <2>1. CASE Reuse(k)
    <3> SUFFICES ASSUME NEW j \in Transfers, NEW l \in Streams, Up(j)',
                        reader'[j][l] = Stopped
                 PROVE  task'[j][l] = "ended" \/ writer'[j][l] \in {"failed", "ended"}
      BY DEF Covered
    <3>1. /\ spc[k] = "idle" /\ UNCHANGED <<reader, task, writer>>
          /\ \A x \in Transfers \ {k} : on'[x] = on[x]
      BY <2>1, RpcTypes DEF Reuse, MaySend, recv, wr
    <3>2. CASE j = k
      <4>1. task[k][l] # "none"
        BY <3>1, <3>2, Ranges DEF StreamsOpened
      <4>2. k \in LetIn
        BY <4>1, StreamsLetIn
      <4>3. rpc[k] # "none"
        BY <4>2 DEF LetIn, Unanswered
      <4> QED BY <3>1, <4>3 DEF Linked
    <3>3. CASE j # k
      <4>1. Up(j)
        BY <3>1, <3>3, <2>1 DEF Up, Reuse, net
      <4> QED BY <3>1, <4>1 DEF Covered
    <3> QED BY <3>2, <3>3
  <2>2. CASE Connect(k)
    <3> SUFFICES ASSUME NEW j \in Transfers, NEW l \in Streams, Up(j)',
                        reader'[j][l] = Stopped
                 PROVE  task'[j][l] = "ended" \/ writer'[j][l] \in {"failed", "ended"}
      BY DEF Covered
    <3>1. /\ spc[k] = "idle" /\ UNCHANGED <<reader, task, writer>>
          /\ \A x \in Transfers \ {k} : on'[x] = on[x]
      BY <2>2, RpcTypes DEF Connect, MaySend, recv, wr
    <3>2. CASE j = k
      <4>1. task[k][l] # "none"
        BY <3>1, <3>2, Ranges DEF StreamsOpened
      <4>2. k \in LetIn
        BY <4>1, StreamsLetIn
      <4>3. rpc[k] # "none"
        BY <4>2 DEF LetIn, Unanswered
      <4> QED BY <3>1, <4>3 DEF Linked
    <3>3. CASE j # k
      <4>1. Up(j)
        <5>1. cached \in Nat /\ cached' = cached + 1 /\ alive' = alive \cup {cached'}
          BY <2>2, RpcTypes, Ranges DEF Connect, Conns, Nobody
        <5>2. on[j] \in 0..cached
          BY DEF Linked
        <5>3. on[j] # cached'
          BY <5>1, <5>2
        <5> QED BY <3>1, <3>3, <5>1, <5>3 DEF Up
      <4> QED BY <3>1, <4>1 DEF Covered
    <3> QED BY <3>2, <3>3
  <2>3. CASE OpenStream(k)
    <3> SUFFICES ASSUME NEW j \in Transfers, NEW l \in Streams, Up(j)',
                        reader'[j][l] = Stopped
                 PROVE  task'[j][l] = "ended" \/ writer'[j][l] \in {"failed", "ended"}
      BY DEF Covered
    <3>1. UNCHANGED <<alive, on>>
      BY <2>3, OpenStreamDoes
    <3>2. Up(j)
      BY <3>1 DEF Up
    <3>3. PICK i \in Streams :
            /\ i = opened[k] /\ UNCHANGED <<reader, writer>>
            /\ \A x \in Transfers, y \in Streams :
                 task'[x][y] = IF x = k /\ y = i THEN "running" ELSE task[x][y]
      BY <2>3, OpenStreamDoes DEF recv, wr
    <3>4. task[j][l] # "none"
      BY <3>3, Ranges DEF StreamsOpened
    <3>5. ~(j = k /\ l = i)
      <4>1. ~(i < opened[k])
        BY <3>3, RpcTypes
      <4> QED BY <3>4, <4>1 DEF StreamsOpened
    <3> QED BY <3>2, <3>3, <3>5 DEF Covered
  <2>4. CASE OpenFails(k)
    <3> SUFFICES ASSUME NEW j \in Transfers, NEW l \in Streams, Up(j)',
                        reader'[j][l] = Stopped
                 PROVE  task'[j][l] = "ended" \/ writer'[j][l] \in {"failed", "ended"}
      BY DEF Covered
    <3>1. UNCHANGED <<alive, on>>
      BY <2>4, OpenFailsDoes DEF net
    <3>2. Up(j)
      BY <3>1 DEF Up
    <3>3. /\ UNCHANGED <<reader, writer>>
          /\ task'[j][l] = task[j][l] \/ task'[j][l] = "ended"
      BY <2>4, OpenFailsDoes DEF recv, wr
    <3> QED BY <3>2, <3>3 DEF Covered
  <2>5. CASE Respond(k)
    <3> SUFFICES ASSUME NEW j \in Transfers, NEW l \in Streams, Up(j)',
                        reader'[j][l] = Stopped
                 PROVE  task'[j][l] = "ended" \/ writer'[j][l] \in {"failed", "ended"}
      BY DEF Covered
    <3>1. UNCHANGED <<alive, on>>
      BY <2>5, RespondDoes DEF send
    <3>2. Up(j)
      BY <3>1 DEF Up
    <3>3. /\ rpc[k] = "prepared" /\ UNCHANGED <<reader, task>>
          /\ \A x \in Transfers, y \in Streams :
               writer'[x][y] = IF x = k THEN "spawned" ELSE writer[x][y]
      BY <2>5, RespondDoes DEF send
    <3>4. j # k
      <4>1. task[j][l] # "none"
        BY <3>3, Ranges DEF StreamsOpened
      <4>2. writer[j][l] # "none"
        BY <4>1, StreamsLetIn
      <4> QED BY <3>3, <4>2 DEF WritersLive
    <3> QED BY <3>2, <3>3, <3>4 DEF Covered
  <2> QED BY <1>0, <1>1, <2>1, <2>2, <2>3, <2>4, <2>5
          DEF Start, Negotiate, Stream, Answer, Control, ConnectFails,
              Request, RequestFails, OnAccepted, OnRejected, AllOpened,
              Complete, OnAck, SenderFails, Accept, Reject, OnRequest,
              Prepare, RespondFails, Joined, OnComplete, CompleteLost,
              Publish, PublishFails, Ack, AckFails, Answered, Taken, send,
              net, recv, wr, disk
<1>2. ASSUME NEW k \in Transfers, NEW i \in Streams,
             Tasks(k, i) \/ Reader(k, i) \/ Writer(k, i) \/ WriterFails(k, i)
      PROVE  Covered'
  <2>1. CASE TaskEnds(k, i)
    <3> SUFFICES ASSUME NEW j \in Transfers, NEW l \in Streams, Up(j)',
                        reader'[j][l] = Stopped
                 PROVE  task'[j][l] = "ended" \/ writer'[j][l] \in {"failed", "ended"}
      BY DEF Covered
    <3>1. UNCHANGED <<alive, on>>
      BY <2>1, TaskEndsDoes DEF net
    <3>2. Up(j)
      BY <3>1 DEF Up
    <3>3. /\ UNCHANGED <<reader, writer>>
          /\ task'[j][l] = task[j][l] \/ task'[j][l] = "ended"
      BY <2>1, TaskEndsDoes DEF recv, wr
    <3> QED BY <3>2, <3>3 DEF Covered
  <2>2. CASE ReadHeader(k, i)
    <3> SUFFICES ASSUME NEW j \in Transfers, NEW l \in Streams, Up(j)',
                        reader'[j][l] = Stopped
                 PROVE  task'[j][l] = "ended" \/ writer'[j][l] \in {"failed", "ended"}
      BY DEF Covered
    <3>1. UNCHANGED <<alive, on>>
      BY <2>2, ReadHeaderDoes DEF send
    <3>2. Up(j)
      BY <3>1 DEF Up
    <3>3. /\ wire[k][i] # <<>> /\ on[k] \in Conns /\ UNCHANGED <<task, writer>>
          /\ \A x \in Transfers, y \in Streams :
               reader'[x][y] = IF x = k /\ y = i
                               THEN (IF route[on[k]] = Nobody THEN Stopped ELSE route[on[k]])
                               ELSE reader[x][y]
      BY <2>2, ReadHeaderDoes DEF send, wr
    <3>4. CASE j = k /\ l = i
      <4>1. route[on[k]] = Nobody
        <5>1. route[on[k]] \in Transfers \cup {Nobody}
          BY <3>3, StreamTypes
        <5> QED BY <3>3, <3>4, <5>1, Ranges
      <4>2. task[k][i] # "none"
        BY <3>3 DEF StreamsOpened
      <4>3. writer[k][i] # "none" /\ k \in LetIn
        BY <4>2, StreamsLetIn
      <4>4. rpc[k] \in Past
        <5>1. rpc[k] # "prepared"
          BY <4>3 DEF WritersLive
        <5>2. rpc[k] # "joining"
          BY <4>1, Ranges DEF RouteStays
        <5>3. rpc[k] \notin Unanswered
          BY <4>3 DEF LetIn
        <5> QED BY <5>1, <5>2, <5>3, RpcTypes DEF Past, Unanswered, ReceiverOver
      <4>5. writer[k][i] \in {"failed", "ended"}
        BY <4>3, <4>4 DEF WritersLive
      <4> QED BY <3>3, <3>4, <4>5
    <3>5. CASE ~(j = k /\ l = i)
      BY <3>2, <3>3, <3>5 DEF Covered
    <3> QED BY <3>4, <3>5
  <2>3. CASE ReaderEnds(k, i)
    <3> SUFFICES ASSUME NEW j \in Transfers, NEW l \in Streams, Up(j)',
                        reader'[j][l] = Stopped
                 PROVE  task'[j][l] = "ended" \/ writer'[j][l] \in {"failed", "ended"}
      BY DEF Covered
    <3>1. UNCHANGED <<alive, on>>
      BY <2>3, ReaderEndsDoes DEF send, net
    <3>2. Up(j)
      BY <3>1 DEF Up
    <3>3. /\ reader[k][i] \in Transfers
          /\ \/ task[k][i] = "ended"
             \/ ~Open(reader[k][i], i)
          /\ UNCHANGED <<task, writer>>
          /\ \A x \in Transfers, y \in Streams :
               reader'[x][y] = IF x = k /\ y = i THEN Stopped ELSE reader[x][y]
      BY <2>3, ReaderEndsDoes DEF send, wr
    <3>4. CASE j = k /\ l = i
      <4>1. reader[k][i] = k
        BY <3>3, OwnReader
      <4>2. writer[k][i] \in {"none", "spawned", "first", "next", "failed", "ended"}
        BY OneStream
      <4> QED BY <3>3, <3>4, <4>1, <4>2 DEF Open
    <3>5. CASE ~(j = k /\ l = i)
      BY <3>2, <3>3, <3>5 DEF Covered
    <3> QED BY <3>4, <3>5
  <2>4. CASE OpenTemp(k, i)
    <3> SUFFICES ASSUME NEW j \in Transfers, NEW l \in Streams, Up(j)',
                        reader'[j][l] = Stopped
                 PROVE  task'[j][l] = "ended" \/ writer'[j][l] \in {"failed", "ended"}
      BY DEF Covered
    <3>1. UNCHANGED <<alive, on>>
      BY <2>4, OpenTempDoes DEF send, net
    <3>2. Up(j)
      BY <3>1 DEF Up
    <3>3. UNCHANGED <<reader, task>>
      BY <2>4, OpenTempDoes DEF send, recv
    <3>4. writer'[j][l] = writer[j][l] \/ writer[j][l] \notin {"failed", "ended"}
      BY <2>4, OpenTempDoes
    <3> QED BY <3>2, <3>3, <3>4 DEF Covered
  <2>5. CASE WriteChunk(k, i)
    <3> SUFFICES ASSUME NEW j \in Transfers, NEW l \in Streams, Up(j)',
                        reader'[j][l] = Stopped
                 PROVE  task'[j][l] = "ended" \/ writer'[j][l] \in {"failed", "ended"}
      BY DEF Covered
    <3>1. UNCHANGED <<alive, on>>
      BY <2>5, WriteChunkDoes DEF send, net
    <3>2. Up(j)
      BY <3>1 DEF Up
    <3>3. UNCHANGED <<reader, task>>
      BY <2>5, WriteChunkDoes DEF send, recv
    <3>4. writer'[j][l] = writer[j][l] \/ writer[j][l] \notin {"failed", "ended"}
      BY <2>5, WriteChunkDoes
    <3> QED BY <3>2, <3>3, <3>4 DEF Covered
  <2>6. CASE WriterEnds(k, i)
    <3> SUFFICES ASSUME NEW j \in Transfers, NEW l \in Streams, Up(j)',
                        reader'[j][l] = Stopped
                 PROVE  task'[j][l] = "ended" \/ writer'[j][l] \in {"failed", "ended"}
      BY DEF Covered
    <3>1. UNCHANGED <<alive, on>>
      BY <2>6, WriterEndsDoes DEF send, net
    <3>2. Up(j)
      BY <3>1 DEF Up
    <3>3. UNCHANGED <<reader, task>>
      BY <2>6, WriterEndsDoes DEF send, recv
    <3>4. writer'[j][l] = writer[j][l] \/ writer[j][l] \notin {"failed", "ended"}
      BY <2>6, WriterEndsDoes
    <3> QED BY <3>2, <3>3, <3>4 DEF Covered
  <2>7. CASE WriterFails(k, i)
    <3> SUFFICES ASSUME NEW j \in Transfers, NEW l \in Streams, Up(j)',
                        reader'[j][l] = Stopped
                 PROVE  task'[j][l] = "ended" \/ writer'[j][l] \in {"failed", "ended"}
      BY DEF Covered
    <3>1. UNCHANGED <<alive, on>>
      BY <2>7, WriterFailsDoes DEF send, net
    <3>2. Up(j)
      BY <3>1 DEF Up
    <3>3. UNCHANGED <<reader, task>>
      BY <2>7, WriterFailsDoes DEF send, recv
    <3>4. writer'[j][l] = writer[j][l] \/ writer[j][l] \notin {"failed", "ended"}
      BY <2>7, WriterFailsDoes
    <3> QED BY <3>2, <3>3, <3>4 DEF Covered
  <2> QED BY <1>0, <1>2, <2>1, <2>2, <2>3, <2>4, <2>5, <2>6, <2>7
          DEF Tasks, Reader, Writer, SendChunk, Forward, Consume, send, net,
              recv, wr, disk
<1>3. CASE Break
  <2> SUFFICES ASSUME NEW j \in Transfers, NEW l \in Streams, Up(j)',
                      reader'[j][l] = Stopped
               PROVE  task'[j][l] = "ended" \/ writer'[j][l] \in {"failed", "ended"}
    BY DEF Covered
  <2>1. PICK c \in alive :
          /\ alive' = alive \ {c} /\ UNCHANGED <<on, writer>>
          /\ \A x \in Transfers, y \in Streams :
               /\ task'[x][y] = IF on[x] = c /\ task[x][y] = "running" THEN "ended"
                                ELSE task[x][y]
               /\ reader'[x][y] = IF on[x] = c /\ task[x][y] # "none" THEN Stopped
                                  ELSE reader[x][y]
    BY <1>3, BreakDoes DEF wr
  <2>2. on[j] # c /\ Up(j)
    BY <2>1 DEF Up
  <2> QED BY <2>1, <2>2 DEF Covered
<1>4. CASE UNCHANGED vars
  BY <1>0, <1>4 DEF vars, send, net, recv, wr, disk
<1> QED BY <1>1, <1>2, <1>3, <1>4 DEF Next

(* A writer that is in order writes each chunk in its place.               *)
LEMMA InPlaceKept ==
  ASSUME TypeOK, ChanInOrder, InPlace, [Next]_vars
  PROVE  InPlace'
<1>0. UNCHANGED <<data>> => InPlace'
  BY DEF InPlace
<1>1. ASSUME NEW k \in Transfers,
             Start(k) \/ Negotiate(k) \/ Stream(k) \/ Answer(k) \/ Control(k)
      PROVE  InPlace'
  <2>1. CASE Prepare(k)
    <3>1. data' = [data EXCEPT ![temp'] = Blank]
      BY <2>1 DEF Prepare
    <3>2. \A f \in Transfers : data'[f] = data[f] \/ data'[f] = Blank
      BY <3>1, StreamTypes
    <3> QED BY <3>2 DEF InPlace, Blank
  <2> QED BY <1>0, <1>1, <2>1
          DEF Start, Negotiate, Stream, Answer, Control, Reuse, Connect,
              ConnectFails, Request, RequestFails, OnAccepted, OnRejected,
              OpenStream, OpenFails, AllOpened, Complete, OnAck, SenderFails,
              Accept, Reject, OnRequest, Respond, RespondFails, Joined,
              OnComplete, CompleteLost, Publish, PublishFails, Ack, AckFails,
              Answered, Taken, send, net, recv, wr, disk
<1>2. ASSUME NEW k \in Transfers, NEW i \in Streams,
             Tasks(k, i) \/ Reader(k, i) \/ Writer(k, i) \/ WriterFails(k, i)
      PROVE  InPlace'
  <2>1. CASE WriteChunk(k, i)
    <3>1. StreamChained(k, i)
      BY ChanParts
    <3>2. \A f \in Transfers, c \in Chunks : data'[f][c] = data[f][c] \/ data'[f][c] = c
      BY <3>1, <2>1, WriterGoesOn DEF WritesNext
    <3> QED BY <3>2 DEF InPlace
  <2> QED BY <1>0, <1>2, <2>1
          DEF Tasks, Reader, Writer, SendChunk, TaskEnds, ReadHeader,
              Forward, ReaderEnds, OpenTemp, WriterEnds, WriterFails,
              Consume, send, net, recv, wr, disk
<1>3. CASE Break
  BY <1>0, <1>3 DEF Break, wr, disk
<1>4. CASE UNCHANGED vars
  BY <1>0, <1>4 DEF vars, send, net, recv, wr, disk
<1> QED BY <1>1, <1>2, <1>3, <1>4 DEF Next

(* The invariant, and what follows from it.                                *)

LEMMA InitTypes == ASSUME Init PROVE TypeOK
<1>1. /\ Nobody \in Conns \cup {Nobody} /\ 0 \in 0..NStreams /\ 0 \in 0..N
      /\ 0 \in 0..MaxFaults /\ 0 \in 0..Stopped
      /\ 0 <= Window /\ 0 <= Cap
  BY Ranges DEF Stopped
<1>2. Blank \in [Chunks -> Chunks \cup {Zero}]
  BY DEF Blank
<1>3. Len(<<>>) = 0
  OBVIOUS
<1> QED BY <1>1, <1>2, <1>3 DEF Init, TypeOK, Nobody

LEMMA InitAlways == ASSUME Init PROVE Always
<1>1. TypeOK
  BY InitTypes
<1>2. Linked
  BY Ranges DEF Init, Linked, Nobody
<1>3. AcceptedFirst
  BY DEF Init, AcceptedFirst
<1>4. EveryStreamOpened
  BY DEF Init, EveryStreamOpened
<1>5. StreamsOpened
  BY DEF Init, StreamsOpened
<1>6. WritersLive
  BY DEF Init, WritersLive, Past
<1>7. RoutesLetIn
  BY Ranges DEF Init, RoutesLetIn
<1>8. WireInOrder
  BY DEF Init, WireInOrder
<1>9. FinalPublished
  BY DEF Init, FinalPublished
<1> QED BY <1>1, <1>2, <1>3, <1>4, <1>5, <1>6, <1>7, <1>8, <1>9 DEF Always

LEMMA InitWhenAlone == ASSUME Init PROVE WhenAlone
<1>1. RouteStays
  BY DEF Init, RouteStays
<1>2. ChanInOrder
  BY Ranges DEF Init, ChanInOrder
<1>3. Covered
  BY DEF Init, Covered, Up
<1>4. InPlace
  BY DEF Init, InPlace, Blank
<1> QED BY <1>1, <1>2, <1>3, <1>4 DEF WhenAlone

LEMMA AlwaysKept == ASSUME Always, [Next]_vars PROVE Always'
<1>1. /\ TypeOK /\ Linked /\ AcceptedFirst /\ EveryStreamOpened
      /\ StreamsOpened /\ WritersLive /\ RoutesLetIn /\ WireInOrder /\ FinalPublished
  BY DEF Always
<1>2. TypeOK' /\ Linked' /\ AcceptedFirst'
  BY <1>1, TypesKept, LinkedKept, AcceptedFirstKept
<1>3. EveryStreamOpened' /\ StreamsOpened' /\ WritersLive'
  BY <1>1, EveryStreamOpenedKept, StreamsOpenedKept, WritersLiveKept
<1>4. RoutesLetIn' /\ WireInOrder' /\ FinalPublished'
  BY <1>1, RoutesLetInKept, WireKept, FinalPublishedKept
<1> QED BY <1>2, <1>3, <1>4 DEF Always

LEMMA WhenAloneKept ==
  ASSUME Always, WhenAlone, Alone, Alone', [Next]_vars
  PROVE  WhenAlone'
<1>1. /\ TypeOK /\ Linked /\ AcceptedFirst /\ StreamsOpened /\ WritersLive
      /\ RoutesLetIn /\ WireInOrder /\ Lone /\ RouteStays /\ ChanInOrder /\ Covered /\ InPlace
  BY AloneIsLone DEF Always, WhenAlone
<1>2. Lone'
  BY AloneIsLone, PTL
<1>3. RouteStays' /\ InPlace'
  BY <1>1, <1>2, RouteStaysKept, InPlaceKept
<1>4. ChanInOrder'
  BY <1>1, ChanInOrderKept
<1>5. Covered'
  BY <1>1, CoveredKept
<1> QED BY <1>3, <1>4, <1>5 DEF WhenAlone

(* The invariant is inductive.                                             *)
THEOREM Inductive == Spec => []IInv
<1>1. Init => IInv
  BY InitAlways, InitWhenAlone DEF IInv
<1>2. IInv /\ [Next]_vars => IInv'
  <2> SUFFICES ASSUME IInv, [Next]_vars PROVE IInv'
    OBVIOUS
  <2>1. Always /\ Always'
    BY AlwaysKept DEF IInv
  <2>2. ASSUME Alone' PROVE WhenAlone'
    <3>1. TypeOK
      BY <2>1 DEF Always
    <3>2. Alone
      BY <2>2, <3>1, AloneWas
    <3>3. WhenAlone
      BY <3>2 DEF IInv
    <3> QED BY <2>1, <2>2, <3>2, <3>3, WhenAloneKept
  <2> QED BY <2>1, <2>2 DEF IInv
<1> QED BY <1>1, <1>2, PTL DEF Spec

(* The places of the writers stay within the file, the streams and the     *)
(* channels within their bounds.                                           *)
THEOREM TypeCorrect == Spec => []TypeOK
<1>1. IInv => TypeOK
  BY DEF IInv, Always
<1> QED BY <1>1, Inductive, PTL

(* Whatever the size of the file and the number of streams,                *)
(* send_data_streams sends each chunk on exactly one of the streams it     *)
(* has opened.                                                             *)
THEOREM EveryChunkOnce == Spec => []EveryChunkInOneRange
<1>1. IInv => EveryChunkInOneRange
  <2> SUFFICES ASSUME IInv, NEW k \in Transfers, spc[k] \in {"joining", "waiting"},
                      NEW c \in Chunks
               PROVE  \E i \in 0..opened[k] - 1 :
                        /\ c \in RangeOf(i, N, NStreams)
                        /\ \A j \in 0..opened[k] - 1 :
                             c \in RangeOf(j, N, NStreams) => j = i
    BY DEF EveryChunkInOneRange
  <2>1. opened[k] \in 0..NStreams
    BY DEF IInv, Always, TypeOK
  <2>2. ~(opened[k] < NStreams /\ FirstOf(opened[k], N, NStreams) < N)
    BY DEF IInv, Always, EveryStreamOpened, MoreStreams
  <2>3. N \in Nat \ {0} /\ NStreams \in Nat \ {0} /\ c \in 0..N - 1
    BY Ranges DEF Chunks
  <2> QED BY <2>1, <2>2, <2>3, InOneRange
<1> QED BY <1>1, Inductive, PTL

(* One seek per stream is enough: while one transfer of the file was let   *)
(* in, every chunk a writer wrote is in its place.                         *)
THEOREM ChunksLandInPlace == Spec => []ChunksInPlace
<1>1. IInv => ChunksInPlace
  BY DEF IInv, WhenAlone, InPlace, ChunksInPlace
<1> QED BY <1>1, Inductive, PTL

(* While one transfer of the file was let in, no data stream arrives       *)
(* before its route: it is turned away only when its task or its writer    *)
(* has ended.                                                              *)
THEOREM RouteIsThere == Spec => []RouteCovers
<1>1. IInv => RouteCovers
  BY DEF IInv, WhenAlone, Covered, RouteCovers
<1> QED BY <1>1, Inductive, PTL

(* What is published by the only transfer let in is not touched again.     *)
LEMMA PublishedIsLeft ==
  ASSUME IInv, [Next]_vars, Alone', final # Nobody
  PROVE  final' = final /\ data'[final] = data[final]
<1>1. TypeOK /\ WritersLive /\ FinalPublished
  BY DEF IInv, Always
<1>2. PICK j \in Transfers : rpc[j] \in {"renamed", "done", "failed"}
  BY <1>1 DEF FinalPublished
<1>3. j \in LetIn /\ j \in LetIn'
  <2>1. j \in LetIn
    BY <1>2 DEF LetIn, Unanswered
  <2> QED BY <1>1, <2>1, LetInGrows
<1>4. \A k \in LetIn' : k = j
  <2>1. Lone'
    BY AloneIsLone, PTL
  <2> QED BY <1>3, <2>1 DEF Lone
<1>5. \A k \in LetIn : k = j
  BY <1>1, <1>4, LetInGrows
<1>6. UNCHANGED <<final, data>> => final' = final /\ data'[final] = data[final]
  OBVIOUS
<1>7. ASSUME NEW k \in Transfers,
             Start(k) \/ Negotiate(k) \/ Stream(k) \/ Answer(k) \/ Control(k)
      PROVE  final' = final /\ data'[final] = data[final]
  <2>1. CASE Prepare(k)
    <3>1. rpc[k] = "accepted" /\ rpc' = [rpc EXCEPT ![k] = "prepared"]
      BY <2>1 DEF Prepare
    <3>2. k \in LetIn'
      BY <1>1, <3>1, RpcTypes DEF LetIn, Unanswered
    <3> QED BY <1>2, <1>4, <3>1, <3>2
  <2>2. CASE Publish(k)
    <3>1. rpc[k] = "completed"
      BY <2>2 DEF Publish
    <3>2. k \in LetIn
      BY <3>1 DEF LetIn, Unanswered
    <3> QED BY <1>2, <1>5, <3>1, <3>2
  <2> QED BY <1>6, <1>7, <2>1, <2>2
          DEF Start, Negotiate, Stream, Answer, Control, Reuse, Connect, ConnectFails,
              Request, RequestFails, OnAccepted, OnRejected, OpenStream, OpenFails,
              AllOpened, Complete, OnAck, SenderFails, Accept, Reject, OnRequest, Respond,
              RespondFails, Joined, OnComplete, CompleteLost, PublishFails, Ack, AckFails,
              Answered, Taken, disk
<1>8. ASSUME NEW k \in Transfers, NEW i \in Streams,
             Tasks(k, i) \/ Reader(k, i) \/ Writer(k, i) \/ WriterFails(k, i)
      PROVE  final' = final /\ data'[final] = data[final]
  <2>1. CASE WriteChunk(k, i)
    <3>1. writer[k][i] \in {"first", "next"}
      BY <2>1 DEF WriteChunk
    <3>2. rpc[k] \notin Unanswered \cup {"prepared"} \cup Past
      BY <1>1, <3>1 DEF WritersLive
    <3>3. k \in LetIn
      BY <3>2 DEF LetIn
    <3> QED BY <1>2, <1>5, <3>2, <3>3 DEF Past
  <2> QED BY <1>6, <1>8, <2>1 DEF Tasks, Reader, Writer, SendChunk, TaskEnds, ReadHeader,
       Forward, ReaderEnds, OpenTemp, WriterEnds, WriterFails, disk
<1>9. CASE Break
  BY <1>6, <1>9 DEF Break, disk
<1>10. CASE UNCHANGED vars
  BY <1>6, <1>10 DEF vars, disk
<1> QED BY <1>7, <1>8, <1>9, <1>10 DEF Next

(* While one transfer of the file was let in, a file that has its final    *)
(* name keeps it and its chunks.                                           *)
THEOREM PublishedIsFinal == Spec => PublishedStays
<1>1. IInv /\ [Next]_vars =>
        [Alone' /\ final # Nobody => final' = final /\ data'[final] = data[final]]_vars
  BY PublishedIsLeft
<1> QED BY <1>1, Inductive, PTL DEF Spec, PublishedStays
=============================================================================
