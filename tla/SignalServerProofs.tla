------------------------- MODULE SignalServerProofs -------------------------
(***************************************************************************)
(* What the signalling server never does, for every number of devices,     *)
(* connections, invite codes, messages and addresses, and every capacity.  *)
(*                                                                         *)
(* The handlers are cut into critical sections, so what an action relies   *)
(* on was found out by an earlier one.  IInv says what is still true of it *)
(* when it is used:                                                        *)
(*   Jobs      the local variables of a handler fit what it is doing;      *)
(*   Rightful  an entry of `online` belongs to a connection of its device; *)
(*   Mutual    friendship is mutual;                                       *)
(*   Befriended  whatever is on its way to a device is from a friend;      *)
(*   Unspent   a code that can still be accepted has paired nobody, and    *)
(*             only one handler is about to pair with a code;              *)
(*   KnownSent a message that is anywhere was sent;                        *)
(*   OnePlace  a message is at one place.                                  *)
(*                                                                         *)
(* With one operation at a time, SerialInv and Views say what a handler    *)
(* still owes to whom, and what every client will have heard from the      *)
(* notes in its channel.                                                   *)
(*                                                                         *)
(* The last part is about SignalAdmission: exact counters and the limits,  *)
(* for every number of connections and addresses.                          *)
(***************************************************************************)
EXTENDS SignalServer, SignalAdmission, QueueLemmas, FiniteSetTheorems

Served  == {"announce", "serving", "remove"} \cup Working
Pairing == {"pair", "lookup", "answer", "tell"}
Sending == {"route", "park"}

Jobs ==
  \A c \in Conns :
    /\ phase[c] = "reply" => job[c].note \in [type : {"code", "refused"}]
    /\ phase[c] \in Pairing => job[c].to \in Devices /\ job[c].code \in Codes
    /\ phase[c] = "answer" => job[c].standing \in Addrs \cup {Off}
    /\ phase[c] \in Sending => job[c].msg \in Msgs /\ job[c].to \in Devices

Issued   == \A k \in Codes : codes[k].state = "valid" => codes[k].issuer \in Devices
Rightful == \A d \in Devices : online[d] # None => Owner[online[d]] = d
Mutual   == \A d, e \in Devices : e \in friends[d] => d \in friends[e]

RelayChecked == \A c \in Conns : phase[c] \in Sending => job[c].to \in friends[Owner[c]]
HeldOK    == \A c \in Conns : \A i \in 1..Len(held[c]) : held[c][i].from \in friends[Owner[c]]
QueueOK   == \A c \in Conns : \A i \in 1..Len(queue[c]) :
               queue[c][i].type = "relayed" => queue[c][i].body.from \in friends[Owner[c]]
OfflineOK == \A d \in Devices : \A i \in 1..Len(offline[d]) : offline[d][i].from \in friends[d]
StoredOK  == \A d \in Devices : \A i \in 1..Len(received[d]) : received[d][i].from \in friends[d]

Befriended == RelayChecked /\ HeldOK /\ QueueOK /\ OfflineOK /\ StoredOK

Unspent ==
  /\ \A k \in Codes : codes[k].state # "removed" =>
       /\ paired[k] = {}
       /\ \A c \in Conns : phase[c] = "pair" => job[c].code # k
  /\ \A c \in Conns : phase[c] = "pair" =>
       /\ paired[job[c].code] = {}
       /\ \A x \in Conns \ {c} : phase[x] = "pair" => job[x].code # job[c].code
  /\ \A k \in Codes : \A d, e \in paired[k] : d = e

(* Message m is at the i-th position of place x of kind k: what Places     *)
(* collects, as a predicate.                                               *)
At(m, k, x, i) ==
  \/ k = "handler" /\ x \in Conns /\ i = 0 /\ job[x].msg = m
  \/ k = "held" /\ x \in Conns /\ i \in 1..Len(held[x]) /\ held[x][i].msg = m
  \/ k = "channel" /\ x \in Conns /\ i \in 1..Len(queue[x])
     /\ queue[x][i].type = "relayed" /\ queue[x][i].body.msg = m
  \/ k = "offline" /\ x \in Devices /\ i \in 1..Len(offline[x]) /\ offline[x][i].msg = m
  \/ k = "stored" /\ x \in Devices /\ i \in 1..Len(received[x]) /\ received[x][i].msg = m

KnownSent == \A m \in Msgs : \A k, x, i : At(m, k, x, i) => m \in sent
OnePlace  == \A m \in Msgs : \A k, x, i, l, y, j :
               At(m, k, x, i) /\ At(m, l, y, j) => k = l /\ x = y /\ i = j

IInv == /\ TypeOK /\ Jobs /\ Issued /\ Rightful /\ NoGhosts /\ Mutual /\ Befriended
        /\ Unspent /\ KnownSent /\ OnePlace

(* The actions by the part of a connection's life they belong to.          *)
OpeningStep(c) ==
  \/ Register(c) \/ Snapshot(c) \/ PushOffline(c) \/ Greet(c)
  \/ GreetFails(c) \/ Insert(c) \/ Announce(c)
WorkStep(c) ==
  \/ Notify(c) \/ Reply(c) \/ Pair(c) \/ Lookup(c) \/ Answer(c)
  \/ TellIssuer(c) \/ RouteNowhere(c) \/ Park(c)
EndStep(c) ==
  Leave(c) \/ Remove(c) \/ Farewell(c) \/ WriterEnds(c) \/ Break(c)
CodeStep == (\E k \in Codes : Expire(k)) \/ CleanupInvites

LEMMA Steps ==
  ASSUME [Next]_vars
  PROVE  \/ UNCHANGED vars
         \/ \E c \in Conns : \/ OpeningStep(c) \/ Request(c) \/ WorkStep(c)
                             \/ Route(c) \/ Deliver(c) \/ EndStep(c)
         \/ CodeStep
  BY DEF Next, Handler, AllGone, OpeningStep, WorkStep, EndStep, CodeStep

-----------------------------------------------------------------------------
(* Channels.                                                               *)

(* What happens to the channels in every action but Route and Deliver:     *)
(* nothing that carries a message is added or moves.                       *)
Quiet ==
  /\ queue' \in [Conns -> Seq(Note)]
  /\ \A c \in Conns : Len(queue'[c]) <= QueueCap
  /\ \A c \in Conns : \A i \in 1..Len(queue'[c]) :
       \/ i \in 1..Len(queue[c]) /\ queue'[c][i] = queue[c][i]
       \/ queue'[c][i].type # "relayed"

(* A note to every connection of T adds at most itself, at the end.        *)
LEMMA TellAdds ==
  ASSUME TypeOK, NEW T, NEW n \in Note, Tell(T, n)
  PROVE  /\ queue' \in [Conns -> Seq(Note)]
         /\ \A c \in Conns : Len(queue'[c]) <= QueueCap
         /\ \A c \in Conns : \A i \in 1..Len(queue'[c]) :
              \/ i \in 1..Len(queue[c]) /\ queue'[c][i] = queue[c][i]
              \/ c \in T /\ i = Len(queue[c]) + 1 /\ queue'[c][i] = n
<1>1. ASSUME NEW c \in Conns
      PROVE  /\ queue'[c] \in Seq(Note) /\ Len(queue'[c]) <= QueueCap
             /\ \A i \in 1..Len(queue'[c]) :
                  \/ i \in 1..Len(queue[c]) /\ queue'[c][i] = queue[c][i]
                  \/ c \in T /\ i = Len(queue[c]) + 1 /\ queue'[c][i] = n
  <2>1. queue[c] \in Seq(Note) /\ Len(queue[c]) <= QueueCap /\ Len(queue[c]) \in Nat
    BY LenProperties DEF TypeOK
  <2>2. QueueCap \in Nat
    BY ConstantsOK DEF ConstantsOK
  <2>3. CASE c \in T /\ Room(c)
    <3>1. queue'[c] = Append(queue[c], n)
      BY <2>3 DEF Tell
    <3> QED BY <2>1, <2>2, <2>3, <3>1, PutElements DEF Room
  <2>4. CASE ~(c \in T /\ Room(c))
    <3>1. queue'[c] = queue[c]
      BY <2>4 DEF Tell
    <3> QED BY <2>1, <3>1
  <2> QED BY <2>3, <2>4
<1>2. queue' \in [Conns -> Seq(Note)]
  BY <1>1 DEF Tell
<1> QED BY <1>1, <1>2

LEMMA TellQuiet ==
  ASSUME TypeOK, NEW T, NEW n \in Note, n.type # "relayed", Tell(T, n)
  PROVE  Quiet
  BY TellAdds DEF Quiet

LEMMA SameQuiet ==
  ASSUME TypeOK, queue' = queue
  PROVE  Quiet
  BY DEF Quiet, TypeOK

LEMMA EmptyQuiet ==
  ASSUME TypeOK, NEW c \in Conns, queue' = [queue EXCEPT ![c] = <<>>]
  PROVE  Quiet
<1>1. queue \in [Conns -> Seq(Note)] /\ \A x \in Conns : Len(queue[x]) <= QueueCap
  BY DEF TypeOK
<1>2. queue' \in [Conns -> Seq(Note)]
  BY <1>1, QueueClear
<1>3. Len(<<>>) = 0 /\ QueueCap \in Nat
  BY ConstantsOK DEF ConstantsOK
<1>4. \A x \in Conns : queue'[x] = IF x = c THEN <<>> ELSE queue[x]
  BY <1>1
<1> QED BY <1>1, <1>2, <1>3, <1>4 DEF Quiet

(* The notes of the handlers.                                              *)
LEMMA NotesFit ==
  /\ \A d \in Devices, a \in Addrs :
       /\ [type |-> "online", dev |-> d, addr |-> a] \in Note
       /\ [type |-> "paired", dev |-> d, addr |-> a] \in Note
  /\ \A d \in Devices : [type |-> "offline", dev |-> d] \in Note
  /\ \A b \in Relayed : [type |-> "relayed", body |-> b] \in Note
  /\ \A t \in {"code", "refused", "pairedOffline"} : [type |-> t] \in Note
  BY DEF Note

LEMMA PresenceFits ==
  ASSUME TypeOK, NEW c \in Conns
  PROVE  /\ Presence(c) \in Note /\ Presence(c).type = "online"
         /\ [Presence(c) EXCEPT !.type = "paired"] \in Note
         /\ [Presence(c) EXCEPT !.type = "paired"].type = "paired"
<1>1. Owner[c] \in Devices /\ cur[c] \in Addrs
  BY ConstantsOK DEF ConstantsOK, TypeOK
<1>2. [Presence(c) EXCEPT !.type = "paired"]
        = [type |-> "paired", dev |-> Owner[c], addr |-> cur[c]]
  BY DEF Presence
<1> QED BY <1>1, <1>2, NotesFit DEF Presence

LEMMA RelayedNote ==
  ASSUME NEW n \in Note, n.type = "relayed"
  PROVE  n.body \in Relayed
  BY DEF Note

-----------------------------------------------------------------------------
(* Every action but Route and Deliver leaves the channels quiet.           *)

LEMMA OpeningQuiet ==
  ASSUME IInv, NEW c \in Conns, OpeningStep(c)
  PROVE  Quiet
<1> USE DEF IInv
<1>1. CASE Announce(c)
  BY <1>1, PresenceFits, TellQuiet DEF Announce
<1>2. CASE ~Announce(c)
  BY <1>2, SameQuiet DEF OpeningStep, Register, Snapshot, PushOffline, Greet, GreetFails,
                           Insert, channel
<1> QED BY <1>1, <1>2 DEF OpeningStep

LEMMA RequestQuiet ==
  ASSUME IInv, NEW c \in Conns,
         \/ Request(c) \/ RouteNowhere(c) \/ Park(c) \/ Pair(c) \/ Lookup(c)
  PROVE  Quiet
  BY SameQuiet DEF IInv, Request, UpdateAddr, GenerateInvite, AcceptInvite, RefuseInvite,
     Relay, RefuseRelay, RouteNowhere, Park, Pair, Lookup, channel

LEMMA AnswerQuiet ==
  ASSUME IInv, NEW c \in Conns, Notify(c) \/ Reply(c) \/ Answer(c)
  PROVE  Quiet
<1> USE DEF IInv
<1>1. CASE Notify(c)
  BY <1>1, PresenceFits, TellQuiet DEF Notify
<1>2. CASE Reply(c)
  <2>1. job[c].note \in [type : {"code", "refused"}]
    BY <1>2 DEF Reply, Goto, Jobs
  <2>2. job[c].note \in Note /\ job[c].note.type # "relayed"
    BY <2>1 DEF Note
  <2> QED BY <1>2, <2>2, TellQuiet DEF Reply, SendOwn
<1>3. CASE Answer(c)
  <2> DEFINE s == job[c].standing
             n == IF s = Off THEN [type |-> "pairedOffline"]
                  ELSE [type |-> "paired", dev |-> job[c].to, addr |-> s]
  <2>1. job[c].to \in Devices /\ s \in Addrs \cup {Off}
    BY <1>3 DEF Answer, Jobs, Pairing
  <2>2. n \in Note /\ n.type # "relayed"
    BY <2>1, NotesFit
  <2>3. Tell({c}, n)
    BY <1>3 DEF Answer, SendOwn
  <2> QED BY <2>2, <2>3, TellQuiet
<1> QED BY <1>1, <1>2, <1>3

(* Of two notes, as many as fit.                                           *)
LEMMA TellIssuerQuiet ==
  ASSUME IInv, NEW c \in Conns, TellIssuer(c)
  PROVE  Quiet
<1> DEFINE T    == Listed({job[c].to})
           news == <<Presence(c), [Presence(c) EXCEPT !.type = "paired"]>>
           fit(x) == IF ~open[x] THEN 0
                     ELSE IF QueueCap - Len(queue[x]) > 2 THEN 2 ELSE QueueCap - Len(queue[x])
<1>1. queue' = [x \in Conns |-> IF x \in T THEN queue[x] \o SubSeq(news, 1, fit(x))
                                ELSE queue[x]]
  BY DEF TellIssuer
<1>2. /\ news[1] \in Note /\ news[1].type # "relayed"
      /\ news[2] \in Note /\ news[2].type # "relayed"
  BY PresenceFits DEF IInv
<1> HIDE DEF news
<1>3. ASSUME NEW x \in Conns
      PROVE  /\ queue'[x] \in Seq(Note) /\ Len(queue'[x]) <= QueueCap
             /\ \A i \in 1..Len(queue'[x]) :
                  \/ i \in 1..Len(queue[x]) /\ queue'[x][i] = queue[x][i]
                  \/ queue'[x][i].type # "relayed"
  <2>1. queue[x] \in Seq(Note) /\ Len(queue[x]) <= QueueCap /\ Len(queue[x]) \in Nat
    BY LenProperties DEF IInv, TypeOK
  <2>2. QueueCap \in Nat
    BY ConstantsOK DEF ConstantsOK
  <2> DEFINE k == fit(x)
             s == SubSeq(news, 1, k)
  <2>3. k \in 0..2 /\ Len(queue[x]) + k <= QueueCap
    <3> DEFINE l == Len(queue[x])
    <3>1. l \in Nat /\ l <= QueueCap
      BY <2>1
    <3>2. (k = 0) \/ (k = 2 /\ QueueCap - l > 2) \/ (k = QueueCap - l /\ ~(QueueCap - l > 2))
      OBVIOUS
    <3> HIDE DEF k, l
    <3>3. k \in 0..2 /\ l + k <= QueueCap
      BY <3>1, <3>2, <2>2
    <3> QED BY <3>3 DEF l
  <2> HIDE DEF k
  <2>4. /\ s \in Seq(Note) /\ Len(s) = k
        /\ \A i \in 1..k : s[i] = news[i]
    <3>1. \A i \in 1..k : news[i] \in Note
      BY <1>2, <2>3
    <3>2. /\ s \in Seq(Note)
          /\ Len(s) = IF 1 <= k THEN k - 1 + 1 ELSE 0
          /\ \A i \in 1..k - 1 + 1 : s[i] = news[1 + i - 1]
      BY <2>3, <3>1, SubSeqProperties
    <3> QED BY <2>3, <3>2
  <2>5. \A i \in 1..k : s[i].type # "relayed"
    BY <1>2, <2>3, <2>4
  <2> HIDE DEF s
  <2>6. CASE x \in T
    <3>1. queue'[x] = queue[x] \o s
      BY <1>1, <2>6 DEF k, s
    <3>2. /\ queue[x] \o s \in Seq(Note)
          /\ Len(queue[x] \o s) = Len(queue[x]) + Len(s)
          /\ \A i \in 1..Len(queue[x]) + Len(s) :
               (queue[x] \o s)[i] = IF i <= Len(queue[x]) THEN queue[x][i]
                                    ELSE s[i - Len(queue[x])]
      BY <2>1, <2>4, ConcatProperties
    <3> QED BY <2>1, <2>3, <2>4, <2>5, <3>1, <3>2
  <2>7. CASE x \notin T
    <3>1. queue'[x] = queue[x]
      BY <1>1, <2>7
    <3> QED BY <2>1, <3>1
  <2> QED BY <2>6, <2>7
<1>4. queue' \in [Conns -> Seq(Note)]
  BY <1>1, <1>3
<1> QED BY <1>3, <1>4 DEF Quiet

LEMMA EndQuiet ==
  ASSUME IInv, NEW c \in Conns, EndStep(c)
  PROVE  Quiet
<1> USE DEF IInv
<1>1. CASE Farewell(c)
  <2>1. [type |-> "offline", dev |-> Owner[c]] \in Note
    BY NotesFit, ConstantsOK DEF ConstantsOK
  <2> QED BY <1>1, <2>1, TellQuiet DEF Farewell
<1>2. CASE Leave(c) \/ WriterEnds(c)
  BY <1>2, EmptyQuiet DEF Leave, WriterEnds
<1>3. CASE Remove(c) \/ Break(c)
  BY <1>3, SameQuiet DEF Remove, Break, channel
<1> QED BY <1>1, <1>2, <1>3 DEF EndStep

-----------------------------------------------------------------------------
(* Types.                                                                  *)

LEMMA ConstantsTyped ==
  /\ Owner \in [Conns -> Devices]
  /\ NoAddr \in Addrs /\ NoFriend \in Standing
  /\ Nobody \in [Devices -> Standing]
  /\ NoJob \in Job
  /\ OfflineCap \in Nat
  BY ConstantsOK DEF ConstantsOK, Standing, Nobody, NoJob, Job

LEMMA InitTyped == Init => TypeOK
<1> SUFFICES ASSUME Init PROVE TypeOK
  OBVIOUS
<1> USE DEF Init
<1>1. /\ \A S : <<>> \in Seq(S) /\ Len(<<>>) = 0
      /\ QueueCap \in Nat
  BY EmptySeq, ConstantsOK DEF ConstantsOK
<1>2. held \in [Conns -> Seq(Relayed)] /\ queue \in [Conns -> Seq(Note)]
  BY <1>1
<1>3. offline \in [Devices -> Seq(Relayed)] /\ received \in [Devices -> Seq(Relayed)]
  BY <1>1
<1>4. /\ \A c \in Conns : Len(queue[c]) <= QueueCap
      /\ \A d \in Devices : Len(offline[d]) <= OfflineCap
  BY <1>1, ConstantsTyped
<1>5. phase \in [Conns -> Phase] /\ job \in [Conns -> Job]
  BY ConstantsTyped DEF Phase
<1>6. snap \in [Conns -> [Devices -> Standing]] /\ view \in [Conns -> [Devices -> Standing]]
  BY ConstantsTyped
<1>7. /\ cur \in [Conns -> Addrs] /\ addr \in [Devices -> Addrs]
      /\ open \in [Conns -> BOOLEAN] /\ broken \in [Conns -> BOOLEAN]
      /\ online \in [Devices -> Conns \cup {None}]
  BY ConstantsTyped
<1>8. /\ friends \in [Devices -> SUBSET Devices] /\ paired \in [Codes -> SUBSET Devices]
      /\ sent \subseteq Msgs /\ missed \subseteq Conns
  OBVIOUS
<1>9. codes \in [Codes -> [issuer : Devices \cup {None},
                           state : {"unused", "valid", "expired", "removed"}]]
  OBVIOUS
<1> QED
  BY <1>2, <1>3, <1>4, <1>5, <1>6, <1>7, <1>8, <1>9, Zenon DEF TypeOK

(* The job of a handler with some of its fields filled in.                 *)
LEMMA JobsTyped ==
  /\ \A T \in SUBSET Conns : [NoJob EXCEPT !.txs = T] \in Job
  /\ \A n \in Note : [NoJob EXCEPT !.note = n] \in Job
  /\ \A d \in Devices, k \in Codes : [NoJob EXCEPT !.to = d, !.code = k] \in Job
  /\ \A m \in Msgs, d \in Devices : [NoJob EXCEPT !.msg = m, !.to = d] \in Job
  BY ConstantsTyped DEF NoJob, Job

LEMMA ListedTyped ==
  ASSUME TypeOK, NEW S \in SUBSET Devices
  PROVE  Listed(S) \subseteq Conns
  BY DEF Listed, TypeOK

LEMMA HereTyped ==
  ASSUME TypeOK, NEW d \in Devices
  PROVE  Here(d) \in Addrs \cup {Off} /\ Here(d) \in Standing
  BY DEF Here, TypeOK, Standing

CodeStates == {"unused", "valid", "expired", "removed"}

CodeEntry  == [issuer : Devices \cup {None}, state : CodeStates]

LEMMA CodeSet ==
  ASSUME TypeOK, NEW k \in Codes, NEW s \in CodeStates
  PROVE  /\ [codes[k] EXCEPT !.state = s] = [issuer |-> codes[k].issuer, state |-> s]
         /\ [codes[k] EXCEPT !.state = s] \in CodeEntry
         /\ [codes EXCEPT ![k].state = s] = [codes EXCEPT ![k] = [codes[k] EXCEPT !.state = s]]
         /\ [codes EXCEPT ![k].state = s] \in [Codes -> CodeEntry]
<1>1. codes \in [Codes -> CodeEntry]
  BY DEF TypeOK, CodeEntry, CodeStates
<1>2. codes[k] \in CodeEntry
  BY <1>1
<1>3. [codes[k] EXCEPT !.state = s] = [issuer |-> codes[k].issuer, state |-> s]
  BY <1>2 DEF CodeEntry
<1>4. [codes[k] EXCEPT !.state = s] \in CodeEntry
  BY <1>2, <1>3 DEF CodeEntry
<1>5. [codes EXCEPT ![k].state = s] = [codes EXCEPT ![k] = [codes[k] EXCEPT !.state = s]]
  BY <1>1
<1> QED BY <1>1, <1>3, <1>4, <1>5

LEMMA StutterTyped ==
  ASSUME TypeOK, UNCHANGED vars
  PROVE  TypeOK'
  BY DEF TypeOK, vars, handler, channel, roster, clients

LEMMA OpeningTyped ==
  ASSUME IInv, NEW c \in Conns, OpeningStep(c)
  PROVE  TypeOK'
<1>0. TypeOK /\ Owner[c] \in Devices
  BY ConstantsTyped DEF IInv
<1> USE <1>0, ConstantsTyped DEF TypeOK, handler, channel, roster, clients, Goto
<1>1. CASE Register(c)
  <2>1. offline[Owner[c]] \in Seq(Relayed)
    OBVIOUS
  <2>2. held' \in [Conns -> Seq(Relayed)]
    BY <1>1, <2>1 DEF Register
  <2>3. /\ offline' \in [Devices -> Seq(Relayed)]
        /\ \A d \in Devices : Len(offline'[d]) <= OfflineCap
    <3>1. offline' = [offline EXCEPT ![Owner[c]] = <<>>]
      BY <1>1 DEF Register
    <3>2. offline' \in [Devices -> Seq(Relayed)]
      BY <3>1, QueueClear
    <3> QED BY <3>1, <3>2, EmptySeq
  <2>4. phase' \in [Conns -> Phase]
    BY <1>1 DEF Register, Phase, Opening
  <2> QED BY <1>1, <2>2, <2>3, <2>4 DEF Register
<1>2. CASE Snapshot(c)
  <2>1. [d \in Devices |-> IF d \in friends[Owner[c]] THEN Here(d) ELSE NoFriend]
          \in [Devices -> Standing]
    BY HereTyped
  <2>2. phase' \in [Conns -> Phase]
    BY <1>2 DEF Snapshot, Phase, Opening
  <2> QED BY <1>2, <2>1, <2>2 DEF Snapshot
<1>3. CASE PushOffline(c)
  <2>1. received[Owner[c]] \o held[c] \in Seq(Relayed)
    BY ConcatProperties
  <2>2. received' \in [Devices -> Seq(Relayed)]
    BY <1>3, <2>1 DEF PushOffline
  <2>3. held' \in [Conns -> Seq(Relayed)]
    BY <1>3, QueueClear DEF PushOffline
  <2> QED BY <1>3, <2>2, <2>3 DEF PushOffline
<1>4. CASE Greet(c)
  <2>1. phase' \in [Conns -> Phase]
    BY <1>4 DEF Greet, Phase, Opening
  <2> QED BY <1>4, <2>1 DEF Greet
<1>5. CASE GreetFails(c)
  <2>1. phase' \in [Conns -> Phase]
    BY <1>5 DEF GreetFails, Phase
  <2>2. held' \in [Conns -> Seq(Relayed)]
    BY <1>5, QueueClear DEF GreetFails
  <2> QED BY <1>5, <2>1, <2>2 DEF GreetFails
<1>6. CASE Insert(c)
  <2>1. phase' \in [Conns -> Phase]
    BY <1>6 DEF Insert, Phase, Opening
  <2> QED BY <1>6, <2>1 DEF Insert
<1>7. CASE Announce(c)
  <2>1. phase' \in [Conns -> Phase]
    BY <1>7 DEF Announce, Phase
  <2>2. queue' \in [Conns -> Seq(Note)] /\ \A x \in Conns : Len(queue'[x]) <= QueueCap
    BY <1>7, OpeningQuiet DEF Quiet
  <2>3. missed' \subseteq Conns
    BY <1>7, ListedTyped DEF Announce, Misses
  <2> QED BY <1>7, <2>1, <2>2, <2>3 DEF Announce
<1> QED BY <1>1, <1>2, <1>3, <1>4, <1>5, <1>6, <1>7 DEF OpeningStep

LEMMA RequestTyped ==
  ASSUME IInv, NEW c \in Conns, Request(c)
  PROVE  TypeOK'
<1>0. TypeOK /\ Owner[c] \in Devices
  BY ConstantsTyped DEF IInv
<1>1. queue' \in [Conns -> Seq(Note)] /\ \A x \in Conns : Len(queue'[x]) <= QueueCap
  BY RequestQuiet DEF Quiet
<1> USE <1>0, <1>1, ConstantsTyped DEF TypeOK, handler, channel, roster, clients, Goto, Serving
<1>2. ASSUME NEW a \in Addrs, UpdateAddr(c, a) PROVE TypeOK'
  <2>1. phase' \in [Conns -> Phase]
    BY <1>2 DEF UpdateAddr, Phase, Working
  <2>2. job' \in [Conns -> Job]
    BY <1>2, ListedTyped, JobsTyped DEF UpdateAddr
  <2> QED BY <1>2, <2>1, <2>2 DEF UpdateAddr
<1>3. ASSUME NEW k \in Codes, GenerateInvite(c, k) PROVE TypeOK'
  <2>1. phase' \in [Conns -> Phase]
    BY <1>3 DEF GenerateInvite, Phase, Working
  <2>2. job' \in [Conns -> Job]
    BY <1>3, NotesFit, JobsTyped DEF GenerateInvite
  <2> QED BY <1>3, <2>1, <2>2 DEF GenerateInvite
<1>4. ASSUME NEW k \in Codes, AcceptInvite(c, k) PROVE TypeOK'
  <2>1. phase' \in [Conns -> Phase]
    BY <1>4 DEF AcceptInvite, Phase, Working
  <2>2. job' \in [Conns -> Job]
    <3>1. codes[k].issuer \in Devices
      BY <1>4 DEF AcceptInvite, IInv, Issued
    <3> QED BY <1>4, <3>1, JobsTyped DEF AcceptInvite
  <2>3. codes' \in [Codes -> CodeEntry]
    BY <1>4, CodeSet DEF AcceptInvite, CodeStates
  <2> QED BY <1>4, <2>1, <2>2, <2>3 DEF AcceptInvite, CodeEntry, CodeStates
<1>5. ASSUME NEW k \in Codes, RefuseInvite(c, k) PROVE TypeOK'
  <2>1. phase' \in [Conns -> Phase]
    BY <1>5 DEF RefuseInvite, Phase, Working
  <2>2. job' \in [Conns -> Job]
    BY <1>5, NotesFit, JobsTyped DEF RefuseInvite
  <2>3. codes' \in [Codes -> CodeEntry]
    <3>1. PICK s \in CodeStates : codes' = [codes EXCEPT ![k].state = s]
      BY <1>5 DEF RefuseInvite, CodeStates
    <3> QED BY <3>1, CodeSet
  <2> QED BY <1>5, <2>1, <2>2, <2>3 DEF RefuseInvite, CodeEntry, CodeStates
<1>6. ASSUME NEW m \in Msgs, NEW d \in Devices, Relay(c, m, d) PROVE TypeOK'
  <2>1. phase' \in [Conns -> Phase]
    BY <1>6 DEF Relay, Phase, Working
  <2>2. job' \in [Conns -> Job]
    BY <1>6, JobsTyped DEF Relay
  <2> QED BY <1>6, <2>1, <2>2 DEF Relay
<1>7. ASSUME NEW m \in Msgs, NEW d \in Devices, RefuseRelay(c, m, d) PROVE TypeOK'
  <2>1. phase' \in [Conns -> Phase]
    BY <1>7 DEF RefuseRelay, Phase, Working
  <2>2. job' \in [Conns -> Job]
    BY <1>7, NotesFit, JobsTyped DEF RefuseRelay
  <2> QED BY <1>7, <2>1, <2>2 DEF RefuseRelay
<1> QED BY <1>2, <1>3, <1>4, <1>5, <1>6, <1>7 DEF Request

LEMMA WorkTyped ==
  ASSUME IInv, NEW c \in Conns, WorkStep(c)
  PROVE  TypeOK'
<1>0. TypeOK /\ Owner[c] \in Devices
  BY ConstantsTyped DEF IInv
<1>1. queue' \in [Conns -> Seq(Note)] /\ \A x \in Conns : Len(queue'[x]) <= QueueCap
  BY RequestQuiet, AnswerQuiet, TellIssuerQuiet DEF Quiet, WorkStep
<1>2. phase' \in [Conns -> Phase]
  BY <1>0 DEF TypeOK, Goto, Phase, Working, WorkStep, Notify, Reply, Pair, Lookup, Answer,
              TellIssuer, RouteNowhere, Park
<1> USE <1>0, <1>1, <1>2, ConstantsTyped DEF TypeOK, handler, channel, roster, clients
<1>3. CASE Notify(c)
  <2>1. missed' \subseteq Conns
    BY <1>3 DEF Notify, Misses, Job
  <2> QED BY <1>3, <2>1 DEF Notify
<1>4. CASE Reply(c)
  BY <1>4 DEF Reply
<1>5. CASE Pair(c)
  <2>1. job[c].to \in Devices /\ job[c].code \in Codes
    BY <1>5 DEF Pair, Goto, IInv, Jobs, Pairing
  <2> QED BY <1>5, <2>1 DEF Pair
<1>6. CASE Lookup(c)
  <2>1. Here(job[c].to) \in Standing
    BY <1>6, HereTyped DEF Lookup, Goto, IInv, Jobs, Pairing
  <2>2. job' \in [Conns -> Job]
    BY <1>6, <2>1 DEF Lookup, Job
  <2> QED BY <1>6, <2>2 DEF Lookup
<1>7. CASE Answer(c)
  <2>1. job' \in [Conns -> Job]
    BY <1>7 DEF Answer
  <2> QED BY <1>7, <2>1 DEF Answer
<1>8. CASE TellIssuer(c)
  <2>1. Listed({job[c].to}) \subseteq Conns
    <3>1. job[c].to \in Devices
      BY <1>8 DEF TellIssuer, Goto, IInv, Jobs, Pairing
    <3> QED BY <3>1, ListedTyped
  <2>2. missed' \subseteq Conns
    BY <1>8, <2>1 DEF TellIssuer
  <2> QED BY <1>8, <2>2 DEF TellIssuer
<1>9. CASE RouteNowhere(c)
  BY <1>9 DEF RouteNowhere
<1>10. CASE Park(c)
  <2> DEFINE d == job[c].to
  <2>1. d \in Devices /\ job[c].msg \in Msgs
    BY <1>10 DEF Park, Goto, IInv, Jobs, Sending
  <2>2. Body(c) \in Relayed
    BY <2>1 DEF Body, Relayed
  <2>3. /\ offline' \in [Devices -> Seq(Relayed)]
        /\ \A e \in Devices : Len(offline'[e]) <= OfflineCap
    <3>1. CASE Len(offline[d]) < OfflineCap
      <4>1. offline' = [offline EXCEPT ![d] = Append(@, Body(c))]
        BY <1>10, <3>1 DEF Park
      <4>2. Len(Append(offline[d], Body(c))) = Len(offline[d]) + 1 /\ Len(offline[d]) \in Nat
        BY <2>1, <2>2, PutElements
      <4>3. offline' \in [Devices -> Seq(Relayed)]
        BY <4>1, <2>1, <2>2, QueuePut
      <4>4. Len(offline'[d]) <= OfflineCap
        BY <2>1, <3>1, <4>1, <4>2
      <4> QED BY <2>1, <4>1, <4>3, <4>4
    <3>2. CASE ~(Len(offline[d]) < OfflineCap)
      BY <1>10, <3>2 DEF Park
    <3> QED BY <3>1, <3>2
  <2> QED BY <1>10, <2>3 DEF Park
<1> QED BY <1>3, <1>4, <1>5, <1>6, <1>7, <1>8, <1>9, <1>10 DEF WorkStep

LEMMA EndTyped ==
  ASSUME IInv, NEW c \in Conns, EndStep(c)
  PROVE  TypeOK'
<1>0. TypeOK /\ Owner[c] \in Devices
  BY ConstantsTyped DEF IInv
<1>1. queue' \in [Conns -> Seq(Note)] /\ \A x \in Conns : Len(queue'[x]) <= QueueCap
  BY EndQuiet DEF Quiet
<1> USE <1>0, <1>1, ConstantsTyped DEF TypeOK, handler, channel, roster, clients, Goto, Phase,
        Leaving
<1>2. CASE Leave(c)
  BY <1>2 DEF Leave
<1>3. CASE Remove(c)
  BY <1>3 DEF Remove
<1>4. CASE Farewell(c)
  <2>1. missed' \subseteq Conns
    BY <1>4, ListedTyped DEF Farewell, Misses
  <2> QED BY <1>4, <2>1 DEF Farewell
<1>5. CASE WriterEnds(c)
  BY <1>5 DEF WriterEnds
<1>6. CASE Break(c)
  BY <1>6 DEF Break
<1> QED BY <1>2, <1>3, <1>4, <1>5, <1>6 DEF EndStep

LEMMA CodesTyped ==
  ASSUME IInv, CodeStep
  PROVE  TypeOK'
<1> USE DEF IInv, TypeOK, handler, channel, roster, clients
<1>1. ASSUME NEW k \in Codes, Expire(k) PROVE TypeOK'
  BY <1>1 DEF Expire
<1>2. CASE CleanupInvites
  <2>1. codes' \in [Codes -> [issuer : Devices \cup {None},
                              state : {"unused", "valid", "expired", "removed"}]]
    <3>1. \A k \in Codes : [codes[k] EXCEPT !.state = "removed"]
                             \in CodeEntry
      BY CodeSet DEF CodeStates
    <3> QED BY <1>2, <3>1 DEF CleanupInvites, CodeEntry, CodeStates
  <2> QED BY <1>2, <2>1 DEF CleanupInvites
<1> QED BY <1>1, <1>2 DEF CodeStep

-----------------------------------------------------------------------------
(* The two actions that move a message through a channel.                  *)

LEMMA RouteMoves ==
  ASSUME IInv, NEW c \in Conns, Route(c)
  PROVE  LET y == online[job[c].to] IN
         /\ job[c].to \in Devices /\ y \in Conns /\ Body(c) \in Relayed
         /\ queue' \in [Conns -> Seq(Note)]
         /\ \A x \in Conns : Len(queue'[x]) <= QueueCap
         /\ \A x \in Conns : \A i \in 1..Len(queue'[x]) :
              \/ i \in 1..Len(queue[x]) /\ queue'[x][i] = queue[x][i]
              \/ /\ x = y /\ i = Len(queue[x]) + 1
                 /\ queue'[x][i] = [type |-> "relayed", body |-> Body(c)]
<1> DEFINE y == online[job[c].to]
           n == [type |-> "relayed", body |-> Body(c)]
<1>1. job[c].to \in Devices /\ job[c].msg \in Msgs /\ TypeOK
  BY DEF Route, Goto, IInv, Jobs, Sending
<1>2. y \in Conns
  BY <1>1 DEF Route, TypeOK
<1>3. Body(c) \in Relayed /\ n \in Note
  BY <1>1, NotesFit, ConstantsTyped DEF Body, Relayed
<1>4. Tell({y}, n)
  BY DEF Route
<1> HIDE DEF n
<1>5. /\ queue' \in [Conns -> Seq(Note)]
      /\ \A x \in Conns : Len(queue'[x]) <= QueueCap
      /\ \A x \in Conns : \A i \in 1..Len(queue'[x]) :
              \/ i \in 1..Len(queue[x]) /\ queue'[x][i] = queue[x][i]
              \/ x \in {y} /\ i = Len(queue[x]) + 1 /\ queue'[x][i] = n
  BY <1>1, <1>3, <1>4, TellAdds
<1> QED BY <1>1, <1>2, <1>3, <1>5 DEF n

(* The head of the channel goes, and to the message store if it is a       *)
(* message.                                                                *)
LEMMA DeliverMoves ==
  ASSUME IInv, NEW c \in Conns, Deliver(c)
  PROVE  LET d == Owner[c]
             n == queue[c][1]
         IN
         /\ d \in Devices /\ n \in Note /\ 1 \in 1..Len(queue[c])
         /\ queue' \in [Conns -> Seq(Note)]
         /\ \A x \in Conns : Len(queue'[x]) <= QueueCap
         /\ \A x \in Conns : \A i \in 1..Len(queue'[x]) :
              IF x = c THEN i + 1 \in 1..Len(queue[x]) /\ queue'[x][i] = queue[x][i + 1]
              ELSE i \in 1..Len(queue[x]) /\ queue'[x][i] = queue[x][i]
         /\ received' \in [Devices -> Seq(Relayed)]
         /\ \A e \in Devices : \A i \in 1..Len(received'[e]) :
              \/ i \in 1..Len(received[e]) /\ received'[e][i] = received[e][i]
              \/ /\ e = d /\ i = Len(received[e]) + 1
                 /\ n.type = "relayed" /\ received'[e][i] = n.body
<1> DEFINE d == Owner[c]
           n == queue[c][1]
<1>1. TypeOK /\ d \in Devices
  BY ConstantsTyped DEF IInv
<1>2. queue[c] \in Seq(Note) /\ queue[c] # <<>>
  BY <1>1 DEF Deliver, TypeOK
<1>3. /\ Tail(queue[c]) \in Seq(Note) /\ Len(queue[c]) \in Nat \ {0}
      /\ Len(Tail(queue[c])) = Len(queue[c]) - 1
      /\ Head(queue[c]) = n /\ n \in Note
      /\ \A i \in 1..Len(Tail(queue[c])) : /\ i + 1 \in 1..Len(queue[c])
                                           /\ Tail(queue[c])[i] = queue[c][i + 1]
  BY <1>2, TakeElements
<1>4. queue' = [queue EXCEPT ![c] = Tail(queue[c])]
  BY DEF Deliver
<1>5. /\ queue' \in [Conns -> Seq(Note)]
      /\ \A x \in Conns : Len(queue'[x]) <= QueueCap
  <2>1. QueueCap \in Nat
    BY ConstantsOK DEF ConstantsOK
  <2> QED BY <1>1, <1>3, <1>4, <2>1 DEF TypeOK
<1>6. \A x \in Conns : \A i \in 1..Len(queue'[x]) :
         IF x = c THEN i + 1 \in 1..Len(queue[x]) /\ queue'[x][i] = queue[x][i + 1]
         ELSE i \in 1..Len(queue[x]) /\ queue'[x][i] = queue[x][i]
  BY <1>1, <1>3, <1>4 DEF TypeOK
<1>7. /\ received' \in [Devices -> Seq(Relayed)]
      /\ \A e \in Devices : \A i \in 1..Len(received'[e]) :
           \/ i \in 1..Len(received[e]) /\ received'[e][i] = received[e][i]
           \/ /\ e = d /\ i = Len(received[e]) + 1
              /\ n.type = "relayed" /\ received'[e][i] = n.body
  <2>1. received \in [Devices -> Seq(Relayed)]
    BY <1>1 DEF TypeOK
  <2>2. CASE n.type = "relayed"
    <3>1. n.body \in Relayed
      BY <1>3, <2>2, RelayedNote
    <3>2. received' = [received EXCEPT ![d] = Append(@, n.body)]
      BY <1>3, <2>2 DEF Deliver
    <3>3. received' \in [Devices -> Seq(Relayed)]
      BY <1>1, <2>1, <3>1, <3>2, QueuePut
    <3>4. /\ Append(received[d], n.body)[Len(received[d]) + 1] = n.body
          /\ \A i \in 1..Len(received[d]) : Append(received[d], n.body)[i] = received[d][i]
          /\ \A i \in 1..Len(Append(received[d], n.body)) :
               i \in 1..Len(received[d]) \/ i = Len(received[d]) + 1
      BY <1>1, <2>1, <3>1, PutElements
    <3>5. \A e \in Devices : received'[e] = IF e = d THEN Append(received[d], n.body)
                                            ELSE received[e]
      BY <1>1, <2>1, <3>2
    <3> HIDE DEF n, d
    <3> QED BY <2>2, <3>3, <3>4, <3>5
  <2>3. CASE n.type # "relayed"
    <3>1. received' = received
      BY <1>3, <2>3 DEF Deliver
    <3> QED BY <2>1, <3>1
  <2> QED BY <2>2, <2>3
<1> QED
  <2>1. 1 \in 1..Len(queue[c])
    BY <1>3
  <2> HIDE DEF n, d
  <2>2. n \in Note
    BY <1>3
  <2> QED BY <1>1, <2>1, <2>2, <1>5, <1>6, <1>7 DEF n, d

LEMMA MoversTyped ==
  ASSUME IInv, NEW c \in Conns, Route(c) \/ Deliver(c)
  PROVE  TypeOK'
<1>0. TypeOK
  BY DEF IInv
<1> USE <1>0, ConstantsTyped DEF TypeOK, handler, channel, roster, clients, Goto
<1>1. CASE Route(c)
  <2>1. queue' \in [Conns -> Seq(Note)] /\ \A x \in Conns : Len(queue'[x]) <= QueueCap
    BY <1>1, RouteMoves
  <2>2. phase' \in [Conns -> Phase]
    BY <1>1 DEF Route, Phase
  <2> QED BY <1>1, <2>1, <2>2 DEF Route
<1>2. CASE Deliver(c)
  <2>1. /\ queue' \in [Conns -> Seq(Note)] /\ \A x \in Conns : Len(queue'[x]) <= QueueCap
        /\ received' \in [Devices -> Seq(Relayed)]
    BY <1>2, DeliverMoves
  <2>2. PICK n \in Note : view' = [view EXCEPT ![c] = Seen(view[c], n)]
    BY <1>2, DeliverMoves, TakeElements DEF Deliver
  <2>3. ASSUME NEW v \in [Devices -> Standing] PROVE Seen(v, n) \in [Devices -> Standing]
    <3>1. CASE n.type \in {"online", "paired"}
      <4>1. n.dev \in Devices /\ n.addr \in Addrs
        BY <3>1 DEF Note
      <4> QED BY <3>1, <4>1 DEF Seen, Standing
    <3>2. CASE n.type = "offline"
      <4>1. n.dev \in Devices
        BY <3>2 DEF Note
      <4> QED BY <3>2, <4>1 DEF Seen, Standing
    <3>3. CASE n.type \notin {"online", "paired", "offline"}
      BY <3>3 DEF Seen
    <3> QED BY <3>1, <3>2, <3>3
  <2>4. view' \in [Conns -> [Devices -> Standing]]
    BY <2>2, <2>3
  <2> QED BY <1>2, <2>1, <2>4 DEF Deliver
<1> QED BY <1>1, <1>2

LEMMA TypeKeeps ==
  ASSUME IInv, [Next]_vars
  PROVE  TypeOK'
  BY Steps, StutterTyped, OpeningTyped, RequestTyped, WorkTyped, MoversTyped, EndTyped,
     CodesTyped DEF IInv

-----------------------------------------------------------------------------
(* The local variables of the handlers, the codes, and who is listed.      *)

LEMMA JobsKeep ==
  ASSUME IInv, [Next]_vars
  PROVE  Jobs'
<1>0. TypeOK /\ Jobs
  BY DEF IInv
<1> USE <1>0 DEF Jobs, Pairing, Sending, TypeOK, Goto, handler, channel, roster, clients
<1>1. CASE UNCHANGED vars
  BY <1>1 DEF vars
<1>2. ASSUME NEW c \in Conns, OpeningStep(c) PROVE Jobs'
  BY <1>2 DEF OpeningStep, Register, Snapshot, PushOffline, Greet, GreetFails, Insert, Announce
<1>3. ASSUME NEW c \in Conns, Request(c) PROVE Jobs'
  <2>1. ASSUME NEW a \in Addrs, UpdateAddr(c, a) PROVE Jobs'
    BY <2>1 DEF UpdateAddr
  <2>2. ASSUME NEW k \in Codes, GenerateInvite(c, k) \/ RefuseInvite(c, k) PROVE Jobs'
    <3>1. PICK t \in {"code", "refused"} :
            job' = [job EXCEPT ![c] = [NoJob EXCEPT !.note = [type |-> t]]]
      BY <2>2 DEF GenerateInvite, RefuseInvite
    <3>2. phase' = [phase EXCEPT ![c] = "reply"]
      BY <2>2 DEF GenerateInvite, RefuseInvite
    <3>3. job'[c].note = [type |-> t]
      BY <3>1 DEF NoJob
    <3>4. \A x \in Conns \ {c} : job'[x] = job[x] /\ phase'[x] = phase[x]
      BY <3>1, <3>2
    <3> QED BY <3>2, <3>3, <3>4
  <2>3. ASSUME NEW k \in Codes, AcceptInvite(c, k) PROVE Jobs'
    <3>1. codes[k].issuer \in Devices
      BY <2>3 DEF AcceptInvite, IInv, Issued
    <3> QED BY <2>3, <3>1 DEF AcceptInvite, NoJob
  <2>4. ASSUME NEW m \in Msgs, NEW d \in Devices, Relay(c, m, d) \/ RefuseRelay(c, m, d)
        PROVE  Jobs'
    <3>1. CASE Relay(c, m, d)
      BY <3>1 DEF Relay, NoJob
    <3>2. CASE RefuseRelay(c, m, d)
      <4>1. /\ job' = [job EXCEPT ![c] = [NoJob EXCEPT !.note = [type |-> "refused"]]]
            /\ phase' = [phase EXCEPT ![c] = "reply"]
        BY <3>2 DEF RefuseRelay
      <4>2. job'[c].note = [type |-> "refused"]
        BY <4>1 DEF NoJob
      <4>3. \A x \in Conns \ {c} : job'[x] = job[x] /\ phase'[x] = phase[x]
        BY <4>1
      <4> QED BY <4>1, <4>2, <4>3
    <3> QED BY <2>4, <3>1, <3>2
  <2> QED BY <1>3, <2>1, <2>2, <2>3, <2>4 DEF Request
<1>4. ASSUME NEW c \in Conns, WorkStep(c) PROVE Jobs'
  <2>1. CASE Lookup(c)
    <3>1. job[c].to \in Devices /\ job[c].code \in Codes
      BY <2>1 DEF Lookup
    <3>2. Here(job[c].to) \in Addrs \cup {Off}
      BY <3>1, HereTyped
    <3>3. /\ job'[c].to = job[c].to /\ job'[c].code = job[c].code
          /\ job'[c].standing = Here(job[c].to)
      BY <2>1 DEF Lookup, Job
    <3>4. \A x \in Conns \ {c} : job'[x] = job[x] /\ phase'[x] = phase[x]
      BY <2>1 DEF Lookup
    <3>5. phase'[c] = "answer"
      BY <2>1 DEF Lookup
    <3> QED BY <3>1, <3>2, <3>3, <3>4, <3>5
  <2>2. CASE ~Lookup(c)
    BY <1>4, <2>2 DEF WorkStep, Notify, Reply, Pair, Answer, TellIssuer, RouteNowhere, Park
  <2> QED BY <2>1, <2>2
<1>5. ASSUME NEW c \in Conns, Route(c) \/ Deliver(c) PROVE Jobs'
  BY <1>5 DEF Route, Deliver
<1>6. ASSUME NEW c \in Conns, EndStep(c) PROVE Jobs'
  BY <1>6 DEF EndStep, Leave, Remove, Farewell, WriterEnds, Break
<1>7. CASE CodeStep
  BY <1>7 DEF CodeStep, Expire, CleanupInvites
<1> QED BY <1>1, <1>2, <1>3, <1>4, <1>5, <1>6, <1>7, Steps

LEMMA IssuedKeeps ==
  ASSUME IInv, [Next]_vars
  PROVE  Issued'
<1>0. TypeOK /\ Issued
  BY DEF IInv
<1> USE <1>0 DEF Issued, handler, channel, roster, clients
<1>1. CASE codes' = codes
  BY <1>1
<1>2. ASSUME NEW c \in Conns, NEW k \in Codes, GenerateInvite(c, k) PROVE Issued'
  BY <1>2, ConstantsTyped DEF GenerateInvite, TypeOK
<1>3. ASSUME NEW c \in Conns, NEW k \in Codes, AcceptInvite(c, k) PROVE Issued'
  BY <1>3, CodeSet DEF AcceptInvite, TypeOK, CodeStates
<1>4. ASSUME NEW c \in Conns, NEW k \in Codes, RefuseInvite(c, k) PROVE Issued'
  BY <1>4, CodeSet DEF RefuseInvite, TypeOK, CodeStates
<1>5. ASSUME NEW k \in Codes, Expire(k) PROVE Issued'
  BY <1>5, CodeSet DEF Expire, TypeOK, CodeStates
<1>6. CASE CleanupInvites
  BY <1>6, CodeSet DEF CleanupInvites, TypeOK, CodeStates
<1>7. ASSUME NEW c \in Conns, OpeningStep(c) PROVE codes' = codes
  BY <1>7 DEF OpeningStep, Register, Snapshot, PushOffline, Greet, GreetFails, Insert, Announce
<1>8. ASSUME NEW c \in Conns, WorkStep(c) \/ Route(c) \/ Deliver(c) \/ EndStep(c)
      PROVE  codes' = codes
  BY <1>8 DEF WorkStep, Notify, Reply, Pair, Lookup, Answer, TellIssuer, RouteNowhere, Park,
     Route, Deliver, EndStep, Leave, Remove, Farewell, WriterEnds, Break
<1>9. ASSUME NEW c \in Conns, Request(c) PROVE Issued'
  <2>1. ASSUME NEW a \in Addrs, UpdateAddr(c, a) PROVE codes' = codes
    BY <2>1 DEF UpdateAddr
  <2>2. ASSUME NEW m \in Msgs, NEW d \in Devices, Relay(c, m, d) \/ RefuseRelay(c, m, d)
        PROVE  codes' = codes
    BY <2>2 DEF Relay, RefuseRelay
  <2> QED BY <1>1, <1>2, <1>3, <1>4, <1>9, <2>1, <2>2 DEF Request
<1> QED BY <1>1, <1>5, <1>6, <1>7, <1>8, <1>9, Steps DEF CodeStep, vars

(* Which actions write the tables of the server.                           *)
LEMMA OnlineWriters ==
  ASSUME [Next]_vars
  PROVE  online' = online \/ \E c \in Conns : Insert(c) \/ Remove(c)
<1> USE DEF handler, channel, roster, clients
<1>1. ASSUME NEW c \in Conns, OpeningStep(c) PROVE online' = online \/ Insert(c)
  BY <1>1 DEF OpeningStep, Register, Snapshot, PushOffline, Greet, GreetFails, Announce
<1>2. ASSUME NEW c \in Conns, WorkStep(c) \/ Route(c) \/ Deliver(c) PROVE online' = online
  BY <1>2 DEF WorkStep, Notify, Reply, Pair, Lookup, Answer, TellIssuer, RouteNowhere, Park,
     Route, Deliver
<1>3. ASSUME NEW c \in Conns, EndStep(c) PROVE online' = online \/ Remove(c)
  BY <1>3 DEF EndStep, Leave, Farewell, WriterEnds, Break
<1>4. ASSUME NEW c \in Conns, Request(c) PROVE online' = online
  BY <1>4 DEF Request, UpdateAddr, GenerateInvite, AcceptInvite, RefuseInvite, Relay, RefuseRelay
<1>5. CASE CodeStep
  BY <1>5 DEF CodeStep, Expire, CleanupInvites
<1> QED BY <1>1, <1>2, <1>3, <1>4, <1>5, Steps DEF vars

LEMMA FriendsWriters ==
  ASSUME [Next]_vars
  PROVE  friends' = friends \/ \E c \in Conns : Pair(c)
<1> USE DEF handler, channel, roster, clients
<1>1. ASSUME NEW c \in Conns, OpeningStep(c) PROVE friends' = friends
  BY <1>1 DEF OpeningStep, Register, Snapshot, PushOffline, Greet, GreetFails, Insert, Announce
<1>2. ASSUME NEW c \in Conns, WorkStep(c) \/ Route(c) \/ Deliver(c)
      PROVE  friends' = friends \/ Pair(c)
  BY <1>2 DEF WorkStep, Notify, Reply, Lookup, Answer, TellIssuer, RouteNowhere, Park,
     Route, Deliver
<1>3. ASSUME NEW c \in Conns, EndStep(c) PROVE friends' = friends
  BY <1>3 DEF EndStep, Leave, Remove, Farewell, WriterEnds, Break
<1>4. ASSUME NEW c \in Conns, Request(c) PROVE friends' = friends
  BY <1>4 DEF Request, UpdateAddr, GenerateInvite, AcceptInvite, RefuseInvite, Relay, RefuseRelay
<1>5. CASE CodeStep
  BY <1>5 DEF CodeStep, Expire, CleanupInvites
<1> QED BY <1>1, <1>2, <1>3, <1>4, <1>5, Steps DEF vars

LEMMA RightfulKeeps ==
  ASSUME IInv, [Next]_vars
  PROVE  Rightful'
<1>0. TypeOK /\ Rightful
  BY DEF IInv
<1>2. CASE online' = online
  BY <1>0, <1>2 DEF Rightful
<1>3. ASSUME NEW c \in Conns, Insert(c) \/ Remove(c) PROVE Rightful'
  <2>1. \A d \in Devices :
          \/ online'[d] = online[d]
          \/ online'[d] = None
          \/ online'[d] = c /\ d = Owner[c]
    BY <1>0, <1>3 DEF Insert, Remove, TypeOK
  <2> QED BY <1>0, <2>1 DEF Rightful
<1> QED BY <1>2, <1>3, OnlineWriters

(* The phase of one connection changes in a step, and a connection that is *)
(* served remains so until Remove.                                         *)
LEMMA ServedUntilRemoved ==
  ASSUME IInv, [Next]_vars, NEW x \in Conns, phase[x] \in Served
  PROVE  phase'[x] \in Served \/ Remove(x)
<1>0. TypeOK
  BY DEF IInv
<1> USE <1>0 DEF TypeOK, Goto, Serving, Served, Working, handler, channel, roster, clients
<1>1. ASSUME NEW c \in Conns, OpeningStep(c) PROVE phase'[x] \in Served
  BY <1>1 DEF OpeningStep, Register, Snapshot, PushOffline, Greet, GreetFails, Insert, Announce
<1>2. ASSUME NEW c \in Conns, WorkStep(c) \/ Route(c) \/ Deliver(c)
      PROVE  phase'[x] \in Served
  <2>1. \/ phase' = phase
        \/ \E p \in Served : phase' = [phase EXCEPT ![c] = p]
    BY <1>2 DEF WorkStep, Notify, Reply, Pair, Lookup, Answer, TellIssuer, RouteNowhere, Park,
       Route, Deliver
  <2> QED BY <2>1
<1>3. ASSUME NEW c \in Conns, EndStep(c) PROVE phase'[x] \in Served \/ Remove(x)
  BY <1>3 DEF EndStep, Leave, Remove, Farewell, WriterEnds, Break
<1>4. ASSUME NEW c \in Conns, Request(c) PROVE phase'[x] \in Served
  BY <1>4 DEF Request, UpdateAddr, GenerateInvite, AcceptInvite, RefuseInvite, Relay, RefuseRelay
<1>5. CASE CodeStep
  BY <1>5 DEF CodeStep, Expire, CleanupInvites
<1> QED BY <1>1, <1>2, <1>3, <1>4, <1>5, Steps DEF vars

LEMMA NoGhostsKeeps ==
  ASSUME IInv, [Next]_vars
  PROVE  NoGhosts'
<1>0. TypeOK /\ Rightful /\ NoGhosts
  BY DEF IInv
<1> SUFFICES ASSUME NEW d \in Devices, online'[d] # None
             PROVE  phase'[online'[d]] \in Served
  BY DEF NoGhosts, Served
<1>1. CASE online'[d] = online[d]
  <2>1. online[d] \in Conns /\ phase[online[d]] \in Served /\ Owner[online[d]] = d
    BY <1>0, <1>1 DEF TypeOK, NoGhosts, Served, Rightful
  <2>2. ~Remove(online[d])
    BY <1>0, <1>1, <2>1 DEF Remove, TypeOK
  <2> QED BY <1>1, <2>1, <2>2, ServedUntilRemoved
<1>2. CASE online'[d] # online[d]
  <2>1. PICK c \in Conns : Insert(c) \/ Remove(c)
    BY <1>2, OnlineWriters
  <2>2. CASE Insert(c)
    BY <1>0, <1>2, <2>2 DEF Insert, Goto, TypeOK, Served
  <2>3. CASE Remove(c)
    BY <1>0, <1>2, <2>3 DEF Remove, TypeOK
  <2> QED BY <2>1, <2>2, <2>3
<1> QED BY <1>1, <1>2

LEMMA PairBefriends ==
  ASSUME IInv, NEW c \in Conns, Pair(c)
  PROVE  /\ job[c].to \in Devices /\ Owner[c] \in Devices /\ job[c].code \in Codes
         /\ \A x, y \in Devices : y \in friends'[x] <=>
              \/ y \in friends[x]
              \/ x = Owner[c] /\ y = job[c].to
              \/ x = job[c].to /\ y = Owner[c]
<1>1. job[c].to \in Devices /\ Owner[c] \in Devices /\ job[c].code \in Codes
  BY ConstantsTyped DEF IInv, Jobs, Pair, Goto, Pairing
<1>2. \A x \in Devices : friends'[x] = friends[x]
        \cup (IF x = Owner[c] THEN {job[c].to} ELSE {})
        \cup (IF x = job[c].to THEN {Owner[c]} ELSE {})
  BY DEF Pair
<1> QED BY <1>1, <1>2

LEMMA MutualKeeps ==
  ASSUME IInv, [Next]_vars
  PROVE  Mutual'
<1>0. Mutual
  BY DEF IInv
<1>1. CASE friends' = friends
  BY <1>0, <1>1 DEF Mutual
<1>2. ASSUME NEW c \in Conns, Pair(c) PROVE Mutual'
  BY <1>0, <1>2, PairBefriends DEF Mutual
<1> QED BY <1>1, <1>2, FriendsWriters

LEMMA FriendsGrow ==
  ASSUME IInv, [Next]_vars, NEW d \in Devices
  PROVE  friends[d] \subseteq friends'[d]
<1>1. ASSUME NEW c \in Conns, Pair(c) PROVE friends[d] \subseteq friends'[d]
  BY <1>1 DEF Pair
<1> QED BY <1>1, FriendsWriters

-----------------------------------------------------------------------------
(* Invite codes.                                                           *)

LEMMA PairedWriters ==
  ASSUME [Next]_vars
  PROVE  paired' = paired \/ \E c \in Conns : Pair(c)
<1> USE DEF handler, channel, roster, clients
<1>1. ASSUME NEW c \in Conns, OpeningStep(c) PROVE paired' = paired
  BY <1>1 DEF OpeningStep, Register, Snapshot, PushOffline, Greet, GreetFails, Insert, Announce
<1>2. ASSUME NEW c \in Conns, WorkStep(c) \/ Route(c) \/ Deliver(c)
      PROVE  paired' = paired \/ Pair(c)
  BY <1>2 DEF WorkStep, Notify, Reply, Lookup, Answer, TellIssuer, RouteNowhere, Park,
     Route, Deliver
<1>3. ASSUME NEW c \in Conns, EndStep(c) PROVE paired' = paired
  BY <1>3 DEF EndStep, Leave, Remove, Farewell, WriterEnds, Break
<1>4. ASSUME NEW c \in Conns, Request(c) PROVE paired' = paired
  BY <1>4 DEF Request, UpdateAddr, GenerateInvite, AcceptInvite, RefuseInvite, Relay, RefuseRelay
<1>5. CASE CodeStep
  BY <1>5 DEF CodeStep, Expire, CleanupInvites
<1> QED BY <1>1, <1>2, <1>3, <1>4, <1>5, Steps DEF vars

(* A code once removed never comes back.                                   *)
LEMMA RemovedForGood ==
  ASSUME IInv, [Next]_vars, NEW k \in Codes, codes'[k].state # "removed"
  PROVE  codes[k].state # "removed"
<1>0. TypeOK
  BY DEF IInv
<1>1. CASE codes' = codes
  BY <1>1
<1>2. ASSUME NEW c \in Conns, NEW l \in Codes,
             GenerateInvite(c, l) \/ AcceptInvite(c, l) \/ RefuseInvite(c, l)
      PROVE  codes[k].state # "removed"
  <2>1. CASE GenerateInvite(c, l)
    BY <1>0, <2>1 DEF GenerateInvite, TypeOK
  <2>2. CASE AcceptInvite(c, l) \/ RefuseInvite(c, l)
    <3>1. PICK s \in CodeStates : /\ codes' = [codes EXCEPT ![l].state = s]
                                  /\ codes[l].state = "removed" => s = "removed"
      <4>1. CASE AcceptInvite(c, l)
        BY <4>1 DEF AcceptInvite, CodeStates
      <4>2. CASE RefuseInvite(c, l)
        BY <1>0, <4>2 DEF RefuseInvite, CodeStates, TypeOK
      <4> QED BY <2>2, <4>1, <4>2
    <3>2. codes' = [codes EXCEPT ![l] = [issuer |-> codes[l].issuer, state |-> s]]
      BY <1>0, <3>1, CodeSet
    <3> QED BY <1>0, <3>1, <3>2 DEF TypeOK
  <2> QED BY <1>2, <2>1, <2>2
<1>3. ASSUME NEW l \in Codes, Expire(l) PROVE codes[k].state # "removed"
  BY <1>0, <1>3, CodeSet DEF Expire, TypeOK, CodeStates
<1>4. CASE CleanupInvites
  BY <1>0, <1>4, CodeSet DEF CleanupInvites, CodeStates
<1> USE DEF handler, channel, roster, clients
<1>5. ASSUME NEW c \in Conns, OpeningStep(c) PROVE codes' = codes
  BY <1>5 DEF OpeningStep, Register, Snapshot, PushOffline, Greet, GreetFails, Insert, Announce
<1>6. ASSUME NEW c \in Conns, WorkStep(c) \/ Route(c) \/ Deliver(c) \/ EndStep(c)
      PROVE  codes' = codes
  BY <1>6 DEF WorkStep, Notify, Reply, Pair, Lookup, Answer, TellIssuer, RouteNowhere, Park,
     Route, Deliver, EndStep, Leave, Remove, Farewell, WriterEnds, Break
<1>7. ASSUME NEW c \in Conns, Request(c)
      PROVE  \/ codes' = codes
             \/ \E l \in Codes : GenerateInvite(c, l) \/ AcceptInvite(c, l) \/ RefuseInvite(c, l)
  BY <1>7 DEF Request, UpdateAddr, Relay, RefuseRelay
<1> QED BY <1>1, <1>2, <1>3, <1>4, <1>5, <1>6, <1>7, Steps DEF CodeStep, vars

(* A handler is about to pair because it has just taken a code out of the  *)
(* table, or was already and did not do it yet.                            *)
LEMMA AboutToPair ==
  ASSUME IInv, [Next]_vars, NEW x \in Conns, phase'[x] = "pair"
  PROVE  \/ phase[x] = "pair" /\ job'[x] = job[x] /\ ~Pair(x)
         \/ \E k \in Codes : AcceptInvite(x, k)
<1>0. TypeOK
  BY DEF IInv
<1> USE <1>0 DEF TypeOK, Goto, Serving, handler, channel, roster, clients
<1>1. ASSUME NEW c \in Conns, OpeningStep(c)
      PROVE  phase[x] = "pair" /\ job'[x] = job[x] /\ ~Pair(x)
  BY <1>1 DEF OpeningStep, Register, Snapshot, PushOffline, Greet, GreetFails, Insert, Announce,
     Pair
<1>2. ASSUME NEW c \in Conns, WorkStep(c) \/ Route(c) \/ Deliver(c)
      PROVE  phase[x] = "pair" /\ job'[x] = job[x] /\ ~Pair(x)
  <2>1. CASE Deliver(c)
    BY <2>1 DEF Deliver, Pair
  <2>2. CASE ~Deliver(c)
    <3>1. x # c
      BY <1>2, <2>2 DEF WorkStep, Notify, Reply, Pair, Lookup, Answer, TellIssuer, RouteNowhere,
         Park, Route
    <3>2. phase'[x] = phase[x] /\ job'[x] = job[x]
      BY <1>2, <2>2, <3>1 DEF WorkStep, Notify, Reply, Pair, Lookup, Answer, TellIssuer,
         RouteNowhere, Park, Route
    <3> QED BY <3>2 DEF Pair
  <2> QED BY <2>1, <2>2
<1>3. ASSUME NEW c \in Conns, EndStep(c)
      PROVE  phase[x] = "pair" /\ job'[x] = job[x] /\ ~Pair(x)
  BY <1>3 DEF EndStep, Leave, Remove, Farewell, WriterEnds, Break, Pair
<1>4. ASSUME NEW c \in Conns, Request(c)
      PROVE  \/ phase[x] = "pair" /\ job'[x] = job[x] /\ ~Pair(x)
             \/ \E k \in Codes : AcceptInvite(x, k)
  <2>1. CASE x = c
    BY <1>4, <2>1 DEF Request, UpdateAddr, GenerateInvite, RefuseInvite, Relay, RefuseRelay
  <2>2. CASE x # c
    <3>1. phase'[x] = phase[x] /\ job'[x] = job[x]
      BY <1>4, <2>2 DEF Request, UpdateAddr, GenerateInvite, AcceptInvite, RefuseInvite,
         Relay, RefuseRelay
    <3> QED BY <3>1 DEF Pair
  <2> QED BY <2>1, <2>2
<1>5. CASE CodeStep \/ UNCHANGED vars
  BY <1>5 DEF CodeStep, Expire, CleanupInvites, Pair, vars
<1> QED BY <1>1, <1>2, <1>3, <1>4, <1>5, Steps

LEMMA UnspentKeeps ==
  ASSUME IInv, [Next]_vars
  PROVE  Unspent'
<1>0. TypeOK /\ Jobs /\ Unspent
  BY DEF IInv
<1>1. ASSUME NEW x \in Conns, NEW k \in Codes, AcceptInvite(x, k)
      PROVE  /\ codes[k].state = "valid" /\ codes'[k].state = "removed"
             /\ job'[x].code = k /\ paired' = paired
             /\ \A y \in Conns \ {x} : phase'[y] = phase[y] /\ job'[y] = job[y]
  BY <1>0, <1>1, CodeSet DEF AcceptInvite, Goto, TypeOK, CodeStates, NoJob
<1>2. ASSUME NEW k \in Codes, codes[k].state # "removed"
      PROVE  paired'[k] = {}
  <2>1. ASSUME NEW c \in Conns, Pair(c) PROVE paired'[k] = {}
    BY <1>0, <1>2, <2>1 DEF Pair, Goto, Unspent, TypeOK
  <2> QED BY <1>0, <1>2, <2>1, PairedWriters DEF Unspent
<1>3. ASSUME NEW k \in Codes, codes'[k].state # "removed"
      PROVE  paired'[k] = {} /\ \A c \in Conns : phase'[c] = "pair" => job'[c].code # k
  <2>1. codes[k].state # "removed"
    BY <1>3, RemovedForGood
  <2>2. ASSUME NEW c \in Conns, phase'[c] = "pair" PROVE job'[c].code # k
    <3>1. CASE phase[c] = "pair" /\ job'[c] = job[c]
      BY <1>0, <2>1, <3>1 DEF Unspent
    <3>2. ASSUME NEW l \in Codes, AcceptInvite(c, l) PROVE job'[c].code # k
      BY <1>1, <1>3, <3>2
    <3> QED BY <2>2, <3>1, <3>2, AboutToPair
  <2> QED BY <1>2, <2>1, <2>2
<1>4. ASSUME NEW c \in Conns, phase'[c] = "pair"
      PROVE  /\ paired'[job'[c].code] = {}
             /\ \A x \in Conns \ {c} : phase'[x] = "pair" => job'[x].code # job'[c].code
  <2>1. CASE phase[c] = "pair" /\ job'[c] = job[c] /\ ~Pair(c)
    <3>1. paired'[job[c].code] = {}
      <4>1. job[c].code \in Codes /\ paired[job[c].code] = {}
        BY <1>0, <2>1 DEF Unspent, Jobs, Pairing
      <4>2. ASSUME NEW y \in Conns, Pair(y) PROVE paired'[job[c].code] = {}
        <5>1. y # c
          BY <2>1, <4>2
        <5>2. phase[y] = "pair"
          BY <4>2 DEF Pair, Goto
        <5>3. job[y].code # job[c].code
          BY <1>0, <2>1, <5>1, <5>2 DEF Unspent
        <5> QED BY <1>0, <4>1, <4>2, <5>3 DEF Pair, TypeOK
      <4> QED BY <4>1, <4>2, PairedWriters
    <3>2. ASSUME NEW x \in Conns \ {c}, phase'[x] = "pair" PROVE job'[x].code # job[c].code
      <4>1. CASE phase[x] = "pair" /\ job'[x] = job[x]
        BY <1>0, <2>1, <4>1 DEF Unspent
      <4>2. ASSUME NEW k \in Codes, AcceptInvite(x, k) PROVE job'[x].code # job[c].code
        BY <1>0, <1>1, <2>1, <4>2 DEF Unspent
      <4> QED BY <3>2, <4>1, <4>2, AboutToPair
    <3> QED BY <2>1, <3>1, <3>2
  <2>2. ASSUME NEW k \in Codes, AcceptInvite(c, k)
        PROVE  /\ paired'[job'[c].code] = {}
               /\ \A x \in Conns \ {c} : phase'[x] = "pair" => job'[x].code # job'[c].code
    <3>1. codes[k].state # "removed" /\ job'[c].code = k
      BY <1>1, <2>2
    <3>2. \A x \in Conns \ {c} : phase'[x] = "pair" => job'[x].code # k
      BY <1>0, <1>1, <2>2, <3>1 DEF Unspent
    <3> QED BY <1>2, <3>1, <3>2
  <2> QED BY <1>4, <2>1, <2>2, AboutToPair
<1>5. ASSUME NEW k \in Codes, NEW d \in paired'[k], NEW e \in paired'[k] PROVE d = e
  <2>1. ASSUME NEW c \in Conns, Pair(c) PROVE d = e
    <3>1. job[c].code \in Codes /\ paired[job[c].code] = {}
      BY <1>0, <2>1 DEF Pair, Goto, Unspent, Jobs, Pairing
    <3>2. paired'[k] = IF k = job[c].code THEN {Owner[c]} ELSE paired[k]
      BY <1>0, <2>1, <3>1 DEF Pair, TypeOK
    <3> QED BY <1>0, <1>5, <3>2 DEF Unspent
  <2> QED BY <1>0, <1>5, <2>1, PairedWriters DEF Unspent
<1> QED BY <1>3, <1>4, <1>5 DEF Unspent

-----------------------------------------------------------------------------
(* Where messages are.  Six actions move one or send it: Register and      *)
(* PushOffline, Relay, Route, Park and Deliver.  Every other action at     *)
(* most loses some.                                                        *)

Keeps ==
  /\ Quiet
  /\ \A x \in Conns : job'[x].msg = job[x].msg \/ job'[x].msg = None
  /\ \A x \in Conns : held'[x] = held[x] \/ held'[x] = <<>>
  /\ UNCHANGED <<offline, received>>

LEMMA KeepingOpening ==
  ASSUME IInv, NEW c \in Conns, OpeningStep(c), ~Register(c), ~PushOffline(c)
  PROVE  Keeps /\ sent' = sent
<1>1. Quiet
  BY OpeningQuiet
<1>2. TypeOK
  BY DEF IInv
<1> QED BY <1>1, <1>2 DEF OpeningStep, Snapshot, Greet, GreetFails, Insert, Announce, Keeps,
        TypeOK, clients

LEMMA KeepingRequest ==
  ASSUME IInv, NEW c \in Conns, Request(c)
  PROVE  \/ Keeps /\ sent \subseteq sent'
         \/ \E m \in Msgs, d \in Devices : Relay(c, m, d)
<1>1. Quiet /\ TypeOK
  BY RequestQuiet DEF IInv
<1>2. ASSUME NEW j, j.msg = None, job' = [job EXCEPT ![c] = j],
             UNCHANGED <<held, offline, received>>, sent \subseteq sent'
      PROVE  Keeps /\ sent \subseteq sent'
  BY <1>1, <1>2 DEF Keeps, TypeOK
<1>3. ASSUME NEW a \in Addrs, UpdateAddr(c, a) PROVE Keeps /\ sent \subseteq sent'
  <2> DEFINE j == [NoJob EXCEPT !.txs = Listed(friends[Owner[c]])]
  <2>1. j.msg = None
    BY DEF NoJob
  <2> HIDE DEF j
  <2> QED BY <1>2, <1>3, <2>1 DEF UpdateAddr, clients, j
<1>4. ASSUME NEW k \in Codes, GenerateInvite(c, k) \/ AcceptInvite(c, k) \/ RefuseInvite(c, k)
      PROVE  Keeps /\ sent \subseteq sent'
  <2>1. PICK j \in {[NoJob EXCEPT !.note = [type |-> "code"]],
                    [NoJob EXCEPT !.note = [type |-> "refused"]],
                    [NoJob EXCEPT !.to = codes[k].issuer, !.code = k]} :
           job' = [job EXCEPT ![c] = j]
    BY <1>4 DEF GenerateInvite, AcceptInvite, RefuseInvite
  <2>2. j.msg = None
    BY DEF NoJob
  <2>3. UNCHANGED <<held, offline, received, sent>>
    BY <1>4 DEF GenerateInvite, AcceptInvite, RefuseInvite, clients
  <2> QED BY <1>2, <2>1, <2>2, <2>3
<1>5. ASSUME NEW m \in Msgs, NEW d \in Devices, RefuseRelay(c, m, d)
      PROVE  Keeps /\ sent \subseteq sent'
  <2> DEFINE j == [NoJob EXCEPT !.note = [type |-> "refused"]]
  <2>1. j.msg = None
    BY DEF NoJob
  <2>2. job' = [job EXCEPT ![c] = j]
    BY <1>5 DEF RefuseRelay
  <2> HIDE DEF j
  <2>3. UNCHANGED <<held, offline, received>> /\ sent \subseteq sent'
    BY <1>5 DEF RefuseRelay
  <2> QED BY <1>2, <2>1, <2>2, <2>3
<1> QED BY <1>3, <1>4, <1>5 DEF Request

LEMMA KeepingWork ==
  ASSUME IInv, NEW c \in Conns, WorkStep(c), ~Park(c)
  PROVE  Keeps /\ sent' = sent
<1>1. Quiet
  BY RequestQuiet, AnswerQuiet, TellIssuerQuiet DEF WorkStep
<1>2. TypeOK
  BY DEF IInv
<1>3. CASE Lookup(c)
  <2>1. \A x \in Conns : job'[x].msg = job[x].msg
    BY <1>2, <1>3 DEF Lookup, TypeOK, Job
  <2> QED BY <1>1, <1>3, <2>1 DEF Lookup, Keeps, clients
<1>4. CASE ~Lookup(c)
  <2>1. \A x \in Conns : job'[x] = job[x] \/ job'[x] = NoJob
    BY <1>2, <1>4 DEF WorkStep, Notify, Reply, Pair, Answer, TellIssuer, RouteNowhere, TypeOK
  <2>2. \A x \in Conns : job'[x].msg = job[x].msg \/ job'[x].msg = None
    BY <2>1 DEF NoJob
  <2>3. UNCHANGED <<held, offline, received, sent>>
    BY <1>4 DEF WorkStep, Notify, Reply, Pair, Answer, TellIssuer, RouteNowhere, clients
  <2> QED BY <1>1, <2>2, <2>3 DEF Keeps
<1> QED BY <1>3, <1>4

LEMMA KeepingEnd ==
  ASSUME IInv, NEW c \in Conns, EndStep(c)
  PROVE  Keeps /\ sent' = sent
<1>1. Quiet
  BY EndQuiet
<1> QED BY <1>1 DEF EndStep, Leave, Remove, Farewell, WriterEnds, Break, Keeps, clients, handler

LEMMA KeepingCode ==
  ASSUME IInv, CodeStep \/ UNCHANGED vars
  PROVE  Keeps /\ sent' = sent
<1>1. Quiet
  BY SameQuiet DEF IInv, CodeStep, Expire, CleanupInvites, vars, channel
<1> QED BY <1>1 DEF CodeStep, Expire, CleanupInvites, vars, Keeps, clients, handler

LEMMA KeepingSteps ==
  ASSUME IInv, [Next]_vars
  PROVE  \/ Keeps /\ sent \subseteq sent'
         \/ \E c \in Conns :
              \/ Register(c) \/ PushOffline(c) \/ Park(c) \/ Route(c) \/ Deliver(c)
              \/ \E m \in Msgs, d \in Devices : Relay(c, m, d)
<1>1. ASSUME NEW c \in Conns, OpeningStep(c)
      PROVE  (Keeps /\ sent \subseteq sent') \/ Register(c) \/ PushOffline(c)
  BY <1>1, KeepingOpening
<1>2. ASSUME NEW c \in Conns, WorkStep(c)
      PROVE  (Keeps /\ sent \subseteq sent') \/ Park(c)
  BY <1>2, KeepingWork
<1> QED BY <1>1, <1>2, KeepingRequest, KeepingEnd, KeepingCode, Steps

(* A message that is somewhere after a keeping step was there before it.   *)
LEMMA KeepingPlaces ==
  ASSUME IInv, Keeps, NEW m \in Msgs, NEW k, NEW x, NEW i, At(m, k, x, i)'
  PROVE  At(m, k, x, i)
<1>1. None # m /\ Len(<<>>) = 0
  BY ConstantsOK DEF ConstantsOK
<1>2. CASE k = "handler"
  BY <1>1, <1>2 DEF At, Keeps
<1>3. CASE k = "held"
  BY <1>1, <1>3 DEF At, Keeps
<1>4. CASE k = "channel"
  BY <1>4 DEF At, Keeps, Quiet
<1>5. CASE k \in {"offline", "stored"}
  BY <1>5 DEF At, Keeps
<1> QED BY <1>2, <1>3, <1>4, <1>5 DEF At

LEMMA KeepingKeeps ==
  ASSUME IInv, Keeps, sent \subseteq sent'
  PROVE  KnownSent' /\ OnePlace'
<1>1. KnownSent'
  <2> SUFFICES ASSUME NEW m \in Msgs, NEW k, NEW x, NEW i, At(m, k, x, i)'
               PROVE  m \in sent'
    BY DEF KnownSent
  <2> QED BY KeepingPlaces DEF IInv, KnownSent
<1>2. OnePlace'
  <2> SUFFICES ASSUME NEW m \in Msgs, NEW k, NEW x, NEW i, NEW l, NEW y, NEW j,
                      At(m, k, x, i)', At(m, l, y, j)'
               PROVE  k = l /\ x = y /\ i = j
    BY DEF OnePlace
  <2>1. At(m, k, x, i) /\ At(m, l, y, j)
    BY KeepingPlaces
  <2> QED BY <2>1 DEF IInv, OnePlace
<1> QED BY <1>1, <1>2

(* Register takes the whole offline queue of the device.                   *)
LEMMA RegisterPlaces ==
  ASSUME IInv, NEW c \in Conns, Register(c),
         NEW m \in Msgs, NEW k, NEW x, NEW i, At(m, k, x, i)'
  PROVE  \/ k = "held" /\ x = c /\ At(m, "offline", Owner[c], i)
         \/ At(m, k, x, i) /\ ~(k = "held" /\ x = c) /\ ~(k = "offline" /\ x = Owner[c])
<1>1. TypeOK /\ Owner[c] \in Devices
  BY ConstantsTyped DEF IInv
<1>2. /\ \A y \in Conns : held'[y] = IF y = c THEN offline[Owner[c]] ELSE held[y]
      /\ \A d \in Devices : offline'[d] = IF d = Owner[c] THEN <<>> ELSE offline[d]
      /\ UNCHANGED <<job, queue, received>>
  BY <1>1 DEF Register, TypeOK, channel, clients
<1>3. CASE k = "held"
  BY <1>1, <1>2, <1>3 DEF At
<1>4. CASE k = "offline"
  <2>1. Len(<<>>) = 0
    OBVIOUS
  <2> QED BY <1>1, <1>2, <1>4, <2>1 DEF At
<1>5. CASE k \notin {"held", "offline"}
  BY <1>2, <1>5 DEF At
<1> QED BY <1>3, <1>4, <1>5

(* PushOffline puts what the handler holds at the end of the message store.*)
LEMMA PushPlaces ==
  ASSUME IInv, NEW c \in Conns, PushOffline(c),
         NEW m \in Msgs, NEW k, NEW x, NEW i, At(m, k, x, i)'
  PROVE  LET d == Owner[c]
             n == Len(received[d])
         IN  \/ /\ k = "stored" /\ x = d /\ i \in Nat /\ i > n
                /\ At(m, "held", c, i - n)
             \/ At(m, k, x, i) /\ ~(k = "held" /\ x = c) /\ ~(k = "stored" /\ x = d /\ i > n)
<1> DEFINE d == Owner[c]
           n == Len(received[d])
<1>1. TypeOK /\ d \in Devices
  BY ConstantsTyped DEF IInv
<1>2. /\ \A y \in Conns : held'[y] = IF y = c THEN <<>> ELSE held[y]
      /\ \A e \in Devices : received'[e] = IF e = d THEN received[d] \o held[c] ELSE received[e]
      /\ UNCHANGED <<job, queue, offline>>
  BY <1>1 DEF PushOffline, TypeOK, channel, clients
<1>3. CASE k = "held"
  <2>1. Len(<<>>) = 0
    OBVIOUS
  <2> QED BY <1>1, <1>2, <1>3, <2>1 DEF At
<1>4. CASE k = "stored"
  <2>1. received[d] \in Seq(Relayed) /\ held[c] \in Seq(Relayed)
    BY <1>1 DEF TypeOK
  <2>4. CASE x = d
    <3>1. i \in 1..Len(received[d] \o held[c]) /\ (received[d] \o held[c])[i].msg = m
      BY <1>1, <1>2, <1>4, <2>4 DEF At
    <3>2. \/ i \in 1..n /\ ~(i > n) /\ received[d][i].msg = m
          \/ i \in Nat /\ i > n /\ i - n \in 1..Len(held[c]) /\ held[c][i - n].msg = m
      BY <2>1, <3>1, ConcatElements
    <3>3. CASE i \in 1..n /\ ~(i > n) /\ received[d][i].msg = m
      <4>1. At(m, k, x, i)
        BY <1>1, <1>4, <2>4, <3>3 DEF At
      <4> QED BY <1>4, <3>3, <4>1
    <3>4. CASE i \in Nat /\ i > n /\ i - n \in 1..Len(held[c]) /\ held[c][i - n].msg = m
      <4>1. At(m, "held", c, i - n)
        BY <3>4 DEF At
      <4> QED BY <1>4, <2>4, <3>4, <4>1
    <3> QED BY <3>2, <3>3, <3>4
  <2>5. CASE x # d
    BY <1>2, <1>4, <2>5 DEF At
  <2> QED BY <2>4, <2>5
<1>5. CASE k \notin {"held", "stored"}
  BY <1>2, <1>5 DEF At
<1> QED BY <1>3, <1>4, <1>5

(* Park puts the message of the handler at the end of an offline queue.    *)
LEMMA ParkPlaces ==
  ASSUME IInv, NEW c \in Conns, Park(c),
         NEW m \in Msgs, NEW k, NEW x, NEW i, At(m, k, x, i)'
  PROVE  LET d == job[c].to IN
         \/ /\ k = "offline" /\ x = d /\ i = Len(offline[d]) + 1
            /\ At(m, "handler", c, 0)
         \/ At(m, k, x, i) /\ ~(k = "handler" /\ x = c)
<1> DEFINE d == job[c].to
<1>1. TypeOK /\ d \in Devices /\ job[c].msg \in Msgs /\ None \notin Msgs
  BY ConstantsOK DEF ConstantsOK, IInv, Jobs, Park, Goto, Sending
<1>2. /\ \A y \in Conns \ {c} : job'[y] = job[y]
      /\ job'[c].msg = None
      /\ UNCHANGED <<held, queue, received>>
  BY <1>1 DEF Park, TypeOK, NoJob, channel, clients
<1>3. Body(c) \in Relayed /\ Body(c).msg = job[c].msg
  BY <1>1, ConstantsTyped DEF Body, Relayed
<1>4. CASE k = "handler"
  BY <1>1, <1>2, <1>4 DEF At
<1>5. CASE k = "offline"
  <2>1. CASE x = d /\ Len(offline[d]) < OfflineCap
    <3>1. offline[d] \in Seq(Relayed)
      BY <1>1 DEF TypeOK
    <3>2. offline'[d] = Append(offline[d], Body(c))
      BY <1>1, <2>1 DEF Park, TypeOK
    <3>3. /\ \A j \in 1..Len(offline[d]) : offline'[d][j] = offline[d][j]
          /\ offline'[d][Len(offline[d]) + 1] = Body(c)
          /\ \A j \in 1..Len(offline'[d]) : j \in 1..Len(offline[d]) \/ j = Len(offline[d]) + 1
      BY <1>3, <3>1, <3>2, PutElements
    <3>4. i \in 1..Len(offline'[d]) /\ offline'[d][i].msg = m
      BY <1>5, <2>1 DEF At
    <3>5. CASE i \in 1..Len(offline[d])
      BY <1>1, <1>5, <2>1, <3>3, <3>4, <3>5 DEF At
    <3>6. CASE i = Len(offline[d]) + 1
      BY <1>3, <1>5, <2>1, <3>3, <3>4, <3>6 DEF At
    <3> QED BY <3>3, <3>4, <3>5, <3>6
  <2>2. CASE ~(x = d /\ Len(offline[d]) < OfflineCap)
    <3>1. x \in Devices /\ offline'[x] = offline[x]
      BY <1>1, <1>5, <2>2 DEF At, Park, TypeOK
    <3> QED BY <1>5, <3>1 DEF At
  <2> QED BY <2>1, <2>2
<1>6. CASE k \notin {"handler", "offline"}
  BY <1>2, <1>6 DEF At
<1> QED BY <1>4, <1>5, <1>6

(* Route puts it at the end of a channel, if it fits.                      *)
LEMMA RoutePlaces ==
  ASSUME IInv, NEW c \in Conns, Route(c),
         NEW m \in Msgs, NEW k, NEW x, NEW i, At(m, k, x, i)'
  PROVE  LET y == online[job[c].to] IN
         \/ /\ k = "channel" /\ x = y /\ i = Len(queue[y]) + 1
            /\ At(m, "handler", c, 0)
         \/ At(m, k, x, i) /\ ~(k = "handler" /\ x = c)
<1>1. TypeOK /\ None \notin Msgs
  BY ConstantsOK DEF ConstantsOK, IInv
<1>2. /\ \A y \in Conns \ {c} : job'[y] = job[y]
      /\ job'[c].msg = None
      /\ UNCHANGED <<held, offline, received>>
  BY <1>1 DEF Route, TypeOK, NoJob, channel, clients
<1>3. Body(c).msg = job[c].msg
  BY DEF Body
<1>4. CASE k = "handler"
  BY <1>1, <1>2, <1>4 DEF At
<1>5. CASE k = "channel"
  <2>1. /\ x \in Conns /\ i \in 1..Len(queue'[x])
        /\ queue'[x][i].type = "relayed" /\ queue'[x][i].body.msg = m
    BY <1>5 DEF At
  <2>2. CASE i \in 1..Len(queue[x]) /\ queue'[x][i] = queue[x][i]
    BY <1>5, <2>1, <2>2 DEF At
  <2>3. CASE /\ x = online[job[c].to] /\ i = Len(queue[x]) + 1
             /\ queue'[x][i] = [type |-> "relayed", body |-> Body(c)]
    BY <1>3, <1>5, <2>1, <2>3 DEF At
  <2> QED BY <2>1, <2>2, <2>3, RouteMoves
<1>6. CASE k \notin {"handler", "channel"}
  BY <1>2, <1>6 DEF At
<1> QED BY <1>4, <1>5, <1>6

(* Deliver takes it from the front of a channel to the message store.      *)
LEMMA DeliverPlaces ==
  ASSUME IInv, NEW c \in Conns, Deliver(c),
         NEW m \in Msgs, NEW k, NEW x, NEW i, At(m, k, x, i)'
  PROVE  LET d == Owner[c] IN
         \/ /\ k = "stored" /\ x = d /\ i = Len(received[d]) + 1
            /\ At(m, "channel", c, 1)
         \/ k = "channel" /\ x = c /\ i \in Nat \ {0} /\ At(m, "channel", c, i + 1)
         \/ At(m, k, x, i) /\ ~(k = "channel" /\ x = c)
<1>1. UNCHANGED <<job, held, offline>>
  BY DEF Deliver, handler
<1>2. CASE k = "channel"
  <2>1. /\ x \in Conns /\ i \in 1..Len(queue'[x])
        /\ queue'[x][i].type = "relayed" /\ queue'[x][i].body.msg = m
    BY <1>2 DEF At
  <2>2. CASE x = c
    <3>1. i + 1 \in 1..Len(queue[c]) /\ queue'[c][i] = queue[c][i + 1]
      BY <2>1, <2>2, DeliverMoves
    <3>2. i \in Nat \ {0}
      BY <2>1
    <3>3. At(m, "channel", c, i + 1)
      BY <2>1, <2>2, <3>1 DEF At
    <3> QED BY <1>2, <2>2, <3>2, <3>3
  <2>3. CASE x # c
    <3>1. i \in 1..Len(queue[x]) /\ queue'[x][i] = queue[x][i]
      BY <2>1, <2>3, DeliverMoves
    <3> QED BY <1>2, <2>1, <2>3, <3>1 DEF At
  <2> QED BY <2>2, <2>3
<1>3. CASE k = "stored"
  <2>1. x \in Devices /\ i \in 1..Len(received'[x]) /\ received'[x][i].msg = m
    BY <1>3 DEF At
  <2>2. CASE i \in 1..Len(received[x]) /\ received'[x][i] = received[x][i]
    BY <1>3, <2>1, <2>2 DEF At
  <2>3. CASE /\ x = Owner[c] /\ i = Len(received[x]) + 1
             /\ queue[c][1].type = "relayed" /\ received'[x][i] = queue[c][1].body
    <3>1. 1 \in 1..Len(queue[c]) /\ queue[c][1].body.msg = m
      BY <2>1, <2>3, DeliverMoves
    <3>2. At(m, "channel", c, 1)
      BY <2>3, <3>1 DEF At
    <3> QED BY <1>3, <2>3, <3>2
  <2>4. \/ i \in 1..Len(received[x]) /\ received'[x][i] = received[x][i]
        \/ /\ x = Owner[c] /\ i = Len(received[x]) + 1
           /\ queue[c][1].type = "relayed" /\ received'[x][i] = queue[c][1].body
    BY <2>1, DeliverMoves
  <2> QED BY <2>2, <2>3, <2>4
<1>4. CASE k \notin {"channel", "stored"}
  BY <1>1, <1>4 DEF At
<1> QED BY <1>2, <1>3, <1>4

(* Relay gives a handler a message that is nowhere yet.                    *)
LEMMA RelayPlaces ==
  ASSUME IInv, NEW c \in Conns, NEW r \in Msgs, NEW d \in Devices, Relay(c, r, d),
         NEW m \in Msgs, NEW k, NEW x, NEW i, At(m, k, x, i)'
  PROVE  \/ m = r /\ k = "handler" /\ x = c /\ i = 0
         \/ m # r /\ At(m, k, x, i)
<1>1. TypeOK /\ \A l, y, j : ~At(r, l, y, j)
  BY DEF Relay, IInv, KnownSent
<1>2. /\ \A y \in Conns \ {c} : job'[y] = job[y]
      /\ job'[c].msg = r
      /\ UNCHANGED <<held, queue, offline, received>>
  BY <1>1 DEF Relay, TypeOK, NoJob, channel
<1>3. (k = "handler" /\ x = c /\ i = 0 /\ m = r) \/ At(m, k, x, i)
  <2>1. CASE k = "handler"
    BY <1>2, <2>1 DEF At
  <2>2. CASE k # "handler"
    BY <1>2, <2>2 DEF At
  <2> QED BY <2>1, <2>2
<1> QED BY <1>1, <1>3

-----------------------------------------------------------------------------

LEMMA KnownSentKeeps ==
  ASSUME IInv, [Next]_vars
  PROVE  KnownSent'
<1>0. KnownSent
  BY DEF IInv
<1>1. ASSUME NEW c \in Conns,
             Register(c) \/ PushOffline(c) \/ Park(c) \/ Route(c) \/ Deliver(c)
      PROVE  KnownSent'
  <2>1. sent' = sent
    BY <1>1 DEF Register, PushOffline, Park, Route, Deliver, clients
  <2>2. ASSUME NEW m \in Msgs, NEW k, NEW x, NEW i, At(m, k, x, i)'
        PROVE  \E l, y, j : At(m, l, y, j)
    BY <1>1, <2>2, RegisterPlaces, PushPlaces, ParkPlaces, RoutePlaces, DeliverPlaces
  <2> QED BY <1>0, <2>1, <2>2 DEF KnownSent
<1>2. ASSUME NEW c \in Conns, NEW r \in Msgs, NEW d \in Devices, Relay(c, r, d)
      PROVE  KnownSent'
  <2>1. sent' = sent \cup {r}
    BY <1>2 DEF Relay
  <2>2. ASSUME NEW m \in Msgs, NEW k, NEW x, NEW i, At(m, k, x, i)'
        PROVE  m \in sent'
    BY <1>0, <1>2, <2>1, <2>2, RelayPlaces DEF KnownSent
  <2> QED BY <2>2 DEF KnownSent
<1> QED BY <1>1, <1>2, KeepingSteps, KeepingKeeps

LEMMA OnePlaceKeeps ==
  ASSUME IInv, [Next]_vars
  PROVE  OnePlace'
<1> SUFFICES ASSUME ~Keeps \/ ~(sent \subseteq sent'),
                    NEW m \in Msgs, NEW k, NEW x, NEW i, NEW l, NEW y, NEW j,
                    At(m, k, x, i)', At(m, l, y, j)'
             PROVE  k = l /\ x = y /\ i = j
  BY KeepingKeeps DEF OnePlace
<1>0. ASSUME NEW k1, NEW x1, NEW i1, NEW l1, NEW y1, NEW j1,
             At(m, k1, x1, i1), At(m, l1, y1, j1)
      PROVE  k1 = l1 /\ x1 = y1 /\ i1 = j1
  BY <1>0 DEF IInv, OnePlace
<1>1. ASSUME NEW c \in Conns, Register(c) PROVE k = l /\ x = y /\ i = j
  <2>1. \/ k = "held" /\ x = c /\ At(m, "offline", Owner[c], i)
        \/ At(m, k, x, i) /\ ~(k = "held" /\ x = c) /\ ~(k = "offline" /\ x = Owner[c])
    BY <1>1, RegisterPlaces
  <2>2. \/ l = "held" /\ y = c /\ At(m, "offline", Owner[c], j)
        \/ At(m, l, y, j) /\ ~(l = "held" /\ y = c) /\ ~(l = "offline" /\ y = Owner[c])
    BY <1>1, RegisterPlaces
  <2> QED BY <1>0, <2>1, <2>2
<1>2. ASSUME NEW c \in Conns, PushOffline(c) PROVE k = l /\ x = y /\ i = j
  <2> DEFINE d == Owner[c]
             n == Len(received[d])
  <2>1. \/ k = "stored" /\ x = d /\ i \in Nat /\ i > n /\ At(m, "held", c, i - n)
        \/ At(m, k, x, i) /\ ~(k = "held" /\ x = c)
    BY <1>2, PushPlaces
  <2>2. \/ l = "stored" /\ y = d /\ j \in Nat /\ j > n /\ At(m, "held", c, j - n)
        \/ At(m, l, y, j) /\ ~(l = "held" /\ y = c)
    BY <1>2, PushPlaces
  <2>3. n \in Nat
    BY ConstantsTyped, LenProperties DEF IInv, TypeOK
  <2> HIDE DEF n
  <2>4. ASSUME i \in Nat, j \in Nat, i - n = j - n PROVE i = j
    BY <2>3, <2>4
  <2> QED BY <1>0, <2>1, <2>2, <2>4
<1>3. ASSUME NEW c \in Conns, Park(c) PROVE k = l /\ x = y /\ i = j
  <2> DEFINE d == job[c].to
  <2>1. \/ k = "offline" /\ x = d /\ i = Len(offline[d]) + 1 /\ At(m, "handler", c, 0)
        \/ At(m, k, x, i) /\ ~(k = "handler" /\ x = c)
    BY <1>3, ParkPlaces
  <2>2. \/ l = "offline" /\ y = d /\ j = Len(offline[d]) + 1 /\ At(m, "handler", c, 0)
        \/ At(m, l, y, j) /\ ~(l = "handler" /\ y = c)
    BY <1>3, ParkPlaces
  <2> QED BY <1>0, <2>1, <2>2
<1>4. ASSUME NEW c \in Conns, Route(c) PROVE k = l /\ x = y /\ i = j
  <2> DEFINE d == online[job[c].to]
  <2>1. \/ k = "channel" /\ x = d /\ i = Len(queue[d]) + 1 /\ At(m, "handler", c, 0)
        \/ At(m, k, x, i) /\ ~(k = "handler" /\ x = c)
    BY <1>4, RoutePlaces
  <2>2. \/ l = "channel" /\ y = d /\ j = Len(queue[d]) + 1 /\ At(m, "handler", c, 0)
        \/ At(m, l, y, j) /\ ~(l = "handler" /\ y = c)
    BY <1>4, RoutePlaces
  <2> QED BY <1>0, <2>1, <2>2
<1>5. ASSUME NEW c \in Conns, Deliver(c) PROVE k = l /\ x = y /\ i = j
  <2> DEFINE d == Owner[c]
             n == Len(received[d]) + 1
  <2>1. \/ k = "stored" /\ x = d /\ i = n /\ At(m, "channel", c, 1)
        \/ k = "channel" /\ x = c /\ i \in Nat \ {0} /\ At(m, "channel", c, i + 1)
        \/ At(m, k, x, i) /\ ~(k = "channel" /\ x = c)
    BY <1>5, DeliverPlaces
  <2>2. \/ l = "stored" /\ y = d /\ j = n /\ At(m, "channel", c, 1)
        \/ l = "channel" /\ y = c /\ j \in Nat \ {0} /\ At(m, "channel", c, j + 1)
        \/ At(m, l, y, j) /\ ~(l = "channel" /\ y = c)
    BY <1>5, DeliverPlaces
  <2> HIDE DEF n, d
  <2>3. /\ i \in Nat \ {0} => i + 1 # 1
        /\ j \in Nat \ {0} => j + 1 # 1
        /\ i \in Nat \ {0} /\ j \in Nat \ {0} /\ i + 1 = j + 1 => i = j
    OBVIOUS
  <2> QED BY <1>0, <2>1, <2>2, <2>3
<1>6. ASSUME NEW c \in Conns, NEW r \in Msgs, NEW d \in Devices, Relay(c, r, d)
      PROVE  k = l /\ x = y /\ i = j
  <2>1. \/ m = r /\ k = "handler" /\ x = c /\ i = 0
        \/ m # r /\ At(m, k, x, i)
    BY <1>6, RelayPlaces
  <2>2. \/ m = r /\ l = "handler" /\ y = c /\ j = 0
        \/ m # r /\ At(m, l, y, j)
    BY <1>6, RelayPlaces
  <2> QED BY <1>0, <2>1, <2>2
<1> QED BY <1>1, <1>2, <1>3, <1>4, <1>5, <1>6, KeepingSteps

(* What is on its way to a device stays that of a friend: friends only     *)
(* become more, and a message goes only where its relay was checked for.   *)
LEMMA BefriendedKeeps ==
  ASSUME IInv, [Next]_vars
  PROVE  Befriended'
<1>0. TypeOK /\ Befriended /\ Mutual /\ Jobs /\ Rightful
  BY DEF IInv
<1>1. \A d \in Devices : friends[d] \subseteq friends'[d]
  BY FriendsGrow
<1>2. Owner \in [Conns -> Devices]
  BY ConstantsTyped
<1>3. RelayChecked /\ HeldOK /\ QueueOK /\ OfflineOK /\ StoredOK
  BY <1>0 DEF Befriended
<1>4. SUFFICES RelayChecked' /\ HeldOK' /\ QueueOK' /\ OfflineOK' /\ StoredOK'
  BY DEF Befriended
<1>5. RelayChecked'
  <2> SUFFICES ASSUME NEW c \in Conns, phase'[c] \in Sending
               PROVE  job'[c].to \in friends[Owner[c]]
    BY <1>1, <1>2 DEF RelayChecked
  <2>1. CASE phase[c] \in Sending /\ job'[c] = job[c]
    BY <1>3, <2>1 DEF RelayChecked
  <2>2. ASSUME NEW m \in Msgs, NEW d \in Devices, Relay(c, m, d)
        PROVE  job'[c].to \in friends[Owner[c]]
    BY <1>0, <2>2 DEF Relay, TypeOK, NoJob
  <2>3. \/ phase[c] \in Sending /\ job'[c] = job[c]
        \/ \E m \in Msgs, d \in Devices : Relay(c, m, d)
    <3> USE <1>0 DEF TypeOK, Goto, Serving, Sending, handler, channel, roster, clients
    <3>1. ASSUME NEW x \in Conns, OpeningStep(x)
          PROVE  phase[c] \in Sending /\ job'[c] = job[c]
      BY <3>1 DEF OpeningStep, Register, Snapshot, PushOffline, Greet, GreetFails, Insert,
         Announce
    <3>2. ASSUME NEW x \in Conns, WorkStep(x) \/ Route(x) \/ Deliver(x)
          PROVE  phase[c] \in Sending /\ job'[c] = job[c]
      <4>1. CASE RouteNowhere(x) \/ Deliver(x)
        BY <4>1 DEF RouteNowhere, Deliver
      <4>2. CASE ~(RouteNowhere(x) \/ Deliver(x))
        BY <3>2, <4>2 DEF WorkStep, Notify, Reply, Pair, Lookup, Answer, TellIssuer, Park, Route
      <4> QED BY <4>1, <4>2
    <3>3. ASSUME NEW x \in Conns, EndStep(x)
          PROVE  phase[c] \in Sending /\ job'[c] = job[c]
      BY <3>3 DEF EndStep, Leave, Remove, Farewell, WriterEnds, Break
    <3>4. ASSUME NEW x \in Conns, Request(x)
          PROVE  \/ phase[c] \in Sending /\ job'[c] = job[c]
                 \/ \E m \in Msgs, d \in Devices : Relay(c, m, d)
      <4>1. CASE x = c
        BY <3>4, <4>1 DEF Request, UpdateAddr, GenerateInvite, AcceptInvite, RefuseInvite,
           RefuseRelay
      <4>2. CASE x # c
        BY <3>4, <4>2 DEF Request, UpdateAddr, GenerateInvite, AcceptInvite, RefuseInvite,
           Relay, RefuseRelay
      <4> QED BY <4>1, <4>2
    <3>5. CASE CodeStep \/ UNCHANGED vars
      BY <3>5 DEF CodeStep, Expire, CleanupInvites, vars
    <3> QED BY <3>1, <3>2, <3>3, <3>4, <3>5, Steps
  <2> QED BY <2>1, <2>2, <2>3
<1> DEFINE Rest == HeldOK' /\ QueueOK' /\ OfflineOK' /\ StoredOK'
<1>6. ASSUME Keeps PROVE Rest
  <2>1. Len(<<>>) = 0
    OBVIOUS
  <2>2. HeldOK'
    BY <1>1, <1>2, <1>3, <1>6, <2>1 DEF Keeps, HeldOK
  <2>3. QueueOK'
    BY <1>1, <1>2, <1>3, <1>6 DEF Keeps, Quiet, QueueOK
  <2>4. OfflineOK' /\ StoredOK'
    BY <1>1, <1>3, <1>6 DEF Keeps, OfflineOK, StoredOK
  <2> QED BY <2>2, <2>3, <2>4
<1>7. ASSUME NEW c \in Conns, Register(c) PROVE Rest
  <2>1. /\ \A y \in Conns : held'[y] = IF y = c THEN offline[Owner[c]] ELSE held[y]
        /\ \A d \in Devices : offline'[d] = IF d = Owner[c] THEN <<>> ELSE offline[d]
        /\ UNCHANGED <<queue, received, friends>>
        /\ Len(<<>>) = 0
    BY <1>0, <1>2, <1>7 DEF Register, TypeOK, channel, clients
  <2>2. HeldOK'
    BY <1>2, <1>3, <2>1 DEF HeldOK, OfflineOK
  <2>3. QueueOK' /\ OfflineOK' /\ StoredOK'
    BY <1>2, <1>3, <2>1 DEF QueueOK, OfflineOK, StoredOK
  <2> QED BY <2>2, <2>3
<1>8. ASSUME NEW c \in Conns, PushOffline(c) PROVE Rest
  <2> DEFINE d == Owner[c]
  <2>1. /\ \A y \in Conns : held'[y] = IF y = c THEN <<>> ELSE held[y]
        /\ \A e \in Devices : received'[e] = IF e = d THEN received[d] \o held[c]
                                             ELSE received[e]
        /\ UNCHANGED <<queue, offline, friends>>
        /\ Len(<<>>) = 0
    BY <1>0, <1>2, <1>8 DEF PushOffline, TypeOK, channel
  <2>2. received[d] \in Seq(Relayed) /\ held[c] \in Seq(Relayed)
    BY <1>0, <1>2 DEF TypeOK
  <2>3. \A i \in 1..Len(received[d] \o held[c]) : (received[d] \o held[c])[i].from \in friends[d]
    <3>1. \A i \in 1..Len(received[d] \o held[c]) :
            \/ /\ i \in 1..Len(received[d])
               /\ (received[d] \o held[c])[i] = received[d][i]
            \/ /\ i - Len(received[d]) \in 1..Len(held[c])
               /\ (received[d] \o held[c])[i] = held[c][i - Len(received[d])]
      BY <2>2, ConcatElements
    <3> QED BY <1>2, <1>3, <3>1 DEF HeldOK, StoredOK
  <2>4. StoredOK'
    BY <1>2, <1>3, <2>1, <2>3 DEF StoredOK
  <2>5. HeldOK'
    BY <1>2, <1>3, <2>1 DEF HeldOK
  <2>6. QueueOK' /\ OfflineOK'
    BY <1>3, <2>1 DEF QueueOK, OfflineOK
  <2> QED BY <2>4, <2>5, <2>6
<1>9. ASSUME NEW c \in Conns, NEW m \in Msgs, NEW d \in Devices, Relay(c, m, d) PROVE Rest
  BY <1>3, <1>9 DEF Relay, channel, HeldOK, QueueOK, OfflineOK, StoredOK
<1>10. ASSUME NEW c \in Conns, Park(c) PROVE Rest
  <2> DEFINE d == job[c].to
  <2>1. /\ d \in friends[Owner[c]] /\ d \in Devices /\ job[c].msg \in Msgs
    BY <1>0, <1>3, <1>10 DEF Park, Goto, Sending, Jobs, RelayChecked
  <2>2. Body(c) \in Relayed /\ Body(c).from \in friends[d]
    BY <1>0, <1>2, <2>1 DEF Body, Relayed, Mutual
  <2>3. UNCHANGED <<held, queue, received, friends>>
    BY <1>10 DEF Park, channel, clients
  <2>4. ASSUME NEW e \in Devices, NEW i \in 1..Len(offline'[e])
        PROVE  offline'[e][i].from \in friends[e]
    <3>1. CASE e = d /\ Len(offline[d]) < OfflineCap
      <4>1. offline'[d] = Append(offline[d], Body(c)) /\ offline[d] \in Seq(Relayed)
        BY <1>0, <1>10, <2>1, <3>1 DEF Park, TypeOK
      <4>2. /\ \A j \in 1..Len(offline[d]) : offline'[d][j] = offline[d][j]
            /\ offline'[d][Len(offline[d]) + 1] = Body(c)
            /\ \A j \in 1..Len(offline'[d]) : j \in 1..Len(offline[d]) \/ j = Len(offline[d]) + 1
        BY <2>2, <4>1, PutElements
      <4> QED BY <1>3, <2>2, <2>4, <3>1, <4>2 DEF OfflineOK
    <3>2. CASE ~(e = d /\ Len(offline[d]) < OfflineCap)
      <4>1. offline'[e] = offline[e]
        BY <1>0, <1>10, <2>1, <3>2 DEF Park, TypeOK
      <4> QED BY <1>3, <2>4, <4>1 DEF OfflineOK
    <3> QED BY <3>1, <3>2
  <2> QED BY <1>3, <2>3, <2>4 DEF HeldOK, QueueOK, OfflineOK, StoredOK
<1>11. ASSUME NEW c \in Conns, Route(c) PROVE Rest
  <2> DEFINE d == job[c].to
             z == online[d]
  <2>1. d \in friends[Owner[c]] /\ d \in Devices /\ z \in Conns /\ Owner[z] = d
    BY <1>0, <1>3, <1>11, RouteMoves DEF Route, Goto, Sending, Rightful, RelayChecked
  <2>2. Body(c).from \in friends[Owner[z]]
    BY <1>0, <1>2, <2>1 DEF Body, Mutual
  <2>3. UNCHANGED <<held, offline, received, friends>>
    BY <1>11 DEF Route, clients
  <2>4. ASSUME NEW x \in Conns, NEW i \in 1..Len(queue'[x]), queue'[x][i].type = "relayed"
        PROVE  queue'[x][i].body.from \in friends[Owner[x]]
    <3>1. \/ i \in 1..Len(queue[x]) /\ queue'[x][i] = queue[x][i]
          \/ x = z /\ queue'[x][i] = [type |-> "relayed", body |-> Body(c)]
      BY <1>11, RouteMoves
    <3> QED BY <1>3, <2>2, <2>4, <3>1 DEF QueueOK
  <2> QED BY <1>3, <2>3, <2>4 DEF HeldOK, QueueOK, OfflineOK, StoredOK
<1>12. ASSUME NEW c \in Conns, Deliver(c) PROVE Rest
  <2> DEFINE d == Owner[c]
             n == queue[c][1]
  <2>1. UNCHANGED <<held, offline, friends>>
    BY <1>12 DEF Deliver, handler
  <2>2. ASSUME NEW x \in Conns, NEW i \in 1..Len(queue'[x]), queue'[x][i].type = "relayed"
        PROVE  queue'[x][i].body.from \in friends[Owner[x]]
    <3>1. IF x = c THEN i + 1 \in 1..Len(queue[x]) /\ queue'[x][i] = queue[x][i + 1]
          ELSE i \in 1..Len(queue[x]) /\ queue'[x][i] = queue[x][i]
      BY <1>12, DeliverMoves
    <3> QED BY <1>3, <2>2, <3>1 DEF QueueOK
  <2>3. ASSUME NEW e \in Devices, NEW i \in 1..Len(received'[e])
        PROVE  received'[e][i].from \in friends[e]
    <3>1. \/ i \in 1..Len(received[e]) /\ received'[e][i] = received[e][i]
          \/ e = d /\ n.type = "relayed" /\ received'[e][i] = n.body
      BY <1>12, DeliverMoves
    <3>2. 1 \in 1..Len(queue[c])
      BY <1>12, DeliverMoves
    <3> QED BY <1>3, <2>3, <3>1, <3>2 DEF QueueOK, StoredOK
  <2> QED BY <1>3, <2>1, <2>2, <2>3 DEF HeldOK, QueueOK, OfflineOK, StoredOK
<1>13. Rest
  BY <1>6, <1>7, <1>8, <1>9, <1>10, <1>11, <1>12, KeepingSteps
<1> QED BY <1>5, <1>13

-----------------------------------------------------------------------------
(* The invariant.                                                          *)

LEMMA InitHolds == Init => IInv
<1> SUFFICES ASSUME Init PROVE IInv
  OBVIOUS
<1>1. TypeOK
  BY InitTyped
<1>2. Jobs /\ Issued /\ Rightful /\ NoGhosts /\ Mutual
  BY DEF Init, Jobs, Pairing, Sending, Issued, Rightful, NoGhosts, Mutual
<1>3. Befriended
  BY DEF Init, Befriended, RelayChecked, Sending, HeldOK, QueueOK, OfflineOK, StoredOK
<1>4. Unspent
  BY DEF Init, Unspent
<1>5. ASSUME NEW m \in Msgs, NEW k, NEW x, NEW i PROVE ~At(m, k, x, i)
  <2>1. None # m /\ Len(<<>>) = 0
    BY ConstantsOK DEF ConstantsOK
  <2> QED BY <2>1 DEF Init, At, NoJob
<1>6. KnownSent /\ OnePlace
  BY <1>5 DEF KnownSent, OnePlace
<1> QED BY <1>1, <1>2, <1>3, <1>4, <1>6 DEF IInv

LEMMA StepHolds == IInv /\ [Next]_vars => IInv'
<1> SUFFICES ASSUME IInv, [Next]_vars PROVE IInv'
  OBVIOUS
<1> QED
  BY TypeKeeps, JobsKeep, IssuedKeeps, RightfulKeeps, NoGhostsKeeps, MutualKeeps,
     BefriendedKeeps, UnspentKeeps, KnownSentKeeps, OnePlaceKeeps DEF IInv

(* IInv is an inductive invariant of the server.                           *)
THEOREM Inductive == Spec => []IInv
<1>1. Init => IInv
  BY InitHolds
<1>2. IInv /\ [Next]_vars => IInv'
  BY StepHolds
<1> QED
  BY <1>1, <1>2, PTL DEF Spec

(* The tables, channels and queues have the values the server's types      *)
(* allow; no channel and no offline queue is ever beyond its capacity.     *)
THEOREM TypesHold == Spec => []TypeOK
<1>1. IInv => TypeOK
  BY DEF IInv
<1> QED
  BY <1>1, Inductive, PTL

(* Whoever online.get finds belongs to a handler that still has to run its *)
(* own online.remove, however handlers of the same device overlap.         *)
THEOREM NobodyIsLeftListed == Spec => []NoGhosts
<1>1. IInv => NoGhosts
  BY DEF IInv
<1> QED
  BY <1>1, Inductive, PTL

(* RelayMessage checks the friend list long before the message is pushed,  *)
(* parked, taken by a registration or delivered; what reaches the message  *)
(* store of a device is nevertheless always from a friend of its own.      *)
THEOREM StrangersAreSilent == Spec => []OnlyFriendsTalk
<1>1. IInv => OnlyFriendsTalk
  <2> SUFFICES ASSUME IInv, NEW d \in Devices, NEW i \in DOMAIN received[d]
               PROVE  received[d][i].from \in friends[d]
    BY DEF OnlyFriendsTalk
  <2>1. received[d] \in Seq(Relayed)
    BY DEF IInv, TypeOK
  <2>2. i \in 1..Len(received[d])
    BY <2>1, LenProperties
  <2> QED BY <2>2 DEF IInv, Befriended, StoredOK
<1> QED
  BY <1>1, Inductive, PTL

(* However many handlers are offered one invite code, and whatever happens *)
(* between the removal of the code and the pairing, it pairs one device.   *)
THEOREM CodesAreSpentOnce == Spec => []CodePairsOnce
<1>1. IInv => CodePairsOnce
  <2> SUFFICES ASSUME IInv, NEW k \in Codes
               PROVE  Cardinality(paired[k]) <= 1
    BY DEF CodePairsOnce
  <2>1. \A d, e \in paired[k] : d = e
    BY DEF IInv, Unspent
  <2>2. CASE paired[k] = {}
    BY <2>2, FS_EmptySet
  <2>3. ASSUME NEW d \in paired[k] PROVE Cardinality(paired[k]) <= 1
    <3>1. paired[k] = {d}
      BY <2>1
    <3>2. Cardinality({d}) = 1
      BY FS_Singleton
    <3> QED BY <3>1, <3>2
  <2> QED BY <2>2, <2>3
<1> QED
  BY <1>1, Inductive, PTL

(* A message relayed once is at one place at a time, in a handler, a       *)
(* channel, an offline queue, a registration or the message store of its   *)
(* target: nothing the server does makes two of it or stores it twice.     *)
THEOREM MessagesAreNeverDoubled == Spec => []AtMostOnce
<1>1. IInv => AtMostOnce
  <2> SUFFICES ASSUME IInv, NEW m \in Msgs
               PROVE  Cardinality(Places(m)) <= 1
    BY DEF AtMostOnce
  <2> DEFINE Named(k, x, i) == IF k = "handler" THEN <<"handler", x>> ELSE <<k, x, i>>
  <2>1. ASSUME NEW p \in Places(m)
        PROVE  \E k, x, i : At(m, k, x, i) /\ p = Named(k, x, i)
    <3>1. TypeOK
      BY DEF IInv
    <3>2. /\ \A x \in Conns : /\ DOMAIN held[x] = 1..Len(held[x])
                              /\ DOMAIN queue[x] = 1..Len(queue[x])
          /\ \A d \in Devices : /\ DOMAIN offline[d] = 1..Len(offline[d])
                                /\ DOMAIN received[d] = 1..Len(received[d])
      BY <3>1, LenProperties DEF TypeOK
    <3>3. \/ \E x \in Conns : p = <<"handler", x>> /\ job[x].msg = m
          \/ \E x \in Conns : \E i \in DOMAIN held[x] :
               p = <<"held", x, i>> /\ held[x][i].msg = m
          \/ \E x \in Conns : \E i \in DOMAIN queue[x] :
               /\ p = <<"channel", x, i>>
               /\ queue[x][i].type = "relayed" /\ queue[x][i].body.msg = m
          \/ \E x \in Devices : \E i \in DOMAIN offline[x] :
               p = <<"offline", x, i>> /\ offline[x][i].msg = m
          \/ \E x \in Devices : \E i \in DOMAIN received[x] :
               p = <<"stored", x, i>> /\ received[x][i].msg = m
      <4>1. (\E c \in Conns : p \in OnConn(m, c)) \/ (\E d \in Devices : p \in AtDevice(m, d))
        BY <2>1, Zenon DEF Places
      <4>2. ASSUME NEW c \in Conns, p \in OnConn(m, c)
            PROVE  \/ p = <<"handler", c>> /\ job[c].msg = m
                   \/ \E i \in DOMAIN held[c] : p = <<"held", c, i>> /\ held[c][i].msg = m
                   \/ \E i \in DOMAIN queue[c] :
                        /\ p = <<"channel", c, i>>
                        /\ queue[c][i].type = "relayed" /\ queue[c][i].body.msg = m
        BY <4>2 DEF OnConn
      <4>3. ASSUME NEW d \in Devices, p \in AtDevice(m, d)
            PROVE  \/ \E i \in DOMAIN offline[d] :
                        p = <<"offline", d, i>> /\ offline[d][i].msg = m
                   \/ \E i \in DOMAIN received[d] :
                        p = <<"stored", d, i>> /\ received[d][i].msg = m
        BY <4>3 DEF AtDevice
      <4> QED BY <4>1, <4>2, <4>3
    <3>4. ASSUME NEW x \in Conns, p = <<"handler", x>>, job[x].msg = m
          PROVE  \E k, y, i : At(m, k, y, i) /\ p = Named(k, y, i)
      <4>1. At(m, "handler", x, 0) /\ p = Named("handler", x, 0)
        BY <3>4 DEF At
      <4> QED BY <4>1
    <3>5. ASSUME NEW x \in Conns, NEW i \in DOMAIN held[x],
                 p = <<"held", x, i>>, held[x][i].msg = m
          PROVE  \E k, y, j : At(m, k, y, j) /\ p = Named(k, y, j)
      <4>1. At(m, "held", x, i) /\ p = Named("held", x, i)
        BY <3>2, <3>5 DEF At
      <4> QED BY <4>1
    <3>6. ASSUME NEW x \in Conns, NEW i \in DOMAIN queue[x], p = <<"channel", x, i>>,
                 queue[x][i].type = "relayed", queue[x][i].body.msg = m
          PROVE  \E k, y, j : At(m, k, y, j) /\ p = Named(k, y, j)
      <4>1. At(m, "channel", x, i) /\ p = Named("channel", x, i)
        BY <3>2, <3>6 DEF At
      <4> QED BY <4>1
    <3>7. ASSUME NEW x \in Devices, NEW i \in DOMAIN offline[x],
                 p = <<"offline", x, i>>, offline[x][i].msg = m
          PROVE  \E k, y, j : At(m, k, y, j) /\ p = Named(k, y, j)
      <4>1. At(m, "offline", x, i) /\ p = Named("offline", x, i)
        BY <3>2, <3>7 DEF At
      <4> QED BY <4>1
    <3>8. ASSUME NEW x \in Devices, NEW i \in DOMAIN received[x],
                 p = <<"stored", x, i>>, received[x][i].msg = m
          PROVE  \E k, y, j : At(m, k, y, j) /\ p = Named(k, y, j)
      <4>1. At(m, "stored", x, i) /\ p = Named("stored", x, i)
        BY <3>2, <3>8 DEF At
      <4> QED BY <4>1
    <3> HIDE DEF Named
    <3> QED BY <3>3, <3>4, <3>5, <3>6, <3>7, <3>8
  <2> HIDE DEF Named
  <2>2. \A p, q \in Places(m) : p = q
    BY <2>1 DEF IInv, OnePlace
  <2>3. CASE Places(m) = {}
    BY <2>3, FS_EmptySet
  <2>4. ASSUME NEW p \in Places(m) PROVE Cardinality(Places(m)) <= 1
    <3>1. Places(m) = {p}
      BY <2>2
    <3>2. Cardinality({p}) = 1
      BY FS_Singleton
    <3> QED BY <3>1, <3>2
  <2> QED BY <2>3, <2>4
<1> QED
  BY <1>1, Inductive, PTL

-----------------------------------------------------------------------------
(* With one connection of a device at a time, and with one operation at a  *)
(* time.                                                                   *)

Asleep(c) == phase[c] \in {"none", "gone"}

(* No device has two connections that are not over.                        *)
Alone ==
  \A c, x \in Conns : Owner[c] = Owner[x] /\ ~Asleep(c) /\ ~Asleep(x) => c = x
ServedIsListed == \A c \in Conns : phase[c] \in Served => online[Owner[c]] = c

OneAtATime  == \A c, x \in Conns : ~Idle(c) /\ ~Idle(x) => c = x
ParkNowhere == \A c \in Conns : phase[c] = "park" => online[job[c].to] = None
(* Nothing is kept for a device that is listed or is being registered.     *)
NothingKept ==
  \A d \in Devices :
    online[d] # None \/ (\E c \in Conns : Owner[c] = d /\ phase[c] \in Opening)
      => offline[d] = <<>>

(* The ways a phase may change.                                            *)
LEMMA PhaseEdges ==
  ASSUME IInv, [Next]_vars, NEW x \in Conns, phase'[x] # phase[x]
  PROVE  /\ \A y \in Conns \ {x} : phase'[y] = phase[y]
         /\ \/ Register(x) /\ phase'[x] = "snapshot"
            \/ /\ phase[x] \in Opening /\ phase'[x] \in Opening \cup {"serving", "gone"}
               /\ phase'[x] \in Served => Insert(x) \/ phase[x] \in Served
            \/ phase[x] = "serving" /\ MayStart /\ phase'[x] \in Working \cup {"remove"}
            \/ phase[x] \in Working /\ phase'[x] \in Working \cup {"serving"}
            \/ phase[x] \in Leaving /\ phase'[x] \in {"farewell", "gone"}
<1> DEFINE Edge ==
      \/ Register(x) /\ phase'[x] = "snapshot"
      \/ /\ phase[x] \in Opening /\ phase'[x] \in Opening \cup {"serving", "gone"}
         /\ phase'[x] \in Served => Insert(x) \/ phase[x] \in Served
      \/ phase[x] = "serving" /\ MayStart /\ phase'[x] \in Working \cup {"remove"}
      \/ phase[x] \in Working /\ phase'[x] \in Working \cup {"serving"}
      \/ phase[x] \in Leaving /\ phase'[x] \in {"farewell", "gone"}
<1>0. TypeOK
  BY DEF IInv
<1>1. ASSUME NEW c \in Conns, NEW p, NEW q, Goto(c, p, q)
      PROVE  x = c /\ phase[x] = p /\ phase'[x] = q /\ \A y \in Conns \ {x} : phase'[y] = phase[y]
  BY <1>0, <1>1 DEF Goto, TypeOK
<1>2. ASSUME NEW c \in Conns, OpeningStep(c)
      PROVE  Edge /\ \A y \in Conns \ {x} : phase'[y] = phase[y]
  <2>1. CASE Register(c)
    BY <1>1, <2>1 DEF Register
  <2>2. CASE Snapshot(c)
    BY <1>1, <2>2 DEF Snapshot, Opening, Served, Working
  <2>3. CASE PushOffline(c)
    BY <2>3 DEF PushOffline
  <2>4. CASE Greet(c)
    BY <1>1, <2>4 DEF Greet, Opening, Served, Working
  <2>5. CASE GreetFails(c)
    BY <1>1, <2>5 DEF GreetFails, Opening, Served, Working
  <2>6. CASE Insert(c)
    <3>1. x = c /\ phase[x] = "insert" /\ phase'[x] = "announce"
      BY <1>1, <2>6 DEF Insert
    <3>2. Insert(x) /\ \A y \in Conns \ {x} : phase'[y] = phase[y]
      BY <1>1, <2>6, <3>1 DEF Insert
    <3> QED BY <3>1, <3>2 DEF Opening
  <2>7. CASE Announce(c)
    BY <1>1, <2>7 DEF Announce, Opening, Served
  <2> QED BY <1>2, <2>1, <2>2, <2>3, <2>4, <2>5, <2>6, <2>7 DEF OpeningStep
<1>3. ASSUME NEW c \in Conns, WorkStep(c) \/ Route(c) \/ Deliver(c)
      PROVE  Edge /\ \A y \in Conns \ {x} : phase'[y] = phase[y]
  <2>1. CASE Answer(c)
    BY <1>0, <2>1 DEF Answer, TypeOK, Working
  <2>2. CASE Deliver(c)
    BY <2>2 DEF Deliver, handler
  <2>3. CASE ~Answer(c) /\ ~Deliver(c)
    <3>1. \E p \in Working, q \in Working \cup {"serving"} : Goto(c, p, q)
      BY <1>3, <2>3 DEF WorkStep, Notify, Reply, Pair, Lookup, TellIssuer, RouteNowhere, Park,
         Route, Working
    <3> QED BY <1>1, <3>1
  <2> QED BY <2>1, <2>2, <2>3
<1>4. ASSUME NEW c \in Conns, Request(c)
      PROVE  Edge /\ \A y \in Conns \ {x} : phase'[y] = phase[y]
  <2>1. MayStart /\ \E q \in Working : Goto(c, "serving", q)
    BY <1>4 DEF Request, UpdateAddr, GenerateInvite, AcceptInvite, RefuseInvite, Relay,
       RefuseRelay, Serving, Working
  <2> QED BY <1>1, <2>1
<1>5. ASSUME NEW c \in Conns, EndStep(c)
      PROVE  Edge /\ \A y \in Conns \ {x} : phase'[y] = phase[y]
  <2>1. CASE Leave(c)
    BY <1>1, <2>1 DEF Leave
  <2>2. CASE Remove(c)
    BY <1>1, <2>2 DEF Remove, Leaving
  <2>3. CASE Farewell(c)
    BY <1>1, <2>3 DEF Farewell, Leaving
  <2>4. CASE WriterEnds(c) \/ Break(c)
    BY <2>4 DEF WriterEnds, Break, handler
  <2> QED BY <1>5, <2>1, <2>2, <2>3, <2>4 DEF EndStep
<1>6. CASE CodeStep \/ UNCHANGED vars
  BY <1>6 DEF CodeStep, Expire, CleanupInvites, vars, handler
<1> QED BY <1>2, <1>3, <1>4, <1>5, <1>6, Steps

LEMMA AloneKeeps ==
  ASSUME IInv, Alone, ServedIsListed, [Next]_vars, ~Reconnect
  PROVE  Alone' /\ ServedIsListed'
<1>0. TypeOK /\ Owner \in [Conns -> Devices]
  BY ConstantsTyped DEF IInv
<1>1. ASSUME NEW x \in Conns, ~Asleep(x)'
      PROVE  ~Asleep(x) \/ Register(x)
  <2>1. CASE phase'[x] = phase[x]
    BY <1>1, <2>1 DEF Asleep
  <2>2. CASE phase'[x] # phase[x]
    BY <2>2, PhaseEdges DEF Asleep, Opening, Working, Leaving
  <2> QED BY <2>1, <2>2
<1>2. ASSUME NEW x \in Conns, Register(x), NEW y \in Conns, Owner[y] = Owner[x]
      PROVE  Asleep(y) /\ (y # x => Asleep(y)')
  BY <1>0, <1>2 DEF Register, MayRegister, Goto, Asleep, TypeOK
<1>3. Alone'
  <2> SUFFICES ASSUME NEW c \in Conns, NEW x \in Conns, Owner[c] = Owner[x],
                      ~Asleep(c)', ~Asleep(x)'
               PROVE  c = x
    BY DEF Alone
  <2>1. CASE Register(c) \/ Register(x)
    BY <1>2, <2>1
  <2>2. CASE ~Register(c) /\ ~Register(x)
    BY <1>1, <2>2 DEF Alone
  <2> QED BY <2>1, <2>2
<1>4. ServedIsListed'
  <2> SUFFICES ASSUME NEW c \in Conns, phase'[c] \in Served
               PROVE  online'[Owner[c]] = c
    BY DEF ServedIsListed
  <2>1. CASE Insert(c)
    BY <1>0, <2>1 DEF Insert, TypeOK
  <2>2. CASE ~Insert(c)
    <3>1. phase[c] \in Served
      <4>1. CASE phase'[c] # phase[c]
        BY <2>2, <4>1, PhaseEdges DEF Served, Opening, Working, Leaving, Register, Goto
      <4> QED BY <4>1
    <3>2. ASSUME NEW y \in Conns, Insert(y) \/ Remove(y), Owner[y] = Owner[c]
          PROVE  FALSE
      <4>1. y = c
        BY <3>1, <3>2 DEF Alone, Asleep, Insert, Remove, Goto, Served, Working
      <4> QED BY <1>0, <2>2, <3>2, <4>1 DEF Remove, Goto, TypeOK, Served, Working
    <3>3. online'[Owner[c]] = online[Owner[c]]
      <4>1. ASSUME NEW y \in Conns, Insert(y) \/ Remove(y)
            PROVE  online'[Owner[c]] = online[Owner[c]]
        BY <1>0, <3>2, <4>1 DEF Insert, Remove, TypeOK
      <4> QED BY <4>1, OnlineWriters
    <3> QED BY <3>1, <3>3 DEF ServedIsListed
  <2> QED BY <2>1, <2>2
<1> QED BY <1>3, <1>4

(* A device that opens its next connection only when the last is over is   *)
(* listed as soon as it is served and until it leaves, whatever handlers   *)
(* of other devices do meanwhile.                                          *)
THEOREM ServedMeansListed ==
  ASSUME ~Reconnect
  PROVE  Spec => []ConnectedIsListed
<1>1. Init => Alone /\ ServedIsListed
  BY DEF Init, Alone, Asleep, ServedIsListed, Served, Working
<1>2. IInv /\ Alone /\ ServedIsListed /\ [Next]_vars => (Alone /\ ServedIsListed)'
  BY AloneKeeps
<1>3. ServedIsListed => ConnectedIsListed
  BY DEF ServedIsListed, ConnectedIsListed, Served
<1> QED
  BY <1>1, <1>2, <1>3, Inductive, PTL DEF Spec

LEMMA OneAtATimeKeeps ==
  ASSUME IInv, OneAtATime, [Next]_vars, ~Overlap
  PROVE  OneAtATime'
<1>1. ASSUME NEW x \in Conns, Idle(x), ~Idle(x)'
      PROVE  Calm /\ \A y \in Conns \ {x} : phase'[y] = phase[y]
  <2>1. phase'[x] # phase[x]
    BY <1>1 DEF Idle
  <2>2. /\ \A y \in Conns \ {x} : phase'[y] = phase[y]
        /\ Register(x) \/ (phase[x] = "serving" /\ MayStart)
    BY <1>1, <2>1, PhaseEdges DEF Idle, Opening, Working, Leaving
  <2>3. MayStart
    BY <2>2 DEF Register, MayRegister
  <2> QED BY <2>2, <2>3 DEF MayStart
<1>2. SUFFICES ASSUME NEW c \in Conns, NEW x \in Conns, ~Idle(c)', ~Idle(x)', c # x
               PROVE  FALSE
  BY DEF OneAtATime
<1>3. CASE ~Idle(c) /\ ~Idle(x)
  BY <1>2, <1>3 DEF OneAtATime
<1>4. ASSUME NEW y \in Conns, NEW z \in Conns, y # z, Idle(y), ~Idle(y)', ~Idle(z)'
      PROVE  FALSE
  BY <1>1, <1>4 DEF Calm, Idle
<1> QED BY <1>2, <1>3, <1>4

LEMMA OfflineWriters ==
  ASSUME IInv, [Next]_vars
  PROVE  offline' = offline \/ \E c \in Conns : Register(c) \/ Park(c)
<1>1. ASSUME NEW c \in Conns,
             \/ PushOffline(c) \/ Route(c) \/ Deliver(c)
             \/ \E m \in Msgs, d \in Devices : Relay(c, m, d)
      PROVE  offline' = offline
  BY <1>1 DEF PushOffline, Route, Deliver, Relay
<1>2. Keeps => offline' = offline
  BY DEF Keeps
<1> QED BY <1>1, <1>2, KeepingSteps

LEMMA NothingKeptKeeps ==
  ASSUME IInv, OneAtATime, ParkNowhere, NothingKept, [Next]_vars, ~Overlap
  PROVE  ParkNowhere' /\ NothingKept'
<1>0. /\ TypeOK /\ Jobs /\ Owner \in [Conns -> Devices]
      /\ None \notin Conns
  BY ConstantsTyped, ConstantsOK DEF IInv, ConstantsOK
<1>1. ParkNowhere'
  <2> SUFFICES ASSUME NEW c \in Conns, phase'[c] = "park"
               PROVE  online'[job'[c].to] = None
    BY DEF ParkNowhere
  <2>1. CASE RouteNowhere(c)
    BY <2>1 DEF RouteNowhere, roster
  <2>2. CASE ~RouteNowhere(c)
    <3>1. phase[c] = "park" /\ job'[c] = job[c]
      <4> USE <1>0 DEF TypeOK, Goto, Serving, handler, channel, roster, clients
      <4>1. ASSUME NEW x \in Conns, OpeningStep(x) PROVE phase[c] = "park" /\ job'[c] = job[c]
        BY <4>1 DEF OpeningStep, Register, Snapshot, PushOffline, Greet, GreetFails, Insert,
           Announce
      <4>2. ASSUME NEW x \in Conns, WorkStep(x) \/ Route(x)
            PROVE  phase[c] = "park" /\ job'[c] = job[c]
        BY <2>2, <4>2 DEF WorkStep, Notify, Reply, Pair, Lookup, Answer, TellIssuer,
           RouteNowhere, Park, Route
      <4>3. ASSUME NEW x \in Conns, EndStep(x) \/ Deliver(x)
            PROVE  phase[c] = "park" /\ job'[c] = job[c]
        BY <4>3 DEF EndStep, Leave, Remove, Farewell, WriterEnds, Break, Deliver
      <4>4. ASSUME NEW x \in Conns, Request(x) PROVE phase[c] = "park" /\ job'[c] = job[c]
        BY <4>4 DEF Request, UpdateAddr, GenerateInvite, AcceptInvite, RefuseInvite, Relay,
           RefuseRelay
      <4>5. CASE CodeStep \/ UNCHANGED vars
        BY <4>5 DEF CodeStep, Expire, CleanupInvites, vars
      <4> QED BY <4>1, <4>2, <4>3, <4>4, <4>5, Steps
    <3>2. ASSUME NEW y \in Conns, Insert(y) \/ Remove(y) PROVE FALSE
      <4>1. ~Idle(y) /\ ~Idle(c) /\ phase[y] # phase[c]
        BY <3>1, <3>2 DEF Insert, Remove, Goto, Idle
      <4> QED BY <4>1 DEF OneAtATime
    <3>3. online' = online
      BY <3>2, OnlineWriters
    <3> QED BY <3>1, <3>3 DEF ParkNowhere
  <2> QED BY <2>1, <2>2
<1>2. NothingKept'
  <2> SUFFICES ASSUME NEW d \in Devices,
                      \/ online'[d] # None
                      \/ \E c \in Conns : Owner[c] = d /\ phase'[c] \in Opening
               PROVE  offline'[d] = <<>>
    BY DEF NothingKept
  <2>1. ASSUME NEW c \in Conns, Register(c), Owner[c] = d PROVE offline'[d] = <<>>
    BY <1>0, <2>1 DEF Register, TypeOK
  <2>2. CASE \A c \in Conns : Register(c) => Owner[c] # d
    <3>1. online[d] # None \/ \E c \in Conns : Owner[c] = d /\ phase[c] \in Opening
      <4>1. CASE online'[d] # None /\ online'[d] # online[d]
        <5>1. PICK y \in Conns : Insert(y) \/ Remove(y)
          BY <4>1, OnlineWriters
        <5>2. Insert(y) /\ Owner[y] = d
          BY <1>0, <4>1, <5>1 DEF Insert, Remove, TypeOK
        <5> QED BY <5>2 DEF Insert, Goto, Opening
      <4>2. CASE online'[d] # None /\ online'[d] = online[d]
        BY <4>2
      <4>3. ASSUME NEW c \in Conns, Owner[c] = d, phase'[c] \in Opening
            PROVE  phase[c] \in Opening
        <5>1. CASE phase'[c] # phase[c]
          BY <2>2, <4>3, <5>1, PhaseEdges DEF Opening, Working
        <5> QED BY <4>3, <5>1
      <4> QED BY <4>1, <4>2, <4>3
    <3>2. offline[d] = <<>>
      BY <3>1 DEF NothingKept
    <3>3. ASSUME NEW c \in Conns, Register(c) PROVE offline'[d] = <<>>
      BY <1>0, <2>2, <3>2, <3>3 DEF Register, TypeOK
    <3>4. ASSUME NEW c \in Conns, Park(c) PROVE offline'[d] = <<>>
      <4>1. phase[c] = "park" /\ job[c].to \in Devices /\ online[job[c].to] = None
        BY <1>0, <3>4 DEF Park, Goto, Jobs, Sending, ParkNowhere
      <4>2. job[c].to # d
        <5>1. ASSUME NEW x \in Conns PROVE phase[x] \notin Opening
          <6>1. CASE phase[x] \in Opening
            <7>1. ~Idle(x) /\ ~Idle(c) /\ phase[x] # phase[c]
              BY <4>1, <6>1 DEF Idle, Opening
            <7> QED BY <7>1 DEF OneAtATime
          <6> QED BY <6>1
        <5> QED BY <3>1, <4>1, <5>1
      <4> QED BY <1>0, <3>2, <3>4, <4>2 DEF Park, TypeOK
    <3> QED BY <3>2, <3>3, <3>4, OfflineWriters
  <2> QED BY <2>1, <2>2
<1> QED BY <1>1, <1>2

(* With one operation at a time a message is parked only for a device that *)
(* is still not listed, and a registration takes all that is parked: none  *)
(* is left for a device that is listed, however connections come and go.   *)
THEOREM NobodyListedMissesMail ==
  ASSUME ~Overlap
  PROVE  Spec => []NothingParkedForOnline
<1>1. Init => OneAtATime /\ ParkNowhere /\ NothingKept
  BY DEF Init, OneAtATime, Idle, ParkNowhere, NothingKept
<1>2. IInv /\ OneAtATime /\ ParkNowhere /\ NothingKept /\ [Next]_vars
        => (OneAtATime /\ ParkNowhere /\ NothingKept)'
  BY OneAtATimeKeeps, NothingKeptKeeps
<1>3. NothingKept => NothingParkedForOnline
  BY DEF NothingKept, NothingParkedForOnline
<1> QED
  BY <1>1, <1>2, <1>3, Inductive, PTL DEF Spec
-----------------------------------------------------------------------------
(* What a client knows.  The notes in its channel change its friend list   *)
(* one after the other: Will(c, w) says that it will be w.                 *)
FriendList == [Devices -> Standing]

Reads(v, q, w) ==
  \E f \in [0..Len(q) -> FriendList] :
    /\ f[0] = v /\ f[Len(q)] = w
    /\ \A n \in 1..Len(q) : f[n] = Seen(f[n - 1], q[n])

LEMMA SeenIs ==
  ASSUME NEW w \in FriendList, NEW n \in Note
  PROVE  /\ Seen(w, n) \in FriendList
         /\ n.type \notin {"online", "offline", "paired"} => Seen(w, n) = w
<1>1. CASE n.type \in {"online", "paired"}
  <2>1. n.dev \in Devices /\ n.addr \in Addrs
    BY <1>1 DEF Note
  <2> QED BY <1>1, <2>1 DEF Seen, Standing, FriendList
<1>2. CASE n.type = "offline"
  <2>1. n.dev \in Devices
    BY <1>2 DEF Note
  <2> QED BY <1>2, <2>1 DEF Seen, Standing, FriendList
<1>3. CASE n.type \notin {"online", "paired", "offline"}
  BY <1>3 DEF Seen
<1> QED BY <1>1, <1>2, <1>3

LEMMA SeesOnline ==
  ASSUME NEW w \in FriendList, NEW d \in Devices, NEW a \in Addrs, NEW n,
         n = [type |-> "online", dev |-> d, addr |-> a]
  PROVE  Seen(w, n)[d] = a /\ \A e \in Devices \ {d} : Seen(w, n)[e] = w[e]
<1>1. n.type = "online" /\ n.dev = d /\ n.addr = a
  OBVIOUS
<1>2. Seen(w, n) = [w EXCEPT ![d] = a]
  BY <1>1 DEF Seen
<1> QED BY <1>2 DEF FriendList

LEMMA SeesPaired ==
  ASSUME NEW w \in FriendList, NEW d \in Devices, NEW a \in Addrs, NEW n,
         n = [type |-> "paired", dev |-> d, addr |-> a]
  PROVE  /\ Seen(w, n)[d] = IF w[d] = NoFriend THEN a ELSE w[d]
         /\ \A e \in Devices \ {d} : Seen(w, n)[e] = w[e]
<1>1. n.type = "paired" /\ n.dev = d /\ n.addr = a
  OBVIOUS
<1>2. Seen(w, n) = [w EXCEPT ![d] = IF @ = NoFriend THEN a ELSE @]
  BY <1>1 DEF Seen
<1> QED BY <1>2 DEF FriendList

LEMMA SeesOffline ==
  ASSUME NEW w \in FriendList, NEW d \in Devices, NEW n,
         n = [type |-> "offline", dev |-> d]
  PROVE  /\ Seen(w, n)[d] \in {Off, NoFriend}
         /\ \A e \in Devices \ {d} : Seen(w, n)[e] = w[e]
<1>1. n.type = "offline" /\ n.dev = d
  OBVIOUS
<1>2. Seen(w, n) = [w EXCEPT ![d] = IF @ = NoFriend THEN @ ELSE Off]
  BY <1>1 DEF Seen
<1> QED BY <1>2 DEF FriendList

LEMMA ReadsNothing ==
  ASSUME NEW v \in FriendList
  PROVE  Reads(v, <<>>, v) /\ \A w : Reads(v, <<>>, w) => w = v
<1>1. Len(<<>>) = 0 /\ \A n : n \notin 1..0
  BY EmptySeq
<1> DEFINE f == [n \in 0..0 |-> v]
<1>2. f \in [0..0 -> FriendList] /\ f[0] = v
  OBVIOUS
<1> HIDE DEF f
<1> QED BY <1>1, <1>2 DEF Reads

LEMMA ReadsOneMore ==
  ASSUME NEW v, NEW q \in Seq(Note), NEW w, Reads(v, q, w), NEW n \in Note
  PROVE  Reads(v, Append(q, n), Seen(w, n))
<1> DEFINE l == Len(q)
           r == Append(q, n)
<1>1. /\ l \in Nat /\ Len(r) = l + 1 /\ r[l + 1] = n
      /\ \A i \in 1..l : r[i] = q[i]
  BY PutElements, LenProperties
<1>2. PICK f \in [0..l -> FriendList] :
        /\ f[0] = v /\ f[l] = w
        /\ \A i \in 1..l : f[i] = Seen(f[i - 1], q[i])
  BY DEF Reads
<1> HIDE DEF l, r
<1> DEFINE g == [i \in 0..l + 1 |-> IF i = l + 1 THEN Seen(w, n) ELSE f[i]]
<1>3. w \in FriendList
  BY <1>1, <1>2
<1>4. Seen(w, n) \in FriendList
  BY <1>3, SeenIs
<1>5. /\ g \in [0..l + 1 -> FriendList]
      /\ g[l + 1] = Seen(w, n) /\ \A i \in 0..l : g[i] = f[i]
  BY <1>1, <1>4
<1> HIDE DEF g
<1>6. ASSUME NEW i \in 1..l + 1 PROVE g[i] = Seen(g[i - 1], r[i])
  <2>1. CASE i = l + 1
    <3>1. i - 1 = l /\ l \in 0..l
      BY <1>1, <2>1
    <3> QED BY <1>1, <1>2, <1>5, <2>1, <3>1
  <2>2. CASE i # l + 1
    <3>1. i \in 1..l /\ i \in 0..l /\ i - 1 \in 0..l
      BY <1>1, <2>2
    <3> QED BY <1>1, <1>2, <1>5, <3>1
  <2> QED BY <2>1, <2>2
<1>7. g[0] = v
  BY <1>1, <1>2, <1>5
<1> QED BY <1>1, <1>5, <1>6, <1>7 DEF Reads, r

LEMMA ReadsOneLess ==
  ASSUME NEW v, NEW q \in Seq(Note), q # <<>>, NEW w, Reads(v, q, w)
  PROVE  Reads(Seen(v, Head(q)), Tail(q), w)
<1> DEFINE l == Len(q)
           r == Tail(q)
<1>1. /\ l \in Nat \ {0} /\ Len(r) = l - 1 /\ Head(q) = q[1]
      /\ \A i \in 1..l - 1 : r[i] = q[i + 1]
  BY TakeElements
<1>2. PICK f \in [0..l -> FriendList] :
        /\ f[0] = v /\ f[l] = w
        /\ \A i \in 1..l : f[i] = Seen(f[i - 1], q[i])
  BY DEF Reads
<1> HIDE DEF l, r
<1> DEFINE g == [i \in 0..l - 1 |-> f[i + 1]]
<1>3. /\ g \in [0..l - 1 -> FriendList]
      /\ \A i \in 0..l - 1 : g[i] = f[i + 1]
  BY <1>1
<1> HIDE DEF g
<1>4. g[0] = Seen(v, Head(q))
  <2>1. 0 \in 0..l - 1 /\ 1 \in 1..l /\ 0 + 1 = 1 /\ 1 - 1 = 0
    BY <1>1
  <2> QED BY <1>1, <1>2, <1>3, <2>1
<1>5. g[l - 1] = w
  <2>1. l - 1 \in 0..l - 1 /\ (l - 1) + 1 = l
    BY <1>1
  <2> QED BY <1>2, <1>3, <2>1
<1>6. ASSUME NEW i \in 1..l - 1 PROVE g[i] = Seen(g[i - 1], r[i])
  <2>1. /\ i \in 0..l - 1 /\ i - 1 \in 0..l - 1 /\ i + 1 \in 1..l
        /\ (i - 1) + 1 = i /\ (i + 1) - 1 = i
    BY <1>1
  <2> QED BY <1>1, <1>2, <1>3, <2>1
<1> QED BY <1>1, <1>3, <1>4, <1>5, <1>6 DEF Reads, r

Will(c, w) == Reads(view[c], queue[c], w)

LEMMA WillStays ==
  ASSUME NEW c \in Conns, NEW w, Will(c, w), queue'[c] = queue[c], view'[c] = view[c]
  PROVE  Will(c, w)'
  BY DEF Will

LEMMA WillAdd ==
  ASSUME TypeOK, NEW c \in Conns, NEW w \in FriendList, Will(c, w), NEW n \in Note,
         queue'[c] = Append(queue[c], n), view'[c] = view[c]
  PROVE  Seen(w, n) \in FriendList /\ Will(c, Seen(w, n))'
<1>1. queue[c] \in Seq(Note)
  BY DEF TypeOK
<1>2. Reads(view[c], Append(queue[c], n), Seen(w, n))
  BY <1>1, ReadsOneMore DEF Will
<1> QED BY <1>2, SeenIs DEF Will

LEMMA WillDeliver ==
  ASSUME TypeOK, NEW c \in Conns, NEW w, Will(c, w), Deliver(c)
  PROVE  Will(c, w)'
<1>1. queue[c] \in Seq(Note) /\ queue[c] # <<>>
  BY DEF TypeOK, Deliver
<1>2. queue'[c] = Tail(queue[c]) /\ view'[c] = Seen(view[c], Head(queue[c]))
  BY DEF TypeOK, Deliver
<1>3. Reads(Seen(view[c], Head(queue[c])), Tail(queue[c]), w)
  BY <1>1, ReadsOneLess DEF Will
<1> QED BY <1>2, <1>3 DEF Will

-----------------------------------------------------------------------------

Present == {"announce", "serving"} \cup Working
Debts   == {"announce", "notify", "farewell", "lookup", "answer", "tell"}
Roster(x) == [d \in Devices |-> IF d \in friends[Owner[x]] THEN Here(d) ELSE NoFriend]

Stage(x) ==
  /\ phase[x] \in {"none", "snapshot", "greet", "insert"} => queue[x] = <<>> /\ ~open[x]
  /\ phase[x] \in Present /\ ~broken[x] => open[x]
  /\ phase[x] \in Present => addr[Owner[x]] = cur[x]
  /\ phase[x] = "farewell" => online[Owner[x]] = None
  /\ phase[x] = "greet" => snap[x] = Roster(x)
  /\ phase[x] = "insert" => view[x] = Roster(x)
  /\ phase[x] = "notify" => job[x].txs = Listed(friends[Owner[x]])
  /\ phase[x] \in {"lookup", "answer", "tell"} => job[x].to \in friends[Owner[x]]
  /\ phase[x] = "answer" => job[x].standing = Here(job[x].to)

Heeds(c)  == phase[c] \in Present /\ ~broken[c] /\ c \notin missed
Untold(e) == \E x \in Conns : Owner[x] = e /\ phase[x] \in {"announce", "notify", "farewell"}
BeingPaired(c, e) ==
  \E x \in Conns :
    \/ x = c /\ phase[x] \in {"lookup", "answer"} /\ job[x].to = e
    \/ Owner[x] = e /\ phase[x] \in {"lookup", "answer", "tell"} /\ job[x].to = Owner[c]
Agrees(e, s) == IF online[e] = None THEN s \in {Off, NoFriend} ELSE s = addr[e]
Claim(c, e, s) ==
  IF e \notin friends[Owner[c]] THEN s = NoFriend
  ELSE Untold(e) \/ Agrees(e, s) \/ (s = NoFriend /\ BeingPaired(c, e))

EveryStage    == \A x \in Conns : Stage(x)
SerialInv == Alone /\ ServedIsListed /\ OneAtATime /\ EveryStage

(* Who writes what.                                                        *)
Own(c) == Register(c) \/ Handler(c) \/ Request(c) \/ Leave(c)

LEMMA StepsOf ==
  ASSUME [Next]_vars
  PROVE  \/ UNCHANGED vars \/ CodeStep
         \/ \E c \in Conns : Own(c) \/ Deliver(c) \/ WriterEnds(c) \/ Break(c)
  BY DEF Next, AllGone, Own, CodeStep

LEMMA HandlerWriters ==
  ASSUME IInv, [Next]_vars, NEW x \in Conns, ~Own(x)
  PROVE  /\ phase'[x] = phase[x] /\ job'[x] = job[x]
         /\ cur'[x] = cur[x] /\ snap'[x] = snap[x]
<1> DEFINE Same == /\ phase'[x] = phase[x] /\ job'[x] = job[x]
                   /\ cur'[x] = cur[x] /\ snap'[x] = snap[x]
<1>0. TypeOK
  BY DEF IInv
<1> USE <1>0 DEF TypeOK, Goto, Serving, handler, channel, roster, clients
<1>1. ASSUME NEW c \in Conns, Own(c), c # x PROVE Same
  <2>1. CASE OpeningStep(c)
    BY <1>1, <2>1 DEF OpeningStep, Register, Snapshot, PushOffline, Greet, GreetFails,
       Insert, Announce
  <2>2. CASE WorkStep(c) \/ Route(c)
    BY <1>1, <2>2 DEF WorkStep, Notify, Reply, Pair, Lookup, Answer, TellIssuer,
       RouteNowhere, Park, Route
  <2>3. CASE Leave(c) \/ Remove(c) \/ Farewell(c)
    BY <1>1, <2>3 DEF Leave, Remove, Farewell
  <2>4. CASE Request(c)
    BY <1>1, <2>4 DEF Request, UpdateAddr, GenerateInvite, AcceptInvite, RefuseInvite, Relay,
       RefuseRelay
  <2> QED BY <1>1, <2>1, <2>2, <2>3, <2>4 DEF Own, Handler, OpeningStep, WorkStep
<1>2. ASSUME NEW c \in Conns, Deliver(c) \/ WriterEnds(c) \/ Break(c) PROVE Same
  BY <1>2 DEF Deliver, WriterEnds, Break
<1>3. CASE CodeStep
  BY <1>3 DEF CodeStep, Expire, CleanupInvites
<1>4. CASE UNCHANGED vars
  BY <1>4 DEF vars
<1> QED BY <1>1, <1>2, <1>3, <1>4, StepsOf

(* A closed channel stays empty.                                           *)
LEMMA ChannelWriters ==
  ASSUME IInv, [Next]_vars, NEW x \in Conns
  PROVE  /\ open'[x] = open[x] \/ Insert(x) \/ Leave(x) \/ (WriterEnds(x) /\ broken[x])
         /\ queue'[x] = queue[x] \/ open[x] \/ Leave(x)
         /\ broken[x] => broken'[x]
         /\ x \in missed => x \in missed'
<1> DEFINE Fine == /\ open'[x] = open[x] \/ Insert(x) \/ Leave(x)
                                         \/ (WriterEnds(x) /\ broken[x])
                   /\ queue'[x] = queue[x] \/ open[x] \/ Leave(x)
                   /\ broken[x] => broken'[x]
                   /\ x \in missed => x \in missed'
<1>0. TypeOK
  BY DEF IInv
<1> USE <1>0 DEF TypeOK, handler, channel, roster, clients
<1>1. ASSUME NEW c \in Conns, OpeningStep(c) PROVE Fine
  BY <1>1 DEF OpeningStep, Register, Snapshot, PushOffline, Greet, GreetFails, Insert, Announce,
     Tell, Room, Misses
<1>2. ASSUME NEW c \in Conns, WorkStep(c), ~TellIssuer(c) PROVE Fine
  BY <1>2 DEF WorkStep, Notify, Reply, Pair, Lookup, Answer, RouteNowhere, Park, SendOwn, Tell,
     Room, Misses
<1>3. ASSUME NEW c \in Conns, TellIssuer(c) PROVE Fine
  <2>1. open' = open /\ broken' = broken /\ missed \subseteq missed'
    BY <1>3 DEF TellIssuer
  <2>2. ASSUME ~open[x] PROVE queue'[x] = queue[x]
    <3> DEFINE news == <<Presence(c), [Presence(c) EXCEPT !.type = "paired"]>>
    <3>1. queue'[x] = queue[x] \/ queue'[x] = queue[x] \o SubSeq(news, 1, 0)
      BY <1>3, <2>2 DEF TellIssuer
    <3>2. SubSeq(news, 1, 0) = <<>>
      OBVIOUS
    <3>3. queue[x] \o <<>> = queue[x]
      BY ConcatEmptySeq
    <3> HIDE DEF news
    <3> QED BY <3>1, <3>2, <3>3
  <2> QED BY <2>1, <2>2
<1>4. ASSUME NEW c \in Conns, Route(c) \/ Deliver(c) PROVE Fine
  BY <1>4 DEF Route, Deliver, Tell, Room
<1>5. ASSUME NEW c \in Conns, EndStep(c) PROVE Fine
  BY <1>5 DEF EndStep, Leave, Remove, Farewell, WriterEnds, Break, Tell, Room, Misses
<1>6. ASSUME NEW c \in Conns, Request(c) PROVE Fine
  BY <1>6 DEF Request, UpdateAddr, GenerateInvite, AcceptInvite, RefuseInvite, Relay, RefuseRelay
<1>7. CASE CodeStep \/ UNCHANGED vars
  BY <1>7 DEF CodeStep, Expire, CleanupInvites, vars
<1> QED BY <1>1, <1>2, <1>3, <1>4, <1>5, <1>6, <1>7, Steps

LEMMA ViewWriters ==
  ASSUME IInv, [Next]_vars, NEW x \in Conns
  PROVE  view'[x] = view[x] \/ Greet(x) \/ Leave(x) \/ Deliver(x)
<1> DEFINE Fine == view'[x] = view[x] \/ Greet(x) \/ Leave(x) \/ Deliver(x)
<1>0. TypeOK
  BY DEF IInv
<1> USE <1>0 DEF TypeOK, handler, channel, roster, clients
<1>1. ASSUME NEW c \in Conns, OpeningStep(c) PROVE Fine
  BY <1>1 DEF OpeningStep, Register, Snapshot, PushOffline, Greet, GreetFails, Insert, Announce
<1>2. ASSUME NEW c \in Conns, WorkStep(c) \/ Route(c) \/ Deliver(c) PROVE Fine
  BY <1>2 DEF WorkStep, Notify, Reply, Pair, Lookup, Answer, TellIssuer, RouteNowhere, Park,
     Route, Deliver
<1>5. ASSUME NEW c \in Conns, EndStep(c) PROVE Fine
  BY <1>5 DEF EndStep, Leave, Remove, Farewell, WriterEnds, Break
<1>6. ASSUME NEW c \in Conns, Request(c) PROVE Fine
  BY <1>6 DEF Request, UpdateAddr, GenerateInvite, AcceptInvite, RefuseInvite, Relay, RefuseRelay
<1>7. CASE CodeStep \/ UNCHANGED vars
  BY <1>7 DEF CodeStep, Expire, CleanupInvites, vars
<1> QED BY <1>1, <1>2, <1>5, <1>6, <1>7, Steps

LEMMA AddrWriters ==
  ASSUME [Next]_vars
  PROVE  addr' = addr \/ \E c \in Conns : Insert(c) \/ \E a \in Addrs : UpdateAddr(c, a)
<1> DEFINE Fine == addr' = addr \/ \E c \in Conns : Insert(c) \/ \E a \in Addrs : UpdateAddr(c, a)
<1> USE DEF handler, channel, roster, clients
<1>1. ASSUME NEW c \in Conns, OpeningStep(c) PROVE Fine
  BY <1>1 DEF OpeningStep, Register, Snapshot, PushOffline, Greet, GreetFails, Announce
<1>2. ASSUME NEW c \in Conns, WorkStep(c) \/ Route(c) \/ Deliver(c) PROVE Fine
  BY <1>2 DEF WorkStep, Notify, Reply, Pair, Lookup, Answer, TellIssuer, RouteNowhere, Park,
     Route, Deliver
<1>3. ASSUME NEW c \in Conns, EndStep(c) PROVE Fine
  BY <1>3 DEF EndStep, Leave, Remove, Farewell, WriterEnds, Break
<1>4. ASSUME NEW c \in Conns, Request(c) PROVE Fine
  BY <1>4 DEF Request, GenerateInvite, AcceptInvite, RefuseInvite, Relay, RefuseRelay
<1>5. CASE CodeStep \/ UNCHANGED vars
  BY <1>5 DEF CodeStep, Expire, CleanupInvites, vars
<1> QED BY <1>1, <1>2, <1>3, <1>4, <1>5, Steps

(* While a handler is at work, no other changes a table.                   *)
LEMMA TablesStay ==
  ASSUME IInv, SerialInv, ~Overlap, [Next]_vars, NEW x \in Conns, ~Idle(x), ~Own(x)
  PROVE  online' = online /\ addr' = addr /\ friends' = friends
<1>1. ASSUME NEW y \in Conns, Insert(y) \/ Remove(y) \/ Pair(y) PROVE FALSE
  <2>1. ~Idle(y) /\ Own(y)
    BY <1>1 DEF Insert, Remove, Pair, Goto, Idle, Own, Handler
  <2> QED BY <2>1 DEF SerialInv, OneAtATime
<1>2. ASSUME NEW y \in Conns, NEW a \in Addrs, UpdateAddr(y, a) PROVE FALSE
  <2>1. Calm
    BY <1>2 DEF UpdateAddr, Serving, MayStart
  <2> QED BY <2>1 DEF Calm
<1> QED BY <1>1, <1>2, OnlineWriters, AddrWriters, FriendsWriters

-----------------------------------------------------------------------------

(* What a handler relies on, one conjunct of Stage after the other.        *)
LEMMA EarlyKeeps ==
  ASSUME IInv, SerialInv, [Next]_vars, NEW x \in Conns,
         phase'[x] \in {"none", "snapshot", "greet", "insert"}
  PROVE  queue'[x] = <<>> /\ ~open'[x]
<1>0. TypeOK /\ Stage(x)
  BY DEF IInv, SerialInv, EveryStage
<1>1. phase[x] \in {"none", "snapshot", "greet", "insert"}
  <2>1. CASE ~Own(x)
    BY <2>1, HandlerWriters
  <2>2. CASE Own(x)
    <3> USE <1>0 DEF TypeOK, Goto, Serving
    <3>1. CASE Register(x) \/ Leave(x)
      BY <3>1 DEF Register, Leave
    <3>2. CASE Handler(x)
      BY <3>2 DEF Handler, Snapshot, PushOffline, Greet, GreetFails, Insert, Announce, Notify,
         Reply, Pair, Lookup, Answer, TellIssuer, Route, RouteNowhere, Park, Remove, Farewell
    <3>3. CASE Request(x)
      BY <3>3 DEF Request, UpdateAddr, GenerateInvite, AcceptInvite, RefuseInvite, Relay,
         RefuseRelay
    <3> QED BY <2>2, <3>1, <3>2, <3>3 DEF Own
  <2> QED BY <2>1, <2>2
<1>2. queue[x] = <<>> /\ ~open[x]
  BY <1>0, <1>1 DEF Stage
<1>3. ~Insert(x) /\ ~Leave(x) /\ ~WriterEnds(x)
  BY <1>0, <1>2 DEF Insert, Leave, WriterEnds, Goto, TypeOK
<1> QED BY <1>2, <1>3, ChannelWriters

LEMMA PresentBefore ==
  ASSUME IInv, [Next]_vars, NEW x \in Conns, phase'[x] \in Present
  PROVE  phase[x] \in Present \/ Insert(x)
<1>1. CASE phase'[x] = phase[x]
  BY <1>1
<1>2. CASE phase'[x] # phase[x]
  <2>1. CASE phase[x] \in Opening
    <3>1. phase'[x] \in Served => Insert(x) \/ phase[x] \in Served
      BY <1>2, <2>1, PhaseEdges DEF Opening, Working, Leaving, Register, Goto
    <3> QED BY <3>1, <2>1 DEF Present, Served, Opening, Working
  <2>2. CASE phase[x] \notin Opening
    BY <1>2, <2>2, PhaseEdges DEF Present, Opening, Working, Leaving
  <2> QED BY <2>1, <2>2
<1> QED BY <1>1, <1>2

LEMMA OpenKeeps ==
  ASSUME IInv, SerialInv, [Next]_vars, NEW x \in Conns,
         phase'[x] \in Present, ~broken'[x]
  PROVE  open'[x]
<1>0. TypeOK /\ Stage(x)
  BY DEF IInv, SerialInv, EveryStage
<1>1. CASE Insert(x)
  BY <1>0, <1>1 DEF Insert, TypeOK
<1>2. CASE ~Insert(x)
  <2>1. phase[x] \in Present /\ ~broken[x]
    BY <1>2, PresentBefore, ChannelWriters
  <2>2. open[x]
    BY <1>0, <2>1 DEF Stage
  <2>3. ~Leave(x)
    BY <1>0 DEF Leave, Goto, TypeOK, Present, Working
  <2> QED BY <1>2, <2>1, <2>2, <2>3, ChannelWriters
<1> QED BY <1>1, <1>2

LEMMA AddrKeeps ==
  ASSUME IInv, SerialInv, [Next]_vars, NEW x \in Conns, phase'[x] \in Present
  PROVE  addr'[Owner[x]] = cur'[x]
<1>0. TypeOK /\ Stage(x) /\ Owner[x] \in Devices /\ None \notin Conns
  BY ConstantsTyped, ConstantsOK DEF IInv, SerialInv, EveryStage, ConstantsOK
<1>1. CASE Insert(x)
  BY <1>0, <1>1 DEF Insert, TypeOK
<1>2. ASSUME NEW a \in Addrs, UpdateAddr(x, a) PROVE addr'[Owner[x]] = cur'[x]
  <2>1. online[Owner[x]] # None
    BY <1>0, <1>2 DEF UpdateAddr, Serving, SerialInv, ServedIsListed, Served
  <2> QED BY <1>0, <1>2, <2>1 DEF UpdateAddr, TypeOK
<1>3. CASE ~Insert(x) /\ \A a \in Addrs : ~UpdateAddr(x, a)
  <2>1. phase[x] \in Present
    BY <1>3, PresentBefore
  <2>2. addr[Owner[x]] = cur[x]
    BY <1>0, <2>1 DEF Stage
  <2>3. cur'[x] = cur[x]
    <3>1. CASE ~Own(x)
      BY <3>1, HandlerWriters
    <3>2. CASE Own(x)
      <4>1. CASE Register(x) \/ Leave(x)
        BY <4>1 DEF Register, Leave
      <4>2. CASE Handler(x)
        BY <1>3, <4>2 DEF Handler, Snapshot, PushOffline, Greet, GreetFails, Announce, Notify,
           Reply, Pair, Lookup, Answer, TellIssuer, Route, RouteNowhere, Park, Remove,
           Farewell
      <4>3. CASE Request(x)
        BY <1>3, <4>3 DEF Request, GenerateInvite, AcceptInvite, RefuseInvite, Relay,
           RefuseRelay
      <4> QED BY <3>2, <4>1, <4>2, <4>3 DEF Own
    <3> QED BY <3>1, <3>2
  <2>4. ASSUME NEW y \in Conns, Owner[y] = Owner[x],
               Insert(y) \/ \E a \in Addrs : UpdateAddr(y, a)
        PROVE  FALSE
    <3>1. ~Asleep(y) /\ ~Asleep(x)
      BY <2>1, <2>4 DEF Insert, UpdateAddr, Serving, Goto, Asleep, Present, Working
    <3>2. y = x
      BY <2>4, <3>1 DEF SerialInv, Alone
    <3> QED BY <1>3, <2>4, <3>2
  <2>5. addr'[Owner[x]] = addr[Owner[x]]
    <3>1. ASSUME NEW y \in Conns, Insert(y) PROVE addr'[Owner[x]] = addr[Owner[x]]
      BY <1>0, <2>4, <3>1 DEF Insert, TypeOK
    <3>2. ASSUME NEW y \in Conns, NEW a \in Addrs, UpdateAddr(y, a)
          PROVE  addr'[Owner[x]] = addr[Owner[x]]
      BY <1>0, <2>4, <3>2 DEF UpdateAddr, TypeOK
    <3> QED BY <3>1, <3>2, AddrWriters
  <2> QED BY <2>2, <2>3, <2>5
<1> QED BY <1>1, <1>2, <1>3

LEMMA FarewellKeeps ==
  ASSUME IInv, SerialInv, ~Overlap, [Next]_vars, NEW x \in Conns, phase'[x] = "farewell"
  PROVE  online'[Owner[x]] = None
<1>0. TypeOK /\ Stage(x) /\ Owner[x] \in Devices
  BY ConstantsTyped DEF IInv, SerialInv, EveryStage
<1>1. CASE ~Own(x)
  <2>1. phase[x] = "farewell" /\ ~Idle(x)
    BY <1>1, HandlerWriters DEF Idle
  <2> QED BY <1>0, <1>1, <2>1, TablesStay DEF Stage
<1>2. CASE Own(x)
  <2>1. Remove(x)
    <3> USE <1>0 DEF TypeOK, Goto, Serving
    <3>1. CASE Register(x) \/ Leave(x)
      BY <3>1 DEF Register, Leave
    <3>2. CASE Handler(x)
      BY <3>2 DEF Handler, Snapshot, PushOffline, Greet, GreetFails, Insert, Announce, Notify,
         Reply, Pair, Lookup, Answer, TellIssuer, Route, RouteNowhere, Park, Farewell
    <3>3. CASE Request(x)
      BY <3>3 DEF Request, UpdateAddr, GenerateInvite, AcceptInvite, RefuseInvite, Relay,
         RefuseRelay
    <3> QED BY <1>2, <3>1, <3>2, <3>3 DEF Own
  <2> QED BY <1>0, <2>1 DEF Remove, TypeOK
<1> QED BY <1>1, <1>2

LEMMA GreetingKeeps ==
  ASSUME IInv, SerialInv, ~Overlap, [Next]_vars, NEW x \in Conns
  PROVE  /\ phase'[x] = "greet" => snap'[x] = Roster(x)'
         /\ phase'[x] = "insert" => view'[x] = Roster(x)'
<1>0. TypeOK /\ Stage(x) /\ Owner[x] \in Devices
  BY ConstantsTyped DEF IInv, SerialInv, EveryStage
<1> SUFFICES ASSUME phase'[x] \in {"greet", "insert"}
             PROVE  /\ phase'[x] = "greet" => snap'[x] = Roster(x)'
                    /\ phase'[x] = "insert" => view'[x] = Roster(x)'
  OBVIOUS
<1>1. CASE ~Own(x)
  <2>1. phase'[x] = phase[x] /\ ~Idle(x) /\ snap'[x] = snap[x]
    BY <1>1, HandlerWriters DEF Idle
  <2>2. Roster(x)' = Roster(x)
    BY <1>1, <2>1, TablesStay DEF Roster, Here
  <2>3. view'[x] = view[x]
    <3>1. ~open[x]
      BY <1>0, <2>1 DEF Stage
    <3>2. ~Greet(x) /\ ~Leave(x) /\ ~Deliver(x)
      BY <1>1, <3>1 DEF Own, Handler, Deliver
    <3> QED BY <3>2, ViewWriters
  <2> QED BY <1>0, <2>1, <2>2, <2>3 DEF Stage
<1>2. CASE Own(x)
  <2>1. Snapshot(x) \/ PushOffline(x) \/ Greet(x)
    <3> USE <1>0 DEF TypeOK, Goto, Serving
    <3>1. CASE Register(x) \/ Leave(x)
      BY <3>1 DEF Register, Leave
    <3>2. CASE Handler(x)
      BY <3>2 DEF Handler, GreetFails, Insert, Announce, Notify,
         Reply, Pair, Lookup, Answer, TellIssuer, Route, RouteNowhere, Park, Remove, Farewell
    <3>3. CASE Request(x)
      BY <3>3 DEF Request, UpdateAddr, GenerateInvite, AcceptInvite, RefuseInvite, Relay,
         RefuseRelay
    <3> QED BY <1>2, <3>1, <3>2, <3>3 DEF Own
  <2>2. Roster(x)' = Roster(x)
    BY <2>1 DEF Roster, Here, Snapshot, PushOffline, Greet, roster
  <2>3. CASE Snapshot(x)
    BY <1>0, <2>2, <2>3 DEF Snapshot, Goto, TypeOK, Roster
  <2>4. CASE PushOffline(x)
    BY <1>0, <2>2, <2>4 DEF PushOffline, TypeOK, Stage
  <2>5. CASE Greet(x)
    BY <1>0, <2>2, <2>5 DEF Greet, Goto, TypeOK, Stage
  <2> QED BY <2>1, <2>3, <2>4, <2>5
<1> QED BY <1>1, <1>2

LEMMA NotifyKeeps ==
  ASSUME IInv, SerialInv, ~Overlap, [Next]_vars, NEW x \in Conns, phase'[x] = "notify"
  PROVE  job'[x].txs = Listed(friends[Owner[x]])'
<1>0. TypeOK /\ Stage(x) /\ Owner[x] \in Devices
  BY ConstantsTyped DEF IInv, SerialInv, EveryStage
<1>1. CASE ~Own(x)
  <2>1. phase[x] = "notify" /\ ~Idle(x) /\ job'[x] = job[x]
    BY <1>1, HandlerWriters DEF Idle
  <2>2. friends' = friends /\ online' = online
    BY <1>1, <2>1, TablesStay
  <2> QED BY <1>0, <2>1, <2>2 DEF Stage, Listed
<1>2. CASE Own(x)
  <2>1. \E a \in Addrs : UpdateAddr(x, a)
    <3> USE <1>0 DEF TypeOK, Goto, Serving
    <3>1. CASE Register(x) \/ Leave(x)
      BY <3>1 DEF Register, Leave
    <3>2. CASE Handler(x)
      BY <3>2 DEF Handler, Snapshot, PushOffline, Greet, GreetFails, Insert, Announce, Notify,
         Reply, Pair, Lookup, Answer, TellIssuer, Route, RouteNowhere, Park, Remove, Farewell
    <3>3. CASE Request(x)
      BY <3>3 DEF Request, GenerateInvite, AcceptInvite, RefuseInvite, Relay, RefuseRelay
    <3> QED BY <1>2, <3>1, <3>2, <3>3 DEF Own
  <2>2. PICK a \in Addrs : UpdateAddr(x, a)
    BY <2>1
  <2>3. friends' = friends /\ online' = online
        /\ job' = [job EXCEPT ![x] = [NoJob EXCEPT !.txs = Listed(friends[Owner[x]])]]
    BY <2>2 DEF UpdateAddr
  <2>4. job'[x].txs = Listed(friends[Owner[x]])
    BY <1>0, <2>3 DEF TypeOK, NoJob
  <2> QED BY <2>3, <2>4 DEF Listed
<1> QED BY <1>1, <1>2

LEMMA PairingKeeps ==
  ASSUME IInv, SerialInv, ~Overlap, [Next]_vars, NEW x \in Conns
  PROVE  /\ phase'[x] \in {"lookup", "answer", "tell"} => job'[x].to \in friends'[Owner[x]]
         /\ phase'[x] = "answer" => job'[x].standing = Here(job[x].to)' /\ job'[x].to = job[x].to
<1>0. TypeOK /\ Stage(x) /\ Owner[x] \in Devices
  BY ConstantsTyped DEF IInv, SerialInv, EveryStage
<1> SUFFICES ASSUME phase'[x] \in {"lookup", "answer", "tell"}
             PROVE  /\ job'[x].to \in friends'[Owner[x]]
                    /\ phase'[x] = "answer" => /\ job'[x].standing = Here(job[x].to)'
                                               /\ job'[x].to = job[x].to
  OBVIOUS
<1>1. CASE ~Own(x)
  <2>1. phase'[x] = phase[x] /\ ~Idle(x) /\ job'[x] = job[x]
    BY <1>1, HandlerWriters DEF Idle
  <2>2. friends' = friends /\ online' = online /\ addr' = addr
    BY <1>1, <2>1, TablesStay
  <2> QED BY <1>0, <2>1, <2>2 DEF Stage, Here
<1>2. CASE Own(x)
  <2>1. Pair(x) \/ Lookup(x) \/ Answer(x)
    <3> USE <1>0 DEF TypeOK, Goto, Serving
    <3>1. CASE Register(x) \/ Leave(x)
      BY <3>1 DEF Register, Leave
    <3>2. CASE Handler(x)
      BY <3>2 DEF Handler, Snapshot, PushOffline, Greet, GreetFails, Insert, Announce, Notify,
         Reply, TellIssuer, Route, RouteNowhere, Park, Remove, Farewell
    <3>3. CASE Request(x)
      BY <3>3 DEF Request, UpdateAddr, GenerateInvite, AcceptInvite, RefuseInvite, Relay,
         RefuseRelay
    <3> QED BY <1>2, <3>1, <3>2, <3>3 DEF Own
  <2>2. CASE Pair(x)
    <3>1. phase'[x] = "lookup" /\ job' = job
      BY <1>0, <2>2 DEF Pair, Goto, TypeOK
    <3>2. job[x].to \in friends'[Owner[x]]
      BY <1>0, <2>2 DEF Pair
    <3> QED BY <3>1, <3>2
  <2>3. CASE Lookup(x)
    <3>1. /\ phase[x] = "lookup" /\ phase'[x] = "answer"
          /\ job'[x].to = job[x].to /\ job'[x].standing = Here(job[x].to)
      BY <1>0, <2>3 DEF Lookup, Goto, TypeOK, Job
    <3>2. friends' = friends /\ Here(job[x].to)' = Here(job'[x].to)
      BY <2>3, <3>1 DEF Lookup, Here, roster
    <3> QED BY <1>0, <3>1, <3>2 DEF Stage
  <2>4. CASE Answer(x)
    <3>1. phase[x] = "answer" /\ phase'[x] = "tell" /\ job'[x] = job[x] /\ friends' = friends
      BY <1>0, <2>4 DEF Answer, TypeOK
    <3> QED BY <1>0, <3>1 DEF Stage
  <2> QED BY <2>1, <2>2, <2>3, <2>4
<1> QED BY <1>1, <1>2

LEMMA StagesKeep ==
  ASSUME IInv, SerialInv, ~Overlap, [Next]_vars
  PROVE  EveryStage'
<1> SUFFICES ASSUME NEW x \in Conns PROVE Stage(x)'
  BY DEF EveryStage
<1>1. phase'[x] = "answer" => job'[x].standing = Here(job[x].to)'
  BY PairingKeeps
<1> QED
  BY <1>1, EarlyKeeps, OpenKeeps, AddrKeeps, FarewellKeeps, GreetingKeeps, NotifyKeeps,
     PairingKeeps DEF Stage

-----------------------------------------------------------------------------

(* What every client will have heard once its channel is empty.            *)
Informed(c) ==
  \E w \in FriendList : Will(c, w) /\ \A e \in Devices : Claim(c, e, w[e])
Views == \A c \in Conns : Heeds(c) => Informed(c)

LEMMA ClaimKeeps ==
  ASSUME friends' = friends, NEW c \in Conns, NEW e \in Devices, NEW s,
         Untold(e) => Untold(e)', BeingPaired(c, e) => BeingPaired(c, e)',
         Untold(e)' \/ (online'[e] = online[e] /\ addr'[e] = addr[e]),
         Claim(c, e, s)
  PROVE  Claim(c, e, s)'
  BY DEF Claim, Agrees

LEMMA HeedsBefore ==
  ASSUME IInv, [Next]_vars, NEW c \in Conns, Heeds(c)'
  PROVE  Insert(c) \/ (Heeds(c) /\ phase[c] \in Present)
  BY PresentBefore, ChannelWriters DEF Heeds

(* The steps that tell something or make friends.                          *)
Loud(x) == \/ Announce(x) \/ Notify(x) \/ Farewell(x) \/ Answer(x) \/ TellIssuer(x)
           \/ Pair(x)

LEMMA DebtStays ==
  ASSUME IInv, [Next]_vars, NEW x \in Conns, phase[x] \in Debts, ~Loud(x)
  PROVE  /\ job'[x].to = job[x].to
         /\ phase'[x] = phase[x] \/ (phase[x] = "lookup" /\ phase'[x] = "answer")
<1>0. TypeOK
  BY DEF IInv
<1>1. CASE ~Own(x)
  BY <1>1, HandlerWriters
<1>2. CASE Own(x)
  <2>1. CASE Lookup(x)
    BY <1>0, <2>1 DEF Lookup, Goto, TypeOK, Job
  <2>2. CASE ~Lookup(x)
    <3> USE DEF Goto, Serving, Debts
    <3>1. CASE Register(x) \/ Leave(x)
      BY <3>1 DEF Register, Leave
    <3>2. CASE Handler(x)
      BY <2>2, <3>2 DEF Handler, Loud, Snapshot, PushOffline, Greet, GreetFails, Insert, Reply,
         Route, RouteNowhere, Park, Remove
    <3>3. CASE Request(x)
      BY <3>3 DEF Request, UpdateAddr, GenerateInvite, AcceptInvite, RefuseInvite, Relay,
         RefuseRelay
    <3> QED BY <1>2, <3>1, <3>2, <3>3 DEF Own
  <2> QED BY <2>1, <2>2
<1> QED BY <1>1, <1>2

LEMMA DebtsStay ==
  ASSUME IInv, [Next]_vars, \A x \in Conns : ~Loud(x), NEW e \in Devices
  PROVE  /\ Untold(e) => Untold(e)'
         /\ \A c \in Conns : BeingPaired(c, e) => BeingPaired(c, e)'
         /\ Untold(e)' \/ (online'[e] = online[e] /\ addr'[e] = addr[e])
<1>0. TypeOK /\ Owner \in [Conns -> Devices]
  BY ConstantsTyped DEF IInv
<1>1. ASSUME Untold(e) PROVE Untold(e)'
  <2>1. PICK x \in Conns : Owner[x] = e /\ phase[x] \in {"announce", "notify", "farewell"}
    BY <1>1 DEF Untold
  <2>2. phase'[x] = phase[x]
    BY <2>1, DebtStays DEF Debts
  <2> QED BY <2>1, <2>2 DEF Untold
<1>2. ASSUME NEW c \in Conns, BeingPaired(c, e) PROVE BeingPaired(c, e)'
  <2>1. PICK x \in Conns :
          \/ x = c /\ phase[x] \in {"lookup", "answer"} /\ job[x].to = e
          \/ Owner[x] = e /\ phase[x] \in {"lookup", "answer", "tell"} /\ job[x].to = Owner[c]
    BY <1>2 DEF BeingPaired
  <2>2. /\ job'[x].to = job[x].to
        /\ phase'[x] = phase[x] \/ (phase[x] = "lookup" /\ phase'[x] = "answer")
    BY <2>1, DebtStays DEF Debts
  <2> QED BY <2>1, <2>2 DEF BeingPaired
<1>3. ASSUME NEW x \in Conns, Owner[x] = e,
             phase'[x] \in {"announce", "notify", "farewell"}
      PROVE  Untold(e)'
  BY <1>3 DEF Untold
<1>4. ASSUME NEW x \in Conns, Insert(x) \/ Remove(x)
      PROVE  Untold(e)' \/ (online'[e] = online[e] /\ addr'[e] = addr[e])
  BY <1>0, <1>3, <1>4 DEF Insert, Remove, Goto, TypeOK
<1>5. ASSUME NEW x \in Conns, NEW a \in Addrs, UpdateAddr(x, a)
      PROVE  Untold(e)' \/ (online'[e] = online[e] /\ addr'[e] = addr[e])
  BY <1>0, <1>3, <1>5 DEF UpdateAddr, Goto, TypeOK
<1>6. Untold(e)' \/ (online'[e] = online[e] /\ addr'[e] = addr[e])
  BY <1>4, <1>5, OnlineWriters, AddrWriters
<1> QED BY <1>1, <1>2, <1>6

(* What reaches a client otherwise tells it nothing new.                   *)
LEMMA WillKeeps ==
  ASSUME IInv, [Next]_vars, \A x \in Conns : ~Loud(x),
         NEW c \in Conns, Heeds(c), Heeds(c)', NEW w \in FriendList, Will(c, w)
  PROVE  Will(c, w)'
<1>0. TypeOK
  BY DEF IInv
<1>1. CASE Deliver(c)
  BY <1>0, <1>1, WillDeliver
<1>2. CASE ~Deliver(c)
  <2>1. view'[c] = view[c]
    <3>1. ~Greet(c) /\ ~Leave(c)
      BY <1>0 DEF Heeds, Present, Working, Greet, Leave, Goto, TypeOK
    <3> QED BY <1>2, <3>1, ViewWriters
  <2>2. \/ queue'[c] = queue[c]
        \/ \E n \in Note : /\ n.type \notin {"online", "offline", "paired"}
                           /\ queue'[c] = Append(queue[c], n)
    <3> DEFINE Fine == \/ queue'[c] = queue[c]
                       \/ \E n \in Note : /\ n.type \notin {"online", "offline", "paired"}
                                          /\ queue'[c] = Append(queue[c], n)
    <3>1. ASSUME NEW x \in Conns, Reply(x) PROVE Fine
      <4>1. job[x].note \in [type : {"code", "refused"}]
        BY <3>1 DEF Reply, Goto, IInv, Jobs
      <4>2. job[x].note \in Note /\ job[x].note.type \notin {"online", "offline", "paired"}
        BY <4>1 DEF Note
      <4> QED BY <3>1, <4>2 DEF Reply, SendOwn, Tell
    <3>2. ASSUME NEW x \in Conns, Route(x) PROVE Fine
      <4> DEFINE n == [type |-> "relayed", body |-> Body(x)]
      <4>1. n \in Note /\ n.type = "relayed"
        BY <3>2, RouteMoves, NotesFit
      <4>2. Tell({online[job[x].to]}, n)
        BY <3>2 DEF Route
      <4> HIDE DEF n
      <4> QED BY <4>1, <4>2 DEF Tell
    <3>3. ASSUME NEW x \in Conns, Deliver(x) \/ Leave(x) \/ WriterEnds(x) PROVE Fine
      <4>1. x # c
        BY <1>0, <1>2, <3>3 DEF Heeds, Present, Working, Leave, WriterEnds, Goto, TypeOK
      <4> QED BY <1>0, <3>3, <4>1 DEF TypeOK, Deliver, Leave, WriterEnds
    <3> USE DEF channel
    <3>4. ASSUME NEW x \in Conns, OpeningStep(x) PROVE Fine
      BY <3>4 DEF OpeningStep, Loud, Register, Snapshot, PushOffline, Greet, GreetFails, Insert
    <3>5. ASSUME NEW x \in Conns, WorkStep(x) PROVE Fine
      BY <3>1, <3>5 DEF WorkStep, Loud, Lookup, RouteNowhere, Park
    <3>6. ASSUME NEW x \in Conns, EndStep(x) PROVE Fine
      BY <3>3, <3>6 DEF EndStep, Loud, Remove, Break
    <3>7. ASSUME NEW x \in Conns, Request(x) PROVE Fine
      BY <3>7 DEF Request, UpdateAddr, GenerateInvite, AcceptInvite, RefuseInvite, Relay,
         RefuseRelay
    <3>8. CASE CodeStep \/ UNCHANGED vars
      BY <3>8 DEF CodeStep, Expire, CleanupInvites, vars
    <3> QED BY <3>2, <3>3, <3>4, <3>5, <3>6, <3>7, <3>8, Steps
  <2>3. CASE queue'[c] = queue[c]
    BY <2>1, <2>3, WillStays
  <2>4. ASSUME NEW n \in Note, n.type \notin {"online", "offline", "paired"},
               queue'[c] = Append(queue[c], n)
        PROVE  Will(c, w)'
    <3>1. Will(c, Seen(w, n))'
      BY <1>0, <2>1, <2>4, WillAdd
    <3>2. Seen(w, n) = w
      BY <2>4, SeenIs
    <3> QED BY <3>1, <3>2
  <2> QED BY <2>2, <2>3, <2>4
<1> QED BY <1>1, <1>2

LEMMA SoftlyKeeps ==
  ASSUME IInv, SerialInv, Views, [Next]_vars, \A x \in Conns : ~Loud(x)
  PROVE  Views'
<1> SUFFICES ASSUME NEW c \in Conns, Heeds(c)' PROVE Informed(c)'
  BY DEF Views
<1>0. TypeOK /\ Stage(c) /\ Owner[c] \in Devices /\ None \notin Conns
  BY ConstantsTyped, ConstantsOK DEF IInv, SerialInv, EveryStage, ConstantsOK
<1>1. friends' = friends
  BY FriendsWriters DEF Loud
<1>2. CASE Heeds(c)
  <2>1. PICK w \in FriendList : Will(c, w) /\ \A e \in Devices : Claim(c, e, w[e])
    BY <1>2 DEF Views, Informed
  <2>2. Will(c, w)'
    BY <1>2, <2>1, WillKeeps
  <2>3. ASSUME NEW e \in Devices PROVE Claim(c, e, w[e])'
    <3>1. Claim(c, e, w[e])
      BY <2>1
    <3> QED BY <1>1, <3>1, DebtsStay, ClaimKeeps
  <2> QED BY <2>2, <2>3 DEF Informed
<1>3. CASE Insert(c)
  <2>0. PICK w \in FriendList : w = view[c]
    BY <1>0 DEF TypeOK, FriendList
  <2>1. w = Roster(c) /\ queue'[c] = <<>> /\ view'[c] = w
    BY <1>0, <1>3, <2>0 DEF Insert, Goto, Stage, clients
  <2>2. Will(c, w)'
    <3>1. Reads(w, <<>>, w)
      BY ReadsNothing
    <3> QED BY <2>1, <3>1 DEF Will
  <2>3. ASSUME NEW e \in Devices PROVE Claim(c, e, w[e])'
    <3>1. CASE e \notin friends[Owner[c]]
      BY <1>1, <2>1, <3>1 DEF Claim, Roster
    <3>2. CASE e \in friends[Owner[c]] /\ e # Owner[c]
      <4>1. online'[e] = online[e] /\ addr'[e] = addr[e]
        BY <1>0, <1>3, <3>2 DEF Insert, TypeOK
      <4>2. w[e] = Here(e)
        BY <2>1, <3>2 DEF Roster
      <4> QED BY <1>1, <3>2, <4>1, <4>2 DEF Claim, Agrees, Here
    <3>3. CASE e = Owner[c]
      <4>1. Untold(e)'
        BY <1>0, <1>3, <3>3 DEF Untold, Insert, Goto, TypeOK
      <4> QED BY <1>1, <3>1, <4>1 DEF Claim
    <3> QED BY <3>1, <3>2, <3>3
  <2> QED BY <2>2, <2>3 DEF Informed
<1> QED BY <1>2, <1>3, HeedsBefore

-----------------------------------------------------------------------------

(* All friends that are listed are told.                                   *)
LEMMA ToldKeeps ==
  ASSUME IInv, SerialInv, Views, [Next]_vars, NEW x \in Conns, NEW n \in Note,
         phase[x] \in {"announce", "notify", "farewell"},
         phase' = [phase EXCEPT ![x] = IF phase[x] = "farewell" THEN "gone" ELSE "serving"],
         \A y \in Conns \ {x} : job'[y] = job[y],
         Tell(Listed(friends[Owner[x]]), n), Misses(Listed(friends[Owner[x]])),
         UNCHANGED <<roster, friends, open, view>>,
         \A w \in FriendList : /\ Agrees(Owner[x], Seen(w, n)[Owner[x]])
                               /\ \A e \in Devices \ {Owner[x]} : Seen(w, n)[e] = w[e]
  PROVE  Views'
<1> DEFINE d == Owner[x]
<1> SUFFICES ASSUME NEW c \in Conns, Heeds(c)' PROVE Informed(c)'
  BY DEF Views
<1>0. /\ TypeOK /\ Stage(c) /\ Mutual /\ Rightful /\ d \in Devices /\ Owner[c] \in Devices
      /\ None \notin Conns
  BY ConstantsTyped, ConstantsOK DEF IInv, SerialInv, EveryStage, ConstantsOK
<1>1. Heeds(c) /\ phase[c] \in Present
  <2>1. ~Insert(c)
    <3>1. CASE c = x
      BY <3>1 DEF Insert, Goto
    <3>2. CASE c # x
      BY <1>0, <3>2 DEF Insert, Goto, TypeOK
    <3> QED BY <3>1, <3>2
  <2> QED BY <2>1, HeedsBefore
<1>2. PICK w \in FriendList : Will(c, w) /\ \A e \in Devices : Claim(c, e, w[e])
  BY <1>1 DEF Views, Informed
<1>3. online' = online /\ addr' = addr /\ friends' = friends /\ view'[c] = view[c]
  BY DEF roster
<1>4. ASSUME NEW e \in Devices, e # d, NEW s, Claim(c, e, s) PROVE Claim(c, e, s)'
  <2>1. Untold(e) => Untold(e)'
    BY <1>0, <1>4 DEF Untold, TypeOK
  <2>2. ASSUME BeingPaired(c, e) PROVE BeingPaired(c, e)'
    <3>1. PICK y \in Conns :
            \/ y = c /\ phase[y] \in {"lookup", "answer"} /\ job[y].to = e
            \/ Owner[y] = e /\ phase[y] \in {"lookup", "answer", "tell"} /\ job[y].to = Owner[c]
      BY <2>2 DEF BeingPaired
    <3>2. y # x
      BY <3>1
    <3>3. phase'[y] = phase[y] /\ job'[y] = job[y]
      BY <1>0, <3>2 DEF TypeOK
    <3> QED BY <3>1, <3>3 DEF BeingPaired
  <2> HIDE DEF d
  <2> QED BY <1>3, <1>4, <2>1, <2>2, ClaimKeeps
<1>5. CASE d \in friends[Owner[c]]
  <2>1. c \in Listed(friends[d])
    <3>1. Owner[c] \in friends[d]
      BY <1>0, <1>5 DEF Mutual
    <3>2. online[Owner[c]] = c
      BY <1>1 DEF SerialInv, ServedIsListed, Served, Present
    <3> QED BY <1>0, <3>1, <3>2 DEF Listed
  <2>2. open[c]
    BY <1>0, <1>1 DEF Stage, Heeds
  <2>3. Room(c)
    BY <2>1, <2>2 DEF Heeds, Misses
  <2>4. queue'[c] = Append(queue[c], n)
    BY <2>1, <2>3 DEF Tell
  <2>5. PICK u \in FriendList : u = Seen(w, n)
    BY SeenIs
  <2>6. Will(c, u)'
    BY <1>0, <1>2, <1>3, <2>4, <2>5, WillAdd
  <2>7. ASSUME NEW e \in Devices PROVE Claim(c, e, u[e])'
    <3>1. CASE e = d
      BY <1>3, <1>5, <2>5, <3>1 DEF Claim, Agrees
    <3>2. CASE e # d
      BY <1>2, <1>4, <2>5, <3>2
    <3> QED BY <3>1, <3>2
  <2> QED BY <2>6, <2>7 DEF Informed
<1>6. CASE d \notin friends[Owner[c]]
  <2>1. c \notin Listed(friends[d])
    <3>1. ASSUME NEW e \in friends[d], online[e] = c PROVE FALSE
      <4>1. e \in Devices /\ d \in friends[e] /\ Owner[c] = e
        BY <1>0, <3>1 DEF Mutual, Rightful, TypeOK
      <4> QED BY <1>6, <4>1
    <3> QED BY <3>1 DEF Listed
  <2>2. queue'[c] = queue[c]
    BY <2>1 DEF Tell
  <2>3. Will(c, w)'
    BY <1>2, <1>3, <2>2, WillStays
  <2>4. ASSUME NEW e \in Devices PROVE Claim(c, e, w[e])'
    <3>1. CASE e = d
      BY <1>2, <1>3, <1>6, <3>1 DEF Claim
    <3>2. CASE e # d
      BY <1>2, <1>4, <3>2
    <3> QED BY <3>1, <3>2
  <2> QED BY <2>3, <2>4 DEF Informed
<1> QED BY <1>5, <1>6

LEMMA PresenceKeeps ==
  ASSUME IInv, SerialInv, Views, [Next]_vars, NEW x \in Conns,
         Announce(x) \/ Notify(x) \/ Farewell(x)
  PROVE  Views'
<1> DEFINE d == Owner[x]
<1>0. TypeOK /\ Stage(x) /\ d \in Devices /\ cur[x] \in Addrs /\ None \notin Conns
  BY ConstantsTyped, ConstantsOK DEF IInv, SerialInv, EveryStage, ConstantsOK, TypeOK
<1>1. CASE Announce(x) \/ Notify(x)
  <2> DEFINE n == Presence(x)
  <2>1. n \in Note
    BY <1>0, PresenceFits
  <2>2. phase[x] \in {"announce", "notify"}
    BY <1>1 DEF Announce, Notify, Goto
  <2>3. addr[d] = cur[x] /\ online[d] = x
    BY <1>0, <2>2 DEF Stage, Present, Working, SerialInv, ServedIsListed, Served
  <2>4. ASSUME NEW w \in FriendList
        PROVE  /\ Agrees(d, Seen(w, n)[d])
               /\ \A e \in Devices \ {d} : Seen(w, n)[e] = w[e]
    <3>1. Seen(w, n)[d] = cur[x] /\ \A e \in Devices \ {d} : Seen(w, n)[e] = w[e]
      BY <1>0, SeesOnline DEF Presence
    <3>2. online[d] # None
      BY <1>0, <2>3
    <3> QED BY <2>3, <3>1, <3>2 DEF Agrees
  <2>5. /\ Tell(Listed(friends[d]), n) /\ Misses(Listed(friends[d]))
        /\ UNCHANGED <<roster, friends, open, view>>
        /\ phase' = [phase EXCEPT ![x] = "serving"]
        /\ \A y \in Conns \ {x} : job'[y] = job[y]
    BY <1>0, <1>1, <2>2 DEF Announce, Notify, Goto, Stage, clients, TypeOK
  <2> HIDE DEF n
  <2> QED BY <2>1, <2>2, <2>4, <2>5, ToldKeeps
<1>2. CASE Farewell(x)
  <2> DEFINE n == [type |-> "offline", dev |-> d]
  <2>1. n \in Note
    BY <1>0, NotesFit
  <2>2. phase[x] = "farewell"
    BY <1>2 DEF Farewell, Goto
  <2>3. online[d] = None
    BY <1>0, <2>2 DEF Stage
  <2>4. ASSUME NEW w \in FriendList
        PROVE  /\ Agrees(d, Seen(w, n)[d])
               /\ \A e \in Devices \ {d} : Seen(w, n)[e] = w[e]
    <3>1. Seen(w, n)[d] \in {Off, NoFriend} /\ \A e \in Devices \ {d} : Seen(w, n)[e] = w[e]
      BY <1>0, SeesOffline
    <3> QED BY <2>3, <3>1 DEF Agrees
  <2>5. /\ Tell(Listed(friends[d]), n) /\ Misses(Listed(friends[d]))
        /\ UNCHANGED <<roster, friends, open, view>>
        /\ phase' = [phase EXCEPT ![x] = "gone"]
        /\ \A y \in Conns \ {x} : job'[y] = job[y]
    BY <1>0, <1>2 DEF Farewell, Goto, clients
  <2> HIDE DEF n
  <2> QED BY <2>1, <2>2, <2>4, <2>5, ToldKeeps
<1> QED BY <1>1, <1>2

(* Two become friends: neither knows of the other, or both know all.       *)
LEMMA PairKeeps ==
  ASSUME IInv, SerialInv, Views, [Next]_vars, NEW x \in Conns, Pair(x)
  PROVE  Views'
<1> DEFINE d == Owner[x]
           i == job[x].to
<1> SUFFICES ASSUME NEW c \in Conns, Heeds(c)' PROVE Informed(c)'
  BY DEF Views
<1>0. /\ TypeOK /\ d \in Devices /\ i \in Devices /\ phase[x] = "pair"
      /\ phase' = [phase EXCEPT ![x] = "lookup"] /\ job' = job
      /\ online' = online /\ addr' = addr /\ queue' = queue /\ view' = view
  BY ConstantsTyped DEF IInv, Jobs, Pairing, Pair, Goto, channel, roster, clients
<1>1. Heeds(c)
  <2>1. ~Insert(c)
    BY <1>0 DEF Insert, Goto, TypeOK
  <2> QED BY <2>1, HeedsBefore
<1>2. PICK w \in FriendList : Will(c, w) /\ \A e \in Devices : Claim(c, e, w[e])
  BY <1>1 DEF Views, Informed
<1>3. Will(c, w)'
  BY <1>0, <1>2, WillStays
<1>4. \A e, f \in Devices :
        f \in friends'[e] <=> \/ f \in friends[e]
                              \/ e = d /\ f = i
                              \/ e = i /\ f = d
  BY DEF Pair
<1>5. ASSUME NEW e \in Devices PROVE Claim(c, e, w[e])'
  <2>1. Claim(c, e, w[e]) /\ Owner[c] \in Devices
    BY <1>2, ConstantsTyped
  <2>2. Untold(e) => Untold(e)'
    BY <1>0 DEF Untold, TypeOK
  <2>3. BeingPaired(c, e) => BeingPaired(c, e)'
    BY <1>0 DEF BeingPaired, TypeOK
  <2>4. CASE e \in friends[Owner[c]]
    BY <1>0, <1>4, <2>1, <2>2, <2>3, <2>4 DEF Claim, Agrees
  <2>5. CASE e \notin friends[Owner[c]] /\ e \notin friends'[Owner[c]]
    BY <2>1, <2>5 DEF Claim
  <2>6. CASE e \notin friends[Owner[c]] /\ e \in friends'[Owner[c]]
    <3>1. w[e] = NoFriend
      BY <2>1, <2>6 DEF Claim
    <3>2. phase'[x] = "lookup" /\ job'[x].to = i
      BY <1>0 DEF TypeOK
    <3>3. CASE Owner[c] = d /\ e = i
      <4>1. c = x
        <5>1. ~Asleep(c) /\ ~Asleep(x)
          BY <1>0, <1>1 DEF Asleep, Heeds, Present, Working
        <5> QED BY <3>3, <5>1 DEF SerialInv, Alone
      <4>2. BeingPaired(c, e)'
        BY <3>2, <3>3, <4>1 DEF BeingPaired
      <4> QED BY <2>6, <3>1, <4>2 DEF Claim
    <3>4. CASE Owner[c] = i /\ e = d
      <4>1. BeingPaired(c, e)'
        BY <3>2, <3>4 DEF BeingPaired
      <4> QED BY <2>6, <3>1, <4>1 DEF Claim
    <3> QED BY <1>4, <2>1, <2>6, <3>3, <3>4
  <2> QED BY <2>4, <2>5, <2>6
<1> QED BY <1>3, <1>5 DEF Informed

(* While x is between pairing and telling, no other pair is in that state, *)
(* and nobody is to be told anything else.                                 *)
LEMMA OnlyPairing ==
  ASSUME SerialInv, NEW x \in Conns, phase[x] \in {"lookup", "answer", "tell"}
  PROVE  /\ \A y \in Conns \ {x} : phase[y] \notin Debts
         /\ \A e : ~Untold(e)
         /\ \A c \in Conns, e \in Devices : BeingPaired(c, e) =>
              \/ c = x /\ job[x].to = e /\ phase[x] # "tell"
              \/ Owner[x] = e /\ job[x].to = Owner[c]
<1>1. ~Idle(x)
  BY DEF Idle
<1>2. \A y \in Conns \ {x} : phase[y] \notin Debts
  BY <1>1 DEF SerialInv, OneAtATime, Idle, Debts
<1>3. \A e : ~Untold(e)
  BY <1>2 DEF Untold, Debts
<1>4. ASSUME NEW c \in Conns, NEW e \in Devices, BeingPaired(c, e)
      PROVE  \/ c = x /\ job[x].to = e /\ phase[x] # "tell"
             \/ Owner[x] = e /\ job[x].to = Owner[c]
  <2>1. PICK y \in Conns :
          \/ y = c /\ phase[y] \in {"lookup", "answer"} /\ job[y].to = e
          \/ Owner[y] = e /\ phase[y] \in {"lookup", "answer", "tell"} /\ job[y].to = Owner[c]
    BY <1>4 DEF BeingPaired
  <2>2. y = x
    BY <1>2, <2>1 DEF Debts
  <2> QED BY <2>1, <2>2
<1> QED BY <1>2, <1>3, <1>4

LEMMA AnswerKeeps ==
  ASSUME IInv, SerialInv, Views, [Next]_vars, NEW x \in Conns, Answer(x)
  PROVE  Views'
<1> DEFINE i == job[x].to
           s == job[x].standing
           n == IF s = Off THEN [type |-> "pairedOffline"]
                ELSE [type |-> "paired", dev |-> i, addr |-> s]
<1> SUFFICES ASSUME NEW c \in Conns, Heeds(c)' PROVE Informed(c)'
  BY DEF Views
<1>0. /\ TypeOK /\ Stage(c) /\ Stage(x) /\ Owner[x] \in Devices /\ i \in Devices
      /\ s \in Addrs \cup {Off} /\ Off \notin Addrs /\ phase[x] = "answer"
      /\ phase' = [phase EXCEPT ![x] = IF s = Off THEN "serving" ELSE "tell"]
      /\ job' = [job EXCEPT ![x] = IF s = Off THEN NoJob ELSE @]
      /\ online' = online /\ addr' = addr /\ friends' = friends /\ view' = view
      /\ open' = open /\ SendOwn(x, n)
  BY ConstantsTyped, ConstantsOK
     DEF IInv, SerialInv, EveryStage, ConstantsOK, Jobs, Pairing, Answer, channel, roster, clients
<1>1. Heeds(c) /\ phase[c] \in Present
  <2>1. ~Insert(c)
    BY <1>0 DEF Insert, Goto, TypeOK
  <2> QED BY <2>1, HeedsBefore
<1>2. PICK w \in FriendList : Will(c, w) /\ \A e \in Devices : Claim(c, e, w[e])
  BY <1>1 DEF Views, Informed
<1>3. s = Here(i) /\ i \in friends[Owner[x]]
  BY <1>0 DEF Stage
<1>4. IF s = Off THEN online[i] = None ELSE online[i] # None /\ s = addr[i]
  BY <1>0, <1>3 DEF Here, TypeOK
<1> HIDE DEF s, n
<1>5. ASSUME NEW e \in Devices, NEW t, Claim(c, e, t), ~BeingPaired(c, e)
      PROVE  Claim(c, e, t)'
  <2>1. ~Untold(e)
    BY <1>0, OnlyPairing
  <2> QED BY <1>0, <1>5, <2>1 DEF Claim, Agrees
<1>6. CASE c = x
  <2>1. queue'[c] = Append(queue[c], n)
    <3>1. open[c]
      BY <1>0, <1>1 DEF Stage, Heeds
    <3> QED BY <1>0, <1>6, <3>1 DEF SendOwn, Tell
  <2>2. n \in Note
    BY <1>0, NotesFit DEF n
  <2>3. PICK u \in FriendList : u = Seen(w, n)
    BY <2>2, SeenIs
  <2>4. Will(c, u)'
    BY <1>0, <1>2, <2>1, <2>2, <2>3, WillAdd
  <2>5. /\ \A e \in Devices \ {i} : u[e] = w[e]
        /\ u[i] = IF s # Off /\ w[i] = NoFriend THEN s ELSE w[i]
    <3>1. CASE s = Off
      <4>1. u = w
        BY <2>2, <2>3, <3>1, SeenIs DEF n
      <4> QED BY <3>1, <4>1
    <3>2. CASE s # Off
      <4>1. n = [type |-> "paired", dev |-> i, addr |-> s] /\ s \in Addrs
        BY <1>0, <3>2 DEF n
      <4>2. /\ Seen(w, n)[i] = IF w[i] = NoFriend THEN s ELSE w[i]
            /\ \A e \in Devices \ {i} : Seen(w, n)[e] = w[e]
        BY <1>0, <4>1, SeesPaired
      <4> QED BY <2>3, <3>2, <4>2
    <3> QED BY <3>1, <3>2
  <2>6. ASSUME NEW e \in Devices PROVE Claim(c, e, u[e])'
    <3>1. Claim(c, e, w[e]) /\ ~Untold(e)
      BY <1>0, <1>2, OnlyPairing
    <3>2. CASE e = i
      <4>1. Agrees(e, w[e]) \/ w[e] = NoFriend
        BY <1>3, <1>6, <3>1, <3>2 DEF Claim
      <4>2. Agrees(e, u[e])
        BY <1>4, <2>5, <3>2, <4>1 DEF Agrees
      <4> QED BY <1>0, <1>3, <1>6, <3>2, <4>2 DEF Claim, Agrees
    <3>3. CASE e # i
      <4>1. ~BeingPaired(c, e)
        BY <1>0, <1>6, <3>3, OnlyPairing
      <4> QED BY <1>5, <2>5, <3>1, <3>3, <4>1
    <3> QED BY <3>2, <3>3
  <2> QED BY <2>4, <2>6 DEF Informed
<1>7. CASE c # x
  <2>1. queue'[c] = queue[c]
    BY <1>0, <1>7 DEF SendOwn, Tell
  <2>2. Will(c, w)'
    BY <1>0, <1>2, <2>1, WillStays
  <2>3. ASSUME NEW e \in Devices PROVE Claim(c, e, w[e])'
    <3>1. Claim(c, e, w[e]) /\ ~Untold(e)
      BY <1>0, <1>2, OnlyPairing
    <3>2. CASE ~BeingPaired(c, e)
      BY <1>5, <3>1, <3>2
    <3>3. CASE BeingPaired(c, e)
      <4>1. Owner[x] = e /\ i = Owner[c]
        BY <1>0, <1>7, <3>3, OnlyPairing
      <4>2. s # Off
        <5>1. online[Owner[c]] = c
          BY <1>1 DEF SerialInv, ServedIsListed, Served, Present
        <5> QED BY <1>4, <4>1, <5>1, ConstantsOK DEF ConstantsOK
      <4>3. phase'[x] = "tell" /\ job'[x] = job[x]
        BY <1>0, <4>2 DEF TypeOK
      <4>4. BeingPaired(c, e)'
        BY <4>1, <4>3 DEF BeingPaired
      <4> QED BY <1>0, <3>1, <4>4 DEF Claim, Agrees
    <3> QED BY <3>2, <3>3
  <2> QED BY <2>2, <2>3 DEF Informed
<1> QED BY <1>6, <1>7

(* The issuer's channel gets both notes, the first only, or none.          *)
LEMMA NewsArrives ==
  ASSUME IInv, NEW x \in Conns, TellIssuer(x), NEW c \in Conns, NEW p, NEW r,
         p = Presence(x), r = [type |-> "paired", dev |-> Owner[x], addr |-> cur[x]]
  PROVE  /\ p \in Note /\ r \in Note
         /\ \/ queue'[c] = queue[c] /\ (c \notin Listed({job[x].to}) \/ ~open[c] \/ c \in missed')
            \/ /\ c \in Listed({job[x].to})
               /\ \/ queue'[c] = Append(queue[c], p)
                  \/ queue'[c] = Append(Append(queue[c], p), r)
<1> DEFINE T    == Listed({job[x].to})
           news == <<Presence(x), [Presence(x) EXCEPT !.type = "paired"]>>
           fit(y) == IF ~open[y] THEN 0
                     ELSE IF QueueCap - Len(queue[y]) > 2 THEN 2 ELSE QueueCap - Len(queue[y])
           q == queue[c]
           k == fit(c)
           s == SubSeq(news, 1, k)
<1>1. queue' = [y \in Conns |-> IF y \in T THEN queue[y] \o SubSeq(news, 1, fit(y))
                                ELSE queue[y]]
      /\ missed' = missed \cup {y \in T : open[y] /\ fit(y) = 0}
  BY DEF TellIssuer
<1>2. p \in Note /\ r \in Note /\ news[1] = p /\ news[2] = r
  BY PresenceFits DEF IInv, Presence
<1>3. q \in Seq(Note) /\ Len(q) <= QueueCap /\ Len(q) \in Nat /\ QueueCap \in Nat
  BY LenProperties, ConstantsOK DEF IInv, TypeOK, ConstantsOK
<1>4. k \in 0..2
  <2> DEFINE l == Len(q)
  <2>1. (k = 0) \/ (k = 2 /\ QueueCap - l > 2) \/ (k = QueueCap - l /\ ~(QueueCap - l > 2))
    OBVIOUS
  <2>2. l \in Nat /\ l <= QueueCap /\ QueueCap \in Nat
    BY <1>3
  <2> HIDE DEF k, l
  <2> QED BY <2>1, <2>2
<1>5. c \in T => queue'[c] = q \o s
  BY <1>1
<1>6. c \in T /\ k = 0 /\ open[c] => c \in missed'
  BY <1>1
<1>7. c \notin T => queue'[c] = q
  BY <1>1
<1> HIDE DEF k, news, T
<1>8. s \in Seq(Note) /\ Len(s) = k /\ \A i \in 1..k : s[i] = news[i]
  <2>1. \A i \in 1..k : news[i] \in Note
    BY <1>2, <1>4
  <2>2. /\ s \in Seq(Note)
        /\ Len(s) = IF 1 <= k THEN k - 1 + 1 ELSE 0
        /\ \A i \in 1..k - 1 + 1 : s[i] = news[1 + i - 1]
    BY <1>4, <2>1, SubSeqProperties
  <2> QED BY <1>4, <2>2
<1> HIDE DEF s, q
<1>9. /\ q \o s \in Seq(Note) /\ Len(q \o s) = Len(q) + k
      /\ \A i \in 1..Len(q) + k : (q \o s)[i] = IF i <= Len(q) THEN q[i] ELSE s[i - Len(q)]
  BY <1>3, <1>8, ConcatProperties
<1>10. CASE c \in T /\ k = 0
  <2>1. s = <<>>
    BY <1>8, <1>10, EmptySeq
  <2>2. q \o s = q
    BY <1>3, <2>1, ConcatEmptySeq
  <2> QED BY <1>2, <1>5, <1>6, <1>10, <2>2 DEF q
<1>11. CASE c \in T /\ k = 1
  <2> DEFINE t == Append(q, p)
  <2>1. /\ t \in Seq(Note) /\ Len(t) = Len(q) + 1
        /\ \A i \in 1..Len(q) : t[i] = q[i]
        /\ t[Len(q) + 1] = p
    BY <1>2, <1>3, PutElements
  <2> HIDE DEF t
  <2>2. ASSUME NEW i \in 1..Len(q) + 1 PROVE (q \o s)[i] = t[i]
    <3>1. CASE i <= Len(q)
      <4>1. i \in 1..Len(q) /\ i \in 1..Len(q) + k
        BY <1>3, <1>11, <3>1
      <4> QED BY <1>9, <2>1, <3>1, <4>1
    <3>2. CASE ~(i <= Len(q))
      <4>1. i = Len(q) + 1 /\ i - Len(q) = 1 /\ i \in 1..Len(q) + k
        BY <1>3, <1>11, <3>2
      <4> QED BY <1>2, <1>8, <1>9, <1>11, <2>1, <3>2, <4>1
    <3> QED BY <3>1, <3>2
  <2>3. q \o s = t
    BY <1>9, <1>11, <2>1, <2>2, SeqEqual
  <2> QED BY <1>2, <1>5, <1>11, <2>3 DEF t, q, T
<1>12. CASE c \in T /\ k = 2
  <2> DEFINE t == Append(q, p)
             u == Append(t, r)
  <2>1. /\ t \in Seq(Note) /\ Len(t) = Len(q) + 1
        /\ \A i \in 1..Len(q) : t[i] = q[i]
        /\ t[Len(q) + 1] = p
    BY <1>2, <1>3, PutElements
  <2> HIDE DEF t
  <2>2. /\ u \in Seq(Note) /\ Len(u) = Len(t) + 1
        /\ \A i \in 1..Len(t) : u[i] = t[i]
        /\ u[Len(t) + 1] = r
    BY <1>2, <2>1, PutElements
  <2> HIDE DEF u
  <2>3. ASSUME NEW i \in 1..Len(q) + 2 PROVE (q \o s)[i] = u[i]
    <3>0. i \in 1..Len(q) + k
      BY <1>12
    <3>1. CASE i <= Len(q)
      <4>1. i \in 1..Len(q) /\ i \in 1..Len(t)
        BY <1>3, <2>1, <3>1
      <4> QED BY <1>9, <2>1, <2>2, <3>0, <3>1, <4>1
    <3>2. CASE i = Len(q) + 1
      <4>1. ~(i <= Len(q)) /\ i - Len(q) = 1 /\ i \in 1..Len(t)
        BY <1>3, <2>1, <3>2
      <4> QED BY <1>2, <1>8, <1>9, <1>12, <2>1, <2>2, <3>0, <3>2, <4>1
    <3>3. CASE i = Len(q) + 2
      <4>1. ~(i <= Len(q)) /\ i - Len(q) = 2 /\ i = Len(t) + 1
        BY <1>3, <2>1, <3>3
      <4> QED BY <1>2, <1>8, <1>9, <1>12, <2>2, <3>0, <4>1
    <3>4. i <= Len(q) \/ i = Len(q) + 1 \/ i = Len(q) + 2
      BY <1>3
    <3> QED BY <3>1, <3>2, <3>3, <3>4
  <2>4. Len(u) = Len(q) + 2
    BY <1>3, <2>1, <2>2
  <2>5. q \o s = u
    BY <1>9, <1>12, <2>2, <2>3, <2>4, SeqEqual
  <2> QED BY <1>2, <1>5, <1>12, <2>5 DEF t, u, q, T
<1>13. CASE c \notin T
  BY <1>2, <1>7, <1>13 DEF q, T
<1> QED BY <1>4, <1>10, <1>11, <1>12, <1>13

LEMMA IssuerKeeps ==
  ASSUME IInv, SerialInv, Views, [Next]_vars, NEW x \in Conns, TellIssuer(x)
  PROVE  Views'
<1> DEFINE d == Owner[x]
           i == job[x].to
<1> SUFFICES ASSUME NEW c \in Conns, Heeds(c)' PROVE Informed(c)'
  BY DEF Views
<1>0. /\ TypeOK /\ Stage(c) /\ Stage(x) /\ Mutual /\ Rightful
      /\ d \in Devices /\ i \in Devices /\ Owner[c] \in Devices
      /\ cur[x] \in Addrs /\ phase[x] = "tell" /\ None \notin Conns
      /\ phase' = [phase EXCEPT ![x] = "serving"]
      /\ online' = online /\ addr' = addr /\ friends' = friends /\ view' = view
  BY ConstantsTyped, ConstantsOK
     DEF IInv, SerialInv, EveryStage, ConstantsOK, TypeOK, Jobs, Pairing, TellIssuer, Goto,
         roster, clients
<1>1. Heeds(c) /\ phase[c] \in Present
  <2>1. ~Insert(c)
    BY <1>0 DEF Insert, Goto, TypeOK
  <2> QED BY <2>1, HeedsBefore
<1>2. PICK w \in FriendList : Will(c, w) /\ \A e \in Devices : Claim(c, e, w[e])
  BY <1>1 DEF Views, Informed
<1>3. i \in friends[d] /\ addr[d] = cur[x] /\ online[d] = x
  BY <1>0 DEF Stage, Present, Working, SerialInv, ServedIsListed, Served
<1>4. PICK p, r : /\ p = [type |-> "online", dev |-> d, addr |-> cur[x]]
                  /\ r = [type |-> "paired", dev |-> d, addr |-> cur[x]]
  OBVIOUS
<1>5. /\ p \in Note /\ r \in Note
      /\ \/ queue'[c] = queue[c] /\ (c \notin Listed({i}) \/ ~open[c] \/ c \in missed')
         \/ /\ c \in Listed({i})
            /\ \/ queue'[c] = Append(queue[c], p)
               \/ queue'[c] = Append(Append(queue[c], p), r)
  BY <1>4, NewsArrives DEF Presence
<1>6. open[c] /\ c \notin missed' /\ online[Owner[c]] = c
  BY <1>0, <1>1 DEF Stage, Heeds, SerialInv, ServedIsListed, Served, Present
<1>7. c \in Listed({i}) <=> Owner[c] = i
  <2>1. c \in Listed({i}) => Owner[c] = i
    BY <1>0 DEF Listed, Rightful
  <2>2. Owner[c] = i => c \in Listed({i})
    BY <1>0, <1>6 DEF Listed
  <2> QED BY <2>1, <2>2
<1>8. ASSUME NEW e \in Devices, Owner[c] # i \/ e # d PROVE Claim(c, e, w[e])'
  <2>1. Claim(c, e, w[e]) /\ ~Untold(e) /\ ~BeingPaired(c, e)
    BY <1>0, <1>2, <1>8, OnlyPairing
  <2> QED BY <1>0, <2>1 DEF Claim, Agrees
<1>9. CASE Owner[c] # i
  <2>1. queue'[c] = queue[c]
    BY <1>5, <1>7, <1>9
  <2>2. Will(c, w)'
    BY <1>0, <1>2, <2>1, WillStays
  <2> QED BY <1>8, <1>9, <2>2 DEF Informed
<1>10. CASE Owner[c] = i
  <2>1. queue[c] \in Seq(Note) /\ Reads(view[c], queue[c], w)
    BY <1>0, <1>2 DEF TypeOK, Will
  <2>2. PICK u \in FriendList : u = Seen(w, p)
    BY <1>5, SeenIs
  <2>3. Reads(view[c], Append(queue[c], p), u)
    BY <1>5, <2>1, <2>2, ReadsOneMore
  <2>4. u[d] = cur[x] /\ \A e \in Devices \ {d} : u[e] = w[e]
    BY <1>0, <1>4, <2>2, SeesOnline
  <2>5. PICK v \in FriendList : v = Seen(u, r)
    BY <1>5, SeenIs
  <2>6. Reads(view[c], Append(Append(queue[c], p), r), v)
    <3>1. Append(queue[c], p) \in Seq(Note)
      BY <1>5, <2>1, PutElements
    <3> QED BY <1>5, <2>3, <2>5, <3>1, ReadsOneMore
  <2>7. v[d] = cur[x] /\ \A e \in Devices \ {d} : v[e] = w[e]
    <3>1. /\ v[d] = IF u[d] = NoFriend THEN cur[x] ELSE u[d]
          /\ \A e \in Devices \ {d} : v[e] = u[e]
      BY <1>0, <1>4, <2>5, SeesPaired
    <3> QED BY <2>4, <3>1
  <2>8. PICK t \in {u, v} : Will(c, t)'
    BY <1>0, <1>5, <1>6, <1>7, <1>10, <2>3, <2>6 DEF Will
  <2>9. ASSUME NEW e \in Devices PROVE Claim(c, e, t[e])'
    <3>1. CASE e = d
      <4>1. t[d] = cur[x] /\ online[d] # None
        BY <1>0, <1>3, <2>4, <2>7
      <4>2. e \in friends[Owner[c]]
        BY <1>0, <1>3, <1>10, <3>1 DEF Mutual
      <4> QED BY <1>0, <1>3, <3>1, <4>1, <4>2 DEF Claim, Agrees
    <3>2. CASE e # d
      <4>1. t[e] = w[e]
        BY <2>4, <2>7, <3>2
      <4> QED BY <1>8, <3>2, <4>1
    <3> QED BY <3>1, <3>2
  <2> QED BY <2>8, <2>9 DEF Informed
<1> QED BY <1>9, <1>10

LEMMA ViewsKeep ==
  ASSUME IInv, SerialInv, Views, [Next]_vars
  PROVE  Views'
<1>1. ASSUME NEW x \in Conns, Loud(x) PROVE Views'
  BY <1>1, PresenceKeeps, PairKeeps, AnswerKeeps, IssuerKeeps DEF Loud
<1> QED BY <1>1, SoftlyKeeps

LEMMA ViewsDone ==
  ASSUME IInv, SerialInv, Views
  PROVE  ViewsAgree
<1> SUFFICES ASSUME Calm, \A c \in Conns : queue[c] = <<>>,
                    NEW d \in Devices, NEW c, c = online[d], c # None,
                    c \notin missed, ~broken[c], NEW e \in friends[d]
             PROVE  Agrees(e, view[c][e])
  BY DEF ViewsAgree, Agrees
<1>1. TypeOK /\ c \in Conns /\ e \in Devices
  BY DEF IInv, TypeOK
<1>2. Owner[c] = d /\ phase[c] \in Present
  BY <1>1 DEF IInv, Rightful, NoGhosts, Calm, Idle, Present, Working, Leaving
<1>3. PICK w \in FriendList : Will(c, w) /\ \A f \in Devices : Claim(c, f, w[f])
  BY <1>1, <1>2 DEF Views, Informed, Heeds
<1>4. view[c] = w
  <2>1. view[c] \in FriendList
    BY <1>1 DEF TypeOK, FriendList
  <2> QED BY <1>1, <1>3, <2>1, ReadsNothing DEF Will
<1>5. ~Untold(e) /\ ~BeingPaired(c, e)
  BY <1>1 DEF Calm, Idle, Untold, BeingPaired
<1> QED BY <1>1, <1>2, <1>3, <1>4, <1>5 DEF Claim

(* The snapshot of registration, the online and offline notes and the two  *)
(* answers of a pairing reach a client through one channel, written by     *)
(* other handlers: once nothing is under way and the channel is empty, the *)
(* client lists each friend as the server does, unless a note was lost.    *)
(* Most steps of an operation leave some client out of date; the operation *)
(* settles that before it ends, if no other runs meanwhile and no device   *)
(* has a second connection.                                                *)
THEOREM FriendsAgree ==
  ASSUME ~Overlap, ~Reconnect
  PROVE  Spec => []ViewsAgree
<1>1. Init => SerialInv /\ Views
  <2> SUFFICES ASSUME Init PROVE SerialInv /\ Views
    OBVIOUS
  <2> USE DEF Init
  <2>1. Alone /\ ServedIsListed
    BY DEF Alone, Asleep, ServedIsListed, Served, Working
  <2>2. OneAtATime
    BY DEF OneAtATime, Idle
  <2>3. EveryStage
    BY DEF EveryStage, Stage, Present, Working
  <2>4. Views
    BY DEF Views, Heeds, Present, Working
  <2> QED BY <2>1, <2>2, <2>3, <2>4 DEF SerialInv
<1>2. IInv /\ SerialInv /\ Views /\ [Next]_vars => (SerialInv /\ Views)'
  BY AloneKeeps, OneAtATimeKeeps, StagesKeep, ViewsKeep DEF SerialInv
<1>3. IInv /\ SerialInv /\ Views => ViewsAgree
  BY ViewsDone
<1> QED
  BY <1>1, <1>2, <1>3, Inductive, PTL DEF Spec

-----------------------------------------------------------------------------
(***************************************************************************)
(* SignalAdmission.                                                        *)
(***************************************************************************)
(* The same count in the next state.                                       *)
After(D, P) == Cardinality({c \in D : stage'[c] \in P})

(* One connection moves to stage q: what this does to the number of those  *)
(* of a set D that are at a stage of P.                                    *)
Moves(c, q)    == stage' = [stage EXCEPT ![c] = q]
Delta(c, q, P) == (IF q \in P THEN 1 ELSE 0) - (IF stage[c] \in P THEN 1 ELSE 0)
Change(D, c, q, P) == IF c \in D THEN Delta(c, q, P) ELSE 0

LEMMA OneMoves ==
  ASSUME stage \in [Streams -> Stages], NEW c \in Streams, NEW q \in Stages,
         Moves(c, q), NEW D \in SUBSET Streams, NEW P
  PROVE  /\ Among(D, P) \in Nat /\ After(D, P) \in Nat
         /\ After(D, P) = Among(D, P) + Change(D, c, q, P)
<1> DEFINE A == {x \in D : stage[x] \in P}
           B == {x \in D : stage'[x] \in P}
<1>1. IsFiniteSet(D)
  BY AdmissionConstantsOK, FS_Subset DEF AdmissionConstantsOK
<1>2. IsFiniteSet(A) /\ IsFiniteSet(B)
  BY <1>1, FS_Subset
<1>3. Among(D, P) = Cardinality(A) /\ After(D, P) = Cardinality(B)
  BY DEF Among, After
<1>4. Among(D, P) \in Nat /\ After(D, P) \in Nat
  BY <1>2, <1>3, FS_CardinalityType
<1>5. ASSUME c \notin D \/ (stage[c] \in P <=> q \in P) PROVE B = A
  BY <1>5 DEF Moves
<1>6. ASSUME c \in D, stage[c] \notin P, q \in P PROVE B = A \cup {c} /\ c \notin A
  BY <1>6 DEF Moves
<1>7. ASSUME c \in D, stage[c] \in P, q \notin P PROVE B = A \ {c} /\ c \in A
  BY <1>7 DEF Moves
<1>8. /\ Cardinality(A \cup {c}) = IF c \in A THEN Cardinality(A) ELSE Cardinality(A) + 1
      /\ Cardinality(A \ {c}) = IF c \in A THEN Cardinality(A) - 1 ELSE Cardinality(A)
  BY <1>2, FS_AddElement, FS_RemoveElement
<1> QED
  <2>1. Cardinality(A) \in Nat
    BY <1>3, <1>4
  <2>2. CASE c \notin D \/ (stage[c] \in P <=> q \in P)
    <3>1. Change(D, c, q, P) = 0
      BY <2>2 DEF Change, Delta
    <3> QED
      BY <3>1, <2>1, <2>2, <1>3, <1>4, <1>5
  <2>3. CASE c \in D /\ stage[c] \notin P /\ q \in P
    <3>1. Change(D, c, q, P) = 1
      BY <2>3 DEF Change, Delta
    <3> QED
      BY <3>1, <2>1, <2>3, <1>3, <1>4, <1>6, <1>8
  <2>4. CASE c \in D /\ stage[c] \in P /\ q \notin P
    <3>1. Change(D, c, q, P) = -1
      BY <2>4 DEF Change, Delta
    <3> QED
      BY <3>1, <2>1, <2>4, <1>3, <1>4, <1>7, <1>8
  <2> QED
    BY <2>2, <2>3, <2>4

-----------------------------------------------------------------------------
(* The counters stay within the limits at admission, and what is counted   *)
(* beyond a limit is on its way out: this is what makes WithinLimits       *)
(* inductive.                                                              *)
Admitted ==
  /\ Among(Streams, {"counted", "served"}) <= MaxTotal
  /\ \A i \in Ips : perIp[i] <= MaxPerIp

CountersInv == AdmissionTypeOK /\ CountsExact /\ Admitted

LEMMA CountersStart == AdmissionInit => CountersInv
<1> SUFFICES ASSUME AdmissionInit PROVE CountersInv
  OBVIOUS
<1>1. AdmissionTypeOK
  BY DEF AdmissionInit, AdmissionTypeOK, Stages
<1>2. \A D \in SUBSET Streams : \A P : "none" \notin P => Among(D, P) = 0
  <2> SUFFICES ASSUME NEW D \in SUBSET Streams, NEW P, "none" \notin P
               PROVE  Among(D, P) = 0
    OBVIOUS
  <2>1. {c \in D : stage[c] \in P} = {}
    BY DEF AdmissionInit
  <2> QED
    BY <2>1, FS_EmptySet DEF Among
<1>3. \A i \in Ips : From(i) \in SUBSET Streams
  BY DEF From
<1>4. CountsExact /\ Admitted
  BY <1>2, <1>3, AdmissionConstantsOK DEF CountsExact, Admitted, AdmissionInit, AdmissionConstantsOK
<1> QED
  BY <1>1, <1>4 DEF CountersInv

-----------------------------------------------------------------------------
(* What a move of one connection means for the three counts.               *)
Counting == {"counted", "refuse", "served"}
Passing  == {"counted", "served"}
Listing  == {"served", "discounted"}

LEMMA CountsMove ==
  ASSUME CountersInv, NEW c \in Streams, NEW q \in Stages, Moves(c, q)
  PROVE  /\ stage' \in [Streams -> Stages]
         /\ After(Streams, Counting) = total + Delta(c, q, Counting)
         /\ After(Streams, Counting) \in Nat
         /\ After(Streams, Passing) = Among(Streams, Passing) + Delta(c, q, Passing)
         /\ Among(Streams, Passing) \in Nat
         /\ Among(Streams, Passing) <= total
         /\ \A i \in Ips : /\ After(From(i), Listing) \in Nat
                            /\ After(From(i), Listing) =
                                 IF i = Ip[c] THEN perIp[i] + Delta(c, q, Listing) ELSE perIp[i]
<1>1. stage \in [Streams -> Stages] /\ stage' \in [Streams -> Stages]
  BY DEF CountersInv, AdmissionTypeOK, Moves
<1>2. ASSUME NEW D \in SUBSET Streams, NEW P
      PROVE  /\ Among(D, P) \in Nat /\ After(D, P) \in Nat
             /\ After(D, P) = Among(D, P) + Change(D, c, q, P)
  BY <1>1, OneMoves
<1>3. \A i \in Ips : From(i) \in SUBSET Streams /\ (c \in From(i) <=> i = Ip[c])
  BY DEF From
<1>4. /\ total = Among(Streams, Counting)
      /\ \A i \in Ips : perIp[i] = Among(From(i), Listing) /\ perIp[i] \in Nat
  BY DEF CountersInv, AdmissionTypeOK, CountsExact, Counting, Listing
<1>5. Among(Streams, Passing) <= Among(Streams, Counting)
  <2>1. IsFiniteSet({x \in Streams : stage[x] \in Counting})
    BY AdmissionConstantsOK, FS_Subset DEF AdmissionConstantsOK
  <2>2. {x \in Streams : stage[x] \in Passing} \subseteq {x \in Streams : stage[x] \in Counting}
    BY DEF Passing, Counting
  <2> QED
    BY <2>1, <2>2, FS_Subset DEF Among
<1>6. ASSUME NEW i \in Ips
      PROVE  /\ After(From(i), Listing) \in Nat
             /\ After(From(i), Listing) =
                  IF i = Ip[c] THEN perIp[i] + Delta(c, q, Listing) ELSE perIp[i]
  <2>1. /\ After(From(i), Listing) \in Nat
        /\ After(From(i), Listing) = Among(From(i), Listing)
             + Change(From(i), c, q, Listing)
    BY <1>2, <1>3
  <2> QED
    BY <2>1, <1>3, <1>4 DEF Change, Delta
<1>7. /\ Among(Streams, Passing) \in Nat
      /\ After(Streams, Counting) \in Nat
      /\ After(Streams, Counting) = Among(Streams, Counting) + Change(Streams, c, q, Counting)
      /\ After(Streams, Passing) = Among(Streams, Passing) + Change(Streams, c, q, Passing)
  BY <1>2
<1>8. Change(Streams, c, q, Counting) = Delta(c, q, Counting)
      /\ Change(Streams, c, q, Passing) = Delta(c, q, Passing)
  BY DEF Change
<1> QED
  BY <1>1, <1>4, <1>5, <1>6, <1>7, <1>8

(* The counts in the next state are those of CountersInv'.                        *)
LEMMA Establish ==
  ASSUME stage' \in [Streams -> Stages], total' \in Nat, perIp' \in [Ips -> Nat],
         total' = After(Streams, Counting), After(Streams, Passing) <= MaxTotal,
         \A i \in Ips : perIp'[i] = After(From(i), Listing) /\ perIp'[i] <= MaxPerIp
  PROVE  CountersInv'
<1>1. /\ After(Streams, Counting) = Among(Streams, {"counted", "refuse", "served"})'
      /\ After(Streams, Passing) = Among(Streams, {"counted", "served"})'
  BY DEF After, Among, Counting, Passing
<1>2. \A i \in Ips : After(From(i), Listing) = Among(From(i), {"served", "discounted"})'
  BY DEF After, Among, Listing, From
<1> QED
  BY <1>1, <1>2 DEF CountersInv, AdmissionTypeOK, CountsExact, Admitted

-----------------------------------------------------------------------------
(* One lemma per action: the counters follow the connection.               *)
LEMMA CountStep ==
  ASSUME CountersInv, NEW c \in Streams, Count(c) PROVE CountersInv'
<1>1. /\ stage[c] = "none"
      /\ total' = total + 1 /\ perIp' = perIp
      /\ total \in Nat /\ perIp \in [Ips -> Nat]
      /\ MaxTotal \in Nat
      /\ \A i \in Ips : perIp[i] <= MaxPerIp
      /\ Among(Streams, Passing) <= MaxTotal
  BY AdmissionConstantsOK DEF Count, GoesOn, Moves, CountersInv, AdmissionTypeOK, Admitted, AdmissionConstantsOK, Passing
<1>2. PICK q \in {"refuse", "counted"} :
        /\ Moves(c, q)
        /\ q = "counted" => total < MaxTotal
  <2>1. CASE total >= MaxTotal
    BY <2>1 DEF Count, GoesOn, Moves
  <2>2. CASE ~(total >= MaxTotal)
    BY <1>1, <2>2 DEF Count, GoesOn, Moves
  <2> QED
    BY <2>1, <2>2
<1>3. q \in Stages
  BY DEF Stages
<1>4. /\ Delta(c, q, Counting) = 1
      /\ Delta(c, q, Passing) = IF q = "counted" THEN 1 ELSE 0
      /\ Delta(c, q, Listing) = 0
  BY <1>1 DEF Delta, Counting, Passing, Listing
<1>5. /\ stage' \in [Streams -> Stages]
      /\ After(Streams, Counting) = total + 1
      /\ After(Streams, Passing) <= MaxTotal
      /\ \A i \in Ips : After(From(i), Listing) = perIp[i]
  BY <1>1, <1>2, <1>3, <1>4, CountsMove
<1> QED
  BY <1>1, <1>5, Establish

LEMMA RefuseStep ==
  ASSUME CountersInv, NEW c \in Streams, Refuse(c) PROVE CountersInv'
<1>1. /\ stage[c] = "refuse" /\ Moves(c, "gone")
      /\ total' = total - 1 /\ perIp' = perIp
      /\ total \in Nat /\ perIp \in [Ips -> Nat]
      /\ MaxTotal \in Nat
      /\ \A i \in Ips : perIp[i] <= MaxPerIp
      /\ Among(Streams, Passing) <= MaxTotal
  BY AdmissionConstantsOK DEF Refuse, GoesOn, Moves, CountersInv, AdmissionTypeOK, Admitted, AdmissionConstantsOK, Passing
<1>2. /\ Delta(c, "gone", Counting) = -1
      /\ Delta(c, "gone", Passing) = 0
      /\ Delta(c, "gone", Listing) = 0
  BY <1>1 DEF Delta, Counting, Passing, Listing
<1>3. /\ stage' \in [Streams -> Stages]
      /\ After(Streams, Counting) = total - 1
      /\ After(Streams, Counting) \in Nat
      /\ After(Streams, Passing) <= MaxTotal
      /\ \A i \in Ips : After(From(i), Listing) = perIp[i]
  BY <1>1, <1>2, CountsMove DEF Stages
<1> QED
  BY <1>1, <1>3, Establish

LEMMA DiscountStep ==
  ASSUME CountersInv, NEW c \in Streams, Discount(c) PROVE CountersInv'
<1>1. /\ stage[c] = "served" /\ Moves(c, "discounted")
      /\ total' = total - 1 /\ perIp' = perIp
      /\ total \in Nat /\ perIp \in [Ips -> Nat]
      /\ MaxTotal \in Nat
      /\ \A i \in Ips : perIp[i] <= MaxPerIp
      /\ Among(Streams, Passing) <= MaxTotal
  BY AdmissionConstantsOK DEF Discount, GoesOn, Moves, CountersInv, AdmissionTypeOK, Admitted, AdmissionConstantsOK, Passing
<1>2. /\ Delta(c, "discounted", Counting) = -1
      /\ Delta(c, "discounted", Passing) = -1
      /\ Delta(c, "discounted", Listing) = 0
  BY <1>1 DEF Delta, Counting, Passing, Listing
<1>3. /\ stage' \in [Streams -> Stages]
      /\ After(Streams, Counting) = total - 1
      /\ After(Streams, Counting) \in Nat
      /\ After(Streams, Passing) <= MaxTotal
      /\ \A i \in Ips : After(From(i), Listing) = perIp[i]
  BY <1>1, <1>2, CountsMove DEF Stages
<1> QED
  BY <1>1, <1>3, Establish

LEMMA DiscountIpStep ==
  ASSUME CountersInv, NEW c \in Streams, DiscountIp(c) PROVE CountersInv'
<1>1. /\ stage[c] = "discounted" /\ Moves(c, "gone")
      /\ total' = total
      /\ perIp' = [perIp EXCEPT ![Ip[c]] = IF @ = 0 THEN 0 ELSE @ - 1]
      /\ total \in Nat /\ perIp \in [Ips -> Nat] /\ Ip[c] \in Ips
      /\ MaxTotal \in Nat /\ MaxPerIp \in Nat
      /\ \A i \in Ips : perIp[i] <= MaxPerIp
      /\ Among(Streams, Passing) <= MaxTotal
  BY AdmissionConstantsOK DEF DiscountIp, GoesOn, Moves, CountersInv, AdmissionTypeOK, Admitted, AdmissionConstantsOK, Passing
<1>2. /\ Delta(c, "gone", Counting) = 0
      /\ Delta(c, "gone", Passing) = 0
      /\ Delta(c, "gone", Listing) = -1
  BY <1>1 DEF Delta, Counting, Passing, Listing
<1>3. /\ stage' \in [Streams -> Stages]
      /\ After(Streams, Counting) = total
      /\ After(Streams, Passing) <= MaxTotal
      /\ \A i \in Ips : /\ After(From(i), Listing) \in Nat
                         /\ After(From(i), Listing) =
                              IF i = Ip[c] THEN perIp[i] - 1 ELSE perIp[i]
  BY <1>1, <1>2, CountsMove DEF Stages
<1>4. /\ perIp' \in [Ips -> Nat]
      /\ \A i \in Ips : perIp'[i] = After(From(i), Listing) /\ perIp'[i] <= MaxPerIp
  <2>1. perIp[Ip[c]] # 0
    BY <1>1, <1>3
  <2> QED
    BY <1>1, <1>3, <2>1
<1> QED
  BY <1>1, <1>3, <1>4, Establish

LEMMA CountIpStep ==
  ASSUME CountersInv, NEW c \in Streams, CountIp(c) PROVE CountersInv'
<1> DEFINE full == perIp[Ip[c]] >= MaxPerIp
<1>1. /\ stage[c] = "counted" /\ total' = total
      /\ Moves(c, IF full THEN "refuse" ELSE "served")
      /\ perIp' = IF full THEN perIp ELSE [perIp EXCEPT ![Ip[c]] = @ + 1]
      /\ total \in Nat /\ perIp \in [Ips -> Nat] /\ Ip[c] \in Ips
      /\ MaxTotal \in Nat /\ MaxPerIp \in Nat
      /\ \A i \in Ips : perIp[i] <= MaxPerIp
      /\ Among(Streams, Passing) <= MaxTotal
  BY AdmissionConstantsOK DEF CountIp, GoesOn, Moves, CountersInv, AdmissionTypeOK, Admitted, AdmissionConstantsOK, Passing
<1>2. CASE full
  <2>1. /\ Delta(c, "refuse", Counting) = 0
        /\ Delta(c, "refuse", Passing) = -1
        /\ Delta(c, "refuse", Listing) = 0
    BY <1>1 DEF Delta, Counting, Passing, Listing
  <2>2. /\ stage' \in [Streams -> Stages]
        /\ After(Streams, Counting) = total
        /\ After(Streams, Passing) <= MaxTotal
        /\ \A i \in Ips : After(From(i), Listing) = perIp[i]
    BY <1>1, <1>2, <2>1, CountsMove DEF Stages
  <2> QED
    BY <1>1, <1>2, <2>2, Establish
<1>3. CASE ~full
  <2>1. /\ Delta(c, "served", Counting) = 0
        /\ Delta(c, "served", Passing) = 0
        /\ Delta(c, "served", Listing) = 1
    BY <1>1 DEF Delta, Counting, Passing, Listing
  <2>2. /\ stage' \in [Streams -> Stages]
        /\ After(Streams, Counting) = total
        /\ After(Streams, Passing) <= MaxTotal
        /\ \A i \in Ips : After(From(i), Listing) =
             IF i = Ip[c] THEN perIp[i] + 1 ELSE perIp[i]
    BY <1>1, <1>3, <2>1, CountsMove DEF Stages
  <2>3. /\ perIp' \in [Ips -> Nat]
        /\ \A i \in Ips : perIp'[i] = After(From(i), Listing) /\ perIp'[i] <= MaxPerIp
    BY <1>1, <1>3, <2>2
  <2> QED
    BY <1>1, <2>2, <2>3, Establish
<1> QED
  BY <1>2, <1>3

-----------------------------------------------------------------------------
(* The invariant is inductive.                                             *)
LEMMA CountersStep == CountersInv /\ [AdmissionNext]_admissionVars => CountersInv'
<1> SUFFICES ASSUME CountersInv, [AdmissionNext]_admissionVars PROVE CountersInv'
  OBVIOUS
<1>1. ASSUME NEW c \in Streams, Count(c) PROVE CountersInv'
  BY <1>1, CountStep
<1>2. ASSUME NEW c \in Streams, Refuse(c) PROVE CountersInv'
  BY <1>2, RefuseStep
<1>3. ASSUME NEW c \in Streams, CountIp(c) PROVE CountersInv'
  BY <1>3, CountIpStep
<1>4. ASSUME NEW c \in Streams, Discount(c) PROVE CountersInv'
  BY <1>4, DiscountStep
<1>5. ASSUME NEW c \in Streams, DiscountIp(c) PROVE CountersInv'
  BY <1>5, DiscountIpStep
<1>6. CASE UNCHANGED admissionVars
  BY <1>6 DEF admissionVars, CountersInv, AdmissionTypeOK, CountsExact, Admitted, Among
<1> QED
  BY <1>1, <1>2, <1>3, <1>4, <1>5, <1>6 DEF AdmissionNext, AllLeft

THEOREM Admission == AdmissionSpec => []CountersInv
<1> QED
  BY CountersStart, CountersStep, PTL DEF AdmissionSpec

(* The counters of handle_connection stay unsigned, exact for every        *)
(* interleaving of admissions, refusals and departures.                    *)
THEOREM CountersSound == AdmissionSpec => [](AdmissionTypeOK /\ CountsExact)
<1>1. CountersInv => AdmissionTypeOK /\ CountsExact
  BY DEF CountersInv
<1> QED
  BY <1>1, Admission, PTL

(* max_connections and max_connections_per_ip bound the connections that   *)
(* are served.                                                             *)
THEOREM LimitsHold == AdmissionSpec => []WithinLimits
<1>1. CountersInv => WithinLimits
  <2> SUFFICES ASSUME CountersInv PROVE WithinLimits
    OBVIOUS
  <2>1. ASSUME NEW D \in SUBSET Streams, NEW P, NEW Q, P \subseteq Q
        PROVE  /\ Among(D, P) <= Among(D, Q)
               /\ Among(D, P) \in Nat /\ Among(D, Q) \in Nat
    <3>1. IsFiniteSet(D)
      BY AdmissionConstantsOK, FS_Subset DEF AdmissionConstantsOK
    <3>2. /\ IsFiniteSet({x \in D : stage[x] \in Q})
          /\ IsFiniteSet({x \in D : stage[x] \in P})
      BY <3>1, FS_Subset
    <3>3. {x \in D : stage[x] \in P} \subseteq {x \in D : stage[x] \in Q}
      BY <2>1
    <3> QED
      BY <3>2, <3>3, FS_Subset, FS_CardinalityType DEF Among
  <2>2. /\ Among(Streams, {"served"}) <= Among(Streams, {"counted", "served"})
        /\ Among(Streams, {"served"}) \in Nat /\ Among(Streams, {"counted", "served"}) \in Nat
    BY <2>1
  <2>3. ASSUME NEW i \in Ips PROVE Among(From(i), {"served"}) <= MaxPerIp
    <3>1. From(i) \in SUBSET Streams
      BY DEF From
    <3>2. /\ Among(From(i), {"served"}) <= Among(From(i), {"served", "discounted"})
          /\ Among(From(i), {"served"}) \in Nat
          /\ Among(From(i), {"served", "discounted"}) \in Nat
      BY <2>1, <3>1
    <3>3. perIp[i] = Among(From(i), {"served", "discounted"}) /\ perIp[i] <= MaxPerIp
      BY DEF CountersInv, CountsExact, Admitted
    <3> QED
      BY <3>2, <3>3, AdmissionConstantsOK DEF AdmissionConstantsOK
  <2> QED
    BY <2>2, <2>3, AdmissionConstantsOK DEF CountersInv, Admitted, WithinLimits, AdmissionConstantsOK
<1> QED
  BY <1>1, Admission, PTL
=============================================================================
