---------------------------- MODULE MessageStore ----------------------------
(***************************************************************************)
(* The conversations of MessageStore: one <peer>.jsonl each, written under *)
(* a lock of the peer, older <peer>.json files turned into these, and      *)
(* counts.json, the number of messages of every peer, from which the next  *)
(* local_seq is taken.  set_count writes counts.json under count_lock;     *)
(* get_all_counts fills in what is missing and writes it under no lock.    *)
(*                                                                         *)
(* A file is written in two steps, truncate and write.  The names of this  *)
(* module differ from those of ShareStore, which is checked with it.       *)
(***************************************************************************)
EXTENDS Naturals, Sequences, FiniteSets

CONSTANTS
  Peers,
  Legacy,    \* messages in <peer>.json, 0 where there is none
  Counts,    \* "counts": the file name of counts.json, read as a peer's
  NoFile,    \* no <peer>.jsonl
  NoIndex,   \* no counts.json
  Torn,      \* an empty counts.json
  Corrupt,   \* a counts.json that does not parse
  Nobody,
  MaxCalls,  \* bound: save_message and load_conversation_delta calls
  MaxStops   \* bound: times the program stops

ASSUME MessagesConstantsOK ==
  /\ Legacy \in [Peers -> Nat] /\ Counts \notin Peers /\ Nobody \notin Peers
  /\ NoFile \notin Seq([seq : Nat, glued : BOOLEAN])
  /\ MaxCalls \in Nat /\ MaxStops \in Nat

VARIABLES
  file,    \* <peer>.jsonl: the messages in it
  half,    \* conversations whose last line has no newline yet
  index,   \* counts.json
  op,      \* the call that holds the lock of the peer
  count_lock,
  counting,  \* get_all_counts
  cursor,  \* next_cursor, as the reader of the conversation has it
  shown,   \* messages the reader has got
  calls, stops,
  hurt     \* history: conversations whose count was overwritten by an older
           \* one, or whose writer was stopped

messageVars == <<file, half, index, op, count_lock, counting, cursor, shown,
                 calls, stops, hurt>>

Keys   == Peers \cup {Counts}
Most   == MaxCalls + (CHOOSE n \in {Legacy[p] : p \in Peers} :
                        \A p \in Peers : Legacy[p] <= n)
EmptyMap == [k \in {} |-> 0]
Put(map, k, n) == [x \in DOMAIN map \cup {k} |-> IF x = k THEN n ELSE map[x]]

Idle     == [pc |-> "idle", does |-> "none", then |-> "idle", n |-> 0,
             map |-> EmptyMap]
NotCounting == [pc |-> "idle", map |-> EmptyMap, left |-> {}, changed |-> FALSE]

MessagesTypeOK ==
  /\ \A p \in Peers : file[p] # NoFile =>
        \A i \in DOMAIN file[p] : file[p][i] \in [seq : 1..Most, glued : BOOLEAN]
  /\ half \subseteq Peers
  /\ \/ index \in {NoIndex, Torn, Corrupt}
     \/ DOMAIN index \subseteq Keys /\ \A k \in DOMAIN index : index[k] \in 0..Most
  /\ \A p \in Peers :
       /\ op[p].pc \in {"idle", "ensure", "migrating", "ensured", "append",
                        "line", "want", "have", "open", "reading"}
       /\ op[p].does \in {"none", "save", "read"}
       /\ op[p].n \in 0..Most
  /\ count_lock \in Peers \cup {Nobody}
  /\ counting.pc \in {"idle", "scan", "open"} /\ counting.left \subseteq Keys
  /\ cursor \in [Peers -> 0..Most] /\ shown \in [Peers -> Nat]
  /\ calls \in 0..MaxCalls /\ stops \in 0..MaxStops
  /\ hurt \subseteq Peers

Messages(p) == IF file[p] = NoFile THEN <<>> ELSE file[p]

(* The lines of a conversation; a message appended to a line without       *)
(* newline is on that line.                                                *)
Lines(p) == Cardinality({i \in DOMAIN Messages(p) : ~Messages(p)[i].glued})

(* What read_count_index makes of a file that is not Corrupt.              *)
Parsed == IF index \in {NoIndex, Torn} THEN EmptyMap ELSE index

(* fs::write of map by a writer that has truncated the file: a longer text *)
(* written by another since then shows at the end.  Counts have one digit. *)
Overwrites(map) ==
  index' = IF \/ index \in {NoIndex, Torn}
              \/ index # Corrupt
                 /\ Cardinality(DOMAIN map) >= Cardinality(DOMAIN index)
           THEN map ELSE Corrupt

Becomes(p, pc) == op' = [op EXCEPT ![p].pc = pc]

-----------------------------------------------------------------------------
(* save_message and load_conversation_delta: the lock of the peer, then    *)
(* ensure_jsonl_conversation.                                              *)
LockFree(p) == op[p] = Idle

Call(p, does) ==
  /\ LockFree(p) /\ calls < MaxCalls /\ calls' = calls + 1
  /\ op' = [op EXCEPT ![p] = [Idle EXCEPT !.pc = "ensure", !.does = does]]
  /\ UNCHANGED <<file, half, index, count_lock, counting, cursor, shown,
                 stops, hurt>>

Ensure(p) ==
  /\ op[p].pc = "ensure"
  /\ IF file[p] = NoFile /\ Legacy[p] > 0
     THEN file' = [file EXCEPT ![p] = <<>>] /\ Becomes(p, "migrating")
     ELSE file' = file /\ Becomes(p, "ensured")
  /\ UNCHANGED <<half, index, count_lock, counting, cursor, shown, calls,
                 stops, hurt>>

(* The old messages, numbered by normalize_messages.                       *)
Migrate(p) ==
  /\ op[p].pc = "migrating"
  /\ file' = [file EXCEPT ![p] =
                [i \in 1..Legacy[p] |-> [seq |-> i, glued |-> FALSE]]]
  /\ op' = [op EXCEPT ![p].pc = "want", ![p].then = "ensured",
                      ![p].n = Legacy[p]]
  /\ UNCHANGED <<half, index, count_lock, counting, cursor, shown, calls,
                 stops, hurt>>

(* current_count: a peer that is not in the index has its lines counted.   *)
(* Mutant: a peer that is not in the index has none.                       *)
CountedBehind(p) == IF p \in DOMAIN Parsed THEN Parsed[p] ELSE 0
Counted(p)       == IF p \in DOMAIN Parsed THEN Parsed[p] ELSE Lines(p)

CurrentCount(p) ==
  /\ op[p].pc = "ensured" /\ op[p].does = "save" /\ index # Corrupt
  /\ op' = [op EXCEPT ![p].pc = "append", ![p].n = Counted(p) + 1]
  /\ UNCHANGED <<file, half, index, count_lock, counting, cursor, shown,
                 calls, stops, hurt>>

AppendLine(p) ==
  /\ op[p].pc = "append"
  /\ file' = [file EXCEPT ![p] =
       Append(Messages(p), [seq |-> op[p].n, glued |-> p \in half])]
  /\ half' = half \cup {p}
  /\ Becomes(p, "line")
  /\ UNCHANGED <<index, count_lock, counting, cursor, shown, calls, stops,
                 hurt>>

AppendNewline(p) ==
  /\ op[p].pc = "line"
  /\ half' = half \ {p}
  /\ op' = [op EXCEPT ![p].pc = "want", ![p].then = "idle"]
  /\ UNCHANGED <<file, index, count_lock, counting, cursor, shown, calls,
                 stops, hurt>>

(* An index that does not parse fails the call: before the message is in   *)
(* the conversation, or in set_count when it is.                           *)
IndexFails(p) ==
  /\ index = Corrupt
  /\ \/ op[p].pc = "ensured" /\ op[p].does = "save"
     \/ op[p].pc = "want" /\ count_lock = Nobody
  /\ op' = [op EXCEPT ![p] = Idle]
  /\ UNCHANGED <<file, half, index, count_lock, counting, cursor, shown,
                 calls, stops, hurt>>

(* set_count: lock, read, truncate, write.                                 *)
(* Mutant: set_count without count_lock.                                   *)
NoCountLock   == TRUE
CountLockFree == count_lock = Nobody

SetCountReads(p) ==
  /\ op[p].pc = "want" /\ CountLockFree /\ index # Corrupt
  /\ count_lock' = p
  /\ op' = [op EXCEPT ![p].pc = "have", ![p].map = Put(Parsed, p, op[p].n)]
  /\ UNCHANGED <<file, half, index, counting, cursor, shown, calls, stops,
                 hurt>>

SetCountTruncates(p) ==
  /\ op[p].pc = "have"
  /\ index' = Torn /\ Becomes(p, "open")
  /\ UNCHANGED <<file, half, count_lock, counting, cursor, shown, calls,
                 stops, hurt>>

SetCountWrites(p) ==
  /\ op[p].pc = "open"
  /\ Overwrites(op[p].map)
  /\ count_lock' = Nobody
  /\ op' = [op EXCEPT ![p] =
       IF op[p].then = "idle" THEN Idle
       ELSE [Idle EXCEPT !.pc = op[p].then, !.does = op[p].does]]
  /\ UNCHANGED <<file, half, counting, cursor, shown, calls, stops, hurt>>

(* Mutant: the delta is read from the start.                               *)
NoSeek(reset, at) == 0
Seek(reset, at)   == IF reset THEN 0 ELSE at

(* load_conversation_delta: the length first, then everything from the     *)
(* cursor to the end, unless two messages there are on one line.           *)
ReadLength(p) ==
  /\ op[p].pc = "ensured" /\ op[p].does = "read"
  /\ op' = IF file[p] = NoFile THEN [op EXCEPT ![p] = Idle]
           ELSE [op EXCEPT ![p].pc = "reading", ![p].n = Len(file[p])]
  /\ UNCHANGED <<file, half, index, count_lock, counting, cursor, shown,
                 calls, stops, hurt>>

ReadDelta(p) ==
  LET reset  == cursor[p] > op[p].n
      start  == Seek(reset, cursor[p])
      parses == \A i \in start + 2..Len(file[p]) : ~file[p][i].glued
  IN /\ op[p].pc = "reading"
     /\ IF parses
        THEN /\ cursor' = [cursor EXCEPT ![p] = op[p].n]
             /\ shown' = [shown EXCEPT ![p] =
                  (IF reset THEN 0 ELSE @) + Len(file[p]) - start]
        ELSE UNCHANGED <<cursor, shown>>
     /\ op' = [op EXCEPT ![p] = Idle]
     /\ UNCHANGED <<file, half, index, count_lock, counting, calls, stops,
                    hurt>>

-----------------------------------------------------------------------------
(* get_all_counts: read, add what is missing, write.  counts.json itself   *)
(* has the name of an old conversation.                                    *)
CountsRead ==
  /\ counting = NotCounting
  /\ counting' = LET readable == index # Corrupt /\ Parsed # EmptyMap
                 IN [pc |-> "scan", map |-> IF readable THEN Parsed ELSE EmptyMap,
                     left |-> Keys, changed |-> ~readable]
  /\ UNCHANGED <<file, half, index, op, count_lock, cursor, shown, calls,
                 stops, hurt>>

CountsScan(k) ==
  LET found == IF k = Counts THEN index # NoIndex
               ELSE file[k] # NoFile \/ Legacy[k] > 0
      lines == IF k = Counts THEN 0
               ELSE IF file[k] # NoFile THEN Lines(k) ELSE Legacy[k]
  IN /\ counting.pc = "scan" /\ k \in counting.left
     /\ counting' =
          IF found /\ k \notin DOMAIN counting.map
          THEN [counting EXCEPT !.left = @ \ {k}, !.changed = TRUE,
                                !.map = Put(@, k, lines)]
          ELSE [counting EXCEPT !.left = @ \ {k}]
     /\ UNCHANGED <<file, half, index, op, count_lock, cursor, shown, calls,
                    stops, hurt>>

CountsTruncates ==
  /\ counting.pc = "scan" /\ counting.left = {}
  /\ IF counting.changed
     THEN index' = Torn /\ counting' = [counting EXCEPT !.pc = "open"]
     ELSE index' = index /\ counting' = NotCounting
  /\ UNCHANGED <<file, half, op, count_lock, cursor, shown, calls, stops,
                 hurt>>

Outdated(map) ==
  {p \in Peers \cap DOMAIN map :
     map[p] # IF file[p] = NoFile THEN Legacy[p] ELSE Lines(p)}

CountsWrites ==
  /\ counting.pc = "open"
  /\ Overwrites(counting.map)
  /\ counting' = NotCounting
  /\ hurt' = hurt \cup Outdated(counting.map)
  /\ UNCHANGED <<file, half, op, count_lock, cursor, shown, calls, stops>>

(* The program stops and starts again.                                     *)
Stop ==
  /\ stops < MaxStops /\ stops' = stops + 1
  /\ hurt' = hurt \cup {p \in Peers :
                op[p].pc \in {"migrating", "line", "want", "have"}}
  /\ op' = [p \in Peers |-> Idle]
  /\ count_lock' = Nobody /\ counting' = NotCounting
  /\ cursor' = [p \in Peers |-> 0] /\ shown' = [p \in Peers |-> 0]
  /\ UNCHANGED <<file, half, index, calls>>

-----------------------------------------------------------------------------
MessagesInit ==
  /\ file = [p \in Peers |-> NoFile]
  /\ half = {}
  /\ index = NoIndex
  /\ op = [p \in Peers |-> Idle]
  /\ count_lock = Nobody
  /\ counting = NotCounting
  /\ cursor = [p \in Peers |-> 0] /\ shown = [p \in Peers |-> 0]
  /\ calls = 0 /\ stops = 0
  /\ hurt = {}

MessagesNext ==
  \/ \E p \in Peers :
       \/ Call(p, "save") \/ Call(p, "read")
       \/ Ensure(p) \/ Migrate(p) \/ CurrentCount(p)
       \/ AppendLine(p) \/ AppendNewline(p) \/ IndexFails(p)
       \/ SetCountReads(p) \/ SetCountTruncates(p) \/ SetCountWrites(p)
       \/ ReadLength(p) \/ ReadDelta(p)
  \/ \E k \in Keys : CountsScan(k)
  \/ CountsRead \/ CountsTruncates \/ CountsWrites
  \/ Stop

MessagesSpec == MessagesInit /\ [][MessagesNext]_messageVars

-----------------------------------------------------------------------------
(* The messages of a conversation are numbered 1, 2, 3, ..., each on a     *)
(* line of its own, the old ones first, unless get_all_counts wrote back a *)
(* count it had read before (message_store.rs:304) or the program stopped  *)
(* inside a save or a migration.                                           *)
NumbersRunOn ==
  \A p \in Peers \ hurt :
    /\ \A i \in DOMAIN Messages(p) :
          Messages(p)[i] = [seq |-> i, glued |-> FALSE]
    /\ (file[p] # NoFile /\ op[p].pc # "migrating")
         => Len(file[p]) >= Legacy[p]

(* The index of counts says how many messages a conversation has while no  *)
(* call on it is under way, with the same exceptions: two calls on         *)
(* different peers never lose each other's count (set_count).              *)
CountsAreTrue ==
  \A p \in Peers \ hurt :
    (op[p] = Idle /\ index \notin {NoIndex, Torn, Corrupt} /\ p \in DOMAIN index)
      => index[p] = IF file[p] = NoFile THEN Legacy[p] ELSE Len(file[p])

(* A reader that follows a conversation by its cursor has got every        *)
(* message up to the cursor once (load_conversation_delta).                *)
DeltasExactlyOnce == \A p \in Peers : shown[p] = cursor[p]

=============================================================================
