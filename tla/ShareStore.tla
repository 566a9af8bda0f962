----------------------------- MODULE ShareStore -----------------------------
(***************************************************************************)
(* transfer_history.json and share_entries.json (HistoryStore and          *)
(* ShareStore), the tasks that write them when a transfer ends, the        *)
(* startup task of the desktop program, its commands on records, shares    *)
(* and local files, and handle_download_request, which reads both.         *)
(*                                                                         *)
(* Each store changes its file under its own lock, and a change is read,   *)
(* truncate, write; the loads take no lock and read an empty list from a   *)
(* file that is being written.  Two files, two locks: what one task does   *)
(* to both is never one step.                                              *)
(***************************************************************************)
EXTENDS Naturals, Sequences, FiniteSets, SequencesExt

CONSTANTS
  Remote,      \* record ids of transfers, sent or received
  Local,       \* record ids of files added with add_local_file_to_share
  Paths,       \* save_path
  PathOf,      \* PathOf[r]: the save_path of record r
  ContentOf,   \* ContentOf[r]: what the transfer of record r leaves there
  Hashes,      \* SHA-256 of the contents, one for one
  NoHash,      \* file_md5: None
  Absent,      \* no entry, no file
  MaxRecords,  \* MAX_RECORDS
  MaxEvents    \* bound: commands, download requests, files removed, stops

ASSUME StoreConstantsOK ==
  /\ Remote \cap Local = {}
  /\ PathOf \in [Remote \cup Local -> Paths]
  /\ ContentOf \in [Remote \cup Local -> Hashes]
  /\ NoHash \notin Hashes /\ Absent \notin Hashes
  /\ Absent \notin [md5 : Hashes \cup {NoHash}, excluded : BOOLEAN,
                    download_count : Nat]
  /\ MaxRecords \in Nat \ {0} /\ MaxEvents \in Nat

Ids == Remote \cup Local

VARIABLES
  up,        \* the program runs
  disk,      \* what is at each save_path
  history,   \* the records, newest first, all of them "completed"
  share,     \* the share entry of each record id, or Absent
  torn,      \* the files truncated and not yet written again
  stage,     \* how far the task that ends the transfer has come
  hashing,   \* spawned compute_file_sha256 tasks and what they have read
  user,      \* what a delete or clear command has still to do
  boot,      \* where the startup task is
  loaded,    \* the records it has read
  download,  \* the entry found for the one being answered, or Absent
  events,    \* commands, requests, files removed and stops so far
  adrift     \* history: records the two files may disagree about

vars == <<up, disk, history, share, torn, stage, hashing, user, boot, loaded,
          download, events, adrift>>

Entry == [md5 : Hashes \cup {NoHash}, excluded : BOOLEAN,
          download_count : 0..MaxEvents]

TypeOK ==
  /\ up \in BOOLEAN
  /\ disk \in [Paths -> Hashes \cup {Absent}]
  /\ history \in Seq(Remote) /\ Len(history) <= MaxRecords
  /\ share \in [Ids -> Entry \cup {Absent}]
  /\ torn \subseteq {"history", "shares"}
  /\ stage \in [Ids -> {"none", "delivered", "recorded", "done"}]
  /\ hashing \subseteq [id : Ids, by : {"owner", "startup"},
                        md5 : Hashes \cup {NoHash}]
  /\ user \in [op : {"none", "clear", "delete"}, left : SUBSET Remote]
  /\ boot \in {"off", "sleeping", "loaded", "synced", "done"}
  /\ loaded \subseteq Remote
  /\ download \in Ids \cup {Absent}
  /\ events \in 0..MaxEvents
  /\ adrift \subseteq Remote

Recorded  == ToSet(history)
Entries   == {r \in Ids : share[r] # Absent}
NoCommand == [op |-> "none", left |-> {}]
NewEntry  == [md5 |-> NoHash, excluded |-> FALSE, download_count |-> 0]

(* What a load without the lock reads.                                     *)
HistoryRead == IF "history" \in torn THEN {} ELSE Recorded
SharesRead  == IF "shares" \in torn THEN {} ELSE Entries

(* A change of one file under its lock; the lock is free again when the    *)
(* file is whole.                                                          *)
Changes(file) == up /\ file \notin torn /\ torn' = torn \cup {file}

Written(file) ==
  /\ up /\ file \in torn
  /\ torn' = torn \ {file}
  /\ UNCHANGED <<up, disk, history, share, stage, hashing, user, boot, loaded,
                 download, events, adrift>>

Event == events < MaxEvents /\ events' = events + 1

-----------------------------------------------------------------------------
(* The end of a transfer.                                                  *)

(* The file of the transfer is in its place: renamed there, or it was sent *)
(* from there.                                                             *)
Deliver(r) ==
  /\ up /\ r \in Remote /\ stage[r] = "none"
  /\ stage' = [stage EXCEPT ![r] = "delivered"]
  /\ disk' = [disk EXCEPT ![PathOf[r]] = ContentOf[r]]
  /\ UNCHANGED <<up, history, share, torn, hashing, user, boot, loaded,
                 download, events, adrift>>

Truncated(records) == IF Len(records) > MaxRecords
                      THEN SubSeq(records, 1, MaxRecords) ELSE records

AddRecord(r) ==
  LET kept == Truncated(<<r>> \o history)
  IN /\ stage[r] = "delivered" /\ Changes("history")
     /\ stage' = [stage EXCEPT ![r] = "recorded"]
     /\ history' = kept
     /\ adrift' = adrift \cup (Recorded \ ToSet(kept))
     /\ UNCHANGED <<up, disk, share, hashing, user, boot, loaded, download,
                    events>>

(* upsert_entry with file_md5 None, as every caller has it: the search for *)
(* an entry with the same hash is never entered, an entry that is there is *)
(* replaced.  The hash is then computed by a task of its own.              *)
Upsert(r) ==
  /\ stage[r] = "recorded" /\ "history" \notin torn /\ Changes("shares")
  /\ stage' = [stage EXCEPT ![r] = "done"]
  /\ share' = [share EXCEPT ![r] = NewEntry]
  /\ hashing' = hashing \cup {[id |-> r, by |-> "owner", md5 |-> NoHash]}
  /\ UNCHANGED <<up, disk, history, user, boot, loaded, download, events,
                 adrift>>

AddLocalFileToShare(r) ==
  /\ r \in Local /\ stage[r] = "none" /\ disk[PathOf[r]] # Absent
  /\ Changes("shares") /\ Event
  /\ stage' = [stage EXCEPT ![r] = "done"]
  /\ share' = [share EXCEPT ![r] = NewEntry]
  /\ hashing' = hashing \cup {[id |-> r, by |-> "owner", md5 |-> NoHash]}
  /\ UNCHANGED <<up, disk, history, user, boot, loaded, download, adrift>>

ComputeFileSha256(t) ==
  LET found == disk[PathOf[t.id]]
  IN /\ up /\ t \in hashing /\ t.md5 = NoHash
     /\ hashing' = (hashing \ {t})
                   \cup (IF found = Absent THEN {} ELSE {[t EXCEPT !.md5 = found]})
     /\ UNCHANGED <<up, disk, history, share, torn, stage, user, boot, loaded,
                    download, events, adrift>>

(* Mutant: nothing is inherited.                                           *)
HashedAlone(r, hash) ==
  {IF share[r] = Absent THEN Absent ELSE [share[r] EXCEPT !.md5 = hash]}

(* update_md5: the entry inherits excluded from one with the same hash.    *)
(* The order of the list, and so which of them is first, is left out.      *)
Hashed(r, hash) ==
  LET same == {e \in Entries \ {r} : share[e].md5 = hash}
  IN IF share[r] = Absent THEN {Absent}
     ELSE IF same = {} THEN {[share[r] EXCEPT !.md5 = hash]}
     ELSE {[share[r] EXCEPT !.md5 = hash, !.excluded = share[e].excluded] :
             e \in same}

UpdateMd5(t) ==
  /\ t \in hashing /\ t.md5 # NoHash /\ Changes("shares")
  /\ \E entry \in Hashed(t.id, t.md5) : share' = [share EXCEPT ![t.id] = entry]
  /\ hashing' = hashing \ {t}
  /\ UNCHANGED <<up, disk, history, stage, user, boot, loaded, download,
                 events, adrift>>

-----------------------------------------------------------------------------
(* Commands of the user.                                                   *)

SetExcluded(r, excluded) ==
  /\ r \in Entries /\ Changes("shares") /\ Event
  /\ share' = [e \in Ids |->
       IF e = r \/ (e \in Entries /\ share[r].md5 # NoHash
                    /\ share[e].md5 = share[r].md5)
       THEN [share[e] EXCEPT !.excluded = excluded] ELSE share[e]]
  /\ UNCHANGED <<up, disk, history, stage, hashing, user, boot, loaded,
                 download, adrift>>

(* records.retain(..): the others stay, in their order.                     *)
Retained(records, S) ==
  LET kept[n \in 0..Len(records)] ==
        IF n = 0 THEN <<>>
        ELSE IF records[n] \in S THEN kept[n - 1]
        ELSE Append(kept[n - 1], records[n])
  IN kept[Len(records)]

(* delete_transfer_records and clear_transfer_history begin with the       *)
(* history.  A record is adrift when its entry can still come after this:  *)
(* its upsert is to follow, or the startup task holds it in its list.      *)
DeletesFromHistory(S, op) ==
  /\ user = NoCommand /\ Changes("history") /\ Event
  /\ history' = Retained(history, S)
  /\ user' = [op |-> op, left |-> S]
  /\ adrift' = adrift \cup {r \in S \cap Recorded :
                  \/ stage[r] = "recorded"
                  \/ boot = "loaded" /\ r \in loaded}
  /\ UNCHANGED <<up, disk, share, stage, hashing, boot, loaded, download>>

DeleteTransferRecords(S) ==
  S # {} /\ S \subseteq Recorded /\ DeletesFromHistory(S, "delete")
ClearTransferHistory == DeletesFromHistory(Remote, "clear")

RemoveEntry(r) ==
  /\ user.op = "delete" /\ r \in user.left
  /\ "history" \notin torn /\ Changes("shares")
  /\ share' = [share EXCEPT ![r] = Absent]
  /\ user' = IF user.left = {r} THEN NoCommand
             ELSE [user EXCEPT !.left = @ \ {r}]
  /\ UNCHANGED <<up, disk, history, stage, hashing, boot, loaded, download,
                 events, adrift>>

(* What was recorded and shared since the history was cleared loses its    *)
(* entry.                                                                  *)
ClearAll ==
  /\ user.op = "clear" /\ "history" \notin torn /\ Changes("shares")
  /\ share' = [r \in Ids |-> Absent]
  /\ user' = NoCommand
  /\ adrift' = adrift \cup (Recorded \cap Entries)
  /\ UNCHANGED <<up, disk, history, stage, hashing, boot, loaded, download,
                 events>>

RemoveFile(p) ==
  /\ disk[p] # Absent /\ Event
  /\ disk' = [disk EXCEPT ![p] = Absent]
  /\ UNCHANGED <<up, history, share, torn, stage, hashing, user, boot, loaded,
                 download, adrift>>

-----------------------------------------------------------------------------
(* The startup task: three seconds after the start it reads the history,   *)
(* makes the shares agree with what it read, and hashes what has no hash.  *)

LoadHistory ==
  /\ up /\ boot = "sleeping"
  /\ boot' = "loaded" /\ loaded' = HistoryRead
  /\ UNCHANGED <<up, disk, history, share, torn, stage, hashing, user,
                 download, events, adrift>>

(* Mutant: what is not recorded stays.                                     *)
SyncedOnlyNew(r) ==
  IF r \in loaded /\ share[r] = Absent THEN NewEntry ELSE share[r]
Synced(r) == IF r \notin loaded THEN Absent
             ELSE IF share[r] = Absent THEN NewEntry ELSE share[r]

(* sync_from_history.  The files agree again but for the records that      *)
(* changed since they were read.                                           *)
SyncFromHistory ==
  /\ boot = "loaded" /\ Changes("shares")
  /\ boot' = "synced"
  /\ share' = [r \in Ids |-> Synced(r)]
  /\ adrift' = {r \in adrift \ Recorded : r \in loaded \/ stage[r] = "recorded"}
               \cup {r \in Recorded \ loaded : stage[r] = "done"}
  /\ UNCHANGED <<up, disk, history, stage, hashing, user, loaded, download,
                 events>>

LoadEntries ==
  /\ up /\ boot = "synced"
  /\ boot' = "done"
  /\ hashing' = hashing \cup
       {[id |-> r, by |-> "startup", md5 |-> NoHash] :
          r \in {e \in SharesRead : share[e].md5 = NoHash}}
  /\ UNCHANGED <<up, disk, history, share, torn, stage, user, loaded, download,
                 events, adrift>>

(* The program stops; a file that was being written stays empty.           *)
Crash ==
  /\ up /\ Event
  /\ up' = FALSE
  /\ torn' = {} /\ hashing' = {} /\ user' = NoCommand
  /\ boot' = "off" /\ loaded' = {} /\ download' = Absent
  /\ history' = IF "history" \in torn THEN <<>> ELSE history
  /\ share' = IF "shares" \in torn THEN [r \in Ids |-> Absent] ELSE share
  /\ stage' = [r \in Ids |-> IF stage[r] = "none" THEN "none" ELSE "done"]
  /\ adrift' = adrift \cup user.left
               \cup (IF torn = {} THEN {} ELSE Recorded \cup (Entries \cap Remote))
               \cup {r \in Remote : stage[r] = "recorded"}
  /\ UNCHANGED disk

Start ==
  /\ ~up
  /\ up' = TRUE /\ boot' = "sleeping"
  /\ UNCHANGED <<disk, history, share, torn, stage, hashing, user, loaded,
                 download, events, adrift>>

-----------------------------------------------------------------------------
(* handle_download_request.  A request names a hash, an id or both, as the *)
(* requester's list of shares had them.                                    *)

Offered == {r \in SharesRead : ~share[r].excluded /\ disk[PathOf[r]] # Absent}
Matches(md5, id) ==
  {r \in Offered : r = id \/ (md5 # NoHash /\ share[r].md5 = md5)}

FindShared(md5, id) ==
  /\ up /\ download = Absent /\ Event
  /\ \E r \in Matches(md5, id) : download' = r
  /\ UNCHANGED <<up, disk, history, share, torn, stage, hashing, user, boot,
                 loaded, adrift>>

(* No entry is offered: the first record whose file has the hash now is    *)
(* sent, and nothing is counted.  Otherwise the answer is an error.        *)
SearchHistory(md5, id) ==
  /\ up /\ download = Absent /\ Event
  /\ Matches(md5, id) = {}
  /\ UNCHANGED <<up, disk, history, share, torn, stage, hashing, user, boot,
                 loaded, download, adrift>>

IncrementDownloadCount ==
  /\ download # Absent /\ Changes("shares")
  /\ download' = Absent
  /\ share' = IF share[download] = Absent THEN share
              ELSE [share EXCEPT ![download].download_count = @ + 1]
  /\ UNCHANGED <<up, disk, history, stage, hashing, user, boot, loaded, events,
                 adrift>>

-----------------------------------------------------------------------------
(* The files a user can add to the shares are there, nothing else is.      *)
Init ==
  /\ up = FALSE
  /\ disk = [p \in Paths |->
       IF \E r \in Local : PathOf[r] = p
       THEN ContentOf[CHOOSE r \in Local : PathOf[r] = p] ELSE Absent]
  /\ history = <<>>
  /\ share = [r \in Ids |-> Absent]
  /\ torn = {}
  /\ stage = [r \in Ids |-> "none"]
  /\ hashing = {}
  /\ user = NoCommand
  /\ boot = "off" /\ loaded = {}
  /\ download = Absent /\ events = 0
  /\ adrift = {}

Tasks ==
  \/ \E r \in Remote : AddRecord(r) \/ Upsert(r)
  \/ \E t \in hashing : ComputeFileSha256(t) \/ UpdateMd5(t)
  \/ \E file \in {"history", "shares"} : Written(file)

Next ==
  \/ Tasks
  \/ \E r \in Ids : Deliver(r) \/ AddLocalFileToShare(r) \/ RemoveEntry(r)
  \/ \E r \in Ids, b \in BOOLEAN : SetExcluded(r, b)
  \/ \E S \in SUBSET Remote : DeleteTransferRecords(S)
  \/ ClearTransferHistory \/ ClearAll
  \/ \E p \in Paths : RemoveFile(p)
  \/ LoadHistory \/ SyncFromHistory \/ LoadEntries
  \/ Crash \/ Start
  \/ \E md5 \in Hashes \cup {NoHash}, id \in Ids \cup {Absent} :
        FindShared(md5, id) \/ SearchHistory(md5, id)
  \/ IncrementDownloadCount

Spec == Init /\ [][Next]_vars

-----------------------------------------------------------------------------
(* Two entries known to be the same file are both shared or both excluded: *)
(* what the user excluded is not offered through another copy of it,       *)
(* however hashes, exclusions and syncs overlap (share.rs, set_excluded    *)
(* and update_md5).                                                        *)
ExcludedAlike ==
  \A r, s \in Entries :
    (share[r].md5 # NoHash /\ share[r].md5 = share[s].md5)
      => share[r].excluded = share[s].excluded

(* The two files agree about a finished transfer: it is shared if and only *)
(* if it is recorded, while no command on it is under way, unless it was   *)
(* caught by one of the races marked in adrift; the next undisturbed sync  *)
(* ends those (share.rs, sync_from_history).                               *)
Disturbed(r) == r \in adrift \/ r \in user.left
SharesFollowHistory ==
  \A r \in Remote :
    (stage[r] = "done" /\ ~Disturbed(r)) => (r \in Entries <=> r \in Recorded)

=============================================================================
