--------------------------- MODULE SnapshotStore ---------------------------
(***************************************************************************)
(* FileSnapshotStore (packages/storage/src/lib.rs): one file for each      *)
(* revision of a snapshot, read by taking the highest revision, and a      *)
(* prune after every save that removes the snapshots of a device beyond    *)
(* the newest ordinary ones, file by file.  Nothing keeps two saves apart:  *)
(* the commands of the desktop application save outside the mutex of the   *)
(* session (backend.rs:646, 747, 792), and the command line uses the same  *)
(* directory without a lock.                                               *)
(*                                                                         *)
(* Abstractions: the temporary file and its rename are one step, because   *)
(* no reader takes notice of a file that does not end in .json; cancelled, *)
(* expired, invalidated and recovered are one status, "closed"; a save     *)
(* that fails before its rename changes nothing and is left out; clocks    *)
(* agree and never go back, so `updated_at` is the number of the save.     *)
(***************************************************************************)
EXTENDS Naturals, FiniteSets

CONSTANTS
  Writers,       \* calls of save that can be under way at once
  Ids,           \* snapshot identifiers
  Devices,
  DeviceOf,      \* the device of each snapshot
  Keep,          \* MAX_NORMAL_SNAPSHOTS_PER_DEVICE
  MaxSaves,      \* bound: number of saves
  MayCrash       \* the process of a save can end in the middle of it

ASSUME StoreAssumption ==
  /\ DeviceOf \in [Ids -> Devices]
  /\ Keep \in Nat \ {0}
  /\ MaxSaves \in Nat
  /\ MayCrash \in BOOLEAN

VARIABLES
  files,         \* the records in the directory, one for each id and revision
  saves,         \* number of saves so far
  op,            \* where each writer is and what it has yet to remove
  newest,        \* history: the record of each snapshot that was saved last
  raced,         \* history: the snapshots that were saved last while another
                 \* save was already about to remove them
  alone,         \* history: the writer of the save begun last, unless another
                 \* save was under way when it began; empty once one begins beside it
  tidy           \* history: the last save to end returned Ok and none overlapped it

vars == <<files, saves, op, newest, raced, alone, tidy>>

Statuses == {"planned", "executing", "applied", "recoveryFailed", "restored", "closed"}
Records == [id : Ids, rev : Nat \ {0}, status : Statuses, at : Nat]
PCs == {"idle", "inventory", "open", "remove"}

Idle == [pc |-> "idle", ids |-> {}, entries |-> {}]
Nothing == [rev |-> 0, status |-> "none", at |-> 0]

TypeOK ==
  /\ files \subseteq Records
  /\ \A f, g \in files : f.id = g.id /\ f.rev = g.rev => f = g
  /\ saves \in Nat
  /\ op \in [Writers -> [pc : PCs, ids : SUBSET Ids, entries : SUBSET (Ids \X Nat)]]
  /\ newest \in [Ids -> [rev : Nat, status : Statuses \union {"none"}, at : Nat]]
  /\ raced \subseteq Ids
  /\ alone \subseteq Writers
  /\ tidy \in BOOLEAN

Init ==
  /\ files = {}
  /\ saves = 0
  /\ op = [w \in Writers |-> Idle]
  /\ newest = [s \in Ids |-> Nothing]
  /\ raced = {}
  /\ alone = {}
  /\ tidy = TRUE

-----------------------------------------------------------------------------
(* inventory: the highest revision of every snapshot.                      *)

Latest == {f \in files : \A g \in files : g.id = f.id => g.rev <= f.rev}

\* Fault: an execution that is under way counts as ordinary.
OrdinaryOrExecuting(status) == status \notin {"applied", "recoveryFailed"}

\* Neither waiting to be restored nor possibly in need of recovery.
Ordinary(status) == status \notin {"applied", "recoveryFailed", "executing"}

\* Fault: one limit for all devices together.
NewerOfAll(f, records) ==
  {g \in records : Ordinary(g.status) /\ g.at > f.at}

\* The ordinary records of the same device that are newer than f.
Newer(f, records) ==
  {g \in records : /\ Ordinary(g.status)
                   /\ DeviceOf[g.id] = DeviceOf[f.id]
                   /\ g.at > f.at}

\* Fault: skip(limit + 1)
RemovableOneLate ==
  {f.id : f \in {g \in Latest : Ordinary(g.status) /\ Cardinality(Newer(g, Latest)) > Keep}}

\* The snapshots prune removes, with all their revisions.
Removable ==
  {f.id : f \in {g \in Latest : Ordinary(g.status) /\ Cardinality(Newer(g, Latest)) >= Keep}}

-----------------------------------------------------------------------------
(* save                                                                    *)

\* Fault: a record keeps the revision it had.
SameRevision(rev) == rev

NextRevision(rev) == rev + 1

\* The records a process can want to save next: the next status of a change it
\* is carrying out, or the restored source of a restore it has just finished.
Successors(s) ==
  LET last == newest[s]
      next == CASE last.status = "none" -> {"planned"}
                [] last.status = "planned" -> {"executing", "closed"}
                [] last.status = "executing" ->
                     {"applied", "restored", "recoveryFailed", "closed"}
                [] OTHER -> {}
  IN {[id |-> s, rev |-> NextRevision(last.rev), status |-> st, at |-> saves + 1] : st \in next}
     \union
     {[id |-> s, rev |-> NextRevision(f.rev), status |-> "restored", at |-> saves + 1] :
        f \in {g \in Latest : g.id = s /\ g.status = "applied"}}

\* The record appears under its name, in place of one of the same revision.
Rename(w) ==
  /\ op[w].pc = "idle"
  /\ saves < MaxSaves
  /\ \E s \in Ids : \E r \in Successors(s) :
       /\ files' = {f \in files : f.id # s \/ f.rev # r.rev} \union {r}
       /\ newest' = [newest EXCEPT ![s] = [rev |-> r.rev, status |-> r.status, at |-> r.at]]
       /\ raced' = IF \E v \in Writers : s \in op[v].ids THEN raced \union {s} ELSE raced \ {s}
  /\ saves' = saves + 1
  /\ op' = [op EXCEPT ![w].pc = "inventory"]
  /\ alone' = IF \A v \in Writers : op[v].pc = "idle" THEN {w} ELSE {}
  /\ tidy' = FALSE

\* save ends, with or without an error.
Return(w, ok) ==
  /\ op' = [op EXCEPT ![w] = Idle]
  /\ tidy' = (ok /\ w \in alone)

\* The directory is synced and the inventory taken; either can be an error.
TakeInventory(w) ==
  /\ op[w].pc = "inventory"
  /\ \/ Return(w, FALSE)
     \/ Removable = {} /\ Return(w, TRUE)
     \/ /\ Removable # {}
        /\ op' = [op EXCEPT ![w].pc = "open", ![w].ids = Removable]
        /\ UNCHANGED tidy
  /\ UNCHANGED <<files, saves, newest, raced, alone>>

\* The directory is listed again, now for the files of the snapshots to remove.
OpenDirectory(w) ==
  /\ op[w].pc = "open"
  /\ op' = [op EXCEPT ![w].pc = "remove",
                      ![w].entries = {<<f.id, f.rev>> : f \in {g \in files : g.id \in op[w].ids}}]
  /\ UNCHANGED <<files, saves, newest, raced, alone, tidy>>

\* One file is removed, in the order of the directory; an error, such as a file
\* that is already gone, leaves the others where they are.
RemoveFile(w) ==
  /\ op[w].pc = "remove"
  /\ \/ op[w].entries = {} /\ Return(w, TRUE) /\ UNCHANGED files
     \/ \E e \in op[w].entries : \E f \in files :
          /\ e = <<f.id, f.rev>>
          /\ files' = files \ {f}
          /\ op' = [op EXCEPT ![w].entries = @ \ {e}]
          /\ UNCHANGED tidy
     \/ op[w].entries # {} /\ Return(w, FALSE) /\ UNCHANGED files
  /\ UNCHANGED <<saves, newest, raced, alone>>

\* The process of a writer ends and what save had left to do is not done.
Crash(w) ==
  /\ MayCrash
  /\ op[w].pc # "idle"
  /\ Return(w, FALSE)
  /\ UNCHANGED <<files, saves, newest, raced, alone>>

Next == \E w \in Writers :
  Rename(w) \/ TakeInventory(w) \/ OpenDirectory(w) \/ RemoveFile(w) \/ Crash(w)

Spec == Init /\ [][Next]_vars

-----------------------------------------------------------------------------
(* Properties.                                                             *)

Saved == {[id |-> s, rev |-> newest[s].rev, status |-> newest[s].status, at |-> newest[s].at] :
            s \in {x \in Ids : newest[x] # Nothing}}

Unresolved == {"applied", "executing", "recoveryFailed"}

\* "Unresolved applied, executing, or recovery-failed snapshots are retained
\* beyond the ordinary limit": such a snapshot is loaded as it was saved last,
\* whichever saves are under way.  PruneRaces.cfg shows that prune breaks it.
UnresolvedAreKept == \A r \in Saved : r.status \in Unresolved => r \in Latest

\* What of it holds: with any number of saves under way, and wherever they are
\* cut short, an unresolved snapshot is loaded as it was saved last unless that
\* save came between the inventory and the last removal of another save's prune
\* that had the snapshot on its list.  Nothing else loses one: no prune of a
\* snapshot that was unresolved already, no older revision left behind.
KeptOutsideRaces ==
  \A r \in Saved : r.status \in Unresolved /\ r.id \notin raced => r \in Latest

\* During a save that no other overlaps, the record a snapshot was saved with
\* last goes only when the snapshot is ordinary and its device has at least Keep
\* newer ordinary ones at that moment, whatever overlapping and interrupted
\* saves left behind before.
OnlyExcessIsPruned ==
  [][alone # {} => \A r \in Saved : r \in files /\ r \notin files' =>
       /\ r.status \notin Unresolved
       /\ Cardinality({g \in Latest : /\ g.status \notin Unresolved
                                     /\ DeviceOf[g.id] = DeviceOf[r.id]
                                     /\ g.at > r.at}) >= Keep]_vars

\* "Up to 20 ordinary snapshots per device": after a save that no other
\* overlapped and that returned Ok no device has more, whatever overlapping and
\* interrupted saves left behind before.
RetentionHolds ==
  tidy => \A d \in Devices :
    Cardinality({f \in Latest : f.status \notin Unresolved /\ DeviceOf[f.id] = d}) <= Keep
=============================================================================
