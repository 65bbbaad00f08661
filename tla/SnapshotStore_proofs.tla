------------------------ MODULE SnapshotStore_proofs ------------------------
(***************************************************************************)
(* Proofs about SnapshotStore, for any snapshots and devices, any limit,   *)
(* any number of saves under way at once, and saves that end anywhere.     *)
(* PruneRaces.cfg shows that one save can lose the snapshot of another;    *)
(* the theorems say what is kept all the same.                             *)
(***************************************************************************)
EXTENDS SnapshotStore, FiniteSetTheorems, TLAPS

OpRecords == [pc : PCs, ids : SUBSET Ids, entries : SUBSET (Ids \X Nat)]
NewestRecords == [rev : Nat, status : Statuses \union {"none"}, at : Nat]

\* The record that was saved last for s.
Last(s) == [id |-> s, rev |-> newest[s].rev, status |-> newest[s].status, at |-> newest[s].at]

\* No file is ahead of what was saved last.  But for the snapshots that lost a
\* race, the last record is there as long as it is unresolved, and what a prune
\* is about to remove is not.
Inv ==
  /\ TypeOK
  /\ \A f \in files : f.rev <= newest[f.id].rev
  /\ \A s \in Ids \ raced : newest[s].status \in Unresolved => Last(s) \in files
  /\ \A w \in Writers :
       /\ \A s \in op[w].ids \ raced : newest[s].status \notin Unresolved
       /\ \A e \in op[w].entries : e[1] \in op[w].ids
       /\ op[w].pc \in {"idle", "inventory"} => op[w].ids = {}

-----------------------------------------------------------------------------
(* Types.                                                                  *)

\* The records a process may save are records.
LEMMA SuccessorsType ==
  ASSUME TypeOK, NEW s \in Ids, NEW r \in Successors(s)
  PROVE  r \in Records /\ r.id = s
<1>1. newest[s] \in NewestRecords /\ saves + 1 \in Nat
  BY DEF TypeOK, NewestRecords
<1>2. CASE \E st \in Statuses : r = [id |-> s, rev |-> newest[s].rev + 1, status |-> st, at |-> saves + 1]
  BY <1>1, <1>2 DEF Records, NewestRecords
<1>3. CASE \E f \in files : r = [id |-> s, rev |-> f.rev + 1, status |-> "restored", at |-> saves + 1]
  BY <1>1, <1>3 DEF Records, Statuses, TypeOK
<1>4. \/ \E st \in Statuses : r = [id |-> s, rev |-> newest[s].rev + 1, status |-> st, at |-> saves + 1]
      \/ \E f \in files : r = [id |-> s, rev |-> f.rev + 1, status |-> "restored", at |-> saves + 1]
  BY DEF Successors, NextRevision, Statuses, Latest
<1>5. QED
  BY <1>2, <1>3, <1>4

\* A writer's state is replaced.
LEMMA OpBecomes ==
  ASSUME TypeOK, NEW w \in Writers, NEW record \in OpRecords, op' = [op EXCEPT ![w] = record]
  PROVE  /\ op' \in [Writers -> OpRecords] /\ op'[w] = record
         /\ \A v \in Writers \ {w} : op'[v] = op[v]
BY DEF TypeOK, OpRecords

\* save returns.
LEMMA ReturnOp ==
  ASSUME TypeOK, NEW w \in Writers, NEW ok \in BOOLEAN, Return(w, ok)
  PROVE  /\ op' \in [Writers -> OpRecords] /\ op'[w] = Idle /\ tidy' \in BOOLEAN
         /\ \A v \in Writers \ {w} : op'[v] = op[v]
<1>1. Idle \in OpRecords
  BY DEF Idle, OpRecords, PCs
<1>2. QED
  BY <1>1, OpBecomes DEF Return

LEMMA RemovableType == ASSUME TypeOK PROVE Removable \subseteq Ids
<1>1. \A f \in Latest : f.id \in Ids
  BY DEF TypeOK, Latest, Records
<1>2. QED
  BY <1>1 DEF Removable

\* Every action's effect on the state of its writer.
LEMMA OpMoves ==
  ASSUME TypeOK, NEW w \in Writers,
         Rename(w) \/ TakeInventory(w) \/ OpenDirectory(w) \/ RemoveFile(w) \/ Crash(w)
  PROVE  /\ op' \in [Writers -> OpRecords] /\ tidy' \in BOOLEAN
         /\ \A v \in Writers \ {w} : op'[v] = op[v]
         /\ Rename(w) => op'[w].ids = op[w].ids /\ op'[w].entries = op[w].entries /\ op'[w].pc = "inventory"
         /\ TakeInventory(w) =>
              \/ op'[w] = Idle
              \/ op'[w].ids = Removable /\ op'[w].entries = op[w].entries /\ op'[w].pc = "open"
         /\ OpenDirectory(w) =>
              /\ op'[w].ids = op[w].ids /\ op'[w].pc = "remove"
              /\ op'[w].entries = {<<f.id, f.rev>> : f \in {g \in files : g.id \in op[w].ids}}
         /\ RemoveFile(w) =>
              \/ op'[w] = Idle
              \/ op'[w].ids = op[w].ids /\ op'[w].entries \subseteq op[w].entries /\ op'[w].pc = "remove"
         /\ Crash(w) => op'[w] = Idle
<1>1. Crash(w) => op'[w].pc = "idle"
  <2>1. Crash(w) => Return(w, FALSE)
    BY DEF Crash
  <2>2. Crash(w) => op'[w] = Idle
    BY <2>1, ReturnOp
  <2>3. QED
    BY <2>2 DEF Idle
<1>2. op[w] \in OpRecords
  BY DEF TypeOK, OpRecords
<1>3. CASE \E ok \in BOOLEAN : Return(w, ok)
  <2>1. /\ op' \in [Writers -> OpRecords] /\ op'[w] = Idle /\ tidy' \in BOOLEAN
        /\ \A v \in Writers \ {w} : op'[v] = op[v]
    BY <1>3, ReturnOp
  <2>2. op'[w].pc = "idle"
    BY <2>1 DEF Idle
  <2>3. ~Rename(w) /\ ~OpenDirectory(w)
    <3>1. Rename(w) => op'[w] = [op[w] EXCEPT !.pc = "inventory"]
      BY DEF Rename, TypeOK
    <3>2. Rename(w) => op'[w].pc = "inventory"
      BY <1>2, <3>1 DEF OpRecords
    <3>3. OpenDirectory(w) =>
            op'[w] = [op[w] EXCEPT !.pc = "remove",
                        !.entries = {<<f.id, f.rev>> : f \in {g \in files : g.id \in op[w].ids}}]
      BY DEF OpenDirectory, TypeOK
    <3>4. OpenDirectory(w) => op'[w].pc = "remove"
      BY <1>2, <3>3 DEF OpRecords
    <3>5. QED
      BY <2>2, <3>2, <3>4
  <2>4. QED
    BY <2>1, <2>3
<1>4. CASE Rename(w)
  <2>1. [op[w] EXCEPT !.pc = "inventory"] \in OpRecords
    BY <1>2 DEF OpRecords, PCs
  <2>2. op' = [op EXCEPT ![w] = [op[w] EXCEPT !.pc = "inventory"]] /\ tidy' = FALSE /\ op[w].pc = "idle"
    BY <1>4 DEF Rename
  <2>3. /\ op' \in [Writers -> OpRecords] /\ op'[w] = [op[w] EXCEPT !.pc = "inventory"]
        /\ \A v \in Writers \ {w} : op'[v] = op[v]
    BY <2>1, <2>2, OpBecomes
  <2>4. op'[w].pc = "inventory" /\ op'[w].ids = op[w].ids /\ op'[w].entries = op[w].entries
    BY <1>2, <2>3 DEF OpRecords
  <2>5. ~TakeInventory(w) /\ ~OpenDirectory(w) /\ ~RemoveFile(w) /\ ~Crash(w)
    BY <2>2 DEF TakeInventory, OpenDirectory, RemoveFile, Crash
  <2>6. QED
    BY <2>2, <2>3, <2>4, <2>5
<1>5. CASE TakeInventory(w) /\ op' = [op EXCEPT ![w].pc = "open", ![w].ids = Removable]
  <2>1. [op[w] EXCEPT !.pc = "open", !.ids = Removable] \in OpRecords
    BY <1>2, RemovableType DEF OpRecords, PCs
  <2>2. op' = [op EXCEPT ![w] = [op[w] EXCEPT !.pc = "open", !.ids = Removable]] /\ op[w].pc = "inventory"
    BY <1>5 DEF TakeInventory
  <2>3. /\ op' \in [Writers -> OpRecords] /\ op'[w] = [op[w] EXCEPT !.pc = "open", !.ids = Removable]
        /\ \A v \in Writers \ {w} : op'[v] = op[v]
    BY <2>1, <2>2, OpBecomes
  <2>4. op'[w].pc = "open" /\ op'[w].ids = Removable /\ op'[w].entries = op[w].entries
    BY <1>2, <2>3 DEF OpRecords
  <2>5. ~Rename(w) /\ ~OpenDirectory(w) /\ ~RemoveFile(w)
    BY <2>2 DEF Rename, OpenDirectory, RemoveFile
  <2>6. ~Crash(w) /\ tidy' \in BOOLEAN
    BY <1>5, <2>4, ReturnOp DEF Crash, TakeInventory, Return, Idle, TypeOK
  <2>7. QED
    BY <2>3, <2>4, <2>5, <2>6
<1>6. CASE OpenDirectory(w)
  <2> DEFINE entries == {<<f.id, f.rev>> : f \in {g \in files : g.id \in op[w].ids}}
  <2>1. entries \subseteq Ids \X Nat
    BY DEF TypeOK, Records
  <2>2. [op[w] EXCEPT !.pc = "remove", !.entries = entries] \in OpRecords
    BY <1>2, <2>1 DEF OpRecords, PCs
  <2>3. op' = [op EXCEPT ![w] = [op[w] EXCEPT !.pc = "remove", !.entries = entries]]
        /\ op[w].pc = "open" /\ tidy' = tidy
    BY <1>6 DEF OpenDirectory
  <2>4. /\ op' \in [Writers -> OpRecords] /\ op'[w] = [op[w] EXCEPT !.pc = "remove", !.entries = entries]
        /\ \A v \in Writers \ {w} : op'[v] = op[v]
    BY <2>2, <2>3, OpBecomes
  <2>5. op'[w].pc = "remove" /\ op'[w].ids = op[w].ids /\ op'[w].entries = entries
    BY <1>2, <2>4 DEF OpRecords
  <2>6. ~Rename(w) /\ ~TakeInventory(w) /\ ~RemoveFile(w)
    BY <2>3 DEF Rename, TakeInventory, RemoveFile
  <2>7. ~Crash(w)
    BY <1>1, <2>5
  <2>8. QED
    BY <2>3, <2>4, <2>5, <2>6, <2>7 DEF TypeOK
<1>7. CASE RemoveFile(w) /\ \E e : op' = [op EXCEPT ![w].entries = @ \ {e}] /\ tidy' = tidy
  <2>1. PICK e : op' = [op EXCEPT ![w] = [op[w] EXCEPT !.entries = op[w].entries \ {e}]] /\ tidy' = tidy
    BY <1>7
  <2>2. [op[w] EXCEPT !.entries = op[w].entries \ {e}] \in OpRecords
    BY <1>2 DEF OpRecords
  <2>3. /\ op' \in [Writers -> OpRecords] /\ op'[w] = [op[w] EXCEPT !.entries = op[w].entries \ {e}]
        /\ \A v \in Writers \ {w} : op'[v] = op[v]
    BY <2>1, <2>2, OpBecomes
  <2>4. op[w].pc = "remove"
    BY <1>7 DEF RemoveFile
  <2>5. op'[w].pc = "remove" /\ op'[w].ids = op[w].ids /\ op'[w].entries = op[w].entries \ {e}
    BY <1>2, <2>3, <2>4 DEF OpRecords
  <2>6. ~Rename(w) /\ ~TakeInventory(w) /\ ~OpenDirectory(w)
    BY <2>4 DEF Rename, TakeInventory, OpenDirectory
  <2>7. ~Crash(w)
    BY <1>1, <2>5
  <2>8. QED
    BY <2>1, <2>3, <2>5, <2>6, <2>7 DEF TypeOK
<1>8. \/ \E ok \in BOOLEAN : Return(w, ok)
      \/ Rename(w) \/ OpenDirectory(w)
      \/ TakeInventory(w) /\ op' = [op EXCEPT ![w].pc = "open", ![w].ids = Removable]
      \/ RemoveFile(w) /\ \E e : op' = [op EXCEPT ![w].entries = @ \ {e}] /\ tidy' = tidy
  BY DEF TakeInventory, RemoveFile, Crash
<1>9. QED
  BY <1>3, <1>4, <1>5, <1>6, <1>7, <1>8

LEMMA InitType == Init => TypeOK
BY StoreAssumption DEF Init, TypeOK, Idle, Nothing, PCs

LEMMA NextType == ASSUME TypeOK, [Next]_vars PROVE TypeOK'
<1>1. CASE UNCHANGED vars
  BY <1>1 DEF vars, TypeOK
<1>2. ASSUME NEW w \in Writers,
             Rename(w) \/ TakeInventory(w) \/ OpenDirectory(w) \/ RemoveFile(w) \/ Crash(w)
      PROVE  TypeOK'
  <2>1. op' \in [Writers -> OpRecords] /\ tidy' \in BOOLEAN
    BY <1>2, OpMoves
  <2>2. CASE Rename(w)
    <3>0. PICK s \in Ids : \E r \in Successors(s) :
            /\ files' = {f \in files : f.id # s \/ f.rev # r.rev} \union {r}
            /\ newest' = [newest EXCEPT ![s] = [rev |-> r.rev, status |-> r.status, at |-> r.at]]
      BY <2>2 DEF Rename
    <3>1. PICK r \in Successors(s) :
            /\ files' = {f \in files : f.id # s \/ f.rev # r.rev} \union {r}
            /\ newest' = [newest EXCEPT ![s] = [rev |-> r.rev, status |-> r.status, at |-> r.at]]
      BY <3>0
    <3>2. r \in Records /\ r.id = s
      BY <3>1, SuccessorsType
    <3>3. [rev |-> r.rev, status |-> r.status, at |-> r.at] \in NewestRecords
      BY <3>2 DEF Records, NewestRecords
    <3>4. newest' \in [Ids -> NewestRecords]
      BY <3>1, <3>3 DEF TypeOK, NewestRecords
    <3>5. files' \subseteq Records /\ saves' \in Nat
      BY <2>2, <3>1, <3>2 DEF Rename, TypeOK
    <3>6. \A f, g \in files' : f.id = g.id /\ f.rev = g.rev => f = g
      BY <3>1, <3>2 DEF TypeOK
    <3>7. raced' \subseteq Ids /\ alone' \subseteq Writers
      BY <2>2 DEF Rename, TypeOK
    <3>8. QED
      BY <2>1, <3>4, <3>5, <3>6, <3>7 DEF TypeOK, OpRecords, NewestRecords
  <2>3. CASE TakeInventory(w) \/ OpenDirectory(w) \/ RemoveFile(w) \/ Crash(w)
    <3>1. files' \subseteq files /\ UNCHANGED <<saves, newest, raced, alone>>
      BY <2>3 DEF TakeInventory, OpenDirectory, RemoveFile, Crash
    <3>2. QED
      BY <2>1, <3>1 DEF TypeOK, OpRecords
  <2>4. QED
    BY <1>2, <2>2, <2>3
<1>3. QED
  BY <1>1, <1>2 DEF Next

\* The files and what each writer is doing have their types, whatever is saved
\* and wherever a save ends.
THEOREM TypeCorrect == Spec => []TypeOK
<1>1. Init => TypeOK
  BY InitType
<1>2. TypeOK /\ [Next]_vars => TypeOK'
  BY NextType
<1>3. QED
  BY <1>1, <1>2, PTL DEF Spec

-----------------------------------------------------------------------------
(* Unresolved snapshots.                                                   *)

\* The record saved last is loaded as long as it is there.
LEMMA LastIsLatest ==
  ASSUME Inv, NEW s \in Ids, Last(s) \in files PROVE Last(s) \in Latest
BY DEF Inv, Latest, Last

LEMMA InitInv == Init => Inv
BY InitType DEF Init, Inv, Idle, Nothing, Unresolved

LEMMA RenameInv ==
  ASSUME Inv, NEW w \in Writers, Rename(w)
  PROVE  Inv'
<1>1. PICK s \in Ids : \E r \in Successors(s) :
        /\ files' = {f \in files : f.id # s \/ f.rev # r.rev} \union {r}
        /\ newest' = [newest EXCEPT ![s] = [rev |-> r.rev, status |-> r.status, at |-> r.at]]
        /\ raced' = IF \E v \in Writers : s \in op[v].ids THEN raced \union {s} ELSE raced \ {s}
  BY DEF Rename
<1>2. TypeOK /\ TypeOK'
  BY NextType DEF Inv, Next
<1>3. PICK r \in Successors(s) :
        /\ files' = {f \in files : f.id # s \/ f.rev # r.rev} \union {r}
        /\ newest' = [newest EXCEPT ![s] = [rev |-> r.rev, status |-> r.status, at |-> r.at]]
        /\ raced' = IF \E v \in Writers : s \in op[v].ids THEN raced \union {s} ELSE raced \ {s}
  BY <1>1
<1>4. r \in Records /\ r.id = s
  BY <1>2, <1>3, SuccessorsType
<1>5. \A f \in files : f.id = s => f.rev <= r.rev
  <2>1. newest[s].rev \in Nat /\ \A f \in files : f.rev \in Nat
    BY <1>2 DEF TypeOK, Records
  <2>2. CASE r.rev = newest[s].rev + 1
    BY <2>1, <2>2 DEF Inv
  <2>3. CASE \E f \in Latest : f.id = s /\ r.rev = f.rev + 1
    BY <2>1, <2>3 DEF Latest
  <2>4. QED
    BY <1>3, <2>2, <2>3 DEF Successors, NextRevision
<1>6. /\ newest'[s] = [rev |-> r.rev, status |-> r.status, at |-> r.at]
      /\ \A t \in Ids \ {s} : newest'[t] = newest[t]
  BY <1>2, <1>3 DEF TypeOK
<1>7. \A f \in files' : f.rev <= newest'[f.id].rev
  BY <1>2, <1>3, <1>4, <1>5, <1>6 DEF Inv, TypeOK, Records
<1>8. \A t \in Ids \ {s} : t \in raced' <=> t \in raced
  BY <1>3
<1>9. ASSUME NEW t \in Ids \ raced', newest'[t].status \in Unresolved PROVE Last(t)' \in files'
  <2>1. CASE t = s
    BY <1>3, <1>4, <1>6, <2>1 DEF Last, Records
  <2>2. CASE t # s
    BY <1>3, <1>6, <1>8, <1>9, <2>2 DEF Inv, Last
  <2>3. QED
    BY <2>1, <2>2
<1>10. \A v \in Writers : op'[v].ids = op[v].ids /\ op'[v].entries = op[v].entries
  BY <1>2, OpMoves
<1>11. op[w].ids = {}
  BY DEF Inv, Rename
<1>12. \A v \in Writers : op'[v].pc \in {"idle", "inventory"} => op'[v].ids = {}
  BY <1>2, <1>10, <1>11, OpMoves DEF Inv
<1>13. ASSUME NEW v \in Writers, NEW t \in op'[v].ids \ raced'
       PROVE  newest'[t].status \notin Unresolved
  <2>1. t \in op[v].ids /\ t \in Ids
    BY <1>2, <1>10 DEF TypeOK
  <2>2. t # s
    BY <1>3, <1>13, <2>1
  <2>3. QED
    BY <1>6, <1>8, <1>13, <2>1, <2>2 DEF Inv
<1>14. \A v \in Writers : \A e \in op'[v].entries : e[1] \in op'[v].ids
  BY <1>10 DEF Inv
<1>15. QED
  BY <1>2, <1>7, <1>9, <1>12, <1>13, <1>14 DEF Inv

LEMMA NextInv == ASSUME Inv, [Next]_vars PROVE Inv'
<1>1. TypeOK /\ TypeOK'
  BY NextType DEF Inv
<1>2. CASE UNCHANGED vars
  BY <1>2 DEF vars, Inv, Last, TypeOK
<1>3. ASSUME NEW w \in Writers, TakeInventory(w) \/ OpenDirectory(w) \/ RemoveFile(w) \/ Crash(w)
      PROVE  Inv'
  <2>1. newest' = newest /\ raced' = raced /\ files' \subseteq files
    BY <1>3 DEF TakeInventory, OpenDirectory, RemoveFile, Crash
  <2>2. ASSUME NEW s \in Ids \ raced, newest[s].status \in Unresolved PROVE Last(s) \in files'
    <3>1. Last(s) \in files /\ s \notin op[w].ids
      BY <2>2 DEF Inv
    <3>2. CASE files' = files
      BY <3>1, <3>2
    <3>3. CASE \E e \in op[w].entries, f \in files : e = <<f.id, f.rev>> /\ files' = files \ {f}
      BY <3>1, <3>3 DEF Inv, Last
    <3>4. QED
      BY <1>3, <3>2, <3>3 DEF TakeInventory, OpenDirectory, RemoveFile, Crash
  <2>3. \A s \in Removable \ raced : newest[s].status \notin Unresolved
    <3>1. SUFFICES ASSUME NEW f \in Latest, Ordinary(f.status), f.id \notin raced,
                          newest[f.id].status \in Unresolved
                   PROVE  FALSE
      BY DEF Removable
    <3>2. f.id \in Ids /\ f \in files
      BY <1>1 DEF Latest, TypeOK, Records
    <3>3. Last(f.id) \in Latest /\ Last(f.id).id = f.id
      BY <3>1, <3>2, LastIsLatest DEF Inv, Last
    <3>4. Last(f.id).rev = f.rev
      <4>1. f.rev \in Nat /\ Last(f.id).rev \in Nat
        BY <1>1, <3>2, <3>3 DEF Latest, TypeOK, Records
      <4>2. f.rev <= Last(f.id).rev /\ Last(f.id).rev <= f.rev
        BY <3>1, <3>2, <3>3 DEF Latest
      <4>3. QED
        BY <4>1, <4>2
    <3>5. Last(f.id) = f
      BY <1>1, <3>2, <3>3, <3>4 DEF Latest, TypeOK
    <3>6. QED
      BY <3>1, <3>5 DEF Last, Ordinary, Unresolved
  <2>4. /\ \A s \in op'[w].ids \ raced' : newest'[s].status \notin Unresolved
        /\ \A e \in op'[w].entries : e[1] \in op'[w].ids
        /\ op'[w].pc \in {"idle", "inventory"} => op'[w].ids = {}
    <3>1. CASE op'[w] = Idle
      BY <3>1 DEF Idle
    <3>2. CASE TakeInventory(w) /\ op'[w].ids = Removable /\ op'[w].entries = op[w].entries /\ op'[w].pc = "open"
      <4>1. op[w].ids = {} /\ op[w].entries = {}
        BY <3>2 DEF TakeInventory, Inv
      <4>2. QED
        BY <2>1, <2>3, <3>2, <4>1
    <3>3. CASE OpenDirectory(w)
      <4>1. /\ op'[w].ids = op[w].ids /\ op'[w].pc = "remove"
            /\ op'[w].entries = {<<f.id, f.rev>> : f \in {g \in files : g.id \in op[w].ids}}
        BY <1>1, <3>3, OpMoves
      <4>2. QED
        BY <2>1, <4>1 DEF Inv
    <3>4. CASE op'[w].ids = op[w].ids /\ op'[w].entries \subseteq op[w].entries /\ op'[w].pc = "remove"
      BY <2>1, <3>4 DEF Inv
    <3>5. QED
      BY <1>1, <1>3, <3>1, <3>2, <3>3, <3>4, OpMoves
  <2>5. \A s \in Ids : Last(s)' = Last(s)
    BY <2>1 DEF Last
  <2>6. \A v \in Writers \ {w} : op'[v] = op[v]
    BY <1>1, <1>3, OpMoves
  <2>7. QED
    BY <1>1, <2>1, <2>2, <2>4, <2>5, <2>6 DEF Inv
<1>4. QED
  BY <1>2, <1>3, RenameInv DEF Next

\* "Unresolved snapshots are retained", but for PruneRaces.cfg: with any number
\* of saves under way, what was saved last as applied, executing or
\* recoveryFailed is what is loaded, in every state of every prune and wherever
\* one was cut short, unless that save came while another was already about to
\* remove the snapshot.
THEOREM UnresolvedSurvive == Spec => []KeptOutsideRaces
<1>1. Init => Inv
  BY InitInv
<1>2. Inv /\ [Next]_vars => Inv'
  BY NextInv
<1>3. Inv => KeptOutsideRaces
  <2> SUFFICES ASSUME Inv, NEW r \in Saved, r.status \in Unresolved, r.id \notin raced
               PROVE  r \in Latest
    BY DEF KeptOutsideRaces
  <2>1. PICK s \in Ids : r = Last(s)
    BY DEF Saved, Last
  <2>2. newest[s].status \in Unresolved /\ s \notin raced
    BY <2>1 DEF Last
  <2>3. QED
    BY <2>1, <2>2, LastIsLatest DEF Inv
<1>4. QED
  BY <1>1, <1>2, <1>3, PTL DEF Spec
-----------------------------------------------------------------------------
(* What prune keeps: which snapshots, and how many.                        *)

\* The ordinary records of a device that stay when the snapshots in ids go.
Spared(d, ids) == {f \in Latest : Ordinary(f.status) /\ DeviceOf[f.id] = d /\ f.id \notin ids}

\* The spared records that are newer than what was saved last for s.
Outranking(s, ids) == {g \in Spared(DeviceOf[s], ids) : g.at > newest[s].at}

\* The files are finite in number and no two were saved at the same time.  While
\* a save is alone no other is under way; once it knows what to remove, no more
\* than Keep ordinary snapshots of a device are left without it, and Keep that
\* are newer than any snapshot it removes; and while it removes files, it has
\* all files of those snapshots in its list.
Tidied ==
  /\ IsFiniteSet(files)
  /\ \A f \in files : f.at <= saves
  /\ \A f, g \in files : f.at = g.at => f = g
  /\ \A w \in Writers : tidy => op[w].pc = "idle"
  /\ \A w \in alone :
       /\ \A v \in Writers \ {w} : op[v].pc = "idle"
       /\ op[w].pc \in {"open", "remove"} =>
            \A d \in Devices : Cardinality(Spared(d, op[w].ids)) <= Keep
       /\ op[w].pc = "remove" =>
            \A f \in files : f.id \in op[w].ids => <<f.id, f.rev>> \in op[w].entries
       /\ \A s \in op[w].ids : Last(s) \in files =>
            /\ newest[s].status \notin Unresolved
            /\ Cardinality(Outranking(s, op[w].ids)) >= Keep
  /\ RetentionHolds

\* Every set of natural numbers that is not empty has a smallest member.
LEMMA Smallest ==
  ASSUME NEW T, T \subseteq Nat, T # {}
  PROVE  \E n \in T : \A m \in T : n <= m
<1> DEFINE lt == {p \in Nat \X Nat : p[1] < p[2]}
<1>1. IsWellFoundedOn(lt, Nat)
  BY NatLessThanWellFounded DEF OpToRel
<1> HIDE DEF lt
<1>2. PICK n \in T : \A m \in T : ~(<<m, n>> \in lt)
  BY <1>1, WFMin
<1>3. \A m \in T : ~(m < n)
  BY <1>2 DEF lt
<1>4. \A m \in T : n <= m
  BY <1>3
<1>5. QED
  BY <1>4

\* A subset of the files is finite and has a number.
LEMMA SomeFiles ==
  ASSUME IsFiniteSet(files), NEW F, F \subseteq files
  PROVE  IsFiniteSet(F) /\ Cardinality(F) \in Nat
BY FS_Subset, FS_CardinalityType

\* A snapshot has one latest record.
LEMMA OneLatest ==
  ASSUME TypeOK, NEW f \in Latest, NEW g \in Latest, f.id = g.id
  PROVE  f = g
<1>1. f \in files /\ g \in files /\ f.rev <= g.rev /\ g.rev <= f.rev
  BY DEF Latest
<1>2. f.rev \in Nat /\ g.rev \in Nat
  BY <1>1 DEF TypeOK, Records
<1>3. f.rev = g.rev
  BY <1>1, <1>2
<1>4. QED
  BY <1>1, <1>3 DEF TypeOK

\* No device keeps more than Keep ordinary snapshots.
LEMMA SparedBound ==
  ASSUME TypeOK, Tidied, NEW d
  PROVE  Cardinality(Spared(d, Removable)) <= Keep
<1> DEFINE S == Spared(d, Removable)
<1>1. S \subseteq files /\ files \subseteq Records /\ IsFiniteSet(files)
  BY DEF Spared, Latest, TypeOK, Tidied
<1>2. IsFiniteSet(S) /\ Cardinality(S) \in Nat
  BY <1>1, SomeFiles
<1>3. Keep \in Nat
  BY StoreAssumption
<1>4. CASE S = {}
  BY <1>3, <1>4, FS_EmptySet
<1>5. CASE S # {}
  <2> DEFINE T == {g.at : g \in S}
  <2>1. T \subseteq Nat /\ T # {}
    BY <1>1, <1>5 DEF Records
  <2>2. PICK n \in T : \A m \in T : n <= m
    <3> HIDE DEF T
    <3>1. QED
      BY <2>1, Smallest
  <2>3. PICK f \in S : \A g \in S : f.at <= g.at
    BY <2>2
  <2>4. f \in Latest /\ Ordinary(f.status) /\ DeviceOf[f.id] = d /\ f.id \notin Removable
    BY <2>3 DEF Spared
  <2>5. ~(Cardinality(Newer(f, Latest)) >= Keep)
    BY <2>4 DEF Removable
  <2>6. Newer(f, Latest) \subseteq files
    BY DEF Newer, Latest
  <2>7. IsFiniteSet(Newer(f, Latest)) /\ Cardinality(Newer(f, Latest)) \in Nat
    BY <1>1, <2>6, SomeFiles
  <2>8. S \ {f} \subseteq Newer(f, Latest)
    <3>1. SUFFICES ASSUME NEW g \in S, g # f PROVE g \in Newer(f, Latest)
      OBVIOUS
    <3>2. g \in Latest /\ Ordinary(g.status) /\ DeviceOf[g.id] = d
      BY DEF Spared
    <3>3. f.at \in Nat /\ g.at \in Nat /\ f.at # g.at
      BY <1>1, <2>4, <3>1, <3>2 DEF Records, Tidied
    <3>4. g.at > f.at
      BY <2>3, <3>3
    <3>5. QED
      BY <2>4, <3>2, <3>4 DEF Newer
  <2>9. Cardinality(S \ {f}) = Cardinality(S) - 1
    BY <1>2, <2>3, FS_RemoveElement
  <2>10. Cardinality(S \ {f}) <= Cardinality(Newer(f, Latest))
    BY <2>7, <2>8, FS_Subset
  <2> HIDE DEF S
  <2>11. Cardinality(S) <= Keep
    BY <1>2, <1>3, <2>5, <2>7, <2>9, <2>10
  <2>12. QED
    BY <2>11 DEF S
<1>6. QED
  BY <1>4, <1>5

\* Of the device of a snapshot that is removed, Keep ordinary snapshots that are
\* newer stay: those that are newer than the newest snapshot that is removed.
LEMMA RemovedIsOutranked ==
  ASSUME Inv, Tidied, NEW s \in Removable, Last(s) \in files
  PROVE  newest[s].status \notin Unresolved /\ Cardinality(Outranking(s, Removable)) >= Keep
<1> DEFINE R == {g \in Latest : /\ Ordinary(g.status) /\ DeviceOf[g.id] = DeviceOf[s]
                                /\ Cardinality(Newer(g, Latest)) >= Keep}
           T == {saves - g.at : g \in R}
<1>1. TypeOK /\ Latest \subseteq files /\ files \subseteq Records /\ IsFiniteSet(files) /\ saves \in Nat
  BY DEF Inv, TypeOK, Latest, Tidied
<1>2. PICK e \in Latest : e.id = s /\ Ordinary(e.status) /\ Cardinality(Newer(e, Latest)) >= Keep
  BY DEF Removable
<1>3. e = Last(s)
  <2>1. s \in Ids
    BY <1>1, <1>2 DEF Records
  <2>2. Last(s) \in Latest /\ Last(s).id = s
    BY <2>1, LastIsLatest DEF Last
  <2>3. QED
    BY <1>1, <1>2, <2>2, OneLatest
<1>4. e \in R /\ e.at = newest[s].at
  BY <1>2, <1>3 DEF Last
<1>5. PICK f \in R : \A g \in R : g.at <= f.at
  <2>1. \A g \in R : g.at \in Nat /\ g.at <= saves
    BY <1>1 DEF Records, Tidied
  <2>2. T \subseteq Nat /\ T # {}
    BY <1>1, <1>4, <2>1
  <2>3. PICK n \in T : \A m \in T : n <= m
    <3> HIDE DEF T
    <3>1. QED
      BY <2>2, Smallest
  <2>4. PICK f \in R : \A g \in R : saves - f.at <= saves - g.at
    BY <2>3
  <2> HIDE DEF R
  <2>5. \A g \in R : g.at <= f.at
    BY <1>1, <2>1, <2>4
  <2>6. QED
    BY <2>5
<1>6. Newer(f, Latest) \subseteq Outranking(s, Removable)
  <2>1. SUFFICES ASSUME NEW g \in Newer(f, Latest) PROVE g \in Outranking(s, Removable)
    OBVIOUS
  <2>2. g \in Latest /\ Ordinary(g.status) /\ DeviceOf[g.id] = DeviceOf[s] /\ g.at > f.at
    BY DEF Newer
  <2>3. f.at \in Nat /\ g.at \in Nat /\ e.at \in Nat /\ e.at <= f.at
    BY <1>1, <1>2, <1>4, <1>5, <2>2 DEF Records
  <2>4. g.id \notin Removable
    <3>1. SUFFICES ASSUME NEW h \in Latest, h.id = g.id, Cardinality(Newer(h, Latest)) >= Keep
                   PROVE  FALSE
      BY DEF Removable
    <3>2. h = g
      BY <1>1, <2>2, <3>1, OneLatest
    <3>3. g \in R
      BY <2>2, <3>1, <3>2
    <3>4. QED
      BY <1>5, <2>2, <2>3, <3>3
  <2>5. g.at > newest[s].at
    BY <1>4, <2>2, <2>3
  <2>6. QED
    BY <2>2, <2>4, <2>5 DEF Outranking, Spared
<1>7. Outranking(s, Removable) \subseteq files
  BY <1>1 DEF Outranking, Spared
<1>8. IsFiniteSet(Outranking(s, Removable)) /\ Cardinality(Outranking(s, Removable)) \in Nat
  BY <1>1, <1>7, SomeFiles
<1>9. Newer(f, Latest) \subseteq files
  BY <1>1 DEF Newer
<1>10. Cardinality(Newer(f, Latest)) \in Nat
  BY <1>1, <1>9, SomeFiles
<1>11. Cardinality(Newer(f, Latest)) <= Cardinality(Outranking(s, Removable))
  BY <1>6, <1>8, FS_Subset
<1>12. Cardinality(Newer(f, Latest)) >= Keep /\ Keep \in Nat
  BY <1>5, StoreAssumption
<1>13. newest[s].status \notin Unresolved
  BY <1>2, <1>3 DEF Last, Ordinary, Unresolved
<1>14. QED
  BY <1>8, <1>10, <1>11, <1>12, <1>13

\* What is saved gets the time of its save.
LEMMA SavedNow ==
  ASSUME NEW s \in Ids, NEW r \in Successors(s) PROVE r.at = saves + 1
BY DEF Successors

LEMMA InitTidied == Init => Tidied
<1> SUFFICES ASSUME Init PROVE Tidied
  OBVIOUS
<1>1. files = {} /\ alone = {} /\ \A w \in Writers : op[w] = Idle
  BY DEF Init
<1>2. ASSUME NEW d \in Devices
      PROVE  Cardinality({f \in Latest : f.status \notin Unresolved /\ DeviceOf[f.id] = d}) <= Keep
  <2>1. {f \in Latest : f.status \notin Unresolved /\ DeviceOf[f.id] = d} = {}
    BY <1>1 DEF Latest
  <2>2. QED
    BY <2>1, FS_EmptySet, StoreAssumption
<1>3. IsFiniteSet(files)
  BY <1>1, FS_EmptySet
<1>4. QED
  BY <1>1, <1>2, <1>3 DEF Tidied, RetentionHolds, Idle

LEMMA RenameTidied ==
  ASSUME Inv, Tidied, NEW w \in Writers, Rename(w)
  PROVE  Tidied'
<1>0. PICK s \in Ids : \E r \in Successors(s) :
        files' = {f \in files : f.id # s \/ f.rev # r.rev} \union {r}
  BY DEF Rename
<1>1. PICK r \in Successors(s) : files' = {f \in files : f.id # s \/ f.rev # r.rev} \union {r}
  BY <1>0
<1>2. TypeOK /\ saves' = saves + 1 /\ tidy' = FALSE /\ op[w].pc = "idle"
  BY DEF Rename, Inv
<1>3. r \in Records /\ r.at = saves + 1
  BY <1>1, <1>2, SuccessorsType, SavedNow
<1>4. files' \subseteq files \union {r} /\ saves \in Nat /\ \A f \in files : f.at \in Nat /\ f.at <= saves
  BY <1>1, <1>2 DEF TypeOK, Records, Tidied
<1>5. IsFiniteSet(files')
  BY <1>4, FS_AddElement, FS_Subset DEF Tidied
<1>6. \A f \in files' : f.at <= saves'
  BY <1>2, <1>3, <1>4
<1>7. \A f, g \in files' : f.at = g.at => f = g
  BY <1>3, <1>4 DEF Tidied
<1>8. op'[w].ids = {} /\ op'[w].pc = "inventory" /\ \A v \in Writers \ {w} : op'[v] = op[v]
  BY <1>2, OpMoves DEF Inv
<1>9. alone' = IF \A v \in Writers : op[v].pc = "idle" THEN {w} ELSE {}
  BY DEF Rename
<1>10. QED
  BY <1>2, <1>5, <1>6, <1>7, <1>8, <1>9 DEF Tidied, RetentionHolds

\* Removing files changes nothing for the snapshots that have none among them.
LEMMA SparedStay ==
  ASSUME NEW ids, files' \subseteq files, \A f \in files \ files' : f.id \in ids, NEW d
  PROVE  {f \in Latest' : Ordinary(f.status) /\ DeviceOf[f.id] = d /\ f.id \notin ids} = Spared(d, ids)
BY DEF Spared, Latest

\* One file of a snapshot that is removed goes.
LEMMA RemovalTidied ==
  ASSUME Inv, Tidied, NEW w \in Writers, op[w].pc = "remove",
         NEW e \in op[w].entries, NEW f \in files, e = <<f.id, f.rev>>, files' = files \ {f},
         op' = [op EXCEPT ![w].entries = @ \ {e}], UNCHANGED <<saves, newest, alone, tidy>>
  PROVE  Tidied'
<1>1. TypeOK /\ op[w] \in OpRecords /\ files \subseteq Records
  BY DEF Inv, TypeOK, OpRecords
<1>2. op'[w] = [op[w] EXCEPT !.entries = op[w].entries \ {e}]
  BY <1>1 DEF TypeOK
<1>3. /\ op'[w].pc = "remove" /\ op'[w].ids = op[w].ids /\ op'[w].entries = op[w].entries \ {e}
      /\ \A v \in Writers \ {w} : op'[v] = op[v]
  BY <1>1, <1>2 DEF OpRecords, TypeOK
<1>4. f.id \in op[w].ids
  BY DEF Inv
<1>5. files' \subseteq files /\ \A g \in files \ files' : g.id \in op[w].ids
  BY <1>4
<1>6. \A d : Spared(d, op[w].ids)' = Spared(d, op[w].ids)
  <2>1. \A d : Spared(d, op[w].ids)' =
          {g \in Latest' : Ordinary(g.status) /\ DeviceOf[g.id] = d /\ g.id \notin op[w].ids}
    BY <1>3 DEF Spared
  <2>2. QED
    BY <1>5, <2>1, SparedStay
<1>7. \A s : Outranking(s, op[w].ids)' = Outranking(s, op[w].ids)
  BY <1>6 DEF Outranking
<1>8. \A s : Last(s)' = Last(s)
  BY DEF Last
<1>9. w \in alone => \A g \in files' : g.id \in op'[w].ids => <<g.id, g.rev>> \in op'[w].entries
  <2>1. SUFFICES ASSUME w \in alone, NEW g \in files', g.id \in op[w].ids
                 PROVE  <<g.id, g.rev>> \in op'[w].entries
    BY <1>3
  <2>2. g \in files /\ g # f /\ <<g.id, g.rev>> \in op[w].entries
    BY <2>1 DEF Tidied
  <2>3. <<g.id, g.rev>> # e
    BY <1>1, <2>2 DEF TypeOK
  <2>4. QED
    BY <1>3, <2>2, <2>3
<1>10. w \in alone => \A s \in op'[w].ids : Last(s)' \in files' =>
                        /\ newest'[s].status \notin Unresolved
                        /\ Cardinality(Outranking(s, op[w].ids)') >= Keep
  BY <1>3, <1>5, <1>7, <1>8 DEF Tidied
<1>11. w \in alone => \A d \in Devices : Cardinality(Spared(d, op[w].ids)') <= Keep
  BY <1>6 DEF Tidied
<1>12. IsFiniteSet(files') /\ ~tidy'
  BY <1>5, FS_Subset DEF Tidied
<1>13. /\ \A g \in files' : g.at <= saves'
       /\ \A g, h \in files' : g.at = h.at => g = h
  BY <1>5 DEF Tidied
<1>14. \A u \in alone' : u = w /\ \A v \in Writers \ {w} : op'[v].pc = "idle"
  BY <1>1, <1>3 DEF Tidied
<1>15. QED
  BY <1>3, <1>9, <1>10, <1>11, <1>12, <1>13, <1>14 DEF Tidied, RetentionHolds

\* What a step of a save under way leaves as it is.
LEMMA SaveMoves ==
  ASSUME TypeOK, NEW w \in Writers, TakeInventory(w) \/ OpenDirectory(w) \/ RemoveFile(w) \/ Crash(w)
  PROVE  op[w].pc # "idle" /\ \A v \in Writers \ {w} : op'[v] = op[v]
<1>1. op[w].pc # "idle"
  BY DEF TakeInventory, OpenDirectory, RemoveFile, Crash
<1>2. QED
  BY <1>1, OpMoves

\* The files stay and the save that no other overlaps goes on or returns.
LEMMA AloneTidied ==
  ASSUME Inv, Tidied, NEW w \in Writers, w \in alone,
         TakeInventory(w) \/ OpenDirectory(w) \/ RemoveFile(w) \/ Crash(w), files' = files
  PROVE  Tidied'
<1>1. TypeOK /\ op[w] \in OpRecords /\ UNCHANGED <<saves, newest, alone>>
  BY DEF Inv, TypeOK, OpRecords, TakeInventory, OpenDirectory, RemoveFile, Crash
<1>2. Latest' = Latest /\ \A s : Last(s)' = Last(s)
  BY <1>1 DEF Latest, Last
<1>3. ~tidy /\ \A u \in alone' : u = w /\ \A v \in Writers \ {w} : op'[v].pc = "idle"
  BY <1>1, SaveMoves DEF Tidied, TypeOK
<1>4. ASSUME NEW ids, tidy', op' = [op EXCEPT ![w] = Idle],
             \A d \in Devices : Cardinality(Spared(d, ids)) <= Keep,
             \A f \in files : f.id \notin ids
      PROVE  Tidied'
  <2>1. op'[w] = Idle
    BY <1>1, <1>4 DEF TypeOK
  <2>2. \A d : {f \in Latest : f.status \notin Unresolved /\ DeviceOf[f.id] = d} = Spared(d, ids)
    BY <1>4 DEF Spared, Latest, Ordinary, Unresolved
  <2>3. RetentionHolds'
    BY <1>2, <1>4, <2>2 DEF RetentionHolds
  <2>4. QED
    BY <1>1, <1>3, <2>1, <2>3 DEF Tidied, Idle
<1>5. CASE Return(w, FALSE)
  <2>1. op'[w] = Idle /\ tidy' = FALSE
    BY <1>1, <1>5, ReturnOp DEF Return
  <2>2. QED
    BY <1>1, <1>3, <2>1 DEF Tidied, Idle, RetentionHolds
<1>6. CASE Removable = {} /\ Return(w, TRUE)
  <2>1. \A d \in Devices : Cardinality(Spared(d, {})) <= Keep
    BY <1>1, <1>6, SparedBound
  <2>2. tidy'
    BY <1>6 DEF Return
  <2>3. QED
    BY <1>4, <1>6, <2>1, <2>2 DEF Return
<1>7. CASE op[w].pc = "inventory" /\ op' = [op EXCEPT ![w].pc = "open", ![w].ids = Removable] /\ tidy' = tidy
  <2>1. op'[w] = [op[w] EXCEPT !.pc = "open", !.ids = Removable]
    BY <1>1, <1>7 DEF TypeOK
  <2>2. op'[w].pc = "open" /\ op'[w].ids = Removable
    BY <1>1, <2>1 DEF OpRecords
  <2>3. /\ \A d : Spared(d, op[w].ids)' = Spared(d, Removable)
        /\ \A s : Outranking(s, op[w].ids)' = Outranking(s, Removable)
    BY <1>1, <1>2, <2>2 DEF Spared, Outranking
  <2>4. \A d \in Devices : Cardinality(Spared(d, op[w].ids)') <= Keep
    BY <1>1, <2>3, SparedBound
  <2>5. \A s \in op'[w].ids : Last(s)' \in files' =>
          /\ newest'[s].status \notin Unresolved
          /\ Cardinality(Outranking(s, op[w].ids)') >= Keep
    BY <1>1, <1>2, <2>2, <2>3, RemovedIsOutranked
  <2>6. ~tidy'
    BY <1>7 DEF Tidied
  <2>7. QED
    BY <1>1, <1>3, <2>2, <2>4, <2>5, <2>6 DEF Tidied, RetentionHolds
<1>8. CASE OpenDirectory(w)
  <2>1. /\ op'[w].ids = op[w].ids /\ op'[w].pc = "remove"
        /\ op'[w].entries = {<<f.id, f.rev>> : f \in {g \in files : g.id \in op[w].ids}}
    BY <1>1, <1>8, OpMoves
  <2>2. /\ \A d : Spared(d, op[w].ids)' = Spared(d, op[w].ids)
        /\ \A s : Outranking(s, op[w].ids)' = Outranking(s, op[w].ids)
    BY <1>1, <1>2, <2>1 DEF Spared, Outranking
  <2>3. op[w].pc = "open" /\ ~tidy'
    BY <1>8 DEF OpenDirectory, Tidied
  <2>4. \A d \in Devices : Cardinality(Spared(d, op[w].ids)') <= Keep
    BY <2>2, <2>3 DEF Tidied
  <2>5. \A s \in op'[w].ids : Last(s)' \in files' =>
          /\ newest'[s].status \notin Unresolved
          /\ Cardinality(Outranking(s, op[w].ids)') >= Keep
    BY <1>1, <1>2, <2>1, <2>2 DEF Tidied
  <2>6. \A f \in files' : f.id \in op'[w].ids => <<f.id, f.rev>> \in op'[w].entries
    BY <2>1
  <2>7. QED
    BY <1>1, <1>3, <2>1, <2>3, <2>4, <2>5, <2>6 DEF Tidied, RetentionHolds
<1>9. CASE op[w].pc = "remove" /\ op[w].entries = {} /\ Return(w, TRUE)
  <2>1. \A d \in Devices : Cardinality(Spared(d, op[w].ids)) <= Keep
    BY <1>9 DEF Tidied
  <2>2. \A f \in files : f.id \notin op[w].ids
    BY <1>9 DEF Tidied
  <2>3. tidy'
    BY <1>9 DEF Return
  <2>4. QED
    BY <1>4, <1>9, <2>1, <2>2, <2>3 DEF Return
<1>10. QED
  BY <1>5, <1>6, <1>7, <1>8, <1>9 DEF TakeInventory, RemoveFile, Crash

\* The files stay and a save goes on or returns.
LEMMA OthersTidied ==
  ASSUME Inv, Tidied, NEW w \in Writers,
         TakeInventory(w) \/ OpenDirectory(w) \/ RemoveFile(w) \/ Crash(w), files' = files
  PROVE  Tidied'
<1>1. CASE w \in alone
  BY <1>1, AloneTidied
<1>2. CASE w \notin alone
  <2>1. TypeOK /\ UNCHANGED <<saves, newest, alone>>
    BY DEF Inv, TakeInventory, OpenDirectory, RemoveFile, Crash
  <2>2. op[w].pc # "idle" /\ ~tidy
    BY <2>1, SaveMoves DEF Tidied
  <2>3. alone' = {}
    BY <1>2, <2>1, <2>2 DEF Tidied, TypeOK
  <2>4. ~tidy'
    BY <1>2, <2>2 DEF TakeInventory, OpenDirectory, RemoveFile, Crash, Return
  <2>5. QED
    BY <2>1, <2>3, <2>4 DEF Tidied, RetentionHolds
<1>3. QED
  BY <1>1, <1>2

LEMMA NextTidied == ASSUME Inv, Tidied, [Next]_vars PROVE Tidied'
<1>1. CASE UNCHANGED vars
  <2>1. Latest' = Latest /\ Removable' = Removable
    BY <1>1 DEF vars, Latest, Removable, Newer
  <2>2. QED
    BY <1>1, <2>1 DEF vars, Tidied, Last, Spared, Outranking, RetentionHolds
<1>2. ASSUME NEW w \in Writers, TakeInventory(w) \/ OpenDirectory(w) \/ RemoveFile(w) \/ Crash(w)
      PROVE  Tidied'
  <2>1. CASE files' = files
    BY <1>2, <2>1, OthersTidied
  <2>2. CASE files' # files
    <3>1. /\ op[w].pc = "remove" /\ UNCHANGED <<saves, newest, alone, tidy>>
          /\ \E e \in op[w].entries : \E f \in files :
               /\ e = <<f.id, f.rev>> /\ files' = files \ {f}
               /\ op' = [op EXCEPT ![w].entries = @ \ {e}]
      BY <1>2, <2>2 DEF TakeInventory, OpenDirectory, RemoveFile, Crash
    <3>2. QED
      BY <3>1, RemovalTidied
  <2>3. QED
    BY <2>1, <2>2
<1>3. QED
  BY <1>1, <1>2, RenameTidied DEF Next

\* "Up to 20 ordinary snapshots per device": a save that returned Ok and that no
\* other overlapped leaves no device with more than Keep of them, for any limit
\* and whatever the saves before it, overlapping or cut short, left behind.
THEOREM LimitHolds == Spec => []RetentionHolds
<1>1. Init => Inv /\ Tidied
  BY InitInv, InitTidied
<1>2. Inv /\ Tidied /\ [Next]_vars => Inv' /\ Tidied'
  BY NextInv, NextTidied
<1>3. Tidied => RetentionHolds
  BY DEF Tidied
<1>4. QED
  BY <1>1, <1>2, <1>3, PTL DEF Spec

\* The record that was saved last for a snapshot goes only in a prune.
LEMMA OnlyPruneRemoves ==
  ASSUME Inv, Next, NEW s \in Ids, Last(s) \in files, Last(s) \notin files'
  PROVE  \E w \in Writers : s \in op[w].ids
<1>1. PICK w \in Writers :
        Rename(w) \/ TakeInventory(w) \/ OpenDirectory(w) \/ RemoveFile(w) \/ Crash(w)
  BY DEF Next
<1>2. CASE Rename(w)
  <2>0. PICK t \in Ids : \E r \in Successors(t) :
          files' = {f \in files : f.id # t \/ f.rev # r.rev} \union {r}
    BY <1>2 DEF Rename
  <2>1. PICK r \in Successors(t) :
          files' = {f \in files : f.id # t \/ f.rev # r.rev} \union {r}
    BY <2>0
  <2>2. t = s /\ r.rev = newest[s].rev
    BY <2>1 DEF Last
  <2>3. newest[s].rev \in Nat
    BY DEF Inv, TypeOK
  <2>4. r.rev = newest[s].rev + 1
    <3>1. ASSUME NEW f \in Latest, f.id = s PROVE f.rev = newest[s].rev
      <4>1. Last(s) \in Latest /\ Last(s).id = s
        BY LastIsLatest DEF Last
      <4>2. f = Last(s)
        BY <3>1, <4>1, OneLatest DEF Inv
      <4>3. QED
        BY <4>2 DEF Last
    <3>2. QED
      BY <2>2, <3>1 DEF Successors, NextRevision
  <2>5. QED
    BY <2>2, <2>3, <2>4
<1>3. CASE RemoveFile(w)
  <2>1. PICK e \in op[w].entries : \E f \in files : e = <<f.id, f.rev>> /\ files' = files \ {f}
    BY <1>3 DEF RemoveFile
  <2>2. e[1] = s
    BY <2>1 DEF Last
  <2>3. QED
    BY <2>2 DEF Inv
<1>4. QED
  BY <1>1, <1>2, <1>3 DEF TakeInventory, OpenDirectory, Crash

\* While a save that no other overlaps is under way, the record that was saved
\* last for a snapshot is removed only if it is ordinary and Keep newer ordinary
\* snapshots of its device are there, at that moment and not only when prune
\* looked.
THEOREM PrunedIsExcess == Spec => OnlyExcessIsPruned
<1>1. Init => Inv /\ Tidied
  BY InitInv, InitTidied
<1>2. Inv /\ Tidied /\ [Next]_vars => Inv' /\ Tidied'
  BY NextInv, NextTidied
<1>3. Inv /\ Tidied /\ [Next]_vars =>
      [alone # {} => \A r \in Saved : r \in files /\ r \notin files' =>
             /\ r.status \notin Unresolved
             /\ Cardinality({g \in Latest : /\ g.status \notin Unresolved
                                           /\ DeviceOf[g.id] = DeviceOf[r.id]
                                           /\ g.at > r.at}) >= Keep]_vars
  <2> SUFFICES ASSUME Inv, Tidied, Next, alone # {}, NEW r \in Saved, r \in files, r \notin files'
               PROVE  /\ r.status \notin Unresolved
                      /\ Cardinality({g \in Latest : /\ g.status \notin Unresolved
                                                     /\ DeviceOf[g.id] = DeviceOf[r.id]
                                                     /\ g.at > r.at}) >= Keep
    OBVIOUS
  <2> DEFINE Outranked == {g \in Latest : /\ g.status \notin Unresolved
                                          /\ DeviceOf[g.id] = DeviceOf[r.id]
                                          /\ g.at > r.at}
  <2>1. PICK s \in Ids : r = Last(s)
    BY DEF Saved, Last
  <2>2. PICK w \in Writers : s \in op[w].ids
    BY <2>1, OnlyPruneRemoves
  <2>3. newest[s].status \notin Unresolved /\ Cardinality(Outranking(s, op[w].ids)) >= Keep
    <3>1. op[w].pc # "idle"
      BY <2>2 DEF Inv
    <3>2. w \in alone
      BY <3>1 DEF Inv, Tidied, TypeOK
    <3>3. QED
      BY <2>1, <2>2, <3>2 DEF Tidied
  <2>4. Outranking(s, op[w].ids) \subseteq Outranked /\ Outranked \subseteq files
    BY <2>1 DEF Outranking, Spared, Last, Latest, Ordinary, Unresolved
  <2> HIDE DEF Outranked
  <2>5. IsFiniteSet(Outranked) /\ Cardinality(Outranked) \in Nat
    BY <2>4, SomeFiles DEF Tidied
  <2>6. /\ Cardinality(Outranking(s, op[w].ids)) \in Nat
        /\ Cardinality(Outranking(s, op[w].ids)) <= Cardinality(Outranked)
    BY <2>4, <2>5, FS_Subset, FS_CardinalityType
  <2>7. Cardinality(Outranked) >= Keep /\ r.status = newest[s].status
    BY <2>1, <2>3, <2>5, <2>6, StoreAssumption DEF Last
  <2>8. QED
    BY <2>3, <2>7 DEF Outranked
<1>4. QED
  BY <1>1, <1>2, <1>3, PTL DEF Spec, OnlyExcessIsPruned
=============================================================================
