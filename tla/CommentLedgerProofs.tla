------------------------- MODULE CommentLedgerProofs -------------------------
(***************************************************************************)
(* What CommentLedger guarantees for every number of runs, every cap and   *)
(* every set of lines and drafts, proved with TLAPS.                       *)
(***************************************************************************)
EXTENDS CommentLedger, FiniteSetTheorems, TLAPS

USE CapAssumption

(***************************************************************************)
(* The slots of the table and the type of what a run sends.                *)
(***************************************************************************)
LEMMA SlotOne == 1 \in Slot
BY DEF Slot

LEMMA NoRowIsNoRow ==
  ASSUME NEW l \in Lines, NEW r \in Runs, NEW st \in Status
  PROVE  /\ [line |-> l, run |-> r, status |-> st] \in Row
         /\ [line |-> l, run |-> r, status |-> st] # NoRow
BY NoRowAssumption DEF Row

(* A live run is on one of its drafts, so Item is a draft.                 *)
LEMMA LiveItem ==
  ASSUME TypeOK, OnItem, NEW r \in Runs, Live(r)
  PROVE  /\ Item(r) \in Draft
         /\ Item(r).line \in Lines
         /\ pos[r] \in 1 .. Len(kept[r])
<1>1. pos[r] \in 1 .. Len(kept[r]) /\ kept[r] \in Seq(Draft)
  BY DEF TypeOK, OnItem
<1>2. Item(r) \in Draft
  BY <1>1 DEF Item
<1>. QED
  BY <1>1, <1>2 DEF Draft

(* Marking a row is rewriting the run's own pending row.                   *)
LEMMA MarkedRow ==
  ASSUME TypeOK, OnItem, HolderHasRow,
         NEW r \in Runs, Holding(r), NEW st \in Status
  PROVE  /\ slot[r] \in Slot
         /\ [table EXCEPT ![slot[r]].status = st]
              = [table EXCEPT ![slot[r]] =
                   [line |-> Item(r).line, run |-> r, status |-> st]]
         /\ [line |-> Item(r).line, run |-> r, status |-> st] \in Row
         /\ table[slot[r]] # NoRow
         /\ Item(r).line \in Lines
<1>1. slot[r] \in Slot /\ Live(r)
  BY DEF TypeOK, Holding, Live
<1>2. Item(r).line \in Lines
  BY <1>1, LiveItem
<1>3. table[slot[r]] = [line |-> Item(r).line, run |-> r, status |-> "pending"]
  BY DEF HolderHasRow
<1>4. [table[slot[r]] EXCEPT !.status = st]
        = [line |-> Item(r).line, run |-> r, status |-> st]
  BY <1>3
<1>. QED
  BY <1>1, <1>2, <1>3, <1>4, NoRowIsNoRow DEF Status

-----------------------------------------------------------------------------
(***************************************************************************)
(* The core of the invariant: types, the loop index, and that a run which  *)
(* holds a slot finds its own pending row there.  Marking a row is typed   *)
(* only because of the last, so the three are proved together.             *)
(***************************************************************************)
Core == TypeOK /\ OnItem /\ HolderHasRow

(* What a run that holds a slot finds in it.                               *)
LEMMA HeldRow ==
  ASSUME Core, NEW r \in Runs, Holding(r)
  PROVE  /\ slot[r] \in Slot
         /\ table[slot[r]] # NoRow
         /\ table[slot[r]].run = r
         /\ table[slot[r]].line = Item(r).line
         /\ table[slot[r]].status = "pending"
         /\ Item(r).line \in Lines
         /\ Live(r)
<1>1. Live(r) /\ slot[r] \in Slot
  BY DEF Core, TypeOK, Holding, Live
<1>2. Item(r).line \in Lines
  BY <1>1, LiveItem DEF Core
<1>3. table[slot[r]] = [line |-> Item(r).line, run |-> r, status |-> "pending"]
  BY DEF Core, HolderHasRow
<1>4. /\ table[slot[r]].run = r
      /\ table[slot[r]].line = Item(r).line
      /\ table[slot[r]].status = "pending"
  BY <1>3
<1>. QED
  BY <1>1, <1>2, <1>3, <1>4, NoRowIsNoRow DEF Status

LEMMA CoreInit == Init => Core
BY SlotOne DEF Init, Core, TypeOK, OnItem, HolderHasRow, Live, Holding, PC

(* post() is entered: nothing of the table is touched.                     *)
LEMMA CoreCall ==
  ASSUME Core, NEW r \in Runs, NEW batch \in Batches, Call(r, batch)
  PROVE  Core'
<1>1. batch \in Seq(Draft) /\ Len(batch) \in Nat /\ (batch # <<>> => Len(batch) >= 1)
  BY BatchesAssumption
<1>2. TypeOK'
  BY <1>1 DEF Core, TypeOK, Call, Goto, At, PC
<1>3. OnItem'
  BY <1>1 DEF Core, TypeOK, OnItem, Call, Goto, At, Live
<1>4. HolderHasRow'
  BY DEF Core, TypeOK, HolderHasRow, Call, Goto, At, Holding, Item
<1>. QED
  BY <1>2, <1>3, <1>4 DEF Core

(* The INSERT that takes the row writes a slot nobody holds.               *)
LEMMA CoreInsertRow ==
  ASSUME Core, NEW r \in Runs, InsertRow(r)
  PROVE  Core'
<1>1. Item(r).line \in Lines /\ slot[r] \in Slot
  BY LiveItem DEF Core, TypeOK, InsertRow, At, Live
<1>2. [line |-> Item(r).line, run |-> r, status |-> "pending"] \in Row
  BY <1>1, NoRowIsNoRow DEF Status
<1>3. TypeOK'
  BY <1>1, <1>2 DEF Core, TypeOK, InsertRow, Goto, PC
<1>4. OnItem'
  BY DEF Core, TypeOK, OnItem, InsertRow, Goto, At, Live
<1>5. ASSUME NEW q \in Runs, Holding(q)'
      PROVE  table'[slot'[q]] = [line |-> Item(q)'.line, run |-> q, status |-> "pending"]
  <2>1. CASE q = r
    BY <1>1, <2>1 DEF Core, TypeOK, InsertRow, Item
  <2>2. CASE q # r
    <3>1. Holding(q)
      BY <1>5, <2>2 DEF Core, TypeOK, InsertRow, Goto, Holding
    <3>2. slot[q] # slot[r] /\ slot[q] \in Slot
      BY <1>2, <3>1, LiveItem, NoRowIsNoRow
      DEF Core, TypeOK, HolderHasRow, InsertRow, Insertable, Status, Holding, Live
    <3>. QED
      BY <1>1, <3>1, <3>2 DEF Core, TypeOK, HolderHasRow, InsertRow, Item
  <2>. QED
    BY <2>1, <2>2
<1>. QED
  BY <1>3, <1>4, <1>5 DEF Core, HolderHasRow

(* The statements that change neither the table nor the loop index: only   *)
(* pc, and perhaps sent and reply, of one run move, and no run comes to    *)
(* hold a slot that did not hold it before.                                *)
LEMMA CoreStay ==
  ASSUME Core, NEW r \in Runs, Live(r), NEW where \in PC, where # "idle",
         Holding(r) \/ ~(where \in {"send", "await", "mark_posted", "mark_failed"}),
         Goto(r, where), UNCHANGED <<table, kept, pos, slot>>,
         sent' \in [Runs -> Nat],
         reply' \in [Runs -> {"none", "created", "refused"}],
         wire' \subseteq Request, comments' \subseteq Request
  PROVE  Core'
<1>1. TypeOK'
  BY DEF Core, TypeOK, Goto
<1>2. OnItem'
  BY DEF Core, TypeOK, OnItem, Goto, Live
<1>3. HolderHasRow'
  BY DEF Core, TypeOK, HolderHasRow, Goto, Holding, Item
<1>. QED
  BY <1>1, <1>2, <1>3 DEF Core

(* Going on to the next draft, the table unchanged or the run's own row    *)
(* marked.                                                                 *)
LEMMA CoreNextItem ==
  ASSUME Core, NEW r \in Runs, Live(r), NextItem(r),
         UNCHANGED <<reply, wire, comments>>,
         table' \in [Slot -> Row \cup {NoRow}],
         \A s \in Slot : table'[s] # table[s] => Holding(r) /\ s = slot[r]
  PROVE  Core'
<1>1. pos[r] \in 1 .. Len(kept[r]) /\ Len(kept[r]) \in Nat
  BY LiveItem DEF Core, TypeOK
<1>2. TypeOK'
  BY <1>1, SlotOne DEF Core, TypeOK, NextItem, Goto, PC
<1>3. OnItem'
  BY <1>1 DEF Core, TypeOK, OnItem, NextItem, Goto, Live
<1>4. ASSUME NEW q \in Runs, Holding(q)'
      PROVE  table'[slot'[q]] = [line |-> Item(q)'.line, run |-> q, status |-> "pending"]
  <2>1. q # r /\ Holding(q) /\ slot'[q] = slot[q] /\ Item(q)' = Item(q)
    BY <1>4 DEF Core, TypeOK, NextItem, Goto, Holding, Item
  <2>2. Holding(r) => slot[q] # slot[r]
    BY <2>1, HeldRow
  <2>3. table'[slot[q]] = table[slot[q]]
    BY <2>1, <2>2 DEF Core, TypeOK
  <2>. QED
    BY <2>1, <2>3 DEF Core, HolderHasRow
<1>. QED
  BY <1>2, <1>3, <1>4 DEF Core, HolderHasRow

LEMMA CoreMark ==
  ASSUME Core, NEW r \in Runs, Holding(r), NEW st \in Status, Mark(r, st)
  PROVE  Core'
<1>1. Live(r)
  BY DEF Holding, Live
<1>2. /\ slot[r] \in Slot
      /\ table' = [table EXCEPT ![slot[r]] =
                      [line |-> Item(r).line, run |-> r, status |-> st]]
      /\ [line |-> Item(r).line, run |-> r, status |-> st] \in Row
  BY MarkedRow DEF Core, Mark
<1>3. /\ table' \in [Slot -> Row \cup {NoRow}]
      /\ \A s \in Slot : table'[s] # table[s] => Holding(r) /\ s = slot[r]
  BY <1>2 DEF Core, TypeOK
<1>. QED
  BY <1>1, <1>3, CoreNextItem DEF Mark

(* The request a run sends is well formed.                                 *)
LEMMA SentRequest ==
  ASSUME Core, NEW r \in Runs, Send(r)
  PROVE  [run |-> r, n |-> sent[r] + 1, line |-> Item(r).line, slot |-> slot[r]]
           \in Request
<1>1. Live(r)
  BY DEF Send, At, Live
<1>2. Item(r).line \in Lines /\ slot[r] \in Slot /\ sent[r] \in Nat
  BY <1>1, LiveItem DEF Core, TypeOK
<1>. QED
  BY <1>2 DEF Request

LEMMA CorePostStep ==
  ASSUME Core, NEW r \in Runs, PostStep(r)
  PROVE  Core'
<1>1. CASE InsertRow(r)
  BY <1>1, CoreInsertRow
<1>2. CASE InsertConflict(r)
  BY <1>2, CoreStay DEF InsertConflict, At, Live, PC, Core, TypeOK
<1>3. CASE GiveUp(r)
  BY <1>3, CoreNextItem DEF GiveUp, At, Live, Core, TypeOK
<1>4. CASE TryNextSlot(r)
  <2>1. TypeOK'
    BY <1>4 DEF Core, TypeOK, TryNextSlot, Goto, PC, Slot
  <2>2. OnItem'
    BY <1>4 DEF Core, TypeOK, OnItem, TryNextSlot, Goto, At, Live
  <2>3. HolderHasRow'
    BY <1>4 DEF Core, TypeOK, HolderHasRow, TryNextSlot, Goto, At, Holding, Item
  <2>. QED
    BY <2>1, <2>2, <2>3 DEF Core
<1>5. CASE RefuseWrite(r)
  BY <1>5, CoreStay DEF RefuseWrite, At, Live, PC, Core, TypeOK
<1>6. CASE Send(r)
  <2>1. /\ Live(r) /\ Holding(r) /\ Goto(r, "await")
        /\ sent' \in [Runs -> Nat]
        /\ reply' \in [Runs -> {"none", "created", "refused"}]
        /\ UNCHANGED <<table, kept, pos, slot, comments>>
    BY <1>6 DEF Core, TypeOK, Send, At, Live, Holding
  <2>2. wire' \subseteq Request /\ comments' \subseteq Request
    BY <1>6, <2>1, SentRequest DEF Core, TypeOK, Send
  <2>. QED
    BY <2>1, <2>2, CoreStay DEF PC
<1>7. CASE ReadReply(r)
  <2>1. PICK where \in {"mark_posted", "mark_failed"} : Goto(r, where)
    BY <1>7 DEF ReadReply
  <2>. QED
    BY <1>7, <2>1, CoreStay DEF ReadReply, At, Live, Holding, PC, Core, TypeOK
<1>8. CASE HttpError(r)
  BY <1>8, CoreStay DEF HttpError, At, Live, Holding, PC, Core, TypeOK
<1>9. CASE MarkPosted(r)
  BY <1>9, CoreMark DEF MarkPosted, At, Holding, Status
<1>10. CASE MarkFailed(r)
  BY <1>10, CoreMark DEF MarkFailed, At, Holding, Status
<1>. QED
  BY <1>1, <1>2, <1>3, <1>4, <1>5, <1>6, <1>7, <1>8, <1>9, <1>10 DEF PostStep

LEMMA CoreGitHub ==
  ASSUME Core, GitHubStep
  PROVE  Core' /\ UNCHANGED <<table, pc, kept, pos, slot, sent>>
<1>1. PICK m \in wire : Accept(m) \/ Reject(m) \/ Lose(m)
  BY DEF GitHubStep
<1>2. /\ UNCHANGED <<table, pc, kept, pos, slot, sent>>
      /\ reply' \in [Runs -> {"none", "created", "refused"}]
      /\ wire' \subseteq Request /\ comments' \subseteq Request
  BY <1>1 DEF Core, TypeOK, Accept, Reject, Lose, Answer, runVars
<1>. QED
  BY <1>2 DEF Core, TypeOK, OnItem, HolderHasRow, Live, Holding, Item

LEMMA CoreNext == Core /\ [Next]_vars => Core'
<1> SUFFICES ASSUME Core, [Next]_vars PROVE Core'
  OBVIOUS
<1>1. ASSUME NEW r \in Runs, Kill(r)
      PROVE  Core'
  BY <1>1, CoreStay DEF Kill, PC, Core, TypeOK
<1>2. CASE UNCHANGED vars
  BY <1>2 DEF vars, runVars, Core, TypeOK, OnItem, HolderHasRow, Live, Holding, Item
<1>. QED
  BY <1>1, <1>2, CoreCall, CorePostStep, CoreGitHub DEF Next

THEOREM CoreInvariant == Spec => []Core
BY CoreInit, CoreNext, PTL DEF Spec

(* The table, the runs and the requests always have the shapes TypeOK      *)
(* names: a slot holds one whole row or none, and no run's loop leaves the *)
(* slots 1..Cap (take_slot, range(1, cap + 1)).                            *)
THEOREM TypeCorrect == Spec => []TypeOK
BY CoreInvariant, PTL DEF Core

-----------------------------------------------------------------------------
(***************************************************************************)
(* How the table moves: a step inserts one run's row into a free slot for  *)
(* a line no row carries, marks a held row, or leaves the table alone.     *)
(***************************************************************************)
TableInsert(r) ==
  /\ slot[r] \in Slot
  /\ Insertable(slot[r], Item(r).line)
  /\ table' = [table EXCEPT
        ![slot[r]] = [line |-> Item(r).line, run |-> r, status |-> "pending"]]

TableMark(r) ==
  /\ Holding(r)
  /\ \E st \in Status :
       table' = [table EXCEPT
          ![slot[r]] = [line |-> Item(r).line, run |-> r, status |-> st]]

LEMMA TableStep ==
  ASSUME Core, [Next]_vars
  PROVE  \/ table' = table
         \/ \E r \in Runs : TableInsert(r) \/ TableMark(r)
<1>1. ASSUME NEW r \in Runs, InsertRow(r)
      PROVE  TableInsert(r)
  BY <1>1 DEF InsertRow, TableInsert, Core, TypeOK
<1>2. ASSUME NEW r \in Runs, NEW st \in Status, Holding(r), Mark(r, st)
      PROVE  TableMark(r)
  BY <1>2, MarkedRow DEF Mark, TableMark, Core
<1>3. ASSUME NEW r \in Runs, MarkPosted(r) \/ MarkFailed(r)
      PROVE  TableMark(r)
  BY <1>2, <1>3 DEF MarkPosted, MarkFailed, At, Holding, Status
<1>4. ASSUME NEW r \in Runs, PostStep(r), ~InsertRow(r), ~MarkPosted(r), ~MarkFailed(r)
      PROVE  table' = table
  BY <1>4 DEF PostStep, InsertConflict, GiveUp, TryNextSlot, RefuseWrite, Send,
              ReadReply, HttpError
<1>5. ASSUME NEW r \in Runs, Kill(r) \/ \E batch \in Batches : Call(r, batch)
      PROVE  table' = table
  BY <1>5 DEF Kill, Call
<1>6. CASE GitHubStep
  BY <1>6, CoreGitHub
<1>7. CASE UNCHANGED vars
  BY <1>7 DEF vars
<1>. QED
  BY <1>1, <1>3, <1>4, <1>5, <1>6, <1>7 DEF Next

(* Rows are for ever: what an insert or a mark does to every slot.         *)
LEMMA RowsStay ==
  ASSUME Core, [Next]_vars, NEW s \in Slot, table[s] # NoRow
  PROVE  /\ table'[s] # NoRow
         /\ table'[s].line = table[s].line
         /\ table'[s].run = table[s].run
         /\ table[s].status # "pending" => table'[s] = table[s]
<1>1. CASE table' = table
  BY <1>1
<1>2. ASSUME NEW r \in Runs, TableInsert(r)
      PROVE  table'[s] = table[s]
  BY <1>2 DEF TableInsert, Insertable, Core, TypeOK
<1>3. ASSUME NEW r \in Runs, TableMark(r), s # slot[r]
      PROVE  table'[s] = table[s]
  BY <1>3 DEF TableMark, Core, TypeOK
<1>4. ASSUME NEW r \in Runs, TableMark(r), s = slot[r]
      PROVE  /\ table'[s] # NoRow
             /\ table'[s].line = table[s].line
             /\ table'[s].run = table[s].run
             /\ table[s].status = "pending"
  <2>1. Holding(r)
    BY <1>4 DEF TableMark
  <2>2. /\ table[s].run = r
        /\ table[s].line = Item(r).line
        /\ table[s].status = "pending"
        /\ Item(r).line \in Lines
    BY <1>4, <2>1, HeldRow
  <2>3. PICK st \in Status : table' = [table EXCEPT
          ![slot[r]] = [line |-> Item(r).line, run |-> r, status |-> st]]
    BY <1>4 DEF TableMark
  <2>4. table'[s] = [line |-> Item(r).line, run |-> r, status |-> st]
    BY <1>4, <2>3 DEF Core, TypeOK
  <2>5. table'[s].line = Item(r).line /\ table'[s].run = r
    BY <2>4
  <2>. QED
    BY <2>2, <2>4, <2>5, NoRowIsNoRow
<1>. QED
  BY <1>1, <1>2, <1>3, <1>4, TableStep

(* No run ever touches a row again once its post has settled, and no row   *)
(* leaves the table or changes line or owner: what makes a failed post     *)
(* stay failed (post.py, "Not retried").                                   *)
THEOREM RowsFinal == Spec => RowsAreFinal
<1>1. Core /\ [Next]_vars =>
        [\A s \in Slot : table[s] # NoRow =>
           /\ table'[s] # NoRow
           /\ table'[s].line = table[s].line
           /\ table'[s].run = table[s].run
           /\ table[s].status # "pending" => table'[s] = table[s]]_vars
  BY RowsStay
<1>. QED
  BY <1>1, CoreInvariant, PTL DEF Spec, RowsAreFinal

-----------------------------------------------------------------------------
(***************************************************************************)
(* The requests.  A step adds at most one request to wire \cup comments:   *)
(* the one Send puts on the wire.                                          *)
(***************************************************************************)
SentBy(r) == [run |-> r, n |-> sent[r] + 1, line |-> Item(r).line, slot |-> slot[r]]

LEMMA RequestStep ==
  ASSUME Core, [Next]_vars
  PROVE  \/ wire' \cup comments' \subseteq wire \cup comments
         \/ \E r \in Runs : /\ pc[r] = "send"
                            /\ Send(r)
                            /\ wire' \cup comments'
                                 = (wire \cup comments) \cup {SentBy(r)}
<1>1. ASSUME NEW r \in Runs, Send(r)
      PROVE  /\ pc[r] = "send"
             /\ wire' \cup comments' = (wire \cup comments) \cup {SentBy(r)}
  BY <1>1 DEF Send, At, SentBy
<1>2. ASSUME NEW r \in Runs, PostStep(r), ~Send(r)
      PROVE  UNCHANGED <<wire, comments>>
  BY <1>2 DEF PostStep, InsertRow, InsertConflict, GiveUp, TryNextSlot, RefuseWrite,
              ReadReply, HttpError, MarkPosted, MarkFailed, Mark
<1>3. ASSUME NEW r \in Runs, Kill(r) \/ \E batch \in Batches : Call(r, batch)
      PROVE  UNCHANGED <<wire, comments>>
  BY <1>3 DEF Kill, Call
<1>4. CASE GitHubStep
  BY <1>4 DEF GitHubStep, Accept, Reject, Lose
<1>5. CASE UNCHANGED vars
  BY <1>5 DEF vars
<1>. QED
  BY <1>1, <1>2, <1>3, <1>4, <1>5 DEF Next

LEMMA SentByFields ==
  ASSUME Core, NEW r \in Runs, pc[r] = "send"
  PROVE  /\ SentBy(r).slot = slot[r]
         /\ SentBy(r).line = Item(r).line
         /\ SentBy(r).run = r
BY DEF SentBy

(* What a run about to send has just done, or has not stopped doing.       *)
LEMMA AboutToSend ==
  ASSUME Core, [Next]_vars, NEW r \in Runs, pc'[r] = "send"
  PROVE  /\ slot'[r] = slot[r]
         /\ \/ table[slot[r]] = NoRow
            \/ pc[r] = "send" /\ ~Send(r)
<1>1. CASE InsertRow(r)
  BY <1>1 DEF InsertRow, Insertable
<1>2. CASE PostStep(r) /\ ~InsertRow(r)
  <2>1. pc'[r] # "send"
    BY <1>2 DEF PostStep, InsertConflict, GiveUp, TryNextSlot, RefuseWrite, Send, ReadReply,
                HttpError, MarkPosted, MarkFailed, Mark, NextItem, Goto, Core, TypeOK
  <2>. QED
    BY <2>1
<1>3. ASSUME NEW q \in Runs, q # r, PostStep(q)
      PROVE  slot'[r] = slot[r] /\ pc[r] = "send" /\ ~Send(r)
  <2>1. slot'[r] = slot[r] /\ pc'[r] = pc[r]
    BY <1>3 DEF PostStep, InsertRow, InsertConflict, GiveUp, TryNextSlot, RefuseWrite, Send,
                ReadReply, HttpError, MarkPosted, MarkFailed, Mark, NextItem, Goto, Core, TypeOK
  <2>2. ~Send(r)
    BY <2>1 DEF Send, Goto, Core, TypeOK
  <2>. QED
    BY <2>1, <2>2
<1>4. ASSUME NEW q \in Runs, Kill(q) \/ \E batch \in Batches : Call(q, batch)
      PROVE  slot'[r] = slot[r] /\ pc[r] = "send" /\ ~Send(r)
  <2>1. slot' = slot /\ sent' = sent /\ pc[r] = "send"
    BY <1>4 DEF Kill, Call, Goto, Core, TypeOK
  <2>. QED
    BY <2>1 DEF Send, Core, TypeOK
<1>5. CASE GitHubStep \/ UNCHANGED vars
  <2>1. UNCHANGED <<pc, slot>>
    BY <1>5, CoreGitHub DEF vars, runVars
  <2>. QED
    BY <2>1 DEF Send, Goto, Core, TypeOK
<1>. QED
  BY <1>1, <1>2, <1>3, <1>4, <1>5 DEF Next

Requests == UnsentIsFresh /\ OneRequestPerSlot /\ RowBeforeRequest

LEMMA RequestsInit == Init => Requests
BY DEF Init, Requests, UnsentIsFresh, OneRequestPerSlot, RowBeforeRequest

LEMMA RequestsNext == Core /\ Requests /\ [Next]_vars => Requests'
<1> SUFFICES ASSUME Core, Requests, [Next]_vars PROVE Requests'
  OBVIOUS
<1>1. ASSUME NEW m \in (wire \cup comments)'
      PROVE  m \in wire \cup comments \/ \E r \in Runs : pc[r] = "send" /\ Send(r) /\ m = SentBy(r)
  BY RequestStep
<1>2. \A m \in wire \cup comments : m.slot \in Slot
  BY DEF Core, TypeOK, Request
<1>3. UnsentIsFresh'
  <2> SUFFICES ASSUME NEW r \in Runs, pc'[r] = "send", NEW m \in (wire \cup comments)'
               PROVE  m.slot # slot'[r]
    BY DEF UnsentIsFresh
  <2>1. CASE m \in wire \cup comments
    BY <2>1, AboutToSend DEF Requests, UnsentIsFresh, RowBeforeRequest
  <2>2. ASSUME NEW q \in Runs, pc[q] = "send", Send(q), m = SentBy(q)
        PROVE  m.slot # slot'[r]
    <3>1. m.slot = slot[q] /\ table[slot[q]].run = q /\ table[slot[q]] # NoRow
      BY <2>2, SentByFields, HeldRow DEF Holding
    <3>2. pc[r] = "send" /\ ~Send(r) => table[slot[r]].run = r /\ r # q
      BY <2>2, HeldRow DEF Holding
    <3>. QED
      BY <3>1, <3>2, AboutToSend
  <2>. QED
    BY <1>1, <2>1, <2>2
<1>4. OneRequestPerSlot'
  <2>1. CASE wire' \cup comments' \subseteq wire \cup comments
    BY <2>1 DEF Requests, OneRequestPerSlot
  <2>2. ASSUME NEW r \in Runs, pc[r] = "send",
               wire' \cup comments' = (wire \cup comments) \cup {SentBy(r)}
        PROVE  OneRequestPerSlot'
    <3>1. \A m \in wire \cup comments : m.slot # SentBy(r).slot
      BY <2>2, SentByFields DEF Requests, UnsentIsFresh
    <3>. QED
      BY <2>2, <3>1 DEF Requests, OneRequestPerSlot
  <2>. QED
    BY <2>1, <2>2, RequestStep
<1>5. RowBeforeRequest'
  <2> SUFFICES ASSUME NEW m \in (wire \cup comments)'
               PROVE  /\ table'[m.slot] # NoRow
                      /\ table'[m.slot].line = m.line
                      /\ table'[m.slot].run = m.run
    BY DEF RowBeforeRequest
  <2>1. CASE m \in wire \cup comments
    BY <1>2, <2>1, RowsStay DEF Requests, RowBeforeRequest
  <2>2. ASSUME NEW r \in Runs, pc[r] = "send", m = SentBy(r)
        PROVE  /\ table[m.slot] # NoRow
               /\ table[m.slot].line = m.line
               /\ table[m.slot].run = m.run
               /\ m.slot \in Slot
    BY <2>2, SentByFields, HeldRow DEF Holding
  <2>. QED
    BY <1>1, <2>1, <2>2, RowsStay
<1>. QED
  BY <1>3, <1>4, <1>5 DEF Requests

-----------------------------------------------------------------------------
(***************************************************************************)
(* The slots.  A row appears only where a run was trying to insert.        *)
(***************************************************************************)
LEMMA NewRow ==
  ASSUME Core, [Next]_vars, NEW s \in Slot, table[s] = NoRow, table'[s] # NoRow
  PROVE  \E r \in Runs : /\ pc[r] = "insert"
                         /\ s = slot[r]
                         /\ Insertable(s, Item(r).line)
                         /\ table'[s].line = Item(r).line
<1>1. ASSUME NEW r \in Runs, InsertRow(r)
      PROVE  pc[r] = "insert" /\ s = slot[r] /\ Insertable(s, Item(r).line)
             /\ table'[s].line = Item(r).line
  <2>1. pc[r] = "insert" /\ s = slot[r] /\ Insertable(s, Item(r).line)
    BY <1>1 DEF InsertRow, At, Core, TypeOK
  <2>2. table'[s] = [line |-> Item(r).line, run |-> r, status |-> "pending"]
    BY <1>1, <2>1 DEF InsertRow, Core, TypeOK
  <2>. QED
    BY <2>1, <2>2
<1>2. ASSUME NEW r \in Runs, MarkPosted(r) \/ MarkFailed(r)
      PROVE  FALSE
  <2>1. Holding(r) /\ \E st \in Status : Mark(r, st)
    BY <1>2 DEF MarkPosted, MarkFailed, At, Holding, Status
  <2>2. slot[r] \in Slot /\ table[slot[r]] # NoRow
    BY <2>1, HeldRow
  <2>. QED
    BY <2>1, <2>2 DEF Mark, Core, TypeOK
<1>3. ASSUME NEW r \in Runs, PostStep(r), ~InsertRow(r)
      PROVE  FALSE
  BY <1>2, <1>3 DEF PostStep, InsertConflict, GiveUp, TryNextSlot, RefuseWrite, Send,
                    ReadReply, HttpError
<1>4. ASSUME NEW r \in Runs, Kill(r) \/ \E batch \in Batches : Call(r, batch)
      PROVE  FALSE
  BY <1>4 DEF Kill, Call
<1>5. CASE GitHubStep
  BY <1>5, CoreGitHub
<1>6. CASE UNCHANGED vars
  BY <1>6 DEF vars
<1>. QED
  BY <1>1, <1>3, <1>4, <1>5, <1>6 DEF Next

LEMMA LineStaysTaken ==
  ASSUME Core, [Next]_vars, NEW l, LineTaken(l)
  PROVE  LineTaken(l)'
BY RowsStay DEF LineTaken

(* The statements of the other runs, of GitHub and of a killer leave a     *)
(* run's loop where it was; its own statements move it one step on.        *)
LoopSame(r) ==
  /\ pos'[r] = pos[r] /\ slot'[r] = slot[r] /\ kept'[r] = kept[r]
  /\ Trying(r)' => pc'[r] = pc[r]

LoopStart(r) == pc[r] = "idle" /\ pos'[r] = pos[r] /\ slot'[r] = 1 /\ pc'[r] # "check"

LoopConflict(r) ==
  /\ pos'[r] = pos[r] /\ slot'[r] = slot[r] /\ kept'[r] = kept[r]
  /\ pc[r] = "insert" /\ pc'[r] = "check"
  /\ ~Insertable(slot[r], Item(r).line)

LoopNextSlot(r) ==
  /\ pos'[r] = pos[r] /\ slot'[r] = slot[r] + 1 /\ kept'[r] = kept[r]
  /\ pc[r] = "check" /\ pc'[r] = "insert"
  /\ ~LineTaken(Item(r).line)

LoopNextItem(r) ==
  /\ pos'[r] = pos[r] + 1 /\ slot'[r] = 1 /\ kept'[r] = kept[r]
  /\ pc'[r] # "check"
  /\ \/ Holding(r)
     \/ pc[r] = "check" /\ (LineTaken(Item(r).line) \/ slot[r] = Cap)

LEMMA LoopStep ==
  ASSUME Core, [Next]_vars, NEW r \in Runs
  PROVE  \/ LoopSame(r) \/ LoopStart(r) \/ LoopConflict(r)
         \/ LoopNextSlot(r) \/ LoopNextItem(r)
<1>1. ASSUME NEW batch \in Batches, Call(r, batch)
      PROVE  LoopStart(r)
  BY <1>1 DEF Call, At, Goto, LoopStart, Core, TypeOK, OnItem
<1>2. CASE InsertConflict(r)
  BY <1>2 DEF InsertConflict, At, Goto, LoopConflict, Core, TypeOK
<1>3. CASE TryNextSlot(r)
  BY <1>3 DEF TryNextSlot, At, Goto, LoopNextSlot, Core, TypeOK
<1>4. CASE GiveUp(r) \/ MarkPosted(r) \/ MarkFailed(r)
  <2>1. NextItem(r) /\ (Holding(r) \/ GiveUp(r))
    BY <1>4 DEF GiveUp, MarkPosted, MarkFailed, Mark, At, Holding
  <2>2. /\ pos'[r] = pos[r] + 1 /\ slot'[r] = 1 /\ kept'[r] = kept[r]
        /\ pc'[r] # "check"
    BY <2>1 DEF NextItem, Goto, Core, TypeOK
  <2>. QED
    BY <2>1, <2>2 DEF LoopNextItem, GiveUp, At
<1>5. CASE InsertRow(r) \/ RefuseWrite(r) \/ Send(r) \/ ReadReply(r) \/ HttpError(r) \/ Kill(r)
  BY <1>5 DEF InsertRow, RefuseWrite, Send, ReadReply, HttpError, Kill, Goto, LoopSame,
              Trying, Core, TypeOK
<1>6. ASSUME NEW q \in Runs, q # r,
             PostStep(q) \/ Kill(q) \/ \E batch \in Batches : Call(q, batch)
      PROVE  LoopSame(r)
  BY <1>6 DEF PostStep, InsertRow, InsertConflict, GiveUp, TryNextSlot, RefuseWrite, Send,
              ReadReply, HttpError, MarkPosted, MarkFailed, Mark, NextItem, Kill, Call, Goto,
              LoopSame, Core, TypeOK
<1>7. CASE GitHubStep \/ UNCHANGED vars
  <2>1. UNCHANGED <<pc, kept, pos, slot>>
    BY <1>7, CoreGitHub DEF vars, runVars
  <2>. QED
    BY <2>1 DEF LoopSame
<1>. QED
  BY <1>1, <1>2, <1>3, <1>4, <1>5, <1>6, <1>7 DEF Next, PostStep

Slots == OneRowPerLine /\ TriedSlotsTaken /\ NoHoleInSlots /\ NoDraftDroppedWithRoom

LEMMA SlotsInit == Init => Slots
BY DEF Init, Slots, OneRowPerLine, TriedSlotsTaken, NoHoleInSlots, NoDraftDroppedWithRoom,
       Trying

LEMMA SlotsNext == Core /\ Slots /\ [Next]_vars => Slots'
<1> SUFFICES ASSUME Core, Slots, [Next]_vars PROVE Slots'
  OBVIOUS
<1>1. OneRowPerLine'
  <2> SUFFICES ASSUME NEW s \in Slot, NEW t \in Slot, table'[s] # NoRow, table'[t] # NoRow,
                      table'[s].line = table'[t].line
               PROVE  s = t
    BY DEF OneRowPerLine
  <2>1. CASE table[s] # NoRow /\ table[t] # NoRow
    BY <2>1, RowsStay DEF Slots, OneRowPerLine
  <2>2. CASE table[s] = NoRow /\ table[t] # NoRow
    BY <2>2, NewRow, RowsStay DEF Insertable, LineTaken
  <2>3. CASE table[s] # NoRow /\ table[t] = NoRow
    BY <2>3, NewRow, RowsStay DEF Insertable, LineTaken
  <2>4. CASE table[s] = NoRow /\ table[t] = NoRow
    <3>1. table' # table
      BY <2>4
    <3>2. PICK r \in Runs : TableInsert(r) \/ TableMark(r)
      BY <3>1, TableStep
    <3>3. s = slot[r] /\ t = slot[r]
      BY <2>4, <3>2 DEF TableInsert, TableMark, Core, TypeOK
    <3>. QED
      BY <3>3
  <2>. QED
    BY <2>1, <2>2, <2>3, <2>4
<1>2. TriedSlotsTaken'
  <2> SUFFICES ASSUME NEW r \in Runs, Trying(r)'
               PROVE  /\ \A s \in Slot : s < slot'[r] => table'[s] # NoRow
                      /\ pc'[r] = "check" => \/ table'[slot'[r]] # NoRow
                                             \/ LineTaken(Item(r).line)'
    BY DEF TriedSlotsTaken
  <2>0. slot[r] \in Slot /\ \A s \in Slot : s \in Nat /\ ~(s < 1)
    BY DEF Core, TypeOK, Slot
  <2>1. CASE LoopSame(r)
    BY <2>0, <2>1, RowsStay, LineStaysTaken DEF LoopSame, Slots, TriedSlotsTaken, Trying, Item
  <2>2. CASE LoopStart(r) \/ LoopNextItem(r)
    BY <2>0, <2>2 DEF LoopStart, LoopNextItem
  <2>3. CASE LoopConflict(r)
    <3>1. Item(r)' = Item(r) /\ slot'[r] = slot[r] /\ Trying(r)
      BY <2>3 DEF LoopConflict, Item, Trying
    <3>2. table[slot[r]] # NoRow \/ LineTaken(Item(r).line)
      BY <2>3 DEF LoopConflict, Insertable
    <3>3. table'[slot[r]] # NoRow \/ LineTaken(Item(r).line)'
      <4>1. CASE table[slot[r]] # NoRow
        BY <2>0, <4>1, RowsStay
      <4>2. CASE LineTaken(Item(r).line)
        BY <4>2, <3>1, RowsStay DEF LineTaken
      <4>. QED
        BY <3>2, <4>1, <4>2
    <3>. QED
      BY <2>0, <3>1, <3>3, RowsStay DEF Slots, TriedSlotsTaken
  <2>4. CASE LoopNextSlot(r)
    <3>1. \A s \in Slot : s <= slot[r] => table[s] # NoRow
      BY <2>0, <2>4 DEF LoopNextSlot, Slots, TriedSlotsTaken, Trying
    <3>. QED
      BY <2>0, <2>4, <3>1, RowsStay DEF LoopNextSlot
  <2>. QED
    BY <2>1, <2>2, <2>3, <2>4, LoopStep
<1>3. NoHoleInSlots'
  <2> SUFFICES ASSUME NEW s \in Slot, NEW t \in Slot, s < t, table'[t] # NoRow
               PROVE  table'[s] # NoRow
    BY DEF NoHoleInSlots
  <2>1. CASE table[t] # NoRow
    BY <2>1, RowsStay DEF Slots, NoHoleInSlots
  <2>2. CASE table[t] = NoRow
    BY <2>2, NewRow, RowsStay DEF Slots, TriedSlotsTaken, Trying
  <2>. QED
    BY <2>1, <2>2
<1>4. NoDraftDroppedWithRoom'
  <2> SUFFICES ASSUME NEW r \in Runs, NEW i \in 1 .. Len(kept'[r]), i < pos'[r],
                      NEW s \in Slot, table'[s] = NoRow
               PROVE  LineTaken(kept[r][i].line)'
    BY DEF NoDraftDroppedWithRoom
  <2>1. table[s] = NoRow
    BY RowsStay
  <2>2. pos[r] \in Nat \ {0} /\ slot[r] \in Slot
    BY DEF Core, TypeOK
  <2>3. CASE i < pos[r] /\ kept'[r] = kept[r]
    <3>1. LineTaken(kept[r][i].line)
      BY <2>1, <2>3 DEF Slots, NoDraftDroppedWithRoom
    <3>. QED
      BY <2>3, <3>1, RowsStay DEF LineTaken
  <2>4. CASE LoopNextItem(r) /\ i = pos[r]
    <3>1. kept'[r][i] = Item(r)
      BY <2>4 DEF LoopNextItem, Item
    <3>2. LineTaken(Item(r).line)
      <4>1. CASE Holding(r)
        BY <4>1, HeldRow DEF LineTaken
      <4>2. CASE pc[r] = "check" /\ slot[r] = Cap
        <5>1. \A u \in Slot : u < Cap => table[u] # NoRow
          BY <4>2 DEF Slots, TriedSlotsTaken, Trying
        <5>2. s = Cap
          BY <2>1, <5>1 DEF Slot
        <5>. QED
          BY <2>1, <4>2, <5>2 DEF Slots, TriedSlotsTaken, Trying
      <4>. QED
        BY <2>4, <4>1, <4>2 DEF LoopNextItem
    <3>. QED
      BY <3>1, <3>2, RowsStay DEF LineTaken
  <2>5. CASE LoopStart(r)
    <3>1. pos'[r] = 1
      BY <2>5 DEF LoopStart, Core, OnItem
    <3>. QED
      BY <3>1
  <2>. QED
    BY <2>2, <2>3, <2>4, <2>5, LoopStep
      DEF LoopSame, LoopConflict, LoopNextSlot, LoopNextItem
<1>. QED
  BY <1>1, <1>2, <1>3, <1>4 DEF Slots

-----------------------------------------------------------------------------
(***************************************************************************)
(* The inductive invariant, and what follows from it.                      *)
(***************************************************************************)
LEMMA LedgerInvParts == LedgerInv <=> Core /\ Requests /\ Slots
BY DEF LedgerInv, Core, Requests, Slots

(* Every reachable state satisfies the strengthening: no interleaving of   *)
(* runs, kills, lost and late answers breaks one of its parts.             *)
THEOREM LedgerInvariant == Spec => []LedgerInv
<1>1. Init => Core /\ Requests /\ Slots
  BY CoreInit, RequestsInit, SlotsInit
<1>2. Core /\ Requests /\ Slots /\ [Next]_vars => (Core /\ Requests /\ Slots)'
  BY CoreNext, RequestsNext, SlotsNext
<1>. QED
  BY <1>1, <1>2, LedgerInvParts, PTL DEF Spec

(* Two requests that are, or may become, comments are for two lines.       *)
LEMMA RequestLinesDiffer ==
  ASSUME LedgerInv, NEW m \in wire \cup comments, NEW d \in wire \cup comments,
         m.line = d.line
  PROVE  m = d
<1>1. m.slot \in Slot /\ d.slot \in Slot
  BY DEF LedgerInv, TypeOK, Request
<1>2. m.slot = d.slot
  BY <1>1 DEF LedgerInv, RowBeforeRequest, OneRowPerLine
<1>. QED
  BY <1>2 DEF LedgerInv, OneRequestPerSlot

(* No line of the pull request ever carries two comments of PR-Lens, for   *)
(* any number of racing runs.                                              *)
THEOREM OnePerLine == Spec => []OneCommentPerLine
<1>1. LedgerInv => OneCommentPerLine
  BY RequestLinesDiffer DEF OneCommentPerLine
<1>. QED
  BY <1>1, LedgerInvariant, PTL

(* Requests inject into the slots of the table.                            *)
LEMMA RequestsBounded ==
  ASSUME LedgerInv, NEW S \in SUBSET (wire \cup comments)
  PROVE  IsFiniteSet(S) /\ Cardinality(S) \in Nat /\ Cardinality(S) <= Cap
<1> DEFINE f == [c \in S |-> c.slot]
<1>1. f \in [S -> Slot]
  BY DEF LedgerInv, TypeOK, Request
<1>2. \A c, d \in S : f[c] = f[d] => c = d
  BY DEF LedgerInv, OneRequestPerSlot
<1>3. f \in Injection(S, Slot)
  BY <1>1, <1>2 DEF Injection, IsInjective
<1>4. IsFiniteSet(Slot) /\ Cardinality(Slot) = Cap
  BY FS_Interval DEF Slot
<1>. QED
  BY <1>3, <1>4, FS_Injection, FS_CardinalityType

(* The pull request never carries more than Cap comments of PR-Lens.       *)
THEOREM CapHolds == Spec => []AtMostCap
<1>1. LedgerInv => AtMostCap
  BY RequestsBounded DEF AtMostCap
<1>. QED
  BY <1>1, LedgerInvariant, PTL

(* A draft a run has moved past is in the ledger, or the ledger is full:   *)
(* the walk over the slots never gives up while there is room.             *)
THEOREM NoDraftDropped == Spec => []NoDraftDroppedWithRoom
BY LedgerInvariant, PTL DEF LedgerInv

(***************************************************************************)
(* Refinement: every step is one allowed comment, or nothing.              *)
(***************************************************************************)
LEMMA AcceptPublishes ==
  ASSUME LedgerInv, NEW m \in wire, Accept(m), m \notin comments
  PROVE  Promise!Publish
<1>1. comments' = comments \cup {m}
  BY DEF Accept
<1>2. \A d \in comments : d.line # m.line
  BY RequestLinesDiffer
<1>3. IsFiniteSet(comments) /\ Cardinality(comments) \in Nat
  BY RequestsBounded
<1>4. Cardinality(comments \cup {m}) = Cardinality(comments) + 1
  BY <1>3, FS_AddElement
<1>5. Cardinality(comments \cup {m}) <= Cap
  BY RequestsBounded
<1>6. Cardinality(comments) < Cap
  BY <1>3, <1>4, <1>5
<1>. QED
  BY <1>1, <1>2, <1>6 DEF Promise!Publish, Promise!Cardinality, Cardinality,
    Promise!IsFiniteSet, IsFiniteSet

LEMMA CommentsStep ==
  ASSUME LedgerInv, [Next]_vars
  PROVE  [Promise!Publish]_comments
<1>1. CASE comments' = comments
  BY <1>1
<1>2. ASSUME NEW m \in wire, Accept(m)
      PROVE  Promise!Publish \/ comments' = comments
  BY <1>2, AcceptPublishes DEF Accept
<1>3. ASSUME NEW r \in Runs, PostStep(r)
      PROVE  comments' = comments
  BY <1>3 DEF PostStep, InsertRow, InsertConflict, GiveUp, TryNextSlot, RefuseWrite, Send,
              ReadReply, HttpError, MarkPosted, MarkFailed, Mark
<1>4. CASE UNCHANGED vars
  BY <1>4 DEF vars
<1>. QED
  BY <1>1, <1>2, <1>3, <1>4 DEF Next, Kill, Call, GitHubStep, Reject, Lose

(* The ledger and the runs that race for it implement CommentPromise.      *)
THEOREM LedgerKeepsPromise == Spec => KeepsPromise
<1>1. Init => Promise!Init
  BY DEF Init, Promise!Init
<1>2. LedgerInv /\ [Next]_vars => [Promise!Publish]_comments
  BY CommentsStep
<1>. QED
  BY <1>1, <1>2, LedgerInvariant, PTL DEF Spec, KeepsPromise, Promise!Spec

-----------------------------------------------------------------------------
(***************************************************************************)
(* A row that says posted.  The answer a run reads is of the request it    *)
(* waits for, and that request is of the slot it holds: requests are       *)
(* numbered by their run, and only the last one is answered to it.         *)
(***************************************************************************)
OpenRequests ==
  \A m \in wire :
    /\ m.n <= sent[m.run]
    /\ pc[m.run] = "await" /\ m.n = sent[m.run] => m.slot = slot[m.run]

Heard(r) == pc[r] = "mark_posted" \/ (pc[r] = "await" /\ reply[r] = "created")

CommentAt(s, l) == \E c \in comments : c.slot = s /\ c.line = l

HeardIsThere == \A r \in Runs : Heard(r) => CommentAt(slot[r], Item(r).line)

Truthful == OpenRequests /\ HeardIsThere /\ PostedIsThere

LEMMA TruthfulInit == Init => Truthful
BY DEF Init, Truthful, OpenRequests, HeardIsThere, Heard, PostedIsThere

(* Comments stay on the pull request.                                      *)
LEMMA CommentsStay ==
  ASSUME LedgerInv, [Next]_vars
  PROVE  comments \subseteq comments'
BY CommentsStep DEF Promise!Publish

LEMMA CommentAtStays ==
  ASSUME LedgerInv, [Next]_vars, NEW s, NEW l, CommentAt(s, l)
  PROVE  \E c \in comments' : c.slot = s /\ c.line = l
BY CommentsStay DEF CommentAt

(* A run moves nothing of another run's.                                   *)
OthersStay(r) ==
  \A q \in Runs \ {r} :
    /\ pc'[q] = pc[q]
    /\ kept'[q] = kept[q]
    /\ pos'[q] = pos[q]
    /\ slot'[q] = slot[q]
    /\ sent'[q] = sent[q]
    /\ reply'[q] = reply[q]

LEMMA RunMovesItself ==
  ASSUME TypeOK, NEW r \in Runs,
         PostStep(r) \/ Kill(r) \/ \E batch \in Batches : Call(r, batch)
  PROVE  OthersStay(r)
<1>1. CASE PostStep(r)
  BY <1>1 DEF PostStep, InsertRow, InsertConflict, GiveUp, TryNextSlot, RefuseWrite, Send,
       ReadReply, HttpError, MarkPosted, MarkFailed, Mark, NextItem, Goto, TypeOK, OthersStay
<1>2. CASE Kill(r)
  BY <1>2 DEF Kill, Goto, TypeOK, OthersStay
<1>3. CASE \E batch \in Batches : Call(r, batch)
  BY <1>3 DEF Call, Goto, TypeOK, OthersStay
<1>. QED
  BY <1>1, <1>2, <1>3

(* What a run hears: nothing new, except the answer to its request.        *)
LEMMA HeardBefore ==
  ASSUME LedgerInv, NEW r \in Runs, PostStep(r) \/ Kill(r) \/ \E batch \in Batches : Call(r, batch),
         Heard(r)'
  PROVE  /\ Heard(r)
         /\ slot'[r] = slot[r]
         /\ Item(r)' = Item(r)
<1>1. CASE PostStep(r)
  <2>1. CASE ReadReply(r)
    BY <2>1 DEF ReadReply, At, Goto, Heard, Item, LedgerInv, TypeOK
  <2>2. CASE ~ReadReply(r)
    <3>1. pc'[r] # "mark_posted" /\ (pc'[r] = "await" => reply'[r] = "none")
      BY <1>1, <2>2 DEF PostStep, InsertRow, InsertConflict, GiveUp, TryNextSlot, RefuseWrite,
           Send, HttpError, MarkPosted, MarkFailed, Mark, NextItem, Goto, LedgerInv, TypeOK
    <3>. QED
      BY <3>1 DEF Heard
  <2>. QED
    BY <2>1, <2>2
<1>2. CASE Kill(r) \/ \E batch \in Batches : Call(r, batch)
  <2>1. pc'[r] # "mark_posted" /\ pc'[r] # "await"
    BY <1>2 DEF Kill, Call, Goto, LedgerInv, TypeOK
  <2>. QED
    BY <2>1 DEF Heard
<1>. QED
  BY <1>1, <1>2

LEMMA OpenRequestsNext ==
  ASSUME LedgerInv, OpenRequests, [Next]_vars
  PROVE  OpenRequests'
<1>. USE DEF OpenRequests
<1>0. TypeOK /\ \A m \in wire : m.run \in Runs /\ m.n \in Nat
  BY DEF LedgerInv, TypeOK, Request
<1>1. ASSUME NEW r \in Runs, Send(r)
      PROVE  OpenRequests'
  <2>1. /\ wire' = wire \cup {SentBy(r)}
        /\ sent' = [sent EXCEPT ![r] = @ + 1]
        /\ slot' = slot
        /\ pc' = [pc EXCEPT ![r] = "await"]
    BY <1>1 DEF Send, Goto, SentBy
  <2>2. sent \in [Runs -> Nat] /\ pc \in [Runs -> PC]
    BY <1>0 DEF TypeOK
  <2>3. SentBy(r).run = r /\ SentBy(r).n = sent[r] + 1 /\ SentBy(r).slot = slot[r]
    BY DEF SentBy
  <2>. HIDE DEF OpenRequests
  <2>4. ASSUME NEW m \in wire
        PROVE  /\ m.n <= sent'[m.run]
               /\ pc'[m.run] = "await" /\ m.n = sent'[m.run] => m.slot = slot'[m.run]
    <3>1. CASE m.run = r
      <4>1. m.n <= sent[r] /\ sent'[r] = sent[r] + 1
        BY <2>1, <2>2, <3>1 DEF OpenRequests
      <4>. QED
        BY <1>0, <2>2, <3>1, <4>1
    <3>2. CASE m.run # r
      BY <1>0, <2>1, <2>2, <3>2 DEF OpenRequests
    <3>. QED
      BY <3>1, <3>2
  <2>5. /\ SentBy(r).n <= sent'[r]
        /\ SentBy(r).slot = slot'[r]
    BY <2>1, <2>2, <2>3
  <2>. QED
    BY <2>1, <2>3, <2>4, <2>5 DEF OpenRequests
<1>2. ASSUME NEW r \in Runs, PostStep(r) \/ Kill(r) \/ \E batch \in Batches : Call(r, batch),
             ~Send(r)
      PROVE  OpenRequests'
  <2>1. wire' = wire /\ OthersStay(r) /\ sent' = sent
    <3>1. OthersStay(r)
      BY <1>0, <1>2, RunMovesItself
    <3>2. wire' = wire /\ sent' = sent
      BY <1>2 DEF PostStep, InsertRow, InsertConflict, GiveUp, TryNextSlot, RefuseWrite,
         ReadReply, HttpError, MarkPosted, MarkFailed, Mark, NextItem, Kill, Call
    <3>. QED
      BY <3>1, <3>2
  <2>2. pc'[r] # "await"
    BY <1>0, <1>2 DEF PostStep, InsertRow, InsertConflict, GiveUp, TryNextSlot, RefuseWrite,
         ReadReply, HttpError, MarkPosted, MarkFailed, Mark, NextItem, Goto, Kill, Call, TypeOK
  <2>. QED
    BY <1>0, <2>1, <2>2 DEF OthersStay
<1>3. CASE GitHubStep \/ UNCHANGED vars
  <2>1. wire' \subseteq wire /\ UNCHANGED <<pc, sent, slot>>
    BY <1>3 DEF GitHubStep, Accept, Reject, Lose, vars, runVars
  <2>. QED
    BY <2>1
<1>. QED
  BY <1>1, <1>2, <1>3 DEF Next

(* An answer 201 comes with the comment it is about.                       *)
LEMMA AnswerIsThere ==
  ASSUME LedgerInv, OpenRequests, HeardIsThere, GitHubStep,
         NEW r \in Runs, Heard(r)'
  PROVE  \E c \in comments' : c.slot = slot[r] /\ c.line = Item(r).line
<1>1. comments \subseteq comments' /\ UNCHANGED <<pc, kept, pos, slot, sent>>
  BY DEF GitHubStep, Accept, Reject, Lose, runVars
<1>2. CASE Heard(r)
  BY <1>1, <1>2 DEF HeardIsThere, CommentAt
<1>3. CASE ~Heard(r)
  <2>1. reply'[r] = "created" /\ pc[r] = "await" /\ reply[r] # "created"
    BY <1>1, <1>3 DEF Heard
  <2>2. PICK m \in wire : Accept(m) \/ Reject(m) \/ Lose(m)
    BY DEF GitHubStep
  <2>3. m.run \in Runs /\ m.slot \in Slot /\ reply \in [Runs -> {"none", "created", "refused"}]
    BY DEF LedgerInv, TypeOK, Request
  <2>4. Accept(m) /\ m.run = r /\ sent[r] = m.n
    BY <2>1, <2>2, <2>3 DEF Accept, Reject, Lose, Answer, At, runVars
  <2>5. m.slot = slot[r]
    BY <2>1, <2>4 DEF OpenRequests
  <2>6. table[slot[r]].line = Item(r).line
    BY <2>1, HeldRow DEF LedgerInv, Core, Holding
  <2>7. table[m.slot].line = m.line
    BY DEF LedgerInv, RowBeforeRequest
  <2>8. m \in comments'
    BY <2>4 DEF Accept
  <2>. QED
    BY <2>5, <2>6, <2>7, <2>8
<1>. QED
  BY <1>2, <1>3

LEMMA HeardIsThereNext ==
  ASSUME LedgerInv, OpenRequests, HeardIsThere, [Next]_vars
  PROVE  HeardIsThere'
<1>. SUFFICES ASSUME NEW r \in Runs, Heard(r)'
              PROVE  \E c \in comments' : c.slot = slot'[r] /\ c.line = Item(r)'.line
  BY DEF HeardIsThere, CommentAt
<1>1. ASSUME Heard(r), slot'[r] = slot[r], Item(r)' = Item(r)
      PROVE  \E c \in comments' : c.slot = slot'[r] /\ c.line = Item(r)'.line
  BY <1>1, CommentAtStays DEF HeardIsThere
<1>2. CASE PostStep(r) \/ Kill(r) \/ \E batch \in Batches : Call(r, batch)
  BY <1>1, <1>2, HeardBefore
<1>3. ASSUME NEW q \in Runs, q # r,
             PostStep(q) \/ Kill(q) \/ \E batch \in Batches : Call(q, batch)
      PROVE  Heard(r) /\ slot'[r] = slot[r] /\ Item(r)' = Item(r)
  <2>1. OthersStay(q)
    BY <1>3, RunMovesItself DEF LedgerInv
  <2>. QED
    BY <1>3, <2>1 DEF OthersStay, Heard, Item
<1>4. CASE GitHubStep
  <2>1. UNCHANGED <<kept, pos, slot>>
    BY <1>4 DEF GitHubStep, Accept, Reject, Lose, runVars
  <2>2. Item(r)' = Item(r)
    BY <2>1 DEF Item
  <2>. QED
    BY <1>4, <2>1, <2>2, AnswerIsThere
<1>5. CASE UNCHANGED vars
  <2>1. Heard(r) /\ slot'[r] = slot[r] /\ Item(r)' = Item(r)
    BY <1>5 DEF vars, runVars, Heard, Item
  <2>. QED
    BY <1>1, <2>1
<1>. QED
  BY <1>1, <1>2, <1>3, <1>4, <1>5 DEF Next

(* Only MarkPosted writes "posted", and its run has heard.                 *)
LEMMA PostedIsThereNext ==
  ASSUME LedgerInv, HeardIsThere, PostedIsThere, [Next]_vars
  PROVE  PostedIsThere'
<1>. SUFFICES ASSUME NEW s \in Slot, table'[s] # NoRow, table'[s].status = "posted"
              PROVE  \E c \in comments' : c.slot = s /\ c.line = table'[s].line
  BY DEF PostedIsThere
<1>0. table \in [Slot -> Row \cup {NoRow}]
  BY DEF LedgerInv, TypeOK
<1>1. CASE table'[s] = table[s]
  <2>1. CommentAt(s, table[s].line)
    BY <1>1 DEF PostedIsThere, CommentAt
  <2>. QED
    BY <1>1, <2>1, CommentAtStays
<1>2. ASSUME NEW r \in Runs, MarkPosted(r), s = slot[r]
      PROVE  \E c \in comments' : c.slot = s /\ c.line = table'[s].line
  <2>1. Heard(r) /\ Holding(r)
    BY <1>2 DEF MarkPosted, At, Heard, Holding
  <2>2. table' = [table EXCEPT
           ![s] = [line |-> Item(r).line, run |-> r, status |-> "posted"]]
    BY <1>2, <2>1, MarkedRow DEF MarkPosted, Mark, LedgerInv, Status
  <2>3. table'[s] = [line |-> Item(r).line, run |-> r, status |-> "posted"]
    BY <1>0, <2>2
  <2>4. table'[s].line = Item(r).line
    BY <2>3
  <2>5. CommentAt(s, Item(r).line)
    BY <1>2, <2>1 DEF HeardIsThere
  <2>. QED
    BY <2>4, <2>5, CommentAtStays
<1>3. ASSUME NEW r \in Runs, MarkFailed(r), s = slot[r]
      PROVE  FALSE
  <2>1. Holding(r)
    BY <1>3 DEF MarkFailed, At, Holding
  <2>2. table' = [table EXCEPT
           ![s] = [line |-> Item(r).line, run |-> r, status |-> "failed"]]
    BY <1>3, <2>1, MarkedRow DEF MarkFailed, Mark, LedgerInv, Status
  <2>3. table'[s].status = "failed"
    BY <1>0, <2>2
  <2>. QED
    BY <2>3
<1>4. ASSUME NEW r \in Runs, InsertRow(r), s = slot[r]
      PROVE  FALSE
  <2>1. table'[s].status = "pending"
    BY <1>0, <1>4 DEF InsertRow
  <2>. QED
    BY <2>1
<1>5. ASSUME NEW r \in Runs, MarkPosted(r) \/ MarkFailed(r) \/ InsertRow(r), s # slot[r]
      PROVE  table'[s] = table[s]
  BY <1>0, <1>5 DEF MarkPosted, MarkFailed, Mark, InsertRow, LedgerInv, TypeOK
<1>6. ASSUME NEW r \in Runs, PostStep(r), ~MarkPosted(r), ~MarkFailed(r), ~InsertRow(r)
      PROVE  table' = table
  BY <1>6 DEF PostStep, InsertConflict, GiveUp, TryNextSlot, RefuseWrite, Send,
              ReadReply, HttpError
<1>7. ASSUME NEW r \in Runs, Kill(r) \/ \E batch \in Batches : Call(r, batch)
      PROVE  table' = table
  BY <1>7 DEF Kill, Call
<1>8. CASE GitHubStep \/ UNCHANGED vars
  BY <1>1, <1>8 DEF GitHubStep, Accept, Reject, Lose, vars
<1>. QED
  BY <1>1, <1>2, <1>3, <1>4, <1>5, <1>6, <1>7, <1>8 DEF Next

(* A row that says posted tells the truth, for any number of runs and      *)
(* however late or lost the answers: the comment of its slot is on the     *)
(* pull request, on its line.                                              *)
THEOREM PostedRowsAreTrue == Spec => []PostedIsThere
<1>1. Init => Truthful
  BY TruthfulInit
<1>2. LedgerInv /\ Truthful /\ [Next]_vars => Truthful'
  BY OpenRequestsNext, HeardIsThereNext, PostedIsThereNext DEF Truthful
<1>3. Truthful => PostedIsThere
  BY DEF Truthful
<1>. QED
  BY <1>1, <1>2, <1>3, LedgerInvariant, PTL DEF Spec
==============================================================================
