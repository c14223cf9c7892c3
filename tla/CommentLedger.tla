---------------------------- MODULE CommentLedger ----------------------------
(***************************************************************************)
(* post() of review/post.py and the posted_comments table it writes        *)
(* (db/comments.py, migration 0004), for one pull request.                 *)
(*                                                                         *)
(* Several review runs post on one pull request at once: two pushes, a     *)
(* redelivery, a cancelled run that has not died yet.  Each walks its kept *)
(* drafts; for each draft take_slot tries one slot after another, every    *)
(* INSERT and every SELECT a statement of its own, then the comment goes   *)
(* out over HTTP, then the row is marked.  Nothing but the table's two     *)
(* unique constraints coordinates the runs.                                *)
(*                                                                         *)
(* GitHub may accept a request, refuse it, or never see it, and the answer *)
(* may be lost or come after the run gave up waiting.  A run can be killed *)
(* between any two steps and is never resumed.                             *)
(***************************************************************************)
EXTENDS Integers, Sequences, FiniteSets

CONSTANTS
  Runs,       \* review runs that reach post() on this pull request
  Lines,      \* commentable (path, line) pairs of the diff
  Cap,        \* MAX_COMMENTS_PER_PR
  Batches,    \* the lists of kept drafts a run may be handed
  NoRow       \* a slot of the table that holds no row

ASSUME CapAssumption == Cap \in Nat \ {0}

(***************************************************************************)
(* A kept draft is a line and whether its disclosed body is longer than    *)
(* writes.MAX_COMMENT_CHARS; nothing else about it steers the code.        *)
(***************************************************************************)
Draft == [line : Lines, long : BOOLEAN]

ASSUME BatchesAssumption == Batches \subseteq Seq(Draft)

Slot == 1 .. Cap
Status == {"pending", "posted", "failed"}
Row == [line : Lines, run : Runs, status : Status]
ASSUME NoRowAssumption == NoRow \notin Row

(***************************************************************************)
(* One POST to pulls/{n}/comments.  n counts the sends of its run, so that *)
(* two requests are never taken for one; slot is the row the run holds     *)
(* for it, which GitHub does not see.                                      *)
(***************************************************************************)
Request == [run : Runs, n : Nat, line : Lines, slot : Slot]

VARIABLES
  table,      \* posted_comments: the row of each slot, or NoRow
  pc,         \* where each run is in post()
  kept,       \* the drafts each run was handed
  pos,        \* index of the draft each run is on
  slot,       \* take_slot's loop variable; then the slot it returned
  sent,       \* requests each run has sent
  reply,      \* the answer waiting for each run, if any
  wire,       \* requests GitHub has not decided yet
  comments    \* comments on the pull request PR-Lens wrote

runVars == <<pc, kept, pos, slot, sent, reply>>
vars == <<table, runVars, wire, comments>>

PC == {"idle", "insert", "check", "send", "await",
       "mark_posted", "mark_failed", "done", "dead"}
Live(r) == pc[r] \notin {"idle", "done", "dead"}

TypeOK ==
  /\ table \in [Slot -> Row \cup {NoRow}]
  /\ pc \in [Runs -> PC]
  /\ kept \in [Runs -> Seq(Draft)]
  /\ pos \in [Runs -> Nat \ {0}]
  /\ slot \in [Runs -> Slot]
  /\ sent \in [Runs -> Nat]
  /\ reply \in [Runs -> {"none", "created", "refused"}]
  /\ wire \subseteq Request
  /\ comments \subseteq Request

Init ==
  /\ table = [s \in Slot |-> NoRow]
  /\ pc = [r \in Runs |-> "idle"]
  /\ kept = [r \in Runs |-> <<>>]
  /\ pos = [r \in Runs |-> 1]
  /\ slot = [r \in Runs |-> 1]
  /\ sent = [r \in Runs |-> 0]
  /\ reply = [r \in Runs |-> "none"]
  /\ wire = {}
  /\ comments = {}

-----------------------------------------------------------------------------
Item(r) == kept[r][pos[r]]

(* unique (repo, pr_number, path, line): some row carries this line *)
LineTaken(l) == \E s \in Slot : table[s] # NoRow /\ table[s].line = l

(* primary key (repo, pr_number, slot) and the unique line: an INSERT of    *)
(* this slot and line conflicts with neither                                *)
Insertable(s, l) == table[s] = NoRow /\ ~LineTaken(l)

At(r, where) == pc[r] = where
Goto(r, where) == pc' = [pc EXCEPT ![r] = where]

(***************************************************************************)
(* The end of one turn of post()'s loop: the next draft from slot 1, or    *)
(* the end of the list.                                                    *)
(***************************************************************************)
NextItem(r) ==
  /\ pos' = [pos EXCEPT ![r] = @ + 1]
  /\ slot' = [slot EXCEPT ![r] = 1]
  /\ Goto(r, IF pos[r] < Len(kept[r]) THEN "insert" ELSE "done")
  /\ UNCHANGED <<kept, sent>>

(***************************************************************************)
(* post() is called with the drafts the filter kept.                       *)
(***************************************************************************)
Call(r, batch) ==
  /\ At(r, "idle")
  /\ kept' = [kept EXCEPT ![r] = batch]
  /\ Goto(r, IF batch = <<>> THEN "done" ELSE "insert")
  /\ UNCHANGED <<table, pos, slot, sent, reply, wire, comments>>

(***************************************************************************)
(* INSERT ... ON CONFLICT DO NOTHING RETURNING slot, returning a row.      *)
(***************************************************************************)
InsertRow(r) ==
  /\ At(r, "insert")
  /\ Insertable(slot[r], Item(r).line)
  /\ table' = [table EXCEPT
        ![slot[r]] = [line |-> Item(r).line, run |-> r, status |-> "pending"]]
  /\ Goto(r, "send")
  /\ UNCHANGED <<kept, pos, slot, sent, reply, wire, comments>>

(* Mutant: the result of the INSERT is not looked at.                      *)
InsertConflictIgnored(r) ==
  /\ At(r, "insert")
  /\ ~Insertable(slot[r], Item(r).line)
  /\ Goto(r, "send")
  /\ UNCHANGED <<table, kept, pos, slot, sent, reply, wire, comments>>

(* The same INSERT, conflicting on the slot or on the line: no row back.   *)
InsertConflict(r) ==
  /\ At(r, "insert")
  /\ ~Insertable(slot[r], Item(r).line)
  /\ Goto(r, "check")
  /\ UNCHANGED <<table, kept, pos, slot, sent, reply, wire, comments>>

(* Mutant: any conflict ends take_slot, as if it could only be the line.   *)
GiveUpOnConflict(r) ==
  /\ At(r, "check")
  /\ NextItem(r)
  /\ UNCHANGED <<table, reply, wire, comments>>

(* Mutant: the loop bound is off by one.                                   *)
TryPastCap(r) ==
  /\ At(r, "check")
  /\ ~LineTaken(Item(r).line)
  /\ slot' = [slot EXCEPT ![r] = @ + 1]
  /\ Goto(r, "insert")
  /\ UNCHANGED <<table, kept, pos, sent, reply, wire, comments>>

(***************************************************************************)
(* The SELECT after a conflict.  A taken line ends take_slot with None; so *)
(* does the last slot; otherwise the next slot is tried.                   *)
(***************************************************************************)
GiveUp(r) ==
  /\ At(r, "check")
  /\ LineTaken(Item(r).line) \/ slot[r] = Cap
  /\ NextItem(r)
  /\ UNCHANGED <<table, reply, wire, comments>>

TryNextSlot(r) ==
  /\ At(r, "check")
  /\ ~LineTaken(Item(r).line)
  /\ slot[r] < Cap
  /\ slot' = [slot EXCEPT ![r] = @ + 1]
  /\ Goto(r, "insert")
  /\ UNCHANGED <<table, kept, pos, sent, reply, wire, comments>>

(***************************************************************************)
(* writes.send(): the route's check refuses a body that is too long with   *)
(* ForbiddenWrite, which post() does not catch, so the run ends there with *)
(* its row taken.  Otherwise the request leaves.                           *)
(***************************************************************************)
RefuseWrite(r) ==
  /\ At(r, "send")
  /\ Item(r).long
  /\ Goto(r, "dead")
  /\ UNCHANGED <<table, kept, pos, slot, sent, reply, wire, comments>>

Send(r) ==
  /\ At(r, "send")
  /\ ~Item(r).long
  /\ sent' = [sent EXCEPT ![r] = @ + 1]
  /\ wire' = wire \cup {[run |-> r, n |-> sent[r] + 1,
                         line |-> Item(r).line, slot |-> slot[r]]}
  /\ reply' = [reply EXCEPT ![r] = "none"]
  /\ Goto(r, "await")
  /\ UNCHANGED <<table, kept, pos, slot, comments>>

(***************************************************************************)
(* GitHub decides a request, whether or not its sender still listens: 201  *)
(* with the comment on the pull request, or any other status without it.   *)
(***************************************************************************)
Answer(m, how) ==
  reply' = IF At(m.run, "await") /\ sent[m.run] = m.n
             THEN [reply EXCEPT ![m.run] = how] ELSE reply

Accept(m) ==
  /\ m \in wire
  /\ wire' = wire \ {m}
  /\ comments' = comments \cup {m}
  /\ Answer(m, "created")
  /\ UNCHANGED <<table, pc, kept, pos, slot, sent>>

Reject(m) ==
  /\ m \in wire
  /\ wire' = wire \ {m}
  /\ Answer(m, "refused")
  /\ UNCHANGED <<table, pc, kept, pos, slot, sent, comments>>

Lose(m) ==
  /\ m \in wire
  /\ wire' = wire \ {m}
  /\ UNCHANGED <<table, runVars, comments>>

(* Mutants: the status of the answer is not compared with 201; an HTTP     *)
(* error sends the request again.                                          *)
ReadAnyReply(r) ==
  /\ At(r, "await")
  /\ reply[r] # "none"
  /\ Goto(r, "mark_posted")
  /\ reply' = [reply EXCEPT ![r] = "none"]
  /\ UNCHANGED <<table, kept, pos, slot, sent, wire, comments>>

HttpErrorRetries(r) ==
  /\ At(r, "await")
  /\ Goto(r, "send")
  /\ reply' = [reply EXCEPT ![r] = "none"]
  /\ UNCHANGED <<table, kept, pos, slot, sent, wire, comments>>

(***************************************************************************)
(* What client.request() comes back with.                                  *)
(***************************************************************************)
ReadReply(r) ==
  /\ At(r, "await")
  /\ reply[r] # "none"
  /\ Goto(r, IF reply[r] = "created" THEN "mark_posted" ELSE "mark_failed")
  /\ reply' = [reply EXCEPT ![r] = "none"]
  /\ UNCHANGED <<table, kept, pos, slot, sent, wire, comments>>

(* httpx.HTTPError: a timeout or a broken connection, whatever GitHub does *)
HttpError(r) ==
  /\ At(r, "await")
  /\ Goto(r, "mark_failed")
  /\ reply' = [reply EXCEPT ![r] = "none"]
  /\ UNCHANGED <<table, kept, pos, slot, sent, wire, comments>>

Mark(r, status) ==
  /\ table' = [table EXCEPT ![slot[r]].status = status]
  /\ NextItem(r)
  /\ UNCHANGED <<reply, wire, comments>>

(* Mutant: a failed post gives its slot back.                              *)
MarkFailedFreesSlot(r) ==
  /\ At(r, "mark_failed")
  /\ table' = [table EXCEPT ![slot[r]] = NoRow]
  /\ NextItem(r)
  /\ UNCHANGED <<reply, wire, comments>>

MarkPosted(r) == At(r, "mark_posted") /\ Mark(r, "posted")
MarkFailed(r) == At(r, "mark_failed") /\ Mark(r, "failed")

(***************************************************************************)
(* The workflow run is cancelled or its process dies: nothing is undone.   *)
(***************************************************************************)
Kill(r) ==
  /\ Live(r)
  /\ Goto(r, "dead")
  /\ UNCHANGED <<table, kept, pos, slot, sent, reply, wire, comments>>

PostStep(r) ==
  \/ InsertRow(r) \/ InsertConflict(r) \/ GiveUp(r) \/ TryNextSlot(r)
  \/ RefuseWrite(r) \/ Send(r) \/ ReadReply(r) \/ HttpError(r)
  \/ MarkPosted(r) \/ MarkFailed(r)

GitHubStep == \E m \in wire : Accept(m) \/ Reject(m) \/ Lose(m)

Next ==
  \/ \E r \in Runs : \E batch \in Batches : Call(r, batch)
  \/ \E r \in Runs : PostStep(r)
  \/ \E r \in Runs : Kill(r)
  \/ GitHubStep

Spec == Init /\ [][Next]_vars

-----------------------------------------------------------------------------
(***************************************************************************)
(* Safety.                                                                 *)
(***************************************************************************)

(* However many runs race, are killed or lose answers, the pull request    *)
(* never carries more than Cap comments of PR-Lens (migration 0004, "the   *)
(* per-PR cap").                                                           *)
AtMostCap == Cardinality(comments) <= Cap

(* No line of the pull request is ever commented on twice by PR-Lens, even *)
(* when a request that timed out is accepted later (migration 0004, "one   *)
(* per line").                                                             *)
OneCommentPerLine ==
  \A c, d \in comments : c.line = d.line => c = d

(* Take the row, then call GitHub (post.py, "the order is the whole        *)
(* design"): every request on its way and every comment on the pull        *)
(* request is backed by a row its own run took for that line.              *)
RowBeforeRequest ==
  \A m \in wire \cup comments :
    /\ table[m.slot] # NoRow
    /\ table[m.slot].line = m.line
    /\ table[m.slot].run = m.run

(* A row that says posted is telling the truth: the comment of that slot   *)
(* is on the pull request (mark_posted is reached only through a 201).     *)
PostedIsThere ==
  \A s \in Slot :
    table[s] # NoRow /\ table[s].status = "posted" =>
      \E c \in comments : c.slot = s /\ c.line = table[s].line

(* take_slot never wastes room: once a run has moved past a kept draft,    *)
(* either the draft's line is in the ledger or every slot is taken, however *)
(* the run's statements interleaved with other runs' (db/comments.py,      *)
(* "None for either of the two reasons the constraints give").             *)
NoDraftDroppedWithRoom ==
  \A r \in Runs : \A i \in 1 .. Len(kept[r]) :
    i < pos[r] => \/ LineTaken(kept[r][i].line)
                  \/ \A s \in Slot : table[s] # NoRow

(* Slots fill from the first, with no hole, although each run walks them   *)
(* with separate statements ("the first free slot for this comment").      *)
NoHoleInSlots ==
  \A s, t \in Slot : s < t /\ table[t] # NoRow => table[s] # NoRow

(* The inductive strengthening CommentLedgerProofs rests on.  A live run   *)
(* is on one of its drafts, and an idle one has not moved.  A run that     *)
(* holds a slot (it is about to send, is waiting, or is about to mark)     *)
(* finds its own pending row there; until it has sent, no request ever     *)
(* used that slot; one slot never backs two requests; two rows never share *)
(* a line; and the slots below the one a run is trying are all taken.      *)
Holding(r) == pc[r] \in {"send", "await", "mark_posted", "mark_failed"}
Trying(r) == pc[r] \in {"insert", "check"}

OnItem ==
  \A r \in Runs : /\ Live(r) => pos[r] <= Len(kept[r])
                  /\ pc[r] = "idle" => pos[r] = 1 /\ slot[r] = 1

HolderHasRow ==
  \A r \in Runs : Holding(r) =>
    table[slot[r]] = [line |-> Item(r).line, run |-> r, status |-> "pending"]

UnsentIsFresh ==
  \A r \in Runs : pc[r] = "send" =>
    \A m \in wire \cup comments : m.slot # slot[r]

OneRequestPerSlot ==
  \A m, d \in wire \cup comments : m.slot = d.slot => m = d

OneRowPerLine ==
  \A s, t \in Slot :
    /\ table[s] # NoRow
    /\ table[t] # NoRow
    /\ table[s].line = table[t].line
    => s = t

TriedSlotsTaken ==
  \A r \in Runs : Trying(r) =>
    /\ \A s \in Slot : s < slot[r] => table[s] # NoRow
    /\ pc[r] = "check" => table[slot[r]] # NoRow \/ LineTaken(Item(r).line)

LedgerInv ==
  /\ TypeOK
  /\ OnItem
  /\ HolderHasRow
  /\ UnsentIsFresh
  /\ OneRequestPerSlot
  /\ RowBeforeRequest
  /\ OneRowPerLine
  /\ TriedSlotsTaken
  /\ NoHoleInSlots
  /\ NoDraftDroppedWithRoom

(***************************************************************************)
(* Action properties.                                                      *)
(***************************************************************************)

(* A row once taken is for ever: it keeps its line and its run, and a row  *)
(* whose post settled, posted or failed, is never touched again ("a row    *)
(* whose post failed keeps its slot"), so no later run retries it.         *)
RowsAreFinal ==
  [][\A s \in Slot : table[s] # NoRow =>
       /\ table'[s] # NoRow
       /\ table'[s].line = table[s].line
       /\ table'[s].run = table[s].run
       /\ table[s].status # "pending" => table'[s] = table[s]]_vars

(***************************************************************************)
(* The ledger implements the promise.                                      *)
(***************************************************************************)
Promise == INSTANCE CommentPromise WITH Cap <- Cap, comments <- comments

(* Seen from the pull request alone, every step of the racing runs is a    *)
(* single allowed comment appearing, or nothing.                           *)
KeepsPromise == Promise!Spec
=============================================================================
