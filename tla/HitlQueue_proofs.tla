-------------------------- MODULE HitlQueue_proofs --------------------------
(***************************************************************************)
(* Theorems about HitlQueue, for any set of proposals, deciders and        *)
(* reviewers, any number of rows and any number of crashes.                *)
(***************************************************************************)
EXTENDS HitlQueue, TLAPS

-----------------------------------------------------------------------------
(* The inductive invariant                                                 *)

\* TypeOK alone is not inductive: grant_standing_approval and mark_complete
\* need the rows their callers hold to be rows that were asked for.
WellFormed ==
  /\ \A i \in Rows : queue[i].status /= "absent" <=> queue[i].work \in Work
  /\ \A d \in Deciders :
       /\ decider[d].pc /= "idle" => decider[d].work \in Work
       /\ decider[d].row /= NoRow => queue[decider[d].row].work \in Work
  /\ \A r \in Reviewers : reviewer[r].pc /= "idle" =>
       reviewer[r].row /= NoRow /\ queue[reviewer[r].row].work \in Work

TypeInv == TypeOK /\ WellFormed

\* Decider d was told AUTO on row i and has not started the run yet.
HeldBy(d, i) == decider[d].pc = "granted" /\ decider[d].row = i

\* Reviewer r took the push claim on row i and has not POSTed yet.
Posting(r, i) ==
  /\ reviewer[r].row = i
  /\ \/ reviewer[r].pc = "post"
     \/ reviewer[r].pc = "grant" /\ reviewer[r].claim

Releasing(r, i) == reviewer[r].row = i /\ reviewer[r].pc = "release"

\* Nothing has run on row i and no process is about to run anything on it.
Free(i) ==
  /\ runs[i] = 0
  /\ \A d \in Deciders : decider[d].row /= i
  /\ \A r \in Reviewers : ~Posting(r, i)

\* Rows outside these statuses belong to whoever took them.
Unclaimed == {"absent", "pending", "approved"} \union Denials

UnclaimedIsFree == \A i \in Rows : queue[i].status \in Unclaimed => Free(i)

OneHolder ==
  \A i \in Rows :
    /\ \A d, e \in Deciders : HeldBy(d, i) /\ HeldBy(e, i) => d = e
    /\ \A r, s \in Reviewers : Posting(r, i) /\ Posting(s, i) => r = s
    /\ \A d \in Deciders, r \in Reviewers : ~(decider[d].row = i /\ Posting(r, i))

HeldIsUnspent ==
  \A i \in Rows :
    (\E d \in Deciders : HeldBy(d, i)) \/ (\E r \in Reviewers : Posting(r, i))
      => runs[i] = 0

\* A refused push still owns a row nothing has run on.
RefusedIsFree ==
  \A i \in Rows, r \in Reviewers :
    Releasing(r, i) /\ OwnsClaim(queue[i]) => Free(i)

\* A decider that was not told AUTO by a row names none.
RowOnlyWhenGranted ==
  \A d \in Deciders : decider[d].pc \notin {"granted", "running"}
                        => decider[d].row = NoRow

\* A claim is put on a row by the review that takes it out of "pending".
AtRest(row) == row.status \in {"absent", "pending", "approved"} => ~row.claimed

NoClaimAtRest == \A i \in Rows : AtRest(queue[i])

\* A claim is released on a row that was reviewed, and no row returns from that.
Unreviewed == {"absent", "pending"}

ReleasingIsReviewed ==
  \A i \in Rows, r \in Reviewers :
    Releasing(r, i) => queue[i].status \notin Unreviewed

Safe ==
  /\ TypeInv
  /\ UnclaimedIsFree
  /\ OneHolder
  /\ HeldIsUnspent
  /\ RefusedIsFree
  /\ RowOnlyWhenGranted
  /\ NoClaimAtRest
  /\ ReleasingIsReviewed
  /\ AtMostOnce

-----------------------------------------------------------------------------
(* What the row operations return                                          *)

\* Every operation keeps a row a row, leaves its proposal alone, and neither
\* adds a row to the file nor removes one.
SameRow(row, after) ==
  /\ after \in Row
  /\ after.work = row.work
  /\ after.status = "absent" => row.status = "absent"

LEMMA RowOperations ==
  ASSUME NEW row \in Row
  PROVE  /\ SameRow(row, Leased(row)) /\ Leased(row).status = "executing"
         /\ \A failed \in BOOLEAN :
              /\ SameRow(row, Completed(row, failed))
              /\ Completed(row, failed).status \in {"done", "failed"}
         /\ SameRow(row, ExpireLease(row))
         /\ SameRow(row, Resurface(row))
         /\ row.status = "absent" => ExpireLease(row) = row /\ Resurface(row) = row
         /\ SameRow(row, SettledClaim(row)) /\ SettledClaim(row).status = "dispatched"
         /\ SameRow(row, ReleasedClaim(row)) /\ ReleasedClaim(row).status = "approved"
<1> USE DEF Row, Statuses, SameRow
<1>1. SameRow(row, Leased(row)) /\ Leased(row).status = "executing"
  BY DEF Leased
<1>2. ASSUME NEW failed \in BOOLEAN
      PROVE  /\ SameRow(row, Completed(row, failed))
             /\ Completed(row, failed).status \in {"done", "failed"}
  <2>1. CASE failed
    BY <2>1 DEF Completed
  <2>2. CASE ~failed
    BY <2>2 DEF Completed
  <2> QED  BY <2>1, <2>2
<1>3. SameRow(row, ExpireLease(row))
  BY DEF ExpireLease
<1>4. SameRow(row, Resurface(row))
  BY DEF Resurface
<1>5. row.status = "absent" => ExpireLease(row) = row /\ Resurface(row) = row
  BY DEF ExpireLease, Resurface
<1>6. SameRow(row, SettledClaim(row)) /\ SettledClaim(row).status = "dispatched"
  BY DEF SettledClaim
<1>7. SameRow(row, ReleasedClaim(row)) /\ ReleasedClaim(row).status = "approved"
  BY DEF ReleasedClaim
<1> QED  BY <1>1, <1>2, <1>3, <1>4, <1>5, <1>6, <1>7

LEMMA ReviewedRow ==
  ASSUME NEW row \in Row, NEW action \in Actions, NEW push \in BOOLEAN
  PROVE  /\ Reviewed(row, action, push) \in Row
         /\ Reviewed(row, action, push).work = row.work
         /\ Reviewed(row, action, push).status \in Approvals \union Denials
<1>1. CASE ~Grants(action)
  <2>1. Verdict[action] \in Denials
    BY <1>1 DEF Actions, Grants, Verdict, Denials
  <2> QED  BY <1>1, <2>1 DEF Row, Statuses, Reviewed, Denials
<1>2. CASE Grants(action) /\ Claims(row, action, push)
  BY <1>2 DEF Row, Statuses, Reviewed, Approvals
<1>3. CASE Grants(action) /\ ~Claims(row, action, push)
  BY <1>3 DEF Row, Statuses, Reviewed, Approvals
<1> QED  BY <1>1, <1>2, <1>3

LEMMA NewRowType ==
  ASSUME NEW w \in Work, NEW tier \in {"queue", "hitl"}
  PROVE  /\ NewRow(w, tier) \in Row
         /\ NewRow(w, tier).work = w
         /\ NewRow(w, tier).status = "pending"
         /\ NewRow(w, tier).claimed = FALSE
         /\ NewRow(w, tier).hashed = FALSE
  BY DEF NewRow, BlankRow, Row, Statuses

\* enqueue_hitl adds at most one row, in a place nothing used.
LEMMA EnqueueAddsOneRow ==
  ASSUME NEW before \in [Rows -> Row], NEW after, NEW w \in Work,
         NEW override, NEW tier \in {"queue", "hitl"},
         Enqueue(before, w, override, tier, after)
  PROVE  /\ after \in [Rows -> Row]
         /\ \A i \in Rows : \/ after[i] = before[i]
                            \/ /\ before[i].status = "absent"
                               /\ after[i] = NewRow(w, tier)
<1>1. CASE after = before
  BY <1>1
<1>2. CASE \E i \in FreeRows(before) :
             after = [before EXCEPT ![i] = NewRow(w, tier)]
  <2>1. NewRow(w, tier) \in Row
    BY NewRowType
  <2>2. PICK i \in FreeRows(before) : after = [before EXCEPT ![i] = NewRow(w, tier)]
    BY <1>2
  <2>3. i \in Rows /\ before[i].status = "absent"
    BY DEF FreeRows
  <2> QED  BY <2>1, <2>2, <2>3
<1> QED  BY <1>1, <1>2 DEF Enqueue

-----------------------------------------------------------------------------
(* Type correctness                                                        *)

USE RowsAssumption DEF Rows, NoRow

LEMMA KeyType == \A w \in Work : KeyOf(w) \in Keys
  BY ProposalAssumption DEF KeyOf, ProposalFields

LEMMA IdleTypes ==
  /\ IdleDecider \in DeciderState
  /\ IdleReviewer \in ReviewerState
  BY DEF IdleDecider, DeciderState, IdleReviewer, ReviewerState, Overrides

LEMMA TypeInit == Init => TypeInv
<1> SUFFICES ASSUME Init PROVE TypeInv
  OBVIOUS
<1>1. BlankRow \in Row /\ BlankRow.status = "absent" /\ BlankRow.work \notin Work
  BY NoWorkAssumption DEF BlankRow, Row, Statuses
<1>2. ASSUME NEW w \in Legacy
      PROVE  /\ LegacyRow(w) \in Row /\ LegacyRow(w).work \in Work
             /\ LegacyRow(w).status /= "absent"
  BY LegacyAssumption DEF LegacyRow, BlankRow, Row, Statuses
<1>3. /\ queue \in [Rows -> Row]
      /\ \A i \in Rows : queue[i].status /= "absent" <=> queue[i].work \in Work
  BY <1>1, <1>2 DEF Init
<1>4. TypeOK
  BY <1>3, IdleTypes DEF Init, TypeOK
<1>5. WellFormed
  BY <1>3 DEF Init, WellFormed, IdleDecider, IdleReviewer
<1> QED  BY <1>4, <1>5 DEF TypeInv

\* A step that leaves the proposal of every row in use alone keeps the part
\* of WellFormed about the queue.
KeepsWork ==
  \A i \in Rows : /\ queue[i].work \in Work => queue'[i].work = queue[i].work
                  /\ queue'[i].status /= "absent" <=> queue'[i].work \in Work

\* Nobody takes hold of a row that was not asked for.
KeepsHolders ==
  /\ \A d \in Deciders :
       /\ decider'[d].pc /= "idle" => decider'[d].work \in Work
       /\ decider'[d].row /= NoRow => queue[decider'[d].row].work \in Work
  /\ \A r \in Reviewers : reviewer'[r].pc /= "idle" =>
       reviewer'[r].row /= NoRow /\ queue[reviewer'[r].row].work \in Work

LEMMA StaysWellFormed ==
  ASSUME TypeOK', KeepsWork, KeepsHolders
  PROVE  WellFormed'
<1>1. /\ \A d \in Deciders : decider'[d].row \in Rows \union {NoRow}
      /\ \A r \in Reviewers : reviewer'[r].row \in Rows \union {NoRow}
  BY DEF TypeOK, DeciderState, ReviewerState
<1> QED  BY <1>1 DEF WellFormed, KeepsWork, KeepsHolders

LEMMA QueueUnchanged == TypeInv /\ UNCHANGED queue => KeepsWork
  BY DEF TypeInv, WellFormed, KeepsWork

\* Rows in use are rewritten, each by an operation.
LEMMA RowsChange ==
  ASSUME TypeInv, queue' \in [Rows -> Row],
         \A i \in Rows : /\ SameRow(queue[i], queue'[i])
                         /\ queue[i].status = "absent" => queue'[i] = queue[i]
  PROVE  KeepsWork
  BY DEF TypeInv, WellFormed, KeepsWork, SameRow

\* One row is rewritten by one of the operations.
LEMMA OneRowChanges ==
  ASSUME TypeInv, NEW i \in Rows, NEW row, queue' = [queue EXCEPT ![i] = row],
         SameRow(queue[i], row), queue[i].work \in Work, row.status /= "absent"
  PROVE  queue' \in [Rows -> Row] /\ KeepsWork
  BY DEF TypeInv, TypeOK, WellFormed, KeepsWork, SameRow

LEMMA ReviewersUnchanged ==
  ASSUME TypeInv, UNCHANGED reviewer
  PROVE  \A r \in Reviewers : reviewer'[r].pc /= "idle" =>
           reviewer'[r].row /= NoRow /\ queue[reviewer'[r].row].work \in Work
  BY DEF TypeInv, WellFormed

LEMMA DecidersUnchanged ==
  ASSUME TypeInv, UNCHANGED decider
  PROVE  \A d \in Deciders :
           /\ decider'[d].pc /= "idle" => decider'[d].work \in Work
           /\ decider'[d].row /= NoRow => queue[decider'[d].row].work \in Work
  BY DEF TypeInv, WellFormed

\* One decider steps: what matters is where it is afterwards.
LEMMA DeciderMoves ==
  ASSUME TypeInv, NEW d \in Deciders, UNCHANGED reviewer,
         NEW me \in DeciderState, decider' = [decider EXCEPT ![d] = me],
         me.pc /= "idle" => me.work \in Work,
         me.row /= NoRow => queue[me.row].work \in Work
  PROVE  decider' \in [Deciders -> DeciderState] /\ KeepsHolders
<1>1. decider' \in [Deciders -> DeciderState]
  BY DEF TypeInv, TypeOK
<1>2. \A e \in Deciders : decider'[e] = IF e = d THEN me ELSE decider[e]
  BY DEF TypeInv, TypeOK
<1> QED  BY <1>1, <1>2, ReviewersUnchanged DEF TypeInv, WellFormed, KeepsHolders

LEMMA MoveType ==
  ASSUME TypeInv, NEW d \in Deciders, UNCHANGED reviewer, NEW from, NEW to,
         Move(d, from, to), from /= "idle",
         to \in {"ttl", "limits", "consume", "route", "granted", "running"}
  PROVE  decider' \in [Deciders -> DeciderState] /\ KeepsHolders
<1> DEFINE me == [decider[d] EXCEPT !.pc = to]
<1>1. decider[d] \in DeciderState
  BY DEF TypeInv, TypeOK
<1>2. me \in DeciderState /\ me.work = decider[d].work /\ me.row = decider[d].row
  BY <1>1 DEF DeciderState
<1>3. decider' = [decider EXCEPT ![d] = me]
  BY DEF Move
<1>4. decider[d].pc /= "idle"
  BY DEF Move
<1>5. decider[d].work \in Work
  BY <1>4 DEF TypeInv, WellFormed
<1>6. decider[d].row /= NoRow => queue[decider[d].row].work \in Work
  BY DEF TypeInv, WellFormed
<1> HIDE DEF me
<1> QED  BY <1>2, <1>3, <1>5, <1>6, DeciderMoves

LEMMA ReturnType ==
  ASSUME TypeInv, NEW d \in Deciders, UNCHANGED reviewer,
         decider' = [decider EXCEPT ![d] = IdleDecider]
  PROVE  decider' \in [Deciders -> DeciderState] /\ KeepsHolders
<1>1. IdleDecider.pc = "idle" /\ IdleDecider.row = NoRow
  BY DEF IdleDecider
<1> QED  BY <1>1, IdleTypes, DeciderMoves

LEMMA EnqueueType ==
  ASSUME TypeInv, NEW w \in Work, NEW override, NEW tier \in {"queue", "hitl"},
         Enqueue(queue, w, override, tier, queue')
  PROVE  queue' \in [Rows -> Row] /\ KeepsWork
<1>1. /\ queue' \in [Rows -> Row]
      /\ \A i \in Rows : \/ queue'[i] = queue[i]
                         \/ /\ queue[i].status = "absent"
                            /\ queue'[i] = NewRow(w, tier)
  BY EnqueueAddsOneRow DEF TypeInv, TypeOK
<1>2. NewRow(w, tier).work \in Work /\ NewRow(w, tier).status = "pending"
  BY NewRowType
<1> QED  BY <1>1, <1>2 DEF TypeInv, WellFormed, KeepsWork

\* One reviewer steps.
LEMMA ReviewerSteps ==
  ASSUME TypeInv, NEW r \in Reviewers, UNCHANGED decider,
         NEW me \in ReviewerState, reviewer' = [reviewer EXCEPT ![r] = me],
         me.pc /= "idle" => me.row /= NoRow /\ queue[me.row].work \in Work
  PROVE  reviewer' \in [Reviewers -> ReviewerState] /\ KeepsHolders
<1>1. reviewer' \in [Reviewers -> ReviewerState]
  BY DEF TypeInv, TypeOK
<1>2. \A s \in Reviewers : reviewer'[s] = IF s = r THEN me ELSE reviewer[s]
  BY DEF TypeInv, TypeOK
<1> QED  BY <1>1, <1>2, DecidersUnchanged DEF TypeInv, WellFormed, KeepsHolders

LEMMA ReviewerMovesType ==
  ASSUME TypeInv, NEW r \in Reviewers, UNCHANGED decider, reviewer[r].pc /= "idle",
         NEW to \in {"idle", "post", "settle", "release"}, ReviewerMoves(r, to)
  PROVE  reviewer' \in [Reviewers -> ReviewerState] /\ KeepsHolders
<1>1. reviewer[r] \in ReviewerState
  BY DEF TypeInv, TypeOK
<1>2. reviewer[r].row /= NoRow /\ queue[reviewer[r].row].work \in Work
  BY DEF TypeInv, WellFormed
<1>3. CASE to = "idle"
  <2>1. reviewer' = [reviewer EXCEPT ![r] = IdleReviewer]
    BY <1>3 DEF ReviewerMoves
  <2>2. IdleReviewer.pc = "idle"
    BY DEF IdleReviewer
  <2> QED  BY <2>1, <2>2, IdleTypes, ReviewerSteps
<1>4. CASE to /= "idle"
  <2> DEFINE me == [reviewer[r] EXCEPT !.pc = to]
  <2>1. reviewer' = [reviewer EXCEPT ![r] = me]
    BY <1>4 DEF ReviewerMoves
  <2>2. me \in ReviewerState /\ me.row = reviewer[r].row
    BY <1>1 DEF ReviewerState
  <2> HIDE DEF me
  <2> QED  BY <1>2, <2>1, <2>2, ReviewerSteps
<1> QED  BY <1>3, <1>4

LEMMA CountRunType ==
  ASSUME runs \in [Rows -> Nat], NEW i \in Rows \union {NoRow}, CountRun(i)
  PROVE  runs' \in [Rows -> Nat]
  BY DEF CountRun

LEMMA ChainType ==
  ASSUME TypeInv, NEW i \in Rows, NEW action, NEW push, Chain(i, action, push),
         Reviewed(queue[i], action, push).status \in Approvals \union Denials
  PROVE  ledger' \in [Rows -> Seq(Statuses)]
<1>1. Reviewed(queue[i], action, push).status \in Statuses
  BY DEF Approvals, Denials, Statuses
<1> QED  BY <1>1 DEF Chain, TypeInv, TypeOK

LEMMA AfterReviewType ==
  ASSUME NEW i \in Rows, NEW action \in Actions, NEW push \in BOOLEAN
  PROVE  /\ AfterReview(i, action, push) \in ReviewerState
         /\ AfterReview(i, action, push).pc \in {"idle", "grant", "post"}
         /\ AfterReview(i, action, push).pc /= "idle"
              => AfterReview(i, action, push).row = i
<1>1. Claims(queue[i], action, push) \in BOOLEAN
  BY DEF Claims, Grants
<1> QED  BY <1>1 DEF AfterReview, ReviewerState, IdleReviewer

LEMMA TypeStep == TypeInv /\ [Next]_vars => TypeInv'
<1> SUFFICES ASSUME TypeInv, [Next]_vars PROVE TypeInv'
  OBVIOUS
<1>1. ASSUME NEW d \in Deciders, NEW w \in Work, Begin(d, w)
      PROVE  TypeInv'
  <2>1. PICK t \in PolicyTiers :
          decider' = [decider EXCEPT ![d] = [IdleDecider EXCEPT
                        !.pc = "lease", !.work = w, !.override = t]]
    BY <1>1 DEF Begin
  <2> DEFINE me == [IdleDecider EXCEPT !.pc = "lease", !.work = w, !.override = t]
  <2>2. me \in DeciderState /\ me.work = w /\ me.row = NoRow
    BY PolicyAssumption DEF IdleDecider, DeciderState
  <2>3. UNCHANGED <<files, reviewer, runs, crashes>>
    BY <1>1 DEF Begin
  <2> HIDE DEF me
  <2>4. decider' \in [Deciders -> DeciderState] /\ KeepsHolders
    BY <2>1, <2>2, <2>3, DeciderMoves DEF me
  <2>5. TypeOK'
    BY <2>3, <2>4 DEF TypeInv, TypeOK, files
  <2> QED  BY <2>3, <2>4, <2>5, QueueUnchanged, StaysWellFormed DEF TypeInv, files
<1>2. ASSUME NEW d \in Deciders, ReconcileStaleExecuting(d)
      PROVE  TypeInv'
  <2>1. queue' \in [Rows -> Row] /\ KeepsWork
    <3>1. queue' = [i \in Rows |-> ExpireLease(queue[i])]
      BY <1>2 DEF ReconcileStaleExecuting
    <3>2. \A i \in Rows :
            /\ SameRow(queue[i], ExpireLease(queue[i]))
            /\ queue[i].status = "absent" => ExpireLease(queue[i]) = queue[i]
      BY RowOperations DEF TypeInv, TypeOK
    <3> QED  BY <3>1, <3>2, RowsChange DEF SameRow
  <2>2. decider' \in [Deciders -> DeciderState] /\ KeepsHolders
    BY <1>2, MoveType DEF ReconcileStaleExecuting
  <2>3. TypeOK'
    BY <1>2, <2>1, <2>2 DEF ReconcileStaleExecuting, TypeInv, TypeOK
  <2> QED  BY <2>1, <2>2, <2>3, StaysWellFormed DEF TypeInv
<1>3. ASSUME NEW d \in Deciders, ReconcileStaleApproved(d)
      PROVE  TypeInv'
  <2>1. queue' \in [Rows -> Row] /\ KeepsWork
    <3>1. queue' = [i \in Rows |-> Resurface(queue[i])]
      BY <1>3 DEF ReconcileStaleApproved
    <3>2. \A i \in Rows :
            /\ SameRow(queue[i], Resurface(queue[i]))
            /\ queue[i].status = "absent" => Resurface(queue[i]) = queue[i]
      BY RowOperations DEF TypeInv, TypeOK
    <3> QED  BY <3>1, <3>2, RowsChange DEF SameRow
  <2>2. decider' \in [Deciders -> DeciderState] /\ KeepsHolders
    BY <1>3, MoveType DEF ReconcileStaleApproved
  <2>3. TypeOK'
    BY <1>3, <2>1, <2>2 DEF ReconcileStaleApproved, TypeInv, TypeOK
  <2> QED  BY <2>1, <2>2, <2>3, StaysWellFormed DEF TypeInv
<1>4. ASSUME NEW d \in Deciders, CheckLimits(d)
      PROVE  TypeInv'
  <2>1. Return(d, "limits") \/ Move(d, "limits", "consume")
    BY <1>4 DEF CheckLimits
  <2>2. UNCHANGED <<files, reviewer, runs, crashes>>
    BY <1>4 DEF CheckLimits
  <2>3. decider' \in [Deciders -> DeciderState] /\ KeepsHolders
    BY <2>1, <2>2, MoveType, ReturnType DEF Return
  <2>4. TypeOK'
    BY <2>2, <2>3 DEF TypeInv, TypeOK, files
  <2> QED  BY <2>2, <2>3, <2>4, QueueUnchanged, StaysWellFormed DEF TypeInv, files
<1>5. ASSUME NEW d \in Deciders, ConsumeApproval(d)
      PROVE  TypeInv'
  <2>1. CASE Move(d, "consume", "route") /\ UNCHANGED queue
    <3>1. decider' \in [Deciders -> DeciderState] /\ KeepsHolders
      BY <1>5, <2>1, MoveType DEF ConsumeApproval
    <3>2. TypeOK'
      BY <1>5, <2>1, <3>1 DEF ConsumeApproval, TypeInv, TypeOK
    <3> QED  BY <2>1, <3>1, <3>2, QueueUnchanged, StaysWellFormed DEF TypeInv
  <2>2. ASSUME NEW i \in Rows,
               IsFirst(i, Consumable(queue, decider[d].work, decider[d].override)),
               queue' = [queue EXCEPT ![i] = Leased(@)],
               decider' = [decider EXCEPT ![d].pc = "granted", ![d].row = i]
        PROVE  TypeInv'
    <3> DEFINE me == [decider[d] EXCEPT !.pc = "granted", !.row = i]
    <3>1. queue[i].status = "approved" /\ queue[i].work \in Work
      BY <2>2 DEF IsFirst, Consumable, TypeInv, WellFormed
    <3>2. SameRow(queue[i], Leased(queue[i])) /\ Leased(queue[i]).status = "executing"
      BY RowOperations DEF TypeInv, TypeOK
    <3>3. queue' \in [Rows -> Row] /\ KeepsWork
      BY <2>2, <3>1, <3>2, OneRowChanges
    <3>4. decider[d] \in DeciderState /\ decider[d].work \in Work
      BY <1>5 DEF ConsumeApproval, TypeInv, TypeOK, WellFormed
    <3>5. me \in DeciderState /\ me.work \in Work /\ me.row = i
      BY <3>4 DEF DeciderState
    <3>6. decider' = [decider EXCEPT ![d] = me] /\ UNCHANGED reviewer
      BY <1>5, <2>2 DEF ConsumeApproval
    <3> HIDE DEF me
    <3>7. decider' \in [Deciders -> DeciderState] /\ KeepsHolders
      BY <3>1, <3>5, <3>6, DeciderMoves
    <3>8. TypeOK'
      BY <1>5, <3>3, <3>7 DEF ConsumeApproval, TypeInv, TypeOK
    <3> QED  BY <3>3, <3>7, <3>8, StaysWellFormed DEF TypeInv
  <2> QED  BY <1>5, <2>1, <2>2 DEF ConsumeApproval
<1>6. ASSUME NEW d \in Deciders, Route(d)
      PROVE  TypeInv'
  <2>1. PICK tier :
          \/ Move(d, "route", "granted")
          \/ /\ tier \in {"queue", "hitl"}
             /\ decider' = [decider EXCEPT ![d].pc = "enqueue", ![d].tier = tier]
    BY <1>6 DEF Route
  <2>2. UNCHANGED <<files, reviewer, runs, crashes>>
    BY <1>6 DEF Route
  <2>3. decider' \in [Deciders -> DeciderState] /\ KeepsHolders
    <3>1. CASE Move(d, "route", "granted")
      BY <2>2, <3>1, MoveType
    <3>2. CASE /\ tier \in {"queue", "hitl"}
               /\ decider' = [decider EXCEPT ![d].pc = "enqueue", ![d].tier = tier]
      <4> DEFINE me == [decider[d] EXCEPT !.pc = "enqueue", !.tier = tier]
      <4>1. decider[d] \in DeciderState /\ decider[d].work \in Work
        BY <1>6 DEF Route, TypeInv, TypeOK, WellFormed
      <4>2. me \in DeciderState /\ me.work \in Work /\ me.row = decider[d].row
        BY <3>2, <4>1 DEF DeciderState
      <4>3. decider[d].row /= NoRow => queue[decider[d].row].work \in Work
        BY DEF TypeInv, WellFormed
      <4>4. decider' = [decider EXCEPT ![d] = me]
        BY <3>2
      <4> HIDE DEF me
      <4> QED  BY <2>2, <4>2, <4>3, <4>4, DeciderMoves
    <3> QED  BY <2>1, <3>1, <3>2
  <2>4. TypeOK'
    BY <2>2, <2>3 DEF TypeInv, TypeOK, files
  <2> QED  BY <2>2, <2>3, <2>4, QueueUnchanged, StaysWellFormed DEF TypeInv, files
<1>7. ASSUME NEW d \in Deciders, EnqueueHitl(d)
      PROVE  TypeInv'
  <2>1. decider[d].work \in Work /\ decider[d].tier \in {"queue", "hitl"}
    BY <1>7 DEF EnqueueHitl, Return, TypeInv, TypeOK, WellFormed, DeciderState
  <2>2. queue' \in [Rows -> Row] /\ KeepsWork
    BY <1>7, <2>1, EnqueueType DEF EnqueueHitl
  <2>3. decider' \in [Deciders -> DeciderState] /\ KeepsHolders
    BY <1>7, ReturnType DEF EnqueueHitl, Return
  <2>4. TypeOK'
    BY <1>7, <2>2, <2>3 DEF EnqueueHitl, TypeInv, TypeOK
  <2> QED  BY <2>2, <2>3, <2>4, StaysWellFormed DEF TypeInv
<1>8. ASSUME NEW d \in Deciders, StartRun(d)
      PROVE  TypeInv'
  <2>1. UNCHANGED <<files, reviewer, crashes>>
    BY <1>8 DEF StartRun
  <2>2. decider' \in [Deciders -> DeciderState] /\ KeepsHolders
    BY <1>8, <2>1, MoveType DEF StartRun
  <2>3. decider[d].row \in Rows \union {NoRow}
    BY DEF TypeInv, TypeOK, DeciderState
  <2>4. runs' \in [Rows -> Nat]
    BY <1>8, <2>3, CountRunType DEF StartRun, TypeInv, TypeOK
  <2>5. TypeOK'
    BY <2>1, <2>2, <2>4 DEF TypeInv, TypeOK, files
  <2> QED  BY <2>1, <2>2, <2>5, QueueUnchanged, StaysWellFormed DEF TypeInv, files
<1>9. ASSUME NEW d \in Deciders, MarkComplete(d)
      PROVE  TypeInv'
  <2>1. PICK failed \in BOOLEAN :
          queue' = IF decider[d].row = NoRow THEN queue
                   ELSE [queue EXCEPT ![decider[d].row] = Completed(@, failed)]
    BY <1>9 DEF MarkComplete
  <2>2. decider[d].row \in Rows \union {NoRow}
    BY DEF TypeInv, TypeOK, DeciderState
  <2>3. queue' \in [Rows -> Row] /\ KeepsWork
    <3>1. CASE decider[d].row = NoRow
      BY <2>1, <3>1, QueueUnchanged DEF TypeInv, TypeOK
    <3>2. CASE decider[d].row /= NoRow
      <4>1. decider[d].row \in Rows /\ queue[decider[d].row].work \in Work
        BY <2>2, <3>2 DEF TypeInv, WellFormed
      <4>2. SameRow(queue[decider[d].row], Completed(queue[decider[d].row], failed))
            /\ Completed(queue[decider[d].row], failed).status \in {"done", "failed"}
        BY <4>1, RowOperations DEF TypeInv, TypeOK
      <4>3. queue' = [queue EXCEPT ![decider[d].row] =
                        Completed(queue[decider[d].row], failed)]
        BY <2>1, <3>2
      <4> QED  BY <4>1, <4>2, <4>3, OneRowChanges
    <3> QED  BY <3>1, <3>2
  <2>4. decider' \in [Deciders -> DeciderState] /\ KeepsHolders
    BY <1>9, ReturnType DEF MarkComplete, Return
  <2>5. TypeOK'
    BY <1>9, <2>3, <2>4 DEF MarkComplete, TypeInv, TypeOK
  <2> QED  BY <2>3, <2>4, <2>5, StaysWellFormed DEF TypeInv
<1>10. ASSUME NEW d \in Deciders, DeciderDies(d)
       PROVE  TypeInv'
  <2>1. UNCHANGED <<files, reviewer, runs>>
    BY <1>10 DEF DeciderDies
  <2>2. decider' \in [Deciders -> DeciderState] /\ KeepsHolders
    BY <1>10, <2>1, ReturnType DEF DeciderDies
  <2>3. TypeOK'
    BY <1>10, <2>1, <2>2 DEF DeciderDies, TypeInv, TypeOK, files
  <2> QED  BY <2>1, <2>2, <2>3, QueueUnchanged, StaysWellFormed DEF TypeInv, files
<1>11. ASSUME NEW w \in Work, RaiseHitl(w)
       PROVE  TypeInv'
  <2>1. queue' \in [Rows -> Row] /\ KeepsWork
    BY <1>11, EnqueueType DEF RaiseHitl
  <2>2. KeepsHolders
    BY <1>11, DecidersUnchanged, ReviewersUnchanged DEF RaiseHitl, KeepsHolders
  <2>3. TypeOK'
    BY <1>11, <2>1 DEF RaiseHitl, TypeInv, TypeOK
  <2> QED  BY <2>1, <2>2, <2>3, StaysWellFormed DEF TypeInv
<1>12. ASSUME NEW r \in Reviewers, NEW i \in Rows, NEW action \in Actions,
              NEW push \in BOOLEAN, Review(r, i, action, push)
       PROVE  TypeInv'
  <2>1. queue[i] \in Row /\ queue[i].work \in Work
    BY <1>12 DEF Review, Reviewable, ReviewableFrom, TypeInv, TypeOK, WellFormed
  <2>2. /\ SameRow(queue[i], Reviewed(queue[i], action, push))
        /\ Reviewed(queue[i], action, push).status \in Approvals \union Denials
    BY <2>1, ReviewedRow DEF SameRow, Approvals, Denials
  <2>3. queue' \in [Rows -> Row] /\ KeepsWork
    BY <1>12, <2>1, <2>2, OneRowChanges DEF Review, Approvals, Denials
  <2>4. ledger' \in [Rows -> Seq(Statuses)]
    BY <1>12, <2>2, ChainType DEF Review
  <2> DEFINE me == AfterReview(i, action, push)
  <2>5. /\ me \in ReviewerState
        /\ me.pc /= "idle" => me.row = i /\ i /= NoRow
    BY AfterReviewType
  <2>6. reviewer' = [reviewer EXCEPT ![r] = me] /\ UNCHANGED decider
    BY <1>12 DEF Review
  <2> HIDE DEF me
  <2>7. reviewer' \in [Reviewers -> ReviewerState] /\ KeepsHolders
    BY <2>1, <2>5, <2>6, ReviewerSteps
  <2>8. TypeOK'
    BY <1>12, <2>3, <2>4, <2>7 DEF Review, TypeInv, TypeOK
  <2> QED  BY <2>3, <2>7, <2>8, StaysWellFormed DEF TypeInv
<1>13. ASSUME NEW r \in Reviewers, NEW i \in Rows, NEW action \in Actions,
              NEW push \in BOOLEAN, ReviewDies(r, i, action, push)
       PROVE  TypeInv'
  <2>1. queue[i] \in Row
    BY DEF TypeInv, TypeOK
  <2>2. Reviewed(queue[i], action, push).status \in Approvals \union Denials
    BY <2>1, ReviewedRow
  <2>3. ledger' \in [Rows -> Seq(Statuses)]
    BY <1>13, <2>2, ChainType DEF ReviewDies
  <2>4. KeepsHolders
    BY <1>13, DecidersUnchanged, ReviewersUnchanged DEF ReviewDies, KeepsHolders
  <2>5. TypeOK'
    BY <1>13, <2>3 DEF ReviewDies, TypeInv, TypeOK
  <2> QED  BY <1>13, <2>4, <2>5, QueueUnchanged, StaysWellFormed DEF ReviewDies, TypeInv
<1>14. ASSUME NEW r \in Reviewers, GrantStanding(r)
       PROVE  TypeInv'
  <2>1. reviewer[r].row \in Rows /\ queue[reviewer[r].row].work \in Work
    BY <1>14 DEF GrantStanding, TypeInv, TypeOK, WellFormed, ReviewerState
  <2>2. standing' \subseteq Keys
    BY <1>14, <2>1, KeyType DEF GrantStanding, TypeInv, TypeOK
  <2>3. UNCHANGED <<queue, ledger, decider, runs, crashes>> /\ reviewer[r].pc /= "idle"
    BY <1>14 DEF GrantStanding
  <2>4. reviewer' \in [Reviewers -> ReviewerState] /\ KeepsHolders
    <3>1. CASE reviewer[r].claim
      BY <1>14, <2>3, <3>1, ReviewerMovesType DEF GrantStanding
    <3>2. CASE ~reviewer[r].claim
      BY <1>14, <2>3, <3>2, ReviewerMovesType DEF GrantStanding
    <3> QED  BY <3>1, <3>2
  <2>5. TypeOK'
    BY <2>2, <2>3, <2>4 DEF TypeInv, TypeOK
  <2> QED  BY <2>3, <2>4, <2>5, QueueUnchanged, StaysWellFormed DEF TypeInv
<1>15. ASSUME NEW r \in Reviewers, PostManualRun(r)
       PROVE  TypeInv'
  <2>1. UNCHANGED <<files, decider, crashes>> /\ reviewer[r].pc /= "idle"
    BY <1>15 DEF PostManualRun
  <2>2. reviewer[r].row \in Rows \union {NoRow}
    BY DEF TypeInv, TypeOK, ReviewerState
  <2>3. runs' \in [Rows -> Nat]
    BY <1>15, <2>2, CountRunType DEF PostManualRun, TypeInv, TypeOK
  <2>4. reviewer' \in [Reviewers -> ReviewerState] /\ KeepsHolders
    BY <1>15, <2>1, ReviewerMovesType DEF PostManualRun
  <2>5. TypeOK'
    BY <2>1, <2>3, <2>4 DEF TypeInv, TypeOK, files
  <2> QED  BY <2>1, <2>4, <2>5, QueueUnchanged, StaysWellFormed DEF TypeInv, files
<1>16. ASSUME NEW r \in Reviewers, SettlePushClaim(r)
       PROVE  TypeInv'
  <2> DEFINE i == reviewer[r].row
  <2>1. i \in Rows /\ queue[i].work \in Work /\ reviewer[r].pc /= "idle"
    BY <1>16 DEF SettlePushClaim, TypeInv, TypeOK, WellFormed, ReviewerState
  <2>2. SameRow(queue[i], SettledClaim(queue[i])) /\ SettledClaim(queue[i]).status = "dispatched"
    BY <2>1, RowOperations DEF TypeInv, TypeOK
  <2>3. queue' \in [Rows -> Row] /\ KeepsWork
    <3>1. CASE OwnsClaim(queue[i])
      BY <1>16, <2>1, <2>2, <3>1, OneRowChanges DEF SettlePushClaim
    <3>2. CASE ~OwnsClaim(queue[i])
      BY <1>16, <3>2, QueueUnchanged DEF SettlePushClaim, TypeInv, TypeOK
    <3> QED  BY <3>1, <3>2
  <2>4. reviewer' \in [Reviewers -> ReviewerState] /\ KeepsHolders
    BY <1>16, <2>1, ReviewerMovesType DEF SettlePushClaim
  <2>5. TypeOK'
    BY <1>16, <2>3, <2>4 DEF SettlePushClaim, TypeInv, TypeOK
  <2> QED  BY <2>3, <2>4, <2>5, StaysWellFormed DEF TypeInv
<1>17. ASSUME NEW r \in Reviewers, ReleasePushClaim(r)
       PROVE  TypeInv'
  <2> DEFINE i == reviewer[r].row
  <2>1. i \in Rows /\ queue[i].work \in Work /\ reviewer[r].pc /= "idle"
    BY <1>17 DEF ReleasePushClaim, TypeInv, TypeOK, WellFormed, ReviewerState
  <2>2. SameRow(queue[i], ReleasedClaim(queue[i])) /\ ReleasedClaim(queue[i]).status = "approved"
    BY <2>1, RowOperations DEF TypeInv, TypeOK
  <2>3. queue' \in [Rows -> Row] /\ KeepsWork
    <3>1. CASE OwnsClaim(queue[i])
      BY <1>17, <2>1, <2>2, <3>1, OneRowChanges DEF ReleasePushClaim
    <3>2. CASE ~OwnsClaim(queue[i])
      BY <1>17, <3>2, QueueUnchanged DEF ReleasePushClaim, TypeInv, TypeOK
    <3> QED  BY <3>1, <3>2
  <2>4. reviewer' \in [Reviewers -> ReviewerState] /\ KeepsHolders
    BY <1>17, <2>1, ReviewerMovesType DEF ReleasePushClaim
  <2>5. TypeOK'
    BY <1>17, <2>3, <2>4 DEF ReleasePushClaim, TypeInv, TypeOK
  <2> QED  BY <2>3, <2>4, <2>5, StaysWellFormed DEF TypeInv
<1>18. ASSUME NEW r \in Reviewers, ReviewerDies(r)
       PROVE  TypeInv'
  <2>1. UNCHANGED <<files, decider, runs>>
    BY <1>18 DEF ReviewerDies
  <2>2. IdleReviewer.pc = "idle"
    BY DEF IdleReviewer
  <2>3. reviewer' \in [Reviewers -> ReviewerState] /\ KeepsHolders
    BY <1>18, <2>1, <2>2, IdleTypes, ReviewerSteps DEF ReviewerDies
  <2>4. TypeOK'
    BY <1>18, <2>1, <2>3 DEF ReviewerDies, TypeInv, TypeOK, files
  <2> QED  BY <2>1, <2>3, <2>4, QueueUnchanged, StaysWellFormed DEF TypeInv, files
<1>19. ASSUME NEW k \in Keys, RevokeStanding(k)
       PROVE  TypeInv'
  <2>1. TypeOK'
    BY <1>19 DEF RevokeStanding, TypeInv, TypeOK
  <2>2. KeepsHolders
    BY <1>19, DecidersUnchanged, ReviewersUnchanged DEF RevokeStanding, KeepsHolders
  <2> QED  BY <1>19, <2>1, <2>2, QueueUnchanged, StaysWellFormed DEF RevokeStanding, TypeInv
<1>20. ASSUME NEW i \in Rows, LeaseElapses(i) \/ TtlElapses(i)
       PROVE  TypeInv'
  <2>1. PICK row : /\ queue' = [queue EXCEPT ![i] = row]
                   /\ \/ row = [queue[i] EXCEPT !.leaseOver = TRUE]
                      \/ row = [queue[i] EXCEPT !.stale = TRUE]
    BY <1>20 DEF LeaseElapses, TtlElapses
  <2>2. queue[i] \in Row /\ queue[i].status /= "absent" /\ queue[i].work \in Work
    BY <1>20 DEF LeaseElapses, TtlElapses, TypeInv, TypeOK, WellFormed
  <2>3. SameRow(queue[i], row) /\ row.status /= "absent"
    BY <2>1, <2>2 DEF SameRow, Row
  <2>4. queue' \in [Rows -> Row] /\ KeepsWork
    BY <2>1, <2>2, <2>3, OneRowChanges
  <2>5. KeepsHolders
    BY <1>20, DecidersUnchanged, ReviewersUnchanged
    DEF LeaseElapses, TtlElapses, KeepsHolders
  <2>6. TypeOK'
    BY <1>20, <2>4 DEF LeaseElapses, TtlElapses, TypeInv, TypeOK
  <2> QED  BY <2>4, <2>5, <2>6, StaysWellFormed DEF TypeInv
<1>21. CASE UNCHANGED vars
  BY <1>21 DEF vars, files, TypeInv, TypeOK, WellFormed
<1> QED
  BY <1>1, <1>2, <1>3, <1>4, <1>5, <1>6, <1>7, <1>8, <1>9, <1>10, <1>11, <1>12,
     <1>13, <1>14, <1>15, <1>16, <1>17, <1>18, <1>19, <1>20, <1>21
  DEF Next, DeciderStep, ReviewerStep

\* The queue, its ledger and the processes around it keep their types; the
\* invariant that shows it adds that a row someone holds was asked for.
THEOREM TypeCorrect == Spec => []TypeOK
<1>1. TypeInv => TypeOK
  BY DEF TypeInv
<1> QED  BY <1>1, TypeInit, TypeStep, PTL DEF Spec

-----------------------------------------------------------------------------
(* At most one run per approval                                            *)

LEMMA SafeInit == Init => Safe
<1> SUFFICES ASSUME Init PROVE Safe
  OBVIOUS
<1>1. TypeInv
  BY TypeInit
<1>2. \A i \in Rows : ~queue[i].claimed /\ runs[i] = 0
  <2>1. ~BlankRow.claimed
    BY DEF BlankRow
  <2>2. \A w \in Legacy : ~LegacyRow(w).claimed
    BY DEF LegacyRow, BlankRow
  <2> QED  BY <2>1, <2>2 DEF Init
<1>3. /\ \A d \in Deciders : decider[d].row = NoRow /\ decider[d].pc = "idle"
      /\ \A r \in Reviewers : reviewer[r].pc = "idle"
  BY DEF Init, IdleDecider, IdleReviewer
<1>4. \A i \in Rows : Free(i)
  BY <1>2, <1>3 DEF Free, Posting
<1>5. UnclaimedIsFree /\ HeldIsUnspent /\ RefusedIsFree /\ AtMostOnce
  BY <1>2, <1>3, <1>4 DEF UnclaimedIsFree, HeldIsUnspent, RefusedIsFree, AtMostOnce
<1>6. OneHolder /\ RowOnlyWhenGranted /\ NoClaimAtRest /\ ReleasingIsReviewed
  BY <1>2, <1>3 DEF OneHolder, HeldBy, Posting, RowOnlyWhenGranted, NoClaimAtRest,
                    AtRest, ReleasingIsReviewed, Releasing
<1> QED  BY <1>1, <1>5, <1>6 DEF Safe

\* A row that nobody takes hold of, as most operations rewrite it.
QuietRow(row, after) ==
  /\ after.status \in Unclaimed => row.status \in Unclaimed
  /\ after.status \in Unreviewed => row.status \in Unreviewed
  /\ OwnsClaim(after) => OwnsClaim(row)
  /\ AtRest(row) => AtRest(after)

\* No run starts, nobody comes to hold a row, no row returns to those nobody
\* holds, and no push claim appears: most steps.
Quiet ==
  /\ runs' = runs
  /\ \A i \in Rows : QuietRow(queue[i], queue'[i])
  /\ \A d \in Deciders :
       /\ decider'[d].row \in {decider[d].row, NoRow}
       /\ \A i \in Rows : HeldBy(d, i)' => HeldBy(d, i)
  /\ \A r \in Reviewers, i \in Rows :
       /\ Posting(r, i)' => Posting(r, i)
       /\ Releasing(r, i)' => Releasing(r, i)

LEMMA QuietIsSafe ==
  ASSUME Safe, TypeInv', Quiet, RowOnlyWhenGranted'
  PROVE  Safe'
<1>1. \A i \in Rows : Free(i) => Free(i)'
  BY DEF Quiet, Free
<1>2. UnclaimedIsFree'
  BY <1>1 DEF Safe, UnclaimedIsFree, Quiet, QuietRow
<1>3. OneHolder'
  BY DEF Safe, OneHolder, Quiet
<1>4. HeldIsUnspent'
  BY DEF Safe, HeldIsUnspent, Quiet
<1>5. RefusedIsFree'
  BY <1>1 DEF Safe, RefusedIsFree, Quiet, QuietRow
<1>6. AtMostOnce'
  BY DEF Safe, AtMostOnce, Quiet
<1>7. NoClaimAtRest' /\ ReleasingIsReviewed'
  BY DEF Safe, NoClaimAtRest, ReleasingIsReviewed, Quiet, QuietRow
<1> QED  BY <1>2, <1>3, <1>4, <1>5, <1>6, <1>7 DEF Safe

\* Decider d moves to me: the others, and every reviewer, stay as they are.
LEMMA QuietDecider ==
  ASSUME Safe, NEW d \in Deciders, NEW me, decider' = [decider EXCEPT ![d] = me],
         UNCHANGED <<reviewer, runs>>,
         me.row \in {decider[d].row, NoRow},
         me.pc = "granted" => me.row = NoRow \/ decider[d].pc = "granted",
         me.pc \notin {"granted", "running"} => me.row = NoRow,
         \A i \in Rows : QuietRow(queue[i], queue'[i])
  PROVE  Quiet /\ RowOnlyWhenGranted'
<1>1. \A e \in Deciders : decider'[e] = IF e = d THEN me ELSE decider[e]
  BY DEF Safe, TypeInv, TypeOK
<1>2. \A e \in Deciders, i \in Rows : HeldBy(e, i)' => HeldBy(e, i)
  BY <1>1 DEF HeldBy
<1>3. RowOnlyWhenGranted'
  BY <1>1 DEF Safe, RowOnlyWhenGranted
<1> QED  BY <1>1, <1>2, <1>3 DEF Quiet, Posting, Releasing

\* Reviewer r moves to me, and not into a POST or a release.
LEMMA QuietReviewer ==
  ASSUME Safe, NEW r \in Reviewers, NEW me, reviewer' = [reviewer EXCEPT ![r] = me],
         UNCHANGED <<decider, runs>>,
         me.pc /= "release",
         me.pc = "post" \/ (me.pc = "grant" /\ me.claim) => Posting(r, me.row),
         \A i \in Rows : QuietRow(queue[i], queue'[i])
  PROVE  Quiet /\ RowOnlyWhenGranted'
<1>1. \A s \in Reviewers : reviewer'[s] = IF s = r THEN me ELSE reviewer[s]
  BY DEF Safe, TypeInv, TypeOK
<1>2. \A s \in Reviewers, i \in Rows : Posting(s, i)' => Posting(s, i)
  BY <1>1 DEF Posting
<1>3. \A s \in Reviewers, i \in Rows : Releasing(s, i)' => Releasing(s, i)
  BY <1>1 DEF Releasing
<1>4. RowOnlyWhenGranted'
  BY DEF Safe, RowOnlyWhenGranted
<1> QED  BY <1>2, <1>3, <1>4 DEF Quiet, HeldBy

\* Nobody moves: a row is filed, marked by the clock or left alone.
LEMMA QuietFiles ==
  ASSUME Safe, UNCHANGED <<decider, reviewer, runs>>,
         \A i \in Rows : QuietRow(queue[i], queue'[i])
  PROVE  Quiet /\ RowOnlyWhenGranted'
  BY DEF Safe, RowOnlyWhenGranted, Quiet, HeldBy, Posting, Releasing

LEMMA QuietUnchanged ==
  UNCHANGED queue => \A i \in Rows : QuietRow(queue[i], queue'[i])
  BY DEF QuietRow

LEMMA QuietOneRow ==
  ASSUME TypeOK, NEW i \in Rows, NEW row, queue' = [queue EXCEPT ![i] = row],
         QuietRow(queue[i], row)
  PROVE  \A j \in Rows : QuietRow(queue[j], queue'[j])
<1>1. \A j \in Rows : queue'[j] = IF j = i THEN row ELSE queue[j]
  BY DEF TypeOK
<1> QED  BY <1>1 DEF QuietRow

LEMMA QuietRows ==
  ASSUME NEW row \in Row
  PROVE  /\ QuietRow(row, ExpireLease(row))
         /\ QuietRow(row, Resurface(row))
         /\ QuietRow(row, SettledClaim(row))
         /\ QuietRow(row, [row EXCEPT !.leaseOver = TRUE])
         /\ QuietRow(row, [row EXCEPT !.stale = TRUE])
         /\ \A failed \in BOOLEAN : QuietRow(row, Completed(row, failed))
<1> USE DEF Row, Statuses, QuietRow, Unclaimed, Denials, Unreviewed, OwnsClaim, AtRest
<1>1. QuietRow(row, ExpireLease(row)) /\ QuietRow(row, Resurface(row))
  BY DEF ExpireLease, Resurface
<1>2. QuietRow(row, SettledClaim(row))
  BY DEF SettledClaim
<1>3. QuietRow(row, [row EXCEPT !.leaseOver = TRUE])
  OBVIOUS
<1>4. QuietRow(row, [row EXCEPT !.stale = TRUE])
  OBVIOUS
<1>5. ASSUME NEW failed \in BOOLEAN PROVE QuietRow(row, Completed(row, failed))
  <2>1. CASE failed
    BY <2>1 DEF Completed
  <2>2. CASE ~failed
    BY <2>2 DEF Completed
  <2> QED  BY <2>1, <2>2
<1> QED  BY <1>1, <1>2, <1>3, <1>4, <1>5

LEMMA QuietEnqueue ==
  ASSUME TypeInv, NEW w \in Work, NEW override, NEW tier \in {"queue", "hitl"},
         Enqueue(queue, w, override, tier, queue')
  PROVE  \A i \in Rows : QuietRow(queue[i], queue'[i])
<1>1. CASE queue' = queue
  BY <1>1 DEF QuietRow
<1>2. CASE \E i \in FreeRows(queue) : queue' = [queue EXCEPT ![i] = NewRow(w, tier)]
  <2>1. PICK i \in FreeRows(queue) : queue' = [queue EXCEPT ![i] = NewRow(w, tier)]
    BY <1>2
  <2>2. i \in Rows /\ queue[i].status = "absent"
    BY DEF FreeRows
  <2>3. NewRow(w, tier).status = "pending" /\ NewRow(w, tier).claimed = FALSE
    BY NewRowType
  <2>4. QuietRow(queue[i], NewRow(w, tier))
    BY <2>2, <2>3 DEF QuietRow, Unclaimed, Unreviewed, OwnsClaim, AtRest
  <2>5. TypeOK
    BY DEF TypeInv
  <2> QED  BY <2>1, <2>2, <2>4, <2>5, QuietOneRow
<1> QED  BY <1>1, <1>2 DEF Enqueue

\* A review that takes no claim leaves a row nobody holds.
LEMMA QuietReview ==
  ASSUME NEW row \in Row, NEW action \in Actions, NEW push \in BOOLEAN,
         row.status \in ReviewableFrom(action), ~Claims(row, action, push)
  PROVE  QuietRow(row, Reviewed(row, action, push))
<1> DEFINE after == Reviewed(row, action, push)
<1>1. row.status \in {"pending", "expired"}
  BY DEF ReviewableFrom
<1>2. row.status = "expired" => action = "retire"
  BY DEF ReviewableFrom
<1>3. after.claimed = row.claimed /\ after.status \in {"approved"} \union Denials
      /\ (action = "retire" => after.status = "retired")
  <2>1. CASE Grants(action)
    BY <2>1 DEF Reviewed, Row, Grants
  <2>2. CASE ~Grants(action)
    <3>1. Verdict[action] \in Denials /\ (action = "retire" => Verdict[action] = "retired")
      BY <2>2 DEF Actions, Grants, Verdict, Denials
    <3> QED  BY <2>2, <3>1 DEF Reviewed, Row
  <2> QED  BY <2>1, <2>2
<1> HIDE DEF after
<1>4. QuietRow(row, after)
  BY <1>1, <1>2, <1>3 DEF QuietRow, Unclaimed, Unreviewed, Denials, OwnsClaim, AtRest
<1> QED  BY <1>4 DEF after

\* d takes the approval on a row nobody holds.
LEMMA ConsumeIsSafe ==
  ASSUME Safe, TypeInv', NEW d \in Deciders, NEW i \in Rows, NEW row, NEW me,
         queue' = [queue EXCEPT ![i] = row], queue[i].status = "approved",
         row.status = "executing", row.claimed = queue[i].claimed,
         decider' = [decider EXCEPT ![d] = me], me.pc = "granted", me.row = i,
         decider[d].row = NoRow, UNCHANGED <<reviewer, runs>>
  PROVE  Safe'
<1>1. \A e \in Deciders : decider'[e] = IF e = d THEN me ELSE decider[e]
  BY DEF Safe, TypeInv, TypeOK
<1>2. \A j \in Rows : queue'[j] = IF j = i THEN row ELSE queue[j]
  BY DEF Safe, TypeInv, TypeOK
<1>3. \A r \in Reviewers, j \in Rows : /\ Posting(r, j)' <=> Posting(r, j)
                                       /\ Releasing(r, j)' <=> Releasing(r, j)
  BY DEF Posting, Releasing
<1>4. Free(i) /\ ~queue[i].claimed
  BY DEF Safe, UnclaimedIsFree, Unclaimed, NoClaimAtRest, AtRest
<1>5. \A j \in Rows : j /= i /\ Free(j) => Free(j)'
  BY <1>1, <1>3 DEF Free
<1>6. UnclaimedIsFree'
  BY <1>2, <1>5 DEF Safe, UnclaimedIsFree, Unclaimed, Denials
<1>7. \A e \in Deciders, j \in Rows : HeldBy(e, j)' =>
        (e = d /\ j = i) \/ (e /= d /\ j /= i /\ HeldBy(e, j))
  BY <1>1, <1>4 DEF HeldBy, Free
<1>8. \A e \in Deciders, j \in Rows : decider'[e].row = j =>
        (e = d /\ j = i) \/ (e /= d /\ j /= i /\ decider[e].row = j)
  BY <1>1, <1>4 DEF Free
<1>9. OneHolder'
  BY <1>3, <1>4, <1>7, <1>8 DEF Safe, OneHolder, Free
<1>10. HeldIsUnspent'
  BY <1>3, <1>4, <1>7 DEF Safe, HeldIsUnspent, Free
<1>11. RefusedIsFree'
  BY <1>2, <1>3, <1>4, <1>5 DEF Safe, RefusedIsFree, OwnsClaim
<1>12. RowOnlyWhenGranted'
  BY <1>1 DEF Safe, RowOnlyWhenGranted
<1>13. NoClaimAtRest' /\ ReleasingIsReviewed'
  BY <1>2, <1>3 DEF Safe, NoClaimAtRest, AtRest, ReleasingIsReviewed, Unreviewed
<1>14. AtMostOnce'
  BY DEF Safe, AtMostOnce
<1> QED  BY <1>6, <1>9, <1>10, <1>11, <1>12, <1>13, <1>14 DEF Safe

\* d starts the one run its row pays for.
LEMMA StartIsSafe ==
  ASSUME Safe, TypeInv', NEW d \in Deciders, NEW i \in Rows, NEW me,
         HeldBy(d, i), decider' = [decider EXCEPT ![d] = me],
         me.pc = "running", me.row = i,
         runs' = [runs EXCEPT ![i] = @ + 1], UNCHANGED <<queue, reviewer>>
  PROVE  Safe'
<1>1. \A e \in Deciders : decider'[e] = IF e = d THEN me ELSE decider[e]
  BY DEF Safe, TypeInv, TypeOK
<1>2. runs[i] = 0 /\ \A j \in Rows : runs'[j] = IF j = i THEN 1 ELSE runs[j]
  BY DEF Safe, TypeInv, TypeOK, HeldIsUnspent
<1>3. \A r \in Reviewers, j \in Rows : /\ Posting(r, j)' <=> Posting(r, j)
                                       /\ Releasing(r, j)' <=> Releasing(r, j)
  BY DEF Posting, Releasing
<1>4. ~Free(i) /\ \A r \in Reviewers : ~Posting(r, i)
  BY DEF Safe, OneHolder, Free, HeldBy
<1>5. \A j \in Rows : j /= i /\ Free(j) => Free(j)'
  BY <1>1, <1>2, <1>3 DEF Free
<1>6. UnclaimedIsFree' /\ RefusedIsFree'
  BY <1>3, <1>4, <1>5 DEF Safe, UnclaimedIsFree, RefusedIsFree
<1>7. \A e \in Deciders, j \in Rows : HeldBy(e, j)' => e /= d /\ j /= i /\ HeldBy(e, j)
  BY <1>1 DEF HeldBy, Safe, OneHolder
<1>8. \A e \in Deciders : decider'[e].row = decider[e].row
  BY <1>1 DEF HeldBy
<1>9. OneHolder'
  BY <1>3, <1>7, <1>8 DEF Safe, OneHolder
<1>10. HeldIsUnspent'
  BY <1>2, <1>3, <1>4, <1>7 DEF Safe, HeldIsUnspent
<1>11. RowOnlyWhenGranted'
  BY <1>1 DEF Safe, RowOnlyWhenGranted
<1>12. NoClaimAtRest' /\ ReleasingIsReviewed'
  BY <1>3 DEF Safe, NoClaimAtRest, ReleasingIsReviewed
<1>13. AtMostOnce'
  BY <1>2 DEF Safe, AtMostOnce
<1> QED  BY <1>6, <1>9, <1>10, <1>11, <1>12, <1>13 DEF Safe

\* r takes the push claim on a pending row.
LEMMA ClaimIsSafe ==
  ASSUME Safe, TypeInv', NEW r \in Reviewers, NEW i \in Rows, NEW row, NEW me,
         queue' = [queue EXCEPT ![i] = row], queue[i].status = "pending",
         row.status = "executing", reviewer[r].pc = "idle",
         reviewer' = [reviewer EXCEPT ![r] = me], me.pc \in {"grant", "post"},
         me.row = i, UNCHANGED <<decider, runs>>
  PROVE  Safe'
<1>1. \A s \in Reviewers : reviewer'[s] = IF s = r THEN me ELSE reviewer[s]
  BY DEF Safe, TypeInv, TypeOK
<1>2. \A j \in Rows : queue'[j] = IF j = i THEN row ELSE queue[j]
  BY DEF Safe, TypeInv, TypeOK
<1>3. \A s \in Reviewers, j \in Rows : Posting(s, j)' =>
        (s = r /\ j = i) \/ (s /= r /\ Posting(s, j))
  BY <1>1 DEF Posting
<1>4. \A s \in Reviewers, j \in Rows : Releasing(s, j)' => Releasing(s, j)
  BY <1>1 DEF Releasing
<1>5. Free(i) /\ \A s \in Reviewers : ~Releasing(s, i)
  BY DEF Safe, UnclaimedIsFree, Unclaimed, ReleasingIsReviewed, Unreviewed
<1>6. \A j \in Rows : j /= i /\ Free(j) => Free(j)'
  BY <1>3 DEF Free
<1>7. UnclaimedIsFree' /\ RefusedIsFree'
  BY <1>2, <1>4, <1>5, <1>6
  DEF Safe, UnclaimedIsFree, Unclaimed, Denials, RefusedIsFree
<1>8. OneHolder'
  BY <1>3, <1>5 DEF Safe, OneHolder, HeldBy, Free
<1>9. HeldIsUnspent'
  BY <1>3, <1>5 DEF Safe, HeldIsUnspent, HeldBy, Free
<1>10. RowOnlyWhenGranted'
  BY DEF Safe, RowOnlyWhenGranted
<1>11. NoClaimAtRest' /\ ReleasingIsReviewed'
  BY <1>2, <1>4 DEF Safe, NoClaimAtRest, AtRest, ReleasingIsReviewed, Unreviewed
<1>12. AtMostOnce'
  BY DEF Safe, AtMostOnce
<1> QED  BY <1>7, <1>8, <1>9, <1>10, <1>11, <1>12 DEF Safe

\* r's POST ran the work of its row.
LEMMA PostIsSafe ==
  ASSUME Safe, TypeInv', NEW r \in Reviewers, NEW i \in Rows, NEW me,
         Posting(r, i), reviewer' = [reviewer EXCEPT ![r] = me],
         me.pc \in {"idle", "settle"},
         runs' = [runs EXCEPT ![i] = @ + 1], UNCHANGED <<queue, decider>>
  PROVE  Safe'
<1>1. \A s \in Reviewers : reviewer'[s] = IF s = r THEN me ELSE reviewer[s]
  BY DEF Safe, TypeInv, TypeOK
<1>2. runs[i] = 0 /\ \A j \in Rows : runs'[j] = IF j = i THEN 1 ELSE runs[j]
  BY DEF Safe, TypeInv, TypeOK, HeldIsUnspent
<1>3. \A s \in Reviewers, j \in Rows : Posting(s, j)' => s /= r /\ Posting(s, j)
  BY <1>1 DEF Posting
<1>4. \A s \in Reviewers, j \in Rows : Releasing(s, j)' => Releasing(s, j)
  BY <1>1 DEF Releasing
<1>5. ~Free(i)
  BY DEF Free
<1>6. \A j \in Rows : j /= i /\ Free(j) => Free(j)'
  BY <1>2, <1>3 DEF Free
<1>7. UnclaimedIsFree' /\ RefusedIsFree'
  BY <1>4, <1>5, <1>6 DEF Safe, UnclaimedIsFree, RefusedIsFree
<1>8. OneHolder'
  BY <1>3 DEF Safe, OneHolder, HeldBy
<1>9. \A d \in Deciders : ~HeldBy(d, i)
  BY DEF Safe, OneHolder, HeldBy
<1>10. \A s \in Reviewers : ~Posting(s, i)'
  BY <1>3 DEF Safe, OneHolder
<1>11. HeldIsUnspent'
  BY <1>2, <1>3, <1>9, <1>10 DEF Safe, HeldIsUnspent, HeldBy
<1>12. RowOnlyWhenGranted'
  BY DEF Safe, RowOnlyWhenGranted
<1>13. NoClaimAtRest' /\ ReleasingIsReviewed'
  BY <1>4 DEF Safe, NoClaimAtRest, ReleasingIsReviewed
<1>14. AtMostOnce'
  BY <1>2 DEF Safe, AtMostOnce
<1> QED  BY <1>7, <1>8, <1>11, <1>12, <1>13, <1>14 DEF Safe

\* r's POST was refused: its row is free again once the claim is released.
LEMMA RefusalIsSafe ==
  ASSUME Safe, TypeInv', NEW r \in Reviewers, NEW i \in Rows, NEW me,
         Posting(r, i), reviewer' = [reviewer EXCEPT ![r] = me],
         me.pc = "release", me.row = i, UNCHANGED <<queue, decider, runs>>
  PROVE  Safe'
<1>1. \A s \in Reviewers : reviewer'[s] = IF s = r THEN me ELSE reviewer[s]
  BY DEF Safe, TypeInv, TypeOK
<1>2. \A s \in Reviewers, j \in Rows : Posting(s, j)' => s /= r /\ Posting(s, j)
  BY <1>1 DEF Posting
<1>3. \A s \in Reviewers, j \in Rows :
        Releasing(s, j)' => (s = r /\ j = i) \/ Releasing(s, j)
  BY <1>1 DEF Releasing
<1>4. \A j \in Rows : Free(j) => Free(j)'
  BY <1>2 DEF Free
<1>5. queue[i].status \notin Unclaimed
  BY DEF Safe, UnclaimedIsFree, Free
<1>6. Free(i)'
  <2>1. runs[i] = 0 /\ \A d \in Deciders : decider[d].row /= i
    BY DEF Safe, HeldIsUnspent, OneHolder
  <2>2. \A s \in Reviewers : ~Posting(s, i)'
    BY <1>2 DEF Safe, OneHolder
  <2> QED  BY <2>1, <2>2 DEF Free
<1>7. UnclaimedIsFree' /\ RefusedIsFree'
  BY <1>3, <1>4, <1>6 DEF Safe, UnclaimedIsFree, RefusedIsFree
<1>8. OneHolder' /\ HeldIsUnspent'
  BY <1>2 DEF Safe, OneHolder, HeldIsUnspent, HeldBy
<1>9. RowOnlyWhenGranted' /\ NoClaimAtRest' /\ AtMostOnce'
  BY DEF Safe, RowOnlyWhenGranted, NoClaimAtRest, AtMostOnce
<1>10. ReleasingIsReviewed'
  BY <1>3, <1>5 DEF Safe, ReleasingIsReviewed, Unclaimed, Unreviewed
<1> QED  BY <1>7, <1>8, <1>9, <1>10 DEF Safe

\* r gives the row of a refused POST back, still approved.
LEMMA ReleaseIsSafe ==
  ASSUME Safe, TypeInv', NEW r \in Reviewers, NEW i \in Rows, NEW row, NEW me,
         Releasing(r, i), OwnsClaim(queue[i]),
         queue' = [queue EXCEPT ![i] = row],
         row.status = "approved", row.claimed = FALSE,
         reviewer' = [reviewer EXCEPT ![r] = me], me.pc = "idle",
         UNCHANGED <<decider, runs>>
  PROVE  Safe'
<1>1. \A s \in Reviewers : reviewer'[s] = IF s = r THEN me ELSE reviewer[s]
  BY DEF Safe, TypeInv, TypeOK
<1>2. \A j \in Rows : queue'[j] = IF j = i THEN row ELSE queue[j]
  BY DEF Safe, TypeInv, TypeOK
<1>3. \A s \in Reviewers, j \in Rows : /\ Posting(s, j)' => Posting(s, j)
                                       /\ Releasing(s, j)' => Releasing(s, j)
  BY <1>1 DEF Posting, Releasing
<1>4. Free(i)
  BY DEF Safe, RefusedIsFree
<1>5. \A j \in Rows : Free(j) => Free(j)'
  BY <1>3 DEF Free
<1>6. UnclaimedIsFree' /\ RefusedIsFree'
  BY <1>2, <1>3, <1>4, <1>5 DEF Safe, UnclaimedIsFree, RefusedIsFree, OwnsClaim
<1>7. OneHolder' /\ HeldIsUnspent'
  BY <1>3 DEF Safe, OneHolder, HeldIsUnspent, HeldBy
<1>8. RowOnlyWhenGranted' /\ AtMostOnce'
  BY DEF Safe, RowOnlyWhenGranted, AtMostOnce
<1>9. NoClaimAtRest' /\ ReleasingIsReviewed'
  BY <1>2, <1>3 DEF Safe, NoClaimAtRest, AtRest, ReleasingIsReviewed, Unreviewed
<1> QED  BY <1>6, <1>7, <1>8, <1>9 DEF Safe

LEMMA MoveIsQuiet ==
  ASSUME Safe, NEW d \in Deciders, NEW from, NEW to, Move(d, from, to),
         UNCHANGED <<reviewer, runs>>, decider[d].row = NoRow,
         \A i \in Rows : QuietRow(queue[i], queue'[i])
  PROVE  Quiet /\ RowOnlyWhenGranted'
<1> DEFINE me == [decider[d] EXCEPT !.pc = to]
<1>1. decider' = [decider EXCEPT ![d] = me] /\ me.row = NoRow
  BY DEF Move, Safe, TypeInv, TypeOK, DeciderState
<1> HIDE DEF me
<1> QED  BY <1>1, QuietDecider

LEMMA ReturnIsQuiet ==
  ASSUME Safe, NEW d \in Deciders, decider' = [decider EXCEPT ![d] = IdleDecider],
         UNCHANGED <<reviewer, runs>>,
         \A i \in Rows : QuietRow(queue[i], queue'[i])
  PROVE  Quiet /\ RowOnlyWhenGranted'
<1>1. IdleDecider.pc = "idle" /\ IdleDecider.row = NoRow
  BY DEF IdleDecider
<1> QED  BY <1>1, QuietDecider

LEMMA ReviewerEnds ==
  ASSUME Safe, NEW r \in Reviewers, reviewer' = [reviewer EXCEPT ![r] = IdleReviewer],
         UNCHANGED <<decider, runs>>,
         \A i \in Rows : QuietRow(queue[i], queue'[i])
  PROVE  Quiet /\ RowOnlyWhenGranted'
<1>1. IdleReviewer.pc = "idle"
  BY DEF IdleReviewer
<1> QED  BY <1>1, QuietReviewer

LEMMA DecideIsSafe ==
  ASSUME Safe, TypeInv', NEW d \in Deciders, DeciderStep(d)
  PROVE  Safe'
<1>1. decider[d] \in DeciderState /\ TypeOK /\ TypeInv /\ \A i \in Rows : queue[i] \in Row
  BY DEF Safe, TypeInv, TypeOK
<1>2. decider[d].pc \notin {"granted", "running"} => decider[d].row = NoRow
  BY DEF Safe, RowOnlyWhenGranted
<1>3. CASE ReconcileStaleExecuting(d)
  <2>1. \A i \in Rows : QuietRow(queue[i], queue'[i])
    BY <1>1, <1>3, QuietRows DEF ReconcileStaleExecuting
  <2> QED
    BY <1>2, <1>3, <2>1, MoveIsQuiet, QuietIsSafe DEF ReconcileStaleExecuting, Move
<1>4. CASE ReconcileStaleApproved(d)
  <2>1. \A i \in Rows : QuietRow(queue[i], queue'[i])
    BY <1>1, <1>4, QuietRows DEF ReconcileStaleApproved
  <2> QED
    BY <1>2, <1>4, <2>1, MoveIsQuiet, QuietIsSafe DEF ReconcileStaleApproved, Move
<1>5. CASE CheckLimits(d)
  <2>1. UNCHANGED <<files, reviewer, runs, crashes>> /\ decider[d].row = NoRow
    BY <1>2, <1>5 DEF CheckLimits
  <2>2. Return(d, "limits") \/ Move(d, "limits", "consume")
    BY <1>5 DEF CheckLimits
  <2>3. CASE Return(d, "limits")
    BY <2>1, <2>3, QuietUnchanged, ReturnIsQuiet, QuietIsSafe DEF Return, files
  <2>4. CASE Move(d, "limits", "consume")
    BY <2>1, <2>4, QuietUnchanged, MoveIsQuiet, QuietIsSafe DEF files
  <2> QED  BY <2>2, <2>3, <2>4
<1>6. CASE ConsumeApproval(d)
  <2> DEFINE fits == Consumable(queue, decider[d].work, decider[d].override)
  <2>1. UNCHANGED <<reviewer, runs>> /\ decider[d].row = NoRow
    BY <1>2, <1>6 DEF ConsumeApproval
  <2>2. CASE Move(d, "consume", "route") /\ UNCHANGED queue
    BY <2>1, <2>2, QuietUnchanged, MoveIsQuiet, QuietIsSafe
  <2>3. CASE \E i \in Rows :
               /\ IsFirst(i, fits)
               /\ queue' = [queue EXCEPT ![i] = Leased(@)]
               /\ decider' = [decider EXCEPT ![d].pc = "granted", ![d].row = i]
    <3>1. PICK i \in Rows :
             /\ IsFirst(i, fits)
             /\ queue' = [queue EXCEPT ![i] = Leased(@)]
             /\ decider' = [decider EXCEPT ![d].pc = "granted", ![d].row = i]
      BY <2>3
    <3>2. queue[i].status = "approved"
      BY <3>1 DEF IsFirst, Consumable
    <3> DEFINE row == Leased(queue[i])
               me == [decider[d] EXCEPT !.pc = "granted", !.row = i]
    <3>3. row.status = "executing" /\ row.claimed = queue[i].claimed
      BY <1>1 DEF Leased, Row
    <3>4. decider' = [decider EXCEPT ![d] = me] /\ me.pc = "granted" /\ me.row = i
      BY <1>1, <3>1 DEF DeciderState
    <3>5. queue' = [queue EXCEPT ![i] = row]
      BY <3>1
    <3> HIDE DEF row, me
    <3> QED  BY <2>1, <3>2, <3>3, <3>4, <3>5, ConsumeIsSafe
  <2> QED  BY <1>6, <2>2, <2>3 DEF ConsumeApproval
<1>7. CASE Route(d)
  <2>1. UNCHANGED <<files, reviewer, runs, crashes>> /\ decider[d].row = NoRow
    BY <1>2, <1>7 DEF Route
  <2>2. \/ Move(d, "route", "granted")
        \/ \E tier : decider' = [decider EXCEPT ![d].pc = "enqueue", ![d].tier = tier]
    BY <1>7 DEF Route
  <2>3. CASE Move(d, "route", "granted")
    BY <2>1, <2>3, QuietUnchanged, MoveIsQuiet, QuietIsSafe DEF files
  <2>4. ASSUME NEW tier,
               decider' = [decider EXCEPT ![d].pc = "enqueue", ![d].tier = tier]
        PROVE  Safe'
    <3> DEFINE me == [decider[d] EXCEPT !.pc = "enqueue", !.tier = tier]
    <3>1. decider' = [decider EXCEPT ![d] = me] /\ me.row = NoRow /\ me.pc = "enqueue"
      BY <1>1, <2>1, <2>4 DEF DeciderState
    <3> HIDE DEF me
    <3> QED  BY <2>1, <3>1, QuietUnchanged, QuietDecider, QuietIsSafe DEF files
  <2> QED  BY <2>2, <2>3, <2>4
<1>8. CASE EnqueueHitl(d)
  <2>1. decider[d].work \in Work /\ decider[d].tier \in {"queue", "hitl"}
    BY <1>1, <1>8 DEF EnqueueHitl, Return, TypeInv, WellFormed, DeciderState
  <2>2. \A i \in Rows : QuietRow(queue[i], queue'[i])
    BY <1>1, <1>8, <2>1, QuietEnqueue DEF EnqueueHitl
  <2> QED  BY <1>8, <2>2, ReturnIsQuiet, QuietIsSafe DEF EnqueueHitl, Return
<1>9. CASE StartRun(d)
  <2> DEFINE me == [decider[d] EXCEPT !.pc = "running"]
  <2>1. /\ decider' = [decider EXCEPT ![d] = me]
        /\ me.pc = "running" /\ me.row = decider[d].row /\ decider[d].pc = "granted"
        /\ UNCHANGED <<queue, reviewer>>
    BY <1>1, <1>9 DEF StartRun, Move, DeciderState, files
  <2>2. CASE decider[d].row = NoRow
    <3>1. UNCHANGED runs
      BY <1>9, <2>2 DEF StartRun, CountRun
    <3> QED
      BY <1>9, <2>1, <2>2, <3>1, QuietUnchanged, MoveIsQuiet, QuietIsSafe DEF StartRun
  <2>3. CASE decider[d].row /= NoRow
    <3> DEFINE i == decider[d].row
    <3>1. i \in Rows /\ HeldBy(d, i)
      BY <1>1, <2>1, <2>3 DEF DeciderState, HeldBy
    <3>2. runs' = [runs EXCEPT ![i] = @ + 1]
      BY <1>9, <2>3 DEF StartRun, CountRun
    <3> HIDE DEF me, i
    <3>3. me.row = i
      BY <2>1 DEF i
    <3> QED  BY <2>1, <3>1, <3>2, <3>3, StartIsSafe
  <2> QED  BY <2>2, <2>3
<1>10. CASE MarkComplete(d)
  <2>1. \A i \in Rows : QuietRow(queue[i], queue'[i])
    <3>1. PICK failed \in BOOLEAN :
            queue' = IF decider[d].row = NoRow THEN queue
                     ELSE [queue EXCEPT ![decider[d].row] = Completed(@, failed)]
      BY <1>10 DEF MarkComplete
    <3>2. CASE decider[d].row = NoRow
      BY <3>1, <3>2, QuietUnchanged
    <3>3. CASE decider[d].row /= NoRow
      <4> DEFINE i == decider[d].row
      <4>1. i \in Rows
        BY <1>1, <3>3 DEF DeciderState
      <4>2. QuietRow(queue[i], Completed(queue[i], failed))
        BY <1>1, <4>1, QuietRows
      <4>3. queue' = [queue EXCEPT ![i] = Completed(queue[i], failed)]
        BY <3>1, <3>3
      <4> HIDE DEF i
      <4> QED  BY <1>1, <4>1, <4>2, <4>3, QuietOneRow
    <3> QED  BY <3>2, <3>3
  <2> QED  BY <1>10, <2>1, ReturnIsQuiet, QuietIsSafe DEF MarkComplete, Return
<1> QED
  BY <1>3, <1>4, <1>5, <1>6, <1>7, <1>8, <1>9, <1>10 DEF DeciderStep

LEMMA ReviewIsSafe ==
  ASSUME Safe, TypeInv', NEW r \in Reviewers, NEW i \in Rows, NEW action \in Actions,
         NEW push \in BOOLEAN, Review(r, i, action, push)
  PROVE  Safe'
<1>1. queue[i] \in Row /\ TypeOK
  BY DEF Safe, TypeInv, TypeOK
<1> DEFINE row == Reviewed(queue[i], action, push)
           me == AfterReview(i, action, push)
<1>2. /\ queue' = [queue EXCEPT ![i] = row]
      /\ reviewer' = [reviewer EXCEPT ![r] = me]
      /\ UNCHANGED <<decider, runs>>
      /\ reviewer[r].pc = "idle" /\ queue[i].status \in ReviewableFrom(action)
  BY DEF Review, Reviewable
<1>3. CASE Claims(queue[i], action, push)
  <2>1. row.status = "executing" /\ queue[i].status = "pending"
    BY <1>1, <1>2, <1>3 DEF Claims, Grants, Reviewed, Row, ReviewableFrom
  <2>2. me.pc \in {"grant", "post"} /\ me.row = i
    BY <1>3 DEF AfterReview
  <2> HIDE DEF row, me
  <2> QED  BY <1>2, <2>1, <2>2, ClaimIsSafe
<1>4. CASE ~Claims(queue[i], action, push)
  <2>1. QuietRow(queue[i], row)
    BY <1>1, <1>2, <1>4, QuietReview
  <2>2. \A j \in Rows : QuietRow(queue[j], queue'[j])
    <3> HIDE DEF row
    <3> QED  BY <1>1, <1>2, <2>1, QuietOneRow
  <2>3. me.pc \in {"idle", "grant"} /\ (me.pc = "grant" => ~me.claim)
    BY <1>4 DEF AfterReview, IdleReviewer
  <2> HIDE DEF row, me
  <2> QED  BY <1>2, <2>2, <2>3, QuietReviewer, QuietIsSafe
<1> QED  BY <1>3, <1>4

LEMMA AnswerIsSafe ==
  ASSUME Safe, TypeInv', NEW r \in Reviewers, ReviewerStep(r)
  PROVE  Safe'
<1> DEFINE i == reviewer[r].row
<1>1. reviewer[r] \in ReviewerState /\ TypeOK /\ \A j \in Rows : queue[j] \in Row
  BY DEF Safe, TypeInv, TypeOK
<1>2. reviewer[r].pc /= "idle" /\ i \in Rows
  BY <1>1 DEF ReviewerStep, GrantStanding, PostManualRun, SettlePushClaim,
              ReleasePushClaim, Safe, TypeInv, WellFormed, ReviewerState
<1>3. ASSUME NEW to \in {"post", "settle", "release"}, ReviewerMoves(r, to)
      PROVE  \E me : /\ reviewer' = [reviewer EXCEPT ![r] = me]
                     /\ me.pc = to /\ me.row = i
  <2> DEFINE me == [reviewer[r] EXCEPT !.pc = to]
  <2>1. reviewer' = [reviewer EXCEPT ![r] = me]
    BY <1>3 DEF ReviewerMoves
  <2>2. me.pc = to /\ me.row = i
    BY <1>1 DEF ReviewerState
  <2> HIDE DEF me
  <2> QED  BY <2>1, <2>2
<1>4. ReviewerMoves(r, "idle") => reviewer' = [reviewer EXCEPT ![r] = IdleReviewer]
  BY DEF ReviewerMoves
<1>5. IdleReviewer.pc = "idle"
  BY DEF IdleReviewer
<1>6. CASE GrantStanding(r)
  <2>1. /\ UNCHANGED <<queue, decider, runs>> /\ reviewer[r].pc = "grant"
        /\ \A j \in Rows : QuietRow(queue[j], queue'[j])
    BY <1>6, QuietUnchanged DEF GrantStanding
  <2>2. CASE reviewer[r].claim
    <3>1. PICK me : /\ reviewer' = [reviewer EXCEPT ![r] = me]
                    /\ me.pc = "post" /\ me.row = i
      BY <1>3, <1>6, <2>2 DEF GrantStanding
    <3>2. Posting(r, i)
      BY <2>1, <2>2 DEF Posting
    <3> HIDE DEF i
    <3> QED  BY <2>1, <3>1, <3>2, QuietReviewer, QuietIsSafe
  <2>3. CASE ~reviewer[r].claim
    BY <1>4, <1>6, <2>1, <2>3, ReviewerEnds, QuietIsSafe DEF GrantStanding
  <2> QED  BY <2>2, <2>3
<1>7. CASE PostManualRun(r)
  <2>1. UNCHANGED <<queue, decider>> /\ Posting(r, i)
    BY <1>7 DEF PostManualRun, Posting, files
  <2>2. CountRun(i) => runs' = [runs EXCEPT ![i] = @ + 1]
    BY <1>2 DEF CountRun
  <2>3. CASE ReviewerMoves(r, "settle") /\ CountRun(i)
    <3>1. PICK me : reviewer' = [reviewer EXCEPT ![r] = me] /\ me.pc = "settle"
      BY <1>3, <2>3
    <3> HIDE DEF i
    <3> QED  BY <1>2, <2>1, <2>2, <2>3, <3>1, PostIsSafe
  <2>4. CASE ReviewerMoves(r, "release") /\ UNCHANGED runs
    <3>1. PICK me : /\ reviewer' = [reviewer EXCEPT ![r] = me]
                    /\ me.pc = "release" /\ me.row = i
      BY <1>3, <2>4
    <3> HIDE DEF i
    <3> QED  BY <1>2, <2>1, <2>4, <3>1, RefusalIsSafe
  <2>5. CASE ReviewerMoves(r, "idle") /\ UNCHANGED runs
    BY <1>4, <2>1, <2>5, QuietUnchanged, ReviewerEnds, QuietIsSafe
  <2>6. CASE ReviewerMoves(r, "idle") /\ CountRun(i)
    <3> HIDE DEF i
    <3> QED  BY <1>2, <1>4, <1>5, <2>1, <2>2, <2>6, PostIsSafe
  <2> QED  BY <1>7, <2>3, <2>4, <2>5, <2>6 DEF PostManualRun
<1>8. CASE SettlePushClaim(r)
  <2>1. \A j \in Rows : QuietRow(queue[j], queue'[j])
    <3>1. CASE OwnsClaim(queue[i])
      <4>1. queue' = [queue EXCEPT ![i] = SettledClaim(queue[i])]
        BY <1>8, <3>1 DEF SettlePushClaim
      <4>2. QuietRow(queue[i], SettledClaim(queue[i]))
        BY <1>1, <1>2, QuietRows
      <4> HIDE DEF i
      <4> QED  BY <1>1, <1>2, <4>1, <4>2, QuietOneRow
    <3>2. CASE ~OwnsClaim(queue[i])
      BY <1>8, <3>2, QuietUnchanged DEF SettlePushClaim
    <3> QED  BY <3>1, <3>2
  <2> QED  BY <1>4, <1>8, <2>1, ReviewerEnds, QuietIsSafe DEF SettlePushClaim
<1>9. CASE ReleasePushClaim(r)
  <2>1. CASE OwnsClaim(queue[i])
    <3> DEFINE row == ReleasedClaim(queue[i])
    <3>1. queue' = [queue EXCEPT ![i] = row]
      BY <1>9, <2>1 DEF ReleasePushClaim
    <3>2. row.status = "approved" /\ row.claimed = FALSE
      BY <1>1, <1>2 DEF ReleasedClaim, Row
    <3>3. /\ Releasing(r, i) /\ UNCHANGED <<decider, runs>>
          /\ reviewer' = [reviewer EXCEPT ![r] = IdleReviewer]
      BY <1>4, <1>9 DEF Releasing, ReleasePushClaim
    <3> HIDE DEF i, row
    <3> QED  BY <1>2, <1>5, <2>1, <3>1, <3>2, <3>3, ReleaseIsSafe
  <2>2. CASE ~OwnsClaim(queue[i])
    BY <1>4, <1>9, <2>2, QuietUnchanged, ReviewerEnds, QuietIsSafe DEF ReleasePushClaim
  <2> QED  BY <2>1, <2>2
<1> QED  BY <1>6, <1>7, <1>8, <1>9 DEF ReviewerStep

LEMMA SafeStep == Safe /\ [Next]_vars => Safe'
<1> SUFFICES ASSUME Safe, [Next]_vars PROVE Safe'
  OBVIOUS
<1>1. TypeInv'
  BY TypeStep DEF Safe
<1>2. ASSUME NEW d \in Deciders, NEW w \in Work, Begin(d, w)
      PROVE  Safe'
  <2>1. PICK t \in PolicyTiers :
          decider' = [decider EXCEPT ![d] = [IdleDecider EXCEPT
                        !.pc = "lease", !.work = w, !.override = t]]
    BY <1>2 DEF Begin
  <2> DEFINE me == [IdleDecider EXCEPT !.pc = "lease", !.work = w, !.override = t]
  <2>2. decider' = [decider EXCEPT ![d] = me] /\ me.row = NoRow /\ me.pc = "lease"
    BY <2>1 DEF IdleDecider
  <2>3. UNCHANGED <<queue, reviewer, runs>>
    BY <1>2 DEF Begin, files
  <2> HIDE DEF me
  <2> QED  BY <1>1, <2>2, <2>3, QuietUnchanged, QuietDecider, QuietIsSafe
<1>3. ASSUME NEW d \in Deciders, DeciderDies(d)
      PROVE  Safe'
  BY <1>1, <1>3, QuietUnchanged, ReturnIsQuiet, QuietIsSafe DEF DeciderDies, files
<1>4. ASSUME NEW w \in Work, RaiseHitl(w)
      PROVE  Safe'
  <2>1. \A i \in Rows : QuietRow(queue[i], queue'[i])
    BY <1>4, QuietEnqueue DEF RaiseHitl, Safe
  <2> QED  BY <1>1, <1>4, <2>1, QuietFiles, QuietIsSafe DEF RaiseHitl
<1>5. ASSUME NEW r \in Reviewers, NEW i \in Rows, NEW action \in Actions,
             NEW push \in BOOLEAN, ReviewDies(r, i, action, push)
      PROVE  Safe'
  BY <1>1, <1>5, QuietUnchanged, QuietFiles, QuietIsSafe DEF ReviewDies
<1>6. ASSUME NEW r \in Reviewers, ReviewerDies(r)
      PROVE  Safe'
  BY <1>1, <1>6, QuietUnchanged, ReviewerEnds, QuietIsSafe DEF ReviewerDies, files
<1>7. ASSUME NEW k \in Keys, RevokeStanding(k)
      PROVE  Safe'
  BY <1>1, <1>7, QuietUnchanged, QuietFiles, QuietIsSafe DEF RevokeStanding
<1>8. ASSUME NEW i \in Rows, LeaseElapses(i) \/ TtlElapses(i)
      PROVE  Safe'
  <2>1. queue[i] \in Row /\ TypeOK
    BY DEF Safe, TypeInv, TypeOK
  <2>2. PICK row : /\ queue' = [queue EXCEPT ![i] = row]
                   /\ \/ row = [queue[i] EXCEPT !.leaseOver = TRUE]
                      \/ row = [queue[i] EXCEPT !.stale = TRUE]
    BY <1>8 DEF LeaseElapses, TtlElapses
  <2>3. QuietRow(queue[i], row)
    BY <2>1, <2>2, QuietRows
  <2>4. \A j \in Rows : QuietRow(queue[j], queue'[j])
    BY <2>1, <2>2, <2>3, QuietOneRow
  <2> QED
    BY <1>1, <1>8, <2>4, QuietFiles, QuietIsSafe DEF LeaseElapses, TtlElapses
<1>9. CASE UNCHANGED vars
  BY <1>1, <1>9, QuietUnchanged, QuietFiles, QuietIsSafe DEF vars, files
<1> QED
  BY <1>1, <1>2, <1>3, <1>4, <1>5, <1>6, <1>7, <1>8, <1>9,
     DecideIsSafe, ReviewIsSafe, AnswerIsSafe DEF Next

LEMMA AlwaysSafe == Spec => []Safe
  BY SafeInit, SafeStep, PTL DEF Spec

\* One approval pays for at most one run, however the deciders that pull
\* (_consume_approval), the reviewers that push (_post_manual_run), leases
\* that run out and deaths interleave.
THEOREM OneRunPerApproval == Spec => []AtMostOnce
<1>1. Safe => AtMostOnce
  BY DEF Safe
<1> QED  BY <1>1, AlwaysSafe, PTL

\* A row a human rejected, let expire or retired has never run, and no
\* process that was told AUTO holds it.
THEOREM DenialStands == Spec => []DenialIsRespected
<1>1. Safe => DenialIsRespected
  BY DEF Safe, UnclaimedIsFree, Unclaimed, Free, DenialIsRespected
<1> QED  BY <1>1, AlwaysSafe, PTL
-----------------------------------------------------------------------------
(* The record of what was decided, the policy under which work runs, and    *)
(* the refinement of Approval.  They all rest on EveryStep, which says once  *)
(* for every action what a step may do to a row, to its ledger, to those who *)
(* hold it and to its runs.                                                  *)

USE RowsAssumption DEF Rows, NoRow

-----------------------------------------------------------------------------
(* What one step does to a row, to those who hold rows and to the runs       *)

\* A run on this row has a hashed approval behind it, or is of routine work.
Backed(i) == queue[i].hashed \/ Proposal[queue[i].work].routine

\* The row keeps what it says about authority; only its clocks may move.
Rests(row, after) ==
  /\ after.work = row.work /\ after.tier = row.tier /\ after.status = row.status
  /\ after.hashed = row.hashed /\ after.claimed = row.claimed

\* The row moves on without losing its proposal or its hash.
MovesOn(row, after, from, to) ==
  /\ row.status = from /\ after.status = to
  /\ after.work = row.work /\ after.tier = row.tier /\ after.hashed = row.hashed

\* review_hitl's half under the lock: the ledger is told what the row becomes.
Ruled(i) ==
  /\ queue'[i].work = queue[i].work /\ queue'[i].tier = queue[i].tier
  /\ \/ /\ queue[i].status = "pending" /\ queue'[i].status \in Approvals
        /\ queue'[i].hashed
     \/ /\ queue[i].status = "pending" /\ queue'[i].status \in Denials
        /\ queue'[i].hashed = queue[i].hashed
     \/ /\ queue[i].status = "expired" /\ queue'[i].status = "retired"
        /\ queue'[i].hashed = queue[i].hashed
  /\ ledger'[i] = Append(ledger[i], queue'[i].status)

RowStep(i) ==
  LET row == queue[i]  after == queue'[i]
  IN  \/ Rests(row, after)
      \/ /\ row.status = "absent" /\ after.status = "pending"
         /\ ~after.hashed /\ ~after.claimed
      \/ Ruled(i)
      \/ MovesOn(row, after, "approved", "executing") /\ after.claimed = row.claimed
      \/ /\ \E d \in Deciders : decider[d].row = i
         /\ after.status \in {"done", "failed"}
         /\ MovesOn(row, after, row.status, after.status) /\ after.claimed = row.claimed
      \/ MovesOn(row, after, "executing", "failed") /\ after.claimed = row.claimed
      \/ MovesOn(row, after, "executing", "dispatched") /\ row.claimed /\ after.claimed
      \/ MovesOn(row, after, "executing", "approved") /\ row.claimed /\ ~after.claimed

LedgerStep(i) ==
  ledger'[i] = ledger[i] \/ \E s \in Statuses : ledger'[i] = Append(ledger[i], s)

\* A decider comes by a row only through an approval that backs it.
DeciderTakes(d) ==
  LET i == decider'[d].row
  IN  i /= NoRow => i = decider[d].row \/ (queue[i].status = "approved" /\ Backed(i))

\* A reviewer comes by a row only through a review that stamped its hash.
ReviewerTakes(r) ==
  LET i == reviewer'[r].row
  IN  reviewer'[r].pc \in {"grant", "post"} =>
        \/ /\ reviewer[r].pc \in {"grant", "post"} /\ reviewer[r].row = i
           /\ reviewer'[r].pc = "grant" => reviewer[r].pc = "grant"
        \/ /\ queue'[i].hashed
           /\ reviewer'[r].pc = "grant" => Proposal[queue[i].work].routine

RunStarts(i) ==
  \/ runs'[i] = runs[i]
  \/ \E d \in Deciders : decider[d].row = i
  \/ \E r \in Reviewers : reviewer[r].row = i /\ reviewer[r].pc = "post"

StepFacts ==
  /\ \A i \in Rows : RowStep(i) /\ LedgerStep(i) /\ RunStarts(i)
  /\ \A d \in Deciders : DeciderTakes(d)
  /\ \A r \in Reviewers : ReviewerTakes(r)

\* The steps that leave the rows alone.
RowsRest ==
  \A i \in Rows : Rests(queue[i], queue'[i]) /\ ledger'[i] = ledger[i]

LEMMA UnchangedRests ==
  UNCHANGED <<queue, ledger>> => RowsRest
BY DEF RowsRest, Rests

LEMMA RestIsAStep ==
  RowsRest => \A i \in Rows : RowStep(i) /\ LedgerStep(i)
BY DEF RowsRest, RowStep, LedgerStep

LEMMA HoldersStay ==
  UNCHANGED <<decider, reviewer>> =>
    /\ \A d \in Deciders : DeciderTakes(d)
    /\ \A r \in Reviewers : ReviewerTakes(r)
BY DEF DeciderTakes, ReviewerTakes

LEMMA DeciderGoes ==
  ASSUME TypeInv, NEW d \in Deciders, NEW me, decider' = [decider EXCEPT ![d] = me],
         UNCHANGED reviewer,
         \/ me.row \in {NoRow, decider[d].row}
         \/ queue[me.row].status = "approved" /\ Backed(me.row)
  PROVE  /\ \A e \in Deciders : DeciderTakes(e)
         /\ \A r \in Reviewers : ReviewerTakes(r)
<1>1. \A e \in Deciders : decider'[e] = IF e = d THEN me ELSE decider[e]
  BY DEF TypeInv, TypeOK
<1> QED  BY <1>1 DEF DeciderTakes, ReviewerTakes

LEMMA ReviewerGoes ==
  ASSUME TypeInv, NEW r \in Reviewers, NEW me, reviewer' = [reviewer EXCEPT ![r] = me],
         UNCHANGED decider,
         me.pc \in {"grant", "post"} =>
           \/ /\ reviewer[r].pc \in {"grant", "post"} /\ reviewer[r].row = me.row
              /\ me.pc = "grant" => reviewer[r].pc = "grant"
           \/ /\ queue'[me.row].hashed
              /\ me.pc = "grant" => Proposal[queue[me.row].work].routine
  PROVE  /\ \A d \in Deciders : DeciderTakes(d)
         /\ \A s \in Reviewers : ReviewerTakes(s)
<1>1. \A s \in Reviewers : reviewer'[s] = IF s = r THEN me ELSE reviewer[s]
  BY DEF TypeInv, TypeOK
<1> QED  BY <1>1 DEF DeciderTakes, ReviewerTakes

LEMMA OneRowSteps ==
  ASSUME TypeInv, NEW i \in Rows, NEW row, queue' = [queue EXCEPT ![i] = row],
         UNCHANGED ledger, queue'[i] = row => RowStep(i)
  PROVE  \A j \in Rows : RowStep(j) /\ LedgerStep(j)
<1>1. queue'[i] = row /\ \A j \in Rows : j /= i => queue'[j] = queue[j]
  BY DEF TypeInv, TypeOK
<1>2. \A j \in Rows : j /= i => RowStep(j)
  BY <1>1 DEF RowStep, Rests
<1> QED  BY <1>1, <1>2 DEF LedgerStep

LEMMA FilingSteps ==
  ASSUME TypeInv, NEW w \in Work, NEW override, NEW tier \in {"queue", "hitl"},
         Enqueue(queue, w, override, tier, queue'), UNCHANGED ledger
  PROVE  \A i \in Rows : RowStep(i) /\ LedgerStep(i)
<1>1. \A i \in Rows : \/ queue'[i] = queue[i]
                      \/ queue[i].status = "absent" /\ queue'[i] = NewRow(w, tier)
  <2>1. queue \in [Rows -> Row]
    BY DEF TypeInv, TypeOK
  <2> QED  BY <2>1, EnqueueAddsOneRow
<1>2. NewRow(w, tier).status = "pending" /\ NewRow(w, tier).claimed = FALSE
        /\ NewRow(w, tier).hashed = FALSE
  BY NewRowType
<1> QED  BY <1>1, <1>2 DEF RowStep, Rests, LedgerStep

\* What the operations of one row make of it.
LEMMA OperationsMove ==
  ASSUME NEW row \in Row
  PROVE  /\ \/ Rests(row, ExpireLease(row))
            \/ /\ MovesOn(row, ExpireLease(row), "executing", "failed")
               /\ ExpireLease(row).claimed = row.claimed
         /\ Rests(row, Resurface(row))
         /\ \A b \in BOOLEAN : Rests(row, [row EXCEPT !.leaseOver = b])
         /\ \A b \in BOOLEAN : Rests(row, [row EXCEPT !.stale = b])
         /\ row.status = "approved" =>
              /\ MovesOn(row, Leased(row), "approved", "executing")
              /\ Leased(row).claimed = row.claimed
         /\ OwnsClaim(row) =>
              /\ MovesOn(row, SettledClaim(row), "executing", "dispatched")
              /\ row.claimed /\ SettledClaim(row).claimed
         /\ OwnsClaim(row) =>
              /\ MovesOn(row, ReleasedClaim(row), "executing", "approved")
              /\ row.claimed /\ ~ReleasedClaim(row).claimed
         /\ \A failed \in BOOLEAN :
              /\ Completed(row, failed).status \in {"done", "failed"}
              /\ MovesOn(row, Completed(row, failed), row.status,
                         Completed(row, failed).status)
              /\ Completed(row, failed).claimed = row.claimed
<1> USE DEF Row, Rests, MovesOn
<1>1. \/ Rests(row, ExpireLease(row))
      \/ /\ MovesOn(row, ExpireLease(row), "executing", "failed")
         /\ ExpireLease(row).claimed = row.claimed
  BY DEF ExpireLease
<1>2. Rests(row, Resurface(row))
  BY DEF Resurface
<1>3. \A b \in BOOLEAN : Rests(row, [row EXCEPT !.leaseOver = b])
  OBVIOUS
<1>4. \A b \in BOOLEAN : Rests(row, [row EXCEPT !.stale = b])
  OBVIOUS
<1>5. row.status = "approved" =>
        /\ MovesOn(row, Leased(row), "approved", "executing")
        /\ Leased(row).claimed = row.claimed
  BY DEF Leased
<1>6. OwnsClaim(row) =>
        /\ MovesOn(row, SettledClaim(row), "executing", "dispatched")
        /\ row.claimed /\ SettledClaim(row).claimed
  BY DEF SettledClaim, OwnsClaim
<1>7. OwnsClaim(row) =>
        /\ MovesOn(row, ReleasedClaim(row), "executing", "approved")
        /\ row.claimed /\ ~ReleasedClaim(row).claimed
  BY DEF ReleasedClaim, OwnsClaim
<1>8. ASSUME NEW failed \in BOOLEAN
      PROVE  /\ Completed(row, failed).status \in {"done", "failed"}
             /\ MovesOn(row, Completed(row, failed), row.status,
                        Completed(row, failed).status)
             /\ Completed(row, failed).claimed = row.claimed
  <2>1. CASE failed
    BY <2>1 DEF Completed
  <2>2. CASE ~failed
    BY <2>2 DEF Completed
  <2> QED  BY <2>1, <2>2
<1> QED  BY <1>1, <1>2, <1>3, <1>4, <1>5, <1>6, <1>7, <1>8

\* What a review makes of its row.
LEMMA ReviewRules ==
  ASSUME NEW row \in Row, NEW action \in Actions, NEW push \in BOOLEAN,
         row.status \in ReviewableFrom(action)
  PROVE  LET after == Reviewed(row, action, push)
         IN  /\ after.work = row.work /\ after.tier = row.tier
             /\ \/ /\ row.status = "pending" /\ after.status \in Approvals
                   /\ after.hashed /\ Grants(action)
                \/ /\ row.status = "pending" /\ after.status \in Denials
                   /\ after.hashed = row.hashed /\ ~Grants(action)
                \/ /\ row.status = "expired" /\ after.status = "retired"
                   /\ after.hashed = row.hashed /\ ~Grants(action)
<1>1. \/ row.status = "pending"
      \/ row.status = "expired" /\ action = "retire"
  BY DEF ReviewableFrom
<1>2. CASE Grants(action)
  BY <1>1, <1>2 DEF Reviewed, Row, Grants, Approvals
<1>3. CASE ~Grants(action)
  <2>1. Verdict[action] \in Denials /\ (action = "retire" => Verdict[action] = "retired")
    BY <1>3 DEF Actions, Grants, Verdict, Denials
  <2> QED  BY <1>1, <1>3, <2>1 DEF Reviewed, Row
<1> QED  BY <1>2, <1>3

LEMMA DeciderStepFacts ==
  ASSUME TypeInv, NEW d \in Deciders, DeciderStep(d)
  PROVE  StepFacts
<1>1. decider[d] \in DeciderState /\ TypeOK /\ \A i \in Rows : queue[i] \in Row
  BY DEF TypeInv, TypeOK
<1>2. UNCHANGED <<ledger, reviewer>>
  BY DEF DeciderStep, ReconcileStaleExecuting, ReconcileStaleApproved, CheckLimits,
         ConsumeApproval, Route, EnqueueHitl, StartRun, MarkComplete, Return, Move, files
<1>3. ASSUME NEW from, NEW to, Move(d, from, to)
      PROVE  /\ \A e \in Deciders : DeciderTakes(e)
             /\ \A r \in Reviewers : ReviewerTakes(r)
  <2> DEFINE me == [decider[d] EXCEPT !.pc = to]
  <2>1. decider' = [decider EXCEPT ![d] = me] /\ me.row = decider[d].row
    BY <1>1, <1>3 DEF Move, DeciderState
  <2> HIDE DEF me
  <2> QED  BY <1>2, <2>1, DeciderGoes
<1>4. ASSUME NEW from, Return(d, from)
      PROVE  /\ \A e \in Deciders : DeciderTakes(e)
             /\ \A r \in Reviewers : ReviewerTakes(r)
  <2>1. decider' = [decider EXCEPT ![d] = IdleDecider] /\ IdleDecider.row = NoRow
    BY <1>4 DEF Return, IdleDecider
  <2> QED  BY <1>2, <2>1, DeciderGoes
<1>5. UNCHANGED runs => \A i \in Rows : RunStarts(i)
  BY DEF RunStarts
<1>6. CASE ReconcileStaleExecuting(d)
  <2>1. \A i \in Rows : RowStep(i) /\ LedgerStep(i)
    <3>1. \A i \in Rows : queue'[i] = ExpireLease(queue[i])
      BY <1>6 DEF ReconcileStaleExecuting
    <3> QED  BY <1>1, <1>2, <3>1, OperationsMove DEF RowStep, LedgerStep
  <2> QED  BY <1>3, <1>5, <1>6, <2>1 DEF ReconcileStaleExecuting, StepFacts
<1>7. CASE ReconcileStaleApproved(d)
  <2>1. \A i \in Rows : RowStep(i) /\ LedgerStep(i)
    <3>1. \A i \in Rows : queue'[i] = Resurface(queue[i])
      BY <1>7 DEF ReconcileStaleApproved
    <3> QED  BY <1>1, <1>2, <3>1, OperationsMove DEF RowStep, LedgerStep
  <2> QED  BY <1>3, <1>5, <1>7, <2>1 DEF ReconcileStaleApproved, StepFacts
<1>8. CASE CheckLimits(d)
  <2>1. Return(d, "limits") \/ Move(d, "limits", "consume")
    BY <1>8 DEF CheckLimits
  <2>2. \A i \in Rows : RowStep(i) /\ LedgerStep(i)
    BY <1>8, UnchangedRests, RestIsAStep DEF CheckLimits, files
  <2> QED  BY <1>3, <1>4, <1>5, <1>8, <2>1, <2>2 DEF CheckLimits, StepFacts
<1>9. CASE ConsumeApproval(d)
  <2> DEFINE fits == Consumable(queue, decider[d].work, decider[d].override)
  <2>1. CASE Move(d, "consume", "route") /\ UNCHANGED queue
    BY <1>2, <1>3, <1>5, <1>9, <2>1, UnchangedRests, RestIsAStep
    DEF ConsumeApproval, StepFacts
  <2>2. CASE \E i \in Rows :
               /\ IsFirst(i, fits)
               /\ queue' = [queue EXCEPT ![i] = Leased(@)]
               /\ decider' = [decider EXCEPT ![d].pc = "granted", ![d].row = i]
    <3>1. PICK i \in Rows :
             /\ IsFirst(i, fits)
             /\ queue' = [queue EXCEPT ![i] = Leased(@)]
             /\ decider' = [decider EXCEPT ![d].pc = "granted", ![d].row = i]
      BY <2>2
    <3>2. /\ queue[i].status = "approved" /\ queue[i].work = decider[d].work
          /\ Proposal[decider[d].work].routine \/ queue[i].hashed
      BY <3>1 DEF IsFirst, Consumable, Matches
    <3> DEFINE me == [decider[d] EXCEPT !.pc = "granted", !.row = i]
               row == Leased(queue[i])
    <3>3. decider' = [decider EXCEPT ![d] = me] /\ me.row = i
      BY <1>1, <3>1 DEF DeciderState
    <3>4. Backed(i)
      BY <3>2 DEF Backed
    <3>5. queue' = [queue EXCEPT ![i] = row]
      BY <3>1
    <3>6. queue'[i] = row => RowStep(i)
      BY <1>1, <3>2, OperationsMove DEF RowStep
    <3> HIDE DEF me, row
    <3>7. \A j \in Rows : RowStep(j) /\ LedgerStep(j)
      BY <1>2, <3>5, <3>6, OneRowSteps
    <3>8. /\ \A e \in Deciders : DeciderTakes(e)
          /\ \A r \in Reviewers : ReviewerTakes(r)
      BY <1>2, <3>2, <3>3, <3>4, DeciderGoes
    <3> QED  BY <1>5, <1>9, <3>7, <3>8 DEF ConsumeApproval, StepFacts
  <2> QED  BY <1>9, <2>1, <2>2 DEF ConsumeApproval
<1>10. CASE Route(d)
  <2>1. \A i \in Rows : RowStep(i) /\ LedgerStep(i)
    BY <1>10, UnchangedRests, RestIsAStep DEF Route, files
  <2>2. \/ Move(d, "route", "granted")
        \/ \E tier : decider' = [decider EXCEPT ![d].pc = "enqueue", ![d].tier = tier]
    BY <1>10 DEF Route
  <2>3. ASSUME NEW tier,
               decider' = [decider EXCEPT ![d].pc = "enqueue", ![d].tier = tier]
        PROVE  /\ \A e \in Deciders : DeciderTakes(e)
               /\ \A r \in Reviewers : ReviewerTakes(r)
    <3> DEFINE me == [decider[d] EXCEPT !.pc = "enqueue", !.tier = tier]
    <3>1. decider' = [decider EXCEPT ![d] = me] /\ me.row = decider[d].row
      BY <1>1, <2>3 DEF DeciderState
    <3> HIDE DEF me
    <3> QED  BY <1>2, <3>1, DeciderGoes
  <2> QED  BY <1>3, <1>5, <1>10, <2>1, <2>2, <2>3 DEF Route, StepFacts
<1>11. CASE EnqueueHitl(d)
  <2>1. decider[d].work \in Work /\ decider[d].tier \in {"queue", "hitl"}
    BY <1>1, <1>11 DEF EnqueueHitl, Return, TypeInv, WellFormed, DeciderState
  <2>2. \A i \in Rows : RowStep(i) /\ LedgerStep(i)
    BY <1>2, <1>11, <2>1, FilingSteps DEF EnqueueHitl
  <2> QED  BY <1>4, <1>5, <1>11, <2>2 DEF EnqueueHitl, StepFacts
<1>12. CASE StartRun(d)
  <2>1. \A i \in Rows : RowStep(i) /\ LedgerStep(i)
    BY <1>12, UnchangedRests, RestIsAStep DEF StartRun, files
  <2>2. \A i \in Rows : RunStarts(i)
    BY <1>1, <1>12 DEF StartRun, CountRun, RunStarts, DeciderState
  <2> QED  BY <1>3, <1>12, <2>1, <2>2 DEF StartRun, StepFacts
<1>13. CASE MarkComplete(d)
  <2>1. PICK failed \in BOOLEAN :
          queue' = IF decider[d].row = NoRow THEN queue
                   ELSE [queue EXCEPT ![decider[d].row] = Completed(@, failed)]
    BY <1>13 DEF MarkComplete
  <2>2. \A i \in Rows : RowStep(i) /\ LedgerStep(i)
    <3>1. CASE decider[d].row = NoRow
      BY <1>2, <2>1, <3>1, UnchangedRests, RestIsAStep
    <3>2. CASE decider[d].row /= NoRow
      <4> DEFINE i == decider[d].row
                 row == Completed(queue[i], failed)
      <4>1. i \in Rows /\ queue' = [queue EXCEPT ![i] = row]
        BY <1>1, <2>1, <3>2 DEF DeciderState
      <4>2. queue'[i] = row => RowStep(i)
        <5> SUFFICES ASSUME queue'[i] = row PROVE RowStep(i)
          OBVIOUS
        <5>1. /\ row.status \in {"done", "failed"} /\ row.claimed = queue[i].claimed
              /\ MovesOn(queue[i], row, queue[i].status, row.status)
          BY <1>1, <4>1, OperationsMove
        <5>2. \E e \in Deciders : decider[e].row = i
          OBVIOUS
        <5> HIDE DEF row, i
        <5> QED  BY <5>1, <5>2 DEF RowStep
      <4> HIDE DEF i, row
      <4> QED  BY <1>2, <4>1, <4>2, OneRowSteps
    <3> QED  BY <3>1, <3>2
  <2> QED  BY <1>4, <1>5, <1>13, <2>2 DEF MarkComplete, StepFacts
<1> QED
  BY <1>6, <1>7, <1>8, <1>9, <1>10, <1>11, <1>12, <1>13 DEF DeciderStep

LEMMA ChainAppends ==
  ASSUME TypeInv, NEW i \in Rows, NEW action \in Actions, NEW push \in BOOLEAN,
         Chain(i, action, push)
  PROVE  /\ \A j \in Rows : LedgerStep(j)
         /\ ledger'[i] = Append(ledger[i], Reviewed(queue[i], action, push).status)
         /\ \A j \in Rows : j /= i => ledger'[j] = ledger[j]
<1> DEFINE said == Reviewed(queue[i], action, push).status
<1>1. said \in Statuses
  BY ReviewedRow DEF TypeInv, TypeOK, Approvals, Denials, Statuses
<1>2. ledger' = [ledger EXCEPT ![i] = Append(@, said)]
  BY DEF Chain
<1> HIDE DEF said
<1>3. /\ ledger'[i] = Append(ledger[i], said)
      /\ \A j \in Rows : j /= i => ledger'[j] = ledger[j]
  BY <1>2 DEF TypeInv, TypeOK
<1>4. \A j \in Rows : LedgerStep(j)
  BY <1>1, <1>3 DEF LedgerStep
<1> QED  BY <1>3, <1>4 DEF said

LEMMA ReviewFacts ==
  ASSUME TypeInv, NEW r \in Reviewers, NEW i \in Rows, NEW action \in Actions,
         NEW push \in BOOLEAN, Review(r, i, action, push)
  PROVE  StepFacts
<1> DEFINE row == Reviewed(queue[i], action, push)
           me == AfterReview(i, action, push)
<1>1. /\ queue[i] \in Row /\ queue[i].status \in ReviewableFrom(action)
      /\ Chain(i, action, push) /\ queue' = [queue EXCEPT ![i] = row]
      /\ reviewer' = [reviewer EXCEPT ![r] = me]
      /\ UNCHANGED <<decider, runs>>
  BY DEF Review, Reviewable, TypeInv, TypeOK
<1>2. /\ row.work = queue[i].work /\ row.tier = queue[i].tier
      /\ \/ /\ queue[i].status = "pending" /\ row.status \in Approvals
            /\ row.hashed /\ Grants(action)
         \/ /\ queue[i].status = "pending" /\ row.status \in Denials
            /\ row.hashed = queue[i].hashed /\ ~Grants(action)
         \/ /\ queue[i].status = "expired" /\ row.status = "retired"
            /\ row.hashed = queue[i].hashed /\ ~Grants(action)
  BY <1>1, ReviewRules
<1>3. me.pc \in {"grant", "post"} =>
        /\ me.row = i /\ Grants(action)
        /\ me.pc = "grant" => Proposal[queue[i].work].routine
  BY DEF AfterReview, IdleReviewer, Claims, Grants
<1> HIDE DEF row, me
<1>4. queue'[i] = row /\ \A j \in Rows : j /= i => queue'[j] = queue[j]
  BY <1>1 DEF TypeInv, TypeOK
<1>5. \A j \in Rows : LedgerStep(j)
  BY <1>1, ChainAppends
<1>6. ledger'[i] = Append(ledger[i], row.status)
  BY <1>1, ChainAppends DEF row
<1>7. \A j \in Rows : RowStep(j)
  <2>1. RowStep(i)
    <3>1. Ruled(i)
      BY <1>2, <1>4, <1>6 DEF Ruled
    <3> QED  BY <3>1 DEF RowStep
  <2>2. \A j \in Rows : j /= i => RowStep(j)
    BY <1>4 DEF RowStep, Rests
  <2> QED  BY <2>1, <2>2
<1>8. me.pc \in {"grant", "post"} =>
        /\ queue'[me.row].hashed
        /\ me.pc = "grant" => Proposal[queue[me.row].work].routine
  <2>1. Grants(action) => row.hashed
    BY <1>2
  <2> QED  BY <1>3, <1>4, <2>1
<1>9. /\ \A d \in Deciders : DeciderTakes(d)
      /\ \A s \in Reviewers : ReviewerTakes(s)
  BY <1>1, <1>8, ReviewerGoes
<1> QED  BY <1>1, <1>5, <1>7, <1>9 DEF StepFacts, RunStarts

LEMMA ReviewDiesFacts ==
  ASSUME TypeInv, NEW r \in Reviewers, NEW i \in Rows, NEW action \in Actions,
         NEW push \in BOOLEAN, ReviewDies(r, i, action, push)
  PROVE  StepFacts
<1>1. Chain(i, action, push) /\ UNCHANGED <<queue, standing, decider, reviewer, runs>>
  BY DEF ReviewDies
<1>2. \A j \in Rows : LedgerStep(j)
  BY <1>1, ChainAppends
<1>3. \A j \in Rows : RowStep(j)
  BY <1>1 DEF RowStep, Rests
<1> QED  BY <1>1, <1>2, <1>3, HoldersStay DEF StepFacts, RunStarts

LEMMA ReviewerStepFacts ==
  ASSUME TypeInv, NEW r \in Reviewers, ReviewerStep(r)
  PROVE  StepFacts
<1> DEFINE i == reviewer[r].row
<1>1. reviewer[r] \in ReviewerState /\ TypeOK /\ \A j \in Rows : queue[j] \in Row
  BY DEF TypeInv, TypeOK
<1>2. reviewer[r].pc /= "idle" /\ i \in Rows /\ UNCHANGED <<ledger, decider>>
  BY <1>1 DEF ReviewerStep, GrantStanding, PostManualRun, SettlePushClaim,
              ReleasePushClaim, TypeInv, WellFormed, ReviewerState, files
<1>3. ASSUME NEW to \in {"idle", "post", "settle", "release"}, ReviewerMoves(r, to),
             to = "post" => reviewer[r].pc \in {"grant", "post"}
      PROVE  /\ \A d \in Deciders : DeciderTakes(d)
             /\ \A s \in Reviewers : ReviewerTakes(s)
  <2>1. CASE to = "idle"
    <3>1. reviewer' = [reviewer EXCEPT ![r] = IdleReviewer] /\ IdleReviewer.pc = "idle"
      BY <1>3, <2>1 DEF ReviewerMoves, IdleReviewer
    <3> QED  BY <1>2, <3>1, ReviewerGoes
  <2>2. CASE to /= "idle"
    <3> DEFINE me == [reviewer[r] EXCEPT !.pc = to]
    <3>1. reviewer' = [reviewer EXCEPT ![r] = me] /\ me.pc = to /\ me.row = i
      BY <1>1, <1>3, <2>2 DEF ReviewerMoves, ReviewerState
    <3> HIDE DEF me
    <3> QED  BY <1>2, <1>3, <2>2, <3>1, ReviewerGoes
  <2> QED  BY <2>1, <2>2
<1>4. UNCHANGED runs => \A j \in Rows : RunStarts(j)
  BY DEF RunStarts
<1>5. UNCHANGED queue => \A j \in Rows : RowStep(j) /\ LedgerStep(j)
  BY <1>2, UnchangedRests, RestIsAStep
<1>6. CASE GrantStanding(r)
  <2>1. /\ UNCHANGED <<queue, runs>> /\ reviewer[r].pc = "grant"
        /\ ReviewerMoves(r, "post") \/ ReviewerMoves(r, "idle")
    BY <1>6 DEF GrantStanding
  <2> QED  BY <1>3, <1>4, <1>5, <2>1 DEF StepFacts
<1>7. CASE PostManualRun(r)
  <2>1. /\ UNCHANGED queue /\ reviewer[r].pc = "post"
        /\ \/ ReviewerMoves(r, "settle") \/ ReviewerMoves(r, "release")
           \/ ReviewerMoves(r, "idle")
        /\ UNCHANGED runs \/ CountRun(i)
    BY <1>7 DEF PostManualRun, files
  <2>2. \A j \in Rows : RunStarts(j)
    BY <1>1, <1>2, <2>1 DEF CountRun, RunStarts, TypeOK
  <2> QED  BY <1>3, <1>5, <2>1, <2>2 DEF StepFacts
<1>8. CASE SettlePushClaim(r)
  <2>1. \A j \in Rows : RowStep(j) /\ LedgerStep(j)
    <3>1. CASE OwnsClaim(queue[i])
      <4> DEFINE row == SettledClaim(queue[i])
      <4>1. queue' = [queue EXCEPT ![i] = row]
        BY <1>8, <3>1 DEF SettlePushClaim
      <4>2. queue'[i] = row => RowStep(i)
        BY <1>1, <1>2, <3>1, OperationsMove DEF RowStep
      <4> HIDE DEF row, i
      <4> QED  BY <1>2, <4>1, <4>2, OneRowSteps
    <3>2. CASE ~OwnsClaim(queue[i])
      BY <1>5, <1>8, <3>2 DEF SettlePushClaim
    <3> QED  BY <3>1, <3>2
  <2> QED  BY <1>3, <1>4, <1>8, <2>1 DEF SettlePushClaim, StepFacts
<1>9. CASE ReleasePushClaim(r)
  <2>1. \A j \in Rows : RowStep(j) /\ LedgerStep(j)
    <3>1. CASE OwnsClaim(queue[i])
      <4> DEFINE row == ReleasedClaim(queue[i])
      <4>1. queue' = [queue EXCEPT ![i] = row]
        BY <1>9, <3>1 DEF ReleasePushClaim
      <4>2. queue'[i] = row => RowStep(i)
        BY <1>1, <1>2, <3>1, OperationsMove DEF RowStep
      <4> HIDE DEF row, i
      <4> QED  BY <1>2, <4>1, <4>2, OneRowSteps
    <3>2. CASE ~OwnsClaim(queue[i])
      BY <1>5, <1>9, <3>2 DEF ReleasePushClaim
    <3> QED  BY <3>1, <3>2
  <2> QED  BY <1>3, <1>4, <1>9, <2>1 DEF ReleasePushClaim, StepFacts
<1> QED  BY <1>6, <1>7, <1>8, <1>9 DEF ReviewerStep

LEMMA EveryStep == TypeInv /\ [Next]_vars => StepFacts
<1> SUFFICES ASSUME TypeInv, [Next]_vars PROVE StepFacts
  OBVIOUS
<1>1. UNCHANGED runs => \A i \in Rows : RunStarts(i)
  BY DEF RunStarts
<1>2. UNCHANGED <<queue, ledger>> => \A i \in Rows : RowStep(i) /\ LedgerStep(i)
  BY UnchangedRests, RestIsAStep
<1>3. ASSUME NEW d \in Deciders, NEW w \in Work, Begin(d, w)
      PROVE  StepFacts
  <2>1. PICK t \in PolicyTiers :
          decider' = [decider EXCEPT ![d] = [IdleDecider EXCEPT
                        !.pc = "lease", !.work = w, !.override = t]]
    BY <1>3 DEF Begin
  <2> DEFINE me == [IdleDecider EXCEPT !.pc = "lease", !.work = w, !.override = t]
  <2>2. decider' = [decider EXCEPT ![d] = me] /\ me.row = NoRow
    BY <2>1 DEF IdleDecider
  <2>3. UNCHANGED <<queue, ledger, reviewer, runs>>
    BY <1>3 DEF Begin, files
  <2> HIDE DEF me
  <2> QED  BY <1>1, <1>2, <2>2, <2>3, DeciderGoes DEF StepFacts
<1>4. ASSUME NEW d \in Deciders, DeciderDies(d)
      PROVE  StepFacts
  <2>1. /\ decider' = [decider EXCEPT ![d] = IdleDecider] /\ IdleDecider.row = NoRow
        /\ UNCHANGED <<queue, ledger, reviewer, runs>>
    BY <1>4 DEF DeciderDies, IdleDecider, files
  <2> QED  BY <1>1, <1>2, <2>1, DeciderGoes DEF StepFacts
<1>5. ASSUME NEW w \in Work, RaiseHitl(w)
      PROVE  StepFacts
  BY <1>1, <1>5, FilingSteps, HoldersStay DEF RaiseHitl, StepFacts
<1>6. ASSUME NEW r \in Reviewers, ReviewerDies(r)
      PROVE  StepFacts
  <2>1. /\ reviewer' = [reviewer EXCEPT ![r] = IdleReviewer]
        /\ IdleReviewer.pc = "idle"
        /\ UNCHANGED <<queue, ledger, decider, runs>>
    BY <1>6 DEF ReviewerDies, IdleReviewer, files
  <2> QED  BY <1>1, <1>2, <2>1, ReviewerGoes DEF StepFacts
<1>7. ASSUME NEW k \in Keys, RevokeStanding(k)
      PROVE  StepFacts
  BY <1>1, <1>2, <1>7, HoldersStay DEF RevokeStanding, StepFacts
<1>8. ASSUME NEW i \in Rows, LeaseElapses(i) \/ TtlElapses(i)
      PROVE  StepFacts
  <2>1. UNCHANGED <<ledger, decider, reviewer, runs>>
    BY <1>8 DEF LeaseElapses, TtlElapses
  <2>2. PICK row : /\ queue' = [queue EXCEPT ![i] = row]
                   /\ \/ row = [queue[i] EXCEPT !.leaseOver = TRUE]
                      \/ row = [queue[i] EXCEPT !.stale = TRUE]
    BY <1>8 DEF LeaseElapses, TtlElapses
  <2>3. Rests(queue[i], row)
    <3>1. queue[i] \in Row
      BY DEF TypeInv, TypeOK
    <3> QED  BY <2>2, <3>1 DEF Rests, Row
  <2>4. \A j \in Rows : RowStep(j) /\ LedgerStep(j)
    BY <2>1, <2>2, <2>3, OneRowSteps DEF RowStep
  <2> QED  BY <1>1, <2>1, <2>4, HoldersStay DEF StepFacts
<1>9. CASE UNCHANGED vars
  BY <1>1, <1>2, <1>9, HoldersStay DEF vars, files, StepFacts
<1> QED
  BY <1>3, <1>4, <1>5, <1>6, <1>7, <1>8, <1>9,
     DeciderStepFacts, ReviewFacts, ReviewDiesFacts, ReviewerStepFacts DEF Next

-----------------------------------------------------------------------------
(* The record of what was decided                                            *)

LEMMA ChainGrows ==
  ASSUME TypeInv, NEW i \in Rows, LedgerStep(i), NEW S, Chained(i, S)
  PROVE  \E n \in DOMAIN ledger'[i] : ledger'[i][n] \in S
<1>1. ledger[i] \in Seq(Statuses)
  BY DEF TypeInv, TypeOK
<1>2. PICK n \in DOMAIN ledger[i] : ledger[i][n] \in S
  BY DEF Chained
<1>3. CASE ledger'[i] = ledger[i]
  BY <1>2, <1>3
<1>4. ASSUME NEW s \in Statuses, ledger'[i] = Append(ledger[i], s)
      PROVE  n \in DOMAIN ledger'[i] /\ ledger'[i][n] = ledger[i][n]
  BY <1>1, <1>2, <1>4
<1> QED  BY <1>2, <1>3, <1>4 DEF LedgerStep

LEMMA RulingIsChained ==
  ASSUME TypeInv, NEW i \in Rows, NEW s \in Statuses, ledger'[i] = Append(ledger[i], s)
  PROVE  \E n \in DOMAIN ledger'[i] : ledger'[i][n] = s
<1>1. ledger[i] \in Seq(Statuses)
  BY DEF TypeInv, TypeOK
<1>2. /\ Len(ledger[i]) + 1 \in DOMAIN ledger'[i]
      /\ ledger'[i][Len(ledger[i]) + 1] = s
  BY <1>1
<1> QED  BY <1>2

\* The first rows: none, or one approved without a hash.
LEMMA FirstRows ==
  ASSUME Init, NEW i \in Rows
  PROVE  /\ queue[i].status \in {"absent", "approved"}
         /\ queue[i].hashed = FALSE /\ queue[i].claimed = FALSE
         /\ ledger[i] = << >> /\ runs[i] = 0
<1>1. BlankRow.status = "absent" /\ BlankRow.hashed = FALSE /\ BlankRow.claimed = FALSE
  BY DEF BlankRow
<1>2. \A w \in Legacy : /\ LegacyRow(w).status = "approved"
                        /\ LegacyRow(w).hashed = FALSE /\ LegacyRow(w).claimed = FALSE
  BY DEF LegacyRow, BlankRow
<1> QED  BY <1>1, <1>2 DEF Init

LEMMA ChainingStep ==
  ASSUME TypeInv, ResolutionIsChained, StepFacts
  PROVE  ResolutionIsChained'
<1> SUFFICES ASSUME NEW i \in Rows
             PROVE  /\ queue'[i].hashed => Chained(i, Approvals)'
                    /\ queue'[i].status \in Denials => Chained(i, {queue[i].status})'
  BY DEF ResolutionIsChained
<1>1. RowStep(i) /\ LedgerStep(i)
  BY DEF StepFacts
<1>2. Chained(i, Approvals) => Chained(i, Approvals)'
  BY <1>1, ChainGrows DEF Chained
<1>3. queue[i].status = queue'[i].status /\ Chained(i, {queue[i].status})
        => Chained(i, {queue[i].status})'
  <2> DEFINE S == {queue[i].status}
  <2>1. Chained(i, S) => \E n \in DOMAIN ledger'[i] : ledger'[i][n] \in S
    <3> HIDE DEF S
    <3> QED  BY <1>1, ChainGrows
  <2> QED  BY <2>1 DEF Chained
<1>4. CASE Ruled(i)
  <2>1. queue'[i].status \in Statuses
    BY <1>4 DEF Ruled, Approvals, Denials, Statuses
  <2>2. \E n \in DOMAIN ledger'[i] : ledger'[i][n] = queue'[i].status
    BY <1>4, <2>1, RulingIsChained DEF Ruled
  <2>3. Chained(i, {queue[i].status})'
    BY <2>2 DEF Chained
  <2>4. queue'[i].hashed => Chained(i, Approvals)'
    <3>1. CASE queue'[i].status \in Approvals
      BY <2>2, <3>1 DEF Chained
    <3>2. CASE queue'[i].status \notin Approvals
      BY <1>2, <1>4, <3>2 DEF Ruled, ResolutionIsChained
    <3> QED  BY <3>1, <3>2
  <2> QED  BY <2>3, <2>4
<1>5. CASE ~Ruled(i)
  <2>1. /\ queue'[i].hashed => queue[i].hashed
        /\ queue'[i].status \in Denials => queue'[i].status = queue[i].status
    BY <1>1, <1>5 DEF RowStep, Rests, MovesOn, Denials
  <2> QED  BY <1>2, <1>3, <2>1 DEF ResolutionIsChained
<1> QED  BY <1>4, <1>5

\* A resolution that cannot be chained does not happen: no step, death or race
\* leaves a row settled by a review without the ledger row that says so
\* (agentica_core/bushido_engine.py:1320-1340).
THEOREM SettledRowsAreChained == Spec => []ResolutionIsChained
<1>1. Init => ResolutionIsChained
  BY FirstRows DEF ResolutionIsChained, Denials
<1>2. TypeInv /\ ResolutionIsChained /\ [Next]_vars => ResolutionIsChained'
  BY EveryStep, ChainingStep
<1> QED  BY <1>1, <1>2, TypeInit, TypeStep, PTL DEF Spec

-----------------------------------------------------------------------------
(* What was settled stays settled                                            *)

\* A row a decider works on carries no push claim, and only a claimed row is
\* ever dispatched.
ClaimsStayApart ==
  /\ \A d \in Deciders : decider[d].row /= NoRow => ~queue[decider[d].row].claimed
  /\ \A i \in Rows : queue[i].status = "dispatched" => queue[i].claimed

LEMMA ClaimsStep ==
  ASSUME Safe, ClaimsStayApart, TypeInv', StepFacts
  PROVE  ClaimsStayApart'
<1>1. ASSUME NEW d \in Deciders, decider'[d].row /= NoRow
      PROVE  ~queue'[decider'[d].row].claimed
  <2> DEFINE i == decider'[d].row
  <2>1. i \in Rows
    BY <1>1 DEF TypeInv, TypeOK, DeciderState
  <2>2. RowStep(i) /\ DeciderTakes(d)
    BY <2>1 DEF StepFacts
  <2>3. CASE i = decider[d].row
    <3>1. ~queue[i].claimed /\ queue[i].status \notin Unclaimed
      BY <1>1, <2>1, <2>3 DEF ClaimsStayApart, Safe, UnclaimedIsFree, Free
    <3> HIDE DEF i
    <3>2. ~queue'[i].claimed
      BY <2>2, <3>1 DEF RowStep, Rests, MovesOn, Ruled, Unclaimed, Denials
    <3> QED  BY <3>2 DEF i
  <2>4. CASE queue[i].status = "approved"
    <3>1. ~queue[i].claimed
      BY <2>1, <2>4 DEF Safe, NoClaimAtRest, AtRest
    <3> HIDE DEF i
    <3>2. ~queue'[i].claimed
      BY <2>2, <2>4, <3>1 DEF RowStep, Rests, MovesOn, Ruled
    <3> QED  BY <3>2 DEF i
  <2> HIDE DEF i
  <2> QED  BY <1>1, <2>2, <2>3, <2>4 DEF DeciderTakes, i
<1>2. ASSUME NEW i \in Rows, queue'[i].status = "dispatched"
      PROVE  queue'[i].claimed
  <2>1. RowStep(i)
    BY DEF StepFacts
  <2> QED
    BY <1>2, <2>1
    DEF ClaimsStayApart, RowStep, Rests, MovesOn, Ruled, Approvals, Denials
<1> QED  BY <1>1, <1>2 DEF ClaimsStayApart

LEMMA ClaimsStayApartAlways == Spec => [](Safe /\ ClaimsStayApart)
<1>1. Init => ClaimsStayApart
  <2> SUFFICES ASSUME Init PROVE ClaimsStayApart
    OBVIOUS
  <2>1. \A d \in Deciders : decider[d].row = NoRow
    BY DEF Init, IdleDecider
  <2> QED  BY <2>1, FirstRows DEF ClaimsStayApart
<1>2. Safe /\ ClaimsStayApart /\ [Next]_vars => ClaimsStayApart'
  <2> SUFFICES ASSUME Safe, ClaimsStayApart, [Next]_vars PROVE ClaimsStayApart'
    OBVIOUS
  <2>1. TypeInv /\ TypeInv'
    BY TypeStep DEF Safe
  <2> QED  BY <2>1, EveryStep, ClaimsStep
<1> QED  BY <1>1, <1>2, SafeInit, SafeStep, PTL DEF Spec

LEMMA SettledStep ==
  ASSUME Safe, ClaimsStayApart, StepFacts, NEW i \in Rows
  PROVE  /\ queue[i].status \in {"rejected", "retired", "dispatched"}
              => queue'[i].status = queue[i].status
         /\ queue[i].status = "expired" => queue'[i].status \in {"expired", "retired"}
         /\ queue[i].status \in {"done", "failed"}
              => queue'[i].status \in {"done", "failed"}
<1>1. RowStep(i)
  BY DEF StepFacts
<1>2. (\E d \in Deciders : decider[d].row = i) =>
        queue[i].status \notin {"rejected", "retired", "expired", "dispatched"}
  BY DEF Safe, UnclaimedIsFree, Unclaimed, Denials, Free, ClaimsStayApart
<1> QED  BY <1>1, <1>2 DEF RowStep, Rests, MovesOn, Ruled, Denials

\* What a human refused, what was retired or dispatched and what has run keep
\* their verdict, whatever late answer, lease or completion comes after
\* (agentica_core/bushido_engine.py:1085).
THEOREM VerdictsStand == Spec => SettledIsFinal
<1>1. Safe /\ ClaimsStayApart /\ [Next]_vars =>
        [\A i \in Rows :
           /\ queue[i].status \in {"rejected", "retired", "dispatched"}
                => queue'[i].status = queue[i].status
           /\ queue[i].status = "expired"
                => queue'[i].status \in {"expired", "retired"}
           /\ queue[i].status \in {"done", "failed"}
                => queue'[i].status \in {"done", "failed"}]_vars
  BY EveryStep, SettledStep DEF Safe
<1> QED  BY <1>1, ClaimsStayApartAlways, PTL DEF Spec, SettledIsFinal

-----------------------------------------------------------------------------
(* Whom the runs answer to                                                   *)

\* Whoever holds a row, or has run on it, holds an approval that covers it.
Supported ==
  /\ \A i \in Rows : runs[i] > 0 => Backed(i)
  /\ \A d \in Deciders : decider[d].row /= NoRow => Backed(decider[d].row)
  /\ \A r \in Reviewers : reviewer[r].pc \in {"grant", "post"} =>
       /\ queue[reviewer[r].row].hashed
       /\ reviewer[r].pc = "grant" => Proposal[queue[reviewer[r].row].work].routine

LEMMA RowKeepsBacking ==
  ASSUME NEW i \in Rows, RowStep(i), queue[i].status /= "absent"
  PROVE  /\ queue'[i].work = queue[i].work /\ queue'[i].tier = queue[i].tier
         /\ queue'[i].status /= "absent"
         /\ queue[i].hashed => queue'[i].hashed
  BY DEF RowStep, Rests, MovesOn, Ruled, Approvals, Denials

LEMMA BackedStays ==
  ASSUME NEW i \in Rows, RowStep(i), queue[i].status /= "absent", Backed(i)
  PROVE  queue'[i].hashed \/ Proposal[queue'[i].work].routine
  BY RowKeepsBacking DEF Backed

LEMMA HeldIsThere ==
  ASSUME Safe
  PROVE  /\ \A i \in Rows : runs[i] > 0 => queue[i].status /= "absent"
         /\ \A d \in Deciders : decider[d].row /= NoRow =>
              decider[d].row \in Rows /\ queue[decider[d].row].status /= "absent"
         /\ \A r \in Reviewers : reviewer[r].pc /= "idle" =>
              reviewer[r].row \in Rows /\ queue[reviewer[r].row].status /= "absent"
<1>1. /\ \A d \in Deciders : decider[d].row \in Rows \union {NoRow}
      /\ \A r \in Reviewers : reviewer[r].row \in Rows \union {NoRow}
  BY DEF Safe, TypeInv, TypeOK, DeciderState, ReviewerState
<1> QED  BY <1>1 DEF Safe, TypeInv, WellFormed, UnclaimedIsFree, Unclaimed, Free

LEMMA SupportStep ==
  ASSUME Safe, TypeInv', Supported, StepFacts
  PROVE  Supported'
<1>1. ASSUME NEW i \in Rows, runs'[i] > 0
      PROVE  Backed(i)'
  <2>1. RowStep(i) /\ RunStarts(i)
    BY DEF StepFacts
  <2>2. queue[i].status /= "absent" /\ Backed(i)
    BY <1>1, <2>1, HeldIsThere DEF RunStarts, Supported, Backed
  <2> QED  BY <2>1, <2>2, BackedStays DEF Backed
<1>2. ASSUME NEW d \in Deciders, decider'[d].row /= NoRow
      PROVE  Backed(decider[d].row)'
  <2> DEFINE i == decider'[d].row
  <2>1. i \in Rows
    BY <1>2 DEF TypeInv, TypeOK, DeciderState
  <2>2. RowStep(i) /\ DeciderTakes(d)
    BY <2>1 DEF StepFacts
  <2>3. queue[i].status /= "absent" /\ Backed(i)
    BY <1>2, <2>2, HeldIsThere DEF DeciderTakes, Supported
  <2> HIDE DEF i
  <2>4. queue'[i].hashed \/ Proposal[queue'[i].work].routine
    BY <2>1, <2>2, <2>3, BackedStays
  <2> QED  BY <2>4 DEF Backed, i
<1>3. ASSUME NEW r \in Reviewers, reviewer'[r].pc \in {"grant", "post"}
      PROVE  /\ queue'[reviewer'[r].row].hashed
             /\ reviewer'[r].pc = "grant" =>
                  Proposal[queue'[reviewer'[r].row].work].routine
  <2> DEFINE i == reviewer'[r].row
  <2>1. i \in Rows /\ queue'[i].work \in Work
    BY <1>3 DEF TypeInv, TypeOK, WellFormed, ReviewerState
  <2>2. RowStep(i) /\ ReviewerTakes(r)
    BY <2>1 DEF StepFacts
  <2>3. CASE /\ reviewer[r].pc \in {"grant", "post"} /\ reviewer[r].row = i
             /\ reviewer'[r].pc = "grant" => reviewer[r].pc = "grant"
    <3>1. /\ queue[i].status /= "absent" /\ queue[i].hashed
          /\ reviewer'[r].pc = "grant" => Proposal[queue[i].work].routine
      BY <2>3, HeldIsThere DEF Supported
    <3> HIDE DEF i
    <3>2. queue'[i].work = queue[i].work /\ queue'[i].hashed
      BY <2>1, <2>2, <3>1, RowKeepsBacking
    <3>3. /\ queue'[i].hashed
          /\ reviewer'[r].pc = "grant" => Proposal[queue'[i].work].routine
      BY <3>1, <3>2
    <3> QED  BY <3>3 DEF i
  <2>4. CASE /\ queue'[i].hashed
             /\ reviewer'[r].pc = "grant" => Proposal[queue[i].work].routine
    <3> HIDE DEF i
    <3>1. queue[i].status /= "absent" => queue'[i].work = queue[i].work
      BY <2>1, <2>2, RowKeepsBacking
    <3>2. queue[i].status = "absent" => ~queue'[i].hashed \/ queue'[i].work = queue[i].work
      BY <2>2 DEF RowStep, Rests, MovesOn, Ruled
    <3>3. queue'[i].work = queue[i].work
      BY <2>4, <3>1, <3>2
    <3>4. /\ queue'[i].hashed
          /\ reviewer'[r].pc = "grant" => Proposal[queue'[i].work].routine
      BY <2>4, <3>3
    <3> QED  BY <3>4 DEF i
  <2> HIDE DEF i
  <2>5. ReviewerTakes(r) => \/ /\ reviewer[r].pc \in {"grant", "post"} /\ reviewer[r].row = i
                               /\ reviewer'[r].pc = "grant" => reviewer[r].pc = "grant"
                            \/ /\ queue'[i].hashed
                               /\ reviewer'[r].pc = "grant" =>
                                    Proposal[queue[i].work].routine
    BY <1>3 DEF ReviewerTakes, i
  <2> QED  BY <2>2, <2>3, <2>4, <2>5 DEF i
<1> QED  BY <1>1, <1>2, <1>3 DEF Supported

LEMMA SupportedIsHuman ==
  Supported /\ ResolutionIsChained => HumanBehindEveryRun
  BY DEF Supported, Backed, ResolutionIsChained, HumanBehindEveryRun

-----------------------------------------------------------------------------
(* Standing approvals                                                        *)

\* A class is granted by a reviewer that approved a queue-tier row of it.
StandingStep ==
  \A k \in standing' : k \in standing \/ \E r \in Reviewers :
    /\ reviewer[r].pc = "grant" /\ queue[reviewer[r].row].tier = "queue"
    /\ k = KeyOf(queue[reviewer[r].row].work)

LEMMA EveryStandingStep == [Next]_vars => StandingStep
<1> SUFFICES ASSUME [Next]_vars PROVE StandingStep
  OBVIOUS
<1>1. UNCHANGED standing => StandingStep
  BY DEF StandingStep
<1>2. ASSUME NEW d \in Deciders, DeciderStep(d) \/ DeciderDies(d)
      PROVE  UNCHANGED standing
  BY <1>2 DEF DeciderStep, ReconcileStaleExecuting, ReconcileStaleApproved, CheckLimits,
     ConsumeApproval, Route, EnqueueHitl, StartRun, MarkComplete, DeciderDies, files
<1>3. ASSUME NEW r \in Reviewers, GrantStanding(r)
      PROVE  StandingStep
  BY <1>3 DEF GrantStanding, StandingStep
<1>4. ASSUME NEW r \in Reviewers,
             PostManualRun(r) \/ SettlePushClaim(r) \/ ReleasePushClaim(r) \/ ReviewerDies(r)
      PROVE  UNCHANGED standing
  BY <1>4 DEF PostManualRun, SettlePushClaim, ReleasePushClaim, ReviewerDies, files
<1>5. ASSUME NEW k \in Keys, RevokeStanding(k)
      PROVE  StandingStep
  BY <1>5 DEF RevokeStanding, StandingStep
<1> QED
  BY <1>1, <1>2, <1>3, <1>4, <1>5 DEF Next, vars, files, Begin, RaiseHitl, Review,
     ReviewDies, ReviewerStep, LeaseElapses, TtlElapses

LEMMA AttestationStep ==
  ASSUME Safe, Supported, ResolutionIsChained, StandingIsAttested, StepFacts, StandingStep
  PROVE  StandingIsAttested'
<1> DEFINE Attests(i, k) == /\ queue[i].status /= "absent" /\ KeyOf(queue[i].work) = k
                            /\ queue[i].tier = "queue" /\ Proposal[queue[i].work].routine
                            /\ Chained(i, Approvals)
<1>1. ASSUME NEW k \in standing'
      PROVE  \E i \in Rows : Attests(i, k)
  <2>1. CASE k \in standing
    BY <2>1 DEF StandingIsAttested
  <2>2. ASSUME NEW r \in Reviewers, reviewer[r].pc = "grant",
               queue[reviewer[r].row].tier = "queue",
               k = KeyOf(queue[reviewer[r].row].work)
        PROVE  \E i \in Rows : Attests(i, k)
    BY <2>2, HeldIsThere DEF Supported, ResolutionIsChained
  <2> QED  BY <1>1, <2>1, <2>2 DEF StandingStep
<1>2. ASSUME NEW k \in standing', NEW i \in Rows, Attests(i, k)
      PROVE  /\ queue'[i].status /= "absent" /\ KeyOf(queue'[i].work) = k
             /\ queue'[i].tier = "queue" /\ Proposal[queue'[i].work].routine
             /\ \E n \in DOMAIN ledger'[i] : ledger'[i][n] \in Approvals
  <2>1. RowStep(i) /\ LedgerStep(i)
    BY DEF StepFacts
  <2>2. \E n \in DOMAIN ledger'[i] : ledger'[i][n] \in Approvals
    BY <1>2, <2>1, ChainGrows DEF Safe
  <2> QED  BY <1>2, <2>1, <2>2, RowKeepsBacking DEF KeyOf
<1> QED  BY <1>1, <1>2 DEF StandingIsAttested, Chained, KeyOf

-----------------------------------------------------------------------------
(* The owner's work                                                          *)

LEMMA OnlyRoutineIsFree ==
  ASSUME NEW w \in Work, NEW override, NEW ronin,
         ComputeTier(Proposal[w], override, ronin) \in {"auto", "queue"}
  PROVE  Proposal[w].routine /\ Proposal[w].reversible
<1>1. OwnerTier(Proposal[w], override) \in {"auto", "queue"}
  BY DEF ComputeTier
<1> QED  BY <1>1 DEF OwnerTier

\* Ronin mode takes nothing out of the hitl tier.
LEMMA RoninKeepsHitl ==
  ASSUME NEW p, NEW override, NEW ronin, ComputeTier(p, override, FALSE) = "hitl"
  PROVE  ComputeTier(p, override, ronin) = "hitl"
  BY DEF ComputeTier

IsFree(d) == decider[d].pc \in {"granted", "running"} /\ decider[d].row = NoRow

\* What decide() concluded about the proposal stays with the decider: routine
\* work only runs without a row, and hitl work is filed as such.
Routed ==
  \A d \in Deciders :
    /\ decider[d].pc = "enqueue" =>
         (ComputeTier(Proposal[decider[d].work], decider[d].override, FALSE) = "hitl"
            => decider[d].tier = "hitl")
    /\ IsFree(d) => /\ Proposal[decider[d].work].routine
                    /\ Proposal[decider[d].work].reversible

LEMMA RoutedDecider ==
  ASSUME TypeInv, Routed, NEW d \in Deciders, NEW me, decider' = [decider EXCEPT ![d] = me],
         me.pc = "enqueue" =>
           (ComputeTier(Proposal[me.work], me.override, FALSE) = "hitl" => me.tier = "hitl"),
         me.pc \in {"granted", "running"} /\ me.row = NoRow =>
           Proposal[me.work].routine /\ Proposal[me.work].reversible
  PROVE  Routed'
<1>1. \A e \in Deciders : decider'[e] = IF e = d THEN me ELSE decider[e]
  BY DEF TypeInv, TypeOK
<1> QED  BY <1>1 DEF Routed, IsFree

LEMMA RoutedStep ==
  ASSUME TypeInv, Routed, [Next]_vars
  PROVE  Routed'
<1>1. UNCHANGED decider => Routed'
  BY DEF Routed, IsFree
<1>2. \A d \in Deciders : decider[d] \in DeciderState
  BY DEF TypeInv, TypeOK
<1>3. ASSUME NEW d \in Deciders, NEW from, NEW to, Move(d, from, to),
             to \in {"ttl", "limits", "consume", "route"}
      PROVE  Routed'
  <2> DEFINE me == [decider[d] EXCEPT !.pc = to]
  <2>1. decider' = [decider EXCEPT ![d] = me] /\ me.pc = to
    BY <1>2, <1>3 DEF Move, DeciderState
  <2> HIDE DEF me
  <2> QED  BY <1>3, <2>1, RoutedDecider
<1>4. ASSUME NEW d \in Deciders, decider' = [decider EXCEPT ![d] = IdleDecider]
      PROVE  Routed'
  <2>1. IdleDecider.pc = "idle"
    BY DEF IdleDecider
  <2> QED  BY <1>4, <2>1, RoutedDecider
<1>5. ASSUME NEW d \in Deciders, NEW w \in Work, Begin(d, w)
      PROVE  Routed'
  <2>1. PICK t \in PolicyTiers :
          decider' = [decider EXCEPT ![d] = [IdleDecider EXCEPT
                        !.pc = "lease", !.work = w, !.override = t]]
    BY <1>5 DEF Begin
  <2> DEFINE me == [IdleDecider EXCEPT !.pc = "lease", !.work = w, !.override = t]
  <2>2. decider' = [decider EXCEPT ![d] = me] /\ me.pc = "lease"
    BY <2>1 DEF IdleDecider
  <2> HIDE DEF me
  <2> QED  BY <2>2, RoutedDecider
<1>6. ASSUME NEW d \in Deciders, ReconcileStaleExecuting(d) \/ ReconcileStaleApproved(d)
      PROVE  Routed'
  BY <1>3, <1>6 DEF ReconcileStaleExecuting, ReconcileStaleApproved
<1>7. ASSUME NEW d \in Deciders, CheckLimits(d)
      PROVE  Routed'
  <2>1. Return(d, "limits") \/ Move(d, "limits", "consume")
    BY <1>7 DEF CheckLimits
  <2> QED  BY <1>3, <1>4, <2>1 DEF Return
<1>8. ASSUME NEW d \in Deciders, ConsumeApproval(d)
      PROVE  Routed'
  <2>1. CASE Move(d, "consume", "route")
    BY <1>3, <2>1
  <2>2. ASSUME NEW i \in Rows,
               decider' = [decider EXCEPT ![d].pc = "granted", ![d].row = i]
        PROVE  Routed'
    <3> DEFINE me == [decider[d] EXCEPT !.pc = "granted", !.row = i]
    <3>1. decider' = [decider EXCEPT ![d] = me] /\ me.pc = "granted" /\ me.row = i
      BY <1>2, <2>2 DEF DeciderState
    <3>2. i /= NoRow
      OBVIOUS
    <3> HIDE DEF me
    <3> QED  BY <3>1, <3>2, RoutedDecider
  <2> QED  BY <1>8, <2>1, <2>2 DEF ConsumeApproval
<1>9. ASSUME NEW d \in Deciders, Route(d)
      PROVE  Routed'
  <2> DEFINE w == decider[d].work
  <2>1. w \in Work /\ decider[d].pc = "route"
    BY <1>9 DEF Route, Move, TypeInv, WellFormed
  <2>2. PICK ronin \in BOOLEAN :
          LET tier == ComputeTier(Proposal[w], decider[d].override, ronin)
              free == tier = "queue" /\ KeyOf(w) \in standing
          IN  \/ (tier = "auto" \/ free) /\ Move(d, "route", "granted")
              \/ /\ tier \in {"queue", "hitl"} /\ ~free
                 /\ decider' = [decider EXCEPT ![d].pc = "enqueue", ![d].tier = tier]
    BY <1>9 DEF Route
  <2> DEFINE tier == ComputeTier(Proposal[w], decider[d].override, ronin)
  <2>3. CASE tier \in {"auto", "queue"} /\ Move(d, "route", "granted")
    <3> DEFINE me == [decider[d] EXCEPT !.pc = "granted"]
    <3>1. decider' = [decider EXCEPT ![d] = me] /\ me.pc = "granted" /\ me.work = w
      BY <1>2, <2>3 DEF Move, DeciderState
    <3>2. Proposal[w].routine /\ Proposal[w].reversible
      BY <2>1, <2>3, OnlyRoutineIsFree
    <3> HIDE DEF me, w
    <3> QED  BY <3>1, <3>2, RoutedDecider
  <2>4. CASE decider' = [decider EXCEPT ![d].pc = "enqueue", ![d].tier = tier]
    <3> DEFINE me == [decider[d] EXCEPT !.pc = "enqueue", !.tier = tier]
    <3>1. /\ decider' = [decider EXCEPT ![d] = me] /\ me.pc = "enqueue"
          /\ me.work = w /\ me.override = decider[d].override /\ me.tier = tier
      BY <1>2, <2>4 DEF DeciderState
    <3>2. ComputeTier(Proposal[w], decider[d].override, FALSE) = "hitl" => tier = "hitl"
      BY RoninKeepsHitl
    <3> HIDE DEF me, w, tier
    <3> QED  BY <3>1, <3>2, RoutedDecider
  <2> QED  BY <2>2, <2>3, <2>4
<1>10. ASSUME NEW d \in Deciders, StartRun(d)
      PROVE  Routed'
  <2> DEFINE me == [decider[d] EXCEPT !.pc = "running"]
  <2>1. /\ decider' = [decider EXCEPT ![d] = me] /\ me.pc = "running"
        /\ me.work = decider[d].work /\ me.row = decider[d].row /\ decider[d].pc = "granted"
    BY <1>2, <1>10 DEF StartRun, Move, DeciderState
  <2>2. me.row = NoRow => /\ Proposal[decider[d].work].routine
                          /\ Proposal[decider[d].work].reversible
    BY <2>1 DEF Routed, IsFree
  <2> HIDE DEF me
  <2> QED  BY <2>1, <2>2, RoutedDecider
<1>11. ASSUME NEW d \in Deciders, EnqueueHitl(d) \/ MarkComplete(d) \/ DeciderDies(d)
      PROVE  Routed'
  BY <1>4, <1>11 DEF EnqueueHitl, MarkComplete, DeciderDies, Return
<1>12. ASSUME NEW r \in Reviewers, ReviewerStep(r) \/ ReviewerDies(r)
      PROVE  UNCHANGED decider
  BY <1>12 DEF ReviewerStep, GrantStanding, PostManualRun, SettlePushClaim,
     ReleasePushClaim, ReviewerDies
<1> QED
  BY <1>1, <1>5, <1>6, <1>7, <1>8, <1>9, <1>10, <1>11, <1>12
  DEF Next, DeciderStep, vars, RaiseHitl, Review, ReviewDies, RevokeStanding,
      LeaseElapses, TtlElapses

-----------------------------------------------------------------------------
(* Filing a proposal                                                         *)

NothingFiled ==
  \A i \in Rows : queue[i].status = "absent" => queue'[i].status = "absent"

\* enqueue_hitl, for a decider or for a caller of raise_hitl: work that
\* belongs to the hitl tier is filed there.
Filed ==
  \E w \in Work, override \in Overrides, tier \in {"queue", "hitl"} :
    /\ Enqueue(queue, w, override, tier, queue')
    /\ ComputeTier(Proposal[w], override, FALSE) = "hitl" => tier = "hitl"

LEMMA OneRowIsNotFiled ==
  ASSUME TypeInv, NEW i \in Rows, NEW row, queue' = [queue EXCEPT ![i] = row],
         queue[i].status /= "absent"
  PROVE  NothingFiled
  BY DEF TypeInv, TypeOK, NothingFiled

LEMMA FilingStep ==
  ASSUME TypeInv, Routed, [Next]_vars
  PROVE  NothingFiled \/ Filed
<1>1. UNCHANGED queue => NothingFiled
  BY DEF NothingFiled
<1>2. \A i \in Rows : queue[i] \in Row
  BY DEF TypeInv, TypeOK
<1>3. ASSUME NEW d \in Deciders, ReconcileStaleExecuting(d) \/ ReconcileStaleApproved(d)
      PROVE  NothingFiled
  <2>1. \A i \in Rows : queue'[i] \in {ExpireLease(queue[i]), Resurface(queue[i])}
    BY <1>3 DEF ReconcileStaleExecuting, ReconcileStaleApproved
  <2> QED  BY <1>2, <2>1, RowOperations DEF NothingFiled
<1>4. ASSUME NEW d \in Deciders, ConsumeApproval(d)
      PROVE  NothingFiled
  <2>1. ASSUME NEW i \in Rows,
               IsFirst(i, Consumable(queue, decider[d].work, decider[d].override)),
               queue' = [queue EXCEPT ![i] = Leased(@)]
        PROVE  NothingFiled
    <3>1. queue[i].status /= "absent"
      BY <2>1 DEF IsFirst, Consumable
    <3> QED  BY <2>1, <3>1, OneRowIsNotFiled
  <2> QED  BY <1>1, <1>4, <2>1 DEF ConsumeApproval
<1>5. ASSUME NEW d \in Deciders, EnqueueHitl(d)
      PROVE  Filed
  <2>1. decider[d].pc = "enqueue" /\ decider[d].work \in Work
    BY <1>5 DEF EnqueueHitl, Return, TypeInv, WellFormed
  <2>2. decider[d].tier \in {"queue", "hitl"} /\ decider[d].override \in Overrides
    BY DEF TypeInv, TypeOK, DeciderState
  <2> QED  BY <1>5, <2>1, <2>2 DEF EnqueueHitl, Filed, Routed
<1>6. ASSUME NEW d \in Deciders, MarkComplete(d)
      PROVE  NothingFiled
  <2>1. CASE decider[d].row = NoRow
    BY <1>1, <1>6, <2>1 DEF MarkComplete
  <2>2. CASE decider[d].row /= NoRow
    <3>1. decider[d].row \in Rows /\ queue[decider[d].row].status /= "absent"
      BY <2>2 DEF TypeInv, TypeOK, WellFormed, DeciderState
    <3>2. PICK failed \in BOOLEAN :
            queue' = [queue EXCEPT ![decider[d].row] = Completed(@, failed)]
      BY <1>6, <2>2 DEF MarkComplete
    <3> QED  BY <3>1, <3>2, OneRowIsNotFiled
  <2> QED  BY <2>1, <2>2
<1>7. ASSUME NEW w \in Work, RaiseHitl(w)
      PROVE  Filed
  BY <1>7 DEF RaiseHitl, Filed, Overrides
<1>8. ASSUME NEW r \in Reviewers, NEW i \in Rows, NEW action \in Actions,
             NEW push \in BOOLEAN, Review(r, i, action, push)
      PROVE  NothingFiled
  BY <1>8, OneRowIsNotFiled DEF Review, Reviewable, ReviewableFrom
<1>9. ASSUME NEW r \in Reviewers, SettlePushClaim(r) \/ ReleasePushClaim(r)
      PROVE  NothingFiled
  <2> DEFINE i == reviewer[r].row
  <2>1. i \in Rows /\ queue[i].status /= "absent"
    BY <1>9 DEF TypeInv, TypeOK, WellFormed, ReviewerState, SettlePushClaim,
                ReleasePushClaim
  <2>2. \/ UNCHANGED queue
        \/ \E row : queue' = [queue EXCEPT ![i] = row]
    BY <1>9 DEF SettlePushClaim, ReleasePushClaim
  <2> HIDE DEF i
  <2> QED  BY <1>1, <2>1, <2>2, OneRowIsNotFiled
<1>10. ASSUME NEW i \in Rows, LeaseElapses(i) \/ TtlElapses(i)
       PROVE  NothingFiled
  BY <1>10, OneRowIsNotFiled DEF LeaseElapses, TtlElapses
<1>11. ASSUME NEW d \in Deciders,
              CheckLimits(d) \/ Route(d) \/ StartRun(d) \/ DeciderDies(d)
       PROVE  UNCHANGED queue
  BY <1>11 DEF CheckLimits, Route, StartRun, DeciderDies, files
<1>12. ASSUME NEW r \in Reviewers,
              GrantStanding(r) \/ PostManualRun(r) \/ ReviewerDies(r)
       PROVE  UNCHANGED queue
  BY <1>12 DEF GrantStanding, PostManualRun, ReviewerDies, files
<1> QED
  BY <1>1, <1>3, <1>4, <1>5, <1>6, <1>7, <1>8, <1>9, <1>10, <1>11, <1>12
  DEF Next, DeciderStep, ReviewerStep, vars, files, Begin, ReviewDies, RevokeStanding

\* A row that is filed repeats no pending row of its tier.
NoTwin(i) ==
  \A j \in Rows :
    j /= i /\ queue[j].status = "pending" /\ queue[j].work = queue'[i].work
      => queue[j].tier /= queue'[i].tier

LEMMA FiledHasNoTwin ==
  ASSUME TypeInv, Filed, NEW i \in Rows,
         queue[i].status = "absent", queue'[i].status /= "absent"
  PROVE  NoTwin(i) /\ \A j \in Rows : j /= i => queue'[j] = queue[j]
<1>1. PICK w \in Work, override \in Overrides, tier \in {"queue", "hitl"} :
        /\ Enqueue(queue, w, override, tier, queue')
        /\ ComputeTier(Proposal[w], override, FALSE) = "hitl" => tier = "hitl"
  BY DEF Filed
<1>2. /\ PendingMatches(queue, w, override) = {}
      /\ \E f \in FreeRows(queue) : queue' = [queue EXCEPT ![f] = NewRow(w, tier)]
  BY <1>1 DEF Enqueue
<1>3. PICK f \in FreeRows(queue) : queue' = [queue EXCEPT ![f] = NewRow(w, tier)]
  BY <1>2
<1>4. f \in Rows /\ queue'[f] = NewRow(w, tier)
      /\ \A j \in Rows : j /= f => queue'[j] = queue[j]
  BY <1>3 DEF FreeRows, TypeInv, TypeOK
<1>5. f = i
  BY <1>4
<1>6. NewRow(w, tier).work = w
      /\ NewRow(w, tier).tier = IF Proposal[w].routine THEN tier ELSE "hitl"
  BY DEF NewRow, BlankRow
<1>7. ASSUME NEW j \in Rows, j /= i,
             queue[j].status = "pending", queue[j].work = w
      PROVE  queue[j].tier = "queue" /\ NewRow(w, tier).tier = "hitl"
  <2>1. ComputeTier(Proposal[w], override, FALSE) = "hitl" /\ queue[j].tier /= "hitl"
    BY <1>2, <1>7 DEF PendingMatches, Matches
  <2>2. queue[j].tier \in {"queue", "hitl"}
    BY DEF TypeInv, TypeOK, Row
  <2> QED  BY <1>1, <1>6, <2>1, <2>2
<1> QED  BY <1>4, <1>5, <1>6, <1>7 DEF NoTwin

LEMMA TwinStep ==
  ASSUME TypeInv, StepFacts, NothingFiled \/ Filed, NoDuplicatePending
  PROVE  NoDuplicatePending'
<1> SUFFICES ASSUME NEW i \in Rows, NEW j \in Rows, i /= j,
                    queue'[i].status = "pending", queue'[j].status = "pending",
                    queue'[i].work = queue'[j].work
             PROVE  queue'[i].tier /= queue'[j].tier
  BY DEF NoDuplicatePending
<1>1. \A k \in {i, j} : queue[k].status = "absent" \/ Rests(queue[k], queue'[k])
  BY DEF StepFacts, RowStep, Ruled, MovesOn, Approvals, Denials
<1>2. CASE queue[i].status = "absent"
  BY <1>1, <1>2, FiledHasNoTwin DEF NothingFiled, NoTwin
<1>3. CASE queue[j].status = "absent"
  BY <1>1, <1>3, FiledHasNoTwin DEF NothingFiled, NoTwin
<1>4. CASE Rests(queue[i], queue'[i]) /\ Rests(queue[j], queue'[j])
  BY <1>4 DEF Rests, NoDuplicatePending
<1> QED  BY <1>1, <1>2, <1>3, <1>4

-----------------------------------------------------------------------------
(* Policy                                                                    *)

PolicyIInv ==
  /\ Safe /\ Supported /\ Routed
  /\ ResolutionIsChained /\ StandingIsAttested /\ NoDuplicatePending

LEMMA PolicyInit == Init => PolicyIInv
<1> SUFFICES ASSUME Init PROVE PolicyIInv
  OBVIOUS
<1>1. /\ \A d \in Deciders : decider[d].row = NoRow /\ decider[d].pc = "idle"
      /\ \A r \in Reviewers : reviewer[r].pc = "idle"
  BY DEF Init, IdleDecider, IdleReviewer
<1>2. Supported
  <2>1. \A i \in Rows : runs[i] = 0
    BY FirstRows
  <2>2. \A i \in Rows : ~(runs[i] > 0)
    BY <2>1
  <2> QED  BY <1>1, <2>2 DEF Supported
<1>3. Routed
  BY <1>1 DEF Routed, IsFree
<1>4. ResolutionIsChained /\ NoDuplicatePending
  BY FirstRows DEF ResolutionIsChained, NoDuplicatePending, Denials
<1>5. StandingIsAttested
  BY DEF Init, StandingIsAttested
<1> QED  BY <1>2, <1>3, <1>4, <1>5, SafeInit DEF PolicyIInv

LEMMA PolicyStep == PolicyIInv /\ [Next]_vars => PolicyIInv'
<1> SUFFICES ASSUME PolicyIInv, [Next]_vars PROVE PolicyIInv'
  OBVIOUS
<1>1. Safe' /\ TypeInv' /\ TypeInv
  BY SafeStep DEF PolicyIInv, Safe
<1>2. StepFacts
  BY <1>1, EveryStep
<1>3. Supported'
  BY <1>1, <1>2, SupportStep DEF PolicyIInv
<1>4. Routed'
  BY <1>1, RoutedStep DEF PolicyIInv
<1>5. ResolutionIsChained'
  BY <1>1, <1>2, ChainingStep DEF PolicyIInv
<1>6. StandingIsAttested'
  BY <1>2, EveryStandingStep, AttestationStep DEF PolicyIInv
<1>7. NoDuplicatePending'
  BY <1>1, <1>2, FilingStep, TwinStep DEF PolicyIInv
<1> QED  BY <1>1, <1>3, <1>4, <1>5, <1>6, <1>7 DEF PolicyIInv

LEMMA PolicyFollows == PolicyIInv => PolicyInv
<1>1. Routed => OwnerWorkNeedsARow
  BY DEF Routed, IsFree, OwnerWorkNeedsARow
<1> QED  BY <1>1, SupportedIsHuman DEF PolicyIInv, PolicyInv

\* Whatever the skill table, ronin mode and the standing approvals become
\* while calls are under way, owner-decided work runs only on a row, every run
\* has the human's word behind it on the record, a class stands only because a
\* member of it was approved, and no proposal is shown twice
\* (agentica_core/bushido_engine.py:1498-1574).
THEOREM PolicyHolds == Spec => []PolicyInv
  BY PolicyInit, PolicyStep, PolicyFollows, PTL DEF Spec

-----------------------------------------------------------------------------
(* The queue implements Approval                                             *)

\* What counts for the life of request i.
Turns(i) ==
  \/ queue[i].status \in Unreviewed /\ queue'[i].status /= queue[i].status
  \/ runs'[i] /= runs[i]

\* Where a request goes in one step, if it goes anywhere.
Advances(from, to) ==
  \/ from = "unasked" /\ to = "asked"
  \/ from = "asked" /\ to \in {"granted", "denied"}
  \/ from = "granted" /\ to = "spent"

RunGrows(i) == runs'[i] \in {runs[i], runs[i] + 1}

\* No step turns two rows.
OneTurns == \A i, j \in Rows : Turns(i) /\ Turns(j) => i = j

LEMMA OneRowTurns ==
  ASSUME TypeInv, NEW i \in Rows, NEW row, queue' = [queue EXCEPT ![i] = row],
         UNCHANGED runs
  PROVE  OneTurns
<1>1. \A j \in Rows : j /= i => queue'[j] = queue[j]
  BY DEF TypeInv, TypeOK
<1> QED  BY <1>1 DEF OneTurns, Turns

LEMMA CountTurns ==
  ASSUME TypeInv, UNCHANGED queue, NEW i \in Rows \union {NoRow},
         UNCHANGED runs \/ CountRun(i)
  PROVE  OneTurns /\ \A j \in Rows : RunGrows(j)
<1>1. runs \in [Rows -> Nat]
  BY DEF TypeInv, TypeOK
<1>2. UNCHANGED runs \/ (i \in Rows /\ runs' = [runs EXCEPT ![i] = @ + 1])
  BY DEF CountRun
<1> QED  BY <1>1, <1>2 DEF OneTurns, Turns, RunGrows

LEMMA TurnStep ==
  ASSUME TypeInv, [Next]_vars
  PROVE  OneTurns /\ \A i \in Rows : RunGrows(i)
<1>1. UNCHANGED runs => \A i \in Rows : RunGrows(i)
  BY DEF RunGrows
<1>2. UNCHANGED <<queue, runs>> => OneTurns
  BY DEF OneTurns, Turns
<1>3. \A i \in Rows : queue[i] \in Row
  BY DEF TypeInv, TypeOK
<1>4. ASSUME NEW d \in Deciders, ReconcileStaleExecuting(d) \/ ReconcileStaleApproved(d)
      PROVE  OneTurns /\ UNCHANGED runs
  <2>1. \A i \in Rows : queue'[i] \in {ExpireLease(queue[i]), Resurface(queue[i])}
    BY <1>4 DEF ReconcileStaleExecuting, ReconcileStaleApproved
  <2>2. \A i \in Rows : queue[i].status \in Unreviewed => queue'[i] = queue[i]
    BY <2>1 DEF ExpireLease, Resurface, Unreviewed
  <2>3. UNCHANGED runs
    BY <1>4 DEF ReconcileStaleExecuting, ReconcileStaleApproved
  <2> QED  BY <2>2, <2>3 DEF OneTurns, Turns
<1>5. ASSUME NEW d \in Deciders, ConsumeApproval(d)
      PROVE  OneTurns /\ UNCHANGED runs
  BY <1>2, <1>5, OneRowTurns DEF ConsumeApproval
<1>6. ASSUME NEW w, NEW override, NEW tier, Enqueue(queue, w, override, tier, queue'),
             UNCHANGED runs
      PROVE  OneTurns
  BY <1>2, <1>6, OneRowTurns DEF Enqueue, FreeRows
<1>7. ASSUME NEW d \in Deciders, EnqueueHitl(d)
      PROVE  OneTurns /\ UNCHANGED runs
  BY <1>6, <1>7 DEF EnqueueHitl
<1>8. ASSUME NEW w \in Work, RaiseHitl(w)
      PROVE  OneTurns /\ UNCHANGED runs
  BY <1>6, <1>8 DEF RaiseHitl
<1>9. ASSUME NEW d \in Deciders, MarkComplete(d)
      PROVE  OneTurns /\ UNCHANGED runs
  <2>1. decider[d].row \in Rows \union {NoRow} /\ UNCHANGED runs
    BY <1>9 DEF TypeInv, TypeOK, DeciderState, MarkComplete
  <2>2. \/ UNCHANGED queue
        \/ /\ decider[d].row \in Rows
           /\ \E row : queue' = [queue EXCEPT ![decider[d].row] = row]
    BY <1>9, <2>1 DEF MarkComplete
  <2> QED  BY <1>2, <2>1, <2>2, OneRowTurns
<1>10. ASSUME NEW r \in Reviewers, SettlePushClaim(r) \/ ReleasePushClaim(r)
       PROVE  OneTurns /\ UNCHANGED runs
  <2> DEFINE i == reviewer[r].row
  <2>1. i \in Rows /\ UNCHANGED runs
    BY <1>10 DEF TypeInv, TypeOK, WellFormed, ReviewerState, SettlePushClaim,
                 ReleasePushClaim
  <2>2. \/ UNCHANGED queue
        \/ \E row : queue' = [queue EXCEPT ![i] = row]
    BY <1>10 DEF SettlePushClaim, ReleasePushClaim
  <2> HIDE DEF i
  <2> QED  BY <1>2, <2>1, <2>2, OneRowTurns
<1>11. ASSUME NEW d \in Deciders, StartRun(d)
       PROVE  OneTurns /\ \A i \in Rows : RunGrows(i)
  <2>1. decider[d].row \in Rows \union {NoRow}
    BY DEF TypeInv, TypeOK, DeciderState
  <2> QED  BY <1>11, <2>1, CountTurns DEF StartRun, files
<1>12. ASSUME NEW r \in Reviewers, PostManualRun(r)
       PROVE  OneTurns /\ \A i \in Rows : RunGrows(i)
  <2>1. reviewer[r].row \in Rows \union {NoRow}
    BY DEF TypeInv, TypeOK, ReviewerState
  <2> QED  BY <1>12, <2>1, CountTurns DEF PostManualRun, files
<1>13. ASSUME NEW d \in Deciders, CheckLimits(d) \/ Route(d) \/ DeciderDies(d)
       PROVE  UNCHANGED <<queue, runs>>
  BY <1>13 DEF CheckLimits, Route, DeciderDies, files
<1>14. ASSUME NEW r \in Reviewers, GrantStanding(r) \/ ReviewerDies(r)
       PROVE  UNCHANGED <<queue, runs>>
  BY <1>14 DEF GrantStanding, ReviewerDies, files
<1>15. ASSUME NEW r \in Reviewers, NEW i \in Rows, NEW action \in Actions,
             NEW push \in BOOLEAN, Review(r, i, action, push)
      PROVE  OneTurns /\ UNCHANGED runs
  BY <1>15, OneRowTurns DEF Review
<1>16. ASSUME NEW i \in Rows, LeaseElapses(i) \/ TtlElapses(i)
       PROVE  OneTurns /\ UNCHANGED runs
  BY <1>16, OneRowTurns DEF LeaseElapses, TtlElapses
<1> QED
  BY <1>1, <1>2, <1>4, <1>5, <1>7, <1>8, <1>9, <1>10, <1>11, <1>12, <1>13, <1>14,
     <1>15, <1>16
  DEF Next, DeciderStep, ReviewerStep, vars, files, Begin, ReviewDies, RevokeStanding

\* The stage as the refinement mapping gives it, before and after a step.
LEMMA StageAdvances ==
  ASSUME Safe, StepFacts, NEW i \in Rows, RunGrows(i)
  PROVE  /\ StageOf(i)' = StageOf(i) \/ (Turns(i) /\ Advances(StageOf(i), StageOf(i)'))
<1>1. RowStep(i) /\ RunStarts(i)
  BY DEF StepFacts
<1>2. runs[i] \in Nat /\ runs'[i] \in {runs[i], runs[i] + 1}
  BY DEF RunGrows, Safe, TypeInv, TypeOK
<1>3. CASE runs[i] > 0
  <2>1. runs'[i] > 0
    BY <1>2, <1>3
  <2> QED  BY <1>3, <2>1 DEF StageOf
<1>4. CASE runs[i] = 0 /\ runs'[i] > 0
  <2>1. queue[i].status \notin Unclaimed \/ queue[i].status = "approved"
    BY <1>1, <1>4 DEF RunStarts, Safe, UnclaimedIsFree, Free, Posting
  <2>2. StageOf(i) = "granted"
    BY <1>4, <2>1 DEF StageOf, Unclaimed, Denials
  <2>3. StageOf(i)' = "spent" /\ Turns(i)
    BY <1>4 DEF StageOf, Turns
  <2> QED  BY <2>2, <2>3 DEF Advances
<1>5. CASE runs[i] = 0 /\ runs'[i] = 0
  <2> DEFINE Named(status) ==
               CASE status = "absent"   -> "unasked"
                 [] status = "pending"  -> "asked"
                 [] status \in Denials  -> "denied"
                 [] OTHER               -> "granted"
  <2>1. StageOf(i) = Named(queue[i].status) /\ StageOf(i)' = Named(queue'[i].status)
    BY <1>5 DEF StageOf
  <2>2. (\E d \in Deciders : decider[d].row = i) => queue[i].status \notin Unclaimed
    BY DEF Safe, UnclaimedIsFree, Free
  <2>3. \/ Named(queue'[i].status) = Named(queue[i].status)
        \/ queue[i].status = "absent" /\ queue'[i].status = "pending"
        \/ /\ queue[i].status = "pending"
           /\ queue'[i].status \in Approvals \union Denials
    BY <1>1, <2>2 DEF RowStep, Rests, MovesOn, Ruled, Unclaimed, Denials, Approvals
  <2>4. queue[i].status = "absent" /\ queue'[i].status = "pending" =>
          Turns(i) /\ Advances(Named(queue[i].status), Named(queue'[i].status))
    BY DEF Turns, Unreviewed, Advances, Denials
  <2>5. queue[i].status = "pending" /\ queue'[i].status \in Approvals \union Denials =>
          Turns(i) /\ Advances(Named(queue[i].status), Named(queue'[i].status))
    BY DEF Turns, Unreviewed, Advances, Denials, Approvals
  <2> HIDE DEF Named
  <2> QED  BY <2>1, <2>3, <2>4, <2>5
<1> QED  BY <1>2, <1>3, <1>4, <1>5

StageMap == [i \in Rows |-> StageOf(i)]

LEMMA StageInit == Init => A!Init
<1> SUFFICES ASSUME Init PROVE StageMap \in [Rows -> {"unasked", "granted"}]
  BY DEF A!Init, StageMap
<1>1. ASSUME NEW i \in Rows
      PROVE  StageOf(i) \in {"unasked", "granted"}
  <2>1. runs[i] = 0 /\ queue[i].status \in {"absent", "approved"}
    BY FirstRows
  <2>2. ~(runs[i] > 0)
    BY <2>1
  <2> QED  BY <2>1, <2>2 DEF StageOf, Denials
<1> QED  BY <1>1 DEF StageMap

LEMMA StageStep ==
  ASSUME Safe, StepFacts, OneTurns, \A i \in Rows : RunGrows(i)
  PROVE  A!Next \/ UNCHANGED StageMap
<1>1. \A i \in Rows : StageOf(i)' = StageOf(i)
                        \/ (Turns(i) /\ Advances(StageOf(i), StageOf(i)'))
  BY StageAdvances
<1>2. CASE \A i \in Rows : StageOf(i)' = StageOf(i)
  BY <1>2 DEF StageMap
<1>3. ASSUME NEW i \in Rows, StageOf(i)' /= StageOf(i)
      PROVE  A!Next
  <2>1. Turns(i) /\ Advances(StageOf(i), StageOf(i)')
    BY <1>1, <1>3
  <2>2. \A j \in Rows : j /= i => StageOf(j)' = StageOf(j)
    BY <1>1, <2>1 DEF OneTurns
  <2>3. StageMap[i] = StageOf(i)
    BY DEF StageMap
  <2>4. StageMap' = [StageMap EXCEPT ![i] = StageOf(i)']
    BY <2>2 DEF StageMap
  <2> QED
    BY <2>1, <2>3, <2>4
    DEF A!Next, A!Ask, A!Grant, A!Deny, A!Spend, A!Advance, Advances, StageMap
<1> QED  BY <1>2, <1>3

\* Through every interleaving of deciders, reviewers, deaths and clocks the
\* rows of the queue live the life Approval promises: asked once, decided
\* once, spent at most once (agentica_core/bushido_engine.py:963-1574).
THEOREM QueueImplementsApproval == Spec => ImplementsApproval
<1>1. Safe /\ [Next]_vars => [A!Next]_StageMap
  <2> SUFFICES ASSUME Safe, [Next]_vars PROVE A!Next \/ UNCHANGED StageMap
    OBVIOUS
  <2>1. TypeInv
    BY DEF Safe
  <2> QED  BY <2>1, EveryStep, TurnStep, StageStep
<1>2. Init => A!Init
  BY StageInit
<1> QED  BY <1>1, <1>2, AlwaysSafe, PTL DEF Spec, ImplementsApproval, A!Spec, StageMap
=============================================================================
