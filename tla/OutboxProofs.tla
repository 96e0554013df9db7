---------------------------- MODULE OutboxProofs ----------------------------
(* Proofs about drafts and outgoing mail for all drafts, accounts, bounds   *)
(* and delays.  IInv and DInv, of module OutboxProperties, are the inductive *)
(* invariants: of the queue, and of the copies of drafts.                    *)
EXTENDS OutboxProperties, TLAPS

USE NullAssumption, AttemptsAssumption, LimitAssumption, DelaysAssumption,
    BoundsAssumption

(* The initial state has no rows, no command and an idle drain. *)
LEMMA InitIInv == Init => IInv
BY DEF Init, IInv, TypeOK, IdsAreFresh, RowsAreRegular, DrainControl, BatchFollowsTable,
       TakenIsAccountedFor, SaveSawTheTable, OneUploadRowPerDraft, SentMailIsNeverLost,
       NewsPending

(* list_due copies rows of the table that are alive. *)
LEMMA ListDueCopies ==
    ASSUME NEW t, NEW n
    PROVE  /\ DOMAIN ListDue(t, n) \subseteq DOMAIN t
           /\ \A i \in DOMAIN ListDue(t, n) : ListDue(t, n)[i] = t[i] /\ ~IsDead(t[i])
BY DEF ListDue, IsDue, IsDead

(* Adding one at a point of a function into Nat. *)
LEMMA CountUp ==
    ASSUME NEW S, NEW f \in [S -> Nat], NEW x
    PROVE  [f EXCEPT ![x] = @ + 1] \in [S -> Nat]
<1>1. \A y \in S : f[y] \in Nat /\ f[y] + 1 \in Nat
    OBVIOUS
<1>2. [f EXCEPT ![x] = @ + 1] = [y \in S |-> IF y = x THEN f[x] + 1 ELSE f[y]]
    OBVIOUS
<1> QED
    BY <1>1, <1>2

(* The statements on a table of rows leave a table of rows. *)
LEMMA TableTypes ==
    ASSUME NEW t, t \in [DOMAIN t -> Rows], DOMAIN t \subseteq Nat,
           NEW id \in Nat, NEW n \in Nat
    PROVE  /\ \A row \in Rows :
                 Insert(t, id, row) \in [DOMAIN t \cup {id} -> Rows]
           /\ Delete(t, id) \in [DOMAIN t \ {id} -> Rows]
           /\ \A d \in Drafts, v \in Nat :
                 Overwrite(t, id, Payload(d, v), n) \in [DOMAIN t -> Rows]
           /\ \A prev \in Nat, delay \in Delays :
                 RecordFailure(t, id, prev, n, delay) \in [DOMAIN t -> Rows]
<1>1. \A row \in Rows : Insert(t, id, row) \in [DOMAIN t \cup {id} -> Rows]
    BY DEF Insert
<1>2. Delete(t, id) \in [DOMAIN t \ {id} -> Rows]
    BY DEF Delete
<1>3. ASSUME NEW d \in Drafts, NEW v \in Nat
      PROVE  Overwrite(t, id, Payload(d, v), n) \in [DOMAIN t -> Rows]
  <2>1. CASE id \notin DOMAIN t
      BY <2>1 DEF Overwrite
  <2>2. CASE id \in DOMAIN t
    <3>1. t[id] \in Rows
        BY <2>2
    <3>2. [t[id] EXCEPT !.payload = Payload(d, v), !.attempts = 0, !.next = n] \in Rows
        BY <3>1 DEF Rows, Payload
    <3>3. Overwrite(t, id, Payload(d, v), n) =
             [t EXCEPT ![id] = [t[id] EXCEPT !.payload = Payload(d, v), !.attempts = 0,
                                             !.next = n]]
        BY <2>2, <3>1 DEF Overwrite, Rows
    <3> QED
        BY <3>2, <3>3
  <2> QED
      BY <2>1, <2>2
<1>4. ASSUME NEW prev \in Nat, NEW delay \in Delays
      PROVE  RecordFailure(t, id, prev, n, delay) \in [DOMAIN t -> Rows]
  <2>1. CASE id \notin DOMAIN t
      BY <2>1 DEF RecordFailure
  <2>2. CASE id \in DOMAIN t
    <3> DEFINE nx == IF prev + 1 >= MaxAttempts THEN NULL ELSE n + delay
    <3>1. t[id] \in Rows /\ nx \in Nat \cup {NULL}
      <4>1. delay \in Nat
          OBVIOUS
      <4>2. n + delay \in Nat
          BY <4>1
      <4> QED
          BY <2>2, <4>2
    <3> HIDE DEF nx
    <3>2. [t[id] EXCEPT !.attempts = @ + 1, !.next = nx] \in Rows
      <4> DEFINE tried == t[id].attempts + 1
      <4>1. tried \in Nat
          BY <3>1 DEF Rows
      <4> HIDE DEF tried
      <4>2. [t[id] EXCEPT !.attempts = tried, !.next = nx] \in Rows
          BY <3>1, <4>1 DEF Rows
      <4> QED
          BY <4>2 DEF tried
    <3>3. RecordFailure(t, id, prev, n, delay) =
             [t EXCEPT ![id] = [t[id] EXCEPT !.attempts = @ + 1, !.next = nx]]
      <4>1. RecordFailure(t, id, prev, n, delay) =
               [t EXCEPT ![id].attempts = @ + 1, ![id].next = nx]
          BY <2>2 DEF RecordFailure, nx
      <4> QED
          BY <2>2, <3>1, <4>1 DEF Rows
    <3> QED
        BY <3>2, <3>3
  <2> QED
      BY <2>1, <2>2
<1> QED
    BY <1>1, <1>2, <1>3, <1>4

(* Every step keeps the tables, the registers and the server's state typed. *)
LEMMA TypeStep == IInv /\ [Next]_vars => TypeOK'
<1> SUFFICES ASSUME IInv, [Next]_vars
             PROVE  TypeOK'
    OBVIOUS
<1>0. TypeOK /\ IdsAreFresh /\ DrainControl /\ BatchFollowsTable /\ RowsAreRegular
    BY DEF IInv
<1> USE <1>0 DEF TypeOK, tableVars, localVars, drainVars, serverVars
<1>1. CASE Tick
    BY <1>1 DEF Tick
<1>2. ASSUME NEW d \in Drafts, NEW a \in Accounts, NEW to \in BOOLEAN, SaveUpsert(d, a, to)
      PROVE  TypeOK'
  <2>1. version' \in [Drafts -> Nat]
      BY <1>2, CountUp DEF SaveUpsert
  <2>2. version[d] + 1 \in Nat
      OBVIOUS
  <2>3. drafts' \in [Drafts -> DraftRows \cup {NULL}]
    <3>1. CASE drafts[d] = NULL
        BY <1>2, <2>2, <3>1 DEF SaveUpsert, DraftRows
    <3>2. CASE drafts[d] # NULL
      <4>1. drafts[d] \in DraftRows
          BY <3>2
      <4>2. [drafts[d] EXCEPT !.account = a, !.ver = version[d] + 1, !.to = to] \in DraftRows
          BY <2>2, <4>1 DEF DraftRows
      <4> QED
          BY <1>2, <3>2, <4>2 DEF SaveUpsert
    <3> QED
        BY <3>1, <3>2
  <2>4. cmd' \in Commands \cup {NULL}
      BY <1>2, <2>2 DEF SaveUpsert, Commands
  <2> QED
      BY <1>2, <2>1, <2>3, <2>4 DEF SaveUpsert
<1>3. CASE SaveLookup
  <2> DEFINE found == WithKey(outbox, cmd.account, "save_draft", cmd.draft)
  <2>1. cmd \in Commands
      BY <1>3 DEF SaveLookup
  <2>a. found \subseteq Nat
    <3>1. found \subseteq DOMAIN outbox
        BY DEF WithKey
    <3> QED
        BY <3>1
  <2> HIDE DEF found
  <2>2. ASSUME cmd' = [cmd EXCEPT !.stmt = "write"]
        PROVE  cmd' \in Commands
      BY <2>1, <2>2 DEF Commands
  <2>3. ASSUME NEW i \in found, cmd' = [cmd EXCEPT !.stmt = "write", !.row = i]
        PROVE  cmd' \in Commands
    <3>1. i \in Nat
        BY <2>a
    <3> QED
        BY <2>1, <2>3, <3>1 DEF Commands
  <2>4. cmd' \in Commands
      BY <1>3, <2>2, <2>3 DEF SaveLookup, found
  <2> QED
      BY <1>3, <2>4 DEF SaveLookup
<1>4. CASE SaveWrite
  <2> DEFINE p == Payload(cmd.draft, cmd.ver)
  <2>1. cmd \in Commands
      BY <1>4 DEF SaveWrite
  <2>2. outbox' \in [DOMAIN outbox' -> Rows] /\ DOMAIN outbox' \subseteq Nat /\ nextId' \in Nat
    <3>1. CASE cmd.row = NULL
      <4>1. FreshRow(cmd.account, "save_draft", p, cmd.draft, now) \in Rows
          BY <2>1 DEF FreshRow, Payload, Rows, Commands
      <4>2. Insert(outbox, nextId, FreshRow(cmd.account, "save_draft", p, cmd.draft, now))
               \in [DOMAIN outbox \cup {nextId} -> Rows]
          BY <4>1, TableTypes
      <4> QED
          BY <1>4, <3>1, <4>2 DEF SaveWrite
    <3>2. CASE cmd.row # NULL
      <4>1. cmd.draft \in Drafts /\ cmd.ver \in Nat /\ cmd.row \in Nat
          BY <2>1, <3>2 DEF Commands
      <4>2. Overwrite(outbox, cmd.row, p, now) \in [DOMAIN outbox -> Rows]
          BY <4>1, TableTypes
      <4> QED
          BY <1>4, <3>2, <4>2 DEF SaveWrite
    <3> QED
        BY <3>1, <3>2
  <2>3. queued' \in [Drafts -> Nat]
      BY <1>4, <2>1 DEF SaveWrite, Commands
  <2> QED
      BY <1>4, <2>2, <2>3 DEF SaveWrite
<1>5. CASE SaveEnqueueFails
    BY <1>5 DEF SaveEnqueueFails, Mishap
<1>6. ASSUME NEW d \in Drafts, SendEnqueue(d)
      PROVE  TypeOK'
    BY <1>6 DEF SendEnqueue, Insert, FreshRow, Payload, Rows, DraftRows, Commands
<1>7. CASE SendDeleteDraft
    BY <1>7 DEF SendDeleteDraft, Commands
<1>8. CASE SendDeleteFails
    BY <1>8 DEF SendDeleteFails, Mishap
<1>9. ASSUME NEW d \in Drafts, DraftsDelete(d)
      PROVE  TypeOK'
    BY <1>9 DEF DraftsDelete
<1>10. CASE DrainTick
    BY <1>10, ListDueCopies DEF DrainTick, Begin, ListDue
<1>11. CASE DispatchFails
    BY <1>11 DEF DispatchFails, Replies
<1>12. CASE Submit
  <2>1. accepted' \in [DOMAIN accepted -> Nat]
      BY <1>12, CountUp DEF Submit
  <2> QED
      BY <1>12, <2>1 DEF Submit, Replies
<1>13. CASE SubmitReplyLost
  <2>1. accepted' \in [DOMAIN accepted -> Nat] /\ lost' \in [DOMAIN accepted -> Nat]
      BY <1>13, CountUp DEF SubmitReplyLost
  <2> QED
      BY <1>13, <2>1 DEF SubmitReplyLost, Replies, Mishap
<1>14. CASE ReadServerId
    BY <1>14 DEF ReadServerId, Rows, DraftRows, DrainControl
<1>15. ASSUME pc = "upload"
       PROVE  NewCopy \in [draft : Drafts, id : CopyIds]
  <2>1. batch[cur] \in Rows
      BY <1>15 DEF DrainControl
  <2> QED
      BY <2>1 DEF NewCopy, CopyIds, Rows
<1>16. CASE UploadAndDestroy \/ UploadOnly \/ UploadDestroyFails
  <2>1. NewCopy \in [draft : Drafts, id : CopyIds] /\ NewCopy.id \in CopyIds
      BY <1>15, <1>16 DEF UploadAndDestroy, UploadOnly, UploadDestroyFails, Upload
  <2> HIDE DEF NewCopy
  <2>2. CASE UploadAndDestroy
      BY <2>1, <2>2 DEF UploadAndDestroy, Upload
  <2>3. CASE UploadOnly
      BY <2>1, <2>3 DEF UploadOnly, Upload
  <2>4. CASE UploadDestroyFails
      BY <2>1, <2>4 DEF UploadDestroyFails, Upload, Mishap
  <2> QED
      BY <1>16, <2>2, <2>3, <2>4
<1>17. CASE UploadReplyLost
  <2>1. NewCopy \in [draft : Drafts, id : CopyIds]
      BY <1>15, <1>17 DEF UploadReplyLost
  <2> QED
      BY <1>17, <2>1 DEF UploadReplyLost, Mishap, Replies
<1>26. CASE RecordServerId
  <2> DEFINE d == batch[cur].payload.draft
  <2>1. CASE drafts[d] = NULL
      BY <1>26, <2>1 DEF RecordServerId, Replies
  <2>2. CASE drafts[d] # NULL
    <3>1. batch[cur] \in Rows
        BY <1>26 DEF RecordServerId, DrainControl
    <3>2. d \in Drafts
        BY <3>1 DEF Rows
    <3>3. [drafts[d] EXCEPT !.server = copyId] \in DraftRows
        BY <2>2, <3>2 DEF DraftRows
    <3>4. drafts' = [drafts EXCEPT ![d] = [drafts[d] EXCEPT !.server = copyId]]
        BY <1>26, <2>2 DEF RecordServerId
    <3> QED
        BY <1>26, <3>2, <3>3, <3>4 DEF RecordServerId, Replies
  <2> QED
      BY <2>1, <2>2
<1>18. CASE RecordServerIdFails
    BY <1>18 DEF RecordServerIdFails, Replies, Mishap
<1>19. ASSUME NextRow, pc # "idle"
       PROVE  /\ batch' \in [DOMAIN batch' -> Rows] /\ DOMAIN batch' \subseteq Nat
              /\ cur' \in Nat \cup {NULL} /\ pc' \in {"idle", "dispatch"}
              /\ reply' = NULL /\ prior' = NULL /\ copyId' = NULL
  <2>1. CASE Idle
      BY <1>19, <2>1 DEF NextRow, Idle
  <2>2. CASE Begin(Delete(batch, cur))
    <3>1. Delete(batch, cur) \in [DOMAIN batch \ {cur} -> Rows]
        BY DEF Delete
    <3> QED
        BY <1>19, <2>2, <3>1 DEF NextRow, Begin
  <2> QED
      BY <1>19, <2>1, <2>2 DEF NextRow
<1>20. CASE SettleSent
  <2>1. outbox' \in [DOMAIN outbox' -> Rows] /\ DOMAIN outbox' \subseteq Nat
      BY <1>20 DEF SettleSent, Delete
  <2> QED
      BY <1>20, <2>1, <1>19 DEF SettleSent
<1>21. ASSUME NEW i, LosesNews(i)
       PROVE  lost' \in [DOMAIN accepted -> Nat]
    BY <1>21, CountUp DEF LosesNews
<1>22. CASE SettleDeleteFails
    BY <1>22, <1>19, <1>21 DEF SettleDeleteFails, Mishap
<1>23. CASE SettleFailed
  <2>1. PICK delay \in Delays :
           outbox' = RecordFailure(outbox, cur, batch[cur].attempts, now, delay)
      BY <1>23 DEF SettleFailed
  <2>2. cur \in Nat /\ batch[cur].attempts \in Nat
      BY <1>23 DEF SettleFailed, DrainControl, Rows
  <2>3. outbox' \in [DOMAIN outbox -> Rows]
      BY <2>1, <2>2, TableTypes
  <2> QED
      BY <1>23, <2>3, <1>19 DEF SettleFailed
<1>24. CASE SettleRecordFails
    BY <1>24, <1>19 DEF SettleRecordFails, Mishap
<1>25. CASE Crash
    BY <1>25, <1>21 DEF Crash, Idle, Mishap
<1>27. CASE UNCHANGED vars
    BY <1>27 DEF vars
<1> QED
    BY <1>1, <1>2, <1>3, <1>4, <1>5, <1>6, <1>7, <1>8, <1>9, <1>10, <1>11, <1>12, <1>13,
       <1>14, <1>16, <1>17, <1>18, <1>20, <1>22, <1>23, <1>24, <1>25, <1>26, <1>27
    DEF Next, Command, DrainStep

(* What enqueue_dedup's UPDATE leaves alone. *)
LEMMA OverwriteFields ==
    ASSUME NEW t, t \in [DOMAIN t -> Rows], NEW id, NEW n, NEW p
    PROVE  /\ DOMAIN Overwrite(t, id, p, n) = DOMAIN t
           /\ \A i \in DOMAIN t :
                 /\ i # id => Overwrite(t, id, p, n)[i] = t[i]
                 /\ Overwrite(t, id, p, n)[i].op = t[i].op
                 /\ Overwrite(t, id, p, n)[i].key = t[i].key
                 /\ Overwrite(t, id, p, n)[i].account = t[i].account
                 /\ i = id => Overwrite(t, id, p, n)[i].payload = p
<1>1. \A i \in DOMAIN t : t[i] \in Rows
    OBVIOUS
<1>2. CASE id \notin DOMAIN t
    BY <1>2 DEF Overwrite
<1>3. CASE id \in DOMAIN t
    BY <1>1, <1>3 DEF Overwrite, Rows
<1> QED
    BY <1>2, <1>3

(* What record_failure leaves alone, and what it writes. *)
LEMMA FailureFields ==
    ASSUME NEW t, t \in [DOMAIN t -> Rows], NEW id, NEW n, NEW prev, NEW delay
    PROVE  /\ DOMAIN RecordFailure(t, id, prev, n, delay) = DOMAIN t
           /\ \A i \in DOMAIN t :
                 /\ i # id => RecordFailure(t, id, prev, n, delay)[i] = t[i]
                 /\ RecordFailure(t, id, prev, n, delay)[i].op = t[i].op
                 /\ RecordFailure(t, id, prev, n, delay)[i].key = t[i].key
                 /\ RecordFailure(t, id, prev, n, delay)[i].account = t[i].account
                 /\ RecordFailure(t, id, prev, n, delay)[i].payload = t[i].payload
                 /\ i = id =>
                      /\ RecordFailure(t, id, prev, n, delay)[i].attempts = t[i].attempts + 1
                      /\ RecordFailure(t, id, prev, n, delay)[i].next =
                            IF prev + 1 >= MaxAttempts THEN NULL ELSE n + delay
<1>1. \A i \in DOMAIN t : t[i] \in Rows
    OBVIOUS
<1>2. CASE id \notin DOMAIN t
    BY <1>2 DEF RecordFailure
<1>3. CASE id \in DOMAIN t
  <2> DEFINE nx == IF prev + 1 >= MaxAttempts THEN NULL ELSE n + delay
             u == RecordFailure(t, id, prev, n, delay)
  <2>1. u = [t EXCEPT ![id].attempts = @ + 1, ![id].next = nx]
      BY <1>3 DEF RecordFailure
  <2> HIDE DEF nx, u
  <2>2. /\ DOMAIN u = DOMAIN t
        /\ \A i \in DOMAIN t :
              /\ i # id => u[i] = t[i]
              /\ u[i].op = t[i].op /\ u[i].key = t[i].key /\ u[i].account = t[i].account
              /\ u[i].payload = t[i].payload
              /\ i = id => u[i].attempts = t[i].attempts + 1 /\ u[i].next = nx
      BY <1>1, <1>3, <2>1 DEF Rows
  <2> QED
      BY <2>2 DEF nx, u
<1> QED
    BY <1>2, <1>3

(* The end of process_one leaves the rest of the batch, and the drain either *)
(* idle with none or at one of its rows.                                     *)
LEMMA NextRowKeeps ==
    ASSUME TypeOK, pc # "idle", NextRow
    PROVE  /\ DOMAIN batch' \subseteq DOMAIN batch \ {cur}
           /\ \A i \in DOMAIN batch' : batch'[i] = batch[i]
           /\ pc' \in {"idle", "dispatch"}
           /\ DrainControl'
<1>1. CASE Idle
    BY <1>1 DEF Idle, DrainControl
<1>2. CASE Begin(Delete(batch, cur))
    BY <1>2 DEF Begin, Delete, DrainControl
<1> QED
    BY <1>1, <1>2 DEF NextRow

(* Every step keeps what IInv says of the queue. *)
LEMMA QueueStep == IInv /\ [Next]_vars => IInv'
<1> SUFFICES ASSUME IInv, [Next]_vars
             PROVE  IInv'
    OBVIOUS
<1>t. TypeOK'
    BY TypeStep
<1>0. /\ TypeOK /\ IdsAreFresh /\ RowsAreRegular /\ DrainControl /\ BatchFollowsTable
      /\ TakenIsAccountedFor /\ SaveSawTheTable /\ OneUploadRowPerDraft /\ SentMailIsNeverLost
    BY DEF IInv
<1>u. \A i \in DOMAIN outbox : outbox[i] \in Rows
    BY <1>0 DEF TypeOK
<1>v. \A i \in DOMAIN accepted : accepted[i] \in Nat /\ lost[i] \in Nat
    BY <1>0 DEF TypeOK
<1> DEFINE Queue == <<outbox, nextId, batch, cur, accepted, lost>>
<1>a. ASSUME UNCHANGED Queue, UNCHANGED <<pc, reply>>, SaveSawTheTable'
      PROVE  IInv'
    BY <1>0, <1>a, <1>t DEF IInv, IdsAreFresh, RowsAreRegular, DrainControl, BatchFollowsTable,
       TakenIsAccountedFor, OneUploadRowPerDraft, SentMailIsNeverLost, NewsPending
<1>b. ASSUME UNCHANGED Queue, UNCHANGED cmd, pc # "settle", pc' # "idle", DrainControl',
             pc' = "settle" /\ reply' = "ok" => cur \notin DOMAIN accepted
      PROVE  IInv'
    BY <1>0, <1>b, <1>t DEF IInv, IdsAreFresh, RowsAreRegular, BatchFollowsTable,
       TakenIsAccountedFor, OneUploadRowPerDraft, SentMailIsNeverLost, NewsPending,
       SaveSawTheTable
<1>1. CASE Tick
    BY <1>0, <1>1, <1>a DEF Tick, SaveSawTheTable, tableVars, drainVars, serverVars
<1>2. ASSUME NEW d \in Drafts, NEW a \in Accounts, NEW to \in BOOLEAN, SaveUpsert(d, a, to)
      PROVE  IInv'
  <2>1. SaveSawTheTable'
    <3>1. CASE to
        BY <1>0, <1>2, <3>1 DEF SaveUpsert, SaveSawTheTable, TypeOK, tableVars
    <3>2. CASE ~to
        BY <1>2, <3>2 DEF SaveUpsert, SaveSawTheTable
    <3> QED
        BY <3>1, <3>2
  <2> QED
      BY <2>1, <1>2, <1>a DEF SaveUpsert, tableVars, drainVars, serverVars
<1>3. CASE SaveLookup
  <2>1. cmd \in Commands
      BY <1>0, <1>3 DEF SaveLookup, TypeOK
  <2> DEFINE found == WithKey(outbox, cmd.account, "save_draft", cmd.draft)
  <2>2. found \subseteq DOMAIN outbox /\ \A i \in found : i # NULL /\ outbox[i].op = "save_draft"
      BY <1>0 DEF WithKey, TypeOK
  <2> HIDE DEF found
  <2>3. ASSUME found = {}, cmd' = [cmd EXCEPT !.stmt = "write"]
        PROVE  SaveSawTheTable'
    <3>1. cmd'.account = cmd.account /\ cmd'.draft = cmd.draft /\ cmd'.row = cmd.row
        BY <2>1, <2>3 DEF Commands
    <3>2. outbox' = outbox /\ cmd # NULL /\ cmd.name = "save"
        BY <1>3 DEF SaveLookup, tableVars
    <3> QED
        BY <1>0, <2>3, <3>1, <3>2 DEF SaveSawTheTable, found
  <2>4. ASSUME NEW i \in found, cmd' = [cmd EXCEPT !.stmt = "write", !.row = i]
        PROVE  SaveSawTheTable'
    <3>1. cmd'.row = i
        BY <2>1, <2>4 DEF Commands
    <3> QED
        BY <1>3, <2>2, <3>1 DEF SaveLookup, SaveSawTheTable, tableVars
  <2>5. SaveSawTheTable'
      BY <1>3, <2>3, <2>4 DEF SaveLookup, found
  <2> QED
      BY <2>5, <1>3, <1>a DEF SaveLookup, tableVars, drainVars, serverVars
<1>5. CASE SaveEnqueueFails \/ SendDeleteDraft \/ SendDeleteFails
    BY <1>5, <1>a DEF SaveEnqueueFails, SendDeleteDraft, SendDeleteFails, SaveSawTheTable,
       tableVars, drainVars, serverVars
<1>6. ASSUME NEW d \in Drafts, DraftsDelete(d)
      PROVE  IInv'
    BY <1>0, <1>6, <1>a DEF DraftsDelete, SaveSawTheTable, tableVars, drainVars, serverVars
<1>7. CASE DispatchFails
    BY <1>0, <1>7, <1>b DEF DispatchFails, Replies, DrainControl, tableVars, serverVars
<1>8. CASE ReadServerId
    BY <1>0, <1>8, <1>b DEF ReadServerId, DrainControl, tableVars, serverVars
<1>9. CASE UploadAndDestroy \/ UploadOnly \/ UploadDestroyFails
    BY <1>0, <1>9, <1>b DEF UploadAndDestroy, UploadOnly, UploadDestroyFails, Upload,
       DrainControl, tableVars
<1>10. CASE UploadReplyLost
    BY <1>0, <1>10, <1>b DEF UploadReplyLost, Replies, DrainControl, tableVars
<1>11. CASE RecordServerId
  <2>1. cur \notin DOMAIN accepted
      BY <1>0, <1>11 DEF RecordServerId, DrainControl, BatchFollowsTable, RowsAreRegular
  <2> QED
      BY <1>0, <1>11, <2>1, <1>b DEF RecordServerId, Replies, DrainControl, tableVars, serverVars
<1>12. CASE RecordServerIdFails
    BY <1>0, <1>12, <1>b DEF RecordServerIdFails, Replies, DrainControl, tableVars, serverVars
<1>c. CASE UNCHANGED vars
    BY <1>0, <1>c, <1>a DEF vars, SaveSawTheTable
<1>13. CASE SaveWrite
  <2> DEFINE p == Payload(cmd.draft, cmd.ver)
             row == FreshRow(cmd.account, "save_draft", p, cmd.draft, now)
  <2>1. cmd \in Commands /\ cmd.name = "save" /\ cmd.stmt = "write"
      BY <1>0, <1>13 DEF SaveWrite, TypeOK
  <2>2. SaveSawTheTable'
      BY <1>13 DEF SaveWrite, SaveSawTheTable
  <2>3. CASE cmd.row = NULL
    <3>1. /\ DOMAIN outbox' = DOMAIN outbox \cup {nextId}
          /\ outbox'[nextId] = row
          /\ \A i \in DOMAIN outbox : i # nextId /\ outbox'[i] = outbox[i]
          /\ nextId' = nextId + 1
        BY <1>0, <1>13, <2>3 DEF SaveWrite, Insert, IdsAreFresh, TypeOK
    <3>2. row.op = "save_draft" /\ row.key = cmd.draft /\ row.account = cmd.account
        BY DEF FreshRow
    <3>3. \A i \in DOMAIN outbox :
             outbox[i].key = cmd.draft /\ outbox[i].account = cmd.account => outbox[i].key = NULL
      <4>1. WithKey(outbox, cmd.account, "save_draft", cmd.draft) = {}
          BY <1>0, <1>13, <2>1, <2>3 DEF SaveSawTheTable, SaveWrite
      <4>2. \A i \in DOMAIN outbox : outbox[i].op \in {"save_draft", "submit_message"}
          BY <1>u DEF Rows
      <4> QED
          BY <1>0, <4>1, <4>2 DEF WithKey, RowsAreRegular
    <3>4. IdsAreFresh'
        BY <1>0, <1>13, <3>1 DEF IdsAreFresh, SaveWrite, serverVars, TypeOK
    <3>5. RowsAreRegular'
        BY <1>0, <1>13, <3>1, <3>2 DEF RowsAreRegular, IdsAreFresh, SaveWrite, serverVars, TypeOK
    <3>6. BatchFollowsTable'
        BY <1>0, <1>13, <3>1 DEF BatchFollowsTable, SaveWrite, drainVars
    <3>7. TakenIsAccountedFor' /\ SentMailIsNeverLost' /\ DrainControl'
        BY <1>0, <1>13, <3>1 DEF TakenIsAccountedFor, SentMailIsNeverLost, DrainControl,
           NewsPending, IdsAreFresh, SaveWrite, drainVars, serverVars, TypeOK
    <3>8. OneUploadRowPerDraft'
        BY <1>0, <3>1, <3>2, <3>3 DEF OneUploadRowPerDraft
    <3> QED
        BY <1>t, <2>2, <3>4, <3>5, <3>6, <3>7, <3>8 DEF IInv
  <2>4. CASE cmd.row # NULL
    <3> HIDE DEF p
    <3>1. /\ outbox' = Overwrite(outbox, cmd.row, p, now)
          /\ cmd.row \in DOMAIN outbox => outbox[cmd.row].op = "save_draft"
          /\ UNCHANGED <<nextId, batch, cur, pc, reply, accepted, lost>>
        BY <1>0, <1>13, <2>1, <2>4 DEF SaveWrite, SaveSawTheTable, drainVars, serverVars, p
    <3>2. /\ DOMAIN outbox' = DOMAIN outbox
          /\ \A i \in DOMAIN outbox :
                /\ outbox[i].op = "submit_message" => outbox'[i] = outbox[i]
                /\ outbox'[i].op = outbox[i].op /\ outbox'[i].key = outbox[i].key
                /\ outbox'[i].account = outbox[i].account
      <4>1. outbox \in [DOMAIN outbox -> Rows] /\ now \in Nat
          BY <1>0 DEF TypeOK
      <4> QED
          BY <3>1, <4>1, OverwriteFields
    <3>3. IdsAreFresh' /\ RowsAreRegular' /\ BatchFollowsTable' /\ DrainControl'
        BY <1>0, <3>1, <3>2 DEF IdsAreFresh, RowsAreRegular, BatchFollowsTable, DrainControl
    <3>4. TakenIsAccountedFor' /\ SentMailIsNeverLost' /\ OneUploadRowPerDraft'
        BY <1>0, <3>1, <3>2 DEF TakenIsAccountedFor, SentMailIsNeverLost, NewsPending,
           OneUploadRowPerDraft
    <3> QED
        BY <1>t, <2>2, <3>3, <3>4 DEF IInv
  <2> QED
      BY <2>3, <2>4
<1>14. ASSUME NEW d \in Drafts, SendEnqueue(d)
       PROVE  IInv'
  <2>1. /\ DOMAIN outbox' = DOMAIN outbox \cup {nextId}
        /\ outbox'[nextId].op = "submit_message" /\ outbox'[nextId].key = NULL
        /\ outbox'[nextId].attempts = 0 /\ outbox'[nextId].next = now
        /\ \A i \in DOMAIN outbox : i # nextId /\ outbox'[i] = outbox[i]
      BY <1>0, <1>14 DEF SendEnqueue, Insert, FreshRow, IdsAreFresh, TypeOK
  <2>2. /\ DOMAIN accepted' = DOMAIN accepted \cup {nextId}
        /\ accepted'[nextId] = 0 /\ lost'[nextId] = 0
        /\ \A i \in DOMAIN accepted :
              i # nextId /\ accepted'[i] = accepted[i] /\ lost'[i] = lost[i]
      BY <1>0, <1>14 DEF SendEnqueue, Insert, IdsAreFresh, TypeOK
  <2>3. nextId' = nextId + 1 /\ UNCHANGED <<batch, cur, pc, reply>> /\ cmd'.name = "send"
      BY <1>14 DEF SendEnqueue, drainVars
  <2>4. ~NewsPending(nextId)
      BY <1>0 DEF NewsPending, DrainControl, BatchFollowsTable, IdsAreFresh, TypeOK
  <2>5. IdsAreFresh'
      BY <1>0, <2>1, <2>2, <2>3 DEF IdsAreFresh, TypeOK
  <2>6. RowsAreRegular'
      BY <1>0, <2>1, <2>2 DEF RowsAreRegular, IsDead, IdsAreFresh, TypeOK
  <2>7. BatchFollowsTable' /\ DrainControl' /\ SaveSawTheTable'
      BY <1>0, <2>1, <2>3 DEF BatchFollowsTable, DrainControl, SaveSawTheTable
  <2>8. TakenIsAccountedFor' /\ SentMailIsNeverLost'
      BY <1>0, <2>1, <2>2, <2>3, <2>4 DEF TakenIsAccountedFor, SentMailIsNeverLost, NewsPending,
         IdsAreFresh, TypeOK
  <2>9. OneUploadRowPerDraft'
      BY <1>0, <2>1 DEF OneUploadRowPerDraft
  <2> QED
      BY <1>t, <2>5, <2>6, <2>7, <2>8, <2>9 DEF IInv
<1>15. CASE DrainTick
  <2>1. /\ batch' = ListDue(outbox, now) /\ cur' \in DOMAIN batch' /\ pc' = "dispatch"
        /\ pc = "idle" /\ UNCHANGED <<outbox, nextId, cmd, accepted, lost>>
      BY <1>15 DEF DrainTick, Begin, tableVars, serverVars
  <2>2. BatchFollowsTable' /\ DrainControl'
      BY <2>1, ListDueCopies DEF BatchFollowsTable, DrainControl
  <2> QED
      BY <1>0, <1>t, <2>1, <2>2 DEF IInv, IdsAreFresh, RowsAreRegular, TakenIsAccountedFor,
         SaveSawTheTable, OneUploadRowPerDraft, SentMailIsNeverLost, NewsPending
<1>16. CASE Submit \/ SubmitReplyLost
  <2>1. /\ cur \in DOMAIN accepted /\ cur \in DOMAIN outbox
        /\ accepted[cur] <= lost[cur]
      BY <1>0, <1>16 DEF Submit, SubmitReplyLost, DrainControl, BatchFollowsTable,
         RowsAreRegular, TakenIsAccountedFor, NewsPending
  <2>2. /\ DOMAIN accepted' = DOMAIN accepted
        /\ accepted'[cur] = accepted[cur] + 1
        /\ \A i \in DOMAIN accepted : i # cur => accepted'[i] = accepted[i] /\ lost'[i] = lost[i]
        /\ \/ reply' = "ok" /\ lost' = lost
           \/ reply' = "err" /\ lost'[cur] = lost[cur] + 1
        /\ pc' = "settle" /\ pc = "dispatch"
        /\ UNCHANGED <<outbox, nextId, cmd, batch, cur>>
      BY <1>0, <1>16, <2>1 DEF Submit, SubmitReplyLost, Replies, TypeOK, tableVars
  <2>3. DrainControl' /\ BatchFollowsTable' /\ IdsAreFresh' /\ RowsAreRegular'
      BY <1>0, <2>2 DEF DrainControl, BatchFollowsTable, IdsAreFresh, RowsAreRegular
  <2>4. TakenIsAccountedFor' /\ SentMailIsNeverLost'
      BY <1>0, <1>v, <2>1, <2>2 DEF TakenIsAccountedFor, SentMailIsNeverLost, NewsPending
  <2>5. OneUploadRowPerDraft' /\ SaveSawTheTable'
      BY <1>0, <2>2 DEF OneUploadRowPerDraft, SaveSawTheTable
  <2> QED
      BY <1>t, <2>3, <2>4, <2>5 DEF IInv
<1>17. CASE SettleSent
  <2>1. /\ DOMAIN outbox' = DOMAIN outbox \ {cur}
        /\ \A i \in DOMAIN outbox' : outbox'[i] = outbox[i]
        /\ pc = "settle" /\ reply = "ok"
        /\ UNCHANGED <<nextId, cmd, accepted, lost>>
      BY <1>17 DEF SettleSent, Delete, serverVars
  <2>2. /\ DrainControl' /\ pc' # "settle"
        /\ DOMAIN batch' \subseteq DOMAIN batch \ {cur}
        /\ \A i \in DOMAIN batch' : batch'[i] = batch[i]
      BY <1>0, <1>17, NextRowKeeps DEF SettleSent
  <2>3. BatchFollowsTable' /\ IdsAreFresh' /\ RowsAreRegular' /\ OneUploadRowPerDraft'
      BY <1>0, <2>1, <2>2 DEF BatchFollowsTable, IdsAreFresh, RowsAreRegular, OneUploadRowPerDraft
  <2>4. TakenIsAccountedFor' /\ SentMailIsNeverLost'
      BY <1>0, <2>1, <2>2 DEF TakenIsAccountedFor, SentMailIsNeverLost, NewsPending
  <2>5. SaveSawTheTable'
      BY <1>0, <2>1 DEF SaveSawTheTable, WithKey
  <2> QED
      BY <1>t, <2>2, <2>3, <2>4, <2>5 DEF IInv
<1>18. CASE SettleFailed
  <2>1. PICK delay \in Delays :
           outbox' = RecordFailure(outbox, cur, batch[cur].attempts, now, delay)
      BY <1>18 DEF SettleFailed
  <2>2. pc = "settle" /\ reply = "err" /\ UNCHANGED <<nextId, cmd, accepted, lost>>
      BY <1>18 DEF SettleFailed, serverVars
  <2>3. /\ DrainControl' /\ pc' # "settle"
        /\ DOMAIN batch' \subseteq DOMAIN batch \ {cur}
        /\ \A i \in DOMAIN batch' : batch'[i] = batch[i]
      BY <1>0, <1>18, NextRowKeeps DEF SettleFailed
  <2>4. /\ DOMAIN outbox' = DOMAIN outbox
        /\ \A i \in DOMAIN outbox :
              /\ i # cur => outbox'[i] = outbox[i]
              /\ outbox'[i].op = outbox[i].op /\ outbox'[i].key = outbox[i].key
              /\ outbox'[i].account = outbox[i].account
              /\ i = cur =>
                    /\ outbox'[i].attempts = outbox[i].attempts + 1
                    /\ outbox'[i].next = IF batch[cur].attempts + 1 >= MaxAttempts THEN NULL
                                         ELSE now + delay
    <3>1. outbox \in [DOMAIN outbox -> Rows] /\ now \in Nat
        BY <1>0 DEF TypeOK
    <3> QED
        BY <2>1, <3>1, FailureFields
  <2>5. IdsAreFresh' /\ BatchFollowsTable' /\ OneUploadRowPerDraft'
      BY <1>0, <2>2, <2>3, <2>4 DEF IdsAreFresh, BatchFollowsTable, OneUploadRowPerDraft
  <2>6. TakenIsAccountedFor' /\ SentMailIsNeverLost'
      BY <1>0, <2>2, <2>3, <2>4 DEF TakenIsAccountedFor, SentMailIsNeverLost, NewsPending
  <2>7. SaveSawTheTable'
      BY <1>0, <2>2, <2>4 DEF SaveSawTheTable, WithKey
  <2>8. RowsAreRegular'
    <3>1. cur \in DOMAIN outbox /\ outbox[cur].attempts \in Nat
        BY <1>0, <1>u, <2>2 DEF DrainControl, BatchFollowsTable, Rows
    <3>2. outbox[cur].op = "submit_message" =>
             batch[cur] = outbox[cur] /\ outbox[cur].attempts < MaxAttempts
        BY <1>0, <2>2 DEF DrainControl, BatchFollowsTable, RowsAreRegular
    <3>3. now + delay # NULL
        BY <1>0 DEF TypeOK
    <3> QED
        BY <1>0, <2>2, <2>4, <3>1, <3>2, <3>3 DEF RowsAreRegular, IsDead
  <2> QED
      BY <1>t, <2>3, <2>5, <2>6, <2>7, <2>8 DEF IInv
<1>19. CASE SettleDeleteFails \/ SettleRecordFails \/ Crash
  <2>1. /\ DrainControl' /\ pc' # "settle"
        /\ DOMAIN batch' \subseteq DOMAIN batch
        /\ \A i \in DOMAIN batch' : batch'[i] = batch[i]
    <3>1. CASE SettleDeleteFails \/ SettleRecordFails
        BY <1>0, <3>1, NextRowKeeps DEF SettleDeleteFails, SettleRecordFails
    <3>2. CASE Crash
        BY <3>2 DEF Crash, Idle, DrainControl
    <3> QED
        BY <1>19, <3>1, <3>2
  <2>2. UNCHANGED <<outbox, nextId, accepted>> /\ (cmd' = cmd \/ cmd' = NULL)
      BY <1>19 DEF SettleDeleteFails, SettleRecordFails, Crash, tableVars, serverVars
  <2>3. \A i \in DOMAIN accepted :
           /\ lost'[i] = lost[i] \/ lost'[i] = lost[i] + 1
           /\ NewsPending(i) => lost'[i] = lost[i] + 1
      BY <1>0, <1>19 DEF SettleDeleteFails, SettleRecordFails, Crash, LosesNews, NewsPending, TypeOK
  <2>4. TakenIsAccountedFor'
      BY <1>0, <1>v, <2>1, <2>2, <2>3 DEF TakenIsAccountedFor, NewsPending
  <2>5. /\ IdsAreFresh' /\ RowsAreRegular' /\ BatchFollowsTable' /\ SaveSawTheTable'
        /\ OneUploadRowPerDraft' /\ SentMailIsNeverLost'
      BY <1>0, <2>1, <2>2 DEF IdsAreFresh, RowsAreRegular, BatchFollowsTable, SaveSawTheTable,
         OneUploadRowPerDraft, SentMailIsNeverLost
  <2> QED
      BY <1>t, <2>1, <2>4, <2>5 DEF IInv
<1> QED
    BY <1>1, <1>2, <1>3, <1>5, <1>6, <1>7, <1>8, <1>9, <1>10, <1>11, <1>12, <1>13, <1>14,
       <1>15, <1>16, <1>17, <1>18, <1>19, <1>c
    DEF Next, Command, DrainStep

-----------------------------------------------------------------------------
(* Drafts.                                                                   *)

LEMMA InitDInv == Init => DInv
BY DEF Init, DInv, CopiesAreTheirs, NeverZeroCopies, VersionsFollowSaves, UploadsAreNewer,
       HasServerId

(* No step but the recording of a server id gives a draft one.               *)
LEMMA ServerIdsStay ==
    ASSUME TypeOK, [Next]_vars, ~RecordServerId
    PROVE  \A d \in Drafts : drafts'[d] # NULL =>
              drafts'[d].server = IF drafts[d] = NULL THEN NULL ELSE drafts[d].server
<1>0. drafts \in [Drafts -> DraftRows \cup {NULL}]
    BY DEF TypeOK
<1>1. ASSUME NEW e \in Drafts, NEW a \in Accounts, NEW to \in BOOLEAN, SaveUpsert(e, a, to),
             NEW d \in Drafts, d = e \/ drafts'[d] # NULL
      PROVE  drafts'[d].server = IF drafts[d] = NULL THEN NULL ELSE drafts[d].server
  <2>1. CASE d # e
      BY <1>0, <1>1, <2>1 DEF SaveUpsert
  <2>2. CASE d = e /\ drafts[d] = NULL
      BY <1>0, <1>1, <2>2 DEF SaveUpsert
  <2>3. CASE d = e /\ drafts[d] # NULL
    <3>1. drafts[d] \in DraftRows
        BY <1>0, <2>3
    <3>2. drafts'[d] = [drafts[d] EXCEPT !.account = a, !.ver = version[d] + 1, !.to = to]
        BY <1>0, <1>1, <2>3 DEF SaveUpsert
    <3> QED
        BY <2>3, <3>1, <3>2 DEF DraftRows
  <2> QED
      BY <2>1, <2>2, <2>3
<1>2. CASE SendDeleteDraft \/ \E e \in Drafts : DraftsDelete(e)
    BY <1>0, <1>2 DEF SendDeleteDraft, DraftsDelete
<1>3. CASE UNCHANGED drafts
    BY <1>0, <1>3
<1> QED
    BY <1>1, <1>2, <1>3
    DEF Next, Command, DrainStep, Tick, Crash, vars, localVars, SaveLookup, SaveWrite,
        SaveEnqueueFails, SendEnqueue, SendDeleteFails, DrainTick, DispatchFails, Submit,
        SubmitReplyLost, ReadServerId, UploadAndDestroy, UploadOnly, UploadDestroyFails, Upload,
        UploadReplyLost, RecordServerIdFails, SettleSent, SettleDeleteFails, SettleFailed,
        SettleRecordFails

(* What is appended has a new id, and what is destroyed is of the same       *)
(* draft.                                                                    *)
LEMMA AppendKeeps ==
    ASSUME TypeOK, DrainControl, CopiesAreTheirs, NeverZeroCopies, pc = "upload",
           NEW K, K \subseteq serverDrafts,
           \A c \in serverDrafts : c \in K \/ c.draft = batch[cur].payload.draft,
           serverDrafts' = K \cup {NewCopy}, nextCopy' = nextCopy + 1,
           pc' = "settle" \/ (pc' = "record" /\ copyId' = NewCopy.id),
           UNCHANGED <<drafts, batch, cur>>
    PROVE  CopiesAreTheirs' /\ NeverZeroCopies'
<1>1. /\ nextCopy \in Nat /\ serverDrafts \subseteq [draft : Drafts, id : CopyIds]
      /\ drafts \in [Drafts -> DraftRows \cup {NULL}]
    BY DEF TypeOK
<1>2. \A c \in serverDrafts : c.id.n \in Nat
    BY <1>1 DEF CopyIds
<1>3. \A d \in Drafts : HasServerId(d, drafts) => drafts[d].server.n \in Nat
    BY <1>1 DEF CopyIds, DraftRows, HasServerId
<1>4. NewCopy.id.n = nextCopy /\ NewCopy.draft = batch[cur].payload.draft
    BY DEF NewCopy
<1>5. \A c \in serverDrafts' : c \in serverDrafts \/ c = NewCopy
    OBVIOUS
<1>6. \A c \in serverDrafts' : c.id.n < nextCopy'
    BY <1>1, <1>2, <1>4, <1>5 DEF CopiesAreTheirs
<1>7. \A b, c \in serverDrafts' : b.id = c.id => b.draft = c.draft
    BY <1>1, <1>2, <1>4, <1>5 DEF CopiesAreTheirs
<1>8. \A d \in Drafts : HasServerId(d, drafts) =>
         /\ drafts[d].server.n < nextCopy'
         /\ \A c \in serverDrafts' : c.id = drafts[d].server => c.draft = d
    BY <1>1, <1>3, <1>4, <1>5 DEF CopiesAreTheirs
<1>9. pc' = "record" => [draft |-> batch[cur].payload.draft, id |-> copyId'] \in serverDrafts'
    BY DEF NewCopy
<1>10. CopiesAreTheirs'
    BY <1>6, <1>7, <1>8, <1>9 DEF CopiesAreTheirs, HasServerId
<1>11. NeverZeroCopies'
    BY <1>4 DEF NeverZeroCopies
<1> QED
    BY <1>10, <1>11

(* save_draft appends before it destroys, and destroys only what it knew as  *)
(* the same draft's copy.                                                    *)
LEMMA CopiesStep ==
    ASSUME IInv, CopiesAreTheirs, NeverZeroCopies, [Next]_vars
    PROVE  CopiesAreTheirs' /\ NeverZeroCopies'
<1>0. TypeOK /\ DrainControl
    BY DEF IInv
<1>a. ASSUME UNCHANGED <<serverDrafts, nextCopy>>, ~RecordServerId,
             \/ pc' \notin {"upload", "record"}
             \/ UNCHANGED <<batch, cur, pc, prior, copyId>>
      PROVE  CopiesAreTheirs' /\ NeverZeroCopies'
  <2>1. \A d \in Drafts : HasServerId(d, drafts') =>
           HasServerId(d, drafts) /\ drafts'[d].server = drafts[d].server
      BY <1>0, <1>a, ServerIdsStay DEF HasServerId
  <2>2. CopiesAreTheirs'
      BY <1>a, <2>1 DEF CopiesAreTheirs
  <2>3. NeverZeroCopies'
      BY <1>a, <2>1 DEF NeverZeroCopies, HasServerId
  <2> QED
      BY <2>2, <2>3
<1>1. CASE Command \/ Tick \/ UNCHANGED vars
  <2>1. UNCHANGED <<batch, cur, pc, prior, copyId, serverDrafts, nextCopy>>
      BY <1>1 DEF Command, Tick, vars, drainVars, serverVars, SaveUpsert, SaveLookup, SaveWrite,
         SaveEnqueueFails, SendEnqueue, SendDeleteDraft, SendDeleteFails, DraftsDelete
  <2>2. ~RecordServerId
      BY <2>1 DEF RecordServerId, Replies
  <2> QED
      BY <2>1, <2>2, <1>a
<1>2. CASE DrainTick \/ DispatchFails \/ Submit \/ SubmitReplyLost \/ RecordServerIdFails
    BY <1>2, <1>a DEF DrainTick, Begin, DispatchFails, Submit, SubmitReplyLost, RecordServerIdFails,
       Replies, RecordServerId, serverVars, localVars
<1>3. CASE SettleSent \/ SettleDeleteFails \/ SettleFailed \/ SettleRecordFails \/ Crash
  <2>1. UNCHANGED <<serverDrafts, nextCopy>> /\ ~RecordServerId /\ pc' \notin {"upload", "record"}
      BY <1>3 DEF SettleSent, SettleDeleteFails, SettleFailed, SettleRecordFails, Crash, NextRow,
         Begin, Idle, RecordServerId, Replies, serverVars
  <2> QED
      BY <1>a, <2>1
<1>4. CASE ReadServerId
  <2> DEFINE d == batch[cur].payload.draft
  <2>1. /\ pc = "dispatch" /\ pc' = "upload" /\ UNCHANGED <<drafts, serverDrafts, nextCopy, batch, cur>>
        /\ prior' = IF drafts[d] = NULL THEN NULL ELSE drafts[d].server
      BY <1>4 DEF ReadServerId, localVars, serverVars
  <2>2. d \in Drafts
      BY <1>0, <2>1 DEF TypeOK, DrainControl, Rows
  <2>3. prior' # NULL => HasServerId(d, drafts) /\ prior' = drafts[d].server
      BY <2>1 DEF HasServerId
  <2>4. CopiesAreTheirs'
      BY <2>1, <2>2, <2>3 DEF CopiesAreTheirs, HasServerId
  <2>5. NeverZeroCopies'
      BY <2>1 DEF NeverZeroCopies
  <2> QED
      BY <2>4, <2>5
<1>5. CASE UploadAndDestroy \/ UploadOnly \/ UploadDestroyFails
  <2>1. PICK x \in BOOLEAN : Upload(x) /\ (x => prior # NULL)
      BY <1>5 DEF UploadAndDestroy, UploadOnly, UploadDestroyFails
  <2> DEFINE K == {c \in serverDrafts : ~(x /\ c.id = prior)}
  <2>2. /\ serverDrafts' = K \cup {NewCopy} /\ nextCopy' = nextCopy + 1
        /\ pc = "upload" /\ pc' = "record" /\ copyId' = NewCopy.id
        /\ UNCHANGED <<drafts, batch, cur>>
      BY <2>1 DEF Upload, localVars
  <2>3. \A c \in serverDrafts : c \in K \/ c.draft = batch[cur].payload.draft
      BY <2>1, <2>2 DEF CopiesAreTheirs
  <2>4. K \subseteq serverDrafts
      OBVIOUS
  <2> HIDE DEF K
  <2> QED
      BY <1>0, <2>2, <2>3, <2>4, AppendKeeps
<1>6. CASE UploadReplyLost
  <2>1. /\ serverDrafts' = serverDrafts \cup {NewCopy} /\ nextCopy' = nextCopy + 1
        /\ pc = "upload" /\ pc' = "settle" /\ UNCHANGED <<drafts, batch, cur>>
      BY <1>6 DEF UploadReplyLost, Replies, localVars
  <2> QED
      BY <1>0, <2>1, AppendKeeps
<1>7. CASE RecordServerId
  <2> DEFINE d == batch[cur].payload.draft
  <2>1. /\ pc = "record" /\ pc' = "settle" /\ UNCHANGED <<serverDrafts, nextCopy>>
        /\ drafts' = IF drafts[d] = NULL THEN drafts ELSE [drafts EXCEPT ![d].server = copyId]
      BY <1>7 DEF RecordServerId, Replies, serverVars
  <2>2. \A e \in Drafts : HasServerId(e, drafts') =>
           \/ e = d /\ drafts'[e].server = copyId
           \/ HasServerId(e, drafts) /\ drafts'[e].server = drafts[e].server
    <3>1. drafts \in [Drafts -> DraftRows \cup {NULL}]
        BY <1>0 DEF TypeOK
    <3>2. CASE drafts[d] = NULL
        BY <2>1, <3>2 DEF HasServerId
    <3>3. CASE drafts[d] # NULL
        BY <2>1, <3>1, <3>3 DEF HasServerId, DraftRows
    <3> QED
        BY <3>2, <3>3
  <2>3. [draft |-> d, id |-> copyId] \in serverDrafts
      BY <2>1 DEF CopiesAreTheirs
  <2>4. copyId.n < nextCopy /\ \A c \in serverDrafts : c.id = copyId => c.draft = d
      BY <2>3 DEF CopiesAreTheirs
  <2>5. CopiesAreTheirs'
    <3> HIDE DEF d
    <3>1. pc' \notin {"upload", "record"}
        BY <2>1
    <3>2. \A e \in Drafts : HasServerId(e, drafts') =>
             /\ drafts'[e].server.n < nextCopy
             /\ \A c \in serverDrafts : c.id = drafts'[e].server => c.draft = e
        BY <2>2, <2>4 DEF CopiesAreTheirs
    <3> QED
        BY <2>1, <3>1, <3>2 DEF CopiesAreTheirs
  <2>6. NeverZeroCopies'
      BY <2>1, <2>2, <2>3 DEF NeverZeroCopies, HasServerId
  <2> QED
      BY <2>5, <2>6
<1> QED
    BY <1>1, <1>2, <1>3, <1>4, <1>5, <1>6, <1>7 DEF Next, DrainStep

(* The statements of a save and of the drain keep rows, the drain's copy of  *)
(* them and the draft's version in order.                                    *)
LEMMA VersionsStep ==
    ASSUME IInv, VersionsFollowSaves, [Next]_vars
    PROVE  VersionsFollowSaves'
<1>0. /\ TypeOK /\ IdsAreFresh /\ DrainControl /\ BatchFollowsTable /\ SaveSawTheTable
      /\ TypeOK'
    BY TypeStep DEF IInv
<1>1. /\ outbox \in [DOMAIN outbox -> Rows] /\ batch \in [DOMAIN batch -> Rows]
      /\ version \in [Drafts -> Nat] /\ cmd \in Commands \cup {NULL} /\ now \in Nat
    BY <1>0 DEF TypeOK
<1>2. /\ \A i \in DOMAIN outbox : outbox[i].payload.draft \in Drafts /\ outbox[i].payload.ver \in Nat
      /\ \A i \in DOMAIN batch : batch[i].payload.draft \in Drafts /\ batch[i].payload.ver \in Nat
    BY <1>1 DEF Rows
<1>3. ASSUME NEW d \in Drafts, NEW a \in Accounts, NEW to \in BOOLEAN, SaveUpsert(d, a, to)
      PROVE  VersionsFollowSaves'
  <2>1. /\ UNCHANGED <<outbox, batch>> /\ version' = [version EXCEPT ![d] = version[d] + 1]
        /\ \/ cmd' = NULL
           \/ cmd' = [name |-> "save", draft |-> d, account |-> a, ver |-> version[d] + 1,
                      stmt |-> "lookup", row |-> NULL]
      BY <1>3 DEF SaveUpsert, tableVars, drainVars
  <2>2. version'[d] = version[d] + 1 /\ \A e \in Drafts : version[e] <= version'[e]
      BY <1>1, <2>1
  <2>3. NULL \notin DOMAIN outbox
      BY <1>0 DEF TypeOK
  <2>4. \A i \in DOMAIN outbox : outbox[i].op = "save_draft" =>
           outbox[i].payload.ver <= version'[outbox[i].payload.draft]
    <3>1. \A i \in DOMAIN outbox : version[outbox[i].payload.draft] \in Nat
                                   /\ version'[outbox[i].payload.draft] \in Nat
        BY <1>0, <1>2 DEF TypeOK
    <3> QED
        BY <1>2, <2>2, <3>1 DEF VersionsFollowSaves
  <2> QED
      BY <2>1, <2>2, <2>3, <2>4 DEF VersionsFollowSaves
<1>4. CASE SaveLookup
  <2>1. /\ cmd # NULL /\ cmd \in Commands /\ cmd.name = "save" /\ UNCHANGED <<outbox, batch, version>>
        /\ \/ cmd' = [cmd EXCEPT !.stmt = "write"]
           \/ \E i \in WithKey(outbox, cmd.account, "save_draft", cmd.draft) :
                 cmd' = [cmd EXCEPT !.stmt = "write", !.row = i]
      BY <1>1, <1>4 DEF SaveLookup, tableVars, localVars, drainVars
  <2>2. cmd'.draft = cmd.draft /\ cmd'.ver = cmd.ver /\ cmd'.account = cmd.account
      BY <2>1 DEF Commands
  <2>3. \/ cmd'.row = cmd.row
        \/ cmd'.row \in WithKey(outbox, cmd.account, "save_draft", cmd.draft)
      BY <2>1 DEF Commands
  <2>4. cmd'.row \in DOMAIN outbox =>
           outbox[cmd'.row].payload.draft = cmd.draft /\ outbox[cmd'.row].account = cmd.account
      BY <2>1, <2>3 DEF VersionsFollowSaves, WithKey
  <2> QED
      BY <2>1, <2>2, <2>4 DEF VersionsFollowSaves
<1>5. CASE SaveWrite
  <2>1. /\ cmd # NULL /\ cmd \in Commands /\ cmd.name = "save" /\ cmd' = NULL
        /\ UNCHANGED <<batch, version>> /\ cmd.ver = version[cmd.draft] /\ cmd.draft \in Drafts
        /\ version[cmd.draft] \in Nat
      BY <1>1, <1>5 DEF SaveWrite, drainVars, VersionsFollowSaves, Commands
  <2>2. Payload(cmd.draft, cmd.ver).draft = cmd.draft /\ Payload(cmd.draft, cmd.ver).ver = cmd.ver
      BY DEF Payload
  <2>3. CASE cmd.row = NULL
    <3>1. /\ DOMAIN outbox' = DOMAIN outbox \cup {nextId}
          /\ outbox'[nextId] = FreshRow(cmd.account, "save_draft", Payload(cmd.draft, cmd.ver),
                                        cmd.draft, now)
          /\ \A i \in DOMAIN outbox : i # nextId /\ outbox'[i] = outbox[i]
        BY <1>0, <1>5, <2>3 DEF SaveWrite, Insert, IdsAreFresh, TypeOK
    <3>2. /\ outbox'[nextId].key = cmd.draft /\ outbox'[nextId].payload.draft = cmd.draft
          /\ outbox'[nextId].payload.ver = version[cmd.draft]
        BY <2>1, <2>2, <3>1 DEF FreshRow
    <3>3. \A i \in DOMAIN batch : i \in DOMAIN outbox
        BY <1>0 DEF BatchFollowsTable
    <3> QED
        BY <2>1, <3>1, <3>2, <3>3 DEF VersionsFollowSaves
  <2>4. CASE cmd.row # NULL
    <3>1. outbox' = Overwrite(outbox, cmd.row, Payload(cmd.draft, cmd.ver), now)
        BY <1>5, <2>4 DEF SaveWrite
    <3>2. /\ DOMAIN outbox' = DOMAIN outbox
          /\ \A i \in DOMAIN outbox :
                /\ i # cmd.row => outbox'[i] = outbox[i]
                /\ i = cmd.row => outbox'[i].payload.draft = cmd.draft
                                  /\ outbox'[i].payload.ver = version[cmd.draft]
                /\ outbox'[i].op = outbox[i].op /\ outbox'[i].key = outbox[i].key
                /\ outbox'[i].account = outbox[i].account
        BY <1>1, <2>1, <2>2, <3>1, OverwriteFields
    <3>3. cmd.row \in DOMAIN outbox => outbox[cmd.row].payload.draft = cmd.draft
        BY <2>1 DEF VersionsFollowSaves
    <3>4. \A i \in DOMAIN outbox : outbox'[i].op = "save_draft" =>
             /\ outbox'[i].key = outbox'[i].payload.draft
             /\ outbox'[i].payload.ver <= version[outbox'[i].payload.draft]
             /\ outbox'[i].payload.draft = outbox[i].payload.draft
             /\ outbox[i].payload.ver <= outbox'[i].payload.ver
        BY <1>2, <2>1, <3>2, <3>3 DEF VersionsFollowSaves
    <3>5. \A i \in DOMAIN batch : i \in DOMAIN outbox /\ batch[i].op = outbox[i].op
        BY <1>0 DEF BatchFollowsTable
    <3>6. \A i \in DOMAIN outbox : outbox'[i].payload.ver \in Nat
        BY <1>0, <3>2 DEF TypeOK, Rows
    <3>7. \A i \in DOMAIN batch : batch[i].op = "save_draft" =>
             /\ batch[i].account = outbox'[i].account
             /\ batch[i].payload.draft = outbox'[i].payload.draft
             /\ batch[i].payload.ver <= outbox'[i].payload.ver
      <4> SUFFICES ASSUME NEW i \in DOMAIN batch, batch[i].op = "save_draft"
                   PROVE  /\ batch[i].account = outbox'[i].account
                          /\ batch[i].payload.draft = outbox'[i].payload.draft
                          /\ batch[i].payload.ver <= outbox'[i].payload.ver
          OBVIOUS
      <4>1. /\ i \in DOMAIN outbox /\ outbox'[i].op = "save_draft"
            /\ outbox'[i].account = outbox[i].account
          BY <3>2, <3>5
      <4>2. /\ outbox'[i].payload.draft = outbox[i].payload.draft
            /\ outbox[i].payload.ver <= outbox'[i].payload.ver
          BY <3>4, <4>1
      <4>3. /\ batch[i].account = outbox[i].account
            /\ batch[i].payload.draft = outbox[i].payload.draft
            /\ batch[i].payload.ver <= outbox[i].payload.ver
          BY DEF VersionsFollowSaves
      <4>4. batch[i].payload.ver \in Nat /\ outbox[i].payload.ver \in Nat
            /\ outbox'[i].payload.ver \in Nat
          BY <1>2, <3>6, <4>1
      <4> QED
          BY <4>1, <4>2, <4>3, <4>4
    <3> QED
        BY <2>1, <3>2, <3>4, <3>7 DEF VersionsFollowSaves
  <2> QED
      BY <2>3, <2>4
<1>6. ASSUME NEW d \in Drafts, SendEnqueue(d)
      PROVE  VersionsFollowSaves'
  <2>1. /\ DOMAIN outbox' = DOMAIN outbox \cup {nextId} /\ outbox'[nextId].op = "submit_message"
        /\ \A i \in DOMAIN outbox : i # nextId /\ outbox'[i] = outbox[i]
        /\ UNCHANGED <<batch, version>> /\ cmd'.name = "send"
      BY <1>0, <1>6 DEF SendEnqueue, Insert, FreshRow, IdsAreFresh, TypeOK, localVars, drainVars
  <2>2. \A i \in DOMAIN batch : i \in DOMAIN outbox
      BY <1>0 DEF BatchFollowsTable
  <2> QED
      BY <2>1, <2>2 DEF VersionsFollowSaves
<1>7. CASE DrainTick
  <2>1. batch' = ListDue(outbox, now) /\ UNCHANGED <<outbox, version, cmd>>
      BY <1>7 DEF DrainTick, Begin, tableVars, localVars
  <2>2. \A i \in DOMAIN batch' : i \in DOMAIN outbox /\ batch'[i] = outbox[i]
      BY <2>1, ListDueCopies
  <2> QED
      BY <1>2, <2>1, <2>2 DEF VersionsFollowSaves
<1>8. CASE SettleSent \/ SettleFailed \/ SettleDeleteFails \/ SettleRecordFails
  <2>1. /\ DOMAIN batch' \subseteq DOMAIN batch \ {cur}
        /\ \A i \in DOMAIN batch' : batch'[i] = batch[i]
      BY <1>0, <1>8, NextRowKeeps DEF SettleSent, SettleFailed, SettleDeleteFails, SettleRecordFails
  <2>2. UNCHANGED <<version, cmd>>
      BY <1>8 DEF SettleSent, SettleFailed, SettleDeleteFails, SettleRecordFails, localVars
  <2>3. /\ DOMAIN outbox' \subseteq DOMAIN outbox /\ DOMAIN outbox \subseteq DOMAIN outbox' \cup {cur}
        /\ \A i \in DOMAIN outbox' :
              /\ outbox'[i].op = outbox[i].op /\ outbox'[i].key = outbox[i].key
              /\ outbox'[i].account = outbox[i].account /\ outbox'[i].payload = outbox[i].payload
    <3>1. CASE SettleFailed
      <4>1. PICK delay \in Delays :
               outbox' = RecordFailure(outbox, cur, batch[cur].attempts, now, delay)
          BY <3>1 DEF SettleFailed
      <4> QED
          BY <1>1, <4>1, FailureFields
    <3>2. CASE ~SettleFailed
        BY <1>8, <3>2 DEF SettleSent, SettleDeleteFails, SettleRecordFails, Delete, tableVars
    <3> QED
        BY <3>1, <3>2
  <2>4. \A i \in DOMAIN batch' : i \in DOMAIN outbox'
      BY <1>0, <2>1, <2>3 DEF BatchFollowsTable
  <2> QED
      BY <2>1, <2>2, <2>3, <2>4 DEF VersionsFollowSaves
<1>9. CASE Crash
  <2>1. DOMAIN batch' = {} /\ cmd' = NULL /\ UNCHANGED <<outbox, version>>
      BY <1>9 DEF Crash, Idle, tableVars, localVars
  <2> QED
      BY <2>1 DEF VersionsFollowSaves
<1>10. ASSUME UNCHANGED <<outbox, batch, version>>, cmd' = cmd \/ cmd' = NULL
       PROVE  VersionsFollowSaves'
    BY <1>10 DEF VersionsFollowSaves
<1>11. CASE Tick \/ UNCHANGED vars \/ SaveEnqueueFails \/ SendDeleteDraft \/ SendDeleteFails
            \/ \E d \in Drafts : DraftsDelete(d)
    BY <1>10, <1>11 DEF Tick, vars, SaveEnqueueFails, SendDeleteDraft, SendDeleteFails, DraftsDelete,
       tableVars, localVars, drainVars
<1>12. CASE \/ DispatchFails \/ Submit \/ SubmitReplyLost \/ ReadServerId \/ UploadReplyLost
            \/ UploadAndDestroy \/ UploadOnly \/ UploadDestroyFails
            \/ RecordServerId \/ RecordServerIdFails
    BY <1>10, <1>12 DEF DispatchFails, Submit, SubmitReplyLost, ReadServerId, UploadReplyLost,
       UploadAndDestroy, UploadOnly, UploadDestroyFails, Upload, RecordServerId,
       RecordServerIdFails, tableVars, localVars
<1> QED
    BY <1>3, <1>4, <1>5, <1>6, <1>7, <1>8, <1>9, <1>11, <1>12 DEF Next, Command, DrainStep

(* A step that writes an upload row writes the last save's version.          *)
LEMMA RowsAfter ==
    ASSUME IInv, VersionsFollowSaves, [Next]_vars
    PROVE  /\ \A d \in Drafts : version'[d] = version[d] \/ version'[d] = version[d] + 1
           /\ \A i \in DOMAIN outbox' : outbox'[i].op = "save_draft" =>
                 \/ /\ i \in DOMAIN outbox /\ outbox[i].op = "save_draft"
                    /\ outbox'[i].account = outbox[i].account
                    /\ outbox'[i].payload = outbox[i].payload
                 \/ outbox'[i].payload.ver = version[outbox'[i].payload.draft]
<1>0. TypeOK /\ IdsAreFresh
    BY DEF IInv
<1>1. /\ outbox \in [DOMAIN outbox -> Rows] /\ version \in [Drafts -> Nat]
      /\ cmd \in Commands \cup {NULL}
    BY <1>0 DEF TypeOK
<1>2. \A d \in Drafts : version'[d] = version[d] \/ version'[d] = version[d] + 1
  <2>1. ASSUME NEW d \in Drafts, NEW a \in Accounts, NEW to \in BOOLEAN, SaveUpsert(d, a, to)
        PROVE  version' = [version EXCEPT ![d] = version[d] + 1]
      BY <2>1 DEF SaveUpsert
  <2>2. \/ UNCHANGED version
        \/ \E d \in Drafts : version' = [version EXCEPT ![d] = version[d] + 1]
      BY <2>1 DEF Next, Command, DrainStep, Tick, Crash, vars, localVars, SaveLookup, SaveWrite,
         SaveEnqueueFails, SendEnqueue, SendDeleteDraft, SendDeleteFails, DraftsDelete, DrainTick,
         DispatchFails, Submit, SubmitReplyLost, ReadServerId, UploadAndDestroy, UploadOnly,
         UploadDestroyFails, Upload, UploadReplyLost, RecordServerId, RecordServerIdFails,
         SettleSent, SettleDeleteFails, SettleFailed, SettleRecordFails
  <2> QED
      BY <1>1, <2>2
<1> SUFFICES ASSUME NEW i \in DOMAIN outbox', outbox'[i].op = "save_draft"
             PROVE  \/ /\ i \in DOMAIN outbox /\ outbox[i].op = "save_draft"
                       /\ outbox'[i].account = outbox[i].account
                       /\ outbox'[i].payload = outbox[i].payload
                    \/ outbox'[i].payload.ver = version[outbox'[i].payload.draft]
    BY <1>2
<1>3. CASE SaveWrite
  <2>1. /\ cmd # NULL /\ cmd.name = "save" /\ cmd.ver = version[cmd.draft]
      BY <1>3 DEF SaveWrite, VersionsFollowSaves
  <2>2. Payload(cmd.draft, cmd.ver).draft = cmd.draft
        /\ Payload(cmd.draft, cmd.ver).ver = version[cmd.draft]
      BY <2>1 DEF Payload
  <2>3. CASE cmd.row = NULL
    <3>1. /\ outbox' = Insert(outbox, nextId, FreshRow(cmd.account, "save_draft",
                                 Payload(cmd.draft, cmd.ver), cmd.draft, now))
        BY <1>3, <2>3 DEF SaveWrite
    <3>2. \/ outbox'[i].payload = Payload(cmd.draft, cmd.ver)
          \/ i \in DOMAIN outbox /\ outbox'[i] = outbox[i]
        BY <3>1 DEF Insert, FreshRow
    <3> QED
        BY <2>2, <3>2
  <2>4. CASE cmd.row # NULL
    <3>1. outbox' = Overwrite(outbox, cmd.row, Payload(cmd.draft, cmd.ver), now)
        BY <1>3, <2>4 DEF SaveWrite
    <3>2. /\ i \in DOMAIN outbox /\ (i # cmd.row => outbox'[i] = outbox[i])
          /\ i = cmd.row => outbox'[i].payload = Payload(cmd.draft, cmd.ver)
        BY <1>1, <3>1, OverwriteFields
    <3> QED
        BY <2>2, <3>2
  <2> QED
      BY <2>3, <2>4
<1>4. ASSUME NEW d \in Drafts, SendEnqueue(d)
      PROVE  i \in DOMAIN outbox /\ outbox'[i] = outbox[i]
    BY <1>4 DEF SendEnqueue, Insert, FreshRow
<1>5. CASE SettleFailed
  <2>1. PICK delay \in Delays :
           outbox' = RecordFailure(outbox, cur, batch[cur].attempts, now, delay)
      BY <1>5 DEF SettleFailed
  <2>2. /\ i \in DOMAIN outbox /\ outbox'[i].op = outbox[i].op
        /\ outbox'[i].account = outbox[i].account /\ outbox'[i].payload = outbox[i].payload
      BY <1>1, <2>1, FailureFields
  <2> QED
      BY <2>2
<1>6. CASE SettleSent
    BY <1>6 DEF SettleSent, Delete
<1>7. ASSUME NEW d \in Drafts, NEW a \in Accounts, NEW to \in BOOLEAN, SaveUpsert(d, a, to)
      PROVE  UNCHANGED outbox
    BY <1>7 DEF SaveUpsert, tableVars
<1> QED
    BY <1>3, <1>4, <1>5, <1>6, <1>7
    DEF Next, Command, DrainStep, Tick, Crash, vars, tableVars, SaveLookup, SaveEnqueueFails,
        SendDeleteDraft, SendDeleteFails, DraftsDelete, DrainTick, DispatchFails, Submit,
        SubmitReplyLost, ReadServerId, UploadAndDestroy, UploadOnly, UploadDestroyFails, Upload,
        UploadReplyLost, RecordServerId, RecordServerIdFails, SettleDeleteFails,
        SettleRecordFails

(* Of the drain's rows after a step: they are its own or fresh copies; and   *)
(* what it is about to record is what it uploaded.                           *)
LEMMA BatchAfter ==
    ASSUME IInv, [Next]_vars
    PROVE  /\ \A i \in DOMAIN batch' : \/ i \in DOMAIN batch /\ batch'[i] = batch[i]
                                       \/ i \in DOMAIN outbox /\ batch'[i] = outbox[i]
           /\ pc' = "record" => /\ UNCHANGED <<batch, cur>>
                                /\ copyId' = NewCopy.id \/ UNCHANGED <<pc, copyId>>
<1>0. TypeOK
    BY DEF IInv
<1>1. CASE Command \/ Tick \/ UNCHANGED vars
    BY <1>1 DEF Command, Tick, vars, drainVars, SaveUpsert, SaveLookup, SaveWrite, SaveEnqueueFails,
       SendEnqueue, SendDeleteDraft, SendDeleteFails, DraftsDelete
<1>2. CASE DrainTick
  <2>1. batch' = ListDue(outbox, now) /\ pc' = "dispatch"
      BY <1>2 DEF DrainTick, Begin
  <2> QED
      BY <2>1, ListDueCopies
<1>3. CASE \/ DispatchFails \/ Submit \/ SubmitReplyLost \/ ReadServerId \/ UploadReplyLost
           \/ UploadAndDestroy \/ UploadOnly \/ UploadDestroyFails
           \/ RecordServerId \/ RecordServerIdFails
    BY <1>3 DEF DispatchFails, Submit, SubmitReplyLost, ReadServerId, UploadReplyLost,
       UploadAndDestroy, UploadOnly, UploadDestroyFails, Upload, RecordServerId,
       RecordServerIdFails, Replies
<1>4. CASE SettleSent \/ SettleFailed \/ SettleDeleteFails \/ SettleRecordFails
    BY <1>0, <1>4, NextRowKeeps DEF SettleSent, SettleFailed, SettleDeleteFails, SettleRecordFails
<1>5. CASE Crash
    BY <1>5 DEF Crash, Idle
<1> QED
    BY <1>1, <1>2, <1>3, <1>4, <1>5 DEF Next, DrainStep

(* The row of an upload is never behind the copy it replaces.                *)
LEMMA UploadsStep ==
    ASSUME IInv, VersionsFollowSaves, UploadsAreNewer, [Next]_vars
    PROVE  UploadsAreNewer'
<1>0. TypeOK /\ TypeOK' /\ DrainControl /\ BatchFollowsTable /\ OneUploadRowPerDraft
    BY TypeStep DEF IInv
<1>1. /\ \A i \in DOMAIN outbox : outbox[i].payload.draft \in Drafts /\ outbox[i].payload.ver \in Nat
      /\ \A i \in DOMAIN outbox' : outbox'[i].payload.draft \in Drafts
                                   /\ outbox'[i].payload.ver \in Nat
      /\ \A i \in DOMAIN batch : batch[i].payload.draft \in Drafts /\ batch[i].payload.ver \in Nat
      /\ \A i \in DOMAIN batch' : batch'[i].payload.draft \in Drafts
      /\ \A d \in Drafts : version[d] \in Nat /\ version'[d] \in Nat
      /\ \A d \in Drafts : HasServerId(d, drafts) => drafts[d].server.ver \in Nat
    BY <1>0 DEF TypeOK, Rows, DraftRows, CopyIds, HasServerId
<1>2. pc' = "record" => copyId'.account = batch'[cur'].account
                        /\ copyId'.ver = batch'[cur'].payload.ver
    BY BatchAfter DEF UploadsAreNewer, NewCopy
<1>3. CASE ~RecordServerId
  <2>1. \A d \in Drafts : HasServerId(d, drafts') =>
           HasServerId(d, drafts) /\ drafts'[d].server = drafts[d].server
      BY <1>0, <1>3, ServerIdsStay DEF HasServerId
  <2>2. \A d \in Drafts : HasServerId(d, drafts') => drafts'[d].server.ver <= version'[d]
      BY <1>1, <2>1, RowsAfter DEF UploadsAreNewer
  <2>3. \A r : r.payload.draft \in Drafts /\ RowIsNewer(r, drafts) => RowIsNewer(r, drafts')
      BY <2>1 DEF RowIsNewer
  <2>4. ASSUME NEW i \in DOMAIN outbox' PROVE RowIsNewer(outbox'[i], drafts')
    <3>1. CASE outbox'[i].op # "save_draft"
        BY <3>1 DEF RowIsNewer
    <3>2. CASE /\ i \in DOMAIN outbox /\ outbox[i].op = "save_draft"
               /\ outbox'[i].account = outbox[i].account /\ outbox'[i].payload = outbox[i].payload
      <4>1. RowIsNewer(outbox[i], drafts) /\ outbox[i].payload.draft \in Drafts
          BY <1>1, <3>2 DEF UploadsAreNewer
      <4> QED
          BY <2>1, <3>2, <4>1 DEF RowIsNewer
    <3>3. CASE outbox'[i].payload.ver = version[outbox'[i].payload.draft]
      <4>1. outbox'[i].payload.draft \in Drafts
          BY <1>1
      <4>2. HasServerId(outbox'[i].payload.draft, drafts') =>
               drafts'[outbox'[i].payload.draft].server.ver <= outbox'[i].payload.ver
          BY <2>1, <3>3, <4>1 DEF UploadsAreNewer
      <4> QED
          BY <4>2 DEF RowIsNewer
    <3> QED
        BY <3>1, <3>2, <3>3, RowsAfter
  <2>5. \A i \in DOMAIN batch' : RowIsNewer(batch'[i], drafts')
    <3>1. \A i \in DOMAIN batch' : RowIsNewer(batch'[i], drafts)
        BY BatchAfter DEF UploadsAreNewer
    <3> QED
        BY <1>1, <2>3, <3>1
  <2> QED
      BY <1>2, <2>2, <2>4, <2>5 DEF UploadsAreNewer
<1>4. CASE RecordServerId
  <2> DEFINE d == batch[cur].payload.draft
  <2>1. /\ pc = "record" /\ pc' = "settle" /\ UNCHANGED <<outbox, batch, cur, version>>
        /\ drafts' = IF drafts[d] = NULL THEN drafts ELSE [drafts EXCEPT ![d].server = copyId]
      BY <1>4 DEF RecordServerId, Replies, tableVars
  <2>2. /\ cur \in DOMAIN batch /\ cur \in DOMAIN outbox /\ outbox[cur].op = "save_draft"
        /\ batch[cur].op = "save_draft" /\ d \in Drafts
        /\ copyId.account = batch[cur].account /\ copyId.ver = batch[cur].payload.ver
      BY <1>0, <1>1, <2>1 DEF DrainControl, BatchFollowsTable, UploadsAreNewer
  <2>3. /\ outbox[cur].account = batch[cur].account /\ outbox[cur].payload.draft = d
        /\ batch[cur].payload.ver <= outbox[cur].payload.ver /\ outbox[cur].key = d
        /\ outbox[cur].payload.ver <= version[d]
      BY <2>2 DEF VersionsFollowSaves
  <2>4. \A e \in Drafts : HasServerId(e, drafts') =>
           \/ e = d /\ drafts'[e].server = copyId
           \/ HasServerId(e, drafts) /\ drafts'[e].server = drafts[e].server
    <3>1. drafts \in [Drafts -> DraftRows \cup {NULL}]
        BY <1>0 DEF TypeOK
    <3>2. CASE drafts[d] = NULL
        BY <2>1, <3>2 DEF HasServerId
    <3>3. CASE drafts[d] # NULL
        BY <2>1, <3>1, <3>3 DEF HasServerId, DraftRows
    <3> QED
        BY <3>2, <3>3
  <2>5. \A e \in Drafts : HasServerId(e, drafts') => drafts'[e].server.ver <= version'[e]
    <3>1. copyId.ver <= version[d]
        BY <1>1, <2>2, <2>3
    <3> QED
        BY <2>1, <2>4, <3>1 DEF UploadsAreNewer
  <2>6. ASSUME NEW i \in DOMAIN outbox, outbox[i].op = "save_draft",
               outbox[i].account = batch[cur].account, outbox[i].payload.draft = d
        PROVE  i = cur
    <3>1. outbox[i].key = outbox[i].payload.draft
        BY <2>6 DEF VersionsFollowSaves
    <3>2. outbox[i].key # NULL
        BY <2>2, <2>6, <3>1, DraftsAssumption
    <3> QED
        BY <1>0, <2>2, <2>3, <2>6, <3>1, <3>2 DEF OneUploadRowPerDraft
  <2>7. ASSUME NEW i \in DOMAIN outbox PROVE RowIsNewer(outbox[i], drafts')
    <3>1. CASE /\ outbox[i].op = "save_draft" /\ outbox[i].payload.draft = d
               /\ drafts'[d].server = copyId /\ outbox[i].account = copyId.account
      <4>1. i = cur
          BY <2>2, <2>6, <3>1
      <4> QED
          BY <2>2, <2>3, <3>1, <4>1 DEF RowIsNewer
    <3>2. RowIsNewer(outbox[i], drafts) /\ outbox[i].payload.draft \in Drafts
        BY <1>1 DEF UploadsAreNewer
    <3> QED
        BY <2>4, <3>1, <3>2 DEF RowIsNewer
  <2>8. ASSUME NEW i \in DOMAIN batch PROVE RowIsNewer(batch[i], drafts')
    <3>1. CASE /\ batch[i].op = "save_draft" /\ batch[i].payload.draft = d
               /\ drafts'[d].server = copyId /\ batch[i].account = copyId.account
      <4>1. /\ i \in DOMAIN outbox /\ outbox[i].op = "save_draft"
            /\ outbox[i].account = batch[i].account /\ outbox[i].payload.draft = d
          BY <1>0, <3>1 DEF BatchFollowsTable, VersionsFollowSaves
      <4>2. i = cur
          BY <2>2, <2>6, <3>1, <4>1
      <4> QED
          BY <1>1, <2>2, <3>1, <4>2 DEF RowIsNewer
    <3>2. RowIsNewer(batch[i], drafts) /\ batch[i].payload.draft \in Drafts
        BY <1>1 DEF UploadsAreNewer
    <3> QED
        BY <2>4, <3>1, <3>2 DEF RowIsNewer
  <2> QED
      BY <1>2, <2>1, <2>5, <2>7, <2>8 DEF UploadsAreNewer
<1> QED
    BY <1>3, <1>4

(* The one step that changes a recorded server id replaces it by that of a   *)
(* version that is no older.                                                 *)
LEMMA RecordingRises ==
    ASSUME IInv, VersionsFollowSaves, UploadsAreNewer, [Next]_vars,
           NEW d \in Drafts, HasServerId(d, drafts), drafts'[d] # NULL,
           drafts[d].server.account = drafts'[d].server.account
    PROVE  drafts[d].server.ver <= drafts'[d].server.ver
<1>0. TypeOK /\ DrainControl
    BY DEF IInv
<1>1. CASE ~RecordServerId
  <2>1. drafts[d].server.ver \in Nat
      BY <1>0 DEF TypeOK, DraftRows, CopyIds, HasServerId
  <2>2. drafts'[d].server = drafts[d].server
      BY <1>0, <1>1, ServerIdsStay DEF HasServerId
  <2> QED
      BY <2>1, <2>2
<1>2. CASE RecordServerId
  <2> DEFINE e == batch[cur].payload.draft
  <2>1. /\ pc = "record" /\ batch[cur].op = "save_draft" /\ cur \in DOMAIN batch
        /\ drafts' = IF drafts[e] = NULL THEN drafts ELSE [drafts EXCEPT ![e].server = copyId]
      BY <1>0, <1>2 DEF RecordServerId, DrainControl
  <2>2. RowIsNewer(batch[cur], drafts) /\ copyId.account = batch[cur].account
        /\ copyId.ver = batch[cur].payload.ver
      BY <2>1 DEF UploadsAreNewer
  <2>3. \/ drafts'[d] = drafts[d]
        \/ d = e /\ drafts'[d].server = copyId
    <3>1. drafts \in [Drafts -> DraftRows \cup {NULL}]
        BY <1>0 DEF TypeOK
    <3> QED
        BY <2>1, <3>1 DEF DraftRows
  <2>4. drafts[d].server.ver \in Nat
      BY <1>0 DEF TypeOK, DraftRows, CopyIds, HasServerId
  <2> QED
      BY <2>1, <2>2, <2>3, <2>4 DEF RowIsNewer
<1> QED
    BY <1>1, <1>2

(* IInv holds in every state of every behaviour: the queue's tables, the     *)
(* drain's copy of them and the server's count of each message agree.        *)
THEOREM Consistent == Spec => []IInv
<1> QED
    BY InitIInv, QueueStep, PTL DEF Spec

(* The tables, the drain's registers and the server's state are well typed.  *)
THEOREM Typed == Spec => []TypeOK
<1>1. IInv => TypeOK
    BY DEF IInv
<1> QED
    BY <1>1, Consistent, PTL

(* messages_send and process_one never lose a message: until the server has  *)
(* taken it, its row is in the table, through crashes and failed statements. *)
THEOREM NothingSentIsLost == Spec => []SentMailIsNeverLost
<1>1. IInv => SentMailIsNeverLost
    BY DEF IInv
<1> QED
    BY <1>1, Consistent, PTL

(* Each time the server takes a message again, the news of an earlier time   *)
(* had been lost: the drain never repeats a dispatch it knows went through.  *)
THEOREM DuplicatesAreAccountedFor == Spec => []DuplicatesNeedLostNews
<1>1. IInv => DuplicatesNeedLostNews
    BY DEF IInv, TypeOK, TakenIsAccountedFor, DuplicatesNeedLostNews
<1> QED
    BY <1>1, Consistent, PTL

(* enqueue_dedup's separate SELECT and INSERT never give a draft two rows,   *)
(* although the drain runs between them.                                     *)
THEOREM DedupIsSound == Spec => []OneUploadRowPerDraft
<1>1. IInv => OneUploadRowPerDraft
    BY DEF IInv
<1> QED
    BY <1>1, Consistent, PTL

(* A message goes to the dead-letter queue on its MAX_ATTEMPTS-th recorded   *)
(* failure, neither sooner nor later.                                        *)
THEOREM SubmitGivesUpOnTime == Spec => []SubmitDeadMeansExhausted
<1>1. IInv => SubmitDeadMeansExhausted
    BY DEF IInv, RowsAreRegular, SubmitDeadMeansExhausted
<1> QED
    BY <1>1, Consistent, PTL

(* Dedup and dead-lettering are right, for every number of accounts, drafts  *)
(* and attempts, although each decides on what an earlier statement read.    *)
THEOREM RowsStaySound == Spec => []RowsAreSound
<1> QED
    BY DedupIsSound, SubmitGivesUpOnTime, PTL DEF RowsAreSound

(* DInv holds in every state of every behaviour: what the drafts table, the  *)
(* upload rows, the drain and the server's Drafts say of a draft agrees.     *)
THEOREM DraftsConsistent == Spec => []DInv
<1>1. IInv /\ DInv /\ [Next]_vars => DInv'
    BY CopiesStep, VersionsStep, UploadsStep DEF DInv
<1> QED
    BY <1>1, InitDInv, Consistent, PTL DEF Spec

(* save_draft appends before it destroys and never destroys another draft's  *)
(* copy, so a draft with a server id has a copy on the server, whatever      *)
(* fails between the two or before the id is recorded.                       *)
THEOREM DraftsAlwaysHaveACopy == Spec => []NeverZeroCopies
<1>1. DInv => NeverZeroCopies
    BY DEF DInv
<1> QED
    BY <1>1, DraftsConsistent, PTL

(* set_server_id never points a draft back at an older version on the same   *)
(* account: an account has one upload row for it, and a save only raises the *)
(* version that row carries.                                                 *)
THEOREM UploadsOnlyRise == Spec => UploadsNeverGoBack
<1> DEFINE Rises == \A d \in Drafts :
                       /\ drafts[d] # NULL /\ drafts'[d] # NULL
                       /\ drafts[d].server # NULL
                       /\ drafts[d].server.account = drafts'[d].server.account
                       => drafts[d].server.ver <= drafts'[d].server.ver
<1>1. IInv /\ DInv /\ [Next]_vars => Rises
    BY RecordingRises DEF DInv, HasServerId
<1>2. UploadsNeverGoBack <=> [][Rises]_vars
    BY DEF UploadsNeverGoBack
<1> HIDE DEF Rises
<1> QED
    BY <1>1, <1>2, Consistent, DraftsConsistent, PTL DEF Spec

-----------------------------------------------------------------------------
(* The commands, the drain and the failures of module Outbox implement       *)
(* module Submission, for all drafts, accounts, bounds and delays.           *)

SameMessage(i) == StatusOf(i)' = StatusOf(i) /\ TakenOf(i)' = TakenOf(i)

(* The four things Submission lets happen to a message. *)
Moves(m) ==
    \/ /\ StatusOf(m) = "unsent" /\ StatusOf(m)' = "queued"
       /\ TakenOf(m)' = TakenOf(m)
    \/ /\ StatusOf(m) = "queued" /\ StatusOf(m)' = "queued"
       /\ TakenOf(m)' = TakenOf(m) + 1
    \/ /\ StatusOf(m) = "queued" /\ StatusOf(m)' \in {"delivered", "dead"}
       /\ StatusOf(m)' = "delivered" => TakenOf(m) > 0
       /\ TakenOf(m)' = TakenOf(m)

(* A step of the system concerns at most one message. *)
LEMMA OneMessageMoves ==
    ASSUME IInv, [Next]_vars
    PROVE  \/ \A i : SameMessage(i)
           \/ \E m \in Nat : Moves(m) /\ \A i : i # m => SameMessage(i)
<1>0. /\ TypeOK /\ IdsAreFresh /\ RowsAreRegular /\ DrainControl /\ BatchFollowsTable
      /\ TakenIsAccountedFor /\ SaveSawTheTable
    BY DEF IInv
<1>u. outbox \in [DOMAIN outbox -> Rows] /\ now \in Nat
    BY <1>0 DEF TypeOK
<1>a. ASSUME UNCHANGED accepted,
             DOMAIN outbox' \cap DOMAIN accepted = DOMAIN outbox \cap DOMAIN accepted,
             \A i \in DOMAIN outbox \cap DOMAIN accepted : outbox'[i] = outbox[i]
      PROVE  \A i : SameMessage(i)
    BY <1>a DEF SameMessage, StatusOf, TakenOf, IsDead
<1>1. CASE UNCHANGED <<outbox, accepted>>
    BY <1>1, <1>a
<1>2. CASE SaveWrite
  <2>1. UNCHANGED accepted
      BY <1>2 DEF SaveWrite, serverVars
  <2>2. CASE cmd.row = NULL
      BY <1>0, <1>2, <1>a, <2>1, <2>2 DEF SaveWrite, Insert, IdsAreFresh, TypeOK
  <2>3. CASE cmd.row # NULL
    <3> DEFINE p == Payload(cmd.draft, cmd.ver)
    <3>1. /\ outbox' = Overwrite(outbox, cmd.row, p, now)
          /\ cmd.row \in DOMAIN outbox => outbox[cmd.row].op = "save_draft"
        BY <1>0, <1>2, <2>3 DEF SaveWrite, SaveSawTheTable, TypeOK
    <3> HIDE DEF p
    <3>2. DOMAIN outbox' = DOMAIN outbox
          /\ \A i \in DOMAIN outbox : i # cmd.row => outbox'[i] = outbox[i]
        BY <1>u, <3>1, OverwriteFields
    <3> QED
        BY <1>0, <1>a, <2>1, <3>1, <3>2 DEF RowsAreRegular
  <2> QED
      BY <2>2, <2>3
<1>3. ASSUME NEW d \in Drafts, SendEnqueue(d)
      PROVE  \E m \in Nat : Moves(m) /\ \A i : i # m => SameMessage(i)
  <2>0. PICK m \in Nat : m = nextId
      BY <1>0 DEF TypeOK
  <2>1. /\ DOMAIN outbox' = DOMAIN outbox \cup {nextId}
        /\ outbox'[nextId].next = now
        /\ \A i \in DOMAIN outbox : i # nextId /\ outbox'[i] = outbox[i]
      BY <1>0, <1>3 DEF SendEnqueue, Insert, FreshRow, IdsAreFresh, TypeOK
  <2>2. /\ DOMAIN accepted' = DOMAIN accepted \cup {nextId}
        /\ accepted'[nextId] = 0
        /\ \A i \in DOMAIN accepted : i # nextId /\ accepted'[i] = accepted[i]
      BY <1>0, <1>3 DEF SendEnqueue, Insert, IdsAreFresh, TypeOK
  <2>3. \A i : i # m => SameMessage(i)
      BY <2>0, <2>1, <2>2 DEF SameMessage, StatusOf, TakenOf, IsDead
  <2>4. Moves(m)
    <3>1. StatusOf(m) = "unsent" /\ TakenOf(m)' = TakenOf(m)
        BY <2>0, <2>2 DEF StatusOf, TakenOf
    <3>2. m \in DOMAIN outbox' /\ m \in DOMAIN accepted' /\ outbox'[m].next # NULL
        BY <1>u, <2>0, <2>1, <2>2, NullAssumption
    <3> QED
        BY <3>1, <3>2 DEF Moves, StatusOf, IsDead
  <2> QED
      BY <2>3, <2>4
<1>4. ASSUME Submit \/ SubmitReplyLost
      PROVE  \E m \in Nat : Moves(m) /\ \A i : i # m => SameMessage(i)
  <2>1. /\ cur \in DOMAIN accepted /\ cur \in DOMAIN outbox /\ ~IsDead(outbox[cur])
        /\ cur \in Nat /\ accepted[cur] \in Nat
      BY <1>0, <1>4 DEF Submit, SubmitReplyLost, DrainControl, BatchFollowsTable,
         RowsAreRegular, TypeOK
  <2>2. /\ DOMAIN accepted' = DOMAIN accepted
        /\ accepted'[cur] = accepted[cur] + 1
        /\ \A i \in DOMAIN accepted : i # cur => accepted'[i] = accepted[i]
        /\ UNCHANGED outbox
      BY <1>0, <1>4, <2>1 DEF Submit, SubmitReplyLost, TypeOK, tableVars
  <2>3. PICK m \in Nat : m = cur
      BY <2>1
  <2>4. Moves(m)
      BY <2>1, <2>2, <2>3 DEF Moves, StatusOf, TakenOf, IsDead
  <2>5. \A i : i # m => SameMessage(i)
      BY <2>2, <2>3 DEF SameMessage, StatusOf, TakenOf, IsDead
  <2> QED
      BY <2>4, <2>5
<1>5. CASE SettleSent
  <2>1. /\ DOMAIN outbox' = DOMAIN outbox \ {cur}
        /\ \A i \in DOMAIN outbox' : outbox'[i] = outbox[i]
        /\ UNCHANGED accepted
      BY <1>5 DEF SettleSent, Delete, serverVars
  <2>2. CASE cur \notin DOMAIN accepted
      BY <1>a, <2>1, <2>2
  <2>3. CASE cur \in DOMAIN accepted
    <3>1. /\ cur \in DOMAIN outbox /\ ~IsDead(outbox[cur]) /\ cur \in Nat
          /\ accepted[cur] > 0
        BY <1>0, <1>5, <2>3 DEF SettleSent, DrainControl, BatchFollowsTable, RowsAreRegular,
           TakenIsAccountedFor, NewsPending, TypeOK
    <3>2. PICK m \in Nat : m = cur
        BY <3>1
    <3>3. Moves(m)
        BY <2>1, <2>3, <3>1, <3>2 DEF Moves, StatusOf, TakenOf
    <3>4. \A i : i # m => SameMessage(i)
        BY <2>1, <3>2 DEF SameMessage, StatusOf, TakenOf, IsDead
    <3> QED
        BY <3>3, <3>4
  <2> QED
      BY <2>2, <2>3
<1>6. CASE SettleFailed
  <2>1. PICK delay \in Delays :
           outbox' = RecordFailure(outbox, cur, batch[cur].attempts, now, delay)
      BY <1>6 DEF SettleFailed
  <2>2. UNCHANGED accepted
      BY <1>6 DEF SettleFailed, serverVars
  <2>3. /\ DOMAIN outbox' = DOMAIN outbox
        /\ \A i \in DOMAIN outbox : i # cur => outbox'[i] = outbox[i]
      BY <1>u, <2>1, FailureFields
  <2>4. CASE cur \notin DOMAIN accepted
      BY <1>a, <2>2, <2>3, <2>4
  <2>5. CASE cur \in DOMAIN accepted
    <3>1. cur \in DOMAIN outbox /\ ~IsDead(outbox[cur]) /\ cur \in Nat
        BY <1>0, <1>6, <2>5 DEF SettleFailed, DrainControl, BatchFollowsTable, RowsAreRegular,
           TypeOK
    <3>2. PICK m \in Nat : m = cur
        BY <3>1
    <3>3. \A i : i # m => SameMessage(i)
        BY <2>2, <2>3, <3>2 DEF SameMessage, StatusOf, TakenOf, IsDead
    <3>4. Moves(m) \/ SameMessage(m)
        BY <2>2, <2>3, <2>5, <3>1, <3>2 DEF Moves, SameMessage, StatusOf, TakenOf
    <3> QED
        BY <3>3, <3>4
  <2> QED
      BY <2>4, <2>5
<1> QED
    BY <1>1, <1>2, <1>3, <1>4, <1>5, <1>6
    DEF Next, Command, DrainStep, vars, Tick, SaveUpsert, SaveLookup, SaveEnqueueFails,
        SendDeleteDraft, SendDeleteFails, DraftsDelete, DrainTick, DispatchFails, ReadServerId,
        UploadAndDestroy, UploadOnly, UploadDestroyFails, Upload, UploadReplyLost,
        RecordServerId, RecordServerIdFails, SettleDeleteFails, SettleRecordFails, Crash,
        tableVars, localVars, drainVars, serverVars

(* Seen through StatusOf and TakenOf, every step is a step of Submission or  *)
(* no step.                                                                  *)
LEMMA StepImplements ==
    ASSUME IInv, [Next]_vars
    PROVE  [Sub!Next]_<<[i \in 1 .. MaxRows |-> StatusOf(i)],
                        [i \in 1 .. MaxRows |-> TakenOf(i)]>>
<1>1. CASE \A i : SameMessage(i)
    BY <1>1 DEF SameMessage
<1>2. ASSUME NEW m \in Nat, Moves(m), \A i : i # m => SameMessage(i)
      PROVE  [Sub!Next]_<<[i \in 1 .. MaxRows |-> StatusOf(i)],
                          [i \in 1 .. MaxRows |-> TakenOf(i)]>>
  <2>1. CASE m \notin 1 .. MaxRows
      BY <1>2, <2>1 DEF SameMessage
  <2>2. CASE m \in 1 .. MaxRows
      BY <1>2, <2>2 DEF SameMessage, Moves, Sub!Next, Sub!Queue, Sub!Take, Sub!Deliver,
         Sub!GiveUp
  <2> QED
      BY <2>1, <2>2
<1> QED
    BY <1>1, <1>2, OneMessageMoves

(* Pressing Send keeps its promise: through every failure and crash, a       *)
(* message goes from unsent to queued, and from queued to delivered (taken   *)
(* at least once) or dead-lettered, and never back.                          *)
THEOREM Implements == Spec => KeepsThePromise
<1>1. Init => Sub!Init
    BY DEF Init, Sub!Init, StatusOf, TakenOf
<1> QED
    BY <1>1, StepImplements, Consistent, PTL DEF Spec, KeepsThePromise, Sub!Spec
=============================================================================
