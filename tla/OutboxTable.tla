----------------------------- MODULE OutboxTable -----------------------------
(***************************************************************************)
(* The `outbox` table and the statements crates/storage/src/repos/outbox.rs *)
(* runs against it.  A table is a function from the ids of its rows to the   *)
(* rows; every operator below is one SQL statement, so it is atomic.         *)
(*                                                                           *)
(* Ids are natural numbers handed out in increasing order.  The code draws   *)
(* random ids, but a row's rowid grows with insertion and that is what       *)
(* breaks ties in the scan of the partial index outbox_pending.              *)
(***************************************************************************)
EXTENDS Naturals, FiniteSets

CONSTANTS
    NULL,         \* SQL NULL
    MaxAttempts,  \* MAX_ATTEMPTS
    DueLimit,     \* the LIMIT the engine passes to list_due (32)
    Delays        \* what backoff_seconds may return, in clock units

ASSUME NullAssumption == NULL \notin Nat
ASSUME AttemptsAssumption == MaxAttempts \in Nat \ {0}
ASSUME LimitAssumption == DueLimit \in Nat \ {0}
ASSUME DelaysAssumption == Delays \subseteq Nat \ {0} /\ Delays # {}

IsDead(row) == row.next = NULL

IsDue(t, id, now) == t[id].next # NULL /\ t[id].next <= now

(* ORDER BY next_attempt_at ASC, the index's rowid breaking ties. *)
RunsBefore(t, i, j) ==
    \/ t[i].next < t[j].next
    \/ t[i].next = t[j].next /\ i < j

FreshRow(account, op, payload, key, now) ==
    [account |-> account, op |-> op, payload |-> payload, key |-> key,
     attempts |-> 0, next |-> now]

(* INSERT; the statement behind enqueue and behind enqueue_dedup's new row. *)
Insert(t, id, row) ==
    [i \in DOMAIN t \cup {id} |-> IF i = id THEN row ELSE t[i]]

(* DELETE ... WHERE id; no row is not an error. *)
Delete(t, id) == [i \in DOMAIN t \ {id} |-> t[i]]

(* A bug: a lookup that sees only rows no dispatch has failed for. *)
WithKeyUntried(t, account, op, key) ==
    {i \in DOMAIN t : /\ t[i].account = account /\ t[i].op = op /\ t[i].key = key
                      /\ t[i].attempts = 0}

(* enqueue_dedup's SELECT id ... WHERE account_id, op_kind, dedup_key. *)
WithKey(t, account, op, key) ==
    {i \in DOMAIN t : t[i].account = account /\ t[i].op = op /\ t[i].key = key}

(* enqueue_dedup's UPDATE ... WHERE id; it matches nothing once the row is  *)
(* gone, and reports success all the same.                                  *)
Overwrite(t, id, payload, now) ==
    IF id \in DOMAIN t
    THEN [t EXCEPT ![id].payload = payload, ![id].attempts = 0, ![id].next = now]
    ELSE t

(* list_due: the due rows, oldest first, at most DueLimit of them.  The     *)
(* result is a copy: the drain works from it, not from the table.           *)
ListDue(t, now) ==
    LET due == {i \in DOMAIN t : IsDue(t, i, now)}
        taken == {i \in due : Cardinality({j \in due : RunsBefore(t, j, i)}) < DueLimit}
    IN  [i \in taken |-> t[i]]

(* A bug: the threshold is tested with the wrong comparison. *)
RecordFailureLate(t, id, prev, now, delay) ==
    IF id \notin DOMAIN t THEN t
    ELSE [t EXCEPT ![id].attempts = @ + 1,
                   ![id].next = IF prev + 1 > MaxAttempts THEN NULL ELSE now + delay]

(* record_failure.  prev is the attempts count the CALLER read earlier; the *)
(* statement itself adds one to whatever the row holds now.                 *)
RecordFailure(t, id, prev, now, delay) ==
    IF id \notin DOMAIN t THEN t
    ELSE [t EXCEPT ![id].attempts = @ + 1,
                   ![id].next = IF prev + 1 >= MaxAttempts THEN NULL ELSE now + delay]
=============================================================================
