-------------------------- MODULE OutboxProperties --------------------------
(* What the drafts and the outgoing mail of module Outbox must satisfy. *)
EXTENDS Outbox

Rows == [account  : Accounts,
         op       : {"save_draft", "submit_message"},
         payload  : [draft : Drafts, ver : Nat],
         key      : Drafts \cup {NULL},
         attempts : Nat,
         next     : Nat \cup {NULL}]

CopyIds == [account : Accounts, n : Nat, ver : Nat]

DraftRows == [account : Accounts, ver : Nat, to : BOOLEAN,
              server  : CopyIds \cup {NULL}]

Commands == [name    : {"save", "send"},
             draft   : Drafts,
             account : Accounts,
             ver     : Nat,
             stmt    : {"lookup", "write", "delete"},
             row     : Nat \cup {NULL}]

(* The types of the tables, the drain's registers and the server's state. *)
TypeOK ==
    /\ outbox \in [DOMAIN outbox -> Rows] /\ DOMAIN outbox \subseteq Nat
    /\ nextId \in Nat /\ now \in Nat
    /\ drafts \in [Drafts -> DraftRows \cup {NULL}]
    /\ version \in [Drafts -> Nat]
    /\ queued \in [Drafts -> Nat]
    /\ cmd \in Commands \cup {NULL}
    /\ batch \in [DOMAIN batch -> Rows] /\ DOMAIN batch \subseteq Nat
    /\ cur \in Nat \cup {NULL}
    /\ pc \in {"idle", "dispatch", "upload", "record", "settle"}
    /\ reply \in {"ok", "err", NULL}
    /\ prior \in CopyIds \cup {NULL}
    /\ copyId \in CopyIds \cup {NULL}
    /\ serverDrafts \subseteq [draft : Drafts, id : CopyIds]
    /\ nextCopy \in Nat
    /\ accepted \in [DOMAIN accepted -> Nat] /\ DOMAIN accepted \subseteq Nat
    /\ lost \in [DOMAIN accepted -> Nat]
    /\ mishaps \in Nat

(* A message the user sent is in the table (waiting or dead-lettered) until  *)
(* the submission server has taken it, whatever crashes or fails in between: *)
(* messages_send queues before it deletes the draft, and process_one deletes *)
(* a row only after its dispatch went through.                               *)
SentMailIsNeverLost ==
    \A i \in DOMAIN accepted : i \in DOMAIN outbox \/ accepted[i] > 0

(* The submission server takes a message again only after the news that it   *)
(* had taken it was lost: a broken connection, a crash before the row's      *)
(* DELETE, or a DELETE that failed.  Each such loss costs one duplicate.     *)
DuplicatesNeedLostNews ==
    \A i \in DOMAIN accepted : accepted[i] <= 1 + lost[i]

(* enqueue_dedup's SELECT and INSERT are two statements with no transaction, *)
(* and the drain deletes rows between them; a draft still never has two      *)
(* upload rows for one account.                                              *)
OneUploadRowPerDraft ==
    \A i, j \in DOMAIN outbox :
        /\ outbox[i].key # NULL
        /\ outbox[i].key = outbox[j].key
        /\ outbox[i].account = outbox[j].account
        => i = j

(* save_draft appends before it destroys: a draft whose server id is known   *)
(* has a copy in the server's Drafts, through every failure.                 *)
NeverZeroCopies ==
    \A d \in Drafts :
        drafts[d] # NULL /\ drafts[d].server # NULL
            => \E c \in serverDrafts : c.draft = d

(* On one account, the copy the drafts table points at is never replaced by  *)
(* one of an older version of the draft, although uploads are retried after  *)
(* later saves have overwritten the row.                                     *)
UploadsNeverGoBack ==
    [][\A d \in Drafts :
          /\ drafts[d] # NULL /\ drafts'[d] # NULL
          /\ drafts[d].server # NULL
          /\ drafts[d].server.account = drafts'[d].server.account
          => drafts[d].server.ver <= drafts'[d].server.ver]_vars

(* A message is dead-lettered only after MAX_ATTEMPTS recorded failures:     *)
(* record_failure is handed the count of an earlier read, which for a row    *)
(* that nothing overwrites is still the row's own.                           *)
SubmitDeadMeansExhausted ==
    \A i \in DOMAIN outbox :
        outbox[i].op = "submit_message" /\ IsDead(outbox[i])
            => outbox[i].attempts = MaxAttempts

(* The two statements of enqueue_dedup, and a failure count that is handed   *)
(* on from an earlier read, leave each draft one upload row and no message   *)
(* given up early or tried again when it is dead.                            *)
RowsAreSound == OneUploadRowPerDraft /\ SubmitDeadMeansExhausted

Pending(i) == i \in DOMAIN outbox /\ ~IsDead(outbox[i])

MaxRows == 2 * MaxVersions * Cardinality(Drafts) + MaxMishaps

(* No row waits for ever: it is delivered and deleted, or dead-lettered.     *)
EveryRowSettles == \A i \in 1 .. MaxRows : Pending(i) ~> ~Pending(i)

(* The queue seen from outside: a message is a submit row's id. *)
StatusOf(i) ==
    IF i \notin DOMAIN accepted THEN "unsent"
    ELSE IF i \notin DOMAIN outbox THEN "delivered"
    ELSE IF IsDead(outbox[i]) THEN "dead" ELSE "queued"

TakenOf(i) == IF i \in DOMAIN accepted THEN accepted[i] ELSE 0

Sub == INSTANCE Submission WITH
           Messages <- 1 .. MaxRows,
           status <- [i \in 1 .. MaxRows |-> StatusOf(i)],
           taken <- [i \in 1 .. MaxRows |-> TakenOf(i)]

(* Commands, drain, failures and crashes together keep the promise of        *)
(* module Submission.                                                        *)
KeepsThePromise == Sub!Spec

-----------------------------------------------------------------------------
(* The strengthening that makes the invariants above inductive. *)

IdsAreFresh == \A i \in DOMAIN outbox \cup DOMAIN accepted : i < nextId

RowsAreRegular ==
    \A i \in DOMAIN outbox :
        /\ i \in DOMAIN accepted <=> outbox[i].op = "submit_message"
        /\ outbox[i].op = "submit_message" =>
              /\ outbox[i].key = NULL
              /\ IF IsDead(outbox[i]) THEN outbox[i].attempts = MaxAttempts
                                      ELSE outbox[i].attempts < MaxAttempts

DrainControl ==
    /\ pc = "idle" => DOMAIN batch = {}
    /\ pc # "idle" => cur \in DOMAIN batch
    /\ pc \in {"upload", "record"} => batch[cur].op = "save_draft"
    /\ pc = "settle" => reply \in {"ok", "err"}

(* What the drain copied is what the table holds, except that a save may     *)
(* have overwritten an upload row meanwhile.                                 *)
BatchFollowsTable ==
    \A i \in DOMAIN batch :
        /\ i \in DOMAIN outbox
        /\ batch[i].op = outbox[i].op
        /\ batch[i].op = "submit_message" =>
              batch[i] = outbox[i] /\ ~IsDead(batch[i])

(* The drain knows that the server took row i, and the table does not yet.   *)
NewsPending(i) == pc = "settle" /\ reply = "ok" /\ cur = i

TakenIsAccountedFor ==
    \A i \in DOMAIN accepted :
        /\ NewsPending(i) => accepted[i] > 0
        /\ accepted[i] <= lost[i] + 1
        /\ i \in DOMAIN outbox /\ ~NewsPending(i) => accepted[i] <= lost[i]

(* What enqueue_dedup's SELECT saw still counts when it writes: the drain    *)
(* deletes rows and inserts none.                                            *)
SaveSawTheTable ==
    cmd # NULL /\ cmd.name = "save" =>
        /\ cmd.stmt = "write" /\ cmd.row = NULL
              => WithKey(outbox, cmd.account, "save_draft", cmd.draft) = {}
        /\ cmd.row \in DOMAIN outbox => outbox[cmd.row].op = "save_draft"

(* The invariants and their strengthening together. *)
IInv ==
    /\ TypeOK
    /\ IdsAreFresh
    /\ RowsAreRegular
    /\ DrainControl
    /\ BatchFollowsTable
    /\ TakenIsAccountedFor
    /\ SaveSawTheTable
    /\ OneUploadRowPerDraft
    /\ SentMailIsNeverLost

-----------------------------------------------------------------------------
(* The strengthening of NeverZeroCopies and UploadsNeverGoBack.              *)

HasServerId(d, t) == t[d] # NULL /\ t[d].server # NULL

(* A server id names one copy, of the draft it is recorded for; what the     *)
(* upload step destroys is of the draft it uploads, and what it appended is  *)
(* there when the id is recorded.                                            *)
CopiesAreTheirs ==
    /\ \A c \in serverDrafts : c.id.n < nextCopy
    /\ \A b, c \in serverDrafts : b.id = c.id => b.draft = c.draft
    /\ \A d \in Drafts : HasServerId(d, drafts) =>
          /\ drafts[d].server.n < nextCopy
          /\ \A c \in serverDrafts : c.id = drafts[d].server => c.draft = d
    /\ pc = "upload" /\ prior # NULL =>
          /\ prior.n < nextCopy
          /\ \A c \in serverDrafts : c.id = prior => c.draft = batch[cur].payload.draft
    /\ pc = "record" =>
          [draft |-> batch[cur].payload.draft, id |-> copyId] \in serverDrafts

(* No version is later than the last save, and the drain's copy of an upload *)
(* row is of the same draft and account as the row and never ahead of it.    *)
VersionsFollowSaves ==
    /\ (cmd # NULL /\ cmd.name = "save") =>
          /\ cmd.ver = version[cmd.draft]
          /\ cmd.row \in DOMAIN outbox =>
                outbox[cmd.row].payload.draft = cmd.draft /\ outbox[cmd.row].account = cmd.account
    /\ \A i \in DOMAIN outbox : outbox[i].op = "save_draft" =>
          /\ outbox[i].key = outbox[i].payload.draft
          /\ outbox[i].payload.ver <= version[outbox[i].payload.draft]
    /\ \A i \in DOMAIN batch : batch[i].op = "save_draft" =>
          /\ batch[i].account = outbox[i].account
          /\ batch[i].payload.draft = outbox[i].payload.draft
          /\ batch[i].payload.ver <= outbox[i].payload.ver

(* What is recorded of a draft on an account is no later than what waits to  *)
(* be uploaded for it there.                                                 *)
RowIsNewer(row, t) ==
    LET d == row.payload.draft
    IN  row.op = "save_draft" /\ HasServerId(d, t) /\ row.account = t[d].server.account
           => t[d].server.ver <= row.payload.ver

UploadsAreNewer ==
    /\ \A d \in Drafts : HasServerId(d, drafts) => drafts[d].server.ver <= version[d]
    /\ \A i \in DOMAIN outbox : RowIsNewer(outbox[i], drafts)
    /\ \A i \in DOMAIN batch : RowIsNewer(batch[i], drafts)
    /\ pc = "record" => copyId.account = batch[cur].account /\ copyId.ver = batch[cur].payload.ver

DInv ==
    /\ CopiesAreTheirs
    /\ NeverZeroCopies
    /\ VersionsFollowSaves
    /\ UploadsAreNewer

=============================================================================
