------------------------------- MODULE Outbox -------------------------------
(***************************************************************************)
(* Drafts and outgoing mail: the IPC commands that queue `save_draft` and   *)
(* `submit_message` rows (src-tauri/commands/drafts.rs, messages.rs), the    *)
(* drain worker that replays them (crates/sync/outbox_drain.rs), and the     *)
(* mail server they reach.                                                   *)
(*                                                                           *)
(* Commands run one at a time under the mutex of `state.db`; the drain holds *)
(* `state.sync_db`, another connection to the same file, so each statement   *)
(* of a command may fall between any two statements of the drain.            *)
(***************************************************************************)
EXTENDS OutboxTable

CONSTANTS
    Accounts,
    Drafts,       \* local draft ids
    MaxVersions,  \* bound: how often one draft is saved
    MaxMishaps    \* bound: crashes, failed local statements, lost replies

ASSUME DraftsAssumption == NULL \notin Drafts
ASSUME BoundsAssumption == MaxVersions \in Nat /\ MaxMishaps \in Nat

VARIABLES
    outbox,       \* the table: ids -> rows
    nextId,       \* the id the next row gets
    now,          \* the clock next_attempt_at is compared with
    drafts,       \* the drafts table
    version,      \* how often each draft has been saved
    queued,       \* the last version of each draft handed to enqueue_dedup
    cmd,          \* the IPC command that holds state.db, and its next statement
    batch,        \* the drain's copy of the due rows it has yet to settle
    cur,          \* the id it is processing
    pc,           \* the drain's next step
    reply,        \* what dispatch returned
    prior,        \* save_draft: the server id read before the upload
    copyId,       \* save_draft: the id of the copy just uploaded
    serverDrafts, \* the copies in the server's Drafts mailboxes
    nextCopy,     \* the id the server gives the next copy
    accepted,     \* how often the submission server took each submitted row
    lost,         \* how often the news of that never reached the table
    mishaps       \* crashes, failed local statements and lost replies so far

tableVars  == <<outbox, nextId>>
localVars  == <<drafts, version, queued>>
drainVars  == <<batch, cur, pc, reply, prior, copyId>>
serverVars == <<serverDrafts, nextCopy, accepted>>
vars == <<outbox, nextId, now, drafts, version, queued, cmd, batch, cur, pc, reply,
          prior, copyId, serverDrafts, nextCopy, accepted, lost, mishaps>>

Payload(d, v) == [draft |-> d, ver |-> v]

Init ==
    /\ outbox = [i \in {} |-> NULL]
    /\ nextId = 1
    /\ now = 0
    /\ drafts = [d \in Drafts |-> NULL]
    /\ version = [d \in Drafts |-> 0]
    /\ queued = [d \in Drafts |-> 0]
    /\ cmd = NULL
    /\ batch = [i \in {} |-> NULL]
    /\ cur = NULL
    /\ pc = "idle"
    /\ reply = NULL
    /\ prior = NULL
    /\ copyId = NULL
    /\ serverDrafts = {}
    /\ nextCopy = 1
    /\ accepted = [i \in {} |-> 0]
    /\ lost = [i \in {} |-> 0]
    /\ mishaps = 0

(***************************************************************************)
(* Time.  Nothing but a waiting row reads the clock, so it moves only while  *)
(* one waits.                                                                *)
(***************************************************************************)
Tick ==
    /\ \E i \in DOMAIN outbox : ~IsDead(outbox[i]) /\ now < outbox[i].next
    /\ now' = now + 1
    /\ UNCHANGED <<tableVars, localVars, cmd, drainVars, serverVars, lost, mishaps>>

Mishap ==
    /\ mishaps < MaxMishaps
    /\ mishaps' = mishaps + 1

(***************************************************************************)
(* drafts_save: drafts_repo::save, then enqueue_dedup's SELECT and its       *)
(* UPDATE or INSERT.  The pane may move a draft to another account (its From *)
(* field); a draft without recipients is saved and not queued.               *)
(***************************************************************************)
SaveUpsert(d, a, to) ==
    /\ cmd = NULL
    /\ version[d] < MaxVersions
    /\ version' = [version EXCEPT ![d] = @ + 1]
    /\ drafts' = [drafts EXCEPT ![d] =
                    IF @ = NULL
                    THEN [account |-> a, ver |-> version[d] + 1, to |-> to, server |-> NULL]
                    ELSE [@ EXCEPT !.account = a, !.ver = version[d] + 1, !.to = to]]
    /\ cmd' = IF to
              THEN [name |-> "save", draft |-> d, account |-> a, ver |-> version[d] + 1,
                    stmt |-> "lookup", row |-> NULL]
              ELSE NULL
    /\ UNCHANGED <<tableVars, now, queued, drainVars, serverVars, lost, mishaps>>

SaveLookup ==
    /\ cmd # NULL /\ cmd.name = "save" /\ cmd.stmt = "lookup"
    /\ LET found == WithKey(outbox, cmd.account, "save_draft", cmd.draft)
       IN  \/ found = {} /\ cmd' = [cmd EXCEPT !.stmt = "write"]
           \/ \E i \in found : cmd' = [cmd EXCEPT !.stmt = "write", !.row = i]
    /\ UNCHANGED <<tableVars, now, localVars, drainVars, serverVars, lost, mishaps>>

SaveWrite ==
    /\ cmd # NULL /\ cmd.name = "save" /\ cmd.stmt = "write"
    /\ LET p == Payload(cmd.draft, cmd.ver)
       IN  IF cmd.row = NULL
           THEN /\ outbox' = Insert(outbox, nextId,
                               FreshRow(cmd.account, "save_draft", p, cmd.draft, now))
                /\ nextId' = nextId + 1
           ELSE /\ outbox' = Overwrite(outbox, cmd.row, p, now)
                /\ UNCHANGED nextId
    /\ queued' = [queued EXCEPT ![cmd.draft] = cmd.ver]
    /\ cmd' = NULL
    /\ UNCHANGED <<now, drafts, version, drainVars, serverVars, lost, mishaps>>

(* enqueue_dedup failed: logged and swallowed, the draft stays saved. *)
SaveEnqueueFails ==
    /\ Mishap
    /\ cmd # NULL /\ cmd.name = "save"
    /\ cmd' = NULL
    /\ UNCHANGED <<tableVars, now, localVars, drainVars, serverVars, lost>>

(***************************************************************************)
(* messages_send: read the draft and queue its bytes, then delete it.        *)
(* build_rfc5322 refuses a draft without recipients.                         *)
(***************************************************************************)
SendEnqueue(d) ==
    /\ cmd = NULL
    /\ drafts[d] # NULL /\ drafts[d].to
    /\ outbox' = Insert(outbox, nextId,
                    FreshRow(drafts[d].account, "submit_message",
                             Payload(d, drafts[d].ver), NULL, now))
    /\ nextId' = nextId + 1
    /\ accepted' = Insert(accepted, nextId, 0)
    /\ lost' = Insert(lost, nextId, 0)
    /\ cmd' = [name |-> "send", draft |-> d, account |-> drafts[d].account,
               ver |-> drafts[d].ver, stmt |-> "delete", row |-> NULL]
    /\ UNCHANGED <<now, localVars, drainVars, serverDrafts, nextCopy, mishaps>>

SendDeleteDraft ==
    /\ cmd # NULL /\ cmd.name = "send"
    /\ drafts' = [drafts EXCEPT ![cmd.draft] = NULL]
    /\ queued' = [queued EXCEPT ![cmd.draft] = 0]
    /\ cmd' = NULL
    /\ UNCHANGED <<tableVars, now, version, drainVars, serverVars, lost, mishaps>>

(* The DELETE failed: the user sees an error, the message is queued anyway. *)
SendDeleteFails ==
    /\ Mishap
    /\ cmd # NULL /\ cmd.name = "send"
    /\ cmd' = NULL
    /\ UNCHANGED <<tableVars, now, localVars, drainVars, serverVars, lost>>

(* drafts_delete: the row goes, whatever is queued for it stays. *)
DraftsDelete(d) ==
    /\ cmd = NULL
    /\ drafts[d] # NULL
    /\ drafts' = [drafts EXCEPT ![d] = NULL]
    /\ queued' = [queued EXCEPT ![d] = 0]
    /\ UNCHANGED <<tableVars, now, version, cmd, drainVars, serverVars, lost, mishaps>>

(***************************************************************************)
(* The drain.  DrainTick is list_due and the start of the loop over its      *)
(* rows; each step after it is one await of process_one or dispatch.         *)
(***************************************************************************)
Begin(rows) ==
    /\ batch' = rows
    /\ \E i \in DOMAIN rows :
          /\ \A j \in DOMAIN rows \ {i} : RunsBefore(rows, i, j)
          /\ cur' = i
    /\ pc' = "dispatch"

DrainTick ==
    /\ pc = "idle"
    /\ Begin(ListDue(outbox, now))
    /\ UNCHANGED <<tableVars, now, localVars, cmd, reply, prior, copyId,
                   serverVars, lost, mishaps>>

Replies(r) == reply' = r /\ pc' = "settle"

(* No backend, no network, a refusal: the server is as it was.  Reading the *)
(* draft's server id may fail just as well.                                 *)
DispatchFails ==
    /\ pc \in {"dispatch", "upload"}
    /\ Replies("err")
    /\ UNCHANGED <<tableVars, now, localVars, cmd, batch, cur, prior, copyId,
                   serverVars, lost, mishaps>>

(* backend.submit_message. *)
Submit ==
    /\ pc = "dispatch" /\ batch[cur].op = "submit_message"
    /\ accepted' = [accepted EXCEPT ![cur] = @ + 1]
    /\ Replies("ok")
    /\ UNCHANGED <<tableVars, now, localVars, cmd, batch, cur, prior, copyId,
                   serverDrafts, nextCopy, lost, mishaps>>

(* The server took the message and the connection broke before its reply. *)
SubmitReplyLost ==
    /\ Mishap
    /\ pc = "dispatch" /\ batch[cur].op = "submit_message"
    /\ accepted' = [accepted EXCEPT ![cur] = @ + 1]
    /\ lost' = [lost EXCEPT ![cur] = @ + 1]
    /\ Replies("err")
    /\ UNCHANGED <<tableVars, now, localVars, cmd, batch, cur, prior, copyId,
                   serverDrafts, nextCopy>>

(* A bug: the prior copy is destroyed before the new one is appended. *)
ReadServerIdDestroying ==
    /\ pc = "dispatch" /\ batch[cur].op = "save_draft"
    /\ LET d == batch[cur].payload.draft
       IN  prior' = IF drafts[d] = NULL THEN NULL ELSE drafts[d].server
    /\ serverDrafts' = {c \in serverDrafts : c.id # prior'}
    /\ pc' = "upload"
    /\ UNCHANGED <<tableVars, now, localVars, cmd, batch, cur, reply, copyId,
                   nextCopy, accepted, lost, mishaps>>

(* drafts_repo::get_server_id: the id, or None when there is no draft row. *)
ReadServerId ==
    /\ pc = "dispatch" /\ batch[cur].op = "save_draft"
    /\ LET d == batch[cur].payload.draft
       IN  prior' = IF drafts[d] = NULL THEN NULL ELSE drafts[d].server
    /\ pc' = "upload"
    /\ UNCHANGED <<tableVars, now, localVars, cmd, batch, cur, reply, copyId,
                   serverVars, lost, mishaps>>

(* A server id names one immutable copy, so it carries the copy's content. *)
NewCopy ==
    [draft |-> batch[cur].payload.draft,
     id |-> [account |-> batch[cur].account, n |-> nextCopy,
             ver |-> batch[cur].payload.ver]]

(* backend.save_draft: APPEND the new copy, then destroy the prior one.  The *)
(* destroy is skipped for an id of another mailbox, and its failure is only  *)
(* logged.                                                                   *)
Upload(destroyed) ==
    /\ pc = "upload"
    /\ serverDrafts' = {c \in serverDrafts : ~(destroyed /\ c.id = prior)} \cup {NewCopy}
    /\ nextCopy' = nextCopy + 1
    /\ copyId' = NewCopy.id
    /\ pc' = "record"
    /\ UNCHANGED <<tableVars, now, localVars, cmd, batch, cur, reply, prior,
                   accepted, lost>>

UploadAndDestroy ==
    /\ prior # NULL => prior.account = batch[cur].account
    /\ Upload(prior # NULL)
    /\ UNCHANGED mishaps

UploadOnly ==
    /\ prior # NULL /\ prior.account # batch[cur].account
    /\ Upload(FALSE)
    /\ UNCHANGED mishaps

UploadDestroyFails ==
    /\ Mishap
    /\ prior # NULL /\ prior.account = batch[cur].account
    /\ Upload(FALSE)

(* APPEND went through and the SELECT or SEARCH after it did not. *)
UploadReplyLost ==
    /\ Mishap
    /\ pc = "upload"
    /\ serverDrafts' = serverDrafts \cup {NewCopy}
    /\ nextCopy' = nextCopy + 1
    /\ Replies("err")
    /\ UNCHANGED <<tableVars, now, localVars, cmd, batch, cur, prior, copyId,
                   accepted, lost>>

(* drafts_repo::set_server_id: an UPDATE that may match no row. *)
RecordServerId ==
    /\ pc = "record"
    /\ LET d == batch[cur].payload.draft
       IN  drafts' = IF drafts[d] = NULL THEN drafts
                     ELSE [drafts EXCEPT ![d].server = copyId]
    /\ Replies("ok")
    /\ UNCHANGED <<tableVars, now, version, queued, cmd, batch, cur, prior, copyId,
                   serverVars, lost, mishaps>>

RecordServerIdFails ==
    /\ Mishap
    /\ pc = "record"
    /\ Replies("err")
    /\ UNCHANGED <<tableVars, now, localVars, cmd, batch, cur, prior, copyId,
                   serverVars, lost>>

Idle ==
    /\ batch' = [i \in {} |-> NULL]
    /\ cur' = NULL
    /\ pc' = "idle"

(* A bug: a drain that is never marked finished once its batch is empty. *)
NextRowHeld ==
    /\ IF DOMAIN batch = {cur}
       THEN batch' = [i \in {} |-> NULL] /\ cur' = NULL /\ UNCHANGED pc
       ELSE Begin(Delete(batch, cur))
    /\ reply' = NULL
    /\ prior' = NULL
    /\ copyId' = NULL

(* The end of process_one: on to the next row of the batch. *)
NextRow ==
    /\ IF DOMAIN batch = {cur} THEN Idle ELSE Begin(Delete(batch, cur))
    /\ reply' = NULL
    /\ prior' = NULL
    /\ copyId' = NULL

(* A dispatch that went through, and its row still in the table. *)
LosesNews(i) ==
    lost' = IF i \in DOMAIN lost /\ pc = "settle" /\ reply = "ok"
            THEN [lost EXCEPT ![i] = @ + 1] ELSE lost

(* A bug: the row of a dispatch that went through is left in the table. *)
SettleSentKeeping ==
    /\ pc = "settle" /\ reply = "ok"
    /\ NextRow
    /\ UNCHANGED <<tableVars, now, localVars, cmd, serverVars, lost, mishaps>>

SettleSent ==
    /\ pc = "settle" /\ reply = "ok"
    /\ outbox' = Delete(outbox, cur)
    /\ NextRow
    /\ UNCHANGED <<nextId, now, localVars, cmd, serverVars, lost, mishaps>>

SettleDeleteFails ==
    /\ Mishap
    /\ pc = "settle" /\ reply = "ok"
    /\ LosesNews(cur)
    /\ NextRow
    /\ UNCHANGED <<tableVars, now, localVars, cmd, serverVars>>

(* A bug: the row is deleted whatever dispatch returned. *)
SettleFailedDropping ==
    /\ pc = "settle" /\ reply = "err"
    /\ outbox' = Delete(outbox, cur)
    /\ NextRow
    /\ UNCHANGED <<nextId, now, localVars, cmd, serverVars, lost, mishaps>>

SettleFailed ==
    /\ pc = "settle" /\ reply = "err"
    /\ \E delay \in Delays :
          outbox' = RecordFailure(outbox, cur, batch[cur].attempts, now, delay)
    /\ NextRow
    /\ UNCHANGED <<nextId, now, localVars, cmd, serverVars, lost, mishaps>>

SettleRecordFails ==
    /\ Mishap
    /\ pc = "settle" /\ reply = "err"
    /\ NextRow
    /\ UNCHANGED <<tableVars, now, localVars, cmd, serverVars, lost>>

(***************************************************************************)
(* The process dies.  The file keeps every committed statement; the command  *)
(* and the drain are gone.                                                   *)
(***************************************************************************)
Crash ==
    /\ Mishap
    /\ LosesNews(cur)
    /\ cmd' = NULL
    /\ Idle
    /\ reply' = NULL
    /\ prior' = NULL
    /\ copyId' = NULL
    /\ UNCHANGED <<tableVars, now, localVars, serverVars>>

Command ==
    \/ \E d \in Drafts, a \in Accounts, to \in BOOLEAN : SaveUpsert(d, a, to)
    \/ SaveLookup \/ SaveWrite \/ SaveEnqueueFails
    \/ \E d \in Drafts : SendEnqueue(d)
    \/ SendDeleteDraft \/ SendDeleteFails
    \/ \E d \in Drafts : DraftsDelete(d)

DrainStep ==
    \/ DrainTick \/ DispatchFails \/ Submit \/ SubmitReplyLost
    \/ ReadServerId \/ UploadAndDestroy \/ UploadOnly \/ UploadDestroyFails
    \/ UploadReplyLost
    \/ RecordServerId \/ RecordServerIdFails
    \/ SettleSent \/ SettleDeleteFails \/ SettleFailed \/ SettleRecordFails

Next == Tick \/ Command \/ DrainStep \/ Crash

Spec == Init /\ [][Next]_vars

(* The 5 s interval keeps calling the drain and every call to a backend comes *)
(* back, with an answer or an error; time passes.  Users need do nothing.     *)
FairSpec == Spec /\ WF_vars(Tick) /\ WF_vars(DrainStep)
=============================================================================
