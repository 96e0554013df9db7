------------------------------- MODULE JmapOps -------------------------------
(***************************************************************************)
(* What the outbox asks of a JMAP server: update_flags, move_messages,     *)
(* delete_messages and save_draft (jmap-client lib.rs) go message by       *)
(* message, keyword by keyword, and stop at the first error; the drain     *)
(* repeats the whole row until it has failed MAX_ATTEMPTS times            *)
(* (outbox_drain.rs).  Other clients move and destroy the same mail.       *)
(***************************************************************************)
EXTENDS Naturals, Sequences, FiniteSets

CONSTANTS
    Batches,         \* the rows: their op_kind and the messages they are about
    Limit,           \* MAX_ATTEMPTS
    Seasons          \* bounds: how often what kind of thing happens

VARIABLES
    cloud,       \* the server's emails: mailbox, keywords, or destroyed
    uploads,     \* the copies of the draft in the server's Drafts, by the save that made them
    serverId,    \* drafts.server_id
    op,          \* the outbox row: its batch, attempts, and whether it is queued, done or dead
    request,      \* the call: how far it is
    reached,     \* history: what the row asks, by message and part, that was so since it was queued
    failedOnce,  \* history: a step of a call for a draft has failed
    season

jmapopsVars == <<cloud, uploads, serverId, op, request, reached, failedOnce, season>>

Happens(k) ==
    /\ \E s \in Seasons : \A j \in DOMAIN s : season[j] + (IF j = k THEN 1 ELSE 0) <= s[j]
    /\ season' = [season EXCEPT ![k] = @ + 1]

About(b) == {b.ids[i] : i \in DOMAIN b.ids}
Emails == UNION {About(b) : b \in Batches}

(* A draft is one message, and the others are about some.                  *)
ASSUME OpsAssumption ==
    /\ Limit \in Nat \ {0}
    /\ \A b \in Batches : /\ b = [kind |-> b.kind, ids |-> b.ids] /\ b.ids \in Seq(About(b))
                          /\ b.kind \in {"flags", "move", "delete", "draft"}
                          /\ (b.kind = "draft") = (b.ids = <<>>)

NoRow == [kind |-> "none", ids |-> <<>>]
Still == [at |-> "idle", next |-> 1, save |-> 0]

OpsInit ==
    /\ cloud = [e \in Emails |-> [box |-> "inbox", keywords |-> {}]]
    /\ uploads = {} /\ serverId = 0
    /\ op = [row |-> NoRow, tries |-> 0, at |-> "done"] /\ request = Still
    /\ reached = {} /\ failedOnce = FALSE
    /\ season = [rows |-> 0, fails |-> 0, others |-> 0]
-----------------------------------------------------------------------------
(* What a row asks of each of its messages: in how many requests, and what *)
(* a request makes of the email (flag_diff, email_set_keyword,             *)
(* email_set_mailboxes, email_destroy).  Removing keywords is like adding.  *)
Keywords == <<"$seen", "$flagged">>
Portions(kind) == IF kind = "flags" THEN Len(Keywords) ELSE 1
Destroyed(e) == cloud[e].box = "destroyed"
Part(kind, email, i) ==
    CASE kind = "flags" -> [email EXCEPT !.keywords = @ \cup {Keywords[i]}]
      [] kind = "move" -> [email EXCEPT !.box = "archive"]
      [] kind = "delete" -> [email EXCEPT !.box = "destroyed"]
AsAsked(kind, email, i) ==
    CASE kind = "flags" -> Keywords[i] \in email.keywords
      [] kind = "move" -> email.box = "archive"
      [] kind = "delete" -> email.box = "destroyed"
      [] OTHER -> FALSE
Fulfilled(kind, now) ==
    {p \in Emails \X (1..Portions(kind)) : AsAsked(kind, now[p[1]], p[2])}
Reached(now) == IF op.at = "queued" THEN reached \cup Fulfilled(op.row.kind, now) ELSE reached

Enqueue(b) ==
    /\ op.at # "queued" /\ Happens("rows")
    /\ op' = [row |-> b, tries |-> 0, at |-> "queued"]
    /\ reached' = Fulfilled(b.kind, cloud)
    /\ UNCHANGED <<cloud, uploads, serverId, request, failedOnce>>

(* process_one: an error counts, and the row starts over.                  *)
BeginOp ==
    /\ op.at = "queued" /\ request.at = "idle"
    /\ request' = [Still EXCEPT !.at = IF op.row.kind = "draft" THEN "import" ELSE "set"]
    /\ UNCHANGED <<cloud, uploads, serverId, op, reached, failedOnce, season>>
FailRow ==
    /\ request' = Still
    /\ op' = [op EXCEPT !.tries = @ + 1, !.at = IF op.tries + 1 >= Limit THEN "dead" ELSE @]
Settle ==
    /\ request.at = "settle" /\ request' = Still /\ op' = [op EXCEPT !.at = "done"]
    /\ UNCHANGED <<cloud, uploads, serverId, reached, failedOnce, season>>
-----------------------------------------------------------------------------
(* The loops of update_flags, move_messages and delete_messages: the next  *)
(* request is about this part of this message.                             *)
Total == Len(op.row.ids) * Portions(op.row.kind)
Email == op.row.ids[((request.next - 1) \div Portions(op.row.kind)) + 1]
PartNo == ((request.next - 1) % Portions(op.row.kind)) + 1
GoOn == request' = IF request.next < Total THEN [request EXCEPT !.next = @ + 1]
                  ELSE [request EXCEPT !.at = "settle"]

SetEmail ==
    /\ request.at = "set" /\ ~Destroyed(Email)
    /\ cloud' = [cloud EXCEPT ![Email] = Part(op.row.kind, @, PartNo)]
    /\ reached' = Reached(cloud')
    /\ \/ GoOn /\ UNCHANGED <<op, season>>
       \/ Happens("fails") /\ FailRow
    /\ UNCHANGED <<uploads, serverId, failedOnce>>

(* notFound in the answer, or no answer at all.                            *)
StopsAtError == FailRow
PassesOver == GoOn /\ UNCHANGED op
OnError == StopsAtError
SetFails ==
    /\ request.at = "set" /\ OnError
    /\ \/ Destroyed(Email) /\ UNCHANGED season
       \/ ~Destroyed(Email) /\ Happens("fails")
    /\ UNCHANGED <<cloud, uploads, serverId, reached, failedOnce>>
-----------------------------------------------------------------------------
(* save_draft: Email/import first, then the prior copy is destroyed, which *)
(* is best effort; the drain reads server_id before the call, and stores   *)
(* the new one after it.                                                   *)
Import ==
    /\ request.at = "import"
    /\ uploads' = uploads \cup {season.rows * Limit + op.tries}
    /\ \/ request' = [request EXCEPT !.at = "destroy", !.save = season.rows * Limit + op.tries]
          /\ UNCHANGED <<op, season, failedOnce>>
       \/ Happens("fails") /\ failedOnce' = TRUE /\ FailRow
    /\ UNCHANGED <<cloud, serverId, reached>>
DestroyPrior ==
    /\ request.at = "destroy" /\ request' = [request EXCEPT !.at = "store"]
    /\ \/ uploads' = uploads \ {serverId} /\ UNCHANGED <<season, failedOnce>>
       \/ Happens("fails") /\ failedOnce' = TRUE /\ UNCHANGED uploads
    /\ UNCHANGED <<cloud, serverId, op, reached>>
StoreServerId ==
    /\ request.at = "store"
    /\ \/ serverId' = request.save /\ request' = [request EXCEPT !.at = "settle"]
          /\ UNCHANGED <<op, season, failedOnce>>
       \/ Happens("fails") /\ failedOnce' = TRUE /\ FailRow /\ UNCHANGED serverId
    /\ UNCHANGED <<cloud, uploads, reached>>
-----------------------------------------------------------------------------
(* Other clients.                                                          *)
OtherClient(e, becomes) ==
    /\ ~Destroyed(e) /\ becomes # cloud[e] /\ Happens("others")
    /\ cloud' = [cloud EXCEPT ![e] = becomes] /\ reached' = Reached(cloud')
    /\ UNCHANGED <<uploads, serverId, op, request, failedOnce>>

OpsNext ==
    \/ \E b \in Batches : Enqueue(b)
    \/ \E e \in Emails : \/ OtherClient(e, [cloud[e] EXCEPT !.box = "destroyed"])
                         \/ OtherClient(e, [cloud[e] EXCEPT !.box = "inbox"])
                         \/ OtherClient(e, [cloud[e] EXCEPT !.keywords = {}])
    \/ BeginOp \/ SetEmail \/ SetFails \/ Import \/ DestroyPrior \/ StoreServerId \/ Settle

OpsSpec == OpsInit /\ [][OpsNext]_jmapopsVars
-----------------------------------------------------------------------------
(* A row that the outbox deletes has been carried out, all of it: each of  *)
(* its messages was as the row asks at some time since it was queued,      *)
(* whatever failed half way and was repeated, and whatever other clients   *)
(* did; a draft that has been saved has "a duplicate, never zero copies"   *)
(* on the server, and one copy if nothing failed.                          *)
DoneMeansAll ==
    op.at = "done" => About(op.row) \X (1..Portions(op.row.kind)) \subseteq reached
DraftIsThere ==
    /\ serverId # 0 => uploads # {}
    /\ ~failedOnce /\ request.at \notin {"destroy", "store"} => Cardinality(uploads) <= 1
OpsAreCarriedOut == DoneMeansAll /\ DraftIsThere
===============================================================================
