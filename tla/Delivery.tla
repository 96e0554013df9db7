------------------------------- MODULE Delivery -------------------------------
(***************************************************************************)
(* How a letter gets from a draft to its recipients: messages_send builds  *)
(* the bytes (qsl_mime::compose), the outbox keeps them, and the drain     *)
(* hands them to the backend.  The IMAP backend reads the envelope from    *)
(* them, strips the Bcc header and submits over SMTP (smtp-client), then   *)
(* appends the whole bytes to Sent.  The JMAP backend imports them into    *)
(* Drafts and creates an EmailSubmission that moves the mail to Sent.      *)
(* Module Outbox has many rows, its backoff and its writers; here it is    *)
(* one row and what happens on the wire.                                   *)
(***************************************************************************)
EXTENDS Naturals, Sequences, FiniteSets, SequencesExt

CONSTANTS
    Letters,         \* the drafts: their To, Cc, Bcc, and whether the body quotes a header
    Wires,           \* the accounts: "smtp" for Gmail, "jmap" for Fastmail, "other" for
                     \* an IMAP host without an SMTP route, "bare" for JMAP without a Sent
    MaxAttempts,     \* MAX_ATTEMPTS of the outbox
    Fortunes         \* bounds: how often what kind of thing goes wrong

ASSUME DeliveryAssumption ==
    Letters \subseteq [to : Seq(STRING), cc : Seq(STRING), bcc : Seq(STRING), refs : Seq(STRING), quotes : BOOLEAN]

VARIABLES
    letter,      \* the draft, and the outbox row made of it: none, draft, queued, dead, gone
    mail,        \* the bytes of the row, as lines
    tries,       \* attempts, and last_error
    attempt,     \* the drain's call of submit_message
    accepted,    \* the submissions that the server has taken: envelope and lines
    shelves,     \* copies of the mail in the server's Drafts, and in Sent
    refused,     \* history: the server has refused the submission
    ill          \* what went wrong so far

deliveryVars == <<letter, mail, tries, attempt, accepted, shelves, refused, ill>>

GoesWrong(k) ==
    /\ \E f \in Fortunes : \A j \in DOMAIN f : ill[j] + (IF j = k THEN 1 ELSE 0) <= f[j]
    /\ ill' = [ill EXCEPT ![k] = @ + 1]
GoesWell == UNCHANGED ill
-----------------------------------------------------------------------------
(* A line of a message: a header names itself and its first address, the   *)
(* further addresses are folded into continuation lines.                   *)
Line(n, who) == [name |-> n, who |-> who, continues |-> FALSE]
Folded(who) == [name |-> "", who |-> who, continues |-> TRUE]
EmptyLine == Line("", "")
Header(n, people) ==
    [i \in DOMAIN people |-> IF i = 1 THEN Line(n, people[1]) ELSE Folded(people[i])]

(* The body may hold a line that reads like a header.                      *)
BodyOf(l) == <<EmptyLine>> \o (IF l.quotes THEN <<Line("Bcc", "quoted")>> ELSE <<Line("text", "")>>)

(* build_rfc5322: refused without recipients, and no header where a list   *)
(* is empty.                                                               *)
HasRecipients(l) == l.to # <<>> \/ l.cc # <<>> \/ l.bcc # <<>>
Build(l) ==
    Header("From", <<"me">>) \o Header("Subject", <<"">>)
        \o Header("To", l.to) \o Header("Cc", l.cc) \o Header("Bcc", l.bcc)
        \o Header("References", l.refs) \o BodyOf(l)

(* find_header_end: the headers end before the first empty line.           *)
HeadersEnd(lines) ==
    LET blanks == {i \in DOMAIN lines : lines[i] = EmptyLine}
    IN  IF blanks = {} THEN Len(lines) ELSE (CHOOSE i \in blanks : \A j \in blanks : i <= j) - 1

(* strip_bcc_header: one pass with a flag that a continuation inherits.    *)
Keep(lines, folded) ==
    LET end == HeadersEnd(lines)
        After(acc, l) ==
            LET skip == IF folded /\ l.continues THEN acc.skipping ELSE l.name = "Bcc"
            IN  [out |-> IF skip THEN acc.out ELSE Append(acc.out, l), skipping |-> skip]
        pass[i \in 0 .. end] ==
            IF i = 0 THEN [out |-> <<>>, skipping |-> FALSE] ELSE After(pass[i - 1], lines[i])
    IN  pass[end].out \o SubSeq(lines, end + 1, Len(lines))
StripBccLine(lines) == Keep(lines, FALSE)
StripBcc(lines) == Keep(lines, TRUE)

(* extract_envelope: To, Cc and Bcc, each with its continuation lines.     *)
HeaderOf(lines, i) ==
    LET starts == {j \in 1..i : ~lines[j].continues}
    IN  lines[CHOOSE j \in starts : \A k \in starts : k <= j].name
Envelope(lines) ==
    {lines[i].who : i \in {j \in 1..HeadersEnd(lines) : HeaderOf(lines, j) \in {"To", "Cc", "Bcc"}}}

Everyone(l) == ToSet(l.to) \cup ToSet(l.cc) \cup ToSet(l.bcc)
-----------------------------------------------------------------------------
NoLetter == [to |-> <<>>, cc |-> <<>>, bcc |-> <<>>, refs |-> <<>>, quotes |-> FALSE]

DeliveryInit ==
    /\ letter = [at |-> "none", of |-> NoLetter] /\ mail = <<>>
    /\ tries = [count |-> 0, why |-> ""]
    /\ attempt = [at |-> "idle", wire |-> "smtp"] /\ accepted = <<>>
    /\ shelves = [drafts |-> 0, sent |-> 0]
    /\ refused = FALSE
    /\ ill = [network |-> 0, rejects |-> 0, lost |-> 0, crashes |-> 0]

SaveLetter(l, w) ==
    /\ letter.at = "none" /\ letter' = [at |-> "draft", of |-> l]
    /\ attempt' = [attempt EXCEPT !.wire = w]
    /\ UNCHANGED <<mail, tries, accepted, shelves, refused, ill>>

(* messages_send.  A letter that does not build stays a draft.             *)
SendLetter ==
    /\ letter.at = "draft" /\ HasRecipients(letter.of)
    /\ letter' = [letter EXCEPT !.at = "queued"] /\ mail' = Build(letter.of)
    /\ UNCHANGED <<tries, attempt, accepted, shelves, refused, ill>>
-----------------------------------------------------------------------------
(* process_one: a row that is due, and what an error makes of it.          *)
On(wire, step) == letter.at = "queued" /\ attempt = [at |-> step, wire |-> wire]
Proceed(step) == attempt' = [attempt EXCEPT !.at = step]

BeginAttempt ==
    /\ letter.at = "queued" /\ attempt.at = "idle" /\ Proceed("dial")
    /\ UNCHANGED <<letter, mail, tries, accepted, shelves, refused, ill>>

RecordFailure(why) ==
    /\ Proceed("idle")
    /\ tries' = [count |-> tries.count + 1, why |-> why]
    /\ letter' = [letter EXCEPT !.at = IF tries.count + 1 >= MaxAttempts THEN "dead" ELSE @]

(* The backend is opened, and smtp-client connects: Transport, or Auth     *)
(* when the server's text says so (map_lettre_error, map_smtp_error).      *)
ConnectFails(why) ==
    /\ attempt.at = "dial" /\ GoesWrong("network") /\ RecordFailure(why)
    /\ UNCHANGED <<mail, accepted, shelves, refused>>

(* SmtpRoute::for_imap_host: every attempt fails in the same way.          *)
NoRoute ==
    /\ On("other", "dial") /\ GoesWell /\ RecordFailure("Other")
    /\ UNCHANGED <<mail, accepted, shelves, refused>>

(* list_folders, find_drafts_and_sent: a role is missing.                  *)
NoMailboxes ==
    /\ On("bare", "dial") /\ GoesWell /\ RecordFailure("NotFound")
    /\ UNCHANGED <<mail, accepted, shelves, refused>>

(* SMTP: the envelope of the whole bytes, the stripped bytes as the data.  *)
Accept(who, lines) == accepted' = Append(accepted, [to |-> who, lines |-> lines])

SubmitSmtp ==
    /\ On("smtp", "dial") /\ Accept(Envelope(mail), StripBcc(mail))
    /\ \/ Proceed("append") /\ GoesWell /\ UNCHANGED <<letter, tries>>
       \/ GoesWrong("lost") /\ RecordFailure("Transport")
    /\ UNCHANGED <<mail, shelves, refused>>

RejectSmtp ==
    /\ On("smtp", "dial") /\ GoesWrong("rejects") /\ RecordFailure("Rejected") /\ refused' = TRUE
    /\ UNCHANGED <<mail, accepted, shelves>>

(* append_to_sent: its failure is only logged.                             *)
AppendToSent ==
    /\ On("smtp", "append") /\ Proceed("settle")
    /\ \/ shelves' = [shelves EXCEPT !.sent = @ + 1] /\ GoesWell
       \/ UNCHANGED shelves /\ GoesWrong("network")
    /\ UNCHANGED <<letter, mail, tries, accepted, refused>>
-----------------------------------------------------------------------------
(* JMAP: the mail is put into Drafts (Email/import).                       *)
ImportToDrafts ==
    /\ On("jmap", "dial") /\ shelves' = [shelves EXCEPT !.drafts = @ + 1]
    /\ \/ Proceed("submission") /\ GoesWell /\ UNCHANGED <<letter, tries>>
       \/ GoesWrong("lost") /\ RecordFailure("Network")
    /\ UNCHANGED <<mail, accepted, refused>>

(* EmailSubmission/set: the server strips the Bcc header itself, takes the *)
(* envelope from the mail, and moves the mail it imported to Sent.         *)
SubmitJmap ==
    /\ On("jmap", "submission") /\ Accept(Envelope(mail), StripBcc(mail))
    /\ shelves' = [drafts |-> shelves.drafts - 1, sent |-> shelves.sent + 1]
    /\ \/ Proceed("settle") /\ GoesWell /\ UNCHANGED <<letter, tries>>
       \/ GoesWrong("lost") /\ RecordFailure("Network")
    /\ UNCHANGED <<mail, refused>>

(* The whole request is refused: an error like any other.                  *)
ProblemJmap ==
    /\ On("jmap", "submission") /\ GoesWrong("rejects") /\ RecordFailure("ServerRejected")
    /\ refused' = TRUE /\ UNCHANGED <<mail, accepted, shelves>>

(* The request is answered and the creation is in notCreated: the answer   *)
(* is not looked at.                                                       *)
NotCreated ==
    /\ On("jmap", "submission") /\ GoesWrong("rejects") /\ refused' = TRUE
    /\ Proceed("settle")
    /\ UNCHANGED <<letter, mail, tries, accepted, shelves>>
-----------------------------------------------------------------------------
(* The row of a call that returned Ok is deleted; a delete that fails      *)
(* leaves it for the next drain.                                           *)
DeleteRow ==
    /\ attempt.at = "settle" /\ Proceed("idle")
    /\ \/ letter' = [letter EXCEPT !.at = "gone"] /\ GoesWell
       \/ UNCHANGED letter /\ GoesWrong("lost")
    /\ UNCHANGED <<mail, tries, accepted, shelves, refused>>

(* The process ends: the call is lost, the row is as it was.               *)
ProcessDies ==
    /\ attempt.at # "idle" /\ Proceed("idle") /\ GoesWrong("crashes")
    /\ UNCHANGED <<letter, mail, tries, accepted, shelves, refused>>

DeliveryNext ==
    \/ \E l \in Letters, w \in Wires : SaveLetter(l, w)
    \/ \E why \in {"Transport", "Auth"} : ConnectFails(why)
    \/ SendLetter \/ BeginAttempt \/ NoRoute \/ NoMailboxes \/ SubmitSmtp \/ RejectSmtp \/ AppendToSent
    \/ ImportToDrafts \/ SubmitJmap \/ ProblemJmap \/ NotCreated \/ DeleteRow \/ ProcessDies

DeliverySpec == DeliveryInit /\ [][DeliveryNext]_deliveryVars
-----------------------------------------------------------------------------
(* Blind copies arrive and stay blind: whatever the server has taken goes  *)
(* to everyone in To, Cc and Bcc, shows no blind recipient to anyone, and  *)
(* is otherwise what was written, quoted headers in the body and folded    *)
(* headers around the Bcc included (strip_bcc_header, extract_envelope).   *)
WhatIsWritten(l) == Build([l EXCEPT !.bcc = <<>>])

BlindCopiesArriveBlind ==
    \A i \in DOMAIN accepted :
        /\ accepted[i].to = Everyone(letter.of)
        /\ accepted[i].lines = WhatIsWritten(letter.of)

(* A row that the outbox has deleted was submitted ("the draft is no       *)
(* longer the source of truth, the queue row is ... the bytes are          *)
(* recoverable", messages.rs:1327), so it was accepted by the server.      *)
SentMeansAccepted == letter.at = "gone" => accepted # <<>>
===============================================================================
