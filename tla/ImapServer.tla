----------------------------- MODULE ImapServer -----------------------------
(***************************************************************************)
(* A mailbox of an IMAP server with CONDSTORE, as the client uses it: each *)
(* message has a UID that is never given again under the same UIDVALIDITY, *)
(* its flags, and the mod-sequence of its last change.  A message also has *)
(* a name, by which the model tells it from others; the client never sees  *)
(* it.                                                                     *)
(***************************************************************************)
EXTENDS Integers, FiniteSets

Message(name, flags, mod) == [name |-> name, flags |-> flags, mod |-> mod]

(* A mailbox of n messages, named by their UIDs.                           *)
MailboxOf(n) == [validity |-> 1, uidnext |-> n + 1, modseq |-> n + 1,
                 mail |-> [u \in 1 .. n |-> Message(u, {}, u + 1)]]

UidsOf(m) == DOMAIN m.mail

(* APPEND, COPY or the arrival of a message.                               *)
WithMessage(m, name, flags) ==
    [m EXCEPT !.uidnext = @ + 1, !.modseq = @ + 1,
              !.mail = [u \in UidsOf(m) \cup {m.uidnext} |->
                          IF u = m.uidnext THEN Message(name, flags, m.modseq + 1)
                          ELSE m.mail[u]]]

(* EXPUNGE of one UID; one that is not there is ignored.                   *)
WithoutMessage(m, u) == [m EXCEPT !.mail = [v \in UidsOf(m) \ {u} |-> m.mail[v]]]

(* STORE: ignored for a UID that is not there, no change without a change. *)
WithFlags(m, u, flags) ==
    IF u \in UidsOf(m) /\ m.mail[u].flags # flags
    THEN [m EXCEPT !.modseq = @ + 1,
                   !.mail[u] = Message(@.name, flags, m.modseq + 1)]
    ELSE m

(* The mailbox is rebuilt: a new UIDVALIDITY, UIDs counted from 1 again,   *)
(* and no mod-sequence older than the last.                                *)
Renumbered(m) ==
    LET rank(u) == Cardinality({v \in UidsOf(m) : v <= u})
        at(n) == CHOOSE u \in UidsOf(m) : rank(u) = n
        size == Cardinality(UidsOf(m))
    IN  [m EXCEPT !.validity = @ + 1, !.uidnext = size + 1,
                  !.mail = [n \in 1 .. size |->
                              Message(m.mail[at(n)].name, m.mail[at(n)].flags, m.modseq)]]

(* FETCH lo:*  -- the last message is in the range whatever lo is.         *)
UidsFrom(m, lo) ==
    {u \in UidsOf(m) : u >= lo \/ \A v \in UidsOf(m) : v <= u}

(* FETCH 1:hi (CHANGEDSINCE mod).                                          *)
UidsChanged(m, hi, mod) == {u \in UidsOf(m) : u <= hi /\ m.mail[u].mod > mod}
=============================================================================
