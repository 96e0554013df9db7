------------------------------ MODULE MCOutbox ------------------------------
(* Outbox for TLC. *)
EXTENDS OutboxProperties, Integers

CONSTANTS a1, a2, d1, d2

OneAccount == {a1}
TwoAccounts == {a1, a2}
OneDraft == {d1}
TwoDrafts == {d1, d2}
OneDelay == {1}
TwoDelays == {1, 2}

(* States that differ only in how late it is, or in the numbers the server   *)
(* gave its copies, have the same future: the safety runs identify them.     *)
Late(t) == [i \in DOMAIN t |->
              IF IsDead(t[i]) THEN t[i] ELSE [t[i] EXCEPT !.next = @ - now]]

Named == {c.id : c \in serverDrafts}
         \cup {drafts[d].server : d \in {x \in Drafts : drafts[x] # NULL}}
         \cup {prior, copyId}

Rank(id) == IF id = NULL THEN NULL
            ELSE <<id.account, id.ver, Cardinality({x \in Named : x # NULL /\ x.n < id.n})>>

View == <<Late(outbox), Late(batch), nextId, version, queued, cmd, cur, pc, reply,
          [d \in Drafts |-> IF drafts[d] = NULL THEN NULL
                            ELSE [drafts[d] EXCEPT !.server = Rank(@)]],
          Rank(prior), Rank(copyId),
          {<<c.draft, Rank(c.id)>> : c \in serverDrafts},
          accepted, lost, mishaps>>
=============================================================================
