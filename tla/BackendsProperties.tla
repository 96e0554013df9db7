------------------------- MODULE BackendsProperties -------------------------
(***************************************************************************)
(* What the cache and the credentials promise.                             *)
(***************************************************************************)
EXTENDS Backends

Cached(t) == task[t].kind # "watcher" /\ task[t].at \in Building
NoMishap == mishaps = 0

Types ==
    /\ scenario \in Scenarios /\ row \in BOOLEAN
    /\ minted \in 0..MaxTokens /\ vault \in 0..minted /\ honoured \subseteq 1..minted
    /\ slots \in 0..MaxSlots /\ cache \in 0..slots
    /\ cell \in [Slots -> {"empty", "fresh", "aged"}] /\ spoiled \subseteq Slots
    /\ builder \in [Slots -> Tasks \cup {None}]
    /\ task \in [Tasks -> [kind : Kinds, at : Steps, slot : 0..slots, token : 0..minted,
                           retry : BOOLEAN, since : 0..slots]]
    /\ calls \in 0..scenario.calls /\ mishaps \in 0..scenario.mishaps

(* The holder of a cell's permit is the one task that builds its session.  *)
OneBuilder ==
    /\ \A s \in Slots : builder[s] # None =>
          Cached(builder[s]) /\ task[builder[s]].slot = s /\ cell[s] = "empty"
    /\ \A t \in Tasks : Cached(t) => task[t].slot # 0 /\ builder[task[t].slot] = t

(* Slots are handed out in order, and a call has one when it needs one.    *)
SlotsInOrder ==
    /\ \A s \in Slots : s > slots => cell[s] = "empty"
    /\ \A t \in Tasks : At(t, "join") => task[t].slot # 0
    /\ \A t \in Tasks : At(t, "op") => task[t].slot # 0 /\ cell[task[t].slot] # "empty"
    /\ \A t \in Tasks : task[t].at \in {"put", "store", "insert"} => task[t].token # 0

(* After a refusal the cache holds no session made before it.              *)
Renewing ==
    \A t \in Tasks : task[t].retry =>
        /\ task[t].at \in {"join", "op"} \cup Building => task[t].slot > task[t].since
        /\ At(t, "lookup") => cache = 0 \/ cache > task[t].since

(* The inductive invariant, but for the credentials: the types, one        *)
(* builder for each empty slot, so that calls that meet an empty cache     *)
(* share one refresh (get_or_open), and retries on sessions made later.    *)
BackendsInv == Types /\ OneBuilder /\ SlotsInOrder /\ Renewing

(* The second attempt of with_auth_retry runs on a session made after the  *)
(* first was refused, whoever put it in the cache meanwhile.               *)
RetryIsFresh ==
    \A t \in Tasks : At(t, "op") /\ task[t].retry => task[t].slot > task[t].since

(* An account in the table has a refresh token that works, in the keychain *)
(* or on its way there, unless it is being removed: refreshes, rotations,  *)
(* repeated additions and removals of it may overlap as they will.         *)
CredentialsSurvive ==
    row /\ NoMishap =>
        \/ vault \in honoured
        \/ \E t \in Tasks : task[t].at \in {"put", "store"} /\ task[t].token \in honoured
        \/ \E t \in Tasks : task[t].at \in {"forget", "delete"}

(* Every call comes back: no wait for another call's build is forever.     *)
CallsReturn == \A t \in Tasks : ~At(t, "idle") ~> At(t, "idle")

=============================================================================
