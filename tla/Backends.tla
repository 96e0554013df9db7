------------------------------ MODULE Backends ------------------------------
(***************************************************************************)
(* One account's credentials: the row, the refresh token in the keychain,  *)
(* the cached session, and the calls that use and replace them             *)
(* (backend_factory.rs, auth/refresh.rs, auth/keyring.rs, accounts.rs).    *)
(*                                                                         *)
(* The cache maps the account to a slot, a OnceCell: the first call to     *)
(* join an empty slot builds the session, later ones wait for it, and when *)
(* the build fails the next waiter tries.  A watcher refreshes the token   *)
(* on its own and shares nothing but the keychain.  Accounts share nothing *)
(* but a mutex held across no await, so one account is the system.         *)
(***************************************************************************)
EXTENDS Naturals

CONSTANTS
    Tasks,
    MaxSlots,     \* bound on the slots a run makes
    MaxTokens,    \* bound on the refresh tokens the provider issues
    Scenarios,    \* a provider, "gmail", which revokes, or "fastmail", which
                  \* rotates; a bound on the calls made; a bound on lost
                  \* replies, keychain and database failures
    None

ASSUME TasksAssumption == None \notin Tasks
ASSUME BackendsBoundAssumption ==
    MaxSlots \in Nat /\ MaxTokens \in Nat \ {0}
ASSUME ScenariosAssumption ==
    Scenarios \subseteq [provider : {"gmail", "fastmail"}, calls : Nat, mishaps : Nat]

VARIABLES
    scenario,
    row,                \* is the account in the table?
    vault,              \* the keychain's refresh token; 0: no entry
    honoured, minted,   \* at the provider: tokens that work, tokens issued
    cache, slots,       \* the account's slot (0: none); how many were made
    cell, spoiled,      \* what a slot holds; those whose access token is refused
    builder,            \* who runs the slot's initialiser
    task, calls, mishaps

account == <<row, vault>>
remote == <<scenario, honoured, minted>>
handles == <<cache, slots, cell, spoiled, builder>>
budget == <<calls, mishaps>>
vars == <<remote, account, handles, task, budget>>

Slots == 1..MaxSlots
Tokens == 1..MaxTokens
Kinds == {"reader", "caller", "watcher", "add", "remove"}
Building == {"load", "read", "post", "put", "dial"}
Steps == {"idle", "lookup", "join", "op", "evict"} \cup Building
            \cup {"authorize", "insert", "store"}
            \cup {"check", "drop", "recall", "revoke", "forget", "delete"}

Idle == [kind |-> "caller", at |-> "idle", slot |-> 0, token |-> 0, retry |-> FALSE, since |-> 0]

(* An account in use, with nothing cached yet; or none.                    *)
Init ==
    /\ scenario \in Scenarios
    /\ row \in BOOLEAN
    /\ vault = (IF row THEN 1 ELSE 0) /\ honoured = (IF row THEN {1} ELSE {}) /\ minted = vault
    /\ cache = 0 /\ slots = 0
    /\ cell = [s \in Slots |-> "empty"] /\ spoiled = {}
    /\ builder = [s \in Slots |-> None]
    /\ task = [t \in Tasks |-> Idle]
    /\ calls = 0 /\ mishaps = 0

Mishap == mishaps < scenario.mishaps /\ mishaps' = mishaps + 1 /\ UNCHANGED calls
At(t, at) == task[t].at = at
Go(t, at) == task' = [task EXCEPT ![t].at = at]
Done(t) == task' = [task EXCEPT ![t] = Idle]

(* A reader is wrapped in with_auth_retry; a sync, the drain, a history    *)
(* pull, an older page are not.                                            *)
FirstStep(kind) ==
    CASE kind \in {"reader", "caller"} -> "lookup"
      [] kind = "watcher" -> "load"
      [] kind = "add" -> "authorize"
      [] kind = "remove" -> "check"

Call(t, kind) ==
    /\ At(t, "idle") /\ calls < scenario.calls
    /\ task' = [task EXCEPT ![t] = [Idle EXCEPT !.kind = kind, !.at = FirstStep(kind)]]
    /\ calls' = calls + 1
    /\ UNCHANGED <<remote, account, handles, mishaps>>

-----------------------------------------------------------------------------
(* get_or_open                                                             *)

UseCached(t) ==
    /\ At(t, "lookup") /\ cache # 0 /\ cell[cache] = "fresh"
    /\ task' = [task EXCEPT ![t].slot = cache, ![t].at = "op"]
    /\ UNCHANGED <<remote, account, handles, budget>>

(* Another call is building it.                                            *)
ShareSlot(t) ==
    /\ At(t, "lookup") /\ cache # 0 /\ cell[cache] = "empty"
    /\ task' = [task EXCEPT ![t].slot = cache, ![t].at = "join"]
    /\ UNCHANGED <<remote, account, handles, budget>>

(* Nothing cached, or a session of more than half an hour.                 *)
NewSlot(t) ==
    /\ At(t, "lookup") /\ (cache # 0 => cell[cache] = "aged") /\ slots < MaxSlots
    /\ slots' = slots + 1 /\ cache' = slots + 1
    /\ task' = [task EXCEPT ![t].slot = slots + 1, ![t].at = "join"]
    /\ UNCHANGED <<remote, account, cell, spoiled, builder, budget>>

(* get_or_try_init                                                         *)
Join(t) ==
    /\ At(t, "join")
    /\ \/ cell[task[t].slot] # "empty" /\ Go(t, "op") /\ UNCHANGED builder
       \/ /\ cell[task[t].slot] = "empty" /\ builder[task[t].slot] = None
          /\ builder' = [builder EXCEPT ![task[t].slot] = t]
          /\ Go(t, "load")
    /\ UNCHANGED <<remote, account, cache, slots, cell, spoiled, budget>>

ReleasedNever(t) == builder

(* The permit of the cell passes on.                                       *)
Released(t) ==
    [s \in Slots |-> IF builder[s] = t THEN None ELSE builder[s]]

Fail(t) ==
    /\ builder' = Released(t) /\ Done(t)
    /\ UNCHANGED <<remote, account, cache, slots, cell, spoiled>>

(* build_cached_backend, fresh_imap_params, fresh_jmap_params.  A watcher  *)
(* that finds no row ends for good, other calls return an error.           *)
Load(t) ==
    /\ At(t, "load")
    /\ \/ row /\ Go(t, "read") /\ UNCHANGED <<remote, account, handles>>
       \/ ~row /\ Fail(t)
    /\ UNCHANGED budget

(* refresh_access_token: the keychain, the provider, the keychain.         *)
Read(t) ==
    /\ At(t, "read")
    /\ \/ /\ vault # 0
          /\ task' = [task EXCEPT ![t].token = vault, ![t].at = "post"]
          /\ UNCHANGED <<remote, account, handles>>
       \/ vault = 0 /\ Fail(t)
    /\ UNCHANGED budget

Rotate(t) ==
    /\ scenario.provider = "fastmail" /\ minted < MaxTokens
    /\ minted' = minted + 1
    /\ honoured' = (honoured \ {task[t].token}) \cup {minted + 1}
    /\ UNCHANGED scenario

PostForgets(t) ==
    /\ At(t, "post") /\ task[t].token \in honoured /\ Go(t, "dial")
    /\ Rotate(t) \/ UNCHANGED remote
    /\ UNCHANGED <<account, handles, budget>>

(* The token is refused, accepted, or accepted and replaced.               *)
Post(t) ==
    /\ At(t, "post")
    /\ \/ task[t].token \notin honoured /\ Fail(t)
       \/ /\ task[t].token \in honoured
          /\ Go(t, "dial") /\ UNCHANGED <<remote, account, handles>>
       \/ /\ task[t].token \in honoured /\ Rotate(t)
          /\ task' = [task EXCEPT ![t].token = minted + 1, ![t].at = "put"]
          /\ UNCHANGED <<account, handles>>
    /\ UNCHANGED budget

Put(t) ==
    /\ At(t, "put")
    /\ vault' = task[t].token /\ Go(t, "dial")
    /\ UNCHANGED <<remote, row, handles, budget>>

Ready(t) ==
    /\ cell' = [s \in Slots |-> IF builder[s] = t THEN "fresh" ELSE cell[s]]
    /\ builder' = Released(t)

(* connect_tls, JmapBackend::connect; a watcher keeps its own session.     *)
Dial(t) ==
    /\ At(t, "dial")
    /\ \/ Fail(t)
       \/ /\ IF task[t].kind = "watcher" THEN UNCHANGED <<cell, builder>> /\ Done(t)
             ELSE Ready(t) /\ Go(t, "op")
          /\ UNCHANGED <<remote, account, cache, slots, spoiled>>
    /\ UNCHANGED budget

(* The keychain or the connection fails, or the reply is lost, after the   *)
(* provider has acted or before.                                           *)
RefreshFails(t) ==
    /\ \/ At(t, "read") /\ Fail(t)
       \/ At(t, "post") /\ Fail(t)
       \/ /\ At(t, "post") /\ task[t].token \in honoured /\ Rotate(t)
          /\ builder' = Released(t) /\ Done(t)
          /\ UNCHANGED <<account, cache, slots, cell, spoiled>>
       \/ At(t, "put") /\ Go(t, "dial") /\ UNCHANGED <<remote, account, handles>>
    /\ Mishap

-----------------------------------------------------------------------------
(* The operation itself, and with_auth_retry around it.                    *)

Again(t) == task[t].kind = "reader" /\ ~task[t].retry

(* An open IMAP session outlives its token.                                *)
Operate(t) ==
    /\ At(t, "op") /\ Done(t)
    /\ UNCHANGED <<remote, account, handles, budget>>

EvictBuilt(t) ==
    /\ At(t, "evict")
    /\ cache' = (IF cache # 0 /\ cell[cache] = "empty" THEN cache ELSE 0) /\ Go(t, "lookup")
    /\ UNCHANGED <<remote, account, slots, cell, spoiled, builder, budget>>

Refused(t) ==
    /\ At(t, "op") /\ task[t].slot \in spoiled
    /\ IF Again(t)
       THEN task' = [task EXCEPT ![t].at = "evict", ![t].retry = TRUE, ![t].since = slots]
       ELSE Done(t)
    /\ UNCHANGED <<remote, account, handles, budget>>

Evict(t) ==
    /\ At(t, "evict")
    /\ cache' = 0 /\ Go(t, "lookup")
    /\ UNCHANGED <<remote, account, slots, cell, spoiled, builder, budget>>

(* Half an hour, an hour: the session is old, its access token expires.    *)
(* Nobody sees the age of a session out of the cache and out of use.       *)
InUse(s) == s = cache \/ \E t \in Tasks : task[t].slot = s

Age(s) ==
    /\ s = cache /\ cell[s] = "fresh" /\ cell' = [cell EXCEPT ![s] = "aged"]
    /\ UNCHANGED <<remote, account, cache, slots, spoiled, builder, task, budget>>

Expire(s) ==
    /\ InUse(s) /\ cell[s] = "aged" /\ s \notin spoiled /\ spoiled' = spoiled \cup {s}
    /\ UNCHANGED <<remote, account, cache, slots, cell, builder, task, budget>>

(* The provider drops an access token before its time.                     *)
Spoil(s) ==
    /\ InUse(s) /\ cell[s] = "fresh" /\ s \notin spoiled /\ spoiled' = spoiled \cup {s}
    /\ Mishap
    /\ UNCHANGED <<remote, account, cache, slots, cell, builder, task>>

-----------------------------------------------------------------------------
(* accounts_add_oauth                                                      *)

(* run_loopback_flow: OAuthFlow has the details.                           *)
Authorize(t) ==
    /\ At(t, "authorize")
    /\ \/ Done(t) /\ UNCHANGED <<honoured, minted>>
       \/ /\ minted < MaxTokens /\ minted' = minted + 1
          /\ honoured' = honoured \cup {minted + 1}
          /\ task' = [task EXCEPT ![t].token = minted + 1, ![t].at = "insert"]
    /\ UNCHANGED <<scenario, account, handles, budget>>

Insert(t) ==
    /\ At(t, "insert")
    /\ row' = TRUE /\ Go(t, "store")
    /\ UNCHANGED <<remote, vault, handles, budget>>

(* Then sync_one_account in the background, a call like any other.         *)
Store(t) ==
    /\ At(t, "store")
    /\ vault' = task[t].token
    /\ task' = [task EXCEPT ![t] = [Idle EXCEPT !.at = "lookup"]]
    /\ UNCHANGED <<remote, row, handles, budget>>

(* The error is returned; the row stays.                                   *)
StoreFails(t) ==
    /\ At(t, "store") /\ Done(t) /\ Mishap
    /\ UNCHANGED <<remote, account, handles>>

-----------------------------------------------------------------------------
(* accounts_remove                                                         *)

Check(t) ==
    /\ At(t, "check")
    /\ IF row THEN Go(t, "drop") ELSE Done(t)
    /\ UNCHANGED <<remote, account, handles, budget>>

DropHandle(t) ==
    /\ At(t, "drop")
    /\ cache' = 0 /\ Go(t, "recall")
    /\ UNCHANGED <<remote, account, slots, cell, spoiled, builder, budget>>

Recall(t) ==
    /\ At(t, "recall")
    /\ task' = [task EXCEPT ![t].token = vault, ![t].at = IF vault = 0 THEN "forget" ELSE "revoke"]
    /\ UNCHANGED <<remote, account, handles, budget>>

(* Best effort, and only where the provider names an endpoint.             *)
Revoke(t) ==
    /\ At(t, "revoke")
    /\ \/ scenario.provider = "gmail" /\ honoured' = honoured \ {task[t].token}
       \/ UNCHANGED honoured
    /\ Go(t, "forget")
    /\ UNCHANGED <<scenario, minted, account, handles, budget>>

Forget(t) ==
    /\ At(t, "forget")
    /\ vault' = 0 /\ Go(t, "delete")
    /\ UNCHANGED <<remote, row, handles, budget>>

Delete(t) ==
    /\ At(t, "delete")
    /\ row' = FALSE /\ Done(t)
    /\ UNCHANGED <<remote, vault, handles, budget>>

(* The keychain or the table refuses: the one is logged, the other ends it. *)
RemoveFails(t) ==
    /\ \/ At(t, "forget") /\ Go(t, "delete")
       \/ At(t, "delete") /\ Done(t)
    /\ Mishap
    /\ UNCHANGED <<remote, account, handles>>

-----------------------------------------------------------------------------
GetOrOpen(t) == UseCached(t) \/ ShareSlot(t) \/ NewSlot(t) \/ Join(t)
Build(t) == Load(t) \/ Read(t) \/ Post(t) \/ Put(t) \/ Dial(t)
Use(t) == Operate(t) \/ Refused(t) \/ Evict(t)
Add(t) == Authorize(t) \/ Insert(t) \/ Store(t)
Remove(t) == Check(t) \/ DropHandle(t) \/ Recall(t) \/ Revoke(t) \/ Forget(t) \/ Delete(t)
Step(t) == GetOrOpen(t) \/ Build(t) \/ Use(t) \/ Add(t) \/ Remove(t)

Next ==
    \/ \E t \in Tasks :
          \/ \E kind \in Kinds : Call(t, kind)
          \/ Step(t)
          \/ RefreshFails(t) \/ StoreFails(t) \/ RemoveFails(t)
    \/ \E s \in Slots : Age(s) \/ Expire(s) \/ Spoil(s)

Spec == Init /\ [][Next]_vars

(* A task runs while it can; the permits of a cell go round in order.      *)
Fairness == \A t \in Tasks : WF_vars(Step(t)) /\ SF_vars(Join(t))
FairSpec == Spec /\ Fairness
=============================================================================
