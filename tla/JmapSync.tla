------------------------------- MODULE JmapSync -------------------------------
(***************************************************************************)
(* The folders of a JMAP account, synced one after the other whenever the  *)
(* account has changed (sync_one_account, sync_folder, JmapBackend).       *)
(*                                                                         *)
(* Email/changes speaks of the account: it names what was created, changed *)
(* or destroyed since a state, in whatever mailbox.  Email/query and       *)
(* Email/get come after it, and the server may change between any two.     *)
(* The state that a query answers is taken for a state of Email/changes.   *)
(***************************************************************************)
EXTENDS Naturals, Sequences, FiniteSets, SequencesExt

CONSTANTS
    Emails,     \* ids of emails
    Order,      \* the mailboxes, in the order in which Mailbox/query lists them
    Remote,     \* bound: how often the server changes
    Broken      \* bound: how often a request fails

VARIABLES
    mailbox,    \* the server: the mailbox of each email; "none" before, "destroyed" after
    changed,    \* the server: the state after which an email changed last
    epoch,      \* the server: its state
    listed,     \* the database: the folder of each row, or "none"
    states,     \* the database: the cursor of each folder, 0 for None
    turn,       \* the pass: which mailbox is next, 0 when it rests
    work,       \* the sync of that mailbox: its step and what it has read
    passed,     \* the state the last pass began with: what came later has sent a push
    broken      \* how many requests have failed

cloud == <<mailbox, changed, epoch>>
base == <<listed, states>>
vars == <<cloud, base, turn, work, passed, broken>>

Mailboxes == ToSet(Order)
In(f) == {e \in Emails : mailbox[e] = f}
NoWork == [at |-> "start", ids |-> {}, gone |-> {}, got |-> {}, live |-> {}, state |-> 0, prior |-> 0]
Here == Order[turn]

(* One email is there at first and no folder was synced.                   *)
Init ==
    /\ mailbox = [e \in Emails |-> IF e = CHOOSE d \in Emails : TRUE THEN Order[Len(Order)] ELSE "none"]
    /\ changed = [e \in Emails |-> 1] /\ epoch = 1
    /\ listed = [e \in Emails |-> "none"] /\ states = [f \in Mailboxes |-> 0]
    /\ turn = 0 /\ work = NoWork /\ passed = 0 /\ broken = 0
-----------------------------------------------------------------------------
(* The server: an email comes, moves, gets a keyword or is destroyed.      *)
Becomes(e, f) ==
    /\ epoch <= Remote /\ epoch' = epoch + 1
    /\ mailbox' = [mailbox EXCEPT ![e] = f] /\ changed' = [changed EXCEPT ![e] = epoch']
    /\ UNCHANGED <<base, turn, work, passed, broken>>
Receive(e) == mailbox[e] = "none" /\ \E f \in Mailboxes : Becomes(e, f)
Refile(e) == mailbox[e] \in Mailboxes /\ \E f \in Mailboxes : Becomes(e, f)
Destroy(e) == mailbox[e] \in Mailboxes /\ Becomes(e, "destroyed")

(* A push wakes a pass over the mailboxes.                                 *)
Push ==
    /\ turn = 0 /\ passed < epoch
    /\ turn' = 1 /\ work' = NoWork /\ passed' = epoch /\ UNCHANGED <<cloud, base, broken>>
NextTurn == turn' = IF turn = Len(Order) THEN 0 ELSE turn + 1

(* list_messages: what changed since the cursor, or the whole mailbox.     *)
Discover ==
    /\ turn # 0 /\ work.at = "start"
    /\ LET prior == states[Here]
           news == {e \in Emails : changed[e] > prior}
       IN work' = [NoWork EXCEPT !.at = "get", !.prior = prior, !.state = epoch,
                      !.ids = IF prior = 0 THEN In(Here) ELSE {e \in news : mailbox[e] \in Mailboxes},
                      !.gone = IF prior = 0 THEN {} ELSE {e \in news : mailbox[e] = "destroyed"}]
    /\ UNCHANGED <<cloud, base, turn, passed, broken>>
(* Email/get passes over what is destroyed by now.                         *)
Get ==
    /\ turn # 0 /\ work.at = "get"
    /\ work' = [work EXCEPT !.at = "apply", !.got = {e \in work.ids : mailbox[e] \in Mailboxes}]
    /\ UNCHANGED <<cloud, base, turn, passed, broken>>

(* Headers carry the folder that is being synced, and so do the rows.      *)
RemovedNone(w) == {}
Removed(w) == w.gone
Apply ==
    /\ turn # 0 /\ work.at = "apply"
    /\ listed' = [e \in Emails |-> IF e \in Removed(work) THEN "none"
                                   ELSE IF e \in work.got THEN Here ELSE listed[e]]
    /\ work' = [work EXCEPT !.at = IF work.prior = 0 THEN "cursor" ELSE "known"]
    /\ UNCHANGED <<cloud, states, turn, passed, broken>>

(* The reconciliation: rows of the folder that are not in the mailbox are  *)
(* pruned, unless the mailbox seems empty or the query fails.              *)
KnownIds ==
    /\ turn # 0 /\ work.at = "known"
    /\ work' = [work EXCEPT !.at = IF In(Here) = {} THEN "cursor" ELSE "prune", !.live = In(Here)]
    /\ UNCHANGED <<cloud, base, turn, passed, broken>>
Spared(e) == e \in work.live
PruneDead ==
    /\ turn # 0 /\ work.at = "prune"
    /\ listed' = [e \in Emails |-> IF listed[e] = Here /\ ~Spared(e) THEN "none" ELSE listed[e]]
    /\ work' = [work EXCEPT !.at = "cursor"]
    /\ UNCHANGED <<cloud, states, turn, passed, broken>>
StoreState ==
    /\ turn # 0 /\ work.at = "cursor"
    /\ states' = [states EXCEPT ![Here] = work.state]
    /\ NextTurn /\ work' = NoWork /\ UNCHANGED <<cloud, listed, passed, broken>>

(* A request fails: the folder keeps its cursor, the pass goes on.         *)
RequestFails ==
    /\ turn # 0 /\ work.at \in {"start", "get", "known"} /\ broken < Broken /\ broken' = broken + 1
    /\ IF work.at = "known" THEN work' = [work EXCEPT !.at = "cursor"] /\ UNCHANGED turn
       ELSE NextTurn /\ work' = NoWork
    /\ UNCHANGED <<cloud, base, passed>>

PassSteps == Push \/ Discover \/ Get \/ Apply \/ KnownIds \/ PruneDead \/ StoreState
Next == PassSteps \/ RequestFails \/ (\E e \in Emails : Receive(e) \/ Refile(e) \/ Destroy(e))
Spec == Init /\ [][Next]_vars

(* Every change is pushed, and requests are answered.                      *)
FairSpec == Spec /\ WF_vars(PassSteps)
-----------------------------------------------------------------------------
(* A message that is destroyed on the server loses its row in the end,     *)
(* whichever folder held it, whatever overlapped the pass, though the      *)
(* reconciliation leaves folders alone whose mailbox is empty.             *)
DestroyedAreForgotten ==
    \A e \in Emails : (mailbox[e] = "destroyed" /\ listed[e] # "none") ~> (listed[e] = "none" \/ broken > 0)
=============================================================================
