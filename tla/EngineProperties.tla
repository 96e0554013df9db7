-------------------------- MODULE EngineProperties --------------------------
(***************************************************************************)
(* What the engine promises to the table of accounts and to the folders.   *)
(***************************************************************************)
EXTENDS Engine

Covers(w, f) == w[1] = pass /\ f \in pool[w].folders /\ pool[w].state # "gone"

(* The types, and the passes: a pool is numbered, its receiver open in the *)
(* loop only, and nothing is pending or under way outside it.              *)
EngineTypeOK ==
    /\ rows \subseteq Accounts /\ telling \in Nat /\ permit \in BOOLEAN
    /\ at \in {"ui", "list", "boot", "rest", "loop", "sync"}
    /\ todo \subseteq known /\ booted \subseteq Folders /\ pushed \subseteq known \cap Jmap
    /\ \A w \in DOMAIN pool :
          /\ w \in Passes \X Unit /\ pool[w].state \in {"dial", "live", "pause", "gone"}
          /\ pool[w].folders \subseteq Folders /\ pool[w].tell \subseteq pool[w].folders
          /\ Len(pool[w].out) <= Buffer /\ (Open(w) => ~pool[w].deaf)
    /\ Len(channel) <= Channel + Cardinality(Unit)
    /\ at \notin {"loop", "sync"} => channel = <<>> /\ pending = {} /\ watched = {}
    /\ at = "sync" <=> current # {}

(* An IMAP folder whose clicks are ignored has a watcher of this pass, for *)
(* as long as its account stays: a rebuild of the pool leaves no folder    *)
(* behind in watched_folders.                                              *)
WatchedAreCovered ==
    \A f \in watched : Home[f] \in Imap =>
        \/ \E w \in DOMAIN pool : Covers(w, f)
        \/ Home[f] \notin rows \/ telling > 0 \/ permit

(* An account that is added is in a pass sooner or later, whatever the     *)
(* engine is doing when the command notifies it.                           *)
AccountsAreServed == \A a \in Accounts : a \in rows ~> (a \in known \/ a \notin rows)

(* A change that a watcher has reported is followed by a sync of the       *)
(* folder, though the report may be dropped with its pass or wait in full  *)
(* buffers, unless the account cannot be opened.                           *)
ReportsLeadToSyncs ==
    \A f \in Folders : f \in owed ~> (f \notin owed \/ Home[f] \in failed \/ Home[f] \notin rows)

(* A folder beyond the cap is never more than a poll behind.               *)
PolledFoldersCatchUp ==
    \A f \in Folders :
        f \in changed \cap Polled ~> (f \notin changed \/ Home[f] \notin rows \/ f \notin Polled)

(* Nothing is missed across the passes: not an account the user adds, not  *)
(* a change a watcher has reported, not one in a folder that is polled.    *)
NothingIsMissed == AccountsAreServed /\ ReportsLeadToSyncs /\ PolledFoldersCatchUp
=============================================================================
