------------------------- MODULE HistoryProperties -------------------------
(***************************************************************************)
(* What a history pull promises.                                           *)
(***************************************************************************)
EXTENDS HistorySync

Statuses == Ended \cup InFlight
Chunks == [kind : {"chunk", "failed"}, uids : SUBSET Nat, next : Nat]

(* The types of the rows, the locals of a job and the shared maps.         *)
TypeOK ==
    /\ status \in [Folders -> Statuses] /\ anchor \in [Folders -> Nat]
    /\ stored \in [Folders -> SUBSET Nat] /\ foreign \in [Folders -> SUBSET Nat]
    /\ fts \in {"there", "dropped", "failed"}
    /\ cancellers \in [Folders -> Jobs \cup {None}]
    /\ pulls \in Int
    /\ pc \in [Jobs -> Steps] /\ of \in [Jobs -> Folders \cup {None}]
    /\ token \in [Jobs -> BOOLEAN] /\ gen \in [Jobs -> BOOLEAN]
    /\ last \in [Jobs -> Nat] /\ pipe \in [Jobs -> Seq(Chunks)]
    /\ fails \in [Jobs -> 0 .. MaxRetries - 1] /\ feeding \in [Jobs -> BOOLEAN]
    /\ deleting \subseteq Folders /\ due \in BOOLEAN
    /\ listed \subseteq [folder : Folders, from : Nat]
    /\ gone \in [Accounts -> 0 .. 3]
    /\ mishaps \in Nat /\ crashes \in Nat

Busy(d) == pc[d] # "idle"
Has(f, a) == \A u \in Uids[f] : u >= a => u \in stored[f]

(* An anchor is persisted only after everything above it: whatever pulls,  *)
(* cancels, failures and restarts came before, resuming from the row skips *)
(* no message (update_progress after persist_chunk, history.rs:333-346).   *)
(* Messages moved in from other folders are excepted, see below.           *)
AnchorIsHonest ==
    \A f \in Folders : status[f] # "absent" /\ foreign[f] = {} => Has(f, anchor[f])

(* A row says completed only when every message of the folder is stored,   *)
(* also when resume or start completes it without pulling, and when two    *)
(* jobs write the same row.                                                *)
CompletedIsComplete ==
    \A f \in Folders : status[f] = "completed" /\ foreign[f] = {} => Uids[f] \subseteq stored[f]

(* When no pull is counted search finds its index, unless creating it      *)
(* failed: pulls of several accounts drop and rebuild the one index, and   *)
(* every one that ends has rebuilt it before PullGuard lets go             *)
(* (commands/history_sync.rs:449-454, history.rs:198-204).                 *)
IndexIsBack == pulls = 0 => fts # "dropped"

(* A registered token belongs to a live driver of its folder.  A token     *)
(* left behind would have every later start rejected as already running.   *)
RegisteredIsAlive ==
    \A f \in Folders :
        cancellers[f] # None =>
            of[cancellers[f]] = f /\ pc[cancellers[f]] \in Waiting \cup Holding

(* Nothing of a removed account is left, and no driver that was still      *)
(* running when it was removed brings its row or its messages back: the    *)
(* inserts are refused by the foreign keys of migration 0011.              *)
RemovedLeavesNothing ==
    \A f \in Folders : ~Exists(f) => status[f] = "absent" /\ stored[f] \cup foreign[f] = {}

(* Every job ends: no driver waits for ever for the lock of its account,   *)
(* for a producer that is blocked on the channel, or for a chunk.          *)
EveryJobEnds == \A d \in Jobs : Busy(d) ~> ~Busy(d)

(* A pull that is queued or running is completed, cancelled, in error, or  *)
(* removed in the end, a restart in the middle included.                   *)
EveryPullSettles == \A f \in Folders : status[f] \in InFlight ~> status[f] \in Ended

-----------------------------------------------------------------------------
(* The inductive invariant.                                                *)

(* The honesty of anchors is about folders that exist and got nothing from *)
(* elsewhere.                                                              *)
Sound(f) == Exists(f) /\ foreign[f] = {}

BusyJobsHaveAFolder == \A d \in Jobs : Busy(d) => of[d] \in Folders

(* Where the producer stood when it fetched the i-th chunk of the pipe.    *)
Before(d, i) == IF i = 1 THEN last[d] ELSE pipe[d][i - 1].next

(* Each chunk starts where the one before it ended, the first one at the   *)
(* consumer's anchor.                                                      *)
Follows(d, i) ==
    /\ Before(d, i) > 1
    /\ pipe[d][i].kind = "chunk" =>
         /\ pipe[d][i].uids = ChunkUids(of[d], Before(d, i))
         /\ IsNextAnchor(of[d], Before(d, i), pipe[d][i].next)
PipesAreChains == \A d \in Jobs : \A i \in 1 .. Len(pipe[d]) : Follows(d, i)

ConsumerControl ==
    \A d \in Jobs :
        /\ pc[d] \notin Consuming => pipe[d] = <<>>
        /\ pc[d] \in {"storing", "recording"} => pipe[d] # <<>> /\ Head(pipe[d]).kind = "chunk"
        /\ pc[d] = "completing" => last[d] <= 1

(* What is stored has no holes, and every anchor somewhere in memory has   *)
(* all messages above it.                                                  *)
NoHoles == \A f \in Folders : Sound(f) => Newest(stored[f], f)
JobsAreHonest ==
    \A d \in Jobs : pc[d] \notin {"idle", "measuring"} /\ Sound(of[d]) => Has(of[d], last[d])
ListedIsHonest == \A e \in listed : Sound(e.folder) => Has(e.folder, e.from)
RecordingIsStored ==
    \A d \in Jobs :
        pc[d] = "recording" /\ Sound(of[d]) => Head(pipe[d]).uids \subseteq stored[of[d]]

PullsAreCounted == pulls = Cardinality({d \in Jobs : pc[d] \in Counted})
DroppedByAPull == fts = "dropped" => \E d \in Jobs : pc[d] \in Consuming \cup {"closing"}

Control == BusyJobsHaveAFolder /\ PipesAreChains /\ ConsumerControl /\ RegisteredIsAlive
Honesty ==
    /\ RemovedLeavesNothing /\ AnchorIsHonest /\ CompletedIsComplete
    /\ NoHoles /\ JobsAreHonest /\ ListedIsHonest /\ RecordingIsStored
Indexing == PullsAreCounted /\ DroppedByAPull

IInv == TypeOK /\ Control /\ Honesty /\ Indexing

=============================================================================
