---------------------------- MODULE HistorySync ----------------------------
(***************************************************************************)
(* "Pull full mail history": the background jobs that page older messages  *)
(* of a folder into the local store, and the commands that start, cancel   *)
(* and resume them (commands/history_sync.rs, sync/history.rs,             *)
(* repos/history_sync.rs).                                                 *)
(*                                                                         *)
(* A job is one run of history_sync_start, or of one turn of the loop of   *)
(* resume_running_jobs, followed by the driver task it spawns.  Every      *)
(* await in between is a point where other jobs and commands move, so each *)
(* step below is what happens between two awaits.  Inside a pull the       *)
(* producer and the consumer are two processes joined by a channel.        *)
(***************************************************************************)
EXTENDS Integers, Sequences, FiniteSets

CONSTANTS
    Jobs,         \* how many starts and drivers may be alive at once (a bound)
    Folders,
    AccountOf,    \* the account of a folder
    Uids,         \* what the server holds in a folder
    ForeignUids,  \* UIDs of other folders, kept in the ids of moved messages
    Removable,    \* accounts the user may remove
    ChunkSize,    \* HISTORY_CHUNK_SIZE
    MaxRetries,   \* MAX_CHUNK_RETRIES
    MaxMishaps,   \* bound on local statements that fail
    MaxCrashes,   \* bound on process exits
    None

Accounts == {AccountOf[f] : f \in Folders}

ASSUME NoneAssumption == None \notin Jobs \cup Folders
ASSUME JobsAssumption == IsFiniteSet(Jobs)
ASSUME FolderAssumption == AccountOf \in [Folders -> Accounts]
ASSUME UidAssumption ==
    Uids \in [Folders -> SUBSET (Nat \ {0})] /\ ForeignUids \subseteq Nat \ {0}
ASSUME SizeAssumption == ChunkSize \in Nat \ {0} /\ MaxRetries \in Nat \ {0}
ASSUME BoundAssumption == MaxMishaps \in Nat /\ MaxCrashes \in Nat

VARIABLES
    status, anchor,        \* history_sync_state; "absent": no row
    stored, foreign,       \* the folder's messages: its own, and moved-in ones
    fts,                   \* messages_fts_idx: "there", "dropped" or "failed"
    cancellers,            \* folder -> the job whose token is registered
    pulls,                 \* pull_in_progress
    pc, of, token, gen,    \* a job: its step, folder, cancel flag, account lock
    last, pipe, fails, feeding,  \* its consumer's anchor, chunks, producer
    deleting,              \* folders whose cancel has not deleted the row yet
    due, listed,           \* the resume at boot is to come; rows listed by one
    gone,                  \* how far accounts_remove has come with an account
    mishaps, crashes

table == <<status, anchor>>
store == <<stored, foreign>>
jobState == <<pc, of, token, gen>>
pipeline == <<last, pipe, fails, feeding>>
commands == <<deleting, due, listed, gone>>
budget == <<mishaps, crashes>>
vars == <<table, store, fts, cancellers, pulls, jobState, pipeline, commands, budget>>

Ended == {"absent", "completed", "canceled", "error"}
InFlight == {"pending", "running"}

(* The steps of a start command, of a driver before it holds its account's *)
(* lock, and of a driver that holds it.                                    *)
Starting == {"measuring", "persisting", "registering", "claimed"}
Waiting == {"spawned", "unlocked", "queued"}
Consuming == {"pulling", "storing", "recording", "completing", "cancelling"}
Counted == {"starting", "unindexing", "closing", "ending"} \cup Consuming
Holding == {"locked", "rechecking", "opening", "dropping"} \cup Counted
Steps == {"idle"} \cup Starting \cup Waiting \cup Holding

Exists(f) == gone[AccountOf[f]] < 3

(* What the first synchronisation of a folder leaves: its newest messages. *)
Newest(s, f) == /\ s \subseteq Uids[f]
                /\ \A u \in s, v \in Uids[f] : v >= u => v \in s

Init ==
    /\ status = [f \in Folders |-> "absent"] /\ anchor = [f \in Folders |-> 0]
    /\ stored \in {s \in [Folders -> SUBSET UNION {Uids[f] : f \in Folders}] :
                     \A f \in Folders : Newest(s[f], f)}
    /\ foreign = [f \in Folders |-> {}]
    /\ fts = "there" /\ cancellers = [f \in Folders |-> None] /\ pulls = 0
    /\ pc = [d \in Jobs |-> "idle"] /\ of = [d \in Jobs |-> None]
    /\ token = [d \in Jobs |-> FALSE] /\ gen = [d \in Jobs |-> FALSE]
    /\ last = [d \in Jobs |-> 0] /\ pipe = [d \in Jobs |-> <<>>]
    /\ fails = [d \in Jobs |-> 0] /\ feeding = [d \in Jobs |-> FALSE]
    /\ deleting = {} /\ due = TRUE /\ listed = {}
    /\ gone = [a \in Accounts |-> 0]
    /\ mishaps = 0 /\ crashes = 0

(* A local statement that fails; the budget bounds how many do.            *)
Mishap == mishaps < MaxMishaps /\ mishaps' = mishaps + 1 /\ UNCHANGED crashes
Fine == UNCHANGED budget

(* sync_db is one connection behind a mutex: a consumer keeps it from      *)
(* storing a chunk until it has recorded the progress.                     *)
SyncDbFree == \A e \in Jobs : pc[e] # "recording"

(* UPDATE ... WHERE (account, folder): nothing happens without a row.      *)
SetStatus(f, s) ==
    status' = [status EXCEPT ![f] = IF @ = "absent" THEN @ ELSE s] /\ UNCHANGED anchor
(* INSERT ... ON CONFLICT DO UPDATE.                                       *)
Upsert(f, s, a) ==
    status' = [status EXCEPT ![f] = s] /\ anchor' = [anchor EXCEPT ![f] = a]
(* set_status whose failure is logged and ignored.                         *)
TrySetStatus(f, s) ==
    /\ SyncDbFree
    /\ \/ SetStatus(f, s) /\ Fine
       \/ UNCHANGED table /\ Mishap

Go(d, step) == pc' = [pc EXCEPT ![d] = step]

(* A job is over: its locals are gone and its account lock is released.    *)
Free(d) ==
    /\ Go(d, "idle")
    /\ of' = [of EXCEPT ![d] = None]
    /\ token' = [token EXCEPT ![d] = FALSE]
    /\ gen' = [gen EXCEPT ![d] = FALSE]
    /\ last' = [last EXCEPT ![d] = 0]
    /\ UNCHANGED <<pipe, fails, feeding>>

-----------------------------------------------------------------------------
(* history_sync_start                                                      *)

StartCheck(d, f) ==
    /\ pc[d] = "idle" /\ cancellers[f] = None
    /\ Go(d, "measuring") /\ of' = [of EXCEPT ![d] = f]
    /\ UNCHANGED <<table, store, fts, cancellers, pulls, token, gen, pipeline, commands, budget>>

Resumable(f) == status[f] \in {"pending", "running", "canceled", "error"} /\ anchor[f] > 1

(* The UIDs decoded from the ids of the folder's rows: a moved message     *)
(* keeps the id, and so the UID, of the folder it came from.               *)
LocalUids(f) == stored[f] \cup foreign[f]

StartAnchor(f, a) ==
    IF Resumable(f) THEN a = anchor[f]
    ELSE a \in LocalUids(f) /\ \A u \in LocalUids(f) : a <= u

StartMeasure(d) ==
    /\ pc[d] = "measuring"
    /\ \E a \in LocalUids(of[d]) \cup {anchor[of[d]]} :
          StartAnchor(of[d], a) /\ last' = [last EXCEPT ![d] = a]
    /\ Go(d, "persisting")
    /\ UNCHANGED <<table, store, fts, cancellers, pulls, of, token, gen, pipe, fails, feeding,
                   commands, budget>>

(* No local message to start from, or a failed query.                      *)
StartRefused(d) ==
    /\ pc[d] = "measuring"
    /\ \/ LocalUids(of[d]) = {} /\ ~Resumable(of[d]) /\ Fine
       \/ Mishap
    /\ Free(d)
    /\ UNCHANGED <<table, store, fts, cancellers, pulls, commands>>

StartPersist(d) ==
    /\ pc[d] = "persisting" /\ last[d] > 1 /\ Exists(of[d])
    /\ Upsert(of[d], "pending", last[d])
    /\ Go(d, "registering")
    /\ UNCHANGED <<store, fts, cancellers, pulls, of, token, gen, pipeline, commands, budget>>

StartNothingLeft(d) ==
    /\ pc[d] = "persisting" /\ last[d] <= 1 /\ Exists(of[d])
    /\ Upsert(of[d], "completed", last[d])
    /\ Free(d)
    /\ UNCHANGED <<store, fts, cancellers, pulls, commands, budget>>

(* The upsert fails (the account is gone, or a mishap), or the set_status  *)
(* after it does.                                                          *)
StartPersistFails(d) ==
    /\ pc[d] = "persisting"
    /\ \/ ~Exists(of[d]) /\ UNCHANGED table /\ Fine
       \/ UNCHANGED table /\ Mishap
       \/ Exists(of[d]) /\ Upsert(of[d], "running", last[d]) /\ Mishap
    /\ Free(d)
    /\ UNCHANGED <<store, fts, cancellers, pulls, commands>>

(* The canceller is inserted over whatever is there; the driver spawned.   *)
Register(d, step) ==
    /\ pc[d] = step
    /\ cancellers' = [cancellers EXCEPT ![of[d]] = d]
    /\ Go(d, "spawned")
    /\ UNCHANGED <<table, store, fts, pulls, of, token, gen, pipeline, commands, budget>>

StartRegister(d) == Register(d, "registering")

-----------------------------------------------------------------------------
(* resume_running_jobs: due once after boot, and run again at every pass   *)
(* that the engine begins because the accounts changed, at any time.       *)

(* Mutant: only rows that say running are resumed. *)
ResumeListRunning ==
    /\ listed = {} /\ (\A d \in Jobs : pc[d] # "claimed") /\ SyncDbFree
    /\ due' = FALSE
    /\ listed' = {[folder |-> f, from |-> anchor[f]] : f \in {g \in Folders : status[g] = "running"}}
    /\ UNCHANGED <<table, store, fts, cancellers, pulls, jobState, pipeline, deleting,
                   gone, budget>>

ResumeList ==
    /\ listed = {} /\ (\A d \in Jobs : pc[d] # "claimed") /\ SyncDbFree
    /\ due' = FALSE
    /\ listed' = {[folder |-> f, from |-> anchor[f]] :
                    f \in {g \in Folders : status[g] \in {"running", "pending", "error"}}}
    /\ UNCHANGED <<table, store, fts, cancellers, pulls, jobState, pipeline, deleting,
                   gone, budget>>

(* The loop takes the listed rows one after the other.                     *)
Turn(e) == e \in listed /\ \A d \in Jobs : pc[d] # "claimed"

(* Nothing left below the anchor: the row is completed.                    *)
ResumeComplete(e) ==
    /\ Turn(e) /\ e.from <= 1
    /\ TrySetStatus(e.folder, "completed")
    /\ listed' = listed \ {e}
    /\ UNCHANGED <<store, fts, cancellers, pulls, jobState, pipeline, deleting, due, gone>>

ResumeSkip(e) ==
    /\ Turn(e) /\ e.from > 1 /\ cancellers[e.folder] # None
    /\ listed' = listed \ {e}
    /\ UNCHANGED <<table, store, fts, cancellers, pulls, jobState, pipeline, deleting, due,
                   gone, budget>>

ResumeClaim(d, e) ==
    /\ Turn(e) /\ e.from > 1 /\ cancellers[e.folder] = None
    /\ pc[d] = "idle"
    /\ listed' = listed \ {e}
    /\ Go(d, "claimed")
    /\ of' = [of EXCEPT ![d] = e.folder] /\ last' = [last EXCEPT ![d] = e.from]
    /\ UNCHANGED <<table, store, fts, cancellers, pulls, token, gen, pipe, fails, feeding,
                   deleting, due, gone, budget>>

ResumeRegister(d) == Register(d, "claimed")

-----------------------------------------------------------------------------
(* spawn_driver, up to pull_history                                        *)

MarkPending(d) ==
    /\ pc[d] = "spawned"
    /\ TrySetStatus(of[d], "pending")
    /\ Go(d, "unlocked")
    /\ UNCHANGED <<store, fts, cancellers, pulls, of, token, gen, pipeline, commands>>

(* The account's mutex is looked up in a map; accounts_remove takes it out *)
(* of the map, so a later driver finds another one.                        *)
LookUpLock(d) ==
    /\ pc[d] = "unlocked"
    /\ gen' = [gen EXCEPT ![d] = gone[AccountOf[of[d]]] >= 2]
    /\ Go(d, "queued")
    /\ UNCHANGED <<table, store, fts, cancellers, pulls, of, token, pipeline, commands, budget>>

SameLock(d, e) == AccountOf[of[d]] = AccountOf[of[e]] /\ gen[d] = gen[e]

(* Mutant: a driver that waits keeps the others from the lock. *)
AcquireAlone(d) ==
    /\ pc[d] = "queued"
    /\ \A e \in Jobs \ {d} : pc[e] \in Waiting \cup Holding => ~SameLock(d, e)
    /\ Go(d, "locked")
    /\ UNCHANGED <<table, store, fts, cancellers, pulls, of, token, gen, pipeline, commands, budget>>

Acquire(d) ==
    /\ pc[d] = "queued"
    /\ \A e \in Jobs : pc[e] \in Holding => ~SameLock(d, e)
    /\ Go(d, "locked")
    /\ UNCHANGED <<table, store, fts, cancellers, pulls, of, token, gen, pipeline, commands, budget>>

MarkRunning(d) ==
    /\ pc[d] = "locked"
    /\ TrySetStatus(of[d], "running")
    /\ Go(d, "rechecking")
    /\ UNCHANGED <<store, fts, cancellers, pulls, of, token, gen, pipeline, commands>>

BailOut(d) ==
    /\ pc[d] = "rechecking" /\ token[d]
    /\ TrySetStatus(of[d], "canceled")
    /\ Go(d, "dropping")
    /\ UNCHANGED <<store, fts, cancellers, pulls, of, token, gen, pipeline, commands>>

GoOn(d) ==
    /\ pc[d] = "rechecking" /\ ~token[d]
    /\ Go(d, "opening")
    /\ UNCHANGED <<table, store, fts, cancellers, pulls, of, token, gen, pipeline, commands, budget>>

OpenFails(d) ==
    /\ pc[d] = "opening"
    /\ TrySetStatus(of[d], "error")
    /\ Go(d, "dropping")
    /\ UNCHANGED <<store, fts, cancellers, pulls, of, token, gen, pipeline, commands>>

(* The backend is open; PullGuard counts the pull.                         *)
Opened(d) ==
    /\ pc[d] = "opening"
    /\ pulls' = pulls + 1
    /\ Go(d, "starting")
    /\ UNCHANGED <<table, store, fts, cancellers, of, token, gen, pipeline, commands, budget>>

-----------------------------------------------------------------------------
(* pull_history                                                            *)

(* Mutant: the row's account is not checked. *)
StartPullUnchecked(d) ==
    /\ pc[d] = "starting" /\ SyncDbFree
    /\ Upsert(of[d], "running", last[d])
    /\ Go(d, "unindexing")
    /\ UNCHANGED <<store, fts, cancellers, pulls, of, token, gen, pipeline, commands, budget>>

StartPull(d) ==
    /\ pc[d] = "starting" /\ Exists(of[d]) /\ SyncDbFree
    /\ Upsert(of[d], "running", last[d])
    /\ Go(d, "unindexing")
    /\ UNCHANGED <<store, fts, cancellers, pulls, of, token, gen, pipeline, commands, budget>>

StartPullFails(d) ==
    /\ pc[d] = "starting"
    /\ (~Exists(of[d]) /\ Fine) \/ Mishap
    /\ pulls' = pulls - 1
    /\ Go(d, "dropping")
    /\ UNCHANGED <<table, store, fts, cancellers, of, token, gen, pipeline, commands>>

DropIndex(d) ==
    /\ pc[d] = "unindexing" /\ SyncDbFree
    /\ \/ fts' = "dropped" /\ Fine
       \/ UNCHANGED fts /\ Mishap
    /\ Go(d, "pulling")
    /\ feeding' = [feeding EXCEPT ![d] = TRUE]
    /\ UNCHANGED <<table, store, cancellers, pulls, of, token, gen, last, pipe, fails, commands>>

(* What pull_history_chunk may return: the messages in the ChunkSize UIDs  *)
(* below the anchor and the next anchor.  In a gap it asks the server for  *)
(* the next UID below, and walks on by ChunkSize if that fails.            *)
Below(f, a) == {u \in Uids[f] : u < a}
LowEnd(a) == IF a - ChunkSize > 1 THEN a - ChunkSize ELSE 1
ChunkUids(f, a) == {u \in Below(f, a) : u >= LowEnd(a)}

IsNextAnchor(f, a, n) ==
    IF ChunkUids(f, a) # {} THEN n \in ChunkUids(f, a) /\ \A u \in ChunkUids(f, a) : n <= u
    ELSE \/ n = LowEnd(a)
         \/ n = 0 /\ Below(f, a) = {}
         \/ n - 1 \in Below(f, a) /\ \A u \in Below(f, a) : u <= n - 1

Chunk(us, n) == [kind |-> "chunk", uids |-> us, next |-> n]
Failure(n) == [kind |-> "failed", uids |-> {}, next |-> n]
(* Mutant: a gap is taken for the end. *)
StuckInAGap(c, a) == c.uids = {}

Stuck(c, a) == c.next >= a /\ c.uids = {}

(* The producer's anchor: where its latest chunk ended.                    *)
ProducerAnchor(d) == IF pipe[d] = <<>> THEN last[d] ELSE pipe[d][Len(pipe[d])].next

(* The chunks of a pull, oldest first: one the consumer works on, one in   *)
(* the channel, and one whose send blocks the producer.                    *)
InHand(d) == IF pc[d] \in {"storing", "recording"} THEN 1 ELSE 0
CanFetch(d) == feeding[d] /\ Len(pipe[d]) - InHand(d) < 2

Fetch(d) ==
    /\ CanFetch(d) /\ pc[d] \in Consuming /\ ~token[d] /\ ProducerAnchor(d) > 1
    /\ \E n \in 0 .. ProducerAnchor(d) :
         /\ IsNextAnchor(of[d], ProducerAnchor(d), n)
         /\ LET c == Chunk(ChunkUids(of[d], ProducerAnchor(d)), n)
            IN  /\ pipe' = [pipe EXCEPT ![d] = Append(@, c)]
                /\ feeding' = [feeding EXCEPT ![d] = ~Stuck(c, ProducerAnchor(d))]
    /\ fails' = [fails EXCEPT ![d] = 0]
    /\ UNCHANGED <<table, store, fts, cancellers, pulls, jobState, last, commands, budget>>

FetchFails(d) ==
    /\ CanFetch(d) /\ pc[d] \in Consuming /\ ~token[d] /\ ProducerAnchor(d) > 1
    /\ fails[d] + 1 < MaxRetries
    /\ fails' = [fails EXCEPT ![d] = @ + 1]
    /\ UNCHANGED <<table, store, fts, cancellers, pulls, jobState, last, pipe, feeding, commands,
                   budget>>

FetchGivesUp(d) ==
    /\ CanFetch(d) /\ pc[d] \in Consuming /\ ~token[d] /\ ProducerAnchor(d) > 1
    /\ fails[d] + 1 >= MaxRetries
    /\ pipe' = [pipe EXCEPT ![d] = Append(@, Failure(ProducerAnchor(d)))]
    /\ feeding' = [feeding EXCEPT ![d] = FALSE]
    /\ fails' = [fails EXCEPT ![d] = 0]
    /\ UNCHANGED <<table, store, fts, cancellers, pulls, jobState, last, commands, budget>>

(* Cancelled, at the bottom, or the consumer is gone and a send fails.     *)
ProducerStops(d) ==
    /\ feeding[d]
    /\ \/ CanFetch(d) /\ (token[d] \/ ProducerAnchor(d) <= 1)
       \/ pc[d] \notin Consuming
    /\ feeding' = [feeding EXCEPT ![d] = FALSE]
    /\ fails' = [fails EXCEPT ![d] = 0]
    /\ UNCHANGED <<table, store, fts, cancellers, pulls, jobState, last, pipe, commands, budget>>

Receive(d) ==
    /\ pc[d] = "pulling" /\ pipe[d] # <<>> /\ ~token[d] /\ Head(pipe[d]).kind = "chunk"
    /\ Go(d, "storing")
    /\ UNCHANGED <<table, store, fts, cancellers, pulls, of, token, gen, pipeline, commands, budget>>

ReceiveCancelled(d) ==
    /\ pc[d] = "pulling" /\ pipe[d] # <<>> /\ token[d]
    /\ Go(d, "cancelling")
    /\ UNCHANGED <<table, store, fts, cancellers, pulls, of, token, gen, pipeline, commands, budget>>

(* The consumer returns: the channel closes.                               *)
Close(d) ==
    /\ Go(d, "closing")
    /\ pipe' = [pipe EXCEPT ![d] = <<>>]
    /\ UNCHANGED <<store, fts, cancellers, pulls, of, token, gen, last, fails, feeding, commands>>

(* batch_insert_skip_existing: one transaction, none for no messages.      *)
StoreChunk(d) ==
    /\ pc[d] = "storing" /\ SyncDbFree
    /\ Exists(of[d]) \/ Head(pipe[d]).uids = {}
    /\ stored' = [stored EXCEPT ![of[d]] = @ \cup Head(pipe[d]).uids]
    /\ Go(d, "recording")
    /\ UNCHANGED <<table, foreign, fts, cancellers, pulls, of, token, gen, pipeline, commands,
                   budget>>

(* The messages' account is gone, or a mishap: returns by `?`.             *)
StoreFails(d) ==
    /\ pc[d] = "storing" /\ Head(pipe[d]).uids # {}
    /\ (~Exists(of[d]) /\ Fine) \/ Mishap
    /\ Close(d)
    /\ UNCHANGED table

(* update_progress; a chunk that neither moved nor brought anything ends   *)
(* the pull.                                                               *)
Record(d) ==
    /\ pc[d] = "recording"
    /\ LET c == Head(pipe[d])
       IN  /\ anchor' = [anchor EXCEPT ![of[d]] = IF status[of[d]] = "absent" THEN @ ELSE c.next]
           /\ last' = [last EXCEPT ![d] = c.next]
           /\ Go(d, IF ~Stuck(c, last[d]) THEN "pulling"
                    ELSE IF token[d] THEN "cancelling" ELSE "completing")
    /\ pipe' = [pipe EXCEPT ![d] = Tail(@)]
    /\ UNCHANGED <<status, store, fts, cancellers, pulls, of, token, gen, fails, feeding, commands,
                   budget>>

(* Mutant: returns from pull_history without rebuilding the index. *)
RecordFailsReturning(d) ==
    /\ pc[d] = "recording" /\ Mishap
    /\ Go(d, "ending")
    /\ pipe' = [pipe EXCEPT ![d] = <<>>]
    /\ UNCHANGED <<table, store, fts, cancellers, pulls, of, token, gen, last, fails, feeding, commands>>

RecordFails(d) ==
    /\ pc[d] = "recording" /\ Mishap
    /\ Close(d)
    /\ UNCHANGED table

GiveUp(d) ==
    /\ pc[d] = "pulling" /\ pipe[d] # <<>> /\ ~token[d] /\ Head(pipe[d]).kind = "failed"
    /\ TrySetStatus(of[d], "error")
    /\ Close(d)

(* The channel is closed and empty.                                        *)
Drained(d) ==
    /\ pc[d] = "pulling" /\ pipe[d] = <<>> /\ ~feeding[d]
    /\ Go(d, IF ~token[d] /\ last[d] <= 1 THEN "completing" ELSE "cancelling")
    /\ UNCHANGED <<table, store, fts, cancellers, pulls, of, token, gen, pipeline, commands, budget>>

Finish(d) ==
    /\ pc[d] \in {"completing", "cancelling"}
    /\ TrySetStatus(of[d], IF pc[d] = "completing" THEN "completed" ELSE "canceled")
    /\ Close(d)

RebuildIndex(d) ==
    /\ pc[d] = "closing" /\ ~feeding[d] /\ SyncDbFree
    /\ \/ fts' = "there" /\ Fine
       \/ fts' = (IF fts = "dropped" THEN "failed" ELSE fts) /\ Mishap
    /\ Go(d, "ending")
    /\ UNCHANGED <<table, store, cancellers, pulls, of, token, gen, pipeline, commands>>

(* run_driver returns and drops the PullGuard.                             *)
EndPull(d) ==
    /\ pc[d] = "ending"
    /\ pulls' = pulls - 1
    /\ Go(d, "dropping")
    /\ UNCHANGED <<table, store, fts, cancellers, of, token, gen, pipeline, commands, budget>>

DropCanceller(d) ==
    /\ pc[d] = "dropping"
    /\ cancellers' = [cancellers EXCEPT ![of[d]] = None]
    /\ Free(d)
    /\ UNCHANGED <<table, store, fts, pulls, commands, budget>>

-----------------------------------------------------------------------------
(* history_sync_cancel (a bound: one at a time for a folder)               *)

CancelToken(f) ==
    /\ f \notin deleting /\ cancellers[f] # None
    /\ token' = [token EXCEPT ![cancellers[f]] = TRUE]
    /\ cancellers' = [cancellers EXCEPT ![f] = None]
    /\ deleting' = deleting \cup {f}
    /\ UNCHANGED <<table, store, fts, pulls, pc, of, gen, pipeline, due, listed, gone, budget>>

CancelDelete(f) ==
    /\ f \in deleting
    /\ \/ Upsert(f, "absent", 0) /\ Fine
       \/ UNCHANGED table /\ Mishap
    /\ deleting' = deleting \ {f}
    /\ UNCHANGED <<store, fts, cancellers, pulls, jobState, pipeline, due, listed, gone>>

(* accounts_remove, as far as pulls are concerned: tokens and cancellers,  *)
(* the account's lock, then its rows, which the foreign keys cascade to.   *)
RemoveSignal(a) ==
    /\ a \in Removable /\ gone[a] = 0
    /\ token' = [d \in Jobs |->
                   token[d] \/ \E f \in Folders : AccountOf[f] = a /\ cancellers[f] = d]
    /\ cancellers' = [f \in Folders |-> IF AccountOf[f] = a THEN None ELSE cancellers[f]]
    /\ gone' = [gone EXCEPT ![a] = 1]
    /\ UNCHANGED <<table, store, fts, pulls, pc, of, gen, pipeline, deleting, due, listed,
                   budget>>

RemoveLock(a) ==
    /\ gone[a] = 1 /\ gone' = [gone EXCEPT ![a] = 2]
    /\ UNCHANGED <<table, store, fts, cancellers, pulls, jobState, pipeline, deleting, due, listed, budget>>

Without(a, val, default) ==
    [f \in Folders |-> IF AccountOf[f] = a THEN default ELSE val[f]]

RemoveRows(a) ==
    /\ gone[a] = 2 /\ gone' = [gone EXCEPT ![a] = 3]
    /\ status' = Without(a, status, "absent") /\ anchor' = Without(a, anchor, 0)
    /\ stored' = Without(a, stored, {}) /\ foreign' = Without(a, foreign, {})
    /\ UNCHANGED <<fts, cancellers, pulls, jobState, pipeline, deleting, due, listed, budget>>

-----------------------------------------------------------------------------
(* The rest of the application                                             *)

(* messages_move or messages_archive: the row keeps its id.                *)
MoveIn(f, u) ==
    /\ u \in ForeignUids \ foreign[f] /\ Exists(f)
    /\ foreign' = [foreign EXCEPT ![f] = @ \cup {u}]
    /\ UNCHANGED <<table, stored, fts, cancellers, pulls, jobState, pipeline, commands, budget>>

(* The process ends and starts again: the tables stay, ensure_fts_index    *)
(* runs before anything else.  An unfinished accounts_remove is forgotten. *)
Restart ==
    /\ crashes < MaxCrashes /\ crashes' = crashes + 1
    /\ \/ fts' = "there" /\ UNCHANGED mishaps
       \/ /\ mishaps < MaxMishaps /\ mishaps' = mishaps + 1
          /\ fts' = IF fts = "dropped" THEN "failed" ELSE fts
    /\ cancellers' = [f \in Folders |-> None] /\ pulls' = 0
    /\ pc' = [d \in Jobs |-> "idle"] /\ of' = [d \in Jobs |-> None]
    /\ token' = [d \in Jobs |-> FALSE] /\ gen' = [d \in Jobs |-> FALSE]
    /\ last' = [d \in Jobs |-> 0] /\ pipe' = [d \in Jobs |-> <<>>]
    /\ fails' = [d \in Jobs |-> 0] /\ feeding' = [d \in Jobs |-> FALSE]
    /\ deleting' = {} /\ due' = TRUE /\ listed' = {}
    /\ gone' = [a \in Accounts |-> IF gone[a] = 3 THEN 3 ELSE 0]
    /\ UNCHANGED <<table, store>>

-----------------------------------------------------------------------------
Command(d) ==
    \/ StartMeasure(d) \/ StartRefused(d)
    \/ StartPersist(d) \/ StartNothingLeft(d) \/ StartPersistFails(d)
    \/ StartRegister(d) \/ ResumeRegister(d)

Producer(d) == Fetch(d) \/ FetchFails(d) \/ FetchGivesUp(d) \/ ProducerStops(d)

Driver(d) ==
    \/ MarkPending(d) \/ LookUpLock(d) \/ MarkRunning(d) \/ BailOut(d) \/ GoOn(d)
    \/ OpenFails(d) \/ Opened(d) \/ StartPull(d) \/ StartPullFails(d) \/ DropIndex(d)
    \/ Receive(d) \/ ReceiveCancelled(d) \/ StoreChunk(d) \/ StoreFails(d)
    \/ Record(d) \/ RecordFails(d) \/ GiveUp(d) \/ Drained(d) \/ Finish(d)
    \/ RebuildIndex(d) \/ EndPull(d) \/ DropCanceller(d)

ResumeNext(e) ==
    ResumeComplete(e) \/ ResumeSkip(e) \/ \E d \in Jobs : ResumeClaim(d, e)

User ==
    \/ \E f \in Folders : \/ \E d \in Jobs : StartCheck(d, f)
                          \/ CancelToken(f) \/ CancelDelete(f)
                          \/ \E u \in ForeignUids : MoveIn(f, u)
    \/ \E a \in Accounts : RemoveSignal(a) \/ RemoveLock(a) \/ RemoveRows(a)

Engine == ResumeList \/ \E e \in listed : ResumeNext(e)

Next ==
    \/ \E d \in Jobs : Command(d) \/ Producer(d) \/ Driver(d) \/ Acquire(d)
    \/ User \/ Engine \/ Restart

Spec == Init /\ [][Next]_vars

(* Tasks that were spawned run; a tokio mutex is fair, so who waits for it *)
(* gets it.  A resume waits for a free job only in the model.              *)
Fairness ==
    /\ \A d \in Jobs : /\ WF_vars(Command(d)) /\ WF_vars(Producer(d)) /\ SF_vars(Driver(d))
                       /\ SF_vars(Acquire(d))
    /\ WF_vars(due /\ ResumeList) /\ SF_vars(\E e \in listed : ResumeNext(e))
    /\ \A f \in Folders : WF_vars(CancelDelete(f))

FairSpec == Spec /\ Fairness
=============================================================================
