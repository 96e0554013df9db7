------------------------------- MODULE PullPanel -------------------------------
(***************************************************************************)
(* What the user sees of the history pulls of one account: the panel of    *)
(* the settings window (settings.rs), the line in the status bar of the    *)
(* main window (app.rs), and the events that the driver and the commands   *)
(* of history_sync.rs send to both.  HistorySync has the pulls themselves; *)
(* here a pull is its row's status and the events around it.               *)
(*                                                                         *)
(* Events reach both windows in the order they are sent.  The bar depends  *)
(* on nothing else and the panel only reads the table again, the later the *)
(* better, so both hear an event when it is sent.                          *)
(***************************************************************************)
EXTENDS Naturals, Sequences, SequencesExt

CONSTANTS
    FolderOrder,   \* the folders, in the order the start row prefers them
    Clicks         \* bounds: how often what kind of thing happens

VARIABLES
    progress,    \* history_sync_state: the status of a folder's row, or "none"
    jobs,        \* the start commands and the drivers they spawned, by number
    registered,  \* history_cancellers: the job whose token it is, or 0
    cancels,     \* history_sync_cancel calls on their way: folder and step
    bar,         \* history_activity: the folder shown, or "none"
    listing,     \* the rows the panel shows
    asking,      \* its history_sync_list call is on its way
    offer,       \* the folder that "Pull full history" would start
    bottomed,    \* anchor_uid: folders whose row says that nothing is left
    resuming,    \* rows that resume_running_jobs has yet to handle
    unheard,     \* history: rows a resume completed since the panel was painted
    presses

resume == <<bottomed, resuming, unheard>>
pullVars == <<progress, jobs, registered, cancels, bar, listing, asking, offer, resume, presses>>
panel == <<listing, offer>>

Presses(k) == /\ \E c \in Clicks : \A j \in DOMAIN c : presses[j] + (IF j = k THEN 1 ELSE 0) <= c[j]
            /\ presses' = [presses EXCEPT ![k] = @ + 1]

Boxes == {FolderOrder[i] : i \in DOMAIN FolderOrder}
Blank == [f \in Boxes |-> "none"]

PullInit ==
    /\ progress = Blank /\ jobs = <<>> /\ registered = [f \in Boxes |-> 0] /\ cancels = {}
    /\ bar = "none" /\ listing = Blank /\ asking = FALSE /\ offer = FolderOrder[1]
    /\ bottomed = {} /\ resuming = {} /\ unheard = {}
    /\ presses = [starts |-> 0, cancels |-> 0, picks |-> 0, fails |-> 0, resumes |-> 0, restarts |-> 0]
-----------------------------------------------------------------------------
(* HistoryActivity::from_event, and what the listener does with it         *)
Bar(b, f, s) == IF s \in {"running", "in-flight"} THEN f
                ELSE IF s \in {"completed", "canceled", "error"} /\ b = f THEN "none" ELSE b

(* The listener of the panel bumps the tick, which lets go of the call     *)
(* that was on its way.                                                    *)
Emit(f, s) == bar' = Bar(bar, f, s) /\ asking' = TRUE
Silent == UNCHANGED <<bar, asking>>

(* emit_progress_for_account: the rows it has read, one event each         *)
EmitRows(rows) ==
    /\ bar' = FoldLeft(LAMBDA b, f : Bar(b, f, rows[f]), bar, FolderOrder)
    /\ asking' = (asking \/ rows # Blank)

SetStatus(f, s) == progress' = [progress EXCEPT ![f] = IF @ = "none" THEN @ ELSE s]
PutStatus(f, s) == progress' = [progress EXCEPT ![f] = s]

Job(f) == [of |-> f, at |-> "checked", cancelled |-> FALSE, saw |-> Blank]
At(j, step) == j \in DOMAIN jobs /\ jobs[j].at = step
Go(j, step) == jobs' = [jobs EXCEPT ![j].at = step]
NowAt(j, step, rows) ==
    [of |-> jobs[j].of, at |-> step, cancelled |-> jobs[j].cancelled, saw |-> rows]
(* A job writes its row and then reads all rows: what others do in between *)
(* they could as well have done before.                                    *)
Read(j, step) == jobs' = [jobs EXCEPT ![j] = NowAt(j, step, progress')]
HoldsTheLock == {"telling running", "checking", "opening", "pulling", "pulled", "ending", "last", "telling bail"}
-----------------------------------------------------------------------------
(* The start row, and the Resume button of a row.  What is already started *)
(* or done is not offered, but stays offer.                                *)
Already == {f \in Boxes : listing[f] \in {"running", "pending", "completed"}}
Offered == Boxes \ Already
Pick == \E f \in Offered \ {offer} :
            /\ offer' = f /\ Presses("picks")
            /\ UNCHANGED <<progress, jobs, registered, cancels, bar, listing, asking, resume>>

Resumable == {f \in Boxes : listing[f] \in {"canceled", "error"}}
PressStart(f) ==
    /\ f \in Resumable \/ (Offered # {} /\ f = offer)
    /\ Presses("starts")
    /\ jobs' = IF registered[f] = 0 THEN Append(jobs, Job(f)) ELSE jobs
    /\ UNCHANGED <<progress, registered, cancels, bar, asking, panel, resume>>

(* history_sync_start goes on: nothing left to pull, or a queued row.  The *)
(* command returns, and the button bumps the tick.                         *)
NothingLeft(j) ==
    /\ At(j, "checked") /\ PutStatus(jobs[j].of, "completed") /\ Read(j, "telling early") /\ Silent
    /\ bottomed' = bottomed \cup {jobs[j].of}
    /\ UNCHANGED <<registered, cancels, panel, resuming, unheard, presses>>
Queue(j) ==
    /\ At(j, "checked") /\ PutStatus(jobs[j].of, "pending") /\ Go(j, "spawned")
    /\ registered' = [registered EXCEPT ![jobs[j].of] = j] /\ asking' = TRUE
    /\ bottomed' = bottomed \ {jobs[j].of}
    /\ UNCHANGED <<cancels, bar, panel, resuming, unheard, presses>>
-----------------------------------------------------------------------------
(* resume_running_jobs, run by each pass of the engine.  It lists the rows *)
(* that have not ended and handles them one after the other: a row of      *)
(* which nothing is left is completed, and no event says so; a folder with *)
(* a token is skipped; else a driver is spawned.                           *)
NoJobIsClaimed == \A j \in DOMAIN jobs : jobs[j].at # "claimed"
ResumeList ==
    /\ resuming = {} /\ NoJobIsClaimed /\ Presses("resumes")
    /\ resuming' = {[of |-> f, left |-> f \notin bottomed] :
                       f \in {g \in Boxes : progress[g] \in {"running", "pending", "error"}}}
    /\ UNCHANGED <<progress, jobs, registered, cancels, bar, asking, panel, bottomed, unheard>>

Turn(row) ==
    /\ NoJobIsClaimed /\ resuming' = resuming \ {row}
    /\ UNCHANGED <<registered, cancels, bar, asking, panel, bottomed, presses>>
ResumeCompletes(row) ==
    /\ ~row.left /\ Turn(row) /\ SetStatus(row.of, "completed") /\ UNCHANGED jobs
    /\ unheard' = unheard \cup {row.of}
ResumeSkips(row) ==
    row.left /\ registered[row.of] # 0 /\ Turn(row) /\ UNCHANGED <<progress, jobs, unheard>>
ResumeClaims(row) ==
    /\ row.left /\ registered[row.of] = 0 /\ Turn(row) /\ UNCHANGED <<progress, unheard>>
    /\ jobs' = Append(jobs, [Job(row.of) EXCEPT !.at = "claimed"])
ResumeRegisters(j) ==
    /\ At(j, "claimed") /\ Go(j, "spawned") /\ Silent
    /\ registered' = [registered EXCEPT ![jobs[j].of] = j]
    /\ UNCHANGED <<progress, cancels, panel, resume, presses>>
-----------------------------------------------------------------------------
(* spawn_driver                                                            *)
MarkPending(j) ==
    /\ At(j, "spawned") /\ SetStatus(jobs[j].of, "pending") /\ Read(j, "telling pending") /\ Silent
    /\ UNCHANGED <<registered, cancels, panel, resume, presses>>
MarkRunning(j) ==
    /\ At(j, "queued") /\ \A k \in DOMAIN jobs : jobs[k].at \notin HoldsTheLock
    /\ SetStatus(jobs[j].of, "running") /\ Read(j, "telling running") /\ Silent
    /\ UNCHANGED <<registered, cancels, panel, resume, presses>>

(* emit_progress_for_account sends the rows after it has let the database  *)
(* go.                                                                     *)
After == [from \in {"telling early", "telling pending", "telling running", "telling bail"} |->
            IF from = "telling pending" THEN "queued"
            ELSE IF from = "telling running" THEN "checking" ELSE "gone"]
TellRows(j) ==
    /\ jobs[j].at \in DOMAIN After /\ jobs' = [jobs EXCEPT ![j] = NowAt(j, After[jobs[j].at], Blank)]
    /\ EmitRows(jobs[j].saw)
    /\ UNCHANGED <<progress, registered, cancels, panel, resume, presses>>

(* drop_canceller: whatever token is there                                 *)
DropCanceller(j) == registered' = [registered EXCEPT ![jobs[j].of] = 0]
Bail(j) ==
    /\ \/ At(j, "checking") /\ jobs[j].cancelled /\ SetStatus(jobs[j].of, "canceled") /\ UNCHANGED presses
       \/ At(j, "opening") /\ Presses("fails") /\ SetStatus(jobs[j].of, "error")
    /\ DropCanceller(j) /\ Read(j, "telling bail") /\ Silent
    /\ UNCHANGED <<cancels, panel, resume>>
StartOpening(j) ==
    /\ At(j, "checking") /\ ~jobs[j].cancelled /\ Go(j, "opening") /\ Silent
    /\ UNCHANGED <<progress, registered, cancels, panel, resume, presses>>

(* pull_history: the row again, then an event per chunk                    *)
StartPull(j) ==
    /\ At(j, "opening") /\ PutStatus(jobs[j].of, "running") /\ Go(j, "pulling")
    /\ Emit(jobs[j].of, "running")
    /\ bottomed' = bottomed \ {jobs[j].of}
    /\ UNCHANGED <<registered, cancels, panel, resuming, unheard, presses>>
Chunk(j) ==
    /\ At(j, "pulling") /\ ~jobs[j].cancelled /\ Go(j, "pulled")
    /\ Emit(jobs[j].of, "running")
    /\ \/ UNCHANGED bottomed
       \/ progress[jobs[j].of] # "none" /\ bottomed' = bottomed \cup {jobs[j].of}
    /\ UNCHANGED <<progress, registered, cancels, panel, resuming, unheard, presses>>
EndPull(j) ==
    /\ At(j, "pulling") \/ At(j, "pulled")
    /\ \/ SetStatus(jobs[j].of, IF jobs[j].cancelled THEN "canceled" ELSE "completed") /\ UNCHANGED presses
       \/ ~jobs[j].cancelled /\ Presses("fails") /\ SetStatus(jobs[j].of, "error")
    /\ Go(j, "ending") /\ Silent
    /\ UNCHANGED <<registered, cancels, panel, resume>>
(* The callback of a finished pull has a placeholder for the status.       *)
Finished(j) ==
    /\ At(j, "ending") /\ Emit(jobs[j].of, "in-flight") /\ UNCHANGED progress /\ Read(j, "last")
    /\ UNCHANGED <<registered, cancels, panel, resume, presses>>

(* run_driver ends: the row, if there still is one                         *)
TellFinal(j) ==
    LET f == jobs[j].of
    IN  /\ At(j, "last") /\ jobs' = [jobs EXCEPT ![j] = NowAt(j, "gone", Blank)]
        /\ IF jobs[j].saw[f] = "none" THEN Silent ELSE Emit(f, jobs[j].saw[f])
        /\ DropCanceller(j)
        /\ UNCHANGED <<progress, cancels, panel, resume, presses>>
-----------------------------------------------------------------------------
(* The Cancel button: history_sync_cancel                                  *)
Cancel(f) ==
    /\ listing[f] \in {"running", "pending"} /\ Presses("cancels")
    /\ IF registered[f] = 0 THEN UNCHANGED <<jobs, registered, cancels>> /\ asking' = TRUE
       ELSE /\ jobs' = [jobs EXCEPT ![registered[f]].cancelled = TRUE]
            /\ registered' = [registered EXCEPT ![f] = 0]
            /\ cancels' = cancels \cup {<<f, "delete">>} /\ UNCHANGED asking
    /\ UNCHANGED <<progress, bar, panel, resume>>

CancelMoves(f, from, to) == <<f, from>> \in cancels /\ cancels' = (cancels \ {<<f, from>>}) \cup to
CancelDeleted(f, from, to) ==
    /\ CancelMoves(f, from, to) /\ Silent
    /\ progress' = [progress EXCEPT ![f] = "none"] /\ bottomed' = bottomed \ {f}
CancelTold(f, from, to) ==
    CancelMoves(f, from, to) /\ Emit(f, "canceled") /\ UNCHANGED <<progress, bottomed>>
DeleteThenTell(f) == CancelDeleted(f, "delete", {<<f, "tell">>}) \/ CancelTold(f, "tell", {})
TellThenDelete(f) == CancelTold(f, "delete", {<<f, "tell">>}) \/ CancelDeleted(f, "tell", {})
CancelSteps(f) == DeleteThenTell(f)
CancelGoesOn(f) ==
    CancelSteps(f) /\ UNCHANGED <<jobs, registered, panel, resuming, unheard, presses>>

(* history_sync_list.  An answer that an event overtakes is let go, so     *)
(* nothing comes between reading the table and showing it.                 *)
HistorySyncList == progress
Paint ==
    /\ asking /\ listing' = HistorySyncList /\ asking' = FALSE /\ unheard' = {}
    /\ UNCHANGED <<progress, jobs, registered, cancels, bar, offer, bottomed, resuming, presses>>

(* The program ends at any point and starts again, with a panel that asks. *)
AppRestarts ==
    /\ Presses("restarts")
    /\ jobs' = <<>> /\ registered' = [f \in Boxes |-> 0] /\ cancels' = {} /\ resuming' = {}
    /\ bar' = "none" /\ listing' = Blank /\ asking' = TRUE /\ offer' = FolderOrder[1] /\ unheard' = {}
    /\ UNCHANGED <<progress, bottomed>>

JobSteps(j) ==
    \/ NothingLeft(j) \/ Queue(j) \/ ResumeRegisters(j) \/ MarkPending(j) \/ MarkRunning(j) \/ TellRows(j)
    \/ Bail(j) \/ StartOpening(j) \/ StartPull(j) \/ Chunk(j) \/ EndPull(j) \/ Finished(j) \/ TellFinal(j)
PullNext ==
    \/ \E f \in Boxes : PressStart(f) \/ Cancel(f) \/ CancelGoesOn(f)
    \/ \E j \in DOMAIN jobs : JobSteps(j)
    \/ \E row \in resuming : ResumeCompletes(row) \/ ResumeSkips(row) \/ ResumeClaims(row)
    \/ ResumeList \/ Pick \/ Paint \/ AppRestarts

PullSpec == PullInit /\ [][PullNext]_pullVars
-----------------------------------------------------------------------------
NothingUnderWay == (\A j \in DOMAIN jobs : jobs[j].at = "gone") /\ cancels = {}

(* Once no pull runs and no call is on its way the panel shows the table   *)
(* as it is: whichever way pulls start, queue, fail, end, are resumed and  *)
(* cancelled side by side, the last change of a row is followed by an      *)
(* event that makes the panel read it.  The one change that is not is that *)
(* of a resume which finds nothing left (history_sync.rs:652-663): such a  *)
(* row may be shown as it was before, and only such a row.                 *)
PanelShowsTheTable ==
    NothingUnderWay /\ ~asking =>
        \A f \in Boxes : listing[f] = progress[f] \/ (f \in unheard /\ progress[f] = "completed")
=============================================================================
