------------------------------- MODULE Engine -------------------------------
(***************************************************************************)
(* The sync engine: passes that list the accounts, sync their folders and  *)
(* spawn a pool of watchers, and the loop that turns what the watchers     *)
(* report into syncs (sync_engine.rs, imap_idle.rs, jmap_push.rs, idle.rs, *)
(* push.rs, messages_refresh_folder).                                      *)
(*                                                                         *)
(* A watcher sends to a forwarder of its own, which sends to the channel   *)
(* of the pass.  When the pass is over the receiver is dropped: a          *)
(* forwarder finds out when it has something to pass on, and its watcher   *)
(* when it then sends once more.                                           *)
(***************************************************************************)
EXTENDS Naturals, Sequences, FiniteSets, FiniteSetsExt

CONSTANTS
    Imap, Jmap,      \* accounts
    Folders,         \* numbers, in the order of prioritize_imap_folders
    Home,            \* the account of each folder
    Cap,             \* MAX_IMAP_WATCHERS_PER_ACCOUNT
    Channel,         \* EVENT_CHANNEL_BUFFER
    Buffer,          \* the forwarder's
    Passes,          \* bound: numbers of the pools that exist at once
    Plans            \* bound on what happens to the engine: the accounts the user may have,
                     \* and which of "edit", "change" and "mishap" happen, once each

ASSUME EngineAssumption ==
    Imap \cap Jmap = {} /\ Home \in [Folders -> Imap \cup Jmap]
ASSUME BoundsAssumption ==
    /\ IsFiniteSet(Imap) /\ IsFiniteSet(Jmap) /\ IsFiniteSet(Folders)
    /\ Channel \in Nat /\ Buffer \in Nat
    /\ \A p \in Plans : p.users \subseteq Imap \cup Jmap

Accounts == Imap \cup Jmap
FoldersOf(a) == {f \in Folders : Home[f] = a}

(* What is watched, polled or pushed: a folder of its own, the folders of  *)
(* an account beyond the cap, the folders of an account.                   *)
Ahead(f) == Cardinality({g \in FoldersOf(Home[f]) : g < f})
Unit == [kind : {"idle"}, of : {f \in Folders : Home[f] \in Imap}]
           \cup [kind : {"poll"}, of : Imap] \cup [kind : {"push"}, of : Jmap]

VARIABLES
    rows, telling,    \* the table; commands that have yet to notify
    permit,           \* accounts_changed
    at, pass,         \* the engine's step, the number of its pool
    todo, booted,     \* accounts to boot; folders whose first sync went well
    pushed,           \* JMAP accounts booted
    pool,             \* the watchers, by pass and unit
    watched,          \* watched_folders
    channel, pending, \* the channel of the pass; the debounce maps
    current,          \* what is due and not synced yet
    changed,          \* folders with something on the server not synced
    known, failed, owed,  \* history: accounts the pass has listed, those that
                          \* failed in it, folders reported and not synced since
    plan             \* what is left of the plan

world == <<rows, telling, permit>>
engine == <<at, pass, todo, booted, pushed, pending, current>>
history == <<known, failed, owed>>
vars == <<world, engine, pool, watched, channel, changed, history, plan>>

Init ==
    /\ plan \in Plans
    /\ rows \in SUBSET plan.users /\ telling = 0 /\ permit = FALSE
    /\ at = "ui" /\ pass = 0 /\ todo = {} /\ booted = {} /\ pushed = {}
    /\ pool = [w \in {} |-> 0]
    /\ watched = {} /\ channel = <<>> /\ pending = {} /\ current = {}
    /\ changed = {} /\ known = {} /\ failed = {} /\ owed = {}

Event(kind) == kind \in plan.events /\ plan' = [plan EXCEPT !.events = @ \ {kind}]

-----------------------------------------------------------------------------
(* The user: the row first, the notification when the command is done.     *)

Edit(a) ==
    /\ a \in plan.users /\ Event("edit")
    /\ rows' = IF a \in rows THEN rows \ {a} ELSE rows \cup {a}
    /\ telling' = telling + 1
    /\ UNCHANGED <<permit, engine, pool, watched, channel, changed, history>>

(* notify_one: the permit waits for the engine.                            *)
Notify ==
    /\ telling > 0 /\ telling' = telling - 1
    /\ permit' = TRUE
    /\ UNCHANGED <<rows, engine, pool, watched, channel, changed, history, plan>>

(* messages_refresh_folder: a folder that is watched is left alone.        *)
Click(f) ==
    /\ Home[f] \in rows /\ f \notin watched
    /\ changed' = changed \ {f} /\ owed' = owed \ {f}
    /\ UNCHANGED <<world, engine, pool, watched, channel, known, failed, plan>>

-----------------------------------------------------------------------------
(* run_once                                                                *)

(* ui_ready, or ten seconds.                                               *)
UiReady ==
    /\ at = "ui" /\ at' = "list"
    /\ UNCHANGED <<world, pass, todo, booted, pushed, pending, current, pool, watched, channel,
                   changed, history, plan>>

ListAccounts ==
    /\ at = "list" /\ at' = "boot"
    /\ todo' = rows /\ known' = rows /\ failed' = {} /\ booted' = {} /\ pushed' = {}
    /\ UNCHANGED <<world, pass, pending, current, pool, watched, channel, changed, owed, plan>>

ListFails ==
    /\ at = "list" /\ at' = "rest" /\ Event("mishap")
    /\ UNCHANGED <<world, pass, todo, booted, pushed, pending, current, pool, watched, channel,
                   changed, history>>

(* bootstrap_account: some of its folders may fail; all do when the row    *)
(* has gone meanwhile.                                                     *)
Boot(a) ==
    /\ at = "boot" /\ a \in todo /\ todo' = todo \ {a}
    /\ \E bad \in SUBSET FoldersOf(a) :
          /\ a \notin rows => bad = FoldersOf(a)
          /\ IF bad = {} \/ a \notin rows THEN UNCHANGED plan ELSE Event("mishap")
          /\ booted' = booted \cup (FoldersOf(a) \ bad)
          /\ changed' = changed \ (FoldersOf(a) \ bad)
    /\ owed' = owed \ FoldersOf(a)
    /\ pushed' = pushed \cup ({a} \cap Jmap)
    /\ UNCHANGED <<world, at, pass, pending, current, pool, watched, channel, known, failed>>

BootFails(a) ==
    /\ at = "boot" /\ a \in todo /\ todo' = todo \ {a}
    /\ IF a \in rows THEN Event("mishap") ELSE UNCHANGED plan
    /\ failed' = failed \cup {a}
    /\ UNCHANGED <<world, at, pass, booted, pushed, pending, current, pool, watched, channel,
                   changed, known, owed>>

(* prioritize_imap_folders, among those that synced.                       *)
Active == {f \in booted : Home[f] \in Imap /\ Cardinality({g \in booted : Home[g] = Home[f] /\ g < f}) < Cap}
Polled == {f \in booted : Home[f] \in Imap} \ Active
Units == [kind : {"idle"}, of : Active]
            \cup [kind : {"poll"}, of : {Home[f] : f \in Polled}]
            \cup [kind : {"push"}, of : pushed]
Watcher(unit, fs) ==
    [state |-> IF unit.kind = "poll" THEN "live" ELSE "dial", folders |-> fs, tell |-> {},
     out |-> <<>>, deaf |-> FALSE]
FoldersIn(unit) ==
    CASE unit.kind = "idle" -> {unit.of}
      [] unit.kind = "poll" -> {f \in Polled : Home[f] = unit.of}
      [] unit.kind = "push" -> FoldersOf(unit.of)

NothingToWatch ==
    /\ at = "boot" /\ todo = {} /\ Active = {} /\ pushed = {}
    /\ at' = "rest"
    /\ UNCHANGED <<world, pass, todo, booted, pushed, pending, current, pool, watched, channel,
                   changed, history, plan>>

Spawn ==
    /\ at = "boot" /\ todo = {} /\ (Active # {} \/ pushed # {})
    /\ \E p \in Passes : (\A w \in DOMAIN pool : w[1] # p)
    /\ LET p == CHOOSE q \in Passes : \A w \in DOMAIN pool : w[1] # q
       IN  /\ pass' = p
           /\ pool' = [w \in DOMAIN pool \cup ({p} \X Units) |->
                          IF w \in DOMAIN pool THEN pool[w] ELSE Watcher(w[2], FoldersIn(w[2]))]
    /\ watched' = watched \cup Active \cup {f \in booted : Home[f] \in pushed}
    /\ at' = "loop" /\ channel' = <<>> /\ pending' = {}
    /\ UNCHANGED <<world, todo, booted, pushed, current, changed, history, plan>>

(* A minute, or a notification.                                            *)
Rested ==
    /\ at = "rest" /\ at' = "list" /\ permit' \in {permit, FALSE}
    /\ UNCHANGED <<rows, telling, pass, todo, booted, pushed, pending, current, pool, watched,
                   channel, changed, history, plan>>

-----------------------------------------------------------------------------
(* The reactive loop                                                       *)

OverStillWatched ==
    /\ at' = "list" /\ channel' = <<>> /\ pending' = {}
    /\ UNCHANGED <<pass, todo, booted, pushed, current, watched>>

(* An event names a folder, or all folders of a JMAP account.              *)
Entries == {{f} : f \in {g \in Folders : Home[g] \in Imap}} \cup {FoldersOf(a) : a \in Jmap}

Over ==
    /\ at' = "list" /\ watched' = {} /\ channel' = <<>> /\ pending' = {}
    /\ UNCHANGED <<pass, todo, booted, pushed, current>>

AccountsChanged ==
    /\ at = "loop" /\ permit /\ permit' = FALSE /\ Over
    /\ UNCHANGED <<rows, telling, pool, changed, history, plan>>

WatchersExited ==
    /\ at = "loop" /\ channel = <<>> /\ (\A w \in DOMAIN pool : w[1] # pass)
    /\ Over
    /\ UNCHANGED <<world, pool, changed, history, plan>>

ReceiveOne ==
    /\ at = "loop" /\ channel # <<>>
    /\ pending' = {Head(channel)[2]} \ {{}}
    /\ channel' = Tail(channel)
    /\ UNCHANGED <<world, at, pass, todo, booted, pushed, current, pool, watched, changed,
                   history, plan>>

(* An event waits out the debounce; a notice of the connection is logged.  *)
Receive ==
    /\ at = "loop" /\ channel # <<>>
    /\ pending' = pending \cup ({Head(channel)[2]} \ {{}})
    /\ channel' = Tail(channel)
    /\ UNCHANGED <<world, at, pass, todo, booted, pushed, current, pool, watched, changed,
                   history, plan>>

(* What is due is synced, one after the other, before the next event.      *)
Due(batch) ==
    /\ at = "loop" /\ batch \subseteq pending
    /\ at' = "sync" /\ current' = batch /\ pending' = pending \ batch
    /\ UNCHANGED <<world, pass, todo, booted, pushed, pool, watched, channel, changed, history,
                   plan>>

Settle(fs) ==
    /\ at = "sync" /\ fs \in current /\ current' = current \ {fs}
    /\ at' = IF current' = {} THEN "loop" ELSE "sync"
    /\ owed' = owed \ fs
    /\ UNCHANGED <<world, pass, todo, booted, pushed, pending, pool, watched, channel, known,
                   failed>>

(* sync_one_folder, sync_one_account.                                      *)
Synced(fs) ==
    /\ Settle(fs)
    /\ changed' = changed \ {f \in fs : Home[f] \in rows}
    /\ UNCHANGED plan

(* It is logged, and not tried again.                                      *)
SyncFails(fs) == Settle(fs) /\ Event("mishap") /\ UNCHANGED changed

-----------------------------------------------------------------------------
(* The watchers.  A sent event is the set of folders it names, {} when it  *)
(* is about the connection.                                                *)

Is(w, state) == w \in DOMAIN pool /\ pool[w].state = state
Account(w) == IF w[2].kind = "idle" THEN Home[w[2].of] ELSE w[2].of
Gone(w) == pool' = [v \in DOMAIN pool \ {w} |-> pool[v]]

(* The forwarder of a watcher that has ended passes on what it holds.      *)
Ends(w) == IF pool[w].out = <<>> THEN Gone(w) ELSE pool' = [pool EXCEPT ![w].state = "gone"]

(* A send: to the buffer, or to nobody, and then the watcher returns.      *)
Sends(w, event, next, tell) ==
    \/ /\ ~pool[w].deaf /\ Len(pool[w].out) < Buffer
       /\ pool' = [pool EXCEPT ![w].out = Append(@, event), ![w].state = next, ![w].tell = tell]
       /\ owed' = IF w[1] = pass /\ at \in {"loop", "sync"} THEN owed \cup event ELSE owed
    \/ pool[w].deaf /\ Gone(w) /\ UNCHANGED owed

Quietly == UNCHANGED <<world, engine, watched, channel, changed, known, failed>>

(* fresh_imap_params, dial_session, SELECT; the row may be gone.           *)
Dialled(w) ==
    /\ Is(w, "dial")
    /\ IF Account(w) \in rows THEN pool' = [pool EXCEPT ![w].state = "live"] ELSE Ends(w)
    /\ UNCHANGED owed /\ Quietly /\ UNCHANGED plan

(* The dial fails, or the session breaks: ConnectionLost, a pause,         *)
(* ConnectionRestored, and another dial.                                   *)
Lost(w) ==
    /\ w \in DOMAIN pool /\ pool[w].state \in {"dial", "live"} /\ w[2].kind # "poll"
    /\ Sends(w, {}, "pause", {}) /\ Event("mishap") /\ Quietly

Restored(w) ==
    /\ Is(w, "pause") /\ Sends(w, {}, "dial", {})
    /\ Quietly /\ UNCHANGED plan

Report(w) ==
    /\ Is(w, "live") /\ pool[w].tell # {}
    /\ LET fs == IF w[2].kind = "poll" THEN {Min(pool[w].tell)} ELSE pool[w].tell
       IN  Sends(w, fs, "live", pool[w].tell \ fs)
    /\ Quietly /\ UNCHANGED plan

(* Every two minutes, whatever has changed, one folder after another.      *)
Poll(w) ==
    /\ Is(w, "live") /\ w[2].kind = "poll" /\ pool[w].tell = {}
    /\ pool' = [pool EXCEPT ![w].tell = pool[w].folders]
    /\ UNCHANGED owed /\ Quietly /\ UNCHANGED plan

(* The server closes the event stream in good order: Ok, and no more.      *)
StreamEnds(w) ==
    /\ Is(w, "live") /\ w[2].kind = "push" /\ Ends(w)
    /\ Event("mishap") /\ UNCHANGED owed /\ Quietly

(* A change, which the watchers that are connected hear of.                *)
ServerChange(f) ==
    /\ Home[f] \in rows /\ Event("change")
    /\ changed' = changed \cup {f}
    /\ pool' = [w \in DOMAIN pool |->
                  IF pool[w].state = "live" /\ f \in pool[w].folders /\ w[2].kind # "poll"
                  THEN [pool[w] EXCEPT !.tell = pool[w].folders] ELSE pool[w]]
    /\ UNCHANGED <<world, engine, watched, channel, history>>

Open(w) == w[1] = pass /\ at \in {"loop", "sync"}

(* A sender waits, in line, until the channel has room for what it sent.   *)
Waits(w) == \E i \in DOMAIN channel : i > Channel /\ channel[i][1] = w

Forward(w) ==
    /\ w \in DOMAIN pool /\ pool[w].out # <<>>
    /\ IF Open(w)
       THEN /\ ~Waits(w)
            /\ channel' = Append(channel, <<w, Head(pool[w].out)>>)
            /\ IF pool[w].state = "gone" /\ Len(pool[w].out) = 1 THEN Gone(w)
               ELSE pool' = [pool EXCEPT ![w].out = Tail(@)]
       ELSE /\ UNCHANGED channel
            /\ IF pool[w].state = "gone" THEN Gone(w)
               ELSE pool' = [pool EXCEPT ![w].out = <<>>, ![w].deaf = TRUE]
    /\ UNCHANGED <<world, engine, watched, changed, history, plan>>

-----------------------------------------------------------------------------
Boots == ListAccounts \/ ListFails \/ (\E a \in Accounts : Boot(a) \/ BootFails(a)) \/ NothingToWatch \/ Spawn
Syncs == \E fs \in Entries : Synced(fs) \/ SyncFails(fs)
Turns == AccountsChanged \/ WatchersExited \/ Receive \/ \E batch \in (SUBSET Entries) \ {{}} : Due(batch)
Moves(w) == Dialled(w) \/ Restored(w) \/ Report(w) \/ Poll(w) \/ Forward(w)

Next ==
    \/ \E a \in Accounts : Edit(a)
    \/ Notify
    \/ \E f \in Folders : Click(f) \/ ServerChange(f)
    \/ UiReady \/ Rested \/ Boots \/ Turns \/ Syncs
    \/ \E w \in Passes \X Unit : Moves(w) \/ Lost(w) \/ StreamEnds(w)

Spec == Init /\ [][Next]_vars

(* The runtime runs every task that can run.  A watcher and its forwarder  *)
(* wait for each other, so neither runs on for ever without the other; in  *)
(* the loop select! takes a ready branch at random, so none is passed over *)
(* for ever, and as polls are minutes apart every debounce ends at times.  *)
Fairness ==
    /\ WF_vars(Notify)
    /\ WF_vars(UiReady \/ Rested \/ Boots \/ Syncs)
    /\ WF_vars(WatchersExited) /\ SF_vars(AccountsChanged) /\ SF_vars(Receive)
    /\ SF_vars(pending # {} /\ Due(pending))
    /\ \A w \in Passes \X Unit : WF_vars(Moves(w))
FairSpec == Spec /\ Fairness
=============================================================================
