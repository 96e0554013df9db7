---------------------------- MODULE EngineProofs ----------------------------
(***************************************************************************)
(* The engine's passes, for any accounts, folders, buffers and caps: a     *)
(* folder whose clicks are ignored has a watcher, and the buffers keep     *)
(* their bounds.                                                           *)
(***************************************************************************)
EXTENDS EngineProperties, TLAPS, FiniteSetTheorems

Idles(f) == <<pass, [kind |-> "idle", of |-> f]>>

(* The account is about to be looked at again, or is gone.                 *)
Stale(f) == Home[f] \notin rows \/ telling > 0 \/ permit

Covered(f) ==
    /\ Idles(f) \in DOMAIN pool
    /\ f \in pool[Idles(f)].folders /\ pool[Idles(f)].state # "gone"

Basics ==
    /\ telling \in Nat /\ permit \in BOOLEAN
    /\ pushed \subseteq Jmap /\ watched \subseteq Folders /\ booted \subseteq Folders

(* Outside the loop nothing is watched; in it no forwarder of the pass has *)
(* found the receiver closed; and the watcher of a folder is its own.      *)
Passing ==
    /\ at \notin {"loop", "sync"} => watched = {}
    /\ \A w \in DOMAIN pool : Open(w) => ~pool[w].deaf
    /\ \A f \in watched : Home[f] \in Imap => Covered(f) \/ Stale(f)

(* The pool is a table of watchers.                                        *)
IsWatcher(r) ==
    r = [state |-> r.state, folders |-> r.folders, tell |-> r.tell, out |-> r.out, deaf |-> r.deaf]
Shaped ==
    /\ pool = [w \in DOMAIN pool |-> pool[w]]
    /\ \A w \in DOMAIN pool : IsWatcher(pool[w])

IInv == Basics /\ Shaped /\ Passing

-----------------------------------------------------------------------------
LEMMA BasicsStep == Basics /\ [Next]_vars => Basics'
<1> SUFFICES ASSUME Basics, [Next]_vars PROVE Basics'
    OBVIOUS
<1>1. CASE UNCHANGED vars
    BY <1>1 DEF Basics, vars, world, engine
<1>2. CASE \E a \in Accounts : Edit(a)
    BY <1>2 DEF Edit, Event, Basics, engine
<1>3. CASE Notify
    BY <1>3 DEF Notify, Basics, engine
<1>4. CASE \E f \in Folders : Click(f) \/ ServerChange(f)
    BY <1>4 DEF Click, ServerChange, Basics, world, engine
<1>5. CASE UiReady \/ Rested
    BY <1>5 DEF UiReady, Rested, Basics, world
<1>6. CASE Boots
  <2>1. CASE ListAccounts \/ ListFails \/ NothingToWatch
      BY <1>6, <2>1 DEF ListAccounts, ListFails, NothingToWatch, Basics, world
  <2>2. ASSUME NEW a \in Accounts, Boot(a) PROVE Basics'
    <3>1. booted' \subseteq Folders
        BY <2>2 DEF Boot, Basics, FoldersOf
    <3> QED
        BY <2>2, <3>1 DEF Boot, Basics, world
  <2>3. ASSUME NEW a \in Accounts, BootFails(a) PROVE Basics'
      BY <2>3 DEF BootFails, Basics, world
  <2>4. CASE Spawn
    <3>1. watched' \subseteq Folders
        BY <2>4 DEF Spawn, Basics, Active
    <3> QED
        BY <2>4, <3>1 DEF Spawn, Basics, world
  <2> QED
      BY <1>6, <2>1, <2>2, <2>3, <2>4 DEF Boots
<1>7. CASE Turns
  <2>1. CASE AccountsChanged
      BY <2>1 DEF AccountsChanged, Over, Basics
  <2>2. CASE WatchersExited
      BY <2>2 DEF WatchersExited, Over, Basics, world
  <2>3. CASE Receive \/ \E batch \in (SUBSET Entries) \ {{}} : Due(batch)
      BY <2>3 DEF Receive, Due, Basics, world
  <2> QED
      BY <1>7, <2>1, <2>2, <2>3 DEF Turns
<1>8. CASE Syncs
    BY <1>8 DEF Syncs, Synced, SyncFails, Settle, Basics, world
<1>9. ASSUME NEW w \in Passes \X Unit, Moves(w) \/ Lost(w) \/ StreamEnds(w) PROVE Basics'
  <2>1. UNCHANGED <<world, engine, watched>>
      BY <1>9 DEF Moves, Dialled, Restored, Report, Poll, Forward, Lost, StreamEnds, Quietly
  <2> QED
      BY <2>1 DEF Basics, world, engine
<1> QED
    BY <1>1, <1>2, <1>3, <1>4, <1>5, <1>6, <1>7, <1>8, <1>9 DEF Next

(* A step that leaves the pool and the pass alone.                         *)
LEMMA PoolStays ==
    ASSUME Passing, UNCHANGED <<pool, pass>>,
           at' \in {"loop", "sync"} => at \in {"loop", "sync"},
           watched' \subseteq watched,
           at' \notin {"loop", "sync"} => watched' = {},
           \A f \in watched' : Stale(f) => Stale(f)'
    PROVE  Passing'
<1>1. \A w \in DOMAIN pool' : Open(w)' => ~pool'[w].deaf
    BY DEF Passing, Open
<1>2. \A f \in watched' : Covered(f) => Covered(f)'
    BY DEF Covered, Idles
<1> QED
    BY <1>1, <1>2 DEF Passing

(* A watcher or its forwarder moves.                                       *)
LEMMA WatcherStep ==
    ASSUME Shaped, Passing, NEW w \in Passes \X Unit, Moves(w) \/ Lost(w) \/ StreamEnds(w)
    PROVE  Passing'
<1>1. UNCHANGED <<rows, telling, permit, at, pass, watched>>
    BY DEF Moves, Dialled, Restored, Report, Poll, Forward, Lost, StreamEnds, Quietly, world, engine
<1>2. w \in DOMAIN pool
    BY DEF Moves, Dialled, Restored, Report, Poll, Forward, Lost, StreamEnds, Is
<1>0. /\ pool = [v \in DOMAIN pool |-> pool[v]]
      /\ pool[w] = [state |-> pool[w].state, folders |-> pool[w].folders, tell |-> pool[w].tell,
                    out |-> pool[w].out, deaf |-> pool[w].deaf]
    BY <1>2 DEF Shaped, IsWatcher
<1>3. CASE Gone(w) /\ (Open(w) => pool[w].state = "gone" \/ w[2].kind # "idle" \/ Account(w) \notin rows)
  <2>1. \A v \in DOMAIN pool' : v \in DOMAIN pool /\ v # w /\ pool'[v] = pool[v]
      BY <1>3 DEF Gone
  <2>2. \A v \in DOMAIN pool' : Open(v)' => ~pool'[v].deaf
      BY <1>1, <2>1 DEF Passing, Open
  <2>3. ASSUME NEW f \in watched, Home[f] \in Imap PROVE Covered(f)' \/ Stale(f)'
    <3>1. CASE Stale(f)
        BY <1>1, <3>1 DEF Stale
    <3>2. CASE Covered(f) /\ Idles(f) # w
        BY <1>1, <1>3, <3>2 DEF Covered, Idles, Gone
    <3>3. CASE Covered(f) /\ Idles(f) = w
      <4>1. Open(w) /\ w[2].kind = "idle" /\ w[2].of = f /\ pool[w].state # "gone"
          BY <3>3 DEF Covered, Idles, Open, Passing
      <4>2. Account(w) = Home[f] /\ Home[f] \notin rows
          BY <1>3, <4>1 DEF Account
      <4> QED
          BY <1>1, <4>2 DEF Stale
    <3> QED
        BY <2>3, <3>1, <3>2, <3>3 DEF Passing
  <2> QED
      BY <1>1, <2>2, <2>3 DEF Passing
<1>4. CASE /\ DOMAIN pool' = DOMAIN pool /\ \A v \in DOMAIN pool : v # w => pool'[v] = pool[v]
           /\ pool'[w].folders = pool[w].folders
           /\ pool'[w].deaf = pool[w].deaf \/ ~Open(w)
           /\ \/ pool'[w].state \notin {"gone"} \/ pool'[w].state = pool[w].state
              \/ w[2].kind # "idle" \/ Account(w) \notin rows
  <2>1. \A v \in DOMAIN pool' : Open(v)' => ~pool'[v].deaf
      BY <1>1, <1>4 DEF Passing, Open
  <2>2. ASSUME NEW f \in watched, Home[f] \in Imap PROVE Covered(f)' \/ Stale(f)'
    <3>1. CASE Stale(f)
        BY <1>1, <3>1 DEF Stale
    <3>2. CASE Covered(f) /\ Idles(f) # w
        BY <1>1, <1>4, <3>2 DEF Covered, Idles
    <3>3. CASE Covered(f) /\ Idles(f) = w /\ pool'[w].state # "gone"
        BY <1>1, <1>4, <3>3 DEF Covered, Idles
    <3>4. CASE Covered(f) /\ Idles(f) = w /\ pool'[w].state = "gone"
      <4>1. w[2].kind = "idle" /\ w[2].of = f /\ pool[w].state # "gone"
          BY <3>4 DEF Covered, Idles
      <4>2. Account(w) = Home[f] /\ Home[f] \notin rows
          BY <1>4, <3>4, <4>1 DEF Account
      <4> QED
          BY <1>1, <4>2 DEF Stale
    <3> QED
        BY <2>2, <3>1, <3>2, <3>3, <3>4 DEF Passing
  <2> QED
      BY <1>1, <2>1, <2>2 DEF Passing
<1>5. ASSUME NEW event, NEW next \in {"pause", "dial", "live"}, NEW tell, Sends(w, event, next, tell)
      PROVE  Passing'
  <2>1. CASE pool' = [pool EXCEPT ![w].out = Append(@, event), ![w].state = next, ![w].tell = tell]
      BY <1>0, <1>2, <1>4, <2>1
  <2>2. CASE pool[w].deaf /\ Gone(w)
      BY <1>2, <1>3, <2>2 DEF Passing
  <2> QED
      BY <1>5, <2>1, <2>2 DEF Sends
<1>6. ASSUME Ends(w), w[2].kind # "idle" \/ Account(w) \notin rows PROVE Passing'
    BY <1>0, <1>2, <1>3, <1>4, <1>6 DEF Ends
<1>7. CASE Dialled(w)
  <2>1. CASE Account(w) \in rows /\ pool' = [pool EXCEPT ![w].state = "live"]
      BY <1>0, <1>2, <1>4, <2>1
  <2> QED
      BY <1>6, <1>7, <2>1 DEF Dialled
<1>8. CASE Restored(w)
    BY <1>5, <1>8 DEF Restored
<1>9. CASE Report(w)
    BY <1>5, <1>9 DEF Report
<1>10. CASE Poll(w)
    BY <1>0, <1>2, <1>4, <1>10 DEF Poll
<1>11. CASE Lost(w)
    BY <1>5, <1>11 DEF Lost
<1>12. CASE StreamEnds(w)
    BY <1>6, <1>12 DEF StreamEnds
<1>13. CASE Forward(w)
  <2>1. CASE pool' = [pool EXCEPT ![w].out = Tail(@)]
      BY <1>0, <1>2, <1>4, <2>1
  <2>2. CASE ~Open(w) /\ pool' = [pool EXCEPT ![w].out = <<>>, ![w].deaf = TRUE]
      BY <1>0, <1>2, <1>4, <2>2
  <2>3. CASE pool[w].state = "gone" /\ Gone(w)
      BY <1>3, <2>3
  <2> QED
      BY <1>13, <2>1, <2>2, <2>3 DEF Forward
<1> QED
    BY <1>7, <1>8, <1>9, <1>10, <1>11, <1>12, <1>13 DEF Moves

LEMMA StillAWatcher ==
    ASSUME NEW r, IsWatcher(r), NEW out, NEW state, NEW tell, NEW deaf
    PROVE  /\ IsWatcher([r EXCEPT !.out = out])
           /\ IsWatcher([r EXCEPT !.out = out, !.deaf = deaf])
           /\ IsWatcher([r EXCEPT !.out = out, !.state = state, !.tell = tell])
<1>1. ASSUME NEW q, IsWatcher(q)
      PROVE  /\ \A x : IsWatcher([q EXCEPT !.out = x]) /\ IsWatcher([q EXCEPT !.state = x])
             /\ \A x : IsWatcher([q EXCEPT !.tell = x]) /\ IsWatcher([q EXCEPT !.deaf = x])
    BY <1>1 DEF IsWatcher
<1>2. IsWatcher([[r EXCEPT !.out = out] EXCEPT !.deaf = deaf])
    BY <1>1
<1>3. IsWatcher([[[r EXCEPT !.out = out] EXCEPT !.state = state] EXCEPT !.tell = tell])
    BY <1>1
<1>4. [r EXCEPT !.out = out, !.deaf = deaf] = [[r EXCEPT !.out = out] EXCEPT !.deaf = deaf]
    OBVIOUS
<1>5. [r EXCEPT !.out = out, !.state = state, !.tell = tell]
         = [[[r EXCEPT !.out = out] EXCEPT !.state = state] EXCEPT !.tell = tell]
    OBVIOUS
<1> QED
    BY <1>1, <1>2, <1>3, <1>4, <1>5

LEMMA ShapedWatchers ==
    ASSUME Shaped, NEW w \in Passes \X Unit, Moves(w) \/ Lost(w) \/ StreamEnds(w)
    PROVE  Shaped'
<1>0. w \in DOMAIN pool
    BY DEF Moves, Dialled, Restored, Report, Poll, Forward, Lost, StreamEnds, Is
<1>1. CASE Gone(w)
    BY <1>1 DEF Gone, Shaped, IsWatcher
<1>2. CASE \E r : IsWatcher(r) /\ pool' = [pool EXCEPT ![w] = r]
    BY <1>0, <1>2 DEF Shaped, IsWatcher
<1>3. IsWatcher(pool[w])
    BY <1>0 DEF Shaped
<1>4. ASSUME NEW event, NEW next, NEW tell, Sends(w, event, next, tell) PROVE Shaped'
  <2>1. CASE pool' = [pool EXCEPT ![w].out = Append(@, event), ![w].state = next, ![w].tell = tell]
    <3> DEFINE r == [pool[w] EXCEPT !.out = Append(pool[w].out, event), !.state = next, !.tell = tell]
    <3>1. IsWatcher(r)
        BY <1>3, StillAWatcher
    <3>2. pool' = [pool EXCEPT ![w] = r]
        BY <1>0, <2>1 DEF Shaped
    <3> QED
        BY <1>2, <3>1, <3>2
  <2> QED
      BY <1>1, <1>4, <2>1 DEF Sends
<1>5. ASSUME NEW state, pool' = [pool EXCEPT ![w].state = state] PROVE Shaped'
  <2>1. IsWatcher([pool[w] EXCEPT !.state = state])
      BY <1>3 DEF IsWatcher
  <2> QED
      BY <1>2, <1>5, <2>1
<1>6. CASE Ends(w)
    BY <1>1, <1>5, <1>6 DEF Ends
<1>7. CASE Dialled(w)
    BY <1>5, <1>6, <1>7 DEF Dialled
<1>8. CASE Restored(w) \/ Report(w) \/ Lost(w)
    BY <1>4, <1>8 DEF Restored, Report, Lost
<1>9. CASE Poll(w)
  <2>1. IsWatcher([pool[w] EXCEPT !.tell = pool[w].folders])
      BY <1>3 DEF IsWatcher
  <2> QED
      BY <1>2, <1>9, <2>1 DEF Poll
<1>10. CASE StreamEnds(w)
    BY <1>6, <1>10 DEF StreamEnds
<1>11. CASE Forward(w)
  <2>1. CASE pool' = [pool EXCEPT ![w].out = Tail(@)]
    <3>1. IsWatcher([pool[w] EXCEPT !.out = Tail(pool[w].out)])
        BY <1>3, StillAWatcher
    <3> QED
        BY <1>2, <2>1, <3>1
  <2>2. CASE pool' = [pool EXCEPT ![w].out = <<>>, ![w].deaf = TRUE]
    <3> DEFINE r == [pool[w] EXCEPT !.out = <<>>, !.deaf = TRUE]
    <3>1. IsWatcher(r)
        BY <1>3, StillAWatcher
    <3>2. pool' = [pool EXCEPT ![w] = r]
        BY <1>0, <2>2 DEF Shaped
    <3> QED
        BY <1>2, <3>1, <3>2
  <2> QED
      BY <1>1, <1>11, <2>1, <2>2 DEF Forward
<1> QED
    BY <1>7, <1>8, <1>9, <1>10, <1>11 DEF Moves

(* The pool of a new pass: its number is free, and every folder that is    *)
(* watched from now on gets a watcher of its own.                          *)
LEMMA SpawnStep == Basics /\ Shaped /\ Passing /\ Spawn => Shaped' /\ Passing'
<1> SUFFICES ASSUME Basics, Shaped, Passing, Spawn PROVE Shaped' /\ Passing'
    OBVIOUS
<1> DEFINE p == CHOOSE q \in Passes : \A w \in DOMAIN pool : w[1] # q
<1>1. p \in Passes /\ \A w \in DOMAIN pool : w[1] # p
    BY DEF Spawn
<1>2. /\ pass' = p
      /\ pool' = [w \in DOMAIN pool \cup ({p} \X Units) |->
                     IF w \in DOMAIN pool THEN pool[w] ELSE Watcher(w[2], FoldersIn(w[2]))]
      /\ at = "boot" /\ at' = "loop" /\ UNCHANGED <<rows, telling, permit>>
      /\ watched' = watched \cup Active \cup {f \in booted : Home[f] \in pushed}
    BY DEF Spawn, world
<1> HIDE DEF p
<1>3. \A w \in {p} \X Units : w \notin DOMAIN pool /\ pool'[w] = Watcher(w[2], FoldersIn(w[2]))
    BY <1>1, <1>2
<1>4. Shaped'
  <2>1. \A unit, fs : IsWatcher(Watcher(unit, fs))
      BY DEF IsWatcher, Watcher
  <2> QED
      BY <1>2, <1>3, <2>1 DEF Shaped
<1>5. \A w \in DOMAIN pool' : Open(w)' => ~pool'[w].deaf
  <2>1. \A w \in DOMAIN pool' : Open(w)' => w \in {p} \X Units
      BY <1>1, <1>2 DEF Open
  <2>2. \A unit, fs : Watcher(unit, fs).deaf = FALSE
      BY DEF Watcher
  <2> QED
      BY <1>3, <2>1, <2>2
<1>6. ASSUME NEW f \in watched', Home[f] \in Imap PROVE Covered(f)'
  <2>1. watched = {}
      BY <1>2 DEF Passing
  <2>2. f \in Active
      BY <1>2, <1>6, <2>1, EngineAssumption DEF Basics
  <2> DEFINE unit == [kind |-> "idle", of |-> f]
  <2>3. unit \in Units
      BY <2>2 DEF Units
  <2>4. <<p, unit>> \in DOMAIN pool' /\ pool'[<<p, unit>>] = Watcher(unit, FoldersIn(unit))
      BY <1>2, <1>3, <2>3
  <2>5. FoldersIn(unit) = {f}
      BY DEF FoldersIn
  <2>6. Watcher(unit, {f}).folders = {f} /\ Watcher(unit, {f}).state # "gone"
      BY DEF Watcher
  <2> QED
      BY <1>2, <2>4, <2>5, <2>6 DEF Covered, Idles
<1> QED
    BY <1>2, <1>4, <1>5, <1>6 DEF Passing

LEMMA PassingStep == IInv /\ [Next]_vars => Shaped' /\ Passing'
<1> SUFFICES ASSUME Basics, Shaped, Passing, [Next]_vars PROVE Shaped' /\ Passing'
    BY DEF IInv
<1>1. ASSUME UNCHANGED <<pool, pass>>,
             at' \in {"loop", "sync"} => at \in {"loop", "sync"},
             watched' = {} \/ (UNCHANGED watched /\ (at' \in {"loop", "sync"} <=> at \in {"loop", "sync"})),
             watched' # {} => \A f \in watched' : Stale(f) => Stale(f)'
      PROVE  Shaped' /\ Passing'
  <2>1. Shaped'
      BY <1>1 DEF Shaped
  <2>2. at' \notin {"loop", "sync"} => watched' = {}
      BY <1>1 DEF Passing
  <2> QED
      BY <1>1, <2>1, <2>2, PoolStays
<1>2. CASE UNCHANGED vars
    BY <1>1, <1>2 DEF vars, world, engine, Stale
<1>3. ASSUME NEW a \in Accounts, Edit(a) PROVE Shaped' /\ Passing'
    BY <1>1, <1>3 DEF Edit, Stale, Basics, engine
<1>4. CASE Notify
    BY <1>1, <1>4 DEF Notify, Stale, engine
<1>5. ASSUME NEW f \in Folders, Click(f) PROVE Shaped' /\ Passing'
    BY <1>1, <1>5 DEF Click, Stale, world, engine
<1>6. ASSUME NEW f \in Folders, ServerChange(f) PROVE Shaped' /\ Passing'
  <2>1. UNCHANGED <<rows, telling, permit, at, pass, watched>>
      BY <1>6 DEF ServerChange, world, engine
  <2>2. /\ DOMAIN pool' = DOMAIN pool /\ pool' = [v \in DOMAIN pool' |-> pool'[v]]
        /\ \A w \in DOMAIN pool : \/ pool'[w] = pool[w]
                                  \/ pool'[w] = [pool[w] EXCEPT !.tell = pool[w].folders]
      BY <1>6 DEF ServerChange
  <2>3. \A w \in DOMAIN pool :
           /\ IsWatcher(pool'[w]) /\ pool'[w].folders = pool[w].folders
           /\ pool'[w].state = pool[w].state /\ pool'[w].deaf = pool[w].deaf
      BY <2>2 DEF Shaped, IsWatcher
  <2>4. Shaped'
      BY <2>2, <2>3 DEF Shaped
  <2>5. Passing'
      BY <2>1, <2>2, <2>3 DEF Passing, Open, Covered, Idles, Stale
  <2> QED
      BY <2>4, <2>5
<1>7. CASE UiReady \/ Rested
    BY <1>1, <1>7 DEF UiReady, Rested, Passing, world, Stale
<1>8. CASE Boots
  <2>1. CASE ListAccounts \/ ListFails \/ NothingToWatch
      BY <1>1, <2>1 DEF ListAccounts, ListFails, NothingToWatch, Passing, world
  <2>2. ASSUME NEW a \in Accounts, Boot(a) \/ BootFails(a) PROVE Shaped' /\ Passing'
      BY <1>1, <2>2 DEF Boot, BootFails, world, Stale
  <2> QED
      BY <1>8, <2>1, <2>2, SpawnStep DEF Boots
<1>9. CASE Turns
  <2>1. CASE AccountsChanged \/ WatchersExited
      BY <1>1, <2>1 DEF AccountsChanged, WatchersExited, Over
  <2>2. CASE Receive \/ \E batch \in (SUBSET Entries) \ {{}} : Due(batch)
      BY <1>1, <2>2 DEF Receive, Due, world, Stale
  <2> QED
      BY <1>9, <2>1, <2>2 DEF Turns
<1>10. CASE Syncs
    BY <1>1, <1>10 DEF Syncs, Synced, SyncFails, Settle, world, Stale
<1>11. ASSUME NEW w \in Passes \X Unit, Moves(w) \/ Lost(w) \/ StreamEnds(w)
       PROVE  Shaped' /\ Passing'
    BY <1>11, ShapedWatchers, WatcherStep
<1> QED
    BY <1>2, <1>3, <1>4, <1>5, <1>6, <1>7, <1>8, <1>9, <1>10, <1>11 DEF Next

(* The pool of the pass and watched_folders agree in every state           *)
(* (run_once): the inductive invariant.                                    *)
THEOREM PassesAreSound == Spec => []IInv
<1>1. Init => IInv
  <2> SUFFICES ASSUME Init PROVE IInv
      OBVIOUS
  <2>1. DOMAIN pool = {} /\ pool = [w \in DOMAIN pool |-> pool[w]]
      BY DEF Init
  <2>2. Basics
      BY DEF Init, Basics
  <2>3. Passing
      BY <2>1 DEF Init, Passing
  <2> QED
      BY <2>1, <2>2, <2>3 DEF IInv, Shaped
<1>2. IInv /\ [Next]_vars => IInv'
    BY BasicsStep, PassingStep DEF IInv
<1> QED
    BY <1>1, <1>2, PTL DEF Spec

(* An IMAP folder whose clicks are skipped (messages_refresh_folder) has a *)
(* watcher of this pass, while its account stays, however passes, edits,   *)
(* lost connections and full buffers interleave.                           *)
THEOREM FoldersStayCovered == Spec => []WatchedAreCovered
<1>1. IInv => WatchedAreCovered
  <2> SUFFICES ASSUME IInv, NEW f \in watched, Home[f] \in Imap
               PROVE  \/ \E w \in DOMAIN pool : Covers(w, f)
                      \/ Home[f] \notin rows \/ telling > 0 \/ permit
      BY DEF WatchedAreCovered
  <2>1. Covered(f) => Covers(Idles(f), f) /\ Idles(f) \in DOMAIN pool
      BY DEF Covered, Covers, Idles
  <2> QED
      BY <2>1 DEF IInv, Passing, Stale
<1> QED
    BY <1>1, PassesAreSound, PTL

-----------------------------------------------------------------------------
(* The types.                                                              *)

IsList(s) == \E S : s \in Seq(S)

LEMMA Lists ==
    ASSUME NEW s, IsList(s)
    PROVE  /\ Len(s) \in Nat /\ DOMAIN s = 1 .. Len(s)
           /\ s # <<>> => /\ Len(s) > 0 /\ IsList(Tail(s)) /\ Len(Tail(s)) = Len(s) - 1
                          /\ \A i \in 1 .. Len(s) - 1 : Tail(s)[i] = s[i + 1]
<1> PICK S : s \in Seq(S)
    BY DEF IsList
<1>1. s # <<>> => Tail(s) \in Seq(S)
    OBVIOUS
<1> QED
    BY <1>1 DEF IsList

LEMMA Appends ==
    ASSUME NEW s, IsList(s), NEW e
    PROVE  /\ IsList(Append(s, e)) /\ Len(Append(s, e)) = Len(s) + 1
           /\ Append(s, e)[Len(s) + 1] = e
           /\ \A i \in 1 .. Len(s) : Append(s, e)[i] = s[i]
<1> PICK S : s \in Seq(S)
    BY DEF IsList
<1>1. s \in Seq(S \cup {e}) /\ e \in S \cup {e}
    OBVIOUS
<1>2. Append(s, e) \in Seq(S \cup {e})
    BY <1>1
<1> QED
    BY <1>1, <1>2 DEF IsList

Stages == {"ui", "list", "boot", "rest", "loop", "sync"}
Accounted ==
    /\ rows \subseteq Accounts /\ todo \subseteq known /\ pushed \subseteq known
    /\ at \in Stages /\ (at = "sync" <=> current # {})
    /\ at \notin {"loop", "sync"} => pending = {}

Fits(w, r) ==
    /\ w \in Passes \X Unit /\ r.state \in {"dial", "live", "pause", "gone"}
    /\ r.folders \subseteq Folders /\ r.tell \subseteq r.folders
    /\ IsList(r.out) /\ Len(r.out) <= Buffer
Fitting == \A w \in DOMAIN pool : Fits(w, pool[w])

(* Those that wait in line to send to the channel wait once each.          *)
Queueing ==
    /\ IsList(channel) /\ (at \notin {"loop", "sync"} => channel = <<>>)
    /\ \A i \in 1 .. Len(channel) :
          channel[i] = <<channel[i][1], channel[i][2]>> /\ channel[i][1] \in {pass} \X Unit
    /\ \A i, j \in 1 .. Len(channel) : i > Channel /\ j > Channel /\ i # j => channel[i][1] # channel[j][1]

LEMMA AccountedStep == Accounted /\ [Next]_vars => Accounted'
<1> SUFFICES ASSUME Accounted, [Next]_vars PROVE Accounted'
    OBVIOUS
<1>1. CASE UNCHANGED vars
    BY <1>1 DEF Accounted, vars, world, engine, history
<1>2. ASSUME NEW a \in Accounts, Edit(a) PROVE Accounted'
    BY <1>2 DEF Edit, Accounted, engine, history
<1>3. CASE Notify
    BY <1>3 DEF Notify, Accounted, engine, history
<1>4. ASSUME NEW f \in Folders, Click(f) \/ ServerChange(f) PROVE Accounted'
    BY <1>4 DEF Click, ServerChange, Accounted, world, engine, history
<1>5. CASE UiReady \/ Rested
    BY <1>5 DEF UiReady, Rested, Accounted, world, history, Stages
<1>6. CASE Boots
  <2>1. CASE ListAccounts \/ ListFails \/ NothingToWatch
      BY <1>6, <2>1 DEF ListAccounts, ListFails, NothingToWatch, Accounted, world, history, Stages
  <2>2. ASSUME NEW a \in Accounts, Boot(a) \/ BootFails(a) PROVE Accounted'
      BY <2>2 DEF Boot, BootFails, Accounted, world
  <2>3. CASE Spawn
      BY <2>3 DEF Spawn, Accounted, world, history, Stages
  <2> QED
      BY <1>6, <2>1, <2>2, <2>3 DEF Boots
<1>7. CASE Turns
  <2>1. CASE AccountsChanged \/ WatchersExited
      BY <2>1 DEF AccountsChanged, WatchersExited, Over, Accounted, world, history, Stages
  <2>2. CASE Receive
      BY <2>2 DEF Receive, Accounted, world, history
  <2>3. ASSUME NEW batch \in (SUBSET Entries) \ {{}}, Due(batch) PROVE Accounted'
      BY <2>3 DEF Due, Accounted, world, history, Stages
  <2> QED
      BY <1>7, <2>1, <2>2, <2>3 DEF Turns
<1>8. CASE Syncs
  <2>1. PICK fs : Settle(fs)
      BY <1>8 DEF Syncs, Synced, SyncFails
  <2> QED
      BY <2>1 DEF Settle, Accounted, world, Stages
<1>9. ASSUME NEW w \in Passes \X Unit, Moves(w) \/ Lost(w) \/ StreamEnds(w) PROVE Accounted'
  <2>1. UNCHANGED <<world, engine, known>>
      BY <1>9 DEF Moves, Dialled, Restored, Report, Poll, Forward, Lost, StreamEnds, Quietly, history
  <2> QED
      BY <2>1 DEF Accounted, world, engine
<1> QED
    BY <1>1, <1>2, <1>3, <1>4, <1>5, <1>6, <1>7, <1>8, <1>9 DEF Next

LEMMA ChannelStays ==
    ASSUME Queueing, UNCHANGED <<pass, channel>>,
           at' \notin {"loop", "sync"} => at \notin {"loop", "sync"}
    PROVE  Queueing'
BY DEF Queueing

LEMMA QueueingStep == IInv /\ Fitting /\ Queueing /\ [Next]_vars => Queueing'
<1> SUFFICES ASSUME IInv, Fitting, Queueing, [Next]_vars PROVE Queueing'
    OBVIOUS
<1>1. CASE UNCHANGED vars
    BY <1>1, ChannelStays DEF vars, engine
<1>2. ASSUME NEW a \in Accounts, Edit(a) PROVE Queueing'
    BY <1>2, ChannelStays DEF Edit, engine
<1>3. CASE Notify
    BY <1>3, ChannelStays DEF Notify, engine
<1>4. ASSUME NEW f \in Folders, Click(f) \/ ServerChange(f) PROVE Queueing'
    BY <1>4, ChannelStays DEF Click, ServerChange, engine
<1>5. CASE UiReady \/ Rested
    BY <1>5, ChannelStays DEF UiReady, Rested
<1>0. IsList(<<>>) /\ Len(<<>>) = 0
  <2>1. <<>> \in Seq({})
      OBVIOUS
  <2> QED
      BY <2>1 DEF IsList
<1>6. ASSUME channel' = <<>> PROVE Queueing'
  <2>1. 1 .. Len(channel') = {}
      BY <1>0, <1>6
  <2> QED
      BY <1>0, <1>6, <2>1 DEF Queueing
<1>7. CASE Boots
  <2>1. CASE ListAccounts \/ ListFails \/ NothingToWatch
      BY <2>1, ChannelStays DEF ListAccounts, ListFails, NothingToWatch
  <2>2. ASSUME NEW a \in Accounts, Boot(a) \/ BootFails(a) PROVE Queueing'
      BY <2>2, ChannelStays DEF Boot, BootFails
  <2> QED
      BY <1>6, <1>7, <2>1, <2>2 DEF Boots, Spawn
<1>8. CASE Turns
  <2>1. CASE AccountsChanged \/ WatchersExited
      BY <1>6, <2>1 DEF AccountsChanged, WatchersExited, Over
  <2>2. CASE Receive
    <3>1. channel # <<>> /\ channel' = Tail(channel) /\ pass' = pass /\ at = "loop" /\ at' = at
        BY <2>2 DEF Receive
    <3>2. /\ Len(channel) \in Nat /\ Len(channel') = Len(channel) - 1 /\ IsList(channel')
          /\ \A i \in 1 .. Len(channel') : channel'[i] = channel[i + 1]
        BY <3>1, Lists DEF Queueing
    <3>3. \A i \in 1 .. Len(channel') : i + 1 \in 1 .. Len(channel) /\ (i > Channel => i + 1 > Channel)
        BY <3>2, BoundsAssumption
    <3>4. \A i \in 1 .. Len(channel') :
              channel'[i] = <<channel'[i][1], channel'[i][2]>> /\ channel'[i][1] \in {pass} \X Unit
        BY <3>2, <3>3 DEF Queueing
    <3>5. ASSUME NEW i \in 1 .. Len(channel'), NEW j \in 1 .. Len(channel'), i > Channel, j > Channel, i # j
          PROVE  channel'[i][1] # channel'[j][1]
      <4>1. i + 1 # j + 1
          BY <3>2, <3>5
      <4> QED
          BY <3>2, <3>3, <3>5, <4>1 DEF Queueing
    <3> QED
        BY <3>1, <3>2, <3>4, <3>5 DEF Queueing
  <2>3. ASSUME NEW batch \in (SUBSET Entries) \ {{}}, Due(batch) PROVE Queueing'
      BY <2>3, ChannelStays DEF Due
  <2> QED
      BY <1>8, <2>1, <2>2, <2>3 DEF Turns
<1>9. CASE Syncs
  <2>1. PICK fs : Settle(fs)
      BY <1>9 DEF Syncs, Synced, SyncFails
  <2> QED
      BY <2>1, ChannelStays DEF Settle
<1>10. ASSUME NEW w \in Passes \X Unit, Forward(w) PROVE Queueing'
  <2>1. UNCHANGED <<at, pass>> /\ w \in DOMAIN pool
      BY <1>10 DEF Forward, engine
  <2>2. CASE ~Open(w)
      BY <1>10, <2>1, <2>2, ChannelStays DEF Forward
  <2>3. CASE Open(w)
    <3> PICK e : e = <<w, Head(pool[w].out)>>
        OBVIOUS
    <3>1. channel' = Append(channel, e) /\ ~Waits(w)
        BY <1>10, <2>3 DEF Forward
    <3>2. /\ Len(channel) \in Nat /\ DOMAIN channel = 1 .. Len(channel)
          /\ IsList(channel') /\ Len(channel') = Len(channel) + 1
          /\ channel'[Len(channel) + 1] = e /\ \A i \in 1 .. Len(channel) : channel'[i] = channel[i]
        BY <3>1, Lists, Appends DEF Queueing
    <3>3. e = <<e[1], e[2]>> /\ e[1] = w /\ w \in {pass} \X Unit
      <4>1. w[1] = pass
          BY <2>3 DEF Open
      <4> QED
          BY <4>1
    <3>4. \A i \in 1 .. Len(channel) : i > Channel => channel[i][1] # w
        BY <3>1, <3>2 DEF Waits
    <3>5. \A i \in 1 .. Len(channel') : i \in 1 .. Len(channel) \/ i = Len(channel) + 1
        BY <3>2
    <3>6. \A i \in 1 .. Len(channel') :
              channel'[i] = <<channel'[i][1], channel'[i][2]>> /\ channel'[i][1] \in {pass} \X Unit
        BY <3>2, <3>3, <3>5 DEF Queueing
    <3>7. ASSUME NEW i \in 1 .. Len(channel'), NEW j \in 1 .. Len(channel'), i > Channel, j > Channel, i # j
          PROVE  channel'[i][1] # channel'[j][1]
      <4>1. CASE i \in 1 .. Len(channel) /\ j \in 1 .. Len(channel)
          BY <3>2, <3>7, <4>1 DEF Queueing
      <4>2. CASE i \in 1 .. Len(channel) /\ j = Len(channel) + 1
          BY <3>2, <3>3, <3>4, <3>7, <4>2
      <4>3. CASE j \in 1 .. Len(channel) /\ i = Len(channel) + 1
          BY <3>2, <3>3, <3>4, <3>7, <4>3
      <4> QED
          BY <3>5, <3>7, <4>1, <4>2, <4>3
    <3> QED
        BY <2>1, <2>3, <3>2, <3>6, <3>7 DEF Queueing, Open
  <2> QED
      BY <2>2, <2>3
<1>11. ASSUME NEW w \in Passes \X Unit, Moves(w) \/ Lost(w) \/ StreamEnds(w) PROVE Queueing'
  <2>1. CASE UNCHANGED <<engine, channel>>
      BY <2>1, ChannelStays DEF engine
  <2> QED
      BY <1>10, <1>11, <2>1 DEF Moves, Dialled, Restored, Report, Poll, Lost, StreamEnds, Quietly
<1> QED
    BY <1>1, <1>2, <1>3, <1>4, <1>5, <1>7, <1>8, <1>9, <1>11 DEF Next

LEMMA StillFits ==
    ASSUME NEW w, NEW r, IsWatcher(r), Fits(w, r), NEW state \in {"dial", "live", "pause", "gone"},
           NEW tell, tell \subseteq r.folders, NEW e
    PROVE  /\ Fits(w, [r EXCEPT !.state = state]) /\ Fits(w, [r EXCEPT !.tell = tell])
           /\ Len(r.out) < Buffer =>
                 Fits(w, [r EXCEPT !.out = Append(r.out, e), !.state = state, !.tell = tell])
           /\ r.out # <<>> => Fits(w, [r EXCEPT !.out = Tail(r.out)])
           /\ Fits(w, [r EXCEPT !.out = <<>>, !.deaf = TRUE])
<1>1. IsList(r.out) /\ Len(r.out) <= Buffer /\ Buffer \in Nat
    BY BoundsAssumption DEF Fits
<1>2. Len(r.out) \in Nat /\ (r.out # <<>> => IsList(Tail(r.out)) /\ Len(Tail(r.out)) = Len(r.out) - 1)
    BY <1>1, Lists
<1>3. IsList(Append(r.out, e)) /\ Len(Append(r.out, e)) = Len(r.out) + 1
    BY <1>1, Appends
<1>4. IsList(<<>>) /\ Len(<<>>) = 0
  <2>1. <<>> \in Seq({})
      OBVIOUS
  <2> QED
      BY <2>1 DEF IsList
<1>5. ASSUME NEW q, q.state \in {"dial", "live", "pause", "gone"}, q.folders = r.folders,
             q.tell \subseteq r.folders, IsList(q.out), Len(q.out) <= Buffer
      PROVE  Fits(w, q)
    BY <1>5 DEF Fits
<1>6. r.state \in {"dial", "live", "pause", "gone"} /\ r.tell \subseteq r.folders
    BY DEF Fits
<1>7. Fits(w, [r EXCEPT !.state = state]) /\ Fits(w, [r EXCEPT !.tell = tell])
  <2>1. ASSUME NEW q, q = [r EXCEPT !.state = state] PROVE Fits(w, q)
    <3>1. q.state = state /\ q.folders = r.folders /\ q.tell = r.tell /\ q.out = r.out
        BY <2>1 DEF IsWatcher
    <3> QED
        BY <1>1, <1>5, <1>6, <3>1
  <2>2. ASSUME NEW q, q = [r EXCEPT !.tell = tell] PROVE Fits(w, q)
    <3>1. q.state = r.state /\ q.folders = r.folders /\ q.tell = tell /\ q.out = r.out
        BY <2>2 DEF IsWatcher
    <3> QED
        BY <1>1, <1>5, <1>6, <3>1
  <2> QED
      BY <2>1, <2>2
<1>8. ASSUME NEW out, IsList(out), Len(out) <= Buffer
      PROVE  /\ Fits(w, [r EXCEPT !.out = out]) /\ Fits(w, [r EXCEPT !.out = out, !.deaf = TRUE])
             /\ Fits(w, [r EXCEPT !.out = out, !.state = state, !.tell = tell])
  <2>1. ASSUME NEW q, q = [r EXCEPT !.out = out] PROVE Fits(w, q)
    <3>1. q.state = r.state /\ q.folders = r.folders /\ q.tell = r.tell /\ q.out = out
        BY <2>1 DEF IsWatcher
    <3> QED
        BY <1>5, <1>6, <1>8, <3>1
  <2>2. ASSUME NEW q, q = [r EXCEPT !.out = out, !.deaf = TRUE] PROVE Fits(w, q)
    <3>1. q.state = r.state /\ q.folders = r.folders /\ q.tell = r.tell /\ q.out = out
        BY <2>2 DEF IsWatcher
    <3> QED
        BY <1>5, <1>6, <1>8, <3>1
  <2>3. ASSUME NEW q, q = [r EXCEPT !.out = out, !.state = state, !.tell = tell] PROVE Fits(w, q)
    <3>1. q.state = state /\ q.folders = r.folders /\ q.tell = tell /\ q.out = out
        BY <2>3 DEF IsWatcher
    <3> QED
        BY <1>5, <1>8, <3>1
  <2> QED
      BY <2>1, <2>2, <2>3
<1>9. Len(r.out) < Buffer => Fits(w, [r EXCEPT !.out = Append(r.out, e), !.state = state, !.tell = tell])
  <2>1. Len(r.out) < Buffer => Len(Append(r.out, e)) <= Buffer
      BY <1>1, <1>2, <1>3
  <2> QED
      BY <1>3, <1>8, <2>1
<1>10. r.out # <<>> => Fits(w, [r EXCEPT !.out = Tail(r.out)])
  <2>1. r.out # <<>> => Len(Tail(r.out)) <= Buffer
      BY <1>1, <1>2
  <2> QED
      BY <1>2, <1>8, <2>1
<1>11. Fits(w, [r EXCEPT !.out = <<>>, !.deaf = TRUE])
  <2>1. Len(<<>>) <= Buffer
      BY <1>1, <1>4
  <2> QED
      BY <1>4, <1>8, <2>1
<1> QED
    BY <1>7, <1>9, <1>10, <1>11

LEMMA WatchersFit ==
    ASSUME IInv, Fitting, NEW w \in Passes \X Unit, Moves(w) \/ Lost(w) \/ StreamEnds(w)
    PROVE  Fitting'
<1>0. w \in DOMAIN pool /\ pool = [v \in DOMAIN pool |-> pool[v]]
    BY DEF Moves, Dialled, Restored, Report, Poll, Forward, Lost, StreamEnds, Is, IInv, Shaped
<1> PICK r : r = pool[w]
    OBVIOUS
<1>1. IsWatcher(r) /\ Fits(w, r)
    BY <1>0 DEF IInv, Shaped, Fitting
<1>2. CASE Gone(w)
    BY <1>2 DEF Gone, Fitting
<1>3. ASSUME NEW q, pool' = [pool EXCEPT ![w] = q], Fits(w, q) PROVE Fitting'
    BY <1>0, <1>3 DEF Fitting
<1>4. ASSUME NEW event, NEW next \in {"pause", "dial", "live"}, NEW tell, tell \subseteq r.folders,
             Sends(w, event, next, tell)
      PROVE  Fitting'
  <2>1. CASE /\ Len(r.out) < Buffer
             /\ pool' = [pool EXCEPT ![w].out = Append(@, event), ![w].state = next, ![w].tell = tell]
    <3> PICK q : q = [r EXCEPT !.out = Append(r.out, event), !.state = next, !.tell = tell]
        OBVIOUS
    <3>1. Fits(w, q)
        BY <1>1, <1>4, <2>1, StillFits
    <3>2. pool' = [pool EXCEPT ![w] = q]
        BY <1>0, <2>1
    <3> QED
        BY <1>3, <3>1, <3>2
  <2> QED
      BY <1>2, <1>4, <2>1 DEF Sends
<1>5. ASSUME NEW state \in {"live", "gone"}, pool' = [pool EXCEPT ![w].state = state] PROVE Fitting'
  <2>1. Fits(w, [r EXCEPT !.state = state])
      BY <1>1, <1>5, StillFits
  <2>2. pool' = [pool EXCEPT ![w] = [r EXCEPT !.state = state]]
      BY <1>0, <1>5
  <2> QED
      BY <1>3, <2>1, <2>2
<1>6. CASE Ends(w)
    BY <1>2, <1>5, <1>6 DEF Ends
<1>7. CASE Dialled(w)
    BY <1>5, <1>6, <1>7 DEF Dialled
<1>8. CASE Restored(w) \/ Lost(w)
    BY <1>4, <1>8 DEF Restored, Lost
<1>9. CASE Report(w)
  <2> PICK fs : Sends(w, fs, "live", r.tell \ fs)
      BY <1>9 DEF Report
  <2>1. r.tell \ fs \subseteq r.folders
      BY <1>1 DEF Fits
  <2> QED
      BY <1>4, <2>1
<1>10. CASE Poll(w)
  <2>1. Fits(w, [r EXCEPT !.tell = r.folders])
      BY <1>1, StillFits
  <2>2. pool' = [pool EXCEPT ![w] = [r EXCEPT !.tell = r.folders]]
      BY <1>0, <1>10 DEF Poll
  <2> QED
      BY <1>3, <2>1, <2>2
<1>11. CASE StreamEnds(w)
    BY <1>6, <1>11 DEF StreamEnds
<1>12. CASE Forward(w)
  <2>1. CASE pool' = [pool EXCEPT ![w].out = Tail(@)]
    <3>1. r.out # <<>>
        BY <1>12 DEF Forward
    <3>2. Fits(w, [r EXCEPT !.out = Tail(r.out)])
        BY <1>1, <3>1, StillFits
    <3>3. pool' = [pool EXCEPT ![w] = [r EXCEPT !.out = Tail(r.out)]]
        BY <1>0, <2>1
    <3> QED
        BY <1>3, <3>2, <3>3
  <2>2. CASE pool' = [pool EXCEPT ![w].out = <<>>, ![w].deaf = TRUE]
    <3>1. Fits(w, [r EXCEPT !.out = <<>>, !.deaf = TRUE])
        BY <1>1, StillFits
    <3>2. pool' = [pool EXCEPT ![w] = [r EXCEPT !.out = <<>>, !.deaf = TRUE]]
        BY <1>0, <2>2
    <3> QED
        BY <1>3, <3>1, <3>2
  <2> QED
      BY <1>2, <1>12, <2>1, <2>2 DEF Forward
<1> QED
    BY <1>7, <1>8, <1>9, <1>10, <1>11, <1>12 DEF Moves

LEMMA SpawnFits == IInv /\ Fitting /\ Spawn => Fitting'
<1> SUFFICES ASSUME IInv, Fitting, Spawn PROVE Fitting'
    OBVIOUS
<1> DEFINE p == CHOOSE q \in Passes : \A w \in DOMAIN pool : w[1] # q
<1>1. p \in Passes /\ booted \subseteq Folders /\ pushed \subseteq Jmap
    BY DEF Spawn, IInv, Basics
<1>2. pool' = [w \in DOMAIN pool \cup ({p} \X Units) |->
                  IF w \in DOMAIN pool THEN pool[w] ELSE Watcher(w[2], FoldersIn(w[2]))]
    BY DEF Spawn
<1> HIDE DEF p
<1>3. Units \subseteq Unit
    BY <1>1 DEF Units, Unit, Active, Polled
<1>4. \A unit \in Units : FoldersIn(unit) \subseteq Folders
  <2> SUFFICES ASSUME NEW unit \in Units PROVE FoldersIn(unit) \subseteq Folders
      OBVIOUS
  <2>1. CASE unit.kind = "idle"
    <3>1. FoldersIn(unit) = {unit.of}
        BY <2>1 DEF FoldersIn
    <3>2. unit.of \in Active
        BY <2>1 DEF Units
    <3> QED
        BY <1>1, <3>1, <3>2 DEF Active
  <2>2. CASE unit.kind = "poll"
    <3>1. FoldersIn(unit) = {f \in Polled : Home[f] = unit.of}
        BY <2>2 DEF FoldersIn
    <3> QED
        BY <1>1, <3>1 DEF Polled
  <2>3. CASE unit.kind = "push"
    <3>1. FoldersIn(unit) = FoldersOf(unit.of)
        BY <2>3 DEF FoldersIn
    <3> QED
        BY <3>1 DEF FoldersOf
  <2> QED
      BY <2>1, <2>2, <2>3 DEF Units
<1>5. IsList(<<>>) /\ Len(<<>>) <= Buffer
  <2>1. <<>> \in Seq({}) /\ Len(<<>>) = 0
      OBVIOUS
  <2> QED
      BY <2>1, BoundsAssumption DEF IsList
<1>6. ASSUME NEW w \in {p} \X Units PROVE Fits(w, Watcher(w[2], FoldersIn(w[2])))
  <2> PICK unit, fs, r : unit = w[2] /\ fs = FoldersIn(unit) /\ r = Watcher(unit, fs)
      OBVIOUS
  <2>1. w \in Passes \X Unit /\ unit \in Units /\ fs \subseteq Folders
      BY <1>1, <1>3, <1>4
  <2>2. /\ r.state \in {"live", "dial"} /\ r.folders = fs /\ r.tell = {} /\ r.out = <<>>
      BY DEF Watcher
  <2> QED
      BY <1>5, <2>1, <2>2 DEF Fits
<1> QED
    BY <1>2, <1>6 DEF Fitting

LEMMA FittingStep == IInv /\ Fitting /\ [Next]_vars => Fitting'
<1> SUFFICES ASSUME IInv, Fitting, [Next]_vars PROVE Fitting'
    OBVIOUS
<1>1. CASE UNCHANGED pool
    BY <1>1 DEF Fitting
<1>2. CASE UNCHANGED vars
    BY <1>1, <1>2 DEF vars
<1>3. CASE \E a \in Accounts : Edit(a)
    BY <1>1, <1>3 DEF Edit
<1>4. CASE Notify
    BY <1>1, <1>4 DEF Notify
<1>5. ASSUME NEW f \in Folders, Click(f) PROVE Fitting'
    BY <1>1, <1>5 DEF Click
<1>6. ASSUME NEW f \in Folders, ServerChange(f) PROVE Fitting'
  <2>1. DOMAIN pool' = DOMAIN pool
        /\ \A w \in DOMAIN pool : pool'[w] = pool[w] \/ pool'[w] = [pool[w] EXCEPT !.tell = pool[w].folders]
      BY <1>6 DEF ServerChange
  <2>2. \A w \in DOMAIN pool : IsWatcher(pool[w]) /\ Fits(w, pool[w])
      BY DEF IInv, Shaped, Fitting
  <2>3. \A w \in DOMAIN pool : Fits(w, [pool[w] EXCEPT !.tell = pool[w].folders])
      BY <2>2, StillFits
  <2> QED
      BY <2>1, <2>2, <2>3 DEF Fitting
<1>7. CASE UiReady \/ Rested
    BY <1>1, <1>7 DEF UiReady, Rested
<1>8. CASE Boots
  <2>1. CASE ListAccounts \/ ListFails \/ NothingToWatch \/ \E a \in Accounts : Boot(a) \/ BootFails(a)
      BY <1>1, <2>1 DEF ListAccounts, ListFails, NothingToWatch, Boot, BootFails
  <2> QED
      BY <1>8, <2>1, SpawnFits DEF Boots
<1>9. CASE Turns
    BY <1>1, <1>9 DEF Turns, AccountsChanged, WatchersExited, Receive, Due
<1>10. CASE Syncs
    BY <1>1, <1>10 DEF Syncs, Synced, SyncFails, Settle
<1> QED
    BY <1>2, <1>3, <1>4, <1>5, <1>6, <1>7, <1>8, <1>9, <1>10, WatchersFit DEF Next

-----------------------------------------------------------------------------
(* How many may wait in line.                                              *)

LEMMA UnitsAreFinite == IsFiniteSet(Unit)
<1>1. ASSUME NEW kind, NEW S, IsFiniteSet(S) PROVE IsFiniteSet([kind : {kind}, of : S])
  <2> DEFINE to == [x \in S |-> [kind |-> kind, of |-> x]]
  <2>1. to \in Surjection(S, [kind : {kind}, of : S])
    <3>1. to \in [S -> [kind : {kind}, of : S]]
        OBVIOUS
    <3>2. \A r \in [kind : {kind}, of : S] : \E x \in S : to[x] = r
        OBVIOUS
    <3> QED
        BY <3>1, <3>2 DEF Surjection
  <2> QED
      BY <1>1, <2>1, FS_Surjection
<1>2. IsFiniteSet({f \in Folders : Home[f] \in Imap})
    BY BoundsAssumption, FS_Subset
<1> QED
    BY <1>1, <1>2, BoundsAssumption, FS_Union DEF Unit

LEMMA FewWait ==
    ASSUME Queueing
    PROVE  Len(channel) <= Channel + Cardinality(Unit)
<1>1. Len(channel) \in Nat /\ Channel \in Nat /\ Cardinality(Unit) \in Nat
    BY Lists, BoundsAssumption, UnitsAreFinite, FS_CardinalityType DEF Queueing
<1>2. CASE Len(channel) <= Channel
    BY <1>1, <1>2
<1>3. CASE Len(channel) > Channel
  <2> DEFINE late == Channel + 1 .. Len(channel)
             who == [i \in late |-> channel[i][1][2]]
  <2>1. \A i \in late : i \in 1 .. Len(channel) /\ i > Channel
      BY <1>1
  <2>2. \A i \in late : channel[i][1] \in {pass} \X Unit
      BY <2>1 DEF Queueing
  <2>3. who \in [late -> Unit]
      BY <2>2
  <2>4. \A i, j \in late : who[i] = who[j] => i = j
    <3> SUFFICES ASSUME NEW i \in late, NEW j \in late, who[i] = who[j], i # j PROVE FALSE
        OBVIOUS
    <3>1. channel[i][1] = channel[j][1]
        BY <2>2
    <3> QED
        BY <2>1, <3>1 DEF Queueing
  <2>5. who \in Injection(late, Unit)
      BY <2>3, <2>4 DEF Injection, IsInjective
  <2>6. IsFiniteSet(late) /\ Cardinality(late) = Len(channel) - Channel
    <3>1. Channel + 1 \in Int /\ Len(channel) \in Int
        BY <1>1
    <3>2. IsFiniteSet(late) /\ Cardinality(late) = IF Channel + 1 > Len(channel) THEN 0
                                                  ELSE Len(channel) - (Channel + 1) + 1
        BY <3>1, FS_Interval
    <3> QED
        BY <1>1, <1>3, <3>2
  <2>7. Cardinality(late) <= Cardinality(Unit)
      BY <2>5, UnitsAreFinite, FS_Injection
  <2> QED
      BY <1>1, <2>6, <2>7
<1> QED
    BY <1>1, <1>2, <1>3

(* The channel of a pass never holds more than its buffer and one event    *)
(* for each watcher's forwarder, which waits in line to send; a forwarder  *)
(* holds no more than its own buffer; nothing is pending, waiting or       *)
(* watched between two passes (run_once), and what is due is not empty     *)
(* while the loop syncs.                                                   *)
THEOREM BuffersHold == Spec => []EngineTypeOK
<1> DEFINE TInv == Accounted /\ Fitting /\ Queueing
<1>1. Init => TInv
  <2> SUFFICES ASSUME Init PROVE TInv
      OBVIOUS
  <2>1. Accounted
      BY BoundsAssumption DEF Init, Accounted, Accounts, Stages
  <2>2. Fitting
      BY DEF Init, Fitting
  <2>3. Queueing
    <3>1. <<>> \in Seq({}) /\ 1 .. Len(<<>>) = {}
        OBVIOUS
    <3> QED
        BY <3>1 DEF Init, Queueing, IsList
  <2> QED
      BY <2>1, <2>2, <2>3
<1>2. IInv /\ TInv /\ [Next]_vars => TInv'
    BY AccountedStep, FittingStep, QueueingStep
<1>3. IInv /\ TInv => EngineTypeOK
  <2> SUFFICES ASSUME IInv, TInv PROVE EngineTypeOK
      OBVIOUS
  <2>1. Len(channel) <= Channel + Cardinality(Unit)
      BY FewWait
  <2>2. \A w \in DOMAIN pool :
           /\ w \in Passes \X Unit /\ pool[w].state \in {"dial", "live", "pause", "gone"}
           /\ pool[w].folders \subseteq Folders /\ pool[w].tell \subseteq pool[w].folders
           /\ Len(pool[w].out) <= Buffer /\ (Open(w) => ~pool[w].deaf)
      BY DEF Fitting, Fits, IInv, Passing
  <2> QED
      BY <2>1, <2>2 DEF EngineTypeOK, IInv, Basics, Passing, Accounted, Queueing, Stages
<1> QED
    BY <1>1, <1>2, <1>3, PassesAreSound, PTL DEF Spec
=============================================================================
