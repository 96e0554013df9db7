--------------------------- MODULE BackendsProofs ---------------------------
(***************************************************************************)
(* The cache and the credentials, for any number of tasks, slots, tokens   *)
(* and any scenario.                                                       *)
(***************************************************************************)
EXTENDS BackendsProperties, TLAPS

TaskRecords(sl, mi) ==
    [kind : Kinds, at : Steps, slot : 0..sl, token : 0..mi, retry : BOOLEAN, since : 0..sl]

(* A watcher builds its session alone, and does nothing else.              *)
WatchersBuild == \A t \in Tasks : task[t].kind = "watcher" => task[t].at \in Building

Inv == BackendsInv /\ WatchersBuild

(* A record that a task may come to hold, as far as the cache goes.        *)
Fits(r) ==
    /\ r.at = "join" => r.slot # 0
    /\ r.at = "op" => r.slot # 0 /\ cell[r.slot] # "empty"
    /\ r.at \in {"put", "store", "insert"} => r.token # 0
    /\ r.kind = "watcher" => r.at \in Building
    /\ r.retry => /\ r.at \in {"join", "op"} \cup Building => r.slot > r.since
                  /\ r.at = "lookup" => cache' = 0 \/ cache' > r.since

Builds(r) == r.kind # "watcher" /\ r.at \in Building

(* A step that leaves the slots alone.                                     *)
LEMMA KeepsSlots ==
    ASSUME Inv, NEW t \in Tasks,
           NEW r \in TaskRecords(slots, minted'),
           task' = [task EXCEPT ![t] = r],
           UNCHANGED <<scenario, slots, cell, builder, spoiled>>,
           cache' \in {0, cache},
           row' \in BOOLEAN,
           minted' \in minted..MaxTokens, vault' \in 0..minted', honoured' \subseteq 1..minted',
           calls' \in 0..scenario.calls, mishaps' \in 0..scenario.mishaps,
           Fits(r),
           Builds(r) <=> Builds(task[t]),
           Builds(r) => r.slot = task[t].slot
    PROVE  Inv'
<1> USE BackendsBoundAssumption, TasksAssumption
<1>1. task' \in [Tasks -> TaskRecords(slots', minted')]
    BY DEF Inv, BackendsInv, Types, TaskRecords
<1>2. Types'
  <2>1. cache' \in 0..slots' /\ slots' \in 0..MaxSlots
      BY DEF Inv, BackendsInv, Types
  <2>2. minted' \in 0..MaxTokens
      BY DEF Inv, BackendsInv, Types
  <2>3. /\ scenario' \in Scenarios
        /\ cell' \in [Slots -> {"empty", "fresh", "aged"}] /\ spoiled' \subseteq Slots
        /\ builder' \in [Slots -> Tasks \cup {None}]
        /\ calls' \in 0..scenario'.calls /\ mishaps' \in 0..scenario'.mishaps
      BY DEF Inv, BackendsInv, Types
  <2> QED
      BY <1>1, <2>1, <2>2, <2>3 DEF Types, TaskRecords
<1>3. \A u \in Tasks : u # t => task'[u] = task[u]
    BY DEF Inv, BackendsInv, Types
<1>4. task'[t] = r
    BY DEF Inv, BackendsInv, Types
<1>5. OneBuilder'
    BY <1>3, <1>4 DEF Inv, BackendsInv, OneBuilder, Cached, Builds, Types, Slots
<1>6. SlotsInOrder'
    BY <1>3, <1>4 DEF Inv, BackendsInv, SlotsInOrder, Fits, At
<1>7. Renewing'
    BY <1>3, <1>4 DEF Inv, BackendsInv, Renewing, Fits, At
<1>8. WatchersBuild'
    BY <1>3, <1>4 DEF Inv, WatchersBuild, Fits
<1> QED
    BY <1>2, <1>5, <1>6, <1>7, <1>8 DEF Inv, BackendsInv

(* A step that ends a call, and lets the permit of its cell go.            *)
LEMMA Ending ==
    ASSUME Inv, NEW t \in Tasks,
           Done(t), builder' = Released(t),
           UNCHANGED <<scenario, row, vault, cache, slots, cell, spoiled>>,
           minted' \in minted..MaxTokens, honoured' \subseteq 1..minted',
           calls' \in 0..scenario.calls, mishaps' \in 0..scenario.mishaps
    PROVE  Inv'
<1> USE BackendsBoundAssumption, TasksAssumption
<1>1. Idle \in TaskRecords(slots', minted')
    BY DEF Inv, BackendsInv, Types, TaskRecords, Idle, Kinds, Steps
<1>2. task' \in [Tasks -> TaskRecords(slots', minted')]
    BY <1>1 DEF Inv, BackendsInv, Types, TaskRecords, Done
<1>3. \A u \in Tasks : u # t => task'[u] = task[u]
    BY DEF Inv, BackendsInv, Types, Done
<1>4. task'[t] = Idle
    BY DEF Inv, BackendsInv, Types, Done
<1>5. Types'
  <2>1. minted' \in 0..MaxTokens /\ vault' \in 0..minted'
      BY DEF Inv, BackendsInv, Types
  <2>2. /\ scenario' \in Scenarios /\ row' \in BOOLEAN
        /\ cache' \in 0..slots' /\ slots' \in 0..MaxSlots
        /\ cell' \in [Slots -> {"empty", "fresh", "aged"}] /\ spoiled' \subseteq Slots
        /\ builder' \in [Slots -> Tasks \cup {None}]
        /\ calls' \in 0..scenario'.calls /\ mishaps' \in 0..scenario'.mishaps
      BY DEF Inv, BackendsInv, Types, Released
  <2> QED
      BY <1>2, <2>1, <2>2 DEF Types, TaskRecords
<1>6. OneBuilder'
  <2>1. \A u \in Tasks : Cached(u)' => u # t /\ Cached(u)
      BY <1>3, <1>4 DEF Cached, Building, Idle
  <2>2. \A x \in Slots : builder'[x] = (IF builder[x] = t THEN None ELSE builder[x])
      BY DEF Released
  <2>3. \A x \in Slots : builder'[x] # None =>
            Cached(builder[x])' /\ task'[builder'[x]].slot = x /\ cell'[x] = "empty"
      BY <1>3, <2>2 DEF Inv, BackendsInv, OneBuilder, Types, Cached
  <2>4. \A u \in Tasks : Cached(u)' => task'[u].slot # 0 /\ builder'[task'[u].slot] = u
    <3> SUFFICES ASSUME NEW u \in Tasks, Cached(u)'
                 PROVE  task'[u].slot # 0 /\ builder'[task'[u].slot] = u
        OBVIOUS
    <3>1. u # t /\ task'[u] = task[u] /\ task[u].slot # 0 /\ builder[task[u].slot] = u
        BY <1>3, <2>1 DEF Inv, BackendsInv, OneBuilder
    <3>2. task[u].slot \in Slots
        BY <3>1 DEF Inv, BackendsInv, Types, Slots
    <3> QED
        BY <2>2, <3>1, <3>2
  <2> QED
      BY <2>3, <2>4 DEF OneBuilder
<1>7. SlotsInOrder'
    BY <1>3, <1>4 DEF Inv, BackendsInv, SlotsInOrder, At, Idle
<1>8. Renewing'
    BY <1>3, <1>4 DEF Inv, BackendsInv, Renewing, At, Idle
<1>9. WatchersBuild'
    BY <1>3, <1>4 DEF Inv, WatchersBuild, Idle
<1> QED
    BY <1>5, <1>6, <1>7, <1>8, <1>9 DEF Inv, BackendsInv

(* The build goes through: the cell is full, and the call goes on.         *)
LEMMA Filling ==
    ASSUME Inv, NEW t \in Tasks,
           At(t, "dial"), task[t].kind # "watcher", Ready(t), Go(t, "op"),
           UNCHANGED <<remote, account, cache, slots, spoiled, budget>>
    PROVE  Inv'
<1> USE BackendsBoundAssumption, TasksAssumption
<1> DEFINE s == task[t].slot
<1>1. s # 0 /\ s \in Slots /\ builder[s] = t /\ cell[s] = "empty"
    BY DEF Inv, BackendsInv, Types, OneBuilder, Cached, At, Building, Slots
<1>2. \A u \in Slots : u # s => builder[u] # t
    BY DEF Inv, BackendsInv, OneBuilder
<1>3. cell' = [cell EXCEPT ![s] = "fresh"] /\ builder' = [builder EXCEPT ![s] = None]
    BY <1>1, <1>2 DEF Inv, BackendsInv, Types, Ready, Released
<1>4. task' = [task EXCEPT ![t] = [task[t] EXCEPT !.at = "op"]]
    BY DEF Go
<1>5. task' \in [Tasks -> TaskRecords(slots', minted')]
    BY <1>4 DEF Inv, BackendsInv, Types, TaskRecords, Steps, remote, handles
<1>6. \A u \in Tasks : u # t => task'[u] = task[u]
    BY <1>4 DEF Inv, BackendsInv, Types
<1>7. /\ task'[t].at = "op" /\ task'[t].slot = s /\ task'[t].kind = task[t].kind
      /\ task'[t].retry = task[t].retry /\ task'[t].since = task[t].since
    BY <1>4 DEF Inv, BackendsInv, Types
<1>8. Types'
    BY <1>3, <1>5 DEF Inv, BackendsInv, Types, TaskRecords, remote, account, budget
<1>9. OneBuilder'
  <2>1. \A u \in Tasks : Cached(u)' => u # t /\ Cached(u)
      BY <1>6, <1>7 DEF Cached, Building
  <2>2. \A x \in Slots : builder'[x] = (IF x = s THEN None ELSE builder[x])
                        /\ (x # s => cell'[x] = cell[x])
      BY <1>3 DEF Inv, BackendsInv, Types
  <2>3. \A x \in Slots : builder'[x] # None =>
            Cached(builder[x])' /\ task'[builder'[x]].slot = x /\ cell'[x] = "empty"
      BY <1>2, <1>6, <2>2 DEF Inv, BackendsInv, OneBuilder, Types, Cached
  <2>4. \A u \in Tasks : Cached(u)' => task'[u].slot # 0 /\ builder'[task'[u].slot] = u
    <3> SUFFICES ASSUME NEW u \in Tasks, Cached(u)'
                 PROVE  task'[u].slot # 0 /\ builder'[task'[u].slot] = u
        OBVIOUS
    <3>1. u # t /\ task'[u] = task[u] /\ task[u].slot # 0 /\ builder[task[u].slot] = u
        BY <1>6, <2>1 DEF Inv, BackendsInv, OneBuilder
    <3>2. task[u].slot \in Slots /\ task[u].slot # s
        BY <1>1, <3>1 DEF Inv, BackendsInv, Types, Slots
    <3> QED
        BY <2>2, <3>1, <3>2
  <2> QED
      BY <2>3, <2>4 DEF OneBuilder
<1>10. SlotsInOrder'
  <2>1. \A x \in Slots : cell'[x] = (IF x = s THEN "fresh" ELSE cell[x])
      BY <1>3 DEF Inv, BackendsInv, Types
  <2>2. \A u \in Tasks : task[u].slot # 0 => task[u].slot \in Slots
      BY DEF Inv, BackendsInv, Types, Slots
  <2>3. s \in 1..slots
      BY <1>1 DEF Inv, BackendsInv, Types, Slots
  <2>4. \A x \in Slots : x > slots' => cell'[x] = "empty"
      BY <2>1, <2>3 DEF Inv, BackendsInv, SlotsInOrder, Types, Slots, handles
  <2>5. \A u \in Tasks :
          /\ At(u, "join")' => task'[u].slot # 0
          /\ At(u, "op")' => task'[u].slot # 0 /\ cell'[task'[u].slot] # "empty"
          /\ task'[u].at \in {"put", "store", "insert"} => task'[u].token # 0
    <3> SUFFICES ASSUME NEW u \in Tasks
                 PROVE  /\ At(u, "join")' => task'[u].slot # 0
                        /\ At(u, "op")' => task'[u].slot # 0 /\ cell'[task'[u].slot] # "empty"
                        /\ task'[u].at \in {"put", "store", "insert"} => task'[u].token # 0
        OBVIOUS
    <3>1. CASE u = t
        BY <1>1, <1>7, <2>1, <3>1 DEF At
    <3>2. CASE u # t
        BY <1>6, <2>1, <2>2, <3>2 DEF Inv, BackendsInv, SlotsInOrder, At
    <3> QED
        BY <3>1, <3>2
  <2> QED
      BY <2>4, <2>5 DEF SlotsInOrder
<1>11. Renewing'
    BY <1>6, <1>7 DEF Inv, BackendsInv, Renewing, At, Building
<1>12. WatchersBuild'
    BY <1>6, <1>7 DEF Inv, WatchersBuild, BackendsInv, Types
<1> QED
    BY <1>8, <1>9, <1>10, <1>11, <1>12 DEF Inv, BackendsInv

(* A new slot is put in the cache, and its maker goes to join it.          *)
LEMMA Making == Inv /\ (\E t \in Tasks : NewSlot(t)) => Inv'
<1> USE BackendsBoundAssumption, TasksAssumption
<1> SUFFICES ASSUME Inv, NEW t \in Tasks, NewSlot(t) PROVE Inv'
    OBVIOUS
<1>1. /\ slots \in Nat /\ slots' = slots + 1 /\ slots' \in 1..MaxSlots /\ cache' = slots'
      /\ cache \in 0..slots
    BY DEF Inv, BackendsInv, Types, NewSlot
<1>2. UNCHANGED <<scenario, honoured, minted, row, vault, cell, spoiled, builder, calls, mishaps>>
    BY DEF NewSlot, remote, account, budget
<1>3. \A u \in Tasks : task[u] \in TaskRecords(slots', minted')
    BY <1>1, <1>2 DEF Inv, BackendsInv, Types, TaskRecords
<1>4. /\ task'[t].at = "join" /\ task'[t].slot = slots' /\ task'[t].kind = task[t].kind
      /\ task'[t].retry = task[t].retry /\ task'[t].since = task[t].since
      /\ task'[t] \in TaskRecords(slots', minted')
      /\ task[t].at = "lookup"
    BY <1>1, <1>2, <1>3 DEF Inv, BackendsInv, Types, NewSlot, TaskRecords, Steps, At
<1>5. \A u \in Tasks : u # t => task'[u] = task[u]
    BY DEF Inv, BackendsInv, Types, NewSlot
<1>6. Types'
  <2>1. task' \in [Tasks -> TaskRecords(slots', minted')]
      BY <1>3, <1>4, <1>5 DEF NewSlot, Inv, BackendsInv, Types
  <2> QED
      BY <1>1, <1>2, <2>1 DEF Inv, BackendsInv, Types, TaskRecords
<1>7. OneBuilder'
  <2>1. ~Cached(t) /\ ~Cached(t)'
      BY <1>4 DEF Cached, Building
  <2>2. \A x \in Slots : builder'[x] = builder[x] /\ cell'[x] = cell[x]
                        /\ builder[x] \in Tasks \cup {None}
      BY <1>2 DEF Inv, BackendsInv, Types
  <2>3. \A x \in Slots : builder'[x] # None =>
            Cached(builder[x])' /\ task'[builder'[x]].slot = x /\ cell'[x] = "empty"
      BY <1>5, <2>1, <2>2 DEF Inv, BackendsInv, OneBuilder, Cached
  <2>4. \A u \in Tasks : Cached(u)' => task'[u].slot # 0 /\ builder'[task'[u].slot] = u
      BY <1>2, <1>5, <2>1 DEF Inv, BackendsInv, OneBuilder, Cached
  <2> QED
      BY <2>2, <2>3, <2>4 DEF OneBuilder
<1>8. SlotsInOrder'
  <2>1. \A x \in Slots : x > slots' => cell'[x] = "empty"
      BY <1>1, <1>2 DEF Inv, BackendsInv, SlotsInOrder, Slots
  <2>2. \A u \in Tasks : u # t =>
          /\ At(u, "join")' => task'[u].slot # 0
          /\ At(u, "op")' => task'[u].slot # 0 /\ cell'[task'[u].slot] # "empty"
          /\ task'[u].at \in {"put", "store", "insert"} => task'[u].token # 0
      BY <1>2, <1>5 DEF Inv, BackendsInv, SlotsInOrder, At
  <2>3. task'[t].slot # 0
      BY <1>1, <1>4
  <2> QED
      BY <1>4, <2>1, <2>2, <2>3 DEF SlotsInOrder, At
<1>9. Renewing'
  <2>1. task[t].retry => task[t].since \in 0..slots
      BY DEF Inv, BackendsInv, Types
  <2>2. task'[t].retry => task'[t].slot > task'[t].since
      BY <1>1, <1>4, <2>1
  <2>3. \A u \in Tasks : task[u].since \in 0..slots
      BY DEF Inv, BackendsInv, Types
  <2>4. \A u \in Tasks : u # t /\ task'[u].retry =>
          /\ task'[u].at \in {"join", "op"} \cup Building => task'[u].slot > task'[u].since
          /\ At(u, "lookup")' => cache' = 0 \/ cache' > task'[u].since
      BY <1>1, <1>5, <2>3 DEF Inv, BackendsInv, Renewing, At
  <2> QED
      BY <1>4, <2>2, <2>4 DEF Renewing, At
<1>10. WatchersBuild'
    BY <1>4, <1>5 DEF Inv, WatchersBuild, Building
<1> QED
    BY <1>6, <1>7, <1>8, <1>9, <1>10 DEF Inv, BackendsInv

(* An empty cell that nobody builds gets its builder.                      *)
LEMMA Joining == Inv /\ (\E t \in Tasks : Join(t)) => Inv'
<1> USE BackendsBoundAssumption, TasksAssumption
<1> SUFFICES ASSUME Inv, NEW t \in Tasks, Join(t) PROVE Inv'
    OBVIOUS
<1> DEFINE s == task[t].slot
<1>0. task[t].at = "join" /\ s \in 0..slots /\ slots \in 0..MaxSlots
    BY DEF Inv, BackendsInv, Types, Join, At
<1>1. s # 0 /\ s \in Slots /\ task[t].kind # "watcher" /\ task[t].at = "join"
  <2>1. s # 0
      BY <1>0 DEF Inv, BackendsInv, SlotsInOrder, At
  <2>2. s \in Slots
      BY <1>0, <2>1 DEF Slots
  <2>3. task[t].kind # "watcher"
      BY <1>0 DEF Inv, WatchersBuild, Building
  <2> QED
      BY <1>0, <2>1, <2>2, <2>3
<1>2. UNCHANGED <<scenario, honoured, minted, row, vault, cache, slots, cell, spoiled, calls, mishaps>>
    BY DEF Join, remote, account, budget
<1>3. CASE cell[s] # "empty" /\ Go(t, "op") /\ UNCHANGED builder
  <2> DEFINE r == [task[t] EXCEPT !.at = "op"]
  <2>1. r \in TaskRecords(slots, minted')
      BY <1>2 DEF Inv, BackendsInv, Types, TaskRecords, Steps
  <2>2. Fits(r)
      BY <1>1, <1>3 DEF Inv, BackendsInv, Types, Renewing, Fits, At
  <2>3. ~Builds(r) /\ ~Builds(task[t])
      BY <1>1 DEF Builds, Building, Inv, BackendsInv, Types
  <2>4. task' = [task EXCEPT ![t] = r]
      BY <1>3 DEF Go
  <2>5. minted' \in minted..MaxTokens /\ vault' \in 0..minted' /\ honoured' \subseteq 1..minted'
      BY <1>2 DEF Inv, BackendsInv, Types
  <2>6. row' \in BOOLEAN /\ calls' \in 0..scenario.calls /\ mishaps' \in 0..scenario.mishaps
      BY <1>2 DEF Inv, BackendsInv, Types
  <2> HIDE DEF r
  <2> QED
      BY <1>2, <1>3, <2>1, <2>2, <2>3, <2>4, <2>5, <2>6, KeepsSlots
<1>4. CASE /\ cell[s] = "empty" /\ builder[s] = None
           /\ builder' = [builder EXCEPT ![s] = t] /\ Go(t, "load")
  <2>1. /\ task'[t].at = "load" /\ task'[t].slot = s /\ task'[t].kind = task[t].kind
        /\ task'[t].retry = task[t].retry /\ task'[t].since = task[t].since
        /\ task'[t] \in TaskRecords(slots', minted')
      BY <1>2, <1>4 DEF Inv, BackendsInv, Types, Go, TaskRecords, Steps, Building
  <2>2. \A u \in Tasks : u # t => task'[u] = task[u]
      BY <1>4 DEF Inv, BackendsInv, Types, Go
  <2>3. Types'
    <3>1. task' \in [Tasks -> TaskRecords(slots', minted')]
        BY <1>2, <1>4, <2>1, <2>2 DEF Go, Inv, BackendsInv, Types, TaskRecords
    <3> QED
        BY <1>1, <1>2, <1>4, <3>1 DEF Inv, BackendsInv, Types, TaskRecords
  <2>4. OneBuilder'
    <3>1. \A x \in Slots : builder'[x] = (IF x = s THEN t ELSE builder[x])
        BY <1>4 DEF Inv, BackendsInv, Types
    <3>2. \A x \in Slots : builder'[x] # None =>
              Cached(builder[x])' /\ task'[builder'[x]].slot = x /\ cell'[x] = "empty"
        BY <1>1, <1>2, <1>4, <2>1, <2>2, <3>1
        DEF Inv, BackendsInv, OneBuilder, Types, Cached, Building
    <3>3. \A u \in Tasks : Cached(u)' => task'[u].slot # 0 /\ builder'[task'[u].slot] = u
      <4> SUFFICES ASSUME NEW u \in Tasks, Cached(u)', u # t
                   PROVE  task'[u].slot # 0 /\ builder'[task'[u].slot] = u
          BY <1>1, <2>1, <3>1
      <4>1. task'[u] = task[u] /\ task[u].slot # 0 /\ builder[task[u].slot] = u
          BY <2>2 DEF Inv, BackendsInv, OneBuilder, Cached
      <4>2. task[u].slot \in Slots /\ task[u].slot # s
          BY <1>4, <4>1 DEF Inv, BackendsInv, Types, Slots
      <4> QED
          BY <3>1, <4>1, <4>2
    <3> QED
        BY <3>2, <3>3 DEF OneBuilder
  <2>5. SlotsInOrder'
      BY <1>2, <2>1, <2>2 DEF Inv, BackendsInv, SlotsInOrder, At
  <2>6. Renewing'
      BY <1>1, <1>2, <2>1, <2>2 DEF Inv, BackendsInv, Renewing, At, Building
  <2>7. WatchersBuild'
      BY <2>1, <2>2 DEF Inv, WatchersBuild, Building
  <2> QED
      BY <2>3, <2>4, <2>5, <2>6, <2>7 DEF Inv, BackendsInv
<1> QED
    BY <1>3, <1>4 DEF Join

(* Time passes for a session.                                              *)
LEMMA Ageing == Inv /\ (\E s \in Slots : Age(s) \/ Expire(s) \/ Spoil(s)) => Inv'
<1> USE BackendsBoundAssumption, TasksAssumption
<1> SUFFICES ASSUME Inv, NEW s \in Slots, Age(s) \/ Expire(s) \/ Spoil(s) PROVE Inv'
    OBVIOUS
<1>1. /\ UNCHANGED <<scenario, honoured, minted, row, vault, cache, slots, builder, task, calls>>
      /\ spoiled' \subseteq Slots /\ mishaps' \in 0..scenario'.mishaps
    BY ScenariosAssumption
    DEF Age, Expire, Spoil, Mishap, remote, account, budget, Inv, BackendsInv, Types
<1>2. /\ cell' \in [Slots -> {"empty", "fresh", "aged"}]
      /\ \A x \in Slots : cell'[x] = "empty" <=> cell[x] = "empty"
    BY DEF Age, Expire, Spoil, remote, account, budget, Inv, BackendsInv, Types
<1>3. Types'
    BY <1>1, <1>2 DEF Inv, BackendsInv, Types
<1>4. OneBuilder'
    BY <1>1, <1>2 DEF Inv, BackendsInv, OneBuilder, Cached
<1>5. SlotsInOrder'
  <2>1. \A u \in Tasks : task[u].slot # 0 => task[u].slot \in Slots
      BY DEF Inv, BackendsInv, Types, Slots
  <2> QED
      BY <1>1, <1>2, <2>1 DEF Inv, BackendsInv, SlotsInOrder, At
<1>6. Renewing' /\ WatchersBuild'
    BY <1>1 DEF Inv, BackendsInv, Renewing, WatchersBuild, At
<1> QED
    BY <1>3, <1>4, <1>5, <1>6 DEF Inv, BackendsInv

-----------------------------------------------------------------------------
(* What a step may do to the rest.                                         *)
Ledger ==
    /\ row' \in BOOLEAN
    /\ minted' \in minted..MaxTokens /\ vault' \in 0..minted' /\ honoured' \subseteq 1..minted'
    /\ calls' \in 0..scenario.calls /\ mishaps' \in 0..scenario.mishaps

Elsewhere == Steps \ (Building \cup {"join", "op", "lookup"})

(* A step of a call to a point where it uses no slot.                      *)
LEMMA Leaving ==
    ASSUME Inv, NEW t \in Tasks, NEW r \in TaskRecords(slots, minted'),
           task' = [task EXCEPT ![t] = r],
           UNCHANGED <<scenario, slots, cell, builder, spoiled>>, cache' \in {0, cache},
           Ledger,
           r.at \in Elsewhere, r.kind # "watcher", ~Builds(task[t]),
           r.at \in {"store", "insert"} => r.token # 0
    PROVE  Inv'
<1>1. Fits(r) /\ ~Builds(r)
    BY DEF Fits, Builds, Elsewhere, Building
<1> QED
    BY <1>1, KeepsSlots DEF Ledger

(* A step of a refresh.                                                    *)
LEMMA Proceeding ==
    ASSUME Inv, NEW t \in Tasks, NEW at \in Building, NEW token \in 0..minted',
           task' = [task EXCEPT ![t] = [task[t] EXCEPT !.at = at, !.token = token]],
           UNCHANGED <<scenario, slots, cell, builder, spoiled, cache>>,
           Ledger,
           task[t].at \in Building,
           at = "put" => token # 0
    PROVE  Inv'
<1> DEFINE r == [task[t] EXCEPT !.at = at, !.token = token]
<1>1. task[t] \in TaskRecords(slots, minted) /\ minted' \in Nat /\ minted' >= minted
    BY BackendsBoundAssumption DEF Inv, BackendsInv, Types, TaskRecords, Ledger
<1>2. r \in TaskRecords(slots, minted')
    BY <1>1 DEF TaskRecords, Building, Steps
<1>3. /\ r.at = at /\ r.token = token /\ r.slot = task[t].slot /\ r.kind = task[t].kind
      /\ r.retry = task[t].retry /\ r.since = task[t].since
    BY <1>1 DEF TaskRecords
<1>4. Fits(r)
    BY <1>3 DEF Fits, Building, Inv, BackendsInv, Renewing
<1>5. Builds(r) <=> Builds(task[t])
    BY <1>3 DEF Builds
<1>6. task' = [task EXCEPT ![t] = r]
    OBVIOUS
<1> HIDE DEF r
<1> QED
    BY <1>2, <1>3, <1>4, <1>5, <1>6, KeepsSlots DEF Ledger

LEMMA Quiet == Inv /\ UNCHANGED <<remote, account>> /\ (UNCHANGED budget \/ Mishap) => Ledger
<1> SUFFICES ASSUME Inv, UNCHANGED <<remote, account>>, UNCHANGED budget \/ Mishap PROVE Ledger
    OBVIOUS
<1>1. scenario \in Scenarios /\ scenario.mishaps \in Nat /\ scenario.calls \in Nat
    BY ScenariosAssumption DEF Inv, BackendsInv, Types
<1>2. calls' \in 0..scenario.calls /\ mishaps' \in 0..scenario.mishaps
    BY <1>1 DEF Inv, BackendsInv, Types, budget, Mishap
<1> QED
    BY <1>2, BackendsBoundAssumption DEF Ledger, remote, account, Inv, BackendsInv, Types

(* A call starts.                                                          *)
LEMMA Starting == Inv /\ (\E t \in Tasks : \E kind \in Kinds : Call(t, kind)) => Inv'
<1> SUFFICES ASSUME Inv, NEW t \in Tasks, NEW kind \in Kinds, Call(t, kind) PROVE Inv'
    OBVIOUS
<1> DEFINE r == [Idle EXCEPT !.kind = kind, !.at = FirstStep(kind)]
<1>1. /\ r.kind = kind /\ r.slot = 0 /\ r.token = 0 /\ r.retry = FALSE /\ r.since = 0
      /\ r.at = FirstStep(kind)
    BY DEF Idle
<1>2. /\ FirstStep(kind) \in {"lookup", "load", "authorize", "check"}
      /\ kind = "watcher" => FirstStep(kind) = "load"
      /\ kind # "watcher" => FirstStep(kind) # "load"
    BY DEF FirstStep, Kinds
<1>3. r \in TaskRecords(slots, minted')
  <2>1. 0 \in 0..slots /\ 0 \in 0..minted'
      BY BackendsBoundAssumption DEF Call, remote, Inv, BackendsInv, Types
  <2>2. FirstStep(kind) \in Steps
      BY <1>2 DEF Steps, Building
  <2>3. Idle \in TaskRecords(slots, minted')
      BY <2>1 DEF TaskRecords, Idle, Kinds, Steps
  <2> QED
      BY <2>1, <2>2, <2>3 DEF TaskRecords
<1>4. Fits(r) /\ ~Builds(r)
    BY <1>1, <1>2 DEF Fits, Builds, Building
<1>5. ~Builds(task[t])
    BY DEF Call, At, Builds, Building
<1>6. Ledger
  <2>1. scenario \in Scenarios /\ scenario.calls \in Nat /\ calls \in 0..scenario.calls
        /\ calls < scenario.calls /\ calls' = calls + 1
      BY ScenariosAssumption DEF Inv, BackendsInv, Types, Call
  <2>2. UNCHANGED <<row, vault, honoured, minted, mishaps>>
      BY DEF Call, remote, account
  <2> QED
      BY <2>1, <2>2, BackendsBoundAssumption DEF Ledger, Inv, BackendsInv, Types
<1>7. /\ task' = [task EXCEPT ![t] = r]
      /\ UNCHANGED <<scenario, slots, cell, builder, spoiled, cache>>
    BY DEF Call, remote, handles
<1> HIDE DEF r
<1> QED
    BY <1>3, <1>4, <1>5, <1>6, <1>7, KeepsSlots DEF Ledger

(* The cache is asked, and has a session or one that is being made.        *)
LEMMA Finding == Inv /\ (\E t \in Tasks : UseCached(t) \/ ShareSlot(t)) => Inv'
<1> SUFFICES ASSUME Inv, NEW t \in Tasks, UseCached(t) \/ ShareSlot(t) PROVE Inv'
    OBVIOUS
<1> DEFINE at == IF cell[cache] = "fresh" THEN "op" ELSE "join"
           r == [task[t] EXCEPT !.slot = cache, !.at = at]
<1>1. UNCHANGED <<remote, account, handles, budget>> /\ cache # 0 /\ task[t].at = "lookup"
    BY DEF UseCached, ShareSlot, At
<1>2. task' = [task EXCEPT ![t] = r]
    BY DEF UseCached, ShareSlot
<1>3. task[t] \in TaskRecords(slots, minted) /\ cache \in 0..slots
    BY DEF Inv, BackendsInv, Types, TaskRecords
<1>4. r \in TaskRecords(slots, minted')
    BY <1>1, <1>3 DEF TaskRecords, Steps, remote
<1>5. /\ r.at = at /\ r.slot = cache /\ r.kind = task[t].kind
      /\ r.retry = task[t].retry /\ r.since = task[t].since
    BY <1>3 DEF TaskRecords
<1>6. task[t].kind # "watcher" /\ ~Builds(task[t]) /\ ~Builds(r)
    BY <1>1, <1>5 DEF Inv, WatchersBuild, Builds, Building
<1>7. Fits(r)
    BY <1>1, <1>5, <1>6 DEF Fits, Inv, BackendsInv, Renewing, At, Building
<1>8. Ledger
    BY <1>1, Quiet
<1>9. UNCHANGED <<scenario, slots, cell, builder, spoiled, cache>>
    BY <1>1 DEF remote, handles
<1> HIDE DEF r
<1> QED
    BY <1>2, <1>4, <1>6, <1>7, <1>8, <1>9, KeepsSlots DEF Ledger

(* A refresh goes on, ends, or fails.                                      *)
LEMMA Refreshing ==
    Inv /\ (\E t \in Tasks : Load(t) \/ Read(t) \/ Post(t) \/ Put(t) \/ Dial(t) \/ RefreshFails(t))
    => Inv'
<1> SUFFICES ASSUME Inv, NEW t \in Tasks,
                    Load(t) \/ Read(t) \/ Post(t) \/ Put(t) \/ Dial(t) \/ RefreshFails(t)
             PROVE  Inv'
    OBVIOUS
<1> USE BackendsBoundAssumption
<1>0. /\ minted \in 0..MaxTokens /\ vault \in 0..minted /\ honoured \subseteq 1..minted
      /\ row \in BOOLEAN
      /\ calls \in 0..scenario.calls /\ mishaps \in 0..scenario.mishaps
      /\ task[t] \in TaskRecords(slots, minted)
    BY DEF Inv, BackendsInv, Types, TaskRecords
<1>1. UNCHANGED budget \/ Mishap
    BY DEF Load, Read, Post, Put, Dial, RefreshFails
<1>2. UNCHANGED calls /\ calls' \in 0..scenario.calls /\ mishaps' \in 0..scenario.mishaps
  <2>1. scenario \in Scenarios /\ scenario.mishaps \in Nat
      BY ScenariosAssumption DEF Inv, BackendsInv, Types
  <2> QED
      BY <1>0, <1>1, <2>1 DEF budget, Mishap
<1>3. task[t].at \in Building
    BY DEF Load, Read, Post, Put, Dial, RefreshFails, At, Building
<1>4. Rotate(t) =>
        /\ minted' = minted + 1 /\ minted' \in minted..MaxTokens /\ honoured' \subseteq 1..minted'
        /\ UNCHANGED scenario
  <2> SUFFICES ASSUME Rotate(t)
               PROVE  /\ minted' = minted + 1 /\ minted' \in minted..MaxTokens
                      /\ honoured' \subseteq 1..minted' /\ UNCHANGED scenario
      OBVIOUS
  <2>1. minted' = minted + 1 /\ minted \in Nat /\ minted < MaxTokens /\ UNCHANGED scenario
      BY <1>0 DEF Rotate
  <2>2. minted' \in minted..MaxTokens
      BY <2>1
  <2>3. honoured' \subseteq honoured \cup {minted'}
      BY <2>1 DEF Rotate
  <2>4. honoured \subseteq 1..minted'
      BY <1>0, <2>1
  <2>5. minted' \in 1..minted'
      BY <2>1
  <2> QED
      BY <2>1, <2>2, <2>3, <2>4, <2>5
<1>5. CASE /\ builder' = Released(t) /\ Done(t)
           /\ UNCHANGED <<account, cache, slots, cell, spoiled>>
           /\ UNCHANGED remote \/ Rotate(t)
  <2>1. UNCHANGED <<scenario, row, vault, cache, slots, cell, spoiled>>
      BY <1>4, <1>5 DEF account, remote
  <2>2. minted' \in minted..MaxTokens /\ honoured' \subseteq 1..minted'
    <3>1. minted \in minted..MaxTokens
        BY <1>0
    <3> QED
        BY <1>0, <1>4, <1>5, <3>1 DEF remote
  <2> QED
      BY <1>2, <1>5, <2>1, <2>2, Ending
<1>6. CASE /\ At(t, "dial") /\ task[t].kind # "watcher" /\ Ready(t) /\ Go(t, "op")
           /\ UNCHANGED <<remote, account, cache, slots, spoiled, budget>>
    BY <1>6, Filling
<1>7. CASE /\ At(t, "dial") /\ task[t].kind = "watcher" /\ Done(t)
           /\ UNCHANGED <<remote, account, handles, budget>>
  <2>1. Idle \in TaskRecords(slots, minted')
    <3>1. 0 \in 0..slots /\ 0 \in 0..minted'
        BY <1>7 DEF remote, Inv, BackendsInv, Types
    <3> QED
        BY <3>1 DEF TaskRecords, Idle, Kinds, Steps
  <2>2. task' = [task EXCEPT ![t] = Idle]
      BY <1>7 DEF Done
  <2>3. Ledger
      BY <1>7, Quiet
  <2>4. Idle.at \in Elsewhere /\ Idle.kind # "watcher" /\ Idle.at \notin {"store", "insert"}
      BY DEF Idle, Elsewhere, Steps, Building
  <2>5. ~Builds(task[t])
      BY <1>7 DEF Builds
  <2>6. UNCHANGED <<scenario, slots, cell, builder, spoiled, cache>>
      BY <1>7 DEF remote, handles
  <2> QED
      BY <2>1, <2>2, <2>3, <2>4, <2>5, <2>6, Leaving
<1>8. CASE \E at \in Building, token \in 0..minted' :
              /\ task' = [task EXCEPT ![t] = [task[t] EXCEPT !.at = at, !.token = token]]
              /\ at = "put" => token # 0
              /\ UNCHANGED <<handles, row>>
              /\ UNCHANGED remote \/ Rotate(t)
              /\ vault' \in 0..minted'
  <2> PICK at \in Building, token \in 0..minted' :
              /\ task' = [task EXCEPT ![t] = [task[t] EXCEPT !.at = at, !.token = token]]
              /\ at = "put" => token # 0
              /\ UNCHANGED <<handles, row>>
              /\ UNCHANGED remote \/ Rotate(t)
              /\ vault' \in 0..minted'
      BY <1>8
  <2>1. Ledger
      BY <1>0, <1>2, <1>4 DEF Ledger, remote
  <2>2. UNCHANGED <<scenario, slots, cell, builder, spoiled, cache>>
      BY <1>4 DEF remote, handles
  <2> QED
      BY <1>3, <2>1, <2>2, Proceeding
<1>9. \A at \in Building :
         Go(t, at) => task' = [task EXCEPT ![t] = [task[t] EXCEPT !.at = at, !.token = task[t].token]]
    BY <1>0 DEF Go, TaskRecords
<1>10. ASSUME NEW at \in Building, Go(t, at), UNCHANGED <<remote, handles, row>>,
              vault' \in 0..minted, at # "put"
       PROVE  Inv'
  <2>1. task[t].token \in 0..minted' /\ minted' = minted
      BY <1>0, <1>10 DEF TaskRecords, remote
  <2> QED
      BY <1>8, <1>9, <1>10, <2>1
<1>11. ASSUME Load(t) PROVE Inv'
  <2>1. CASE row /\ Go(t, "read") /\ UNCHANGED <<remote, account, handles>>
      BY <1>0, <1>10, <2>1 DEF Building, account
  <2>2. CASE ~row /\ Fail(t)
      BY <1>5, <2>2 DEF Fail
  <2> QED
      BY <1>11, <2>1, <2>2 DEF Load
<1>12. ASSUME Read(t) PROVE Inv'
  <2>1. CASE /\ vault # 0 /\ UNCHANGED <<remote, account, handles>>
             /\ task' = [task EXCEPT ![t].token = vault, ![t].at = "post"]
    <3>1. task' = [task EXCEPT ![t] = [task[t] EXCEPT !.at = "post", !.token = vault]]
        BY <1>0, <2>1 DEF Inv, BackendsInv, Types
    <3>2. vault \in 0..minted' /\ vault' \in 0..minted' /\ "post" \in Building /\ UNCHANGED row
        BY <1>0, <2>1 DEF remote, account, Building
    <3> QED
        BY <1>8, <2>1, <3>1, <3>2
  <2>2. CASE vault = 0 /\ Fail(t)
      BY <1>5, <2>2 DEF Fail
  <2> QED
      BY <1>12, <2>1, <2>2 DEF Read
<1>13. ASSUME Post(t) PROVE Inv'
  <2>1. CASE Fail(t)
      BY <1>5, <2>1 DEF Fail
  <2>2. CASE Go(t, "dial") /\ UNCHANGED <<remote, account, handles>>
      BY <1>0, <1>10, <2>2 DEF Building, account
  <2>3. CASE /\ Rotate(t) /\ UNCHANGED <<account, handles>>
             /\ task' = [task EXCEPT ![t].token = minted + 1, ![t].at = "put"]
    <3>1. task' = [task EXCEPT ![t] = [task[t] EXCEPT !.at = "put", !.token = minted + 1]]
        BY <1>0, <2>3 DEF Inv, BackendsInv, Types
    <3>2. /\ minted + 1 \in 0..minted' /\ vault' \in 0..minted' /\ "put" \in Building
          /\ UNCHANGED row /\ minted + 1 # 0
        BY <1>0, <1>4, <2>3 DEF account, Building
    <3> QED
        BY <1>8, <2>3, <3>1, <3>2
  <2> QED
      BY <1>13, <2>1, <2>2, <2>3 DEF Post
<1>14. ASSUME Put(t) PROVE Inv'
    BY <1>0, <1>10, <1>14 DEF Put, Building, TaskRecords
<1>15. ASSUME Dial(t) PROVE Inv'
    BY <1>5, <1>6, <1>7, <1>15 DEF Dial, Fail, handles
<1>16. ASSUME RefreshFails(t) PROVE Inv'
  <2>1. CASE Fail(t)
      BY <1>5, <2>1 DEF Fail
  <2>2. CASE /\ Rotate(t) /\ builder' = Released(t) /\ Done(t)
             /\ UNCHANGED <<account, cache, slots, cell, spoiled>>
      BY <1>5, <2>2
  <2>3. CASE Go(t, "dial") /\ UNCHANGED <<remote, account, handles>>
      BY <1>0, <1>10, <2>3 DEF Building, account
  <2> QED
      BY <1>16, <2>1, <2>2, <2>3 DEF RefreshFails
<1> QED
    BY <1>11, <1>12, <1>13, <1>14, <1>15, <1>16

(* The record of a call that is over, or at another point.                 *)
LEMMA Records ==
    ASSUME Inv, NEW t \in Tasks, minted' \in minted..MaxTokens
    PROVE  /\ Idle \in TaskRecords(slots, minted')
           /\ task[t] \in TaskRecords(slots, minted) /\ task[t] \in TaskRecords(slots, minted')
           /\ \A at \in Steps : [task[t] EXCEPT !.at = at] \in TaskRecords(slots, minted')
<1>1. minted \in Nat /\ minted' \in Nat /\ minted <= minted' /\ slots \in Nat
    BY BackendsBoundAssumption DEF Inv, BackendsInv, Types
<1>2. task[t] \in TaskRecords(slots, minted)
    BY DEF Inv, BackendsInv, Types, TaskRecords
<1>3. task[t] \in TaskRecords(slots, minted')
    BY <1>1, <1>2 DEF TaskRecords
<1>4. Idle \in TaskRecords(slots, minted')
    BY <1>1 DEF TaskRecords, Idle, Kinds, Steps
<1> QED
    BY <1>2, <1>3, <1>4 DEF TaskRecords

(* A step of one that is no watcher, to a point where it uses no slot.     *)
LEMMA Moving ==
    ASSUME Inv, NEW t \in Tasks, NEW at \in Elsewhere, Go(t, at),
           task[t].at \notin Building,
           at \in {"store", "insert"} => task[t].token # 0,
           UNCHANGED <<scenario, slots, cell, builder, spoiled>>, cache' \in {0, cache},
           Ledger
    PROVE  Inv'
<1> DEFINE r == [task[t] EXCEPT !.at = at]
<1>1. minted' \in minted..MaxTokens
    BY DEF Ledger
<1>2. task[t] \in TaskRecords(slots, minted) /\ r \in TaskRecords(slots, minted')
    BY <1>1, Records DEF Elsewhere
<1>3. r.at = at /\ r.token = task[t].token /\ r.kind = task[t].kind
    BY <1>2 DEF TaskRecords
<1>4. task' = [task EXCEPT ![t] = r]
    BY DEF Go
<1>5. r.kind # "watcher" /\ ~Builds(task[t])
    BY <1>3 DEF Inv, WatchersBuild, Builds
<1> HIDE DEF r
<1> QED
    BY <1>2, <1>3, <1>4, <1>5, Leaving

LEMMA Stopping ==
    ASSUME Inv, NEW t \in Tasks, Done(t), task[t].at \notin Building,
           UNCHANGED <<scenario, slots, cell, builder, spoiled>>, cache' \in {0, cache},
           Ledger
    PROVE  Inv'
<1>1. Idle \in TaskRecords(slots, minted')
    BY Records DEF Ledger
<1>2. task' = [task EXCEPT ![t] = Idle]
    BY DEF Done
<1>3. Idle.at \in Elsewhere /\ Idle.kind # "watcher" /\ Idle.at \notin {"store", "insert"}
    BY DEF Idle, Elsewhere, Steps, Building
<1>4. ~Builds(task[t])
    BY DEF Builds
<1> QED
    BY <1>1, <1>2, <1>3, <1>4, Leaving

(* The session is used, and given up.                                      *)
LEMMA Using == Inv /\ (\E t \in Tasks : Operate(t) \/ Refused(t) \/ Evict(t)) => Inv'
<1> SUFFICES ASSUME Inv, NEW t \in Tasks, Operate(t) \/ Refused(t) \/ Evict(t) PROVE Inv'
    OBVIOUS
<1>1. /\ UNCHANGED <<remote, account, budget>> /\ cache' \in {0, cache}
      /\ UNCHANGED <<slots, cell, spoiled, builder, scenario>>
    BY DEF Operate, Refused, Evict, handles, remote
<1>2. Ledger
    BY <1>1, Quiet
<1>3. minted' \in minted..MaxTokens
    BY <1>2 DEF Ledger
<1>4. task[t].at \in {"op", "evict"} /\ task[t].at \notin Building
    BY DEF Operate, Refused, Evict, At, Building
<1>5. CASE Done(t)
    BY <1>1, <1>2, <1>4, <1>5, Stopping
<1>6. CASE task' = [task EXCEPT ![t].at = "evict", ![t].retry = TRUE, ![t].since = slots]
  <2> DEFINE r == [task[t] EXCEPT !.at = "evict", !.retry = TRUE, !.since = slots]
  <2>1. task[t] \in TaskRecords(slots, minted')
      BY <1>3, Records
  <2>2. slots \in 0..slots
      BY BackendsBoundAssumption DEF Inv, BackendsInv, Types
  <2>3. r \in TaskRecords(slots, minted')
      BY <2>1, <2>2 DEF TaskRecords, Steps
  <2>4. r.at = "evict" /\ r.kind = task[t].kind
      BY <2>1 DEF TaskRecords
  <2>5. task' = [task EXCEPT ![t] = r]
      BY <1>6 DEF Inv, BackendsInv, Types
  <2>6. r.at \in Elsewhere /\ r.at \notin {"store", "insert"} /\ r.kind # "watcher"
      BY <1>4, <2>4 DEF Elsewhere, Steps, Building, Inv, WatchersBuild
  <2>7. ~Builds(task[t])
      BY <1>4 DEF Builds
  <2> HIDE DEF r
  <2> QED
      BY <1>1, <1>2, <2>3, <2>5, <2>6, <2>7, Leaving
<1>7. CASE cache' = 0 /\ Go(t, "lookup")
  <2> DEFINE r == [task[t] EXCEPT !.at = "lookup"]
  <2>1. task[t] \in TaskRecords(slots, minted') /\ r \in TaskRecords(slots, minted')
      BY <1>3, Records DEF Steps
  <2>2. r.at = "lookup" /\ r.kind = task[t].kind
      BY <2>1 DEF TaskRecords
  <2>3. task' = [task EXCEPT ![t] = r]
      BY <1>7 DEF Go
  <2>4. ~Builds(r) /\ ~Builds(task[t]) /\ r.kind # "watcher"
      BY <1>4, <2>2 DEF Builds, Building, Inv, WatchersBuild
  <2>5. Fits(r)
      BY <1>7, <2>2, <2>4 DEF Fits, Building
  <2> HIDE DEF r
  <2> QED
      BY <1>1, <1>2, <2>1, <2>3, <2>4, <2>5, KeepsSlots DEF Ledger
<1> QED
    BY <1>5, <1>6, <1>7 DEF Operate, Refused, Evict

(* The account is added.                                                   *)
LEMMA Adding ==
    Inv /\ (\E t \in Tasks : Authorize(t) \/ Insert(t) \/ Store(t) \/ StoreFails(t)) => Inv'
<1> SUFFICES ASSUME Inv, NEW t \in Tasks,
                    Authorize(t) \/ Insert(t) \/ Store(t) \/ StoreFails(t)
             PROVE  Inv'
    OBVIOUS
<1> USE BackendsBoundAssumption
<1>0. /\ minted \in 0..MaxTokens /\ vault \in 0..minted /\ honoured \subseteq 1..minted
      /\ row \in BOOLEAN
      /\ calls \in 0..scenario.calls /\ mishaps \in 0..scenario.mishaps
      /\ task[t] \in TaskRecords(slots, minted)
    BY DEF Inv, BackendsInv, Types, TaskRecords
<1>1. UNCHANGED <<slots, cell, spoiled, builder, scenario, cache>>
    BY DEF Authorize, Insert, Store, StoreFails, handles, remote
<1>2. task[t].at \in {"authorize", "insert", "store"} /\ task[t].at \notin Building
    BY DEF Authorize, Insert, Store, StoreFails, At, Building
<1>3. CASE Authorize(t)
  <2>1. UNCHANGED <<row, vault, calls, mishaps>>
      BY <1>3 DEF Authorize, account, budget
  <2>2. CASE Done(t) /\ UNCHANGED <<honoured, minted>>
    <3>1. Ledger
        BY <1>0, <2>1, <2>2 DEF Ledger
    <3> QED
        BY <1>1, <1>2, <2>2, <3>1, Stopping
  <2>3. CASE /\ minted < MaxTokens /\ minted' = minted + 1
             /\ honoured' = honoured \cup {minted + 1}
             /\ task' = [task EXCEPT ![t].token = minted + 1, ![t].at = "insert"]
    <3> DEFINE r == [task[t] EXCEPT !.token = minted + 1, !.at = "insert"]
    <3>1. minted' \in minted..MaxTokens /\ vault' \in 0..minted'
        BY <1>0, <2>1, <2>3
    <3>2. honoured' \subseteq 1..minted'
      <4>1. honoured \subseteq 1..minted' /\ minted + 1 \in 1..minted'
          BY <1>0, <2>3
      <4> QED
          BY <2>3, <4>1
    <3>3. Ledger
        BY <1>0, <2>1, <3>1, <3>2 DEF Ledger
    <3>4. task[t] \in TaskRecords(slots, minted')
        BY <3>1, Records
    <3>5. minted + 1 \in 0..minted' /\ minted + 1 # 0
        BY <1>0, <2>3
    <3>6. r \in TaskRecords(slots, minted')
        BY <3>4, <3>5 DEF TaskRecords, Steps
    <3>7. r.at = "insert" /\ r.token = minted + 1 /\ r.kind = task[t].kind
        BY <3>4 DEF TaskRecords
    <3>8. task' = [task EXCEPT ![t] = r]
        BY <2>3 DEF Inv, BackendsInv, Types
    <3>9. r.at \in Elsewhere /\ r.kind # "watcher" /\ ~Builds(task[t]) /\ r.token # 0
        BY <1>2, <3>5, <3>7 DEF Elsewhere, Steps, Building, Inv, WatchersBuild, Builds
    <3> HIDE DEF r
    <3> QED
        BY <1>1, <3>3, <3>6, <3>8, <3>9, Leaving
  <2> QED
      BY <1>3, <2>2, <2>3 DEF Authorize
<1>4. CASE Insert(t)
  <2>1. Ledger
      BY <1>0, <1>4 DEF Ledger, Insert, remote, budget
  <2>2. "store" \in Elsewhere /\ Go(t, "store")
      BY <1>4 DEF Elsewhere, Steps, Building, Insert
  <2>3. task[t].token # 0
      BY <1>4 DEF Insert, At, Inv, BackendsInv, SlotsInOrder
  <2> QED
      BY <1>1, <1>2, <2>1, <2>2, <2>3, Moving
<1>5. CASE Store(t)
  <2> DEFINE r == [Idle EXCEPT !.at = "lookup"]
  <2>1. Ledger
      BY <1>0, <1>5 DEF Ledger, Store, remote, budget, TaskRecords
  <2>2. Idle \in TaskRecords(slots, minted')
      BY <2>1, Records DEF Ledger
  <2>3. r \in TaskRecords(slots, minted')
      BY <2>2 DEF TaskRecords, Steps
  <2>4. r.at = "lookup" /\ r.kind = "caller" /\ r.retry = FALSE
      BY DEF Idle
  <2>5. Fits(r) /\ ~Builds(r) /\ ~Builds(task[t])
      BY <1>2, <2>4 DEF Fits, Builds, Building
  <2>6. task' = [task EXCEPT ![t] = r]
      BY <1>5 DEF Store
  <2> HIDE DEF r
  <2> QED
      BY <1>1, <2>1, <2>3, <2>5, <2>6, KeepsSlots DEF Ledger
<1>6. CASE StoreFails(t)
  <2>1. Ledger
      BY <1>6, Quiet DEF StoreFails
  <2> QED
      BY <1>1, <1>2, <1>6, <2>1, Stopping DEF StoreFails
<1> QED
    BY <1>3, <1>4, <1>5, <1>6

(* The account is removed.                                                 *)
LEMMA Removing ==
    Inv /\ (\E t \in Tasks : Remove(t) \/ RemoveFails(t)) => Inv'
<1> SUFFICES ASSUME Inv, NEW t \in Tasks, Remove(t) \/ RemoveFails(t) PROVE Inv'
    OBVIOUS
<1> USE BackendsBoundAssumption
<1>0. /\ minted \in 0..MaxTokens /\ vault \in 0..minted /\ honoured \subseteq 1..minted
      /\ row \in BOOLEAN
      /\ calls \in 0..scenario.calls /\ mishaps \in 0..scenario.mishaps
      /\ task[t] \in TaskRecords(slots, minted)
    BY DEF Inv, BackendsInv, Types, TaskRecords
<1> USE DEF Remove
<1>1. UNCHANGED <<slots, cell, spoiled, builder, scenario>> /\ cache' \in {0, cache}
    BY DEF Check, DropHandle, Recall, Revoke, Forget, Delete, RemoveFails, handles, remote
<1>2. task[t].at \in {"check", "drop", "recall", "revoke", "forget", "delete"}
      /\ task[t].at \notin Building
    BY DEF Check, DropHandle, Recall, Revoke, Forget, Delete, RemoveFails, At, Building
<1>3. {"drop", "recall", "revoke", "forget", "delete"} \subseteq Elsewhere
    BY DEF Elsewhere, Steps, Building
<1>4. Ledger
  <2>1. CASE RemoveFails(t)
      BY <2>1, Quiet DEF RemoveFails
  <2>2. CASE Check(t) \/ DropHandle(t) \/ Recall(t)
      BY <2>2, Quiet DEF Check, DropHandle, Recall
  <2>3. CASE Revoke(t) \/ Forget(t) \/ Delete(t)
    <3>1. UNCHANGED <<minted, calls, mishaps>> /\ honoured' \subseteq honoured
          /\ vault' \in {0, vault} /\ row' \in {FALSE, row}
        BY <2>3 DEF Revoke, Forget, Delete, remote, account, budget
    <3>2. minted \in Nat /\ minted \in minted..MaxTokens /\ 0 \in 0..minted
        BY <1>0
    <3> QED
        BY <1>0, <3>1, <3>2 DEF Ledger
  <2> QED
      BY <2>1, <2>2, <2>3
<1>5. CASE Done(t)
    BY <1>1, <1>2, <1>4, <1>5, Stopping
<1>6. CASE \E at \in {"drop", "recall", "revoke", "forget", "delete"} : Go(t, at)
    BY <1>1, <1>2, <1>3, <1>4, <1>6, Moving
<1>7. CASE Recall(t)
  <2> DEFINE at == IF vault = 0 THEN "forget" ELSE "revoke"
             r == [task[t] EXCEPT !.token = vault, !.at = at]
  <2>1. task[t] \in TaskRecords(slots, minted') /\ vault \in 0..minted'
      BY <1>0, <1>7, Records DEF Recall, remote
  <2>2. r \in TaskRecords(slots, minted')
      BY <2>1 DEF TaskRecords, Steps
  <2>3. r.at = at /\ r.kind = task[t].kind
      BY <2>1 DEF TaskRecords
  <2>4. task' = [task EXCEPT ![t] = r]
      BY <1>7 DEF Recall, Inv, BackendsInv, Types
  <2>5. r.at \in Elsewhere /\ r.at \notin {"store", "insert"} /\ r.kind # "watcher"
      BY <1>2, <1>3, <2>3 DEF Inv, WatchersBuild
  <2>6. ~Builds(task[t])
      BY <1>2 DEF Builds
  <2> HIDE DEF r
  <2> QED
      BY <1>1, <1>4, <2>2, <2>4, <2>5, <2>6, Leaving
<1> QED
    BY <1>5, <1>6, <1>7 DEF Check, DropHandle, Revoke, Forget, Delete, RemoveFails

-----------------------------------------------------------------------------
LEMMA BackendsStart == Init => Inv
<1> SUFFICES ASSUME Init PROVE Inv
    OBVIOUS
<1> USE BackendsBoundAssumption, TasksAssumption DEF Init
<1>1. minted \in {0, 1} /\ vault = minted /\ honoured \subseteq 1..minted
    OBVIOUS
<1>2. Idle \in TaskRecords(0, minted)
    BY <1>1 DEF TaskRecords, Idle, Kinds, Steps
<1>3. calls \in 0..scenario.calls /\ mishaps \in 0..scenario.mishaps
    BY ScenariosAssumption
<1>4. Types
    BY <1>1, <1>2, <1>3 DEF Types, TaskRecords
<1>5. \A t \in Tasks : task[t].at = "idle" /\ ~task[t].retry /\ task[t].kind = "caller"
    BY DEF Idle
<1> QED
    BY <1>4, <1>5
    DEF Inv, BackendsInv, WatchersBuild, OneBuilder, SlotsInOrder, Renewing, Cached, Building, At

LEMMA BackendsStep == Inv /\ [Next]_vars => Inv'
<1> SUFFICES ASSUME Inv, [Next]_vars PROVE Inv'
    OBVIOUS
<1>1. CASE UNCHANGED vars
    BY <1>1 DEF vars, remote, account, handles, budget, Inv, BackendsInv, Types, OneBuilder,
        SlotsInOrder, Renewing, WatchersBuild, Cached, At
<1>2. CASE \E s \in Slots : Age(s) \/ Expire(s) \/ Spoil(s)
    BY <1>2, Ageing
<1>3. ASSUME NEW t \in Tasks, (\E kind \in Kinds : Call(t, kind)) \/ GetOrOpen(t) PROVE Inv'
    BY <1>3, Starting, Finding, Making, Joining DEF GetOrOpen
<1>4. ASSUME NEW t \in Tasks, Build(t) \/ RefreshFails(t) PROVE Inv'
    BY <1>4, Refreshing DEF Build
<1>5. ASSUME NEW t \in Tasks,
             Use(t) \/ Add(t) \/ Remove(t) \/ StoreFails(t) \/ RemoveFails(t)
      PROVE  Inv'
    BY <1>5, Using, Adding, Removing DEF Use, Add
<1> QED
    BY <1>1, <1>2, <1>3, <1>4, <1>5 DEF Next, Step

(* The types, one builder for each empty slot, and retries on sessions     *)
(* made after the refusal (backend_factory.rs), however calls overlap.     *)
THEOREM BackendsAlways == Spec => []Inv
<1> QED
    BY BackendsStart, BackendsStep, PTL DEF Spec

(* with_auth_retry's second attempt never runs on the refused session.     *)
THEOREM RetryAlwaysFresh == Spec => []RetryIsFresh
<1>1. Inv => RetryIsFresh
    BY DEF Inv, BackendsInv, Renewing, RetryIsFresh, At
<1> QED
    BY <1>1, BackendsAlways, PTL

-----------------------------------------------------------------------------
(* The credentials.  A token on its way to the keychain works, is not the  *)
(* one in the keychain, and nobody else holds it or is about to spend it.  *)
Holds(t) == task[t].at \in {"put", "store", "insert"}
Spends(t) == task[t].at \in {"post", "revoke"}

HeldWork == NoMishap => \A t \in Tasks : Holds(t) => task[t].token \in honoured

HeldAreNew ==
    \A t \in Tasks : Holds(t) =>
        /\ task[t].token # vault
        /\ \A u \in Tasks : u # t /\ (Holds(u) \/ Spends(u)) => task[u].token # task[t].token

Creds == HeldWork /\ HeldAreNew /\ CredentialsSurvive

(* A step that touches neither the keychain nor the provider.              *)
LEMMA Kept ==
    ASSUME Creds, NEW t \in Tasks, \A u \in Tasks : u # t => task'[u] = task[u],
           UNCHANGED <<vault, honoured>>, row' => row, NoMishap' => NoMishap,
           ~Holds(t)', Spends(t)' => task'[t].token = vault,
           row' /\ NoMishap' =>
               /\ task[t].at \notin {"put", "store"}
               /\ task[t].at \in {"forget", "delete"} => task'[t].at \in {"forget", "delete"}
    PROVE  Creds'
<1>1. \A u \in Tasks : Holds(u)' => u # t /\ Holds(u) /\ task'[u] = task[u]
    BY DEF Holds
<1>2. HeldWork'
    BY <1>1 DEF Creds, HeldWork
<1>3. HeldAreNew'
  <2> SUFFICES ASSUME NEW u \in Tasks, Holds(u)'
               PROVE  /\ task'[u].token # vault'
                      /\ \A w \in Tasks : w # u /\ (Holds(w)' \/ Spends(w)')
                                          => task'[w].token # task'[u].token
      BY DEF HeldAreNew
  <2>1. u # t /\ Holds(u) /\ task'[u] = task[u] /\ task[u].token # vault
      BY <1>1 DEF Creds, HeldAreNew
  <2>2. ASSUME NEW w \in Tasks, w # u, Holds(w)' \/ Spends(w)'
        PROVE  task'[w].token # task'[u].token
    <3>1. CASE w = t
        BY <2>1, <2>2, <3>1
    <3>2. CASE w # t
        BY <2>1, <2>2, <3>2 DEF Creds, HeldAreNew, Holds, Spends
    <3> QED
        BY <3>1, <3>2
  <2> QED
      BY <2>1, <2>2
<1>4. CredentialsSurvive'
  <2> SUFFICES ASSUME row', NoMishap'
               PROVE  \/ vault' \in honoured'
                      \/ \E u \in Tasks : task'[u].at \in {"put", "store"} /\ task'[u].token \in honoured'
                      \/ \E u \in Tasks : task'[u].at \in {"forget", "delete"}
      BY DEF CredentialsSurvive
  <2>1. CASE vault \in honoured
      BY <2>1
  <2>2. CASE \E u \in Tasks : task[u].at \in {"put", "store"} /\ task[u].token \in honoured
    <3> PICK u \in Tasks : task[u].at \in {"put", "store"} /\ task[u].token \in honoured
        BY <2>2
    <3> QED
        OBVIOUS
  <2>3. CASE \E u \in Tasks : task[u].at \in {"forget", "delete"}
    <3> PICK u \in Tasks : task[u].at \in {"forget", "delete"}
        BY <2>3
    <3> QED
        OBVIOUS
  <2> QED
      BY <2>1, <2>2, <2>3 DEF Creds, CredentialsSurvive
<1> QED
    BY <1>2, <1>3, <1>4 DEF Creds

(* What one task's step does to the others' records, and to its own.       *)
LEMMA Alone ==
    ASSUME Inv, NEW t \in Tasks
    PROVE  /\ \A r : task' = [task EXCEPT ![t] = r] =>
                  task'[t] = r /\ \A u \in Tasks : u # t => task'[u] = task[u]
           /\ \A at : Go(t, at) =>
                  /\ task'[t].at = at /\ task'[t].token = task[t].token
                  /\ \A u \in Tasks : u # t => task'[u] = task[u]
           /\ Done(t) => /\ task'[t] = Idle
                         /\ \A u \in Tasks : u # t => task'[u] = task[u]
           /\ \A token, at :
                  task' = [task EXCEPT ![t].token = token, ![t].at = at] =>
                      /\ task'[t].at = at /\ task'[t].token = token
                      /\ \A u \in Tasks : u # t => task'[u] = task[u]
           /\ \A slot, at :
                  task' = [task EXCEPT ![t].slot = slot, ![t].at = at] =>
                      /\ task'[t].at = at
                      /\ \A u \in Tasks : u # t => task'[u] = task[u]
<1>1. DOMAIN task = Tasks /\ task[t] \in TaskRecords(slots, minted)
    BY DEF Inv, BackendsInv, Types, TaskRecords
<1> QED
    BY <1>1 DEF Go, Done, TaskRecords

LEMMA NoHolder ==
    ASSUME NEW t, task[t] = Idle \/ task[t].at \notin {"put", "store", "insert", "post", "revoke"}
    PROVE  ~Holds(t) /\ ~Spends(t)
BY DEF Idle, Holds, Spends

LEMMA Counting == Inv /\ (UNCHANGED budget \/ Mishap) =>
                      (NoMishap' => NoMishap /\ UNCHANGED budget)
<1>1. Inv => mishaps \in Nat
    BY ScenariosAssumption DEF Inv, BackendsInv, Types
<1> QED
    BY <1>1 DEF NoMishap, Mishap, budget

(* The lookup, the session's use, and a refresh before the provider.       *)
LEMMA CredsLookup ==
    Inv /\ Creds /\ (\E t \in Tasks : (\E kind \in Kinds : Call(t, kind)) \/ GetOrOpen(t) \/ Use(t)
                                      \/ Load(t) \/ Read(t) \/ Dial(t))
    => Creds'
<1> SUFFICES ASSUME Inv, Creds, NEW t \in Tasks,
                    (\E kind \in Kinds : Call(t, kind)) \/ GetOrOpen(t) \/ Use(t)
                        \/ Load(t) \/ Read(t) \/ Dial(t)
             PROVE  Creds'
    OBVIOUS
<1>1. UNCHANGED <<vault, honoured, row, mishaps>>
    BY DEF Call, GetOrOpen, UseCached, ShareSlot, NewSlot, Join, Use, Operate, Refused, Evict,
        Load, Read, Dial, Fail, account, remote, budget
<1>2. task[t].at \in {"idle", "lookup", "join", "op", "evict", "load", "read", "dial"}
    BY DEF Call, GetOrOpen, UseCached, ShareSlot, NewSlot, Join, Use, Operate, Refused, Evict,
        Load, Read, Dial, At
<1>3. /\ \A u \in Tasks : u # t => task'[u] = task[u]
      /\ \/ task'[t] = Idle
         \/ task'[t].at \in {"lookup", "load", "authorize", "check", "join", "op", "evict", "read",
                             "dial"}
         \/ task'[t].at = "post" /\ task'[t].token = vault
  <2>1. CASE \E kind \in Kinds : Call(t, kind)
    <3> PICK kind \in Kinds : Call(t, kind)
        BY <2>1
    <3>1. FirstStep(kind) \in {"lookup", "load", "authorize", "check"}
        BY DEF FirstStep, Kinds
    <3>2. [Idle EXCEPT !.kind = kind, !.at = FirstStep(kind)].at = FirstStep(kind)
        BY DEF Idle
    <3>3. task' = [task EXCEPT ![t] = [Idle EXCEPT !.kind = kind, !.at = FirstStep(kind)]]
        BY DEF Call
    <3> QED
        BY <3>1, <3>2, <3>3, Alone
  <2>2. CASE UseCached(t) \/ ShareSlot(t) \/ NewSlot(t)
      BY <2>2, Alone DEF UseCached, ShareSlot, NewSlot
  <2>3. CASE Join(t) \/ Operate(t) \/ Evict(t) \/ Load(t) \/ Dial(t)
      BY <2>3, Alone DEF Join, Operate, Evict, Load, Dial, Fail
  <2>4. CASE Read(t)
      BY <2>4, Alone DEF Read, Fail
  <2>5. CASE Refused(t)
    <3>1. CASE Done(t)
        BY <3>1, Alone
    <3>2. CASE task' = [task EXCEPT ![t].at = "evict", ![t].retry = TRUE, ![t].since = slots]
        BY <3>2 DEF Inv, BackendsInv, Types
    <3> QED
        BY <2>5, <3>1, <3>2 DEF Refused
  <2> QED
      BY <2>1, <2>2, <2>3, <2>4, <2>5 DEF GetOrOpen, Use
<1>4. ~Holds(t)' /\ (Spends(t)' => task'[t].token = vault)
    BY <1>3 DEF Holds, Spends, Idle
<1>5. NoMishap' => NoMishap
    BY <1>1 DEF NoMishap
<1> QED
    BY <1>1, <1>2, <1>3, <1>4, <1>5, Kept

(* The provider refuses the token, takes it, or replaces it; the reply may *)
(* be lost, and the write of the new one may fail.                         *)
LEMMA CredsRefresh ==
    Inv /\ Creds /\ (\E t \in Tasks : Post(t) \/ Put(t) \/ RefreshFails(t)) => Creds'
<1> SUFFICES ASSUME Inv, Creds, NEW t \in Tasks, Post(t) \/ Put(t) \/ RefreshFails(t)
             PROVE  Creds'
    OBVIOUS
<1>0. /\ minted \in Nat /\ vault \in 0..minted /\ honoured \subseteq 1..minted
      /\ \A u \in Tasks : task[u].token \in 0..minted
    BY BackendsBoundAssumption DEF Inv, BackendsInv, Types
<1>1. NoMishap' => NoMishap /\ UNCHANGED budget
    BY Counting DEF Post, Put, RefreshFails
<1>2. RefreshFails(t) => ~NoMishap'
  <2>1. mishaps \in Nat
      BY ScenariosAssumption DEF Inv, BackendsInv, Types
  <2> QED
      BY <2>1 DEF RefreshFails, Mishap, NoMishap
<1>3. task[t].at \in {"read", "post", "put"} /\ UNCHANGED row
    BY DEF Post, Put, RefreshFails, At, Fail, account
<1>4. CASE /\ Done(t) \/ Go(t, "dial")
           /\ task[t].at = "put" => ~NoMishap'
           /\ UNCHANGED <<vault, honoured>>
  <2>1. \A u \in Tasks : u # t => task'[u] = task[u]
      BY <1>4, Alone
  <2>2. task'[t] = Idle \/ task'[t].at = "dial"
      BY <1>4, Alone
  <2>3. ~Holds(t)' /\ ~Spends(t)'
      BY <2>2 DEF Holds, Spends, Idle
  <2> QED
      BY <1>1, <1>3, <1>4, <2>1, <2>3, Kept
<1>5. ASSUME At(t, "post"), Rotate(t), UNCHANGED vault,
             \A u \in Tasks : u # t => task'[u] = task[u],
             \/ task'[t].at = "put" /\ task'[t].token = minted + 1
             \/ ~NoMishap' /\ ~Holds(t)' /\ ~Spends(t)'
      PROVE  Creds'
  <2>1. \A u \in Tasks : u # t /\ Holds(u) => task[u].token # task[t].token
      BY <1>5 DEF Creds, HeldAreNew, Spends, At
  <2>2. minted + 1 \in honoured' /\ \A x \in honoured : x # task[t].token => x \in honoured'
      BY <1>5 DEF Rotate
  <2>3. minted + 1 \notin 0..minted
      BY <1>0
  <2>4. HeldWork'
      BY <1>1, <1>5, <2>1, <2>2 DEF Creds, HeldWork, Holds
  <2>5. HeldAreNew'
    <3> SUFFICES ASSUME NEW u \in Tasks, Holds(u)'
                 PROVE  /\ task'[u].token # vault'
                        /\ \A w \in Tasks : w # u /\ (Holds(w)' \/ Spends(w)')
                                            => task'[w].token # task'[u].token
        BY DEF HeldAreNew
    <3>1. CASE u = t
      <4>1. task'[u].token = minted + 1
          BY <1>5, <3>1
      <4>2. task'[u].token \notin 0..minted
          BY <4>1, <2>3
      <4>3. \A w \in Tasks : w # u => task'[w].token \in 0..minted
          BY <1>0, <1>5, <3>1
      <4> QED
          BY <1>0, <1>5, <4>2, <4>3
    <3>2. CASE u # t
      <4>1. task'[u] = task[u] /\ Holds(u) /\ task[u].token \in 0..minted /\ task[u].token # vault
          BY <1>0, <1>5, <3>2 DEF Holds, Creds, HeldAreNew
      <4>2. ASSUME NEW w \in Tasks, w # u, Holds(w)' \/ Spends(w)'
            PROVE  task'[w].token # task'[u].token
        <5>1. CASE w = t
          <6>1. task'[t].token = minted + 1
              BY <1>5, <4>2, <5>1
          <6> QED
              BY <2>3, <4>1, <5>1, <6>1
        <5>2. CASE w # t
            BY <1>5, <4>1, <4>2, <5>2 DEF Creds, HeldAreNew, Holds, Spends
        <5> QED
            BY <5>1, <5>2
      <4> QED
          BY <1>5, <4>1, <4>2
    <3> QED
        BY <3>1, <3>2
  <2>6. CredentialsSurvive'
    <3> SUFFICES ASSUME NoMishap' PROVE CredentialsSurvive'
        BY DEF CredentialsSurvive
    <3>1. task'[t].at = "put" /\ task'[t].token \in honoured'
        BY <1>5, <2>2
    <3> QED
        BY <3>1 DEF CredentialsSurvive
  <2> QED
      BY <2>4, <2>5, <2>6 DEF Creds
<1>6. ASSUME Post(t) PROVE Creds'
  <2>1. CASE Fail(t) \/ (Go(t, "dial") /\ UNCHANGED <<remote, account, handles>>)
    <3>1. task[t].at = "post"
        BY <1>6 DEF Post, At
    <3>2. UNCHANGED <<vault, honoured>>
        BY <2>1 DEF Fail, remote, account
    <3> QED
        BY <1>4, <2>1, <3>1, <3>2 DEF Fail
  <2>2. CASE /\ Rotate(t) /\ UNCHANGED <<account, handles>>
             /\ task' = [task EXCEPT ![t].token = minted + 1, ![t].at = "put"]
    <3>1. /\ task'[t].at = "put" /\ task'[t].token = minted + 1
          /\ \A u \in Tasks : u # t => task'[u] = task[u]
        BY <2>2 DEF Inv, BackendsInv, Types
    <3>2. At(t, "post") /\ UNCHANGED vault
        BY <1>6, <2>2 DEF Post, account
    <3> QED
        BY <1>5, <2>2, <3>1, <3>2
  <2>3. \/ Fail(t)
        \/ Go(t, "dial") /\ UNCHANGED <<remote, account, handles>>
        \/ /\ Rotate(t) /\ UNCHANGED <<account, handles>>
           /\ task' = [task EXCEPT ![t].token = minted + 1, ![t].at = "put"]
      BY <1>6 DEF Post
  <2> QED
      BY <2>1, <2>2, <2>3
<1>7. ASSUME RefreshFails(t) PROVE Creds'
  <2>1. CASE Fail(t) \/ (Go(t, "dial") /\ UNCHANGED <<remote, account, handles>>)
    <3>1. UNCHANGED <<vault, honoured>>
        BY <2>1 DEF Fail, remote, account
    <3> QED
        BY <1>2, <1>4, <1>7, <2>1, <3>1 DEF Fail
  <2>2. CASE At(t, "post") /\ Rotate(t) /\ Done(t) /\ UNCHANGED account
    <3>1. task'[t] = Idle /\ \A u \in Tasks : u # t => task'[u] = task[u]
        BY <2>2, Alone
    <3>2. ~Holds(t)' /\ ~Spends(t)'
        BY <3>1 DEF Holds, Spends, Idle
    <3> QED
        BY <1>2, <1>5, <1>7, <2>2, <3>1, <3>2 DEF account
  <2>3. \/ Fail(t)
        \/ Go(t, "dial") /\ UNCHANGED <<remote, account, handles>>
        \/ At(t, "post") /\ Rotate(t) /\ Done(t) /\ UNCHANGED account
      BY <1>7 DEF RefreshFails
  <2> QED
      BY <2>1, <2>2, <2>3
<1>8. ASSUME Put(t) PROVE Creds'
  <2>1. /\ task[t].at = "put" /\ vault' = task[t].token /\ UNCHANGED <<row, honoured>>
        /\ task'[t].at = "dial" /\ \A u \in Tasks : u # t => task'[u] = task[u]
      BY <1>8, Alone DEF Put, At, remote
  <2>2. \A u \in Tasks : Holds(u)' => u # t /\ Holds(u) /\ task'[u] = task[u]
      BY <2>1 DEF Holds
  <2>3. HeldWork'
      BY <1>1, <2>1, <2>2 DEF Creds, HeldWork
  <2>4. HeldAreNew'
    <3> SUFFICES ASSUME NEW u \in Tasks, Holds(u)'
                 PROVE  /\ task'[u].token # vault'
                        /\ \A w \in Tasks : w # u /\ (Holds(w)' \/ Spends(w)')
                                            => task'[w].token # task'[u].token
        BY DEF HeldAreNew
    <3>1. ~Holds(t)' /\ ~Spends(t)'
        BY <2>1 DEF Holds, Spends
    <3>2. \A w \in Tasks : Holds(w)' \/ Spends(w)' =>
              w # t /\ task'[w] = task[w] /\ (Holds(w) \/ Spends(w))
        BY <2>1, <3>1 DEF Holds, Spends
    <3>3. Holds(t) /\ Holds(u) /\ u # t /\ task'[u] = task[u]
        BY <2>1, <2>2 DEF Holds
    <3>4. task[t].token # task[u].token
        BY <3>3 DEF Creds, HeldAreNew
    <3> QED
        BY <2>1, <3>2, <3>3, <3>4 DEF Creds, HeldAreNew
  <2>5. CredentialsSurvive'
    <3>1. NoMishap' => task[t].token \in honoured
        BY <1>1, <2>1 DEF Creds, HeldWork, Holds
    <3> QED
        BY <2>1, <3>1 DEF CredentialsSurvive
  <2> QED
      BY <2>3, <2>4, <2>5 DEF Creds
<1> QED
    BY <1>6, <1>7, <1>8

(* A new token, then the row, then the keychain.                           *)
LEMMA CredsAdd == Inv /\ Creds /\ (\E t \in Tasks : Add(t) \/ StoreFails(t)) => Creds'
<1> SUFFICES ASSUME Inv, Creds, NEW t \in Tasks, Add(t) \/ StoreFails(t) PROVE Creds'
    OBVIOUS
<1>0. /\ minted \in Nat /\ vault \in 0..minted /\ honoured \subseteq 1..minted
      /\ \A u \in Tasks : task[u].token \in 0..minted
    BY BackendsBoundAssumption DEF Inv, BackendsInv, Types
<1>1. CASE Authorize(t) /\ Done(t) /\ UNCHANGED <<honoured, minted>>
  <2>1. task[t].at = "authorize" /\ UNCHANGED <<row, vault, mishaps>>
      BY <1>1 DEF Authorize, At, account, budget
  <2>2. task'[t] = Idle /\ \A u \in Tasks : u # t => task'[u] = task[u]
      BY <1>1, Alone
  <2>3. ~Holds(t)' /\ ~Spends(t)' /\ (NoMishap' => NoMishap)
      BY <2>1, <2>2 DEF Holds, Spends, Idle, NoMishap
  <2> QED
      BY <1>1, <2>1, <2>2, <2>3, Kept
<1>2. CASE /\ Authorize(t) /\ minted' = minted + 1 /\ honoured' = honoured \cup {minted + 1}
           /\ task' = [task EXCEPT ![t].token = minted + 1, ![t].at = "insert"]
  <2>1. task[t].at = "authorize" /\ UNCHANGED <<row, vault, mishaps>>
      BY <1>2 DEF Authorize, At, account, budget
  <2>2. /\ task'[t].at = "insert" /\ task'[t].token = minted + 1
        /\ \A u \in Tasks : u # t => task'[u] = task[u]
      BY <1>2 DEF Inv, BackendsInv, Types
  <2>3. minted + 1 \notin 0..minted
      BY <1>0
  <2>4. HeldWork'
    <3>1. NoMishap' => NoMishap
        BY <2>1 DEF NoMishap
    <3>2. NoMishap' => \A u \in Tasks : u # t /\ Holds(u)' => task'[u].token \in honoured'
      <4> SUFFICES ASSUME NoMishap', NEW u \in Tasks, u # t, Holds(u)'
                   PROVE  task'[u].token \in honoured'
          OBVIOUS
      <4>1. task'[u] = task[u] /\ Holds(u)
          BY <2>2 DEF Holds
      <4>2. task[u].token \in honoured
          BY <3>1, <4>1 DEF Creds, HeldWork
      <4> QED
          BY <1>2, <4>1, <4>2
    <3>3. task'[t].token \in honoured'
        BY <1>2, <2>2
    <3> QED
        BY <3>2, <3>3 DEF HeldWork
  <2>5. HeldAreNew'
    <3> SUFFICES ASSUME NEW u \in Tasks, Holds(u)'
                 PROVE  /\ task'[u].token # vault'
                        /\ \A w \in Tasks : w # u /\ (Holds(w)' \/ Spends(w)')
                                            => task'[w].token # task'[u].token
        BY DEF HeldAreNew
    <3>1. CASE u = t
      <4>1. \A w \in Tasks : w # u => task'[w].token \in 0..minted
          BY <1>0, <2>2, <3>1
      <4> QED
          BY <1>0, <2>1, <2>2, <2>3, <3>1, <4>1
    <3>2. CASE u # t
      <4>1. task'[u] = task[u] /\ Holds(u) /\ task[u].token \in 0..minted /\ task[u].token # vault
          BY <1>0, <2>2, <3>2 DEF Holds, Creds, HeldAreNew
      <4>2. ASSUME NEW w \in Tasks, w # u, Holds(w)' \/ Spends(w)'
            PROVE  task'[w].token # task'[u].token
        <5>1. CASE w = t
            BY <2>2, <2>3, <4>1, <5>1
        <5>2. CASE w # t
            BY <2>2, <4>1, <4>2, <5>2 DEF Creds, HeldAreNew, Holds, Spends
        <5> QED
            BY <5>1, <5>2
      <4> QED
          BY <2>1, <4>1, <4>2
    <3> QED
        BY <3>1, <3>2
  <2>6. CredentialsSurvive'
    <3> SUFFICES ASSUME row', NoMishap'
                 PROVE  \/ vault' \in honoured'
                        \/ \E u \in Tasks : task'[u].at \in {"put", "store"} /\ task'[u].token \in honoured'
                        \/ \E u \in Tasks : task'[u].at \in {"forget", "delete"}
        BY DEF CredentialsSurvive
    <3>1. row /\ NoMishap
        BY <2>1 DEF NoMishap
    <3>2. CASE vault \in honoured
        BY <1>2, <2>1, <3>2
    <3>3. CASE \E u \in Tasks : task[u].at \in {"put", "store"} /\ task[u].token \in honoured
      <4> PICK u \in Tasks : task[u].at \in {"put", "store"} /\ task[u].token \in honoured
          BY <3>3
      <4>1. u # t
          BY <2>1
      <4>2. task'[u].at \in {"put", "store"} /\ task'[u].token = task[u].token
          BY <2>2, <4>1
      <4>3. task'[u].token \in honoured'
          BY <1>2, <4>2
      <4> QED
          BY <4>2, <4>3
    <3>4. CASE \E u \in Tasks : task[u].at \in {"forget", "delete"}
      <4> PICK u \in Tasks : task[u].at \in {"forget", "delete"}
          BY <3>4
      <4>1. u # t
          BY <2>1
      <4> QED
          BY <2>2, <4>1
    <3> QED
        BY <3>1, <3>2, <3>3, <3>4 DEF Creds, CredentialsSurvive
  <2> QED
      BY <2>4, <2>5, <2>6 DEF Creds
<1>3. CASE Insert(t)
  <2>1. /\ task[t].at = "insert" /\ UNCHANGED <<vault, honoured, mishaps>>
        /\ task'[t].at = "store" /\ task'[t].token = task[t].token
        /\ \A u \in Tasks : u # t => task'[u] = task[u]
      BY <1>3, Alone DEF Insert, At, remote, budget
  <2>2. \A u \in Tasks : /\ Holds(u)' <=> Holds(u) 
                         /\ Spends(u)' <=> Spends(u)
                         /\ task'[u].token = task[u].token
      BY <2>1 DEF Holds, Spends
  <2>3. HeldWork'
      BY <2>1, <2>2 DEF Creds, HeldWork, NoMishap
  <2>4. HeldAreNew'
      BY <2>1, <2>2 DEF Creds, HeldAreNew
  <2>5. CredentialsSurvive'
    <3>1. NoMishap' => task'[t].token \in honoured'
        BY <2>1 DEF Creds, HeldWork, Holds, NoMishap
    <3> QED
        BY <2>1, <3>1 DEF CredentialsSurvive
  <2> QED
      BY <2>3, <2>4, <2>5 DEF Creds
<1>4. CASE Store(t)
  <2>1. /\ task[t].at = "store" /\ vault' = task[t].token /\ UNCHANGED <<row, honoured, mishaps>>
        /\ task' = [task EXCEPT ![t] = [Idle EXCEPT !.at = "lookup"]]
      BY <1>4 DEF Store, At, remote, budget
  <2>2. task'[t].at = "lookup" /\ \A u \in Tasks : u # t => task'[u] = task[u]
    <3>1. [Idle EXCEPT !.at = "lookup"].at = "lookup"
        BY DEF Idle
    <3> QED
        BY <2>1, <3>1 DEF Inv, BackendsInv, Types
  <2>3. \A u \in Tasks : Holds(u)' \/ Spends(u)' =>
            u # t /\ task'[u] = task[u] /\ (Holds(u) \/ Spends(u))
      BY <2>2 DEF Holds, Spends
  <2>4. \A u \in Tasks : Holds(u)' => Holds(u)
      BY <2>2 DEF Holds
  <2>5. HeldWork'
      BY <2>1, <2>3, <2>4 DEF Creds, HeldWork, NoMishap
  <2>6. HeldAreNew'
    <3> SUFFICES ASSUME NEW u \in Tasks, Holds(u)'
                 PROVE  /\ task'[u].token # vault'
                        /\ \A w \in Tasks : w # u /\ (Holds(w)' \/ Spends(w)')
                                            => task'[w].token # task'[u].token
        BY DEF HeldAreNew
    <3>1. Holds(t) /\ Holds(u) /\ u # t /\ task'[u] = task[u]
        BY <2>1, <2>3, <2>4 DEF Holds
    <3>2. task[t].token # task[u].token
        BY <3>1 DEF Creds, HeldAreNew
    <3> QED
        BY <2>1, <2>3, <3>1, <3>2 DEF Creds, HeldAreNew
  <2>7. CredentialsSurvive'
    <3>1. NoMishap' => task[t].token \in honoured
        BY <2>1 DEF Creds, HeldWork, Holds, NoMishap
    <3> QED
        BY <2>1, <3>1 DEF CredentialsSurvive
  <2> QED
      BY <2>5, <2>6, <2>7 DEF Creds
<1>5. CASE StoreFails(t)
  <2>1. task[t].at = "store" /\ UNCHANGED <<row, vault, honoured>>
      BY <1>5 DEF StoreFails, At, remote, account
  <2>2. task'[t] = Idle /\ \A u \in Tasks : u # t => task'[u] = task[u]
      BY <1>5, Alone DEF StoreFails
  <2>3. ~NoMishap'
    <3>1. mishaps \in Nat
        BY ScenariosAssumption DEF Inv, BackendsInv, Types
    <3> QED
        BY <1>5, <3>1 DEF StoreFails, Mishap, NoMishap
  <2>4. ~Holds(t)' /\ ~Spends(t)'
      BY <2>2 DEF Holds, Spends, Idle
  <2> QED
      BY <2>1, <2>2, <2>3, <2>4, Kept
<1>6. Authorize(t) =>
         \/ Done(t) /\ UNCHANGED <<honoured, minted>>
         \/ /\ minted' = minted + 1 /\ honoured' = honoured \cup {minted + 1}
            /\ task' = [task EXCEPT ![t].token = minted + 1, ![t].at = "insert"]
    BY DEF Authorize
<1> QED
    BY <1>1, <1>2, <1>3, <1>4, <1>5, <1>6 DEF Add

(* The token is revoked and forgotten, then the row is deleted.            *)
LEMMA CredsRemove == Inv /\ Creds /\ (\E t \in Tasks : Remove(t) \/ RemoveFails(t)) => Creds'
<1> SUFFICES ASSUME Inv, Creds, NEW t \in Tasks, Remove(t) \/ RemoveFails(t) PROVE Creds'
    OBVIOUS
<1>1. /\ task[t].at \in {"check", "drop", "recall", "revoke", "forget", "delete"}
      /\ \A u \in Tasks : u # t => task'[u] = task[u]
  <2>1. task[t].at \in {"check", "drop", "recall", "revoke", "forget", "delete"}
      BY DEF Remove, Check, DropHandle, Recall, Revoke, Forget, Delete, RemoveFails, At
  <2>2. CASE Recall(t)
      BY <2>2 DEF Recall, Inv, BackendsInv, Types
  <2>3. CASE ~Recall(t)
    <3>1. Done(t) \/ \E at \in Steps : Go(t, at)
        BY <2>3 DEF Remove, Check, DropHandle, Revoke, Forget, Delete, RemoveFails, Steps
    <3>2. ASSUME NEW at, Go(t, at) PROVE \A u \in Tasks : u # t => task'[u] = task[u]
        BY <3>2, Alone
    <3> QED
        BY <2>1, <3>1, <3>2, Alone
  <2> QED
      BY <2>1, <2>2, <2>3
<1>2. NoMishap' => NoMishap /\ ~RemoveFails(t)
  <2>1. mishaps \in Nat
      BY ScenariosAssumption DEF Inv, BackendsInv, Types
  <2> QED
      BY <2>1 DEF Remove, Check, DropHandle, Recall, Revoke, Forget, Delete, RemoveFails, Mishap,
          NoMishap, budget
<1>3. CASE Check(t) \/ DropHandle(t) \/ Recall(t) \/ Delete(t) \/ RemoveFails(t)
  <2>1. UNCHANGED <<vault, honoured>> /\ (row' => row)
      BY <1>3 DEF Check, DropHandle, Recall, Delete, RemoveFails, account, remote
  <2>2. \/ task'[t] = Idle
        \/ task'[t].at \in {"drop", "recall", "forget", "delete"}
        \/ task'[t].at = "revoke" /\ task'[t].token = vault
    <3>1. CASE Recall(t)
        BY <3>1 DEF Recall, Inv, BackendsInv, Types
    <3>2. CASE Check(t) \/ DropHandle(t) \/ Delete(t) \/ RemoveFails(t)
        BY <3>2, Alone DEF Check, DropHandle, Delete, RemoveFails
    <3> QED
        BY <1>3, <3>1, <3>2
  <2>3. ~Holds(t)' /\ (Spends(t)' => task'[t].token = vault)
      BY <2>2 DEF Holds, Spends, Idle
  <2>4. row' /\ NoMishap' => task[t].at \notin {"put", "store", "forget", "delete"}
    <3>1. CASE Delete(t)
        BY <3>1 DEF Delete
    <3>2. CASE Check(t) \/ DropHandle(t) \/ Recall(t)
        BY <3>2 DEF Check, DropHandle, Recall, At
    <3> QED
        BY <1>2, <1>3, <3>1, <3>2
  <2> QED
      BY <1>1, <1>2, <2>1, <2>3, <2>4, Kept
<1>4. CASE Revoke(t)
  <2>1. /\ task[t].at = "revoke" /\ task'[t].at = "forget" /\ UNCHANGED <<row, vault>>
        /\ \A x \in honoured : x # task[t].token => x \in honoured'
      BY <1>4, Alone DEF Revoke, At, account
  <2>2. \A u \in Tasks : Holds(u)' \/ Spends(u)' =>
            u # t /\ task'[u] = task[u] /\ (Holds(u) \/ Spends(u))
      BY <1>1, <2>1 DEF Holds, Spends
  <2>3. \A u \in Tasks : Holds(u)' => Holds(u)
      BY <1>1, <2>1 DEF Holds
  <2>4. HeldWork'
    <3>1. \A u \in Tasks : Holds(u) => u # t /\ task[u].token # task[t].token
        BY <2>1 DEF Creds, HeldAreNew, Holds, Spends
    <3> QED
        BY <1>2, <2>1, <2>2, <2>3, <3>1 DEF Creds, HeldWork
  <2>5. HeldAreNew'
      BY <2>1, <2>2, <2>3 DEF Creds, HeldAreNew
  <2>6. CredentialsSurvive'
      BY <2>1 DEF CredentialsSurvive
  <2> QED
      BY <2>4, <2>5, <2>6 DEF Creds
<1>5. CASE Forget(t)
  <2>1. /\ task[t].at = "forget" /\ task'[t].at = "delete" /\ UNCHANGED <<row, honoured>>
        /\ vault' = 0
      BY <1>5, Alone DEF Forget, At, remote
  <2>2. \A u \in Tasks : Holds(u)' \/ Spends(u)' =>
            u # t /\ task'[u] = task[u] /\ (Holds(u) \/ Spends(u))
      BY <1>1, <2>1 DEF Holds, Spends
  <2>3. \A u \in Tasks : Holds(u)' => Holds(u)
      BY <1>1, <2>1 DEF Holds
  <2>4. HeldWork'
      BY <1>2, <2>1, <2>2, <2>3 DEF Creds, HeldWork
  <2>5. \A u \in Tasks : Holds(u) => task[u].token # 0
      BY DEF Inv, BackendsInv, SlotsInOrder, Holds
  <2>6. HeldAreNew'
      BY <2>1, <2>2, <2>3, <2>5 DEF Creds, HeldAreNew
  <2>7. CredentialsSurvive'
      BY <2>1 DEF CredentialsSurvive
  <2> QED
      BY <2>4, <2>6, <2>7 DEF Creds
<1> QED
    BY <1>3, <1>4, <1>5 DEF Remove

LEMMA CredsStart == Init => Creds
<1> SUFFICES ASSUME Init PROVE Creds
    OBVIOUS
<1>1. \A t \in Tasks : ~Holds(t)
    BY DEF Init, Idle, Holds
<1> QED
    BY <1>1 DEF Init, Creds, HeldWork, HeldAreNew, CredentialsSurvive

LEMMA CredsStep == Inv /\ Creds /\ [Next]_vars => Creds'
<1> SUFFICES ASSUME Inv, Creds, [Next]_vars PROVE Creds'
    OBVIOUS
<1>1. CASE UNCHANGED <<task, row, vault, honoured>> /\ (NoMishap' => NoMishap)
    BY <1>1 DEF Creds, HeldWork, HeldAreNew, CredentialsSurvive, Holds, Spends
<1>2. CASE UNCHANGED vars
    BY <1>1, <1>2 DEF vars, remote, account, budget, NoMishap
<1>3. CASE \E s \in Slots : Age(s) \/ Expire(s) \/ Spoil(s)
  <2>1. UNCHANGED <<task, row, vault, honoured>> /\ (UNCHANGED budget \/ Mishap)
      BY <1>3 DEF Age, Expire, Spoil, remote, account
  <2> QED
      BY <1>1, <2>1, Counting
<1>4. ASSUME NEW t \in Tasks,
             (\E kind \in Kinds : Call(t, kind)) \/ Step(t)
                 \/ RefreshFails(t) \/ StoreFails(t) \/ RemoveFails(t)
      PROVE  Creds'
    BY <1>4, CredsLookup, CredsRefresh, CredsAdd, CredsRemove DEF Step, Build
<1> QED
    BY <1>2, <1>3, <1>4 DEF Next

(* An account keeps a working refresh token, in the keychain or on its way *)
(* there, until it is removed: rotations (refresh.rs), revocations and     *)
(* repeated additions (accounts.rs) never cost it the last one, short of a *)
(* lost reply or a keychain or database error.                             *)
THEOREM CredentialsAlwaysSurvive == Spec => []CredentialsSurvive
<1>1. Init => Inv /\ Creds
    BY BackendsStart, CredsStart
<1>2. Inv /\ Creds /\ [Next]_vars => Inv' /\ Creds'
    BY BackendsStep, CredsStep
<1>3. Creds => CredentialsSurvive
    BY DEF Creds
<1> QED
    BY <1>1, <1>2, <1>3, PTL DEF Spec
=============================================================================
