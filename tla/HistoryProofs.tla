--------------------------- MODULE HistoryProofs ---------------------------
(* Proofs about the pull of mail history for all jobs, folders, mailboxes,  *)
(* chunk sizes and bounds.  IInv, of module HistoryProperties, is the       *)
(* inductive invariant.                                                     *)
EXTENDS HistoryProperties, TLAPS, FiniteSetTheorems, SequenceTheorems

(* A set_status, done or failed, leaves a table of rows.                    *)
LEMMA SetStatusTypes ==
    ASSUME TypeOK, NEW f \in Folders, NEW s \in Statuses, SetStatus(f, s)
    PROVE  status' \in [Folders -> Statuses] /\ anchor' \in [Folders -> Nat]
<1>1. (IF status[f] = "absent" THEN status[f] ELSE s) \in Statuses
    BY DEF TypeOK
<1> QED
    BY <1>1 DEF TypeOK, SetStatus

(* An upsert leaves a table of rows.                                        *)
LEMMA UpsertTypes ==
    ASSUME TypeOK, NEW f \in Folders, NEW s \in Statuses, NEW a \in Nat, Upsert(f, s, a)
    PROVE  status' \in [Folders -> Statuses] /\ anchor' \in [Folders -> Nat]
BY DEF TypeOK, Upsert

(* The same for a set_status that may fail.                                 *)
LEMMA TrySetStatusTypes ==
    ASSUME TypeOK, NEW f \in Folders, NEW s \in Statuses, TrySetStatus(f, s)
    PROVE  /\ status' \in [Folders -> Statuses] /\ anchor' \in [Folders -> Nat]
           /\ mishaps' \in Nat /\ crashes' \in Nat
<1>1. CASE SetStatus(f, s) /\ Fine
    BY <1>1, SetStatusTypes DEF Fine, budget, TypeOK
<1>2. CASE UNCHANGED table /\ Mishap
    BY <1>2 DEF table, Mishap, TypeOK
<1> QED
    BY <1>1, <1>2 DEF TrySetStatus

(* Where a fetch starts and where its window ends are UIDs or zero.         *)
LEMMA AnchorTypes ==
    ASSUME TypeOK, NEW d \in Jobs
    PROVE  ProducerAnchor(d) \in Nat
<1>1. pipe[d] \in Seq(Chunks)
    BY DEF TypeOK
<1>2. CASE pipe[d] # <<>>
  <2>1. pipe[d][Len(pipe[d])] \in Chunks
      BY <1>1, <1>2, ElementOfSeq, EmptySeq, LenProperties
  <2> QED
      BY <2>1, <1>2 DEF ProducerAnchor, Chunks
<1> QED
    BY <1>2 DEF ProducerAnchor, TypeOK

(* A longer or a shorter pipe is a pipe.                                    *)
LEMMA PipeTypes ==
    ASSUME TypeOK, NEW d \in Jobs
    PROVE  /\ \A c \in Chunks : [pipe EXCEPT ![d] = Append(@, c)] \in [Jobs -> Seq(Chunks)]
           /\ pipe[d] # <<>> => /\ Head(pipe[d]) \in Chunks
                                /\ [pipe EXCEPT ![d] = Tail(@)] \in [Jobs -> Seq(Chunks)]
<1>1. pipe[d] \in Seq(Chunks)
    BY DEF TypeOK
<1>2. \A c \in Chunks : Append(pipe[d], c) \in Seq(Chunks)
    BY <1>1
<1>3. pipe[d] # <<>> => Head(pipe[d]) \in Chunks /\ Tail(pipe[d]) \in Seq(Chunks)
    BY <1>1, HeadTailProperties
<1> QED
    BY <1>2, <1>3 DEF TypeOK

(* The UIDs of a chunk are UIDs.                                            *)
LEMMA ChunkTypes ==
    ASSUME NEW f \in Folders, NEW a \in Nat
    PROVE  ChunkUids(f, a) \in SUBSET Nat
BY UidAssumption DEF ChunkUids, Below

(* What is left of a job that is over is typed.                             *)
LEMMA FreeTypes ==
    ASSUME TypeOK, NEW d \in Jobs, Free(d)
    PROVE  /\ pc' \in [Jobs -> Steps] /\ of' \in [Jobs -> Folders \cup {None}]
           /\ token' \in [Jobs -> BOOLEAN] /\ gen' \in [Jobs -> BOOLEAN]
           /\ last' \in [Jobs -> Nat] /\ UNCHANGED <<pipe, fails, feeding>>
<1>1. pc' \in [Jobs -> Steps]
    BY DEF TypeOK, Free, Go, Steps
<1>2. of' \in [Jobs -> Folders \cup {None}] /\ last' \in [Jobs -> Nat]
    BY DEF TypeOK, Free
<1>3. token' \in [Jobs -> BOOLEAN] /\ gen' \in [Jobs -> BOOLEAN]
    BY DEF TypeOK, Free
<1> QED
    BY <1>1, <1>2, <1>3 DEF Free

(* Every step keeps the rows, the locals of the jobs and the maps typed.    *)
LEMMA TypeStep == TypeOK /\ Control /\ [Next]_vars => TypeOK'
<1> SUFFICES ASSUME TypeOK, Control, [Next]_vars
             PROVE  TypeOK'
    OBVIOUS
<1>0. /\ BusyJobsHaveAFolder /\ ConsumerControl
      /\ {"absent", "pending", "running", "completed", "canceled", "error"} = Statuses
    BY DEF Control, Statuses, Ended, InFlight
<1> USE <1>0, NoneAssumption, FolderAssumption, SizeAssumption, BoundAssumption
        DEF TypeOK, table, store, jobState, pipeline, commands, budget, Fine, Mishap, Go,
            Busy, BusyJobsHaveAFolder, Steps, Starting, Waiting, Holding, Counted, Consuming
<1>1. ASSUME NEW d \in Jobs, StartMeasure(d)
      PROVE  TypeOK'
  <2>1. PICK a \in LocalUids(of[d]) \cup {anchor[of[d]]} : last' = [last EXCEPT ![d] = a]
      BY <1>1 DEF StartMeasure
  <2>2. of[d] \in Folders
      BY <1>1 DEF StartMeasure
  <2>3. a \in Nat
      BY <2>1, <2>2 DEF LocalUids
  <2> QED
      BY <1>1, <2>1, <2>3 DEF StartMeasure
<1>2. ASSUME NEW d \in Jobs, StartPersistFails(d)
      PROVE  TypeOK'
  <2>1. of[d] \in Folders
      BY <1>2 DEF StartPersistFails
  <2>2. /\ status' \in [Folders -> Statuses] /\ anchor' \in [Folders -> Nat]
        /\ mishaps' \in Nat /\ crashes' \in Nat
    <3>1. CASE UNCHANGED table /\ (Fine \/ Mishap)
        BY <3>1
    <3>2. CASE Upsert(of[d], "running", last[d]) /\ Mishap
      <4>1. "running" \in Statuses /\ last[d] \in Nat
          OBVIOUS
      <4>2. status' \in [Folders -> Statuses] /\ anchor' \in [Folders -> Nat]
          BY <2>1, <3>2, <4>1, UpsertTypes
      <4> QED
          BY <3>2, <4>2
    <3> QED
        BY <1>2, <3>1, <3>2 DEF StartPersistFails
  <2> QED
      BY <1>2, <2>2 DEF StartPersistFails, Free
<1>3. ASSUME NEW d \in Jobs, Fetch(d)
      PROVE  TypeOK'
  <2> DEFINE a == ProducerAnchor(d)
  <2>1. PICK n \in 0 .. a :
           /\ pipe' = [pipe EXCEPT ![d] = Append(@, Chunk(ChunkUids(of[d], a), n))]
           /\ feeding' = [feeding EXCEPT ![d] = ~Stuck(Chunk(ChunkUids(of[d], a), n), a)]
      BY <1>3 DEF Fetch
  <2>2. a \in Nat /\ of[d] \in Folders
      BY <1>3, AnchorTypes DEF Fetch
  <2>3. Chunk(ChunkUids(of[d], a), n) \in Chunks
      BY <2>2, ChunkTypes DEF Chunk, Chunks
  <2>4. pipe' \in [Jobs -> Seq(Chunks)]
      BY <2>1, <2>3, PipeTypes
  <2> HIDE DEF a
  <2>5. feeding' \in [Jobs -> BOOLEAN]
      BY <2>1 DEF Stuck
  <2>6. fails' \in [Jobs -> 0 .. MaxRetries - 1]
      BY <1>3 DEF Fetch
  <2> QED
      BY <1>3, <2>4, <2>5, <2>6 DEF Fetch
<1>4. ASSUME NEW d \in Jobs, StartRefused(d)
      PROVE  TypeOK'
  <2>1. Free(d) /\ UNCHANGED <<table, store, fts, cancellers, pulls, commands>>
      BY <1>4 DEF StartRefused
  <2>2. mishaps' \in Nat /\ crashes' \in Nat
      BY <1>4 DEF StartRefused
  <2> QED
      BY <2>1, <2>2, FreeTypes DEF commands
<1>5. ASSUME NEW d \in Jobs, StartPersist(d)
      PROVE  TypeOK'
    BY <1>5 DEF StartPersist, Upsert
<1>6. ASSUME NEW d \in Jobs, StartNothingLeft(d)
      PROVE  TypeOK'
    BY <1>6 DEF StartNothingLeft, Upsert, Free
<1>7. ASSUME NEW d \in Jobs, StartRegister(d)
      PROVE  TypeOK'
    BY <1>7 DEF StartRegister, Register
<1>8. ASSUME NEW d \in Jobs, ResumeRegister(d)
      PROVE  TypeOK'
    BY <1>8 DEF ResumeRegister, Register
<1>9. ASSUME NEW d \in Jobs, FetchFails(d)
      PROVE  TypeOK'
    BY <1>9 DEF FetchFails
<1>10. ASSUME NEW d \in Jobs, FetchGivesUp(d)
      PROVE  TypeOK'
  <2>1. Failure(ProducerAnchor(d)) \in Chunks
      BY AnchorTypes DEF Failure, Chunks
  <2>2. pipe' \in [Jobs -> Seq(Chunks)]
      BY <1>10, <2>1, PipeTypes DEF FetchGivesUp
  <2> QED
      BY <1>10, <2>2 DEF FetchGivesUp
<1>11. ASSUME NEW d \in Jobs, ProducerStops(d)
      PROVE  TypeOK'
    BY <1>11 DEF ProducerStops
<1>12. ASSUME NEW d \in Jobs, MarkPending(d)
      PROVE  TypeOK'
  <2>1. of[d] \in Folders /\ TrySetStatus(of[d], "pending")
      BY <1>12 DEF MarkPending
  <2> QED
      BY <1>12, <2>1, TrySetStatusTypes DEF MarkPending
<1>13. ASSUME NEW d \in Jobs, LookUpLock(d)
      PROVE  TypeOK'
    BY <1>13 DEF LookUpLock
<1>14. ASSUME NEW d \in Jobs, Acquire(d)
      PROVE  TypeOK'
    BY <1>14 DEF Acquire
<1>15. ASSUME NEW d \in Jobs, MarkRunning(d)
      PROVE  TypeOK'
  <2>1. of[d] \in Folders /\ TrySetStatus(of[d], "running")
      BY <1>15 DEF MarkRunning
  <2> QED
      BY <1>15, <2>1, TrySetStatusTypes DEF MarkRunning
<1>16. ASSUME NEW d \in Jobs, BailOut(d)
      PROVE  TypeOK'
  <2>1. of[d] \in Folders /\ TrySetStatus(of[d], "canceled")
      BY <1>16 DEF BailOut
  <2> QED
      BY <1>16, <2>1, TrySetStatusTypes DEF BailOut
<1>17. ASSUME NEW d \in Jobs, GoOn(d)
      PROVE  TypeOK'
    BY <1>17 DEF GoOn
<1>18. ASSUME NEW d \in Jobs, OpenFails(d)
      PROVE  TypeOK'
  <2>1. of[d] \in Folders /\ TrySetStatus(of[d], "error")
      BY <1>18 DEF OpenFails
  <2> QED
      BY <1>18, <2>1, TrySetStatusTypes DEF OpenFails
<1>19. ASSUME NEW d \in Jobs, Opened(d)
      PROVE  TypeOK'
    BY <1>19 DEF Opened
<1>20. ASSUME NEW d \in Jobs, StartPull(d)
      PROVE  TypeOK'
  <2>1. of[d] \in Folders /\ Upsert(of[d], "running", last[d])
      BY <1>20 DEF StartPull
  <2>2. status' \in [Folders -> Statuses] /\ anchor' \in [Folders -> Nat]
      BY <2>1, UpsertTypes
  <2> QED
      BY <1>20, <2>2 DEF StartPull
<1>21. ASSUME NEW d \in Jobs, StartPullFails(d)
      PROVE  TypeOK'
  <2>1. pulls' \in Int /\ mishaps' \in Nat /\ crashes' \in Nat
      BY <1>21 DEF StartPullFails
  <2>2. pc' \in [Jobs -> Steps]
      BY <1>21 DEF StartPullFails
  <2> QED
      BY <1>21, <2>1, <2>2 DEF StartPullFails
<1>22. ASSUME NEW d \in Jobs, DropIndex(d)
      PROVE  TypeOK'
  <2>1. fts' \in {"there", "dropped", "failed"} /\ mishaps' \in Nat /\ crashes' \in Nat
      BY <1>22 DEF DropIndex
  <2>2. pc' \in [Jobs -> Steps] /\ feeding' \in [Jobs -> BOOLEAN]
      BY <1>22 DEF DropIndex
  <2> QED
      BY <1>22, <2>1, <2>2 DEF DropIndex
<1>23. ASSUME NEW d \in Jobs, Receive(d)
      PROVE  TypeOK'
    BY <1>23 DEF Receive
<1>24. ASSUME NEW d \in Jobs, ReceiveCancelled(d)
      PROVE  TypeOK'
    BY <1>24 DEF ReceiveCancelled
<1>25. ASSUME NEW d \in Jobs, StoreFails(d)
      PROVE  TypeOK'
    BY <1>25 DEF StoreFails, Close
<1>26. ASSUME NEW d \in Jobs, RecordFails(d)
      PROVE  TypeOK'
    BY <1>26 DEF RecordFails, Close
<1>27. ASSUME NEW d \in Jobs, Drained(d)
      PROVE  TypeOK'
    BY <1>27 DEF Drained
<1>28. ASSUME NEW d \in Jobs, RebuildIndex(d)
      PROVE  TypeOK'
  <2>1. fts' \in {"there", "dropped", "failed"} /\ mishaps' \in Nat /\ crashes' \in Nat
      BY <1>28 DEF RebuildIndex
  <2>2. pc' \in [Jobs -> Steps]
      BY <1>28 DEF RebuildIndex
  <2> QED
      BY <1>28, <2>1, <2>2 DEF RebuildIndex
<1>29. ASSUME NEW d \in Jobs, EndPull(d)
      PROVE  TypeOK'
    BY <1>29 DEF EndPull
<1>30. ASSUME NEW d \in Jobs, DropCanceller(d)
      PROVE  TypeOK'
    BY <1>30 DEF DropCanceller, Free
<1>31. ASSUME NEW d \in Jobs, StoreChunk(d)
      PROVE  TypeOK'
  <2>1. of[d] \in Folders /\ Head(pipe[d]) \in Chunks
      BY <1>31, PipeTypes DEF StoreChunk, ConsumerControl
  <2>2. stored' \in [Folders -> SUBSET Nat]
      BY <1>31, <2>1 DEF StoreChunk, Chunks
  <2> QED
      BY <1>31, <2>2 DEF StoreChunk
<1>32. ASSUME NEW d \in Jobs, Record(d)
      PROVE  TypeOK'
  <2>1. of[d] \in Folders /\ Head(pipe[d]) \in Chunks /\ pipe' \in [Jobs -> Seq(Chunks)]
      BY <1>32, PipeTypes DEF Record, ConsumerControl
  <2>2. Head(pipe[d]).next \in Nat
      BY <2>1 DEF Chunks
  <2>3. anchor' \in [Folders -> Nat] /\ last' \in [Jobs -> Nat]
      BY <1>32, <2>1, <2>2 DEF Record
  <2>4. pc' \in [Jobs -> Steps]
      BY <1>32 DEF Record
  <2> QED
      BY <1>32, <2>1, <2>3, <2>4 DEF Record
<1>33. ASSUME NEW d \in Jobs, GiveUp(d)
      PROVE  TypeOK'
  <2>1. of[d] \in Folders /\ TrySetStatus(of[d], "error")
      BY <1>33 DEF GiveUp
  <2>2. /\ status' \in [Folders -> Statuses] /\ anchor' \in [Folders -> Nat]
        /\ mishaps' \in Nat /\ crashes' \in Nat
      BY <2>1, TrySetStatusTypes
  <2> QED
      BY <1>33, <2>2 DEF GiveUp, Close
<1>34. ASSUME NEW d \in Jobs, Finish(d)
      PROVE  TypeOK'
  <2>1. of[d] \in Folders /\ \E s \in Statuses : TrySetStatus(of[d], s)
      BY <1>34 DEF Finish
  <2>2. /\ status' \in [Folders -> Statuses] /\ anchor' \in [Folders -> Nat]
        /\ mishaps' \in Nat /\ crashes' \in Nat
      BY <2>1, TrySetStatusTypes
  <2> QED
      BY <1>34, <2>2 DEF Finish, Close
<1>35. ASSUME NEW d \in Jobs, NEW f \in Folders, StartCheck(d, f)
      PROVE  TypeOK'
    BY <1>35 DEF StartCheck
<1>36. ASSUME NEW f \in Folders, CancelToken(f)
      PROVE  TypeOK'
    BY <1>36 DEF CancelToken
<1>37. ASSUME NEW f \in Folders, CancelDelete(f)
      PROVE  TypeOK'
  <2>1. status' \in [Folders -> Statuses] /\ anchor' \in [Folders -> Nat]
      BY <1>37, UpsertTypes DEF CancelDelete
  <2>2. mishaps' \in Nat /\ crashes' \in Nat
      BY <1>37 DEF CancelDelete
  <2> QED
      BY <1>37, <2>1, <2>2 DEF CancelDelete
<1>38. ASSUME NEW f \in Folders, NEW u \in ForeignUids, MoveIn(f, u)
      PROVE  TypeOK'
    BY <1>38, UidAssumption DEF MoveIn
<1>39. ASSUME NEW a \in Accounts, RemoveSignal(a)
      PROVE  TypeOK'
    BY <1>39 DEF RemoveSignal
<1>40. ASSUME NEW a \in Accounts, RemoveLock(a)
      PROVE  TypeOK'
    BY <1>40 DEF RemoveLock
<1>41. ASSUME NEW a \in Accounts, RemoveRows(a)
      PROVE  TypeOK'
  <2>1. status' \in [Folders -> Statuses] /\ anchor' \in [Folders -> Nat]
      BY <1>41 DEF RemoveRows, Without
  <2>2. stored' \in [Folders -> SUBSET Nat] /\ foreign' \in [Folders -> SUBSET Nat]
      BY <1>41 DEF RemoveRows, Without
  <2> QED
      BY <1>41, <2>1, <2>2 DEF RemoveRows
<1>42. CASE ResumeList
  <2>1. \A f \in Folders : [folder |-> f, from |-> anchor[f]] \in [folder : Folders, from : Nat]
      OBVIOUS
  <2>2. listed' \subseteq [folder : Folders, from : Nat]
      BY <1>42, <2>1 DEF ResumeList
  <2> QED
      BY <1>42, <2>2 DEF ResumeList
<1>43. ASSUME NEW e \in listed, ResumeComplete(e)
      PROVE  TypeOK'
  <2>1. e.folder \in Folders /\ TrySetStatus(e.folder, "completed")
      BY <1>43 DEF ResumeComplete
  <2> QED
      BY <1>43, <2>1, TrySetStatusTypes DEF ResumeComplete
<1>44. ASSUME NEW e \in listed, ResumeSkip(e)
      PROVE  TypeOK'
    BY <1>44 DEF ResumeSkip
<1>45. ASSUME NEW e \in listed, NEW d \in Jobs, ResumeClaim(d, e)
      PROVE  TypeOK'
    BY <1>45 DEF ResumeClaim
<1>46. CASE Restart
    BY <1>46 DEF Restart
<1>47. CASE UNCHANGED vars
    BY <1>47 DEF vars
<1> HIDE DEF TypeOK
<1> QED
    BY <1>1, <1>2, <1>3, <1>4, <1>5, <1>6, <1>7, <1>8, <1>9, <1>10, <1>11, <1>12, <1>13, <1>14,
       <1>15, <1>16, <1>17, <1>18, <1>19, <1>20, <1>21, <1>22, <1>23, <1>24, <1>25, <1>26,
       <1>27, <1>28, <1>29, <1>30, <1>31, <1>32, <1>33, <1>34, <1>35, <1>36, <1>37, <1>38,
       <1>39, <1>40, <1>41, <1>42, <1>43, <1>44, <1>45, <1>46, <1>47
       DEF Next, Command, Producer, Driver, User, Engine, ResumeNext

(* A pipe that is emptied, or left alone with the anchor it starts from,    *)
(* stays a chain.                                                           *)
PipeKept(d) ==
    \/ pipe'[d] = <<>>
    \/ pipe'[d] = pipe[d] /\ last'[d] = last[d] /\ of'[d] = of[d]

(* Pipes that are all kept stay chains.                                     *)
LEMMA ChainsKept ==
    ASSUME PipesAreChains, \A d \in Jobs : PipeKept(d)
    PROVE  PipesAreChains'
<1> SUFFICES ASSUME NEW d \in Jobs, NEW i \in 1 .. Len(pipe'[d])
             PROVE  Follows(d, i)'
    BY DEF PipesAreChains
<1>1. pipe'[d] # <<>>
    OBVIOUS
<1>2. pipe'[d] = pipe[d] /\ last'[d] = last[d] /\ of'[d] = of[d]
    BY <1>1 DEF PipeKept
<1>3. Follows(d, i)
    BY <1>2 DEF PipesAreChains
<1> QED
    BY <1>2, <1>3 DEF Follows, Before

(* Who is not a live driver is registered nowhere.                          *)
LEMMA Unregistered ==
    ASSUME Control, NEW d \in Jobs, pc[d] \notin Waiting \cup Holding
    PROVE  \A f \in Folders : cancellers[f] # d
BY NoneAssumption DEF Control, RegisteredIsAlive

(* A job that ends is registered nowhere and has an empty pipe.             *)
LEMMA EndKeepsControl ==
    ASSUME TypeOK, Control, NEW d \in Jobs, Free(d), pc[d] \notin Consuming \cup {"idle"},
           \A f \in Folders : cancellers'[f] # d /\ cancellers'[f] \in {cancellers[f], None}
    PROVE  /\ BusyJobsHaveAFolder' /\ ConsumerControl' /\ RegisteredIsAlive'
           /\ \A e \in Jobs : PipeKept(e)
<1>1. /\ pc'[d] = "idle" /\ pipe[d] = <<>> /\ pipe' = pipe
      /\ \A e \in Jobs \ {d} : pc'[e] = pc[e] /\ of'[e] = of[e] /\ last'[e] = last[e]
    BY DEF Free, Go, TypeOK, Control, ConsumerControl
<1>2. BusyJobsHaveAFolder' /\ \A e \in Jobs : PipeKept(e)
    BY <1>1 DEF BusyJobsHaveAFolder, Busy, PipeKept, Control
<1>3. ConsumerControl'
  <2> SUFFICES ASSUME NEW e \in Jobs
               PROVE  /\ pc'[e] \notin Consuming => pipe'[e] = <<>>
                      /\ pc'[e] \in {"storing", "recording"} =>
                            pipe'[e] # <<>> /\ Head(pipe'[e]).kind = "chunk"
                      /\ pc'[e] = "completing" => last'[e] <= 1
      BY DEF ConsumerControl
  <2>1. CASE e = d
      BY <1>1, <2>1
  <2>2. CASE e # d
      BY <1>1, <2>2 DEF Control, ConsumerControl
  <2> QED
      BY <2>1, <2>2
<1>4. RegisteredIsAlive'
    BY <1>1, NoneAssumption DEF RegisteredIsAlive, Control, TypeOK
<1> QED
    BY <1>2, <1>3, <1>4

(* A job that begins is registered nowhere and has an empty pipe.           *)
LEMMA BeginKeepsControl ==
    ASSUME TypeOK, Control, NEW d \in Jobs, NEW f \in Folders, NEW s \in {"measuring", "claimed"},
           pc[d] = "idle", pc' = [pc EXCEPT ![d] = s], of' = [of EXCEPT ![d] = f],
           \A e \in Jobs \ {d} : last'[e] = last[e],
           UNCHANGED <<cancellers, pipe>>
    PROVE  /\ BusyJobsHaveAFolder' /\ ConsumerControl' /\ RegisteredIsAlive'
           /\ \A e \in Jobs : PipeKept(e)
<1>1. /\ pc'[d] = s /\ of'[d] = f /\ pipe[d] = <<>>
      /\ \A e \in Jobs \ {d} : pc'[e] = pc[e] /\ of'[e] = of[e]
    BY DEF TypeOK, Control, ConsumerControl, Consuming
<1>2. BusyJobsHaveAFolder' /\ \A e \in Jobs : PipeKept(e)
    BY <1>1 DEF BusyJobsHaveAFolder, Busy, PipeKept, Control
<1>3. ConsumerControl'
    BY <1>1 DEF Control, ConsumerControl, Consuming
<1>4. \A g \in Folders : cancellers[g] # d
    BY Unregistered DEF Waiting, Holding, Counted, Consuming
<1>5. RegisteredIsAlive'
    BY <1>1, <1>4 DEF RegisteredIsAlive, Control, TypeOK
<1> QED
    BY <1>2, <1>3, <1>5

(* What a fetch appends follows the end of the pipe.                        *)
LEMMA AppendKeepsControl ==
    ASSUME TypeOK, Control, NEW d \in Jobs, NEW c \in Chunks, pc[d] \in Consuming,
           ProducerAnchor(d) > 1,
           c.kind = "chunk" => /\ c.uids = ChunkUids(of[d], ProducerAnchor(d))
                               /\ IsNextAnchor(of[d], ProducerAnchor(d), c.next),
           pipe' = [pipe EXCEPT ![d] = Append(@, c)],
           UNCHANGED <<pc, of, last, cancellers>>
    PROVE  Control'
<1> DEFINE p == pipe[d]
<1>1. p \in Seq(Chunks) /\ Append(p, c) \in Seq(Chunks)
    BY DEF TypeOK
<1>2. /\ Len(p) \in Nat /\ Len(Append(p, c)) = Len(p) + 1
      /\ Append(p, c)[Len(p) + 1] = c
      /\ \A i \in 1 .. Len(p) : Append(p, c)[i] = p[i]
    BY <1>1, LenProperties
<1>3. pipe'[d] = Append(p, c) /\ \A e \in Jobs \ {d} : pipe'[e] = pipe[e]
    BY DEF TypeOK
<1>4. BusyJobsHaveAFolder' /\ RegisteredIsAlive'
    BY DEF Control, BusyJobsHaveAFolder, RegisteredIsAlive, Busy
<1>5. p # <<>> => Head(Append(p, c)) = Head(p)
    BY <1>1, <1>2
<1>6. Append(p, c) # <<>>
    BY <1>1, <1>2
<1>7. ConsumerControl'
    BY <1>3, <1>5, <1>6 DEF Control, ConsumerControl
<1>8. ASSUME NEW e \in Jobs, NEW i \in 1 .. Len(pipe'[e])
      PROVE  Follows(e, i)'
  <2>1. CASE e # d
    <3>1. pipe'[e] = pipe[e] /\ Follows(e, i)
        BY <1>3, <2>1 DEF Control, PipesAreChains
    <3> QED
        BY <3>1 DEF Follows, Before
  <2>2. CASE e = d /\ i <= Len(p)
    <3>1. i \in 1 .. Len(p) /\ Follows(d, i)
        BY <1>2, <1>3, <2>2 DEF Control, PipesAreChains
    <3>2. pipe'[d][i] = p[i] /\ (i # 1 => i - 1 \in 1 .. Len(p) /\ pipe'[d][i - 1] = p[i - 1])
        BY <1>2, <1>3, <3>1
    <3>3. Before(d, i)' = Before(d, i)
        BY <3>2 DEF Before
    <3> HIDE DEF p
    <3>4. pipe'[d][i] = pipe[d][i]
        BY <3>2 DEF p
    <3> QED
        BY <2>2, <3>1, <3>3, <3>4 DEF Follows
  <2>3. CASE e = d /\ i = Len(p) + 1
    <3>1. Before(d, i)' = ProducerAnchor(d)
      <4>1. CASE p = <<>>
          BY <1>2, <2>3, <4>1 DEF Before, ProducerAnchor
      <4>2. CASE p # <<>>
        <5>1. Len(p) \in 1 .. Len(p) /\ i - 1 = Len(p) /\ i # 1
            BY <1>1, <1>2, <2>3, <4>2, EmptySeq
        <5>2. pipe'[d][i - 1] = p[Len(p)]
            BY <1>2, <1>3, <5>1
        <5> QED
            BY <4>2, <5>1, <5>2 DEF Before, ProducerAnchor
      <4> QED
          BY <4>1, <4>2
    <3>2. pipe'[d][i] = c
        BY <1>2, <1>3, <2>3
    <3> QED
        BY <2>3, <3>1, <3>2 DEF Follows
  <2> QED
      BY <1>2, <1>3, <2>1, <2>2, <2>3
<1> QED
    BY <1>4, <1>7, <1>8 DEF Control, PipesAreChains

(* What the server answers follows the end of the pipe.                     *)
LEMMA FetchKeepsControl ==
    ASSUME TypeOK, Control, NEW d \in Jobs, Fetch(d)
    PROVE  Control'
<1> DEFINE a == ProducerAnchor(d)
<1>1. /\ of[d] \in Folders /\ a \in Nat /\ a > 1 /\ pc[d] \in Consuming
      /\ UNCHANGED <<pc, of, last, cancellers>>
    BY AnchorTypes DEF Fetch, Control, BusyJobsHaveAFolder, Busy, Consuming, jobState
<1>2. PICK n \in 0 .. a :
         /\ IsNextAnchor(of[d], a, n)
         /\ pipe' = [pipe EXCEPT ![d] = Append(@, Chunk(ChunkUids(of[d], a), n))]
    BY DEF Fetch
<1>3. Chunk(ChunkUids(of[d], a), n) \in Chunks
    BY <1>1, <1>2, ChunkTypes DEF Chunk, Chunks
<1> DEFINE c == Chunk(ChunkUids(of[d], a), n)
<1>4. c.uids = ChunkUids(of[d], a) /\ c.next = n
    BY DEF Chunk
<1> HIDE DEF c, a
<1> QED
    BY <1>1, <1>2, <1>3, <1>4, AppendKeepsControl DEF c, a

(* A failure is appended like a chunk.                                      *)
LEMMA FetchGivesUpKeepsControl ==
    ASSUME TypeOK, Control, NEW d \in Jobs, FetchGivesUp(d)
    PROVE  Control'
<1>1. Failure(ProducerAnchor(d)) \in Chunks /\ Failure(ProducerAnchor(d)).kind # "chunk"
    BY AnchorTypes DEF Failure, Chunks
<1> QED
    BY <1>1, AppendKeepsControl DEF FetchGivesUp, jobState

(* The anchor of a chunk that was really fetched moves down.                *)
LEMMA NeverStuck ==
    ASSUME NEW f \in Folders, NEW a \in Nat, a > 1, NEW n \in Nat, IsNextAnchor(f, a, n)
    PROVE  n < a
<1>1. LowEnd(a) \in Nat /\ LowEnd(a) < a /\ LowEnd(a) >= 1
    BY SizeAssumption DEF LowEnd
<1>2. CASE ChunkUids(f, a) # {}
    BY <1>2, UidAssumption DEF IsNextAnchor, ChunkUids, Below
<1>3. CASE ChunkUids(f, a) = {}
  <2>1. n - 1 \in Below(f, a) => n < a
    <3>1. SUFFICES ASSUME n - 1 \in Below(f, a), n >= a
                   PROVE  FALSE
        OBVIOUS
    <3>2. n - 1 \in ChunkUids(f, a)
        BY <1>1, <3>1 DEF ChunkUids, Below
    <3> QED
        BY <1>3, <3>2
  <2> QED
      BY <1>1, <1>3, <2>1 DEF IsNextAnchor
<1> QED
    BY <1>2, <1>3

(* The recorded chunk leaves the pipe and its end becomes the job's anchor. *)
LEMMA RecordKeepsControl ==
    ASSUME TypeOK, Control, NEW d \in Jobs, Record(d)
    PROVE  Control'
<1> DEFINE p == pipe[d]
<1> DEFINE c == Head(p)
<1>1. /\ of[d] \in Folders /\ p \in Seq(Chunks) /\ p # <<>> /\ c.kind = "chunk"
      /\ last[d] \in Nat
    BY DEF Record, TypeOK, Control, BusyJobsHaveAFolder, ConsumerControl, Busy
<1>2. /\ c \in Chunks /\ Tail(p) \in Seq(Chunks) /\ Len(p) \in Nat \ {0}
      /\ Len(Tail(p)) = Len(p) - 1 /\ \A i \in 1 .. Len(Tail(p)) : Tail(p)[i] = p[i + 1]
    BY <1>1, HeadTailProperties, EmptySeq
<1>3. c = p[1]
    BY <1>1, <1>2
<1>4. last[d] > 1 /\ c.uids = ChunkUids(of[d], last[d]) /\ IsNextAnchor(of[d], last[d], c.next)
  <2>1. Follows(d, 1)
      BY <1>2 DEF Control, PipesAreChains
  <2> QED
      BY <1>1, <1>3, <2>1 DEF Follows, Before
<1>5. c.next < last[d] /\ c.next \in Nat
    BY <1>1, <1>2, <1>4, NeverStuck DEF Chunks
<1>6. ~Stuck(c, last[d])
    BY <1>1, <1>5 DEF Stuck
<1>7. /\ pc' = [pc EXCEPT ![d] = "pulling"] /\ last' = [last EXCEPT ![d] = c.next]
      /\ pipe' = [pipe EXCEPT ![d] = Tail(p)] /\ UNCHANGED <<of, cancellers>> /\ pc[d] = "recording"
    BY <1>6 DEF Record, Go
<1> HIDE DEF c
<1>8. /\ pc'[d] = "pulling" /\ last'[d] = c.next /\ pipe'[d] = Tail(p)
      /\ \A e \in Jobs \ {d} : pc'[e] = pc[e] /\ last'[e] = last[e] /\ pipe'[e] = pipe[e]
    BY <1>7 DEF TypeOK
<1>9. BusyJobsHaveAFolder' /\ RegisteredIsAlive'
    BY <1>1, <1>7, <1>8, NoneAssumption
       DEF Control, BusyJobsHaveAFolder, RegisteredIsAlive, Busy, TypeOK, Waiting, Holding,
           Counted, Consuming
<1>10. ConsumerControl'
    BY <1>8 DEF Control, ConsumerControl, Consuming
<1>11. ASSUME NEW e \in Jobs, NEW i \in 1 .. Len(pipe'[e])
       PROVE  Follows(e, i)'
  <2>1. CASE e # d
    <3>1. pipe'[e] = pipe[e] /\ last'[e] = last[e] /\ Follows(e, i)
        BY <1>8, <2>1 DEF Control, PipesAreChains
    <3> QED
        BY <1>7, <3>1 DEF Follows, Before
  <2>2. CASE e = d
    <3>1. i + 1 \in 1 .. Len(p) /\ pipe'[d][i] = p[i + 1]
      <4>1. i \in 1 .. Len(Tail(p)) /\ pipe'[d] = Tail(p)
          BY <1>8, <2>2
      <4> QED
          BY <1>2, <4>1
    <3>2. Follows(d, i + 1)
        BY <3>1 DEF Control, PipesAreChains
    <3>3. Before(d, i)' = Before(d, i + 1)
      <4>1. CASE i = 1
          BY <1>3, <1>8, <4>1 DEF Before, c
      <4>2. CASE i # 1
        <5>1. i - 1 \in 1 .. Len(Tail(p)) /\ (i - 1) + 1 = i /\ (i + 1) - 1 = i /\ i + 1 # 1
            BY <1>2, <1>8, <2>2, <3>1, <4>2
        <5>2. pipe'[d][i - 1] = p[i]
            BY <1>2, <1>8, <5>1
        <5> QED
            BY <4>2, <5>1, <5>2 DEF Before
      <4> QED
          BY <4>1, <4>2
    <3> QED
        BY <1>7, <2>2, <3>1, <3>2, <3>3 DEF Follows
  <2> QED
      BY <2>1, <2>2
<1> QED
    BY <1>9, <1>10, <1>11 DEF Control, PipesAreChains

(* Every step keeps the folder of a busy job, the tokens of live drivers,   *)
(* the consumer's registers and the chain of chunks in a pipe.              *)
LEMMA ControlStep == TypeOK /\ Control /\ [Next]_vars => Control'
<1> SUFFICES ASSUME TypeOK, Control, [Next]_vars
             PROVE  Control'
    OBVIOUS
<1>0. BusyJobsHaveAFolder /\ PipesAreChains /\ ConsumerControl /\ RegisteredIsAlive
    BY DEF Control
<1>c. Control
    OBVIOUS
<1>t. TypeOK
    OBVIOUS
<1> DEFINE Kept == \A e \in Jobs : PipeKept(e)
           Local == BusyJobsHaveAFolder /\ ConsumerControl /\ RegisteredIsAlive
<1>a. Kept => PipesAreChains'
    BY <1>0, ChainsKept
<1> USE <1>0, <1>c, NoneAssumption, FolderAssumption
        DEF TypeOK, table, store, jobState, pipeline, commands, budget, Go, Busy, PipeKept,
            BusyJobsHaveAFolder, ConsumerControl, RegisteredIsAlive,
            Starting, Waiting, Holding, Counted, Consuming, Steps
<1>1. ASSUME NEW d \in Jobs, StartMeasure(d)
      PROVE  Local' /\ Kept
    BY <1>1 DEF StartMeasure
<1>2. ASSUME NEW d \in Jobs, StartRefused(d)
      PROVE  Local' /\ Kept
  <2>1. Free(d) /\ pc[d] \notin Consuming \cup {"idle"} /\ UNCHANGED cancellers
      BY <1>2 DEF StartRefused
  <2>2. \A f \in Folders : cancellers[f] # d
      BY <1>2, Unregistered DEF StartRefused
  <2>3. \A f \in Folders : cancellers'[f] # d /\ cancellers'[f] \in {cancellers[f], None}
      BY <2>1, <2>2
  <2> QED
      BY ONLY <1>c, <1>t, <2>1, <2>3, EndKeepsControl
<1>3. ASSUME NEW d \in Jobs, StartPersist(d)
      PROVE  Local' /\ Kept
    BY <1>3 DEF StartPersist
<1>4. ASSUME NEW d \in Jobs, StartNothingLeft(d)
      PROVE  Local' /\ Kept
  <2>1. Free(d) /\ pc[d] \notin Consuming \cup {"idle"} /\ UNCHANGED cancellers
      BY <1>4 DEF StartNothingLeft
  <2>2. \A f \in Folders : cancellers[f] # d
      BY <1>4, Unregistered DEF StartNothingLeft
  <2>3. \A f \in Folders : cancellers'[f] # d /\ cancellers'[f] \in {cancellers[f], None}
      BY <2>1, <2>2
  <2> QED
      BY ONLY <1>c, <1>t, <2>1, <2>3, EndKeepsControl
<1>5. ASSUME NEW d \in Jobs, StartPersistFails(d)
      PROVE  Local' /\ Kept
  <2>1. Free(d) /\ pc[d] \notin Consuming \cup {"idle"} /\ UNCHANGED cancellers
      BY <1>5 DEF StartPersistFails
  <2>2. \A f \in Folders : cancellers[f] # d
      BY <1>5, Unregistered DEF StartPersistFails
  <2>3. \A f \in Folders : cancellers'[f] # d /\ cancellers'[f] \in {cancellers[f], None}
      BY <2>1, <2>2
  <2> QED
      BY ONLY <1>c, <1>t, <2>1, <2>3, EndKeepsControl
<1>6. ASSUME NEW d \in Jobs, StartRegister(d)
      PROVE  Local' /\ Kept
    BY <1>6 DEF StartRegister, Register
<1>7. ASSUME NEW d \in Jobs, ResumeRegister(d)
      PROVE  Local' /\ Kept
    BY <1>7 DEF ResumeRegister, Register
<1>8. ASSUME NEW d \in Jobs, FetchFails(d)
      PROVE  Local' /\ Kept
    BY <1>8 DEF FetchFails
<1>9. ASSUME NEW d \in Jobs, ProducerStops(d)
      PROVE  Local' /\ Kept
    BY <1>9 DEF ProducerStops
<1>10. ASSUME NEW d \in Jobs, MarkPending(d)
      PROVE  Local' /\ Kept
    BY <1>10 DEF MarkPending
<1>11. ASSUME NEW d \in Jobs, LookUpLock(d)
      PROVE  Local' /\ Kept
    BY <1>11 DEF LookUpLock
<1>12. ASSUME NEW d \in Jobs, Acquire(d)
      PROVE  Local' /\ Kept
    BY <1>12 DEF Acquire
<1>13. ASSUME NEW d \in Jobs, MarkRunning(d)
      PROVE  Local' /\ Kept
    BY <1>13 DEF MarkRunning
<1>14. ASSUME NEW d \in Jobs, BailOut(d)
      PROVE  Local' /\ Kept
    BY <1>14 DEF BailOut
<1>15. ASSUME NEW d \in Jobs, GoOn(d)
      PROVE  Local' /\ Kept
    BY <1>15 DEF GoOn
<1>16. ASSUME NEW d \in Jobs, OpenFails(d)
      PROVE  Local' /\ Kept
    BY <1>16 DEF OpenFails
<1>17. ASSUME NEW d \in Jobs, Opened(d)
      PROVE  Local' /\ Kept
    BY <1>17 DEF Opened
<1>18. ASSUME NEW d \in Jobs, StartPull(d)
      PROVE  Local' /\ Kept
    BY <1>18 DEF StartPull
<1>19. ASSUME NEW d \in Jobs, StartPullFails(d)
      PROVE  Local' /\ Kept
    BY <1>19 DEF StartPullFails
<1>20. ASSUME NEW d \in Jobs, DropIndex(d)
      PROVE  Local' /\ Kept
    BY <1>20 DEF DropIndex
<1>21. ASSUME NEW d \in Jobs, Receive(d)
      PROVE  Local' /\ Kept
    BY <1>21 DEF Receive
<1>22. ASSUME NEW d \in Jobs, ReceiveCancelled(d)
      PROVE  Local' /\ Kept
    BY <1>22 DEF ReceiveCancelled
<1>23. ASSUME NEW d \in Jobs, StoreChunk(d)
      PROVE  Local' /\ Kept
    BY <1>23 DEF StoreChunk
<1>24. ASSUME NEW d \in Jobs, StoreFails(d)
      PROVE  Local' /\ Kept
    BY <1>24 DEF StoreFails, Close
<1>25. ASSUME NEW d \in Jobs, RecordFails(d)
      PROVE  Local' /\ Kept
    BY <1>25 DEF RecordFails, Close
<1>26. ASSUME NEW d \in Jobs, GiveUp(d)
      PROVE  Local' /\ Kept
    BY <1>26 DEF GiveUp, Close
<1>27. ASSUME NEW d \in Jobs, Drained(d)
      PROVE  Local' /\ Kept
    BY <1>27 DEF Drained
<1>28. ASSUME NEW d \in Jobs, Finish(d)
      PROVE  Local' /\ Kept
    BY <1>28 DEF Finish, Close
<1>29. ASSUME NEW d \in Jobs, RebuildIndex(d)
      PROVE  Local' /\ Kept
    BY <1>29 DEF RebuildIndex
<1>30. ASSUME NEW d \in Jobs, EndPull(d)
      PROVE  Local' /\ Kept
    BY <1>30 DEF EndPull
<1>31. ASSUME NEW d \in Jobs, DropCanceller(d)
      PROVE  Local' /\ Kept
  <2>1. Free(d) /\ pc[d] \notin Consuming \cup {"idle"}
      BY <1>31 DEF DropCanceller
  <2>2. \A f \in Folders : cancellers'[f] # d /\ cancellers'[f] \in {cancellers[f], None}
      BY <1>31 DEF DropCanceller
  <2> QED
      BY ONLY <1>c, <1>t, <2>1, <2>2, EndKeepsControl
<1>32. ASSUME NEW d \in Jobs, NEW f \in Folders, StartCheck(d, f)
      PROVE  Local' /\ Kept
    BY <1>32, BeginKeepsControl DEF StartCheck
<1>33. ASSUME NEW f \in Folders, CancelToken(f)
      PROVE  Local' /\ Kept
    BY <1>33 DEF CancelToken
<1>34. ASSUME NEW f \in Folders, CancelDelete(f)
      PROVE  Local' /\ Kept
    BY <1>34 DEF CancelDelete
<1>35. ASSUME NEW f \in Folders, NEW u \in ForeignUids, MoveIn(f, u)
      PROVE  Local' /\ Kept
    BY <1>35 DEF MoveIn
<1>36. ASSUME NEW a \in Accounts, RemoveSignal(a)
      PROVE  Local' /\ Kept
    BY <1>36 DEF RemoveSignal
<1>37. ASSUME NEW a \in Accounts, RemoveLock(a)
      PROVE  Local' /\ Kept
    BY <1>37 DEF RemoveLock
<1>38. ASSUME NEW a \in Accounts, RemoveRows(a)
      PROVE  Local' /\ Kept
    BY <1>38 DEF RemoveRows
<1>39. ResumeList => Local' /\ Kept
    BY DEF ResumeList
<1>40. ASSUME NEW e \in listed, ResumeComplete(e)
      PROVE  Local' /\ Kept
    BY <1>40 DEF ResumeComplete
<1>41. ASSUME NEW e \in listed, ResumeSkip(e)
      PROVE  Local' /\ Kept
    BY <1>41 DEF ResumeSkip
<1>42. ASSUME NEW e \in listed, NEW d \in Jobs, ResumeClaim(d, e)
      PROVE  Local' /\ Kept
  <2>1. e.folder \in Folders /\ \A j \in Jobs \ {d} : last'[j] = last[j]
      BY <1>42 DEF ResumeClaim
  <2> QED
      BY <1>42, <2>1, BeginKeepsControl DEF ResumeClaim
<1>43. Restart => Local' /\ Kept
    BY DEF Restart
<1>44. UNCHANGED vars => Local' /\ Kept
    BY DEF vars
<1>45. ASSUME NEW d \in Jobs, Fetch(d)
      PROVE  Control'
    BY <1>45, FetchKeepsControl
<1>46. ASSUME NEW d \in Jobs, FetchGivesUp(d)
      PROVE  Control'
    BY <1>46, FetchGivesUpKeepsControl
<1>47. ASSUME NEW d \in Jobs, Record(d)
      PROVE  Control'
    BY <1>47, RecordKeepsControl
<1> HIDE DEF TypeOK, table, store, jobState, pipeline, commands, budget, Go, Busy, PipeKept,
             BusyJobsHaveAFolder, ConsumerControl, RegisteredIsAlive,
             Starting, Waiting, Holding, Counted, Consuming, Steps
<1> QED
    BY <1>a, <1>1, <1>2, <1>3, <1>4, <1>5, <1>6, <1>7, <1>8, <1>9, <1>10, <1>11, <1>12, <1>13,
       <1>14, <1>15, <1>16, <1>17, <1>18, <1>19, <1>20, <1>21, <1>22, <1>23, <1>24, <1>25,
       <1>26, <1>27, <1>28, <1>29, <1>30, <1>31, <1>32, <1>33, <1>34, <1>35, <1>36, <1>37,
       <1>38, <1>39, <1>40, <1>41, <1>42, <1>43, <1>44, <1>45, <1>46, <1>47
       DEF Control, Next, Command, Producer, Driver, User, Engine, ResumeNext

(* What a step leaves of the store, a row, a job and the listed rows, if    *)
(* the invariant is to hold after it.                                       *)
Grows == \A f \in Folders : Sound(f)' => Sound(f) /\ stored[f] \subseteq stored'[f]
RowFine(f) ==
    \/ status'[f] = "absent"
    \/ /\ Exists(f) /\ (Sound(f) => Has(f, anchor'[f]))
       /\ status'[f] = "completed" /\ Sound(f) => Uids[f] \subseteq stored[f]
JobFine(d) ==
    \/ pc'[d] \in {"idle", "measuring"}
    \/ \E f \in Folders :
         /\ of'[d] = f /\ (Sound(f) => Has(f, last'[d]))
         /\ pc'[d] = "recording" /\ Sound(f) /\ Sound(f)' =>
              Head(pipe'[d]).uids \subseteq stored'[f]
ListFine == \A e \in listed' : e.folder \in Folders /\ (Sound(e.folder) => Has(e.folder, e.from))
StoreFine == Grows /\ NoHoles' /\ RemovedLeavesNothing'

(* Has is about more messages when the anchor goes down, and stays true     *)
(* when more is stored.                                                     *)
LEMMA FineIsEnough ==
    ASSUME TypeOK, TypeOK', StoreFine, ListFine,
           \A f \in Folders : RowFine(f), \A d \in Jobs : JobFine(d)
    PROVE  Honesty'
<1>1. \A f \in Folders, a \in Nat : Has(f, a) /\ Sound(f)' => Has(f, a)'
    BY DEF StoreFine, Grows, Has
<1>2. AnchorIsHonest'
  <2> SUFFICES ASSUME NEW f \in Folders, status'[f] # "absent", foreign'[f] = {}
               PROVE  \A u \in Uids[f] : u >= anchor'[f] => u \in stored'[f]
      BY DEF AnchorIsHonest, Has
  <2>1. Sound(f)'
      BY DEF StoreFine, RemovedLeavesNothing, Sound
  <2>2. Sound(f) /\ stored[f] \subseteq stored'[f]
      BY <2>1 DEF StoreFine, Grows
  <2> QED
      BY <2>2 DEF RowFine, Has
<1>3. CompletedIsComplete'
  <2> SUFFICES ASSUME NEW f \in Folders, status'[f] = "completed", foreign'[f] = {}
               PROVE  Uids[f] \subseteq stored'[f]
      BY DEF CompletedIsComplete
  <2>1. Sound(f)'
      BY DEF StoreFine, RemovedLeavesNothing, Sound
  <2>2. Sound(f) /\ stored[f] \subseteq stored'[f]
      BY <2>1 DEF StoreFine, Grows
  <2> QED
      BY <2>2 DEF RowFine
<1>4. ASSUME NEW d \in Jobs, pc'[d] \notin {"idle", "measuring"}
      PROVE  /\ Sound(of[d])' => Has(of[d], last[d])'
             /\ pc'[d] = "recording" /\ Sound(of[d])' => Head(pipe'[d]).uids \subseteq stored'[of'[d]]
  <2>1. PICK f \in Folders :
           /\ of'[d] = f /\ (Sound(f) => Has(f, last'[d]))
           /\ pc'[d] = "recording" /\ Sound(f) /\ Sound(f)' =>
                Head(pipe'[d]).uids \subseteq stored'[f]
      BY <1>4 DEF JobFine
  <2>2. Sound(of[d])' => Sound(f)'
      BY <2>1 DEF Sound, Exists
  <2>3. Sound(f)' => Sound(f) /\ stored[f] \subseteq stored'[f]
      BY DEF StoreFine, Grows
  <2> QED
      BY <2>1, <2>2, <2>3 DEF Has
<1>5. JobsAreHonest' /\ RecordingIsStored'
    BY <1>4 DEF JobsAreHonest, RecordingIsStored
<1>6. ListedIsHonest'
  <2> SUFFICES ASSUME NEW e \in listed', Sound(e.folder)'
               PROVE  Has(e.folder, e.from)'
      BY DEF ListedIsHonest
  <2>1. Sound(e.folder) /\ stored[e.folder] \subseteq stored'[e.folder]
      BY DEF StoreFine, Grows, ListFine
  <2> QED
      BY <2>1 DEF ListFine, Has
<1> QED
    BY <1>2, <1>3, <1>5, <1>6 DEF Honesty, StoreFine

(* Most steps leave the store alone.                                        *)
Still ==
    /\ UNCHANGED <<stored, foreign>>
    /\ \A a \in Accounts : gone'[a] < 3 <=> gone[a] < 3

(* A step that leaves the store alone leaves it fine.                       *)
LEMMA StillIsFine ==
    ASSUME TypeOK, Honesty, Still, \A f \in Folders : RowFine(f)
    PROVE  StoreFine
<1>1. \A f \in Folders : Exists(f)' <=> Exists(f)
    BY FolderAssumption DEF Still, Exists
<1>2. \A f \in Folders : Sound(f)' <=> Sound(f)
    BY <1>1 DEF Sound, Still
<1>3. NoHoles'
    BY <1>2 DEF Honesty, NoHoles, Newest, Still
<1>4. RemovedLeavesNothing'
    BY <1>1 DEF Honesty, RemovedLeavesNothing, Still, RowFine
<1> QED
    BY <1>2, <1>3, <1>4 DEF StoreFine, Grows, Still

(* Rows that are left alone, or whose status alone changes, are fine.       *)
LEMMA UntouchedRows ==
    ASSUME TypeOK, Honesty, NEW f \in Folders, status'[f] \in {status[f], "absent"},
           anchor'[f] = anchor[f]
    PROVE  RowFine(f)
BY DEF RowFine, Honesty, RemovedLeavesNothing, AnchorIsHonest, CompletedIsComplete, Sound

(* A set_status leaves the rows fine, "completed" only on a complete folder. *)
LEMMA StatusIsFine ==
    ASSUME TypeOK, Honesty, NEW g \in Folders, NEW s \in Statuses, TrySetStatus(g, s),
           s = "completed" /\ Sound(g) => Uids[g] \subseteq stored[g]
    PROVE  \A f \in Folders : RowFine(f)
<1> SUFFICES ASSUME NEW f \in Folders
             PROVE  RowFine(f)
    OBVIOUS
<1>1. CASE status'[f] = status[f] /\ anchor'[f] = anchor[f]
    BY <1>1, UntouchedRows
<1>2. CASE f = g /\ status[f] # "absent" /\ status'[f] = s /\ anchor'[f] = anchor[f]
    BY <1>2 DEF RowFine, Honesty, RemovedLeavesNothing, AnchorIsHonest, Sound
<1> QED
    BY <1>1, <1>2 DEF TrySetStatus, SetStatus, table, TypeOK

(* So does an upsert of an honest anchor.                                   *)
LEMMA UpsertIsFine ==
    ASSUME TypeOK, Honesty, NEW g \in Folders, NEW s \in Statuses, NEW a \in Nat, Upsert(g, s, a),
           s # "absent" => /\ Exists(g) /\ (Sound(g) => Has(g, a))
                           /\ s = "completed" => a <= 1
    PROVE  \A f \in Folders : RowFine(f)
<1> SUFFICES ASSUME NEW f \in Folders
             PROVE  RowFine(f)
    OBVIOUS
<1>1. CASE f # g
    BY <1>1, UntouchedRows DEF Upsert, TypeOK
<1>2. CASE f = g
  <2>1. status'[f] = s /\ anchor'[f] = a
      BY <1>2 DEF Upsert, TypeOK
  <2>2. Has(f, a) /\ a <= 1 => Uids[f] \subseteq stored[f]
      BY UidAssumption DEF Has
  <2> QED
      BY <1>2, <2>1, <2>2 DEF RowFine
<1> QED
    BY <1>1, <1>2

(* A job that keeps its folder and its anchor, and records only if it did.  *)
LEMMA KeptJob ==
    ASSUME TypeOK, Control, Honesty, NEW d \in Jobs, pc[d] \notin {"idle", "measuring"},
           of'[d] = of[d], last'[d] = last[d], Grows,
           pc'[d] = "recording" => pc[d] = "recording" /\ Head(pipe'[d]) = Head(pipe[d])
    PROVE  JobFine(d)
<1>1. of[d] \in Folders
    BY DEF Control, BusyJobsHaveAFolder, Busy
<1>2. /\ Sound(of[d]) => Has(of[d], last[d])
      /\ pc[d] = "recording" /\ Sound(of[d]) => Head(pipe[d]).uids \subseteq stored[of[d]]
    BY DEF Honesty, JobsAreHonest, RecordingIsStored
<1> QED
    BY <1>1, <1>2 DEF JobFine, Grows

(* A job keeps its folder and its anchor.                                   *)
JobKept(d) ==
    \/ pc'[d] \in {"idle", "measuring"}
    \/ /\ pc[d] \notin {"idle", "measuring"} /\ of'[d] = of[d] /\ last'[d] = last[d]
       /\ pc'[d] = "recording" => pc[d] = "recording" /\ Head(pipe'[d]) = Head(pipe[d])

(* A step is fine when each job is kept or fine.                            *)
LEMMA FineStep ==
    ASSUME TypeOK, TypeOK', Control, Honesty, StoreFine, listed' \subseteq listed \/ ListFine,
           \A d \in Jobs : JobKept(d) \/ JobFine(d), \A f \in Folders : RowFine(f)
    PROVE  Honesty'
<1>1. \A d \in Jobs : JobFine(d)
    BY KeptJob DEF JobKept, JobFine, StoreFine
<1>2. listed' \subseteq listed => ListFine
    BY DEF ListFine, Honesty, ListedIsHonest, TypeOK
<1> QED
    BY <1>1, <1>2, FineIsEnough

(* The same for a step that leaves the store alone.                         *)
LEMMA QuietStep ==
    ASSUME TypeOK, TypeOK', Control, Honesty, Still, listed' \subseteq listed \/ ListFine,
           \A d \in Jobs : JobKept(d) \/ JobFine(d), \A f \in Folders : RowFine(f)
    PROVE  Honesty'
BY StillIsFine, FineStep

(* The same for a step that leaves the rows alone too.                      *)
LEMMA QuieterStep ==
    ASSUME TypeOK, TypeOK', Control, Honesty, Still, UNCHANGED table,
           listed' \subseteq listed \/ ListFine, \A d \in Jobs : JobKept(d) \/ JobFine(d)
    PROVE  Honesty'
<1>1. \A f \in Folders : RowFine(f)
    BY UntouchedRows DEF table
<1> QED
    BY <1>1, QuietStep

(* A fetch appends one chunk or failure to a pipe.                          *)
LEMMA FetchAppends ==
    ASSUME TypeOK, Control, NEW d \in Jobs, Fetch(d) \/ FetchGivesUp(d)
    PROVE  \E c \in Chunks : pipe' = [pipe EXCEPT ![d] = Append(@, c)]
<1> DEFINE a == ProducerAnchor(d)
<1>1. a \in Nat
    BY AnchorTypes
<1>2. CASE Fetch(d)
  <2>1. of[d] \in Folders
      BY <1>2 DEF Fetch, Control, BusyJobsHaveAFolder, Busy, Consuming
  <2>2. PICK n \in 0 .. a : pipe' = [pipe EXCEPT ![d] = Append(@, Chunk(ChunkUids(of[d], a), n))]
      BY <1>2 DEF Fetch
  <2>3. Chunk(ChunkUids(of[d], a), n) \in Chunks
      BY <1>1, <2>1, ChunkTypes DEF Chunk, Chunks
  <2> HIDE DEF a
  <2> QED
      BY <2>2, <2>3
<1>3. CASE FetchGivesUp(d)
  <2>1. Failure(a) \in Chunks
      BY <1>1 DEF Failure, Chunks
  <2> QED
      BY <1>3, <2>1 DEF FetchGivesUp
<1> QED
    BY <1>2, <1>3

(* What is appended to a pipe is not its head.                              *)
LEMMA HeadStays ==
    ASSUME TypeOK, NEW d \in Jobs, NEW c \in Chunks, pipe[d] # <<>>,
           pipe' = [pipe EXCEPT ![d] = Append(@, c)]
    PROVE  Head(pipe'[d]) = Head(pipe[d])
<1>1. pipe[d] \in Seq(Chunks) /\ pipe'[d] = Append(pipe[d], c)
    BY DEF TypeOK
<1> QED
    BY <1>1

(* A chunk is stored below an honest anchor: no hole opens.                 *)
LEMMA StoreKeepsHonesty ==
    ASSUME TypeOK, TypeOK', Control, Honesty, NEW d \in Jobs, StoreChunk(d)
    PROVE  Honesty'
<1> DEFINE f == of[d]
<1> DEFINE c == Head(pipe[d])
<1>1. /\ f \in Folders /\ pipe[d] \in Seq(Chunks) /\ pipe[d] # <<>> /\ c.kind = "chunk"
      /\ pc[d] = "storing"
    BY DEF StoreChunk, TypeOK, Control, BusyJobsHaveAFolder, ConsumerControl, Busy
<1>2. c = pipe[d][1] /\ 1 \in 1 .. Len(pipe[d])
    BY <1>1, EmptySeq
<1>3. c.uids = ChunkUids(f, last[d])
  <2>1. Follows(d, 1)
      BY <1>2 DEF Control, PipesAreChains
  <2> QED
      BY <1>1, <1>2, <2>1 DEF Follows, Before
<1>4. Sound(f) => Has(f, last[d])
    BY <1>1 DEF Honesty, JobsAreHonest
<1> HIDE DEF c
<1>5. /\ stored' = [stored EXCEPT ![f] = @ \cup c.uids]
      /\ UNCHANGED <<table, foreign, gone, listed, of, last, pipe>>
      /\ pc' = [pc EXCEPT ![d] = "recording"]
      /\ Exists(f) \/ c.uids = {}
    BY DEF StoreChunk, c, Go, pipeline, commands
<1>6. \A g \in Folders : (Sound(g)' <=> Sound(g)) /\ (Exists(g)' <=> Exists(g))
    BY <1>5 DEF Sound, Exists
<1>7. /\ stored'[f] = stored[f] \cup c.uids
      /\ \A g \in Folders \ {f} : stored'[g] = stored[g]
    BY <1>1, <1>5 DEF TypeOK
<1>8. Grows
    BY <1>6, <1>7 DEF Grows
<1>9. ASSUME NEW g \in Folders, Sound(g)'
      PROVE  Newest(stored'[g], g)
  <2>1. Newest(stored[g], g)
      BY <1>6, <1>9 DEF Honesty, NoHoles
  <2>2. CASE g # f
      BY <1>7, <2>1, <2>2
  <2>3. CASE g = f
    <3>1. Has(f, last[d])
        BY <1>4, <1>6, <1>9, <2>3
    <3>2. last[d] \in Nat /\ LowEnd(last[d]) \in Int /\ Uids[f] \in SUBSET Nat
        BY <1>1, UidAssumption, SizeAssumption DEF TypeOK, LowEnd
    <3>3. ASSUME NEW u \in stored'[f], NEW v \in Uids[f], v >= u
          PROVE  v \in stored'[f]
      <4>1. CASE u \in stored[f]
          BY <1>7, <2>1, <2>3, <3>3, <4>1 DEF Newest
      <4>2. CASE u \in c.uids /\ v >= last[d]
          BY <1>7, <3>1, <4>2 DEF Has
      <4>3. CASE u \in c.uids /\ ~(v >= last[d])
        <5>1. u \in Nat /\ u >= LowEnd(last[d])
            BY <1>3, <3>2, <4>3 DEF ChunkUids, Below
        <5>2. v \in c.uids
            BY <1>3, <3>2, <3>3, <4>3, <5>1 DEF ChunkUids, Below
        <5> QED
            BY <1>7, <5>2
      <4> QED
          BY <1>7, <4>1, <4>2, <4>3
    <3>4. stored'[f] \subseteq Uids[f]
        BY <1>3, <1>7, <2>1, <2>3 DEF Newest, ChunkUids, Below
    <3> QED
        BY <2>3, <3>3, <3>4 DEF Newest
  <2> QED
      BY <2>2, <2>3
<1>10. RemovedLeavesNothing'
    BY <1>5, <1>6, <1>7 DEF Honesty, RemovedLeavesNothing, table
<1>11. StoreFine
    BY <1>8, <1>9, <1>10 DEF StoreFine, NoHoles
<1>12. JobFine(d)
    BY <1>1, <1>4, <1>5, <1>7 DEF JobFine, c
<1>13. \A e \in Jobs \ {d} : JobKept(e)
    BY <1>5 DEF JobKept, TypeOK
<1>14. \A g \in Folders : RowFine(g)
    BY <1>5, UntouchedRows DEF table
<1> QED
    BY <1>5, <1>11, <1>12, <1>13, <1>14, FineStep

(* Where a chunk ends there is nothing of the folder in between.            *)
LEMMA ChunkReachesItsEnd ==
    ASSUME NEW f \in Folders, NEW a \in Nat, NEW n \in Nat, IsNextAnchor(f, a, n),
           Has(f, a), ChunkUids(f, a) \subseteq stored[f]
    PROVE  Has(f, n)
<1> SUFFICES ASSUME NEW u \in Uids[f], u >= n, ~(u >= a)
             PROVE  u \in stored[f]
    BY DEF Has
<1>1. u \in Nat \ {0} /\ LowEnd(a) \in Nat
    BY UidAssumption, SizeAssumption DEF LowEnd
<1>2. u \in Below(f, a)
    BY <1>1 DEF Below
<1>3. CASE ChunkUids(f, a) # {}
  <2>1. n \in ChunkUids(f, a)
      BY <1>3 DEF IsNextAnchor
  <2>2. u \in ChunkUids(f, a)
      BY <1>1, <1>2, <2>1 DEF ChunkUids
  <2> QED
      BY <2>2
<1>4. CASE ChunkUids(f, a) = {}
  <2>1. ~(n = LowEnd(a))
      BY <1>1, <1>2, <1>4 DEF ChunkUids
  <2>2. ~(n = 0 /\ Below(f, a) = {})
      BY <1>2
  <2>3. ~(u <= n - 1)
      BY <1>1
  <2> QED
      BY <1>2, <1>4, <2>1, <2>2, <2>3 DEF IsNextAnchor
<1> QED
    BY <1>3, <1>4

(* A recorded anchor is honest: its chunk is stored.                        *)
LEMMA RecordKeepsHonesty ==
    ASSUME TypeOK, TypeOK', Control, Honesty, NEW d \in Jobs, Record(d)
    PROVE  Honesty'
<1> DEFINE f == of[d]
<1> DEFINE c == Head(pipe[d])
<1>1. /\ f \in Folders /\ pipe[d] \in Seq(Chunks) /\ pipe[d] # <<>> /\ c.kind = "chunk"
      /\ pc[d] = "recording" /\ last[d] \in Nat
    BY DEF Record, TypeOK, Control, BusyJobsHaveAFolder, ConsumerControl, Busy
<1>2. c = pipe[d][1] /\ 1 \in 1 .. Len(pipe[d]) /\ c.next \in Nat
  <2>1. c \in Chunks
      BY <1>1, HeadTailProperties
  <2> QED
      BY <1>1, <2>1, EmptySeq DEF Chunks
<1>3. c.uids = ChunkUids(f, last[d]) /\ IsNextAnchor(f, last[d], c.next)
  <2>1. Follows(d, 1)
      BY <1>2 DEF Control, PipesAreChains
  <2> QED
      BY <1>1, <1>2, <2>1 DEF Follows, Before
<1>4. Sound(f) => Has(f, last[d]) /\ c.uids \subseteq stored[f]
    BY <1>1 DEF Honesty, JobsAreHonest, RecordingIsStored
<1> HIDE DEF c
<1>5. Sound(f) => Has(f, c.next)
    BY <1>1, <1>2, <1>3, <1>4, ChunkReachesItsEnd
<1>6. /\ UNCHANGED <<status, stored, foreign, gone, listed, of>>
      /\ anchor' = [anchor EXCEPT ![f] = IF status[f] = "absent" THEN @ ELSE c.next]
      /\ last' = [last EXCEPT ![d] = c.next]
      /\ pc'[d] # "recording" /\ \A e \in Jobs \ {d} : pc'[e] = pc[e]
      /\ pipe' = [pipe EXCEPT ![d] = Tail(@)]
    BY DEF Record, c, Go, store, commands, TypeOK
<1>7. Still
    BY <1>6 DEF Still
<1>8. JobFine(d)
    BY <1>1, <1>5, <1>6 DEF JobFine, TypeOK
<1>9. \A e \in Jobs \ {d} : JobKept(e)
    BY <1>6 DEF JobKept, TypeOK
<1>10. ASSUME NEW g \in Folders
       PROVE  RowFine(g)
  <2>1. CASE anchor'[g] = anchor[g]
      BY <1>6, <2>1, UntouchedRows
  <2>2. CASE g = f /\ status[f] # "absent" /\ anchor'[g] = c.next
    <3>1. Exists(g)
        BY <2>2 DEF Honesty, RemovedLeavesNothing
    <3>2. status[g] = "completed" /\ Sound(g) => Uids[g] \subseteq stored[g]
        BY DEF Honesty, CompletedIsComplete, Sound
    <3> QED
        BY <1>5, <1>6, <2>2, <3>1, <3>2 DEF RowFine
  <2> QED
      BY <1>1, <1>6, <2>1, <2>2 DEF TypeOK
<1> QED
    BY <1>6, <1>7, <1>8, <1>9, <1>10, QuietStep

(* A message moved in takes its folder out of what is promised.             *)
LEMMA MoveInKeepsHonesty ==
    ASSUME TypeOK, TypeOK', Control, Honesty, NEW f \in Folders, NEW u \in ForeignUids, MoveIn(f, u)
    PROVE  Honesty'
<1>1. /\ UNCHANGED <<status, anchor, stored, gone, listed, of, last, pipe, pc>>
      /\ foreign' = [foreign EXCEPT ![f] = @ \cup {u}] /\ Exists(f)
    BY DEF MoveIn, table, commands, jobState, pipeline
<1>2. /\ foreign'[f] = foreign[f] \cup {u}
      /\ \A g \in Folders \ {f} : foreign'[g] = foreign[g]
    BY <1>1 DEF TypeOK
<1>3. \A g \in Folders : (Sound(g)' => Sound(g)) /\ (Exists(g)' <=> Exists(g))
    BY <1>1, <1>2 DEF Sound, Exists
<1>4. Grows /\ NoHoles'
    BY <1>1, <1>3 DEF Grows, Honesty, NoHoles, Newest
<1>5. RemovedLeavesNothing'
    BY <1>1, <1>2, <1>3 DEF Honesty, RemovedLeavesNothing
<1>6. \A g \in Folders : RowFine(g)
    BY <1>1, UntouchedRows
<1>7. \A d \in Jobs : JobKept(d)
    BY <1>1 DEF JobKept
<1> QED
    BY <1>1, <1>4, <1>5, <1>6, <1>7, FineStep DEF StoreFine

(* The rows of a removed account go all at once.                            *)
LEMMA RemoveRowsKeepsHonesty ==
    ASSUME TypeOK, TypeOK', Control, Honesty, NEW a \in Accounts, RemoveRows(a)
    PROVE  Honesty'
<1>1. /\ UNCHANGED <<listed, of, last, pipe, pc>> /\ gone' = [gone EXCEPT ![a] = 3]
      /\ \A g \in Folders :
           IF AccountOf[g] = a
           THEN status'[g] = "absent" /\ stored'[g] = {} /\ foreign'[g] = {}
           ELSE /\ status'[g] = status[g] /\ anchor'[g] = anchor[g]
                /\ stored'[g] = stored[g] /\ foreign'[g] = foreign[g]
    BY DEF RemoveRows, Without, jobState, pipeline
<1>2. \A g \in Folders : Exists(g)' <=> Exists(g) /\ AccountOf[g] # a
    BY <1>1, FolderAssumption DEF Exists, TypeOK
<1>3. \A g \in Folders : Sound(g)' => Sound(g) /\ AccountOf[g] # a
    BY <1>1, <1>2 DEF Sound
<1>4. Grows
    BY <1>1, <1>3 DEF Grows
<1>5. NoHoles'
    BY <1>1, <1>3 DEF Honesty, NoHoles, Newest
<1>6. RemovedLeavesNothing'
    BY <1>1, <1>2 DEF Honesty, RemovedLeavesNothing
<1>7. \A g \in Folders : RowFine(g)
  <2> SUFFICES ASSUME NEW g \in Folders
               PROVE  RowFine(g)
      OBVIOUS
  <2>1. CASE AccountOf[g] = a
      BY <1>1, <2>1 DEF RowFine
  <2>2. CASE AccountOf[g] # a
      BY <1>1, <2>2, UntouchedRows
  <2> QED
      BY <2>1, <2>2
<1>8. \A d \in Jobs : JobKept(d)
    BY <1>1 DEF JobKept
<1> QED
    BY <1>1, <1>4, <1>5, <1>6, <1>7, <1>8, FineStep DEF StoreFine

(* Every step keeps anchors honest and the store without holes.             *)
LEMMA HonestStep == TypeOK /\ TypeOK' /\ Control /\ Honesty /\ [Next]_vars => Honesty'
<1> SUFFICES ASSUME TypeOK, TypeOK', Control, Honesty, [Next]_vars
             PROVE  Honesty'
    OBVIOUS
<1>t. /\ status \in [Folders -> Statuses] /\ anchor \in [Folders -> Nat]
      /\ pc \in [Jobs -> Steps] /\ of \in [Jobs -> Folders \cup {None}]
      /\ last \in [Jobs -> Nat] /\ pipe \in [Jobs -> Seq(Chunks)]
      /\ gone \in [Accounts -> 0 .. 3]
    BY DEF TypeOK
<1>b. BusyJobsHaveAFolder /\ ConsumerControl
    BY DEF Control
<1> DEFINE Quiet == /\ Still /\ listed' \subseteq listed /\ UNCHANGED table
                    /\ \A e \in Jobs : JobKept(e)
           QuietButRows == /\ Still /\ listed' \subseteq listed
                           /\ \A e \in Jobs : JobKept(e)
<1>q. Quiet => Honesty'
    BY QuieterStep
<1>r. QuietButRows /\ (\A f \in Folders : RowFine(f)) => Honesty'
    BY QuietStep
<1> USE <1>t, <1>b, BoundAssumption
        DEF table, store, jobState, pipeline, commands, budget, Go, Busy, JobKept, Still,
            BusyJobsHaveAFolder, Starting, Waiting, Holding, Counted, Consuming
<1>1. ASSUME NEW d \in Jobs, StartRefused(d)
      PROVE  Quiet
    BY <1>1 DEF StartRefused, Free
<1>2. ASSUME NEW d \in Jobs, StartRegister(d)
      PROVE  Quiet
    BY <1>2 DEF StartRegister, Register
<1>3. ASSUME NEW d \in Jobs, ResumeRegister(d)
      PROVE  Quiet
    BY <1>3 DEF ResumeRegister, Register
<1>4. ASSUME NEW d \in Jobs, FetchFails(d)
      PROVE  Quiet
    BY <1>4 DEF FetchFails
<1>5. ASSUME NEW d \in Jobs, ProducerStops(d)
      PROVE  Quiet
    BY <1>5 DEF ProducerStops
<1>6. ASSUME NEW d \in Jobs, LookUpLock(d)
      PROVE  Quiet
    BY <1>6 DEF LookUpLock
<1>7. ASSUME NEW d \in Jobs, Acquire(d)
      PROVE  Quiet
    BY <1>7 DEF Acquire
<1>8. ASSUME NEW d \in Jobs, GoOn(d)
      PROVE  Quiet
    BY <1>8 DEF GoOn
<1>9. ASSUME NEW d \in Jobs, Opened(d)
      PROVE  Quiet
    BY <1>9 DEF Opened
<1>10. ASSUME NEW d \in Jobs, StartPullFails(d)
      PROVE  Quiet
    BY <1>10 DEF StartPullFails
<1>11. ASSUME NEW d \in Jobs, DropIndex(d)
      PROVE  Quiet
    BY <1>11 DEF DropIndex
<1>12. ASSUME NEW d \in Jobs, Receive(d)
      PROVE  Quiet
    BY <1>12 DEF Receive
<1>13. ASSUME NEW d \in Jobs, ReceiveCancelled(d)
      PROVE  Quiet
    BY <1>13 DEF ReceiveCancelled
<1>14. ASSUME NEW d \in Jobs, StoreFails(d)
      PROVE  Quiet
    BY <1>14 DEF StoreFails, Close
<1>15. ASSUME NEW d \in Jobs, RecordFails(d)
      PROVE  Quiet
    BY <1>15 DEF RecordFails, Close
<1>16. ASSUME NEW d \in Jobs, Drained(d)
      PROVE  Quiet
    BY <1>16 DEF Drained
<1>17. ASSUME NEW d \in Jobs, RebuildIndex(d)
      PROVE  Quiet
    BY <1>17 DEF RebuildIndex
<1>18. ASSUME NEW d \in Jobs, EndPull(d)
      PROVE  Quiet
    BY <1>18 DEF EndPull
<1>19. ASSUME NEW d \in Jobs, DropCanceller(d)
      PROVE  Quiet
    BY <1>19 DEF DropCanceller, Free
<1>20. ASSUME NEW d \in Jobs, NEW f \in Folders, StartCheck(d, f)
      PROVE  Quiet
    BY <1>20 DEF StartCheck
<1>21. ASSUME NEW f \in Folders, CancelToken(f)
      PROVE  Quiet
    BY <1>21 DEF CancelToken
<1>22. ASSUME NEW a \in Accounts, RemoveSignal(a)
      PROVE  Quiet
    BY <1>22 DEF RemoveSignal
<1>23. ASSUME NEW a \in Accounts, RemoveLock(a)
      PROVE  Quiet
    BY <1>23 DEF RemoveLock
<1>24. ASSUME NEW e \in listed, ResumeSkip(e)
      PROVE  Quiet
    BY <1>24 DEF ResumeSkip
<1>25. Restart => Quiet
  <2> SUFFICES ASSUME Restart
               PROVE  Quiet
      OBVIOUS
  <2>1. gone' = [a \in Accounts |-> IF gone[a] = 3 THEN 3 ELSE 0] /\ UNCHANGED store
      BY DEF Restart
  <2>2. ASSUME NEW a \in Accounts
        PROVE  gone'[a] < 3 <=> gone[a] < 3
    <3>1. gone[a] \in 0 .. 3 /\ gone'[a] = IF gone[a] = 3 THEN 3 ELSE 0
        BY <2>1
    <3> QED
        BY <3>1
  <2>3. Still
      BY <2>1, <2>2
  <2> QED
      BY <2>3 DEF Restart
<1>26. UNCHANGED vars => Quiet
    BY DEF vars
<1>27. ASSUME NEW d \in Jobs, Fetch(d)
      PROVE  Quiet
  <2>1. PICK c \in Chunks : pipe' = [pipe EXCEPT ![d] = Append(@, c)]
      BY <1>27, FetchAppends
  <2>2. pc[d] \in {"storing", "recording"} => Head(pipe'[d]) = Head(pipe[d])
      BY <2>1, HeadStays DEF ConsumerControl
  <2>3. \A e \in Jobs \ {d} : pipe'[e] = pipe[e]
      BY <2>1
  <2> QED
      BY <1>27, <2>2, <2>3 DEF Fetch
<1>28. ASSUME NEW d \in Jobs, FetchGivesUp(d)
      PROVE  Quiet
  <2>1. PICK c \in Chunks : pipe' = [pipe EXCEPT ![d] = Append(@, c)]
      BY <1>28, FetchAppends
  <2>2. pc[d] \in {"storing", "recording"} => Head(pipe'[d]) = Head(pipe[d])
      BY <2>1, HeadStays DEF ConsumerControl
  <2>3. \A e \in Jobs \ {d} : pipe'[e] = pipe[e]
      BY <2>1
  <2> QED
      BY <1>28, <2>2, <2>3 DEF FetchGivesUp
<1>29. ASSUME NEW d \in Jobs, MarkPending(d)
      PROVE  Honesty'
  <2>1. of[d] \in Folders /\ "pending" \in Statuses /\ TrySetStatus(of[d], "pending")
      BY <1>29 DEF MarkPending, Statuses, Ended, InFlight
  <2>2. QuietButRows
      BY <1>29 DEF MarkPending
  <2> QED
      BY <2>1, <2>2, <1>r, StatusIsFine
<1>30. ASSUME NEW d \in Jobs, MarkRunning(d)
      PROVE  Honesty'
  <2>1. of[d] \in Folders /\ "running" \in Statuses /\ TrySetStatus(of[d], "running")
      BY <1>30 DEF MarkRunning, Statuses, Ended, InFlight
  <2>2. QuietButRows
      BY <1>30 DEF MarkRunning
  <2> QED
      BY <2>1, <2>2, <1>r, StatusIsFine
<1>31. ASSUME NEW d \in Jobs, BailOut(d)
      PROVE  Honesty'
  <2>1. of[d] \in Folders /\ "canceled" \in Statuses /\ TrySetStatus(of[d], "canceled")
      BY <1>31 DEF BailOut, Statuses, Ended, InFlight
  <2>2. QuietButRows
      BY <1>31 DEF BailOut
  <2> QED
      BY <2>1, <2>2, <1>r, StatusIsFine
<1>32. ASSUME NEW d \in Jobs, OpenFails(d)
      PROVE  Honesty'
  <2>1. of[d] \in Folders /\ "error" \in Statuses /\ TrySetStatus(of[d], "error")
      BY <1>32 DEF OpenFails, Statuses, Ended, InFlight
  <2>2. QuietButRows
      BY <1>32 DEF OpenFails
  <2> QED
      BY <2>1, <2>2, <1>r, StatusIsFine
<1>33. ASSUME NEW d \in Jobs, GiveUp(d)
      PROVE  Honesty'
  <2>1. of[d] \in Folders /\ "error" \in Statuses /\ TrySetStatus(of[d], "error")
      BY <1>33 DEF GiveUp, Statuses, Ended, InFlight
  <2>2. QuietButRows
      BY <1>33 DEF GiveUp, Close
  <2> QED
      BY <2>1, <2>2, <1>r, StatusIsFine
<1>34. ASSUME NEW d \in Jobs, Finish(d)
      PROVE  Honesty'
  <2>1. PICK s \in {"completed", "canceled"} :
           TrySetStatus(of[d], s) /\ (s = "completed" => pc[d] = "completing")
      BY <1>34 DEF Finish
  <2>2. of[d] \in Folders /\ s \in Statuses
      BY <1>34 DEF Finish, Statuses, Ended
  <2>3. pc[d] = "completing" /\ Sound(of[d]) => Has(of[d], last[d]) /\ last[d] <= 1
      BY DEF Honesty, JobsAreHonest, ConsumerControl
  <2>4. s = "completed" /\ Sound(of[d]) => Uids[of[d]] \subseteq stored[of[d]]
      BY <2>1, <2>2, <2>3, UidAssumption DEF Has
  <2>5. QuietButRows
      BY <1>34 DEF Finish, Close
  <2> QED
      BY <2>1, <2>2, <2>4, <2>5, <1>r, StatusIsFine
<1>35. ASSUME NEW d \in Jobs, StartPersist(d)
      PROVE  Honesty'
  <2>1. Upsert(of[d], "pending", last[d]) /\ Exists(of[d]) /\ of[d] \in Folders
      BY <1>35 DEF StartPersist
  <2>2. Sound(of[d]) => Has(of[d], last[d])
      BY <1>35 DEF StartPersist, Honesty, JobsAreHonest
  <2>3. QuietButRows
      BY <1>35 DEF StartPersist
  <2> QED
      BY <2>1, <2>2, <2>3, <1>r, UpsertIsFine DEF Statuses, InFlight
<1>36. ASSUME NEW d \in Jobs, StartNothingLeft(d)
      PROVE  Honesty'
  <2>1. Upsert(of[d], "completed", last[d]) /\ Exists(of[d]) /\ of[d] \in Folders /\ last[d] <= 1
      BY <1>36 DEF StartNothingLeft
  <2>2. Sound(of[d]) => Has(of[d], last[d])
      BY <1>36 DEF StartNothingLeft, Honesty, JobsAreHonest
  <2>3. QuietButRows
      BY <1>36 DEF StartNothingLeft, Free
  <2> QED
      BY <2>1, <2>2, <2>3, <1>r, UpsertIsFine DEF Statuses, Ended
<1>37. ASSUME NEW d \in Jobs, StartPersistFails(d)
      PROVE  Honesty'
  <2>1. QuietButRows
      BY <1>37 DEF StartPersistFails, Free
  <2>2. CASE UNCHANGED table
      BY <2>1, <2>2, <1>q
  <2>3. CASE Exists(of[d]) /\ Upsert(of[d], "running", last[d])
    <3>1. of[d] \in Folders /\ (Sound(of[d]) => Has(of[d], last[d]))
        BY <1>37 DEF StartPersistFails, Honesty, JobsAreHonest
    <3> QED
        BY <2>1, <2>3, <3>1, <1>r, UpsertIsFine DEF Statuses, InFlight
  <2> QED
      BY <1>37, <2>2, <2>3 DEF StartPersistFails
<1>38. ASSUME NEW d \in Jobs, StartPull(d)
      PROVE  Honesty'
  <2>1. Upsert(of[d], "running", last[d]) /\ Exists(of[d]) /\ of[d] \in Folders
      BY <1>38 DEF StartPull
  <2>2. Sound(of[d]) => Has(of[d], last[d])
      BY <1>38 DEF StartPull, Honesty, JobsAreHonest
  <2>3. QuietButRows
      BY <1>38 DEF StartPull
  <2> QED
      BY <2>1, <2>2, <2>3, <1>r, UpsertIsFine DEF Statuses, InFlight
<1>39. ASSUME NEW f \in Folders, CancelDelete(f)
      PROVE  Honesty'
  <2>1. QuietButRows
      BY <1>39 DEF CancelDelete
  <2>2. CASE UNCHANGED table
      BY <2>1, <2>2, <1>q
  <2>3. CASE Upsert(f, "absent", 0)
      BY <2>1, <2>3, <1>r, UpsertIsFine DEF Statuses, Ended
  <2> QED
      BY <1>39, <2>2, <2>3 DEF CancelDelete
<1>40. ASSUME NEW e \in listed, ResumeComplete(e)
      PROVE  Honesty'
  <2>1. e.folder \in Folders /\ e.from \in Nat /\ e.from <= 1
      BY <1>40 DEF ResumeComplete, TypeOK
  <2>2. Sound(e.folder) => Has(e.folder, e.from)
      BY DEF Honesty, ListedIsHonest
  <2>3. Sound(e.folder) => Uids[e.folder] \subseteq stored[e.folder]
      BY <2>1, <2>2, UidAssumption DEF Has
  <2>4. QuietButRows
      BY <1>40 DEF ResumeComplete
  <2>5. TrySetStatus(e.folder, "completed")
      BY <1>40 DEF ResumeComplete
  <2> QED
      BY <2>1, <2>3, <2>4, <2>5, <1>r, StatusIsFine DEF Statuses, Ended
<1>41. ASSUME NEW d \in Jobs, StartMeasure(d)
      PROVE  Honesty'
  <2> DEFINE f == of[d]
  <2>1. PICK a \in LocalUids(f) \cup {anchor[f]} :
           StartAnchor(f, a) /\ last' = [last EXCEPT ![d] = a]
      BY <1>41 DEF StartMeasure
  <2>2. f \in Folders /\ of' = of /\ last'[d] = a /\ pc'[d] = "persisting"
      BY <1>41, <2>1 DEF StartMeasure
  <2>3. Sound(f) => Has(f, a)
    <3>1. CASE Resumable(f)
        BY <2>1, <2>2, <3>1 DEF StartAnchor, Resumable, Honesty, AnchorIsHonest, Sound
    <3>2. CASE ~Resumable(f)
        BY <2>1, <2>2, <3>2 DEF StartAnchor, LocalUids, Honesty, NoHoles, Newest, Sound, Has
    <3> QED
        BY <3>1, <3>2
  <2>4. JobFine(d)
      BY <2>2, <2>3 DEF JobFine
  <2>5. Still /\ UNCHANGED table /\ listed' \subseteq listed /\ \A e \in Jobs \ {d} : JobKept(e)
      BY <1>41, <2>1 DEF StartMeasure
  <2> HIDE DEF JobKept, Still
  <2> QED
      BY <2>4, <2>5, QuieterStep
<1>42. ASSUME NEW e \in listed, NEW d \in Jobs, ResumeClaim(d, e)
      PROVE  Honesty'
  <2>1. e.folder \in Folders /\ e.from \in Nat
      BY DEF TypeOK
  <2>2. of'[d] = e.folder /\ last'[d] = e.from /\ pc'[d] = "claimed"
      BY <1>42, <2>1 DEF ResumeClaim
  <2>3. JobFine(d)
      BY <2>1, <2>2 DEF JobFine, Honesty, ListedIsHonest
  <2>4. Still /\ UNCHANGED table /\ listed' \subseteq listed
      BY <1>42 DEF ResumeClaim
  <2>5. \A j \in Jobs \ {d} : JobKept(j)
      BY <1>42 DEF ResumeClaim
  <2> HIDE DEF JobKept, Still
  <2> QED
      BY <2>3, <2>4, <2>5, QuieterStep
<1>43. CASE ResumeList
  <2>1. ListFine
    <3>1. \A e \in listed' : \E f \in Folders :
             e.folder = f /\ e.from = anchor[f] /\ status[f] # "absent"
        BY <1>43 DEF ResumeList
    <3> QED
        BY <3>1 DEF ListFine, Honesty, AnchorIsHonest, Sound
  <2>2. Still /\ UNCHANGED table /\ \A j \in Jobs : JobKept(j)
      BY <1>43 DEF ResumeList
  <2> HIDE DEF JobKept, Still
  <2> QED
      BY <2>1, <2>2, QuieterStep
<1>44. ASSUME NEW d \in Jobs, StoreChunk(d)
      PROVE  Honesty'
    BY <1>44, StoreKeepsHonesty
<1>45. ASSUME NEW d \in Jobs, Record(d)
      PROVE  Honesty'
    BY <1>45, RecordKeepsHonesty
<1>46. ASSUME NEW f \in Folders, NEW u \in ForeignUids, MoveIn(f, u)
      PROVE  Honesty'
    BY <1>46, MoveInKeepsHonesty
<1>47. ASSUME NEW a \in Accounts, RemoveRows(a)
      PROVE  Honesty'
    BY <1>47, RemoveRowsKeepsHonesty
<1> HIDE DEF JobKept, Still
<1> QED
    BY <1>q, <1>1, <1>2, <1>3, <1>4, <1>5, <1>6, <1>7, <1>8, <1>9, <1>10, <1>11, <1>12, <1>13,
       <1>14, <1>15, <1>16, <1>17, <1>18, <1>19, <1>20, <1>21, <1>22, <1>23, <1>24, <1>25,
       <1>26, <1>27, <1>28, <1>29, <1>30, <1>31, <1>32, <1>33, <1>34, <1>35, <1>36, <1>37,
       <1>38, <1>39, <1>40, <1>41, <1>42, <1>43, <1>44, <1>45, <1>46, <1>47
       DEF Next, Command, Producer, Driver, User, Engine, ResumeNext

(* A job that moves on, counted before and after or neither, leaves the     *)
(* count of pulls right.                                                    *)
LEMMA CountStays ==
    ASSUME TypeOK, PullsAreCounted, pulls' = pulls,
           \A d \in Jobs : pc'[d] \in Counted <=> pc[d] \in Counted
    PROVE  PullsAreCounted'
BY DEF PullsAreCounted

(* A pull that begins is counted.                                           *)
LEMMA CountUp ==
    ASSUME TypeOK, PullsAreCounted, pulls' = pulls + 1, NEW d \in Jobs, pc[d] \notin Counted,
           NEW s \in Counted, pc' = [pc EXCEPT ![d] = s]
    PROVE  PullsAreCounted'
<1> DEFINE C == {e \in Jobs : pc[e] \in Counted}
<1>1. IsFiniteSet(C) /\ d \notin C
    BY JobsAssumption, FS_Subset
<1>2. {e \in Jobs : pc'[e] \in Counted} = C \cup {d}
    BY DEF TypeOK
<1>3. Cardinality(C \cup {d}) = Cardinality(C) + 1
    BY <1>1, FS_AddElement
<1> QED
    BY <1>2, <1>3 DEF PullsAreCounted

(* A pull that ends is no longer counted.                                   *)
LEMMA CountDown ==
    ASSUME TypeOK, PullsAreCounted, pulls' = pulls - 1, NEW d \in Jobs, pc[d] \in Counted,
           NEW s, s \notin Counted, pc' = [pc EXCEPT ![d] = s]
    PROVE  PullsAreCounted'
<1> DEFINE C == {e \in Jobs : pc[e] \in Counted}
<1>1. IsFiniteSet(C) /\ d \in C
    BY JobsAssumption, FS_Subset
<1>2. {e \in Jobs : pc'[e] \in Counted} = C \ {d}
    BY DEF TypeOK
<1>3. Cardinality(C \ {d}) = Cardinality(C) - 1
    BY <1>1, FS_RemoveElement
<1> QED
    BY <1>2, <1>3 DEF PullsAreCounted

(* Every step keeps the count of pulls and the index that a pull dropped.   *)
LEMMA IndexStep == TypeOK /\ Indexing /\ [Next]_vars => Indexing'
<1> SUFFICES ASSUME TypeOK, Indexing, [Next]_vars
             PROVE  Indexing'
    OBVIOUS
<1>a. PullsAreCounted /\ DroppedByAPull
    BY DEF Indexing
<1> DEFINE Dropper(d) == pc[d] \in Consuming \cup {"closing"}
           Calm == /\ pulls' = pulls /\ fts' = fts
                   /\ \A e \in Jobs : pc'[e] \in Counted <=> pc[e] \in Counted
                   /\ \A e \in Jobs : Dropper(e) => Dropper(e)'
<1>b. Calm => Indexing'
    BY <1>a, CountStays DEF Indexing, DroppedByAPull
<1>c. pc \in [Jobs -> Steps]
    BY DEF TypeOK
<1> USE <1>c DEF table, store, jobState, pipeline, commands, budget, Go, Counted, Consuming
<1>1. ASSUME NEW d \in Jobs, StartMeasure(d)
      PROVE  Calm
    BY <1>1 DEF StartMeasure
<1>2. ASSUME NEW d \in Jobs, StartRefused(d)
      PROVE  Calm
    BY <1>2 DEF StartRefused, Free
<1>3. ASSUME NEW d \in Jobs, StartPersist(d)
      PROVE  Calm
    BY <1>3 DEF StartPersist
<1>4. ASSUME NEW d \in Jobs, StartNothingLeft(d)
      PROVE  Calm
    BY <1>4 DEF StartNothingLeft, Free
<1>5. ASSUME NEW d \in Jobs, StartPersistFails(d)
      PROVE  Calm
    BY <1>5 DEF StartPersistFails, Free
<1>6. ASSUME NEW d \in Jobs, StartRegister(d)
      PROVE  Calm
    BY <1>6 DEF StartRegister, Register
<1>7. ASSUME NEW d \in Jobs, ResumeRegister(d)
      PROVE  Calm
    BY <1>7 DEF ResumeRegister, Register
<1>8. ASSUME NEW d \in Jobs, FetchFails(d)
      PROVE  Calm
    BY <1>8 DEF FetchFails
<1>9. ASSUME NEW d \in Jobs, ProducerStops(d)
      PROVE  Calm
    BY <1>9 DEF ProducerStops
<1>10. ASSUME NEW d \in Jobs, MarkPending(d)
      PROVE  Calm
    BY <1>10 DEF MarkPending
<1>11. ASSUME NEW d \in Jobs, LookUpLock(d)
      PROVE  Calm
    BY <1>11 DEF LookUpLock
<1>12. ASSUME NEW d \in Jobs, Acquire(d)
      PROVE  Calm
    BY <1>12 DEF Acquire
<1>13. ASSUME NEW d \in Jobs, MarkRunning(d)
      PROVE  Calm
    BY <1>13 DEF MarkRunning
<1>14. ASSUME NEW d \in Jobs, BailOut(d)
      PROVE  Calm
    BY <1>14 DEF BailOut
<1>15. ASSUME NEW d \in Jobs, GoOn(d)
      PROVE  Calm
    BY <1>15 DEF GoOn
<1>16. ASSUME NEW d \in Jobs, OpenFails(d)
      PROVE  Calm
    BY <1>16 DEF OpenFails
<1>17. ASSUME NEW d \in Jobs, StartPull(d)
      PROVE  Calm
    BY <1>17 DEF StartPull
<1>18. ASSUME NEW d \in Jobs, Receive(d)
      PROVE  Calm
    BY <1>18 DEF Receive
<1>19. ASSUME NEW d \in Jobs, ReceiveCancelled(d)
      PROVE  Calm
    BY <1>19 DEF ReceiveCancelled
<1>20. ASSUME NEW d \in Jobs, StoreChunk(d)
      PROVE  Calm
    BY <1>20 DEF StoreChunk
<1>21. ASSUME NEW d \in Jobs, StoreFails(d)
      PROVE  Calm
    BY <1>21 DEF StoreFails, Close
<1>22. ASSUME NEW d \in Jobs, RecordFails(d)
      PROVE  Calm
    BY <1>22 DEF RecordFails, Close
<1>23. ASSUME NEW d \in Jobs, GiveUp(d)
      PROVE  Calm
    BY <1>23 DEF GiveUp, Close
<1>24. ASSUME NEW d \in Jobs, Drained(d)
      PROVE  Calm
    BY <1>24 DEF Drained
<1>25. ASSUME NEW d \in Jobs, Finish(d)
      PROVE  Calm
    BY <1>25 DEF Finish, Close
<1>26. ASSUME NEW d \in Jobs, DropCanceller(d)
      PROVE  Calm
    BY <1>26 DEF DropCanceller, Free
<1>27. ASSUME NEW d \in Jobs, NEW f \in Folders, StartCheck(d, f)
      PROVE  Calm
    BY <1>27 DEF StartCheck
<1>28. ASSUME NEW f \in Folders, CancelToken(f)
      PROVE  Calm
    BY <1>28 DEF CancelToken
<1>29. ASSUME NEW f \in Folders, CancelDelete(f)
      PROVE  Calm
    BY <1>29 DEF CancelDelete
<1>30. ASSUME NEW f \in Folders, NEW u \in ForeignUids, MoveIn(f, u)
      PROVE  Calm
    BY <1>30 DEF MoveIn
<1>31. ASSUME NEW a \in Accounts, RemoveSignal(a)
      PROVE  Calm
    BY <1>31 DEF RemoveSignal
<1>32. ASSUME NEW a \in Accounts, RemoveLock(a)
      PROVE  Calm
    BY <1>32 DEF RemoveLock
<1>33. ASSUME NEW a \in Accounts, RemoveRows(a)
      PROVE  Calm
    BY <1>33 DEF RemoveRows
<1>34. ResumeList => Calm
    BY DEF ResumeList
<1>35. ASSUME NEW e \in listed, ResumeComplete(e)
      PROVE  Calm
    BY <1>35 DEF ResumeComplete
<1>36. ASSUME NEW e \in listed, ResumeSkip(e)
      PROVE  Calm
    BY <1>36 DEF ResumeSkip
<1>37. ASSUME NEW e \in listed, NEW d \in Jobs, ResumeClaim(d, e)
      PROVE  Calm
    BY <1>37 DEF ResumeClaim
<1>38. UNCHANGED vars => Calm
    BY DEF vars
<1>39. ASSUME NEW d \in Jobs, Fetch(d)
      PROVE  Calm
    BY <1>39 DEF Fetch
<1>40. ASSUME NEW d \in Jobs, FetchGivesUp(d)
      PROVE  Calm
    BY <1>40 DEF FetchGivesUp
<1>41. ASSUME NEW d \in Jobs, Record(d)
      PROVE  Calm
    BY <1>41 DEF Record
<1>42. ASSUME NEW d \in Jobs, Opened(d)
      PROVE  Indexing'
  <2>1. PullsAreCounted'
      BY <1>42, <1>a, CountUp DEF Opened
  <2> QED
      BY <1>42, <1>a, <2>1 DEF Indexing, DroppedByAPull, Opened
<1>43. ASSUME NEW d \in Jobs, StartPullFails(d)
      PROVE  Indexing'
  <2>1. PullsAreCounted'
      BY <1>43, <1>a, CountDown DEF StartPullFails
  <2> QED
      BY <1>43, <1>a, <2>1 DEF Indexing, DroppedByAPull, StartPullFails
<1>44. ASSUME NEW d \in Jobs, EndPull(d)
      PROVE  Indexing'
  <2>1. PullsAreCounted'
      BY <1>44, <1>a, CountDown DEF EndPull
  <2> QED
      BY <1>44, <1>a, <2>1 DEF Indexing, DroppedByAPull, EndPull
<1>45. ASSUME NEW d \in Jobs, DropIndex(d)
      PROVE  Indexing'
  <2>1. PullsAreCounted'
      BY <1>45, <1>a, CountStays DEF DropIndex
  <2> QED
      BY <1>45, <2>1 DEF Indexing, DroppedByAPull, DropIndex
<1>46. ASSUME NEW d \in Jobs, RebuildIndex(d)
      PROVE  Indexing'
  <2>1. PullsAreCounted'
      BY <1>46, <1>a, CountStays DEF RebuildIndex
  <2>2. fts' # "dropped"
      BY <1>46 DEF RebuildIndex
  <2> QED
      BY <2>1, <2>2 DEF Indexing, DroppedByAPull
<1>47. CASE Restart
  <2>1. fts' # "dropped" /\ pulls' = 0 /\ {d \in Jobs : pc'[d] \in Counted} = {}
      BY <1>47 DEF Restart
  <2> QED
      BY <2>1, FS_EmptySet DEF Indexing, PullsAreCounted, DroppedByAPull
<1> QED
    BY <1>b, <1>1, <1>2, <1>3, <1>4, <1>5, <1>6, <1>7, <1>8, <1>9, <1>10, <1>11, <1>12, <1>13,
       <1>14, <1>15, <1>16, <1>17, <1>18, <1>19, <1>20, <1>21, <1>22, <1>23, <1>24, <1>25,
       <1>26, <1>27, <1>28, <1>29, <1>30, <1>31, <1>32, <1>33, <1>34, <1>35, <1>36, <1>37,
       <1>38, <1>39, <1>40, <1>41, <1>42, <1>43, <1>44, <1>45, <1>46, <1>47
       DEF Next, Command, Producer, Driver, User, Engine, ResumeNext

(* The initial state has no rows, no jobs and the newest messages.          *)
LEMMA InitIInv == Init => IInv
<1> SUFFICES ASSUME Init
             PROVE  IInv
    OBVIOUS
<1>1. \A f \in Folders : Newest(stored[f], f) /\ stored[f] \in SUBSET Nat
    BY UidAssumption DEF Init, Newest
<1>2. stored \in [Folders -> SUBSET Nat]
    BY <1>1 DEF Init
<1>3. TypeOK
    BY <1>2, SizeAssumption DEF Init, TypeOK, Statuses, Ended, Steps
<1>4. Control
    BY DEF Init, Control, BusyJobsHaveAFolder, PipesAreChains, ConsumerControl, RegisteredIsAlive,
           Busy, Consuming
<1>5. Honesty
  <2>1. \A f \in Folders : Exists(f)
      BY FolderAssumption DEF Init, Exists
  <2> QED
      BY <1>1, <2>1 DEF Init, Honesty, RemovedLeavesNothing, AnchorIsHonest, CompletedIsComplete,
                        NoHoles, JobsAreHonest, ListedIsHonest, RecordingIsStored
<1>6. Indexing
  <2>1. {d \in Jobs : pc[d] \in Counted} = {}
      BY DEF Init, Counted, Consuming
  <2> QED
      BY <2>1, FS_EmptySet DEF Init, Indexing, PullsAreCounted, DroppedByAPull
<1> QED
    BY <1>3, <1>4, <1>5, <1>6 DEF IInv

(* The inductive invariant of the pull: types, control, honesty of every    *)
(* anchor in a row or in memory, and the count behind pull_in_progress.     *)
THEOREM Consistent == Spec => []IInv
<1>1. IInv /\ [Next]_vars => IInv'
    BY TypeStep, ControlStep, HonestStep, IndexStep DEF IInv
<1> QED
    BY InitIInv, <1>1, PTL DEF Spec

(* The rows, locals and maps keep their types (history_sync.rs).            *)
THEOREM Typed == Spec => []TypeOK
<1>1. IInv => TypeOK
    BY DEF IInv
<1> QED
    BY Consistent, <1>1, PTL

(* Resuming from a persisted anchor skips no message of the folder          *)
(* (update_progress after persist_chunk, history.rs:333-346).               *)
THEOREM AnchorsAreHonest == Spec => []AnchorIsHonest
<1>1. IInv => AnchorIsHonest
    BY DEF IInv, Honesty
<1> QED
    BY Consistent, <1>1, PTL

(* A row is completed only when the whole folder is stored                  *)
(* (run_consumer, history_sync_start and resume_running_jobs).              *)
THEOREM CompletedRowsAreComplete == Spec => []CompletedIsComplete
<1>1. IInv => CompletedIsComplete
    BY DEF IInv, Honesty
<1> QED
    BY Consistent, <1>1, PTL

(* A removed account leaves no rows and no driver restores any              *)
(* (accounts_remove and the foreign keys of migration 0011).                *)
THEOREM NothingOfRemovedAccounts == Spec => []RemovedLeavesNothing
<1>1. IInv => RemovedLeavesNothing
    BY DEF IInv, Honesty
<1> QED
    BY Consistent, <1>1, PTL

(* A registered cancel token belongs to a live driver of its folder         *)
(* (spawn_driver, drop_canceller).                                          *)
THEOREM TokensAreAlive == Spec => []RegisteredIsAlive
<1>1. IInv => RegisteredIsAlive
    BY DEF IInv, Control
<1> QED
    BY Consistent, <1>1, PTL

(* When no pull is counted the index is not the one a pull dropped          *)
(* (PullGuard and the rebuild at the end of pull_history).                  *)
THEOREM IndexComesBack == Spec => []IndexIsBack
<1>1. IInv => IndexIsBack
  <2> SUFFICES ASSUME IInv, pulls = 0, NEW d \in Jobs, pc[d] \in Consuming \cup {"closing"}
               PROVE  FALSE
      BY DEF IndexIsBack, IInv, Indexing, DroppedByAPull
  <2>1. d \in {e \in Jobs : pc[e] \in Counted}
      BY DEF Counted
  <2>2. IsFiniteSet({e \in Jobs : pc[e] \in Counted})
      BY JobsAssumption, FS_Subset
  <2>3. Cardinality({e \in Jobs : pc[e] \in Counted}) = 0
      BY DEF IInv, Indexing, PullsAreCounted
  <2> QED
      BY <2>1, <2>2, <2>3, FS_EmptySet
<1> QED
    BY Consistent, <1>1, PTL
=============================================================================
