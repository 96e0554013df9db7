------------------------------ MODULE Threading ------------------------------
(***************************************************************************)
(* Conversations: how a message finds its thread (sync/threading.rs,       *)
(* repos/threads.rs).  A sync resolves the headers of a chunk one by one   *)
(* before it writes them in a single transaction (apply_chunk);            *)
(* messages_load_older inserts and attaches one header after the other,    *)
(* each statement on its own, on the other database connection; a history  *)
(* pull inserts without a thread (persist_chunk).                          *)
(***************************************************************************)
EXTENDS Naturals, Sequences, FiniteSets, SequencesExt

CONSTANTS
    Post,       \* the messages: what each replies to, its references, normalized subject, day
    Chunks,     \* what a fetch brings: some messages, in the order of their headers
    Since,      \* the first day within SUBJECT_RECENCY_DAYS
    Outings     \* bounds: an outing says how often what kind of thing happens

ASSUME ThreadingAssumption ==
    /\ IsFiniteSet(DOMAIN Post)
    /\ \A m \in DOMAIN Post : /\ Post[m].refs \in Seq(STRING)
                              /\ Post[m].reply \in Seq(STRING) /\ Len(Post[m].reply) <= 1
    /\ \A hs \in Chunks : /\ hs \in Seq(DOMAIN Post) /\ hs # <<>>
                          /\ \A i, j \in DOMAIN hs : hs[i] = hs[j] => i = j

VARIABLES
    stored,     \* the table messages: thread_id of each row, 0 for NULL
    threads,    \* the table threads: subject, last_date and message_count
    lastId,     \* the last id that new_id gave: they are random and never given twice
    chunk,      \* the chunk that apply_chunk works on, and the next header to resolve
    known,      \* batch_find_existing: the rows as they were then
    chosen,     \* the ThreadAttachment of each header resolved so far
    page,       \* messages_load_older: its step, the headers left, the thread
    followers,  \* history: the messages that got their thread when what they answer had one
    untroubled, \* history: nothing was removed or cut short, the two writers did not overlap
    outing      \* what is used up of the outing

threadVars == <<stored, threads, lastId, chunk, known, chosen, page, followers, untroubled, outing>>

Occurs(k) ==
    /\ \E o \in Outings : \A j \in DOMAIN o : outing[j] + (IF j = k THEN 1 ELSE 0) <= o[j]
    /\ outing' = [outing EXCEPT ![k] = @ + 1]

ChunkAt(at, hs, i) == [at |-> at, headers |-> hs, next |-> i]
NoChunk == ChunkAt("idle", <<>>, 1)
PageAt(at, hs, t) == [at |-> at, headers |-> hs, thread |-> t]
NoPage == PageAt("idle", <<>>, 0)

ThreadsInit ==
    /\ stored = <<>> /\ threads = <<>> /\ lastId = 0
    /\ chunk = NoChunk /\ known = <<>> /\ chosen = <<>> /\ page = NoPage
    /\ followers = {} /\ untroubled = TRUE
    /\ outing = [chunks |-> 0, pages |-> 0, pulls |-> 0, prunes |-> 0, fails |-> 0]
-----------------------------------------------------------------------------
(* The resolution chain: In-Reply-To, then the References from the newest  *)
(* to the oldest, then the latest recent thread of the same subject.  The  *)
(* function gives the thread of an id, 0 when it is unknown or has none.   *)
Referred(m) == Post[m].reply \o Reverse(Post[m].refs)

BySubject(s) == {t \in DOMAIN threads : threads[t].subject = s /\ threads[t].last >= Since}

Resolved(m, thread) ==
    LET hits == {i \in DOMAIN Referred(m) : thread[Referred(m)[i]] # 0}
        recent == BySubject(Post[m].subject)
    IN  IF hits # {} THEN {thread[Referred(m)[i]] : i \in {j \in hits : \A k \in hits : j <= k}}
        ELSE IF Post[m].subject # "" /\ recent # {}
             THEN {t \in recent : \A u \in recent : threads[u].last <= threads[t].last}
             ELSE {lastId + 1}

InCache(m) == IF m \in DOMAIN stored THEN stored[m] ELSE 0
AttachmentInCache(m) == Resolved(m, [x \in ToSet(Referred(m)) |-> InCache(x)])

Put(f, x, v) == [y \in DOMAIN f \cup {x} |-> IF y = x THEN v ELSE f[y]]

(* An id that is given is the last one, or it is one of a thread.          *)
Gives(t) == lastId' = IF t > lastId THEN t ELSE lastId

(* threads_repo::insert, and what touch_for_message adds for the messages  *)
Minted(m) == [subject |-> Post[m].subject, last |-> Post[m].day, count |-> 0]
Touched(thread, ms) ==
    [subject |-> thread.subject, last |-> Max({thread.last} \cup {Post[m].day : m \in ms}),
     count |-> thread.count + Cardinality(ms)]
-----------------------------------------------------------------------------
(* apply_chunk: phase 1 reads what is there, then resolves header after    *)
(* header; one resolved earlier in the chunk is found before storage.      *)
Deliver(hs) ==
    /\ chunk.at = "idle" /\ Occurs("chunks")
    /\ chunk' = ChunkAt("resolve", hs, 1)
    /\ known' = [m \in ToSet(hs) \cap DOMAIN stored |-> stored[m]]
    /\ untroubled' = (untroubled /\ page.at = "idle")
    /\ UNCHANGED <<stored, threads, lastId, chosen, page, followers>>

Settled(m) == m \in DOMAIN known /\ known[m] # 0
InChunk(m) == IF m \in DOMAIN chosen THEN chosen[m] ELSE InCache(m)

Attachment(m) == Resolved(m, [x \in ToSet(Referred(m)) |-> InChunk(x)])

Resolve ==
    LET m == chunk.headers[chunk.next]
    IN  /\ chunk.at = "resolve" /\ chunk.next <= Len(chunk.headers)
        /\ chunk' = ChunkAt("resolve", chunk.headers, chunk.next + 1)
        /\ \E t \in IF Settled(m) THEN {known[m]} ELSE Attachment(m) :
              chosen' = Put(chosen, m, t) /\ Gives(t)
        /\ UNCHANGED <<stored, threads, known, page, followers, untroubled, outing>>

(* Phases 2 and 3, one transaction: threads are minted, new rows inserted  *)
(* unless they exist by now, rows without a thread healed; each of these   *)
(* touches its thread, whether its row was written or not.                 *)
Joining == {m \in DOMAIN chosen : ~Settled(m)}
JoiningOf(t) == {m \in Joining : chosen[m] = t}
ToMint == {chosen[m] : m \in Joining} \ DOMAIN threads
FirstOf(t) == CHOOSE m \in JoiningOf(t) : \A n \in JoiningOf(t) :
    \E i, j \in DOMAIN chunk.headers : chunk.headers[i] = m /\ chunk.headers[j] = n /\ i <= j

WithTouches ==
    [t \in DOMAIN threads \cup ToMint |->
        Touched(IF t \in ToMint THEN Minted(FirstOf(t)) ELSE threads[t], JoiningOf(t))]

(* What m answers has a thread, or stands before it in the chunk.          *)
Answers(m, p) == Post[m].reply = <<p>>
Precedes(p, m) ==
    \E i, j \in DOMAIN chunk.headers : i < j /\ chunk.headers[i] = p /\ chunk.headers[j] = m

CommitChunk ==
    LET written == {m \in Joining : m \in DOMAIN stored <=> m \in DOMAIN known}
    IN  /\ chunk.at = "resolve" /\ chunk.next = Len(chunk.headers) + 1
        /\ stored' = [m \in DOMAIN stored \cup written |-> IF m \in written THEN chosen[m] ELSE stored[m]]
        /\ threads' = WithTouches
        /\ followers' = followers \cup
              {m \in written : InCache(m) = 0
                  /\ \E p \in DOMAIN Post : Answers(m, p) /\ (InCache(p) # 0 \/ Precedes(p, m))}
        /\ chunk' = NoChunk /\ known' = <<>> /\ chosen' = <<>>
        /\ UNCHANGED <<lastId, page, untroubled, outing>>

(* The pass fails, or the process ends, before the commit.                 *)
ChunkFails ==
    /\ chunk.at = "resolve" /\ Occurs("fails")
    /\ chunk' = NoChunk /\ known' = <<>> /\ chosen' = <<>>
    /\ UNCHANGED <<stored, threads, lastId, page, followers, untroubled>>
-----------------------------------------------------------------------------
(* messages_load_older, under state.db: find, insert, attach_to_thread     *)
AtHand == Head(page.headers)
GoTo(at) == page' = PageAt(at, page.headers, page.thread)
Advance == page' = IF Len(page.headers) = 1 THEN NoPage ELSE PageAt("find", Tail(page.headers), 0)

LoadOlder(hs) ==
    /\ page.at = "idle" /\ Occurs("pages")
    /\ page' = PageAt("find", hs, 0)
    /\ untroubled' = (untroubled /\ chunk.at = "idle")
    /\ UNCHANGED <<stored, threads, lastId, chunk, known, chosen, followers>>

FindOlder ==
    /\ page.at = "find"
    /\ IF AtHand \in DOMAIN stored THEN Advance ELSE GoTo("insert")
    /\ UNCHANGED <<stored, threads, lastId, chunk, known, chosen, followers, untroubled, outing>>

(* The row may have come meanwhile: the key is taken, the command fails.   *)
InsertOlder ==
    /\ page.at = "insert"
    /\ IF AtHand \in DOMAIN stored THEN page' = NoPage /\ UNCHANGED stored
                                   ELSE stored' = Put(stored, AtHand, 0) /\ GoTo("resolve")
    /\ UNCHANGED <<threads, lastId, chunk, known, chosen, followers, untroubled, outing>>

ResolveOlder ==
    /\ page.at = "resolve"
    /\ \E t \in AttachmentInCache(AtHand) :
          /\ page' = PageAt("touch", page.headers, t)
          /\ threads' = IF t \in DOMAIN threads THEN threads ELSE Put(threads, t, Minted(AtHand))
          /\ Gives(t)
    /\ UNCHANGED <<stored, chunk, known, chosen, followers, untroubled, outing>>

TouchOlder ==
    /\ page.at = "touch" /\ GoTo("attach")
    /\ threads' = Put(threads, page.thread, Touched(threads[page.thread], {AtHand}))
    /\ UNCHANGED <<stored, lastId, chunk, known, chosen, followers, untroubled, outing>>

AttachOlder ==
    /\ page.at = "attach" /\ Advance
    /\ IF AtHand \in DOMAIN stored
       THEN /\ stored' = Put(stored, AtHand, page.thread)
            /\ followers' = followers \cup
                  {m \in {AtHand} : \E p \in DOMAIN Post : Answers(m, p) /\ InCache(p) # 0}
       ELSE UNCHANGED <<stored, followers>>
    /\ UNCHANGED <<threads, lastId, chunk, known, chosen, untroubled, outing>>

(* A statement of attach_to_thread fails: it is logged and the loop goes   *)
(* on.  The process ends: the loop does not.                               *)
OlderFails ==
    /\ page.at \in {"resolve", "touch", "attach"} /\ Occurs("fails")
    /\ Advance \/ page' = NoPage
    /\ untroubled' = FALSE
    /\ UNCHANGED <<stored, threads, lastId, chunk, known, chosen, followers>>
-----------------------------------------------------------------------------
(* persist_chunk of a history pull; a row is pruned (the reconciliation    *)
(* runs in the pass, so never while a chunk is applied)                    *)
PullHistory(m) ==
    /\ m \notin DOMAIN stored /\ chunk.at = "idle" /\ Occurs("pulls")
    /\ stored' = Put(stored, m, 0)
    /\ UNCHANGED <<threads, lastId, chunk, known, chosen, page, followers, untroubled>>

PruneRow(m) ==
    /\ m \in DOMAIN stored /\ chunk.at = "idle" /\ Occurs("prunes")
    /\ stored' = [x \in DOMAIN stored \ {m} |-> stored[x]]
    /\ untroubled' = FALSE
    /\ UNCHANGED <<threads, lastId, chunk, known, chosen, page, followers>>

ThreadsNext ==
    \/ \E hs \in Chunks : Deliver(hs) \/ LoadOlder(hs)
    \/ Resolve \/ CommitChunk \/ ChunkFails
    \/ FindOlder \/ InsertOlder \/ ResolveOlder \/ TouchOlder \/ AttachOlder \/ OlderFails
    \/ \E m \in DOMAIN Post : PullHistory(m) \/ PruneRow(m)

ThreadsSpec == ThreadsInit /\ [][ThreadsNext]_threadVars
-----------------------------------------------------------------------------
RowsHaveThreads == \A m \in DOMAIN stored : stored[m] \in DOMAIN threads \cup {0}

Members(t) == {m \in DOMAIN stored : stored[m] = t}
CountsCover ==
    \A t \in DOMAIN threads :
        /\ threads[t].count >= Cardinality(Members(t))
        /\ untroubled /\ page.at = "idle" => threads[t].count = Cardinality(Members(t))

RepliesFollow ==
    untroubled => \A m \in followers : \A p \in DOMAIN Post :
        Answers(m, p) => stored[m] # 0 /\ stored[m] = stored[p]

(* Whatever the batches, and whoever writes at the same time: no row names *)
(* a thread that does not exist, and the badge of a thread (counts_by_ids) *)
(* never says fewer messages than there are.  And when nothing was removed *)
(* or cut short and the two writers did not overlap, the badge is exact,   *)
(* and a reply that got its thread in the same chunk as the message it     *)
(* answers, or later, is in that thread.                                   *)
ThreadsAreSound == RowsHaveThreads /\ CountsCover /\ RepliesFollow
=============================================================================
