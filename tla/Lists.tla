------------------------------- MODULE Lists --------------------------------
(***************************************************************************)
(* The message list, the bulk bar, the context menu, drag and drop, the    *)
(* keyboard and the reader's toolbar (app.rs), over the commands that move *)
(* and mark messages and the events of the sync.                           *)
(*                                                                         *)
(* The UI is one thread: a handler runs to its await, effects run before   *)
(* the next event.  A future that is spawned by the bulk bar or the reader *)
(* ends with its component, what the others spawn does not.  Messages are  *)
(* numbers, the newest is the greatest.                                    *)
(***************************************************************************)
EXTENDS Naturals, Sequences, SequencesExt, FiniteSets

CONSTANTS
    Mail,       \* how many messages there are
    Threads,    \* sets of messages that make a row, single messages among them
    Targets,    \* where archiving and deleting take a message
    Page,       \* how many rows more a scroll to the end asks for
    Courses     \* bounds: a course says how often what kind of thing happens

Boxes == {"inbox", "other"}
Mails == 1..Mail

VARIABLES
    (* the host *)
    where,      \* the folder of each message, or "gone"
    local,      \* the messages whose headers are in the database
    seen,       \* the messages that are read
    news,       \* the folders with a sync_event on its way
    calls,      \* the futures that wait for a command
    (* the UI *)
    box, open,  \* selection.folder, selection.message (0 for None)
    searching,  \* search_query is not empty
    limit, tail, older,  \* visible_limit, tail_exhausted, loading_older: no, asked, 0 and more: what came
    rows,       \* the page: of which folder, which messages, the unread ones
    fetch,      \* the page that is being fetched
    checked, dragged, menu,  \* bulk_selected, drag_state, context_menu (0 for None)
    clicked,    \* client_read_ids
    lost,       \* history: a refetch was due that nobody asks for
    spent       \* what is used up of the course

host == <<where, local, seen, news>>
paging == <<limit, tail, older>>
marks == <<checked, dragged, menu>>
view == <<open, checked, calls, clicked>>
vars == <<host, calls, box, open, searching, paging, rows, fetch, marks, clicked, lost, spent>>

Keep == Mail + 1
NoFetch == [at |-> "none", of |-> "inbox", rows |-> <<>>, unread |-> {}]
Asked(of) == [NoFetch EXCEPT !.at = "asked", !.of = of]
Newest(ms) == SetToSortSeq(ms, LAMBDA a, b : a > b)
Rank(ms, m) == Cardinality({n \in ms : n > m})
Listing(of) == LET in == {m \in local : where[m] = of}
               IN Newest(IF searching THEN local ELSE {m \in in : Rank(in, m) < limit})

(* The first message after the selected one that stays, or the last one    *)
(* before it, or nothing.                                                  *)
Beside(visible, current, stay) ==
    LET at == {i \in DOMAIN visible : visible[i] = current}
        p == CHOOSE i \in at : \A j \in at : i <= j
        after == {i \in DOMAIN visible : visible[i] \in stay /\ i > p}
        before == {i \in DOMAIN visible : visible[i] \in stay /\ i < p}
    IN IF at = {} THEN 0
       ELSE IF after # {} THEN visible[CHOOSE i \in after : \A j \in after : i <= j]
       ELSE IF before # {} THEN visible[CHOOSE i \in before : \A j \in before : i >= j]
       ELSE 0
NextSelection(visible, current, moved) == Beside(visible, current, Mails \ moved)

(* A future: the handler it is of, the messages, what it asks for, and     *)
(* what becomes of the selection afterwards.                               *)
Ask(by, ids, to, next) == [by |-> by, ids |-> ids, to |-> to, next |-> next, at |-> "sent"]

(* A folder is shown with the newest message open, when none is.  A        *)
(* message that is opened counts as read at once, and the host is told.    *)
(* Futures of the bar end when nothing is checked, those of the reader     *)
(* when nothing is open.                                                   *)
Shown(s, page) == IF s = 0 /\ ~searching /\ page.rows # <<>> THEN page.rows[1] ELSE s
Opens(s) == IF s \in {0, open} THEN {} ELSE {Ask("open", {s}, "read", Keep)}
Mounted(c, s, b) == (c.by = "bar" => b # {}) /\ (c.by = "reader" => s # 0)
Become(s, b, page, cs) ==
    LET n == Shown(s, page) IN
    /\ open' = n /\ checked' = b
    /\ clicked' = IF n = 0 THEN clicked ELSE clicked \cup {n}
    /\ calls' = {c \in cs : Mounted(c, n, b)} \cup Opens(n)
Drops(s, b, cs) == \E c \in cs : ~Mounted(c, s, b)
Select(s) == Become(s, checked, rows, calls) /\ lost' = (lost \/ Drops(s, checked, calls))
Send(c) == Become(open, checked, rows, calls \cup {c}) /\ UNCHANGED lost

(* The page of a folder is fetched anew, and what is under way is dropped. *)
(* Results of a search are not.                                            *)
RefetchLater == fetch' = IF searching \/ fetch.at # "none" THEN fetch ELSE Asked(box)
Refetch == fetch' = IF searching THEN fetch ELSE Asked(box)

Spend(k) == /\ \E p \in Courses : \A j \in DOMAIN p : spent[j] + (IF j = k THEN 1 ELSE 0) <= p[j]
            /\ spent' = [spent EXCEPT ![k] = @ + 1]

(* The inbox is shown and its newest message open.                         *)
Init ==
    /\ where = [m \in Mails |-> IF m = 2 THEN "other" ELSE "inbox"]
    /\ local = Mails \ {1} /\ seen = {Mail} /\ news = {} /\ calls = {}
    /\ box = "inbox" /\ open = Mail /\ searching = FALSE
    /\ limit = Page /\ tail = FALSE /\ older = [at |-> "none", of |-> "inbox", n |-> 0]
    /\ rows = [of |-> "inbox", rows |-> Newest({m \in 3..Mail : m + Page > Mail}), unread |-> 3..(Mail - 1)]
    /\ fetch = NoFetch /\ checked = {} /\ dragged = {} /\ menu = 0 /\ clicked = {Mail}
    /\ lost = FALSE /\ spent = [moves |-> 0, reads |-> 0, looks |-> 0, syncs |-> 0, fails |-> 0]
-----------------------------------------------------------------------------
(* The user looks around.  A sidebar row: the component of the list is     *)
(* kept and shows the old page until a signal it reads moves.              *)
Folder(f) ==
    /\ f # box /\ Spend("looks") /\ box' = f
    /\ Become(0, checked, rows, calls)
    /\ fetch' \in {fetch, Asked(f)} /\ lost' = TRUE
    /\ UNCHANGED <<host, searching, paging, rows, dragged, menu>>
Search ==
    /\ Spend("looks") /\ searching' = ~searching
    /\ rows' = [of |-> box, rows |-> <<>>, unread |-> {}]
    /\ fetch' = Asked(box) /\ limit' = Page /\ tail' = FALSE /\ older' = [older EXCEPT !.at = "none"]
    /\ UNCHANGED <<host, calls, box, open, marks, clicked, lost>>
Row(m) ==
    /\ m \in ToSet(rows.rows) /\ m # open /\ Spend("looks") /\ Select(m)
    /\ UNCHANGED <<host, box, searching, paging, rows, fetch, dragged, menu>>
(* j, k and n walk the list and wrap around.                               *)
Step(i, by) == ((i - 1 + by) % Len(rows.rows)) + 1
Walk ==
    /\ rows.rows # <<>> /\ Spend("looks")
    /\ LET at == {i \in DOMAIN rows.rows : rows.rows[i] = open}
           fresh == {i \in DOMAIN rows.rows : rows.rows[i] \in rows.unread}
           later == {i \in fresh : \A j \in at : i > j}
           first(s) == CHOOSE i \in s : \A j \in s : i <= j
       IN \E i \in (IF at = {} THEN {1, Len(rows.rows)}
                    ELSE {Step(j, d) : j \in at, d \in {1, Len(rows.rows) - 1}})
                   \cup (IF fresh = {} THEN {} ELSE {first(IF at # {} /\ later # {} THEN later ELSE fresh)}) :
             Select(rows.rows[i])
    /\ UNCHANGED <<host, box, searching, paging, rows, fetch, dragged, menu>>
Escape ==
    /\ Spend("looks")
    /\ IF menu # 0 THEN menu' = 0 /\ UNCHANGED <<view, lost>>
       ELSE open # 0 /\ ~searching /\ Select(0) /\ UNCHANGED menu
    /\ UNCHANGED <<host, box, searching, paging, rows, fetch, dragged>>

(* A check box takes its whole row in or out, or a thread.                 *)
Toggle(t) ==
    /\ t \subseteq ToSet(rows.rows) /\ Spend("looks")
    /\ LET b == IF t \subseteq checked THEN checked \ t ELSE checked \cup t
       IN Become(open, b, rows, calls) /\ lost' = (lost \/ Drops(open, b, calls))
    /\ UNCHANGED <<host, box, searching, paging, rows, fetch, dragged, menu>>
Clear ==
    /\ checked # {} /\ Spend("looks")
    /\ Become(open, {}, rows, calls) /\ lost' = (lost \/ Drops(open, {}, calls))
    /\ UNCHANGED <<host, box, searching, paging, rows, fetch, dragged, menu>>
Menu(m) ==
    /\ m \in ToSet(rows.rows) /\ Spend("looks") /\ menu' = m
    /\ UNCHANGED <<host, view, box, searching, paging, rows, fetch, dragged, lost>>
Drag(t) ==
    /\ dragged = {} /\ t \subseteq ToSet(rows.rows) /\ Spend("looks")
    /\ dragged' = IF t \cap checked # {} THEN checked ELSE t
    /\ UNCHANGED <<host, view, box, searching, paging, rows, fetch, menu, lost>>
LetGo ==
    /\ dragged # {} /\ dragged' = {}
    /\ UNCHANGED <<host, view, box, searching, paging, rows, fetch, menu, lost, spent>>
-----------------------------------------------------------------------------
(* The user moves messages: what is next in the reader is settled now.     *)
Moves(by, ids, to, next) ==
    /\ ids # {} /\ Spend("moves") /\ Send(Ask(by, ids, to, next))
    /\ UNCHANGED <<host, box, searching, paging, rows, fetch>>
After(ids) == NextSelection(rows.rows, open, ids)
BarMove(to) ==
    /\ Moves("bar", checked, to, IF open \in checked THEN After(checked) ELSE Keep)
    /\ UNCHANGED <<dragged, menu>>
Drop(f) ==
    /\ Moves("drop", dragged, f, After(dragged))
    /\ dragged' = {} /\ UNCHANGED menu
KeyMove(to) ==
    /\ open # 0 /\ Moves("key", {open}, to, After({open})) /\ UNCHANGED <<dragged, menu>>
ReaderMove(t, to) ==
    /\ open \in t /\ Moves("reader", t, to, After({open})) /\ UNCHANGED <<dragged, menu>>
MenuMove(to) ==
    /\ menu # 0
    /\ Moves("menu", {menu}, to, IF menu = open THEN After({menu}) ELSE Keep)
    /\ menu' = 0 /\ UNCHANGED dragged

(* And marks them.                                                         *)
Marks(by, ids, to) ==
    /\ ids # {} /\ Spend("reads") /\ Send(Ask(by, ids, to, Keep))
    /\ UNCHANGED <<host, box, searching, paging, rows, fetch, dragged>>
Flip(ids) == IF ids \subseteq rows.unread THEN "read" ELSE "unread"
BarMark(to) == Marks("bar", checked, to) /\ UNCHANGED menu
MenuMark == menu # 0 /\ Marks("menu", {menu}, Flip({menu} \ clicked)) /\ menu' = 0
ReaderMark(t) == open \in t /\ Marks("reader", t, IF open \in seen THEN "unread" ELSE "read") /\ UNCHANGED menu
-----------------------------------------------------------------------------
(* The host: a command is carried out, or refused.                         *)
Do(c) ==
    /\ c \in calls /\ c.at = "sent"
    /\ calls' = (calls \ {c}) \cup {[c EXCEPT !.at = "done"]}
    /\ where' = [m \in Mails |-> IF m \in c.ids /\ m \in local /\ c.to \notin {"read", "unread"} THEN c.to ELSE where[m]]
    /\ seen' = IF c.to = "read" THEN seen \cup c.ids ELSE IF c.to = "unread" THEN seen \ c.ids ELSE seen
    /\ UNCHANGED <<local, news, box, open, searching, paging, rows, fetch, marks, clicked, lost, spent>>
Refuse(c) ==
    /\ c \in calls /\ c.at = "sent" /\ c.by # "open" /\ Spend("fails") /\ calls' = calls \ {c}
    /\ UNCHANGED <<host, box, open, searching, paging, rows, fetch, marks, clicked, lost>>

(* A reply: the reader moves on, the checks go, and the lists are fetched  *)
(* anew.                                                                   *)
Reply(c) ==
    /\ c \in calls /\ c.at = "done" /\ c.by # "open"
    /\ LET s == IF c.next = Keep THEN open ELSE c.next
           b == IF c.by \in {"bar", "drop"} THEN {} ELSE checked
       IN /\ Become(s, b, rows, calls \ {c})
          /\ lost' = (Drops(s, b, calls \ {c}) \/ (lost /\ searching))
    /\ Refetch
    /\ UNCHANGED <<host, box, searching, paging, rows, dragged, menu, spent>>
Opened(c) ==
    /\ c \in calls /\ c.at = "done" /\ c.by = "open" /\ calls' = calls \ {c}
    /\ UNCHANGED <<host, box, open, searching, paging, rows, fetch, marks, clicked, lost, spent>>

(* The sync finds a change on the server, and its event arrives.           *)
Change(m) ==
    /\ m \in local /\ Spend("syncs")
    /\ \/ \E p \in {"inbox", "gone"} \ {where[m]} : where' = [where EXCEPT ![m] = p] /\ news' = news \cup {where[m]}
          /\ UNCHANGED seen
       \/ seen' = (seen \cup {m}) \ (seen \cap {m}) /\ news' = news \cup {where[m]} /\ UNCHANGED where
    /\ UNCHANGED <<local, calls, box, open, searching, paging, rows, fetch, marks, clicked, lost>>
SyncEvent(f) ==
    /\ f \in news /\ news' = news \ {f} /\ Refetch
    /\ lost' = (lost /\ searching)
    /\ UNCHANGED <<where, local, seen, view, box, searching, paging, rows, dragged, menu, spent>>

(* The page: the host reads the database, and the answer arrives.          *)
List ==
    /\ fetch.at = "asked"
    /\ LET l == Listing(fetch.of)
       IN fetch' = [at |-> "read", of |-> fetch.of, rows |-> l, unread |-> ToSet(l) \ seen]
    /\ UNCHANGED <<host, calls, box, open, searching, paging, rows, marks, clicked, lost, spent>>
Arrive ==
    /\ fetch.at = "read" /\ fetch' = NoFetch
    /\ rows' = [of |-> fetch.of, rows |-> fetch.rows, unread |-> fetch.unread]
    /\ Become(open, checked, rows', calls)
    /\ UNCHANGED <<host, box, searching, paging, dragged, menu, lost, spent>>

(* A scroll near the end asks for older messages, and for more rows.       *)
Scroll ==
    /\ ~searching /\ rows.rows # <<>> /\ older.at = "none" /\ ~tail /\ Spend("looks")
    /\ older' = [at |-> "asked", of |-> box, n |-> 0]
    /\ UNCHANGED <<host, view, box, searching, limit, tail, rows, fetch, dragged, menu, lost>>
Fetched == {m \in Mails \ local : where[m] = older.of}
LoadOlder ==
    /\ older.at = "asked" /\ older' = [older EXCEPT !.at = "read", !.n = Cardinality(Fetched)]
    /\ local' = local \cup Fetched
    /\ UNCHANGED <<where, seen, news, view, box, searching, limit, tail, rows, fetch, dragged, menu, lost, spent>>
Loaded ==
    /\ older.at = "read" /\ older' = [older EXCEPT !.at = "none"]
    /\ tail' = (older.n = 0 \/ tail)
    /\ limit' = limit + (IF older.n > Page THEN older.n ELSE Page)
    /\ Refetch /\ lost' = (lost /\ searching)
    /\ UNCHANGED <<host, view, box, searching, rows, dragged, menu, spent>>
-----------------------------------------------------------------------------
User ==
    \/ \E f \in Boxes : Folder(f) \/ Drop(f)
    \/ \E m \in Mails : Row(m) \/ Menu(m)
    \/ \E t \in Threads : Toggle(t) \/ Drag(t) \/ ReaderMark(t) \/ (\E to \in Targets : ReaderMove(t, to))
    \/ Search \/ Walk \/ Escape \/ Clear \/ LetGo \/ Scroll
    \/ \E to \in Targets : BarMove(to) \/ KeyMove(to) \/ MenuMove(to)
    \/ MenuMark \/ (\E to \in {"read", "unread"} : BarMark(to))
Commands == \E c \in calls : Do(c) \/ Reply(c) \/ Opened(c)
Pages == List \/ Arrive \/ LoadOlder \/ Loaded \/ (\E f \in news : SyncEvent(f))
Next == User \/ Commands \/ Pages \/ (\E c \in calls : Refuse(c)) \/ (\E m \in Mails : Change(m))

Spec == Init /\ [][Next]_vars
(* Commands answer and events arrive; the user need not do anything.       *)
FairSpec == Spec /\ WF_vars(Commands) /\ WF_vars(Pages)
-----------------------------------------------------------------------------
(* However commands, events and fetches overlap, the list of a folder      *)
(* shows the change in the end: no page that was read before the change    *)
(* stays on the screen, unless the component that would have asked for it  *)
(* is gone.                                                                *)
ChangesAreShown ==
    (~searching /\ rows.rows # Listing(box)) ~> (searching \/ lost \/ rows.rows = Listing(box))
=============================================================================
