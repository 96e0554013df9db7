----------------------------- MODULE ImapSession -----------------------------
(***************************************************************************)
(* The one IMAP session that every operation of an account shares          *)
(* (imap-client backend.rs): it is dialled in bounded steps, locked for    *)
(* each operation, probed with a NOOP when it has been quiet for five      *)
(* minutes and replaced in place when the probe fails.  An operation       *)
(* selects the folder of its message and checks that the UIDs still mean   *)
(* what they did.  Module Backends has the cache that this session is in.  *)
(***************************************************************************)
EXTENDS Naturals, Sequences, FiniteSets

CONSTANTS
    Users,           \* the tasks that hold this backend
    Selectable,      \* the mailboxes of the account, each with one message
    Advertised,      \* what the server may advertise after login: sets of capabilities
    Weathers         \* bounds: how often what kind of thing happens

VARIABLES
    server,      \* UIDVALIDITY of each mailbox
    socket,      \* the session's connection: none, up, half (no answer ever comes), closed
    selected,    \* the mailbox that the session has selected, at which UIDVALIDITY
    quiet,       \* five minutes have passed since last_activity was set
    user,        \* what each task does: its step, the id it works on, what it saw
    holder,      \* who has the session's mutex
    outcome,     \* what the last operation returned; history: the connection died in its
                 \* task's hands, or the task had found last_activity recent
    met

sessionVars == <<server, socket, selected, quiet, user, holder, outcome, met>>

NoOne == "nobody"
ASSUME SessionAssumption == NoOne \notin Users

NoBox == [box |-> "none", validity |-> 0]
Met(k) ==
    /\ \E w \in Weathers : \A j \in DOMAIN w : met[j] + (IF j = k THEN 1 ELSE 0) <= w[j]
    /\ met' = [met EXCEPT ![k] = @ + 1]

(* An id names its folder, the UIDVALIDITY and the UID.                    *)
Ids == [box : Selectable, validity : {1}]
AtRest == [at |-> "idle", id |-> NoBox, stale |-> FALSE, died |-> FALSE]

SessionInit ==
    /\ server = [b \in Selectable |-> 1]
    /\ socket = "none" /\ selected = NoBox /\ quiet = FALSE
    /\ user = [u \in Users |-> AtRest] /\ holder = NoOne
    /\ outcome = [of |-> NoBox, got |-> NoBox, error |-> "", excused |-> FALSE]
    /\ met = [calls |-> 0, drops |-> 0, timeouts |-> 0, recreates |-> 0]

To(u, at) == user' = [user EXCEPT ![u].at = at]
Idles(u) == user' = [user EXCEPT ![u] = AtRest]
Returns(u, got, error) ==
    /\ outcome' = [of |-> user[u].id, got |-> got, error |-> error,
                   excused |-> user[u].died \/ ~user[u].stale]
    /\ Idles(u) /\ holder' = NoOne
-----------------------------------------------------------------------------
(* lock_session_alive: last_activity is read before the session is locked. *)
Acquire(u, id) ==
    /\ user[u].at = "idle" /\ Met("calls")
    /\ user' = [user EXCEPT ![u] = [AtRest EXCEPT !.at = "lock", !.id = id, !.stale = quiet]]
    /\ UNCHANGED <<server, socket, selected, quiet, holder, outcome>>

(* The first caller dials (connect_tls), the others wait for the session.  *)
Lock(u) ==
    /\ user[u].at = "lock" /\ holder = NoOne /\ holder' = u
    /\ To(u, IF socket = "none" THEN "dial" ELSE IF user[u].stale THEN "noop" ELSE "select")
    /\ quiet' = (quiet /\ (socket = "none" \/ user[u].stale))
    /\ UNCHANGED <<server, socket, selected, outcome, met>>

Noop(u) ==
    /\ user[u].at = "noop"
    /\ \/ socket = "up" /\ To(u, "select")
          /\ quiet' = FALSE
       \/ socket = "closed" /\ To(u, "dial") /\ UNCHANGED quiet
    /\ UNCHANGED <<server, socket, selected, holder, outcome, met>>

(* dial_session: every step may fail or time out; the old session stays.   *)
ErrorOf == [tcp |-> "Network", tls |-> "Network", greeting |-> "Protocol", auth |-> "Auth",
            capability |-> "Protocol"]
DialFails(u, step) ==
    /\ user[u].at = "dial" /\ Met("timeouts") /\ Returns(u, NoBox, ErrorOf[step])
    /\ UNCHANGED <<server, socket, selected, quiet>>

(* capabilities::require                                                   *)
Required == {"CONDSTORE", "IDLE"}
ResyncAny == {"QRESYNC", "X-GM-EXT-1"}
Sufficient(caps) == Required \subseteq caps /\ ResyncAny \cap caps # {}

(* The fresh session takes the place of the old one.                       *)
Dialled(u, caps) ==
    /\ user[u].at = "dial"
    /\ IF Sufficient(caps)
       THEN /\ socket' = "up" /\ selected' = NoBox /\ quiet' = FALSE
            /\ To(u, "select")
            /\ UNCHANGED <<holder, outcome>>
       ELSE Returns(u, NoBox, "Protocol") /\ UNCHANGED <<socket, selected, quiet>>
    /\ UNCHANGED <<server, met>>
-----------------------------------------------------------------------------
(* SELECT, with the name that the server knows (mailbox_name).             *)
SameValidity(id, seen) == id.validity = seen
AnyValidity(id, seen) == TRUE
Unchanged(id, seen) == SameValidity(id, seen)

Select(u) ==
    /\ user[u].at = "select" /\ socket = "up"
    /\ LET id == user[u].id
       IN  /\ selected' = [box |-> id.box, validity |-> server[id.box]]
           /\ IF Unchanged(id, server[id.box])
              THEN To(u, "fetch") /\ UNCHANGED <<holder, outcome>>
              ELSE Returns(u, NoBox, "UidValidityChanged")
    /\ UNCHANGED <<server, socket, quiet, met>>

(* UID FETCH.  A mailbox that was recreated meanwhile answers nothing.     *)
Fetch(u) ==
    /\ user[u].at = "fetch" /\ socket = "up"
    /\ IF selected.validity = server[selected.box] THEN Returns(u, selected, "")
       ELSE Returns(u, NoBox, "NotFound")
    /\ UNCHANGED <<server, socket, selected, quiet, met>>

(* A command on a closed connection; on a half-open one it does not return.*)
Breaks(u) ==
    /\ user[u].at \in {"select", "fetch"} /\ socket = "closed" /\ Returns(u, NoBox, "Broken")
    /\ UNCHANGED <<server, socket, selected, quiet, met>>
-----------------------------------------------------------------------------
(* The world: the network drops the connection silently or with a reset,   *)
(* the system gives up on a silent one; time passes; a mailbox is deleted  *)
(* and created anew.                                                       *)
Drop(how) ==
    /\ socket = "up" /\ Met("drops") /\ socket' = how
    /\ user' = [u \in Users |-> [user[u] EXCEPT !.died = (u = holder)]]
    /\ UNCHANGED <<server, selected, quiet, holder, outcome>>
GiveUp ==
    /\ socket = "half" /\ holder # NoOne /\ socket' = "closed"
    /\ UNCHANGED <<server, selected, quiet, user, holder, outcome, met>>
FiveMinutes ==
    /\ ~quiet /\ socket # "none" /\ quiet' = TRUE
    /\ UNCHANGED <<server, socket, selected, user, holder, outcome, met>>
Recreate(b) ==
    /\ Met("recreates") /\ server' = [server EXCEPT ![b] = @ + 1]
    /\ UNCHANGED <<socket, selected, quiet, user, holder, outcome>>

SessionNext ==
    \/ \E u \in Users : (\E id \in Ids : Acquire(u, id)) \/ Lock(u) \/ Noop(u)
    \/ \E u \in Users : (\E s \in DOMAIN ErrorOf : DialFails(u, s)) \/ (\E c \in Advertised : Dialled(u, c))
    \/ \E u \in Users : Select(u) \/ Fetch(u) \/ Breaks(u)
    \/ \E b \in Selectable : Recreate(b)
    \/ \E how \in {"half", "closed"} : Drop(how)
    \/ GiveUp \/ FiveMinutes

SessionSpec == SessionInit /\ [][SessionNext]_sessionVars
-----------------------------------------------------------------------------
(* Whatever tasks share the session, however often it is replaced, and     *)
(* whatever happens to the mailboxes: an operation returns the message of  *)
(* its id or an error, never that of another folder or of a folder that    *)
(* was created anew (lock_session_alive, fetch_raw_message); and a task    *)
(* that found the session quiet gets no error of a dead connection, unless *)
(* it died in its hands ("the next command pays one NOOP probe and either  *)
(* continues on the same socket or reconnects", backend.rs:33).            *)
OperationsHitTheirMessage == outcome.error = "" => outcome.got = outcome.of
ProbesFindTheDead == outcome.error = "Broken" => outcome.excused
SessionIsSound == OperationsHitTheirMessage /\ ProbesFindTheDead
===============================================================================
