------------------------------ MODULE Mailbox ------------------------------
(***************************************************************************)
(* The messages of one IMAP account: what the server holds, what the local *)
(* table shows, the changes the user makes to the table at once, and the   *)
(* operations that carry them to the server afterwards                     *)
(* (commands/messages.rs, sync/lib.rs, outbox_drain.rs, imap backend).     *)
(*                                                                         *)
(* Three parties write: a command, which holds the connection state.db; a  *)
(* pass of sync_folder or of the drain, which holds sync_db from beginning *)
(* to end; and other clients of the server.  A step is one statement or    *)
(* one exchange with the server.                                           *)
(***************************************************************************)
EXTENDS ImapServer

CONSTANTS
    Folders,
    Flags,        \* the flags the user may change: seen, flagged
    Limit,        \* SYNC_FETCH_LIMIT
    Inbox, Held,  \* a folder, and the number of messages in it at first
    MaxAttempts,
    MaxCommands,  \* bound on the user's changes
    MaxRemote,    \* bound on what other clients do
    MaxMishaps,   \* bound on lost replies, failed inserts and crashes of commands
    None

ASSUME NoneAssumption == None \notin Nat /\ None \notin Folders
ASSUME HeldAssumption == Inbox \in Folders /\ Held \in Nat
ASSUME LimitAssumption == Limit \in Nat \ {0} /\ MaxAttempts \in Nat \ {0}
ASSUME BoundAssumption == MaxCommands \in Nat /\ MaxRemote \in Nat /\ MaxMishaps \in Nat

VARIABLES
    server, nextName,      \* the mailboxes, and a name for the next message
    rows, cursor,          \* the tables messages and sync_states
    ops, nextOp,           \* the outbox: rows that are not dead
    cmd,                   \* the command that holds state.db
    at, on, prior, since,  \* the sync: its step, folder and cursors
    fresh, headers, existing, deltas, doomed,  \* and what it has read
    wish, taken, low,      \* history: what the user last wished a flag to be;
                           \* ids moved or deleted; where a full listing began
    commands, remote, mishaps

tables == <<rows, cursor, ops, nextOp>>
world == <<server, nextName>>
syncVars == <<on, prior, since, fresh, headers, existing, deltas, doomed>>
history == <<wish, taken, low>>
budget == <<commands, remote, mishaps>>
vars == <<world, tables, cmd, at, syncVars, history, budget>>

(* imap|<uidvalidity>|<uid>|<folder>                                       *)
Id(f, v, u) == [folder |-> f, validity |-> v, uid |-> u]
IdsAt(f) == {Id(f, server[f].validity, u) : u \in UidsOf(server[f])}

(* BackendState, from a SELECT.                                            *)
StateOf(m) == [validity |-> m.validity, uidnext |-> m.uidnext, modseq |-> m.modseq]

Init ==
    /\ server = [f \in Folders |-> MailboxOf(IF f = Inbox THEN Held ELSE 0)]
    /\ nextName = Held + 1
    /\ rows = [i \in {} |-> 0] /\ cursor = [f \in Folders |-> None]
    /\ ops = [n \in {} |-> 0] /\ nextOp = 1
    /\ cmd = None
    /\ at = "idle" /\ on = None /\ prior = None /\ since = None /\ fresh = None
    /\ headers = [u \in {} |-> 0] /\ existing = [i \in {} |-> 0]
    /\ deltas = [u \in {} |-> 0] /\ doomed = {}
    /\ wish = [w \in {} |-> FALSE] /\ taken = {} /\ low = [f \in Folders |-> 1]
    /\ commands = 0 /\ remote = 0 /\ mishaps = 0

Mishap == mishaps < MaxMishaps /\ mishaps' = mishaps + 1 /\ UNCHANGED <<commands, remote>>

-----------------------------------------------------------------------------
(* The commands: read the row, change it, queue the operation; one id of   *)
(* those a command is called with, the others go the same way.             *)

Operation(op, i, x, set, t) ==
    [op |-> op, id |-> i, name |-> rows[i].name, flag |-> x, set |-> set, target |-> t,
     attempts |-> 0]

Begin(todo) ==
    /\ cmd = None /\ commands < MaxCommands
    /\ cmd' = [stage |-> "write", todo |-> todo, flags |-> rows[todo.id].flags]
    /\ commands' = commands + 1
    /\ UNCHANGED <<world, tables, at, syncVars, history, remote, mishaps>>

(* messages_mark_read, messages_flag                                       *)
FlagRead(i, x, set) ==
    (x \in rows[i].flags) # set /\ Begin(Operation("flags", i, x, set, None))

(* messages_move; messages_archive with the archive folder for a target    *)
MoveRead(i, t) ==
    rows[i].folder # t /\ Begin(Operation("move", i, None, FALSE, t))

(* messages_delete                                                         *)
DeleteRead(i) == Begin(Operation("delete", i, None, FALSE, None))

Change(flags, x, set) == IF set THEN flags \cup {x} ELSE flags \ {x}

Writes(op) == cmd # None /\ cmd.stage = "write" /\ cmd.todo.op = op
Written == cmd' = [cmd EXCEPT !.stage = "enqueue"]

(* update_flags writes all the flags, as they were read.                   *)
FlagWrite ==
    /\ Writes("flags") /\ cmd.todo.id \in DOMAIN rows
    /\ LET o == cmd.todo
       IN  /\ rows' = [rows EXCEPT ![o.id].flags = Change(cmd.flags, o.flag, o.set)]
           /\ wish' = [w \in DOMAIN wish \cup {<<o.id, o.flag>>} |->
                         IF w = <<o.id, o.flag>> THEN o.set ELSE wish[w]]
    /\ Written
    /\ UNCHANGED <<world, cursor, ops, nextOp, at, syncVars, taken, low, budget>>

(* set_folder: the row keeps its id, and so the old folder's name in it.   *)
MoveWrite ==
    /\ Writes("move") /\ cmd.todo.id \in DOMAIN rows
    /\ rows' = [rows EXCEPT ![cmd.todo.id].folder = cmd.todo.target]
    /\ taken' = taken \cup {cmd.todo.id}
    /\ Written
    /\ UNCHANGED <<world, cursor, ops, nextOp, at, syncVars, wish, low, budget>>

(* The row is gone meanwhile: NotFound, nothing is queued.                 *)
RowVanished ==
    /\ Writes("flags") \/ Writes("move")
    /\ cmd.todo.id \notin DOMAIN rows
    /\ cmd' = None
    /\ UNCHANGED <<world, tables, at, syncVars, history, budget>>

Drop(t, is) == [i \in DOMAIN t \ is |-> t[i]]

(* DELETE does not mind.                                                   *)
DeleteWrite ==
    /\ Writes("delete")
    /\ rows' = Drop(rows, {cmd.todo.id})
    /\ taken' = taken \cup {cmd.todo.id}
    /\ Written
    /\ UNCHANGED <<world, cursor, ops, nextOp, at, syncVars, wish, low, budget>>

Enqueue ==
    /\ cmd # None /\ cmd.stage = "enqueue" /\ cmd' = None
    /\ ops' = [n \in DOMAIN ops \cup {nextOp} |-> IF n = nextOp THEN cmd.todo ELSE ops[n]]
    /\ nextOp' = nextOp + 1
    /\ UNCHANGED <<world, rows, cursor, at, syncVars, history, budget>>

(* The INSERT fails, or the process ends: the change stays, unqueued.      *)
CommandFails ==
    /\ cmd # None /\ cmd' = None /\ Mishap
    /\ UNCHANGED <<world, tables, at, syncVars, history>>

-----------------------------------------------------------------------------
(* The drain, one row: dispatch and settlement.  Fresh rows go out in the  *)
(* order of their due times, which is that of their numbers; a row that    *)
(* failed is due some time later.                                          *)

Due(n) ==
    /\ at = "idle" /\ n \in DOMAIN ops
    /\ ops[n].attempts = 0 => \A m \in DOMAIN ops : ops[m].attempts = 0 => n <= m

(* Mutant: the UIDVALIDITY of the id is not compared. *)
CurrentAnyway(i) == TRUE

Current(i) == i.validity = server[i.folder].validity

(* What the operation does to the server.                                  *)
Stored(o) ==
    [server EXCEPT ![o.id.folder] =
       IF o.id.uid \in UidsOf(@)
       THEN WithFlags(@, o.id.uid, Change(@.mail[o.id.uid].flags, o.flag, o.set))
       ELSE @]
Deleted(o) == [server EXCEPT ![o.id.folder] = WithoutMessage(@, o.id.uid)]
Copied(o) ==
    IF o.id.uid \in UidsOf(server[o.id.folder])
    THEN LET m == server[o.id.folder].mail[o.id.uid]
         IN  [server EXCEPT ![o.target] = WithMessage(@, m.name, m.flags)]
    ELSE server

(* Mutant: nothing is removed where the message came from. *)
MovedByCopy(o) == Copied(o)

Moved(o) ==
    [Copied(o) EXCEPT ![o.id.folder] = WithoutMessage(@, o.id.uid)]

(* Mutant: the EXPUNGE comes before the COPY. *)
ExpungedFirst(o) == Deleted(o)

(* A server without MOVE, between the COPY and the EXPUNGE.                *)
Halfway(o) == Copied(o)

Effect(o) ==
    CASE o.op = "flags" -> Stored(o)
      [] o.op = "delete" -> Deleted(o)
      [] o.op = "move" -> Moved(o)

Settled(n) == ops' = Drop(ops, {n})

(* record_failure: the last attempt dead-letters the row for good.         *)
Failed(n) ==
    ops' = IF ops[n].attempts + 1 >= MaxAttempts THEN Drop(ops, {n})
           ELSE [ops EXCEPT ![n].attempts = @ + 1]

Dispatch(n) ==
    /\ Due(n) /\ Current(ops[n].id)
    /\ server' = Effect(ops[n])
    /\ Settled(n)
    /\ UNCHANGED <<nextName, rows, cursor, nextOp, cmd, at, syncVars, history, budget>>

(* No connection, an answer of NO, or another UIDVALIDITY.                 *)
DispatchFails(n) ==
    /\ Due(n)
    /\ Failed(n)
    /\ UNCHANGED <<world, rows, cursor, nextOp, cmd, at, syncVars, history, budget>>

(* The server has done it but the reply is lost, or the row is not deleted *)
(* because of a crash or a failed statement; or a move stops halfway.      *)
DispatchLost(n) ==
    /\ Due(n) /\ Current(ops[n].id) /\ Mishap
    /\ \/ server' = Effect(ops[n])
       \/ ops[n].op = "move" /\ server' = Halfway(ops[n])
    /\ Failed(n) \/ UNCHANGED ops
    /\ UNCHANGED <<nextName, rows, cursor, nextOp, cmd, at, syncVars, history>>

-----------------------------------------------------------------------------
(* sync_folder                                                             *)

SyncStart(f) ==
    /\ at = "idle" /\ at' = "select" /\ on' = f
    /\ prior' = cursor[f] /\ since' = cursor[f]
    /\ UNCHANGED <<world, tables, cmd, fresh, headers, existing, deltas, doomed, history, budget>>

Renewed == since # None /\ since.validity # server[on].validity

(* A new UIDVALIDITY: the cursor is dropped and the folder listed anew.    *)
ClearCursor ==
    /\ at = "select" /\ Renewed
    /\ cursor' = [cursor EXCEPT ![on] = None]
    /\ since' = None
    /\ UNCHANGED <<world, rows, ops, nextOp, cmd, at, on, prior, fresh, headers, existing, deltas,
                   doomed, history, budget>>

(* SELECT                                                                  *)
Select ==
    /\ at = "select" /\ ~Renewed
    /\ fresh' = StateOf(server[on]) /\ at' = "fetch"
    /\ UNCHANGED <<world, tables, cmd, on, prior, since, headers, existing, deltas, doomed,
                   history, budget>>

ListFrom == IF since # None THEN since.uidnext
            ELSE IF fresh.uidnext > Limit THEN fresh.uidnext - Limit ELSE 1

(* UID FETCH from:*                                                        *)
Fetch ==
    /\ at = "fetch" /\ at' = "changes"
    /\ headers' = [u \in UidsFrom(server[on], ListFrom) |-> server[on].mail[u]]
    /\ UNCHANGED <<world, tables, cmd, on, prior, since, fresh, existing, deltas, doomed,
                   history, budget>>

(* Mutant: the mod-sequence moves on when the pass fails. *)
ChangesMoveOn ==
    /\ at = "changes" /\ at' = "find"
    /\ \/ deltas' = IF since = None THEN [u \in {} |-> 0]
                    ELSE [u \in UidsChanged(server[on], fresh.uidnext - 1, since.modseq) |->
                            server[on].mail[u].flags]
       \/ deltas' = [u \in {} |-> 0]
    /\ UNCHANGED <<world, tables, cmd, on, prior, since, fresh, headers, existing, doomed,
                   history, budget>>

(* The CONDSTORE pass; when it fails the old mod-sequence is kept.         *)
Changes ==
    /\ at = "changes" /\ at' = "find"
    /\ \/ /\ deltas' = IF since = None THEN [u \in {} |-> 0]
                       ELSE [u \in UidsChanged(server[on], fresh.uidnext - 1, since.modseq) |->
                               server[on].mail[u].flags]
          /\ UNCHANGED fresh
       \/ /\ since # None
          /\ deltas' = [u \in {} |-> 0] /\ fresh' = [fresh EXCEPT !.modseq = since.modseq]
    /\ UNCHANGED <<world, tables, cmd, on, prior, since, headers, existing, doomed,
                   history, budget>>

Listed(u) == Id(on, fresh.validity, u)

(* apply_chunk, phase 1: the rows that are there already.                  *)
FindExisting ==
    /\ at = "find" /\ at' = "apply"
    /\ existing' = [i \in {Listed(u) : u \in DOMAIN headers} \cap DOMAIN rows |-> rows[i]]
    /\ UNCHANGED <<world, tables, cmd, on, prior, since, fresh, headers, deltas, doomed,
                   history, budget>>

Row(f, m) == [folder |-> f, flags |-> m.flags, name |-> m.name]

(* Phases 2 and 3, one transaction: INSERT OR IGNORE what was not there,   *)
(* UPDATE what was and differs, if it still is.                            *)
ToInsert == {Listed(u) : u \in DOMAIN headers} \ DOMAIN existing
ToUpdate == {i \in DOMAIN existing : existing[i] # Row(on, headers[i.uid])}

ApplyChunk ==
    /\ at = "apply" /\ at' = IF prior # None THEN "known" ELSE "flags"
    /\ rows' = [i \in DOMAIN rows \cup ToInsert |->
                  IF i \in DOMAIN rows /\ i \notin ToUpdate THEN rows[i]
                  ELSE Row(on, headers[i.uid])]
    /\ headers' = [u \in {} |-> 0] /\ existing' = [i \in {} |-> 0]
    /\ UNCHANGED <<world, cursor, ops, nextOp, cmd, on, prior, since, fresh, deltas, doomed,
                   history, budget>>

(* list_known_ids; empty or failed, and the reconciliation is skipped.     *)
ListKnown ==
    /\ at = "known"
    /\ \/ /\ IdsAt(on) # {} /\ doomed' = IdsAt(on) /\ at' = "local"
       \/ at' = "flags" /\ UNCHANGED doomed
    /\ UNCHANGED <<world, tables, cmd, on, prior, since, fresh, headers, existing, deltas,
                   history, budget>>

(* list_ids_by_folder: the rows that are not among the known ids.          *)
ListLocal ==
    /\ at = "local" /\ at' = "prune"
    /\ doomed' = {i \in DOMAIN rows : rows[i].folder = on} \ doomed
    /\ UNCHANGED <<world, tables, cmd, on, prior, since, fresh, headers, existing, deltas,
                   history, budget>>

Prune ==
    /\ at = "prune"
    /\ IF doomed = {} THEN at' = "flags" /\ UNCHANGED <<rows, doomed>>
       ELSE \E i \in doomed : /\ rows' = Drop(rows, {i}) /\ doomed' = doomed \ {i}
                              /\ UNCHANGED at
    /\ UNCHANGED <<world, cursor, ops, nextOp, cmd, on, prior, since, fresh, headers, existing,
                   deltas, history, budget>>

(* update_flags; NotFound is skipped.                                      *)
UpdateFlags ==
    /\ at = "flags" /\ DOMAIN deltas # {}
    /\ \E u \in DOMAIN deltas :
         /\ rows' = [i \in DOMAIN rows |->
                       IF i = Listed(u) THEN [rows[i] EXCEPT !.flags = deltas[u]] ELSE rows[i]]
         /\ deltas' = Drop(deltas, {u})
    /\ UNCHANGED <<world, cursor, ops, nextOp, cmd, at, on, prior, since, fresh, headers, existing,
                   doomed, history, budget>>

(* What a pass has read is forgotten.                                      *)
Forget ==
    /\ at' = "idle" /\ on' = None /\ prior' = None /\ since' = None /\ fresh' = None
    /\ headers' = [u \in {} |-> 0] /\ existing' = [i \in {} |-> 0]
    /\ deltas' = [u \in {} |-> 0] /\ doomed' = {}

PutCursor ==
    /\ at = "flags" /\ DOMAIN deltas = {}
    /\ cursor' = [cursor EXCEPT ![on] = fresh]
    /\ low' = IF since = None THEN [low EXCEPT ![on] = ListFrom] ELSE low
    /\ Forget
    /\ UNCHANGED <<world, rows, ops, nextOp, cmd, wish, taken, budget>>

(* Any statement or exchange may fail, and the process may end.            *)
SyncFails ==
    /\ at # "idle" /\ Forget
    /\ UNCHANGED <<world, tables, cmd, history, budget>>

-----------------------------------------------------------------------------
(* Other clients of the account.                                           *)

Elsewhere ==
    /\ remote < MaxRemote /\ remote' = remote + 1
    /\ UNCHANGED <<tables, cmd, at, syncVars, history, commands, mishaps>>

Arrive(f) ==
    /\ Elsewhere
    /\ server' = [server EXCEPT ![f] = WithMessage(@, nextName, {})]
    /\ nextName' = nextName + 1

Flip(f, u, x) ==
    /\ Elsewhere /\ UNCHANGED nextName
    /\ server' = [server EXCEPT ![f] =
                    WithFlags(@, u, Change(@.mail[u].flags, x, x \notin @.mail[u].flags))]

Expunge(f, u) ==
    /\ Elsewhere /\ UNCHANGED nextName
    /\ server' = [server EXCEPT ![f] = WithoutMessage(@, u)]

(* Not while the mailbox is selected for a listing.                        *)
Rebuild(f) ==
    /\ ~(at \in {"fetch", "changes"} /\ on = f)
    /\ Elsewhere /\ UNCHANGED nextName
    /\ server' = [server EXCEPT ![f] = Renumbered(@)]

-----------------------------------------------------------------------------
User ==
    \/ \E i \in DOMAIN rows :
          \/ \E x \in Flags, set \in BOOLEAN : FlagRead(i, x, set)
          \/ \E t \in Folders : MoveRead(i, t)
          \/ DeleteRead(i)
    \/ FlagWrite \/ MoveWrite \/ RowVanished \/ DeleteWrite \/ Enqueue \/ CommandFails

Drain == \E n \in DOMAIN ops : Dispatch(n) \/ DispatchFails(n) \/ DispatchLost(n)

Sync ==
    \/ \E f \in Folders : SyncStart(f)
    \/ ClearCursor \/ Select \/ Fetch \/ Changes \/ FindExisting \/ ApplyChunk
    \/ ListKnown \/ ListLocal \/ Prune \/ UpdateFlags \/ PutCursor \/ SyncFails

Others ==
    \E f \in Folders :
       \/ Arrive(f) \/ Rebuild(f)
       \/ \E u \in UidsOf(server[f]) : Expunge(f, u) \/ \E x \in Flags : Flip(f, u, x)

Next == User \/ Drain \/ Sync \/ Others

Spec == Init /\ [][Next]_vars
=============================================================================
