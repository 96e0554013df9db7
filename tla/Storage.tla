-------------------------------- MODULE Storage --------------------------------
(***************************************************************************)
(* The database connections (turso_conn.rs): transactions are BEGIN,       *)
(* COMMIT and ROLLBACK sent as text, a transaction that is dropped leaves  *)
(* its BEGIN open and a flag behind, and whoever uses the connection next  *)
(* rolls it back first.  And the migrations that both programs run when    *)
(* they start (migrations.rs, bootstrap_state, open_db).                   *)
(*                                                                         *)
(* A connection has one caller at a time: it is behind a mutex, or has a   *)
(* single owner.  A statement is a pair <<caller, number>>.                *)
(***************************************************************************)
EXTENDS Naturals, FiniteSets

CONSTANTS
    Programs,     \* the programs, with the connections that each of them opens
    Migrating,    \* the connection on which a program runs the migrations
    Latest,       \* the last of MIGRATIONS
    Size,         \* the statements of a transaction
    Troubles      \* bounds: how often what kind of thing happens

ASSUME StorageAssumption ==
    /\ Latest \in Nat \ {0} /\ Size \in Nat \ {0}
    /\ \A p \in DOMAIN Programs : Migrating[p] \in Programs[p]

VARIABLES
    committed,    \* the statements that are committed
    conn,         \* per connection: is a BEGIN open, the statements in it, the flag poisoned
    caller,       \* per connection: who uses it, and the statement that comes next
    running,      \* the programs that have started
    served,       \* the number of callers so far, above the numbers of the migrations
    confirmed,    \* history: statements whose caller got Ok for them, or for the commit
    given,        \* history: statements of transactions that did not end in Ok
    repeated,     \* history: a statement was committed a second time
    troubled

storageVars == <<committed, conn, caller, running, served, confirmed, given, repeated, troubled>>

Trouble(k) ==
    /\ \E t \in Troubles : \A j \in DOMAIN t : troubled[j] + (IF j = k THEN 1 ELSE 0) <= t[j]
    /\ troubled' = [troubled EXCEPT ![k] = @ + 1]

Connections == UNION {Programs[p] : p \in DOMAIN Programs}
OwnerOf(c) == CHOOSE p \in DOMAIN Programs : c \in Programs[p]

Fresh == [open |-> FALSE, writes |-> {}, poisoned |-> FALSE]
Nobody == [id |-> 0, at |-> "none", next |-> 0]
Caller(id, at) == [id |-> id, at |-> at, next |-> 1]

StorageInit ==
    /\ committed = {} /\ conn = [c \in Connections |-> Fresh] /\ caller = [c \in Connections |-> Nobody]
    /\ running = {} /\ served = Latest
    /\ confirmed = {} /\ given = {} /\ repeated = FALSE
    /\ troubled = [calls |-> 0, fails |-> 0, crashes |-> 0]
-----------------------------------------------------------------------------
(* recover_orphan_tx, first in execute, query and begin                    *)
Recovered(c) == IF conn[c].poisoned THEN Fresh ELSE conn[c]
Untouched(c) == conn[c]
OnEntry(c) == Recovered(c)

(* One connection writes at a time: until the other's transaction ends a   *)
(* statement waits, and fails after the busy_timeout.                      *)
MayWrite(c) == \A d \in Connections \ {c} : conn[d].writes = {}

(* Drop without commit or rollback: the statements stay in the open        *)
(* transaction, unless the engine has rolled it back with the error.       *)
Dropped(c) ==
    /\ \E left \in {conn[c].open, FALSE} :
          conn' = [conn EXCEPT ![c] = [open |-> left, poisoned |-> TRUE,
                                       writes |-> IF left THEN @.writes ELSE {}]]
    /\ given' = given \cup conn[c].writes

Ends(c) == caller' = [caller EXCEPT ![c] = Nobody]
-----------------------------------------------------------------------------
(* A statement of its own: it commits at once, or becomes part of a        *)
(* transaction that is still open.                                         *)
Call(c) ==
    /\ OwnerOf(c) \in running /\ caller[c] = Nobody /\ Trouble("calls")
    /\ served' = served + 1
    /\ \E at \in {"execute", "query", "begin"} : caller' = [caller EXCEPT ![c] = Caller(served + 1, at)]
    /\ UNCHANGED <<committed, conn, running, confirmed, given, repeated>>

Execute(c) ==
    LET was == OnEntry(c)
        statement == <<caller[c].id, 1>>
    IN  /\ caller[c].at = "execute" /\ MayWrite(c) /\ Ends(c)
        /\ IF was.open THEN conn' = [conn EXCEPT ![c] = [was EXCEPT !.writes = @ \cup {statement}]] /\ UNCHANGED committed
                       ELSE conn' = [conn EXCEPT ![c] = was] /\ committed' = committed \cup {statement}
        /\ confirmed' = confirmed \cup {statement}
        /\ UNCHANGED <<running, served, given, repeated, troubled>>

Query(c) ==
    /\ caller[c].at = "query" /\ Ends(c) /\ conn' = [conn EXCEPT ![c] = OnEntry(c)]
    /\ UNCHANGED <<committed, running, served, confirmed, given, repeated, troubled>>

ExecuteFails(c) ==
    /\ caller[c].at = "execute" /\ Trouble("fails") /\ Ends(c)
    /\ conn' = [conn EXCEPT ![c] = OnEntry(c)]
    /\ UNCHANGED <<committed, running, served, confirmed, given, repeated>>
-----------------------------------------------------------------------------
(* A transaction (apply_chunk, batch_insert_skip_existing, batch_update,   *)
(* apply_one).  A BEGIN fails inside a transaction.                        *)
Begin(c) ==
    LET was == Recovered(c)
    IN  /\ caller[c].at = "begin"
        /\ IF was.open THEN conn' = [conn EXCEPT ![c] = was] /\ Ends(c)
           ELSE /\ conn' = [conn EXCEPT ![c] = [was EXCEPT !.open = TRUE]]
                /\ caller' = [caller EXCEPT ![c].at = "body"]
        /\ UNCHANGED <<committed, running, served, confirmed, given, repeated, troubled>>

(* The last statement of a migration inserts its version into              *)
(* _schema_version, whose key is the version.                              *)
Migrates(c) == caller[c].id \in 1..Latest
Version(v) == <<v, Size>>
Refused(c) == Migrates(c) /\ caller[c].next = Size /\ Version(caller[c].id) \in committed

TxExecute(c) ==
    LET statement == <<caller[c].id, caller[c].next>>
    IN  /\ caller[c].at = "body" /\ caller[c].next <= Size /\ MayWrite(c) /\ ~Refused(c)
        /\ conn' = [conn EXCEPT ![c].writes = @ \cup {statement}]
        /\ caller' = [caller EXCEPT ![c].next = @ + 1]
        /\ UNCHANGED <<committed, running, served, confirmed, given, repeated, troubled>>

(* current_version, read once; the migrations above it follow each other   *)
Current == CHOOSE v \in 0..Latest :
              /\ v > 0 => Version(v) \in committed
              /\ \A u \in v+1 .. Latest : Version(u) \notin committed
Upgrade(c, v) == IF v > Latest THEN Ends(c) /\ running' = running \cup {OwnerOf(c)}
                 ELSE caller' = [caller EXCEPT ![c] = Caller(v, "begin")] /\ UNCHANGED running

Commit(c) ==
    /\ caller[c].at = "body" /\ caller[c].next > Size
    /\ conn' = [conn EXCEPT ![c] = Fresh]
    /\ committed' = committed \cup conn[c].writes /\ repeated' = (repeated \/ committed \cap conn[c].writes # {})
    /\ confirmed' = confirmed \cup conn[c].writes
    /\ IF Migrates(c) THEN Upgrade(c, caller[c].id + 1) ELSE Ends(c) /\ UNCHANGED running
    /\ UNCHANGED <<served, given, troubled>>

(* A statement or the COMMIT fails and the error leaves the function; a    *)
(* migration takes its program down with it.                               *)
TxFails(c) ==
    /\ caller[c].at = "body"
    /\ (Refused(c) /\ UNCHANGED troubled) \/ Trouble("fails")
    /\ IF Migrates(c) THEN conn' = [conn EXCEPT ![c] = Fresh] /\ given' = given \cup conn[c].writes
                      ELSE Dropped(c)
    /\ Ends(c)
    /\ UNCHANGED <<committed, running, served, confirmed, repeated>>
-----------------------------------------------------------------------------
(* Programs start and crash.                                               *)
Start(p) ==
    /\ p \notin running /\ caller[Migrating[p]] = Nobody
    /\ Upgrade(Migrating[p], Current + 1)
    /\ UNCHANGED <<committed, conn, served, confirmed, given, repeated, troubled>>

Crash(p) ==
    /\ Trouble("crashes") /\ running' = running \ {p}
    /\ conn' = [c \in Connections |-> IF c \in Programs[p] THEN Fresh ELSE conn[c]]
    /\ caller' = [c \in Connections |-> IF c \in Programs[p] THEN Nobody ELSE caller[c]]
    /\ given' = given \cup UNION {conn[c].writes : c \in Programs[p]}
    /\ UNCHANGED <<committed, served, confirmed, repeated>>

StorageNext ==
    \/ \E c \in Connections :
          Call(c) \/ Execute(c) \/ Query(c) \/ ExecuteFails(c) \/ Begin(c) \/ TxExecute(c) \/ Commit(c) \/ TxFails(c)
    \/ \E p \in DOMAIN Programs : Start(p) \/ Crash(p)

StorageSpec == StorageInit /\ [][StorageNext]_storageVars
-----------------------------------------------------------------------------
(* What a caller was told is written, stays written: a transaction that    *)
(* was dropped on the same connection does not take it along.              *)
ConfirmedStays == confirmed \subseteq committed

(* Of a transaction all is committed or nothing, and nothing when it did   *)
(* not end in Ok; a migration may be tried again.                          *)
AllOrNothing ==
    /\ \A w \in committed : w \in confirmed
    /\ \A w \in given \cap committed : w[1] <= Latest
    /\ \A v \in 1..Latest : \A n \in 1..Size : <<v, n>> \in committed <=> Version(v) \in committed

(* Whichever programs migrate at the same time or die meanwhile, no        *)
(* migration is applied twice, none is skipped, and a program that runs    *)
(* has them all.                                                           *)
MigratedOnce ==
    /\ ~repeated
    /\ \A v \in 1..Latest : Version(v) \in committed => \A u \in 1..v : Version(u) \in committed
    /\ running # {} => Version(Latest) \in committed

StorageIsSound == ConfirmedStays /\ AllOrNothing /\ MigratedOnce
=============================================================================
