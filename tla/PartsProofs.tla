------------------------------ MODULE PartsProofs ------------------------------
(***************************************************************************)
(* What holds of the parts that share no state with another, for all       *)
(* values of their constants: the database connections (Storage), the      *)
(* shared IMAP session (ImapSession), opening attachments (Attachments),   *)
(* the settings and who shows them (Settings), the folders of several      *)
(* accounts (Folders) and the conversations (Threading).                   *)
(***************************************************************************)
EXTENDS Storage, ImapSession, Attachments, Settings, Folders, Threading,
    FiniteSetTheorems, WellFoundedInduction, TLAPS

-----------------------------------------------------------------------------
(* Storage: the connections and those who use them.                        *)

Statements == Nat \X Nat
Own(c) == caller[c].id > Latest            \* not a migration
Busy(c) == caller[c].at # "none"

StorageTypeOK ==
    /\ conn = [c \in Connections |-> conn[c]] /\ caller = [c \in Connections |-> caller[c]]
    /\ \A c \in Connections :
          /\ conn[c] \in [open : BOOLEAN, writes : SUBSET Statements, poisoned : BOOLEAN]
          /\ caller[c] \in [id : Nat, at : {"none", "execute", "query", "begin", "body"}, next : Nat]
    /\ committed \subseteq Statements /\ given \subseteq Statements
    /\ served \in Nat /\ Latest <= served

(* Every caller has a number of its own, except that a migration may have  *)
(* several; nothing is written yet under the number of a caller at work.   *)
CallersAreTheirOwn ==
    \A c \in Connections :
       /\ ~Busy(c) => caller[c] = Nobody
       /\ Busy(c) => caller[c].id \in 1..served
       /\ caller[c].at \in {"execute", "query"} => Own(c)
       /\ caller[c].at = "begin" => caller[c].next = 1
       /\ Own(c) => \A w \in committed \cup given : w[1] # caller[c].id
       /\ Own(c) => \A d \in Connections \ {c} : caller[d].id # caller[c].id

(* Only a transaction is open with good reason, and then it holds what its *)
(* caller has written so far; what else is left was given up.  One at most *)
(* holds anything.                                                         *)
TransactionsAreTheirOwn ==
    \A c \in Connections :
       /\ caller[c].at = "body" =>
             /\ ~conn[c].poisoned /\ caller[c].next \in 1 .. Size + 1
             /\ conn[c].writes = {<<caller[c].id, n>> : n \in 1 .. caller[c].next - 1}
       /\ caller[c].at # "body" => conn[c].poisoned \/ (~conn[c].open /\ conn[c].writes = {})
       /\ conn[c].poisoned => conn[c].writes \subseteq given
       /\ conn[c].writes # {} => MayWrite(c)

(* A migration follows those before it, and has not been applied when its  *)
(* version is inserted.                                                    *)
MigrationsFollow ==
    \A c \in Connections : Busy(c) /\ ~Own(c) =>
       /\ \A u \in 1 .. caller[c].id - 1 : Version(u) \in committed
       /\ caller[c].at = "body" /\ caller[c].next = Size + 1 => Version(caller[c].id) \notin committed

StoredIsNumbered ==
    /\ \A w \in committed \cup given : w[1] <= served
    /\ confirmed = committed

StorageInv ==
    /\ StorageTypeOK /\ CallersAreTheirOwn /\ TransactionsAreTheirOwn /\ MigrationsFollow
    /\ StoredIsNumbered /\ AllOrNothing /\ MigratedOnce

LEMMA StorageInitially == StorageInit => StorageInv
  <1> SUFFICES ASSUME StorageInit PROVE StorageInv
    OBVIOUS
  <1> USE StorageAssumption DEF StorageInit
  <1>1. \A c \in Connections : conn[c] = Fresh /\ caller[c] = Nobody
    OBVIOUS
  <1>2. StorageTypeOK
    <2>1. conn = [c \in Connections |-> conn[c]] /\ caller = [c \in Connections |-> caller[c]]
      OBVIOUS
    <2>2. Fresh \in [open : BOOLEAN, writes : SUBSET Statements, poisoned : BOOLEAN]
      BY DEF Fresh
    <2>3. Nobody \in [id : Nat, at : {"none", "execute", "query", "begin", "body"}, next : Nat]
      BY DEF Nobody
    <2>4. served \in Nat /\ Latest <= served
      OBVIOUS
    <2>5. committed \subseteq Statements /\ given \subseteq Statements
      OBVIOUS
    <2>6. \A c \in Connections :
             /\ conn[c] \in [open : BOOLEAN, writes : SUBSET Statements, poisoned : BOOLEAN]
             /\ caller[c] \in [id : Nat, at : {"none", "execute", "query", "begin", "body"}, next : Nat]
      BY <1>1, <2>2, <2>3
    <2> HIDE DEF StorageInit
    <2> QED
      BY <2>1, <2>4, <2>5, <2>6 DEF StorageTypeOK
  <1>3. CallersAreTheirOwn /\ TransactionsAreTheirOwn /\ MigrationsFollow
    BY <1>1 DEF CallersAreTheirOwn, TransactionsAreTheirOwn, MigrationsFollow, Fresh, Nobody,
                MayWrite, Busy, Own
  <1>4. StoredIsNumbered /\ AllOrNothing /\ MigratedOnce
    BY DEF StoredIsNumbered, AllOrNothing, MigratedOnce, Version
  <1> QED
    BY <1>2, <1>3, <1>4 DEF StorageInv

(* A call comes, and gets a number that nobody had.                        *)
LEMMA CallKeeps ==
    ASSUME StorageInv, NEW c \in Connections, Call(c)
    PROVE  StorageInv'
  <1> USE StorageAssumption
  <1>1. PICK at \in {"execute", "query", "begin"} : caller' = [caller EXCEPT ![c] = Caller(served + 1, at)]
    BY DEF Call
  <1>2. /\ caller[c] = Nobody /\ served' = served + 1
        /\ UNCHANGED <<committed, conn, running, confirmed, given, repeated>>
    BY DEF Call
  <1>3. served \in Nat /\ Latest <= served
    BY DEF StorageInv, StorageTypeOK
  <1>4. /\ caller' = [d \in Connections |-> caller'[d]]
        /\ caller'[c] = [id |-> served + 1, at |-> at, next |-> 1]
        /\ \A d \in Connections \ {c} : caller'[d] = caller[d]
    BY <1>1 DEF StorageInv, StorageTypeOK, Caller
  <1>5. \A d \in Connections \ {c} : Busy(d) => caller[d].id \in 1..served
    BY DEF StorageInv, CallersAreTheirOwn
  <1>6. \A d \in Connections : caller[d].id <= served
    BY <1>3 DEF StorageInv, CallersAreTheirOwn, Nobody
  <1>7. \A w \in committed \cup given : w[1] <= served /\ w[1] \in Nat
    BY DEF StorageInv, StoredIsNumbered, StorageTypeOK, Statements
  <1>10. StorageTypeOK'
    BY <1>2, <1>3, <1>4 DEF StorageInv, StorageTypeOK
  <1>11. CallersAreTheirOwn'
    <2>1. ASSUME NEW d \in Connections \ {c}
          PROVE  /\ ~Busy(d)' => caller'[d] = Nobody
                 /\ Busy(d)' => caller'[d].id \in 1..served'
                 /\ caller'[d].at \in {"execute", "query"} => Own(d)'
                 /\ caller'[d].at = "begin" => caller'[d].next = 1
                 /\ Own(d)' => \A w \in (committed \cup given)' : w[1] # caller'[d].id
                 /\ Own(d)' => \A e \in Connections \ {d} : caller'[e].id # caller'[d].id
      BY <1>2, <1>3, <1>4, <1>6 DEF StorageInv, StorageTypeOK, CallersAreTheirOwn, Busy, Own
    <2>2. \A w \in (committed \cup given)' : w[1] # caller'[c].id
      BY <1>2, <1>3, <1>4, <1>7
    <2>3. \A e \in Connections \ {c} : caller'[e].id # caller'[c].id
      BY <1>3, <1>4, <1>6 DEF StorageInv, StorageTypeOK
    <2> QED
      BY <1>2, <1>3, <1>4, <2>1, <2>2, <2>3 DEF CallersAreTheirOwn, Busy, Own
  <1>12. TransactionsAreTheirOwn'
    <2>1. caller[c].at # "body" /\ caller'[c].at # "body"
      BY <1>2, <1>4 DEF Nobody
    <2> QED
      BY <1>2, <1>4, <2>1 DEF StorageInv, TransactionsAreTheirOwn, MayWrite
  <1>13. MigrationsFollow'
    BY <1>2, <1>3, <1>4 DEF StorageInv, MigrationsFollow, Busy, Own, Version
  <1>14. StoredIsNumbered'
    BY <1>2, <1>3, <1>7 DEF StorageInv, StoredIsNumbered
  <1>15. AllOrNothing' /\ MigratedOnce'
    BY <1>2 DEF StorageInv, AllOrNothing, MigratedOnce, Version
  <1> QED
    BY <1>10, <1>11, <1>12, <1>13, <1>14, <1>15 DEF StorageInv

(* Outside a transaction nothing is left after the recovery.               *)
LEMMA RecoveredIsFresh ==
    ASSUME StorageInv, NEW c \in Connections, caller[c].at # "body"
    PROVE  Recovered(c) = Fresh
  <1>1. conn[c].poisoned \/ (~conn[c].open /\ conn[c].writes = {})
    BY DEF StorageInv, TransactionsAreTheirOwn
  <1>2. conn[c] = [open |-> conn[c].open, writes |-> conn[c].writes, poisoned |-> conn[c].poisoned]
    BY DEF StorageInv, StorageTypeOK
  <1>3. conn[c].open \in BOOLEAN /\ conn[c].poisoned \in BOOLEAN
    BY DEF StorageInv, StorageTypeOK
  <1>4. CASE conn[c].poisoned
    BY <1>4 DEF Recovered
  <1>5. CASE ~conn[c].poisoned
    BY <1>1, <1>2, <1>3, <1>5 DEF Recovered, Fresh
  <1> QED
    BY <1>4, <1>5

(* A query, and a statement that fails, leave nothing.                     *)
LEMMA NothingKeeps ==
    ASSUME StorageInv, NEW c \in Connections,
           caller' = [caller EXCEPT ![c] = Nobody], conn' = [conn EXCEPT ![c] = Fresh],
           UNCHANGED <<committed, running, served, confirmed, given, repeated>>
    PROVE  StorageInv'
  <1> USE StorageAssumption
  <1>1. /\ caller' = [d \in Connections |-> caller'[d]] /\ conn' = [d \in Connections |-> conn'[d]]
        /\ caller'[c] = Nobody /\ conn'[c] = Fresh
        /\ \A d \in Connections \ {c} : caller'[d] = caller[d] /\ conn'[d] = conn[d]
    BY DEF StorageInv, StorageTypeOK
  <1>2. StorageTypeOK'
    BY <1>1 DEF StorageInv, StorageTypeOK, Nobody, Fresh
  <1>3. CallersAreTheirOwn'
    BY <1>1 DEF StorageInv, StorageTypeOK, CallersAreTheirOwn, Own, Busy, Nobody
  <1>4. TransactionsAreTheirOwn'
    BY <1>1 DEF StorageInv, TransactionsAreTheirOwn, MayWrite, Fresh, Nobody
  <1>5. MigrationsFollow' /\ StoredIsNumbered' /\ AllOrNothing' /\ MigratedOnce'
    BY <1>1 DEF StorageInv, MigrationsFollow, StoredIsNumbered, AllOrNothing, MigratedOnce, Version,
                Busy, Own, Nobody
  <1> QED
    BY <1>2, <1>3, <1>4, <1>5 DEF StorageInv

(* A statement of its own finds no transaction and commits at once.        *)
LEMMA ExecuteKeeps ==
    ASSUME StorageInv, NEW c \in Connections, Execute(c)
    PROVE  StorageInv'
  <1> USE StorageAssumption
  <1> DEFINE statement == <<caller[c].id, 1>>
  <1>1. /\ caller[c].at = "execute" /\ caller' = [caller EXCEPT ![c] = Nobody]
        /\ UNCHANGED <<running, served, given, repeated>> /\ confirmed' = confirmed \cup {statement}
    BY DEF Execute, Ends
  <1>2. Recovered(c) = Fresh
    BY <1>1, RecoveredIsFresh
  <1>3. conn' = [conn EXCEPT ![c] = Fresh] /\ committed' = committed \cup {statement}
    BY <1>2 DEF Execute, OnEntry, Fresh
  <1>4. /\ caller' = [d \in Connections |-> caller'[d]] /\ conn' = [d \in Connections |-> conn'[d]]
        /\ caller'[c] = Nobody /\ conn'[c] = Fresh
        /\ \A d \in Connections \ {c} : caller'[d] = caller[d] /\ conn'[d] = conn[d]
    BY <1>1, <1>3 DEF StorageInv, StorageTypeOK
  <1>5. Own(c) /\ Busy(c) /\ caller[c].id \in Nat /\ caller[c].id <= served
    BY <1>1 DEF StorageInv, StorageTypeOK, CallersAreTheirOwn, Busy
  <1>6. statement \in Statements /\ statement \notin committed /\ statement \notin given
    BY <1>5 DEF StorageInv, CallersAreTheirOwn, Statements
  <1>7. \A v \in 1..Latest, n \in Nat : statement # <<v, n>>
    BY <1>5 DEF Own
  <1>10. StorageTypeOK'
    BY <1>1, <1>3, <1>4, <1>6 DEF StorageInv, StorageTypeOK, Nobody, Fresh
  <1>11. CallersAreTheirOwn'
    <2>1. ASSUME NEW d \in Connections \ {c}, Own(d)'
          PROVE  /\ \A w \in (committed \cup given)' : w[1] # caller'[d].id
                 /\ \A e \in Connections \ {d} : caller'[e].id # caller'[d].id
      BY <1>1, <1>3, <1>4, <1>5, <2>1 DEF StorageInv, StorageTypeOK, CallersAreTheirOwn, Own, Nobody
    <2>2. ASSUME NEW d \in Connections \ {c}
          PROVE  /\ ~Busy(d)' => caller'[d] = Nobody
                 /\ Busy(d)' => caller'[d].id \in 1..served'
                 /\ caller'[d].at \in {"execute", "query"} => Own(d)'
                 /\ caller'[d].at = "begin" => caller'[d].next = 1
      BY <1>1, <1>4 DEF StorageInv, CallersAreTheirOwn, Busy, Own
    <2> QED
      BY <1>4, <2>1, <2>2 DEF CallersAreTheirOwn, Busy, Own, Nobody
  <1>12. TransactionsAreTheirOwn'
    BY <1>1, <1>4 DEF StorageInv, TransactionsAreTheirOwn, MayWrite, Fresh, Nobody
  <1>13. MigrationsFollow'
    BY <1>3, <1>4, <1>7 DEF StorageInv, StorageTypeOK, MigrationsFollow, Busy, Own, Version, Nobody,
                            CallersAreTheirOwn
  <1>14. StoredIsNumbered'
    BY <1>1, <1>3, <1>5 DEF StorageInv, StoredIsNumbered
  <1>15. AllOrNothing'
    BY <1>1, <1>3, <1>6, <1>7 DEF StorageInv, AllOrNothing, Version
  <1>16. MigratedOnce'
    BY <1>1, <1>3, <1>7 DEF StorageInv, MigratedOnce, Version
  <1> QED
    BY <1>10, <1>11, <1>12, <1>13, <1>14, <1>15, <1>16 DEF StorageInv

LEMMA BeginKeeps ==
    ASSUME StorageInv, NEW c \in Connections, Begin(c)
    PROVE  StorageInv'
  <1> USE StorageAssumption
  <1>1. /\ caller[c].at = "begin"
        /\ UNCHANGED <<committed, running, served, confirmed, given, repeated>>
    BY DEF Begin
  <1>2. Recovered(c) = Fresh
    BY <1>1, RecoveredIsFresh
  <1>3. /\ conn' = [conn EXCEPT ![c] = [Fresh EXCEPT !.open = TRUE]]
        /\ caller' = [caller EXCEPT ![c].at = "body"]
    BY <1>2 DEF Begin, Fresh
  <1>4. /\ caller' = [d \in Connections |-> caller'[d]] /\ conn' = [d \in Connections |-> conn'[d]]
        /\ caller'[c] = [id |-> caller[c].id, at |-> "body", next |-> 1]
        /\ caller'[c].id = caller[c].id /\ caller'[c].at = "body" /\ caller'[c].next = 1
        /\ conn'[c] = [open |-> TRUE, writes |-> {}, poisoned |-> FALSE]
        /\ \A d \in Connections \ {c} : caller'[d] = caller[d] /\ conn'[d] = conn[d]
    BY <1>1, <1>3 DEF StorageInv, StorageTypeOK, CallersAreTheirOwn, Fresh
  <1>5. StorageTypeOK'
    <2>1. conn'[c] \in [open : BOOLEAN, writes : SUBSET Statements, poisoned : BOOLEAN]
      BY <1>4
    <2>2. caller[c].id \in Nat
      BY DEF StorageInv, StorageTypeOK
    <2>3. caller'[c] \in [id : Nat, at : {"none", "execute", "query", "begin", "body"}, next : Nat]
      BY <1>4, <2>2
    <2> QED
      BY <1>1, <1>4, <2>1, <2>3 DEF StorageInv, StorageTypeOK
  <1>6. CallersAreTheirOwn'
    <2>1. \A d \in Connections : caller'[d].id = caller[d].id /\ (Busy(d)' <=> Busy(d))
      BY <1>1, <1>4 DEF Busy
    <2>2. \A d \in Connections \ {c} : caller'[d] = caller[d]
      BY <1>4
    <2> QED
      BY <1>1, <1>4, <2>1, <2>2 DEF StorageInv, CallersAreTheirOwn, Own, Busy
  <1>7. TransactionsAreTheirOwn'
    <2>1. {<<caller'[c].id, n>> : n \in 1 .. caller'[c].next - 1} = {}
      BY <1>4
    <2> QED
      BY <1>1, <1>4, <2>1 DEF StorageInv, TransactionsAreTheirOwn, MayWrite
  <1>8. MigrationsFollow'
    BY <1>1, <1>4 DEF StorageInv, MigrationsFollow, Version, Busy, Own
  <1>9. StoredIsNumbered' /\ AllOrNothing' /\ MigratedOnce'
    BY <1>1 DEF StorageInv, StoredIsNumbered, AllOrNothing, MigratedOnce, Version
  <1> QED
    BY <1>5, <1>6, <1>7, <1>8, <1>9 DEF StorageInv

LEMMA TxExecuteKeeps ==
    ASSUME StorageInv, NEW c \in Connections, TxExecute(c)
    PROVE  StorageInv'
  <1> USE StorageAssumption
  <1> DEFINE statement == <<caller[c].id, caller[c].next>>
             next == caller[c].next
  <1>1. /\ caller[c].at = "body" /\ next <= Size /\ MayWrite(c) /\ ~Refused(c)
        /\ conn' = [conn EXCEPT ![c].writes = @ \cup {statement}]
        /\ caller' = [caller EXCEPT ![c].next = @ + 1]
        /\ UNCHANGED <<committed, running, served, confirmed, given, repeated>>
    BY DEF TxExecute
  <1>2. /\ caller' = [d \in Connections |-> caller'[d]] /\ conn' = [d \in Connections |-> conn'[d]]
        /\ caller'[c] = [id |-> caller[c].id, at |-> "body", next |-> next + 1]
        /\ conn'[c] = [open |-> conn[c].open, writes |-> conn[c].writes \cup {statement},
                       poisoned |-> conn[c].poisoned]
        /\ \A d \in Connections \ {c} : caller'[d] = caller[d] /\ conn'[d] = conn[d]
    BY <1>1 DEF StorageInv, StorageTypeOK
  <1>3. /\ ~conn[c].poisoned /\ next \in 1 .. Size
        /\ conn[c].writes = {<<caller[c].id, n>> : n \in 1 .. next - 1}
    BY <1>1 DEF StorageInv, TransactionsAreTheirOwn
  <1>4. caller[c].id \in Nat /\ statement \in Statements
    BY <1>3 DEF StorageInv, StorageTypeOK, Statements
  <1>5. StorageTypeOK'
    <2>1. conn[c] \in [open : BOOLEAN, writes : SUBSET Statements, poisoned : BOOLEAN]
      BY DEF StorageInv, StorageTypeOK
    <2>2. conn'[c] \in [open : BOOLEAN, writes : SUBSET Statements, poisoned : BOOLEAN]
      BY <1>2, <1>4, <2>1
    <2>3. caller'[c] \in [id : Nat, at : {"none", "execute", "query", "begin", "body"}, next : Nat]
      BY <1>2, <1>3, <1>4
    <2> QED
      BY <1>1, <1>2, <2>2, <2>3 DEF StorageInv, StorageTypeOK
  <1>6. CallersAreTheirOwn'
    <2>1. \A d \in Connections : caller'[d].id = caller[d].id /\ (Busy(d)' <=> Busy(d))
      BY <1>1, <1>2 DEF Busy
    <2>2. \A d \in Connections \ {c} : caller'[d] = caller[d]
      BY <1>2
    <2>3. caller[c].at = "body" /\ caller'[c].at = "body"
      BY <1>1, <1>2
    <2> QED
      BY <1>1, <2>1, <2>2, <2>3 DEF StorageInv, CallersAreTheirOwn, Own, Busy
  <1>7. TransactionsAreTheirOwn'
    <2>1. conn'[c].writes = {<<caller[c].id, n>> : n \in 1 .. next}
      BY <1>2, <1>3
    <2>2. MayWrite(c)'
      BY <1>1, <1>2 DEF MayWrite
    <2>3. ASSUME NEW d \in Connections \ {c}
          PROVE  conn'[d].writes = {}
      BY <1>1, <1>2 DEF MayWrite
    <2> QED
      BY <1>1, <1>2, <1>3, <2>1, <2>2, <2>3 DEF StorageInv, TransactionsAreTheirOwn
  <1>8. MigrationsFollow'
    <2>1. ASSUME ~Own(c), next = Size PROVE Version(caller[c].id) \notin committed
      BY <1>1, <2>1 DEF Refused, Migrates, Own, Busy, StorageInv, CallersAreTheirOwn
    <2> QED
      BY <1>1, <1>2, <1>3, <2>1 DEF StorageInv, MigrationsFollow, Version, Busy, Own
  <1>9. StoredIsNumbered' /\ AllOrNothing' /\ MigratedOnce'
    BY <1>1 DEF StorageInv, StoredIsNumbered, AllOrNothing, MigratedOnce, Version
  <1> QED
    BY <1>5, <1>6, <1>7, <1>8, <1>9 DEF StorageInv

(* A commit: nothing of the transaction was there yet, and now all is.     *)
LEMMA CommitKeeps ==
    ASSUME StorageInv, NEW c \in Connections, Commit(c)
    PROVE  StorageInv'
  <1> USE StorageAssumption
  <1> DEFINE id == caller[c].id
             all == {<<id, n>> : n \in 1..Size}
  <1>1. /\ caller[c].at = "body" /\ caller[c].next > Size
        /\ conn' = [conn EXCEPT ![c] = Fresh]
        /\ committed' = committed \cup conn[c].writes
        /\ repeated' = (repeated \/ committed \cap conn[c].writes # {})
        /\ confirmed' = confirmed \cup conn[c].writes
        /\ UNCHANGED <<served, given>>
    BY DEF Commit
  <1>2. /\ ~conn[c].poisoned /\ caller[c].next = Size + 1 /\ conn[c].writes = all
        /\ id \in 1..served /\ served \in Nat /\ Latest <= served
    BY <1>1 DEF StorageInv, StorageTypeOK, TransactionsAreTheirOwn, CallersAreTheirOwn, Busy
  <1>3. /\ conn' = [d \in Connections |-> conn'[d]] /\ conn'[c] = Fresh
        /\ \A d \in Connections \ {c} : conn'[d] = conn[d]
    BY <1>1 DEF StorageInv, StorageTypeOK
  <1>4. /\ Own(c) => caller' = [caller EXCEPT ![c] = Nobody] /\ running' = running
        /\ ~Own(c) /\ id = Latest => caller' = [caller EXCEPT ![c] = Nobody]
        /\ ~Own(c) /\ id < Latest => /\ caller' = [caller EXCEPT ![c] = Caller(id + 1, "begin")]
                                     /\ running' = running
    BY <1>2 DEF Commit, Migrates, Upgrade, Ends, Own
  <1>5. /\ caller' = [d \in Connections |-> caller'[d]]
        /\ caller'[c] = Nobody \/ (~Own(c) /\ id < Latest /\ caller'[c] = Caller(id + 1, "begin"))
        /\ \A d \in Connections \ {c} : caller'[d] = caller[d]
    <2>1. caller = [d \in Connections |-> caller[d]]
      BY DEF StorageInv, StorageTypeOK
    <2>2. CASE Own(c) \/ id = Latest
      BY <1>4, <2>1, <2>2
    <2>3. CASE ~Own(c) /\ id < Latest
      BY <1>4, <2>1, <2>3
    <2> QED
      BY <1>2, <2>2, <2>3 DEF Own
  <1>6. all \subseteq Statements /\ <<id, Size>> \in all
    BY <1>2 DEF Statements
  <1>7. committed \cap all = {}
    <2>1. CASE Own(c)
      BY <2>1 DEF StorageInv, CallersAreTheirOwn
    <2>2. CASE ~Own(c)
      <3>1. Version(id) \notin committed /\ id \in 1..Latest
        BY <1>1, <1>2, <2>2 DEF StorageInv, MigrationsFollow, Busy, Own
      <3> QED
        BY <3>1 DEF StorageInv, AllOrNothing
    <2> QED
      BY <2>1, <2>2
  <1>8. \A d \in Connections \ {c} : conn[d].writes = {}
    BY <1>2, <1>6 DEF StorageInv, TransactionsAreTheirOwn, MayWrite
  <1>9. Own(c) => \A w \in given : w[1] # id
    BY DEF StorageInv, CallersAreTheirOwn
  <1> HIDE DEF all, id
  <1>10. StorageTypeOK'
    <2>1. conn'[c] \in [open : BOOLEAN, writes : SUBSET Statements, poisoned : BOOLEAN]
      BY <1>3 DEF Fresh
    <2>2. caller'[c] \in [id : Nat, at : {"none", "execute", "query", "begin", "body"}, next : Nat]
      BY <1>2, <1>5 DEF Nobody, Caller
    <2> QED
      BY <1>1, <1>2, <1>3, <1>5, <1>6, <2>1, <2>2 DEF StorageInv, StorageTypeOK
  <1>11. CallersAreTheirOwn'
    <2>1. ~Own(c)' /\ (Busy(c)' => caller'[c].id \in 1..served' /\ caller'[c].at = "begin"
                                                               /\ caller'[c].next = 1)
      BY <1>1, <1>2, <1>5 DEF Own, Busy, Nobody, Caller
    <2>2. ~Busy(c)' => caller'[c] = Nobody
      BY <1>5 DEF Busy, Caller
    <2>3. ASSUME NEW d \in Connections \ {c}, Own(d)
          PROVE  /\ \A w \in (committed \cup given)' : w[1] # caller'[d].id
                 /\ \A e \in Connections \ {d} : caller'[e].id # caller'[d].id
      <3>1. caller[d].id # id
        BY <2>3 DEF StorageInv, CallersAreTheirOwn, id
      <3>2. caller'[c].id # caller'[d].id
        BY <2>1, <2>3, <1>5 DEF Own
      <3>3. \A w \in all : w[1] = id
        BY DEF all
      <3>4. /\ \A w \in committed \cup given : w[1] # caller[d].id
            /\ \A e \in Connections \ {d} : caller[e].id # caller[d].id
        BY <2>3 DEF StorageInv, CallersAreTheirOwn
      <3> QED
        BY <1>1, <1>2, <1>5, <3>1, <3>2, <3>3, <3>4
    <2>4. ASSUME NEW d \in Connections \ {c}
          PROVE  /\ ~Busy(d)' => caller'[d] = Nobody
                 /\ Busy(d)' => caller'[d].id \in 1..served'
                 /\ caller'[d].at \in {"execute", "query"} => Own(d)'
                 /\ caller'[d].at = "begin" => caller'[d].next = 1
      BY <1>1, <1>5 DEF StorageInv, CallersAreTheirOwn, Busy, Own
    <2>5. \A d \in Connections \ {c} : Own(d)' <=> Own(d)
      BY <1>5 DEF Own
    <2>6. caller'[c].at \notin {"execute", "query"}
      BY <1>5 DEF Nobody, Caller
    <2> QED
      BY <2>1, <2>2, <2>3, <2>4, <2>5, <2>6 DEF CallersAreTheirOwn, Busy
  <1>12. TransactionsAreTheirOwn'
    <2>1. caller'[c].at # "body"
      BY <1>5 DEF Nobody, Caller
    <2>2. \A d \in Connections : conn'[d].writes = {}
      BY <1>3, <1>8 DEF Fresh
    <2>3. ~conn'[c].open
      BY <1>3 DEF Fresh
    <2> QED
      BY <1>1, <1>3, <1>5, <2>1, <2>2, <2>3 DEF StorageInv, TransactionsAreTheirOwn, MayWrite
  <1>13. MigrationsFollow'
    <2>1. ASSUME NEW d \in Connections \ {c}, Busy(d), ~Own(d)
          PROVE  /\ \A u \in 1 .. caller[d].id - 1 : Version(u) \in committed'
                 /\ caller[d].at = "body" /\ caller[d].next = Size + 1 =>
                       Version(caller[d].id) \notin committed'
      <3>1. caller[d].at = "body" /\ caller[d].next = Size + 1 => <<caller[d].id, Size>> \in conn[d].writes
        BY DEF StorageInv, TransactionsAreTheirOwn
      <3>2. ~(caller[d].at = "body" /\ caller[d].next = Size + 1)
        BY <1>8, <3>1
      <3> QED
        BY <1>1, <2>1, <3>2 DEF StorageInv, MigrationsFollow
    <2>2. ASSUME Busy(c)', ~Own(c)'
          PROVE  /\ \A u \in 1 .. caller'[c].id - 1 : Version(u) \in committed'
                 /\ caller'[c].at # "body"
      <3>1. ~Own(c) /\ caller'[c].id = id + 1 /\ caller'[c].at = "begin"
        BY <1>5, <2>2 DEF Nobody, Caller, Busy
      <3>2. \A u \in 1 .. id - 1 : Version(u) \in committed
        BY <1>1, <3>1 DEF StorageInv, MigrationsFollow, Busy, id
      <3>3. Version(id) \in committed'
        BY <1>1, <1>2, <1>6 DEF Version
      <3> QED
        BY <1>1, <1>2, <3>1, <3>2, <3>3
    <2> QED
      BY <1>5, <2>1, <2>2 DEF MigrationsFollow, Busy, Own, Version
  <1>14. StoredIsNumbered'
    <2>1. \A w \in all : w[1] = id
      BY DEF all
    <2> QED
      BY <1>1, <1>2, <2>1 DEF StorageInv, StoredIsNumbered
  <1>15. AllOrNothing'
    <2>1. \A w \in committed' : w \in confirmed'
      BY <1>1 DEF StorageInv, StoredIsNumbered
    <2>2. \A w \in (given \cap committed)' : w[1] <= Latest
      <3>1. \A w \in all : w[1] = id
        BY DEF all
      <3>2. \A w \in given \cap committed : w[1] <= Latest
        BY DEF StorageInv, AllOrNothing
      <3>3. \A w \in given \cap all : w[1] <= Latest
        BY <1>2, <1>9, <3>1 DEF Own, id
      <3> QED
        BY <1>1, <1>2, <3>2, <3>3
    <2>3. ASSUME NEW v \in 1..Latest, NEW n \in 1..Size
          PROVE  <<v, n>> \in committed' <=> <<v, Size>> \in committed'
      <3>1. <<v, n>> \in all <=> <<v, Size>> \in all
        BY DEF all
      <3>2. <<v, n>> \in committed <=> <<v, Size>> \in committed
        BY DEF StorageInv, AllOrNothing, Version
      <3> QED
        BY <1>1, <1>2, <3>1, <3>2
    <2> QED
      BY <2>1, <2>2, <2>3 DEF AllOrNothing, Version
  <1>16. MigratedOnce'
    <2>1. ~repeated'
      BY <1>1, <1>2, <1>7 DEF StorageInv, MigratedOnce
    <2>2. ASSUME NEW v \in 1..Latest, Version(v) \in committed', NEW u \in 1..v
          PROVE  Version(u) \in committed'
      <3>1. CASE Version(v) \in committed
        BY <1>1, <3>1 DEF StorageInv, MigratedOnce
      <3>2. CASE Version(v) \in all
        <4>1. v = id /\ ~Own(c)
          BY <3>2 DEF Version, all, Own, id
        <4>2. \A w \in 1 .. id - 1 : Version(w) \in committed
          BY <1>1, <4>1 DEF StorageInv, MigrationsFollow, Busy, id
        <4> QED
          BY <1>1, <1>2, <3>2, <4>1, <4>2
      <3> QED
        BY <1>1, <1>2, <2>2, <3>1, <3>2
    <2>3. running' # {} => Version(Latest) \in committed'
      <3>1. CASE ~Own(c) /\ id = Latest
        BY <1>1, <1>2, <1>6, <3>1 DEF Version
      <3>2. CASE Own(c) \/ id < Latest
        BY <1>1, <1>2, <1>4, <3>2 DEF StorageInv, MigratedOnce, Own
      <3> QED
        BY <1>2, <3>1, <3>2 DEF Own, id
    <2> QED
      BY <2>1, <2>2, <2>3 DEF MigratedOnce, Version
  <1> QED
    BY <1>10, <1>11, <1>12, <1>13, <1>14, <1>15, <1>16 DEF StorageInv

(* A transaction fails: what it wrote is given up, and may stay in the     *)
(* connection until the next caller.                                       *)
LEMMA TxFailsKeeps ==
    ASSUME StorageInv, NEW c \in Connections, TxFails(c)
    PROVE  StorageInv'
  <1> USE StorageAssumption
  <1>1. /\ caller[c].at = "body" /\ caller' = [caller EXCEPT ![c] = Nobody]
        /\ given' = given \cup conn[c].writes
        /\ UNCHANGED <<committed, running, served, confirmed, repeated>>
    BY DEF TxFails, Dropped, Ends
  <1>2. \E after : /\ conn' = [conn EXCEPT ![c] = after]
                   /\ after \in [open : BOOLEAN, writes : SUBSET Statements, poisoned : BOOLEAN]
                   /\ after.writes \subseteq conn[c].writes
                   /\ after.poisoned \/ (~after.open /\ after.writes = {})
    <2>1. conn[c] \in [open : BOOLEAN, writes : SUBSET Statements, poisoned : BOOLEAN]
      BY DEF StorageInv, StorageTypeOK
    <2>2. CASE conn' = [conn EXCEPT ![c] = Fresh]
      <3>1. Fresh \in [open : BOOLEAN, writes : SUBSET Statements, poisoned : BOOLEAN]
        BY DEF Fresh
      <3>2. ~Fresh.open /\ Fresh.writes = {}
        BY DEF Fresh
      <3> QED
        BY <2>2, <3>1, <3>2
    <2>3. CASE Dropped(c)
      <3>1. PICK left \in {conn[c].open, FALSE} :
               conn' = [conn EXCEPT ![c] = [open |-> left, poisoned |-> TRUE,
                                            writes |-> IF left THEN conn[c].writes ELSE {}]]
        BY <2>3 DEF Dropped
      <3>2. left \in BOOLEAN
        BY <2>1
      <3>3. [open |-> left, poisoned |-> TRUE, writes |-> IF left THEN conn[c].writes ELSE {}]
               \in [open : BOOLEAN, writes : SUBSET Statements, poisoned : BOOLEAN]
        BY <2>1, <3>2
      <3> QED
        BY <3>1, <3>3
    <2> QED
      BY <2>2, <2>3 DEF TxFails
  <1>3. PICK after : /\ conn' = [conn EXCEPT ![c] = after]
                     /\ after \in [open : BOOLEAN, writes : SUBSET Statements, poisoned : BOOLEAN]
                     /\ after.writes \subseteq conn[c].writes
                     /\ after.poisoned \/ (~after.open /\ after.writes = {})
    BY <1>2
  <1>4. /\ caller' = [d \in Connections |-> caller'[d]] /\ conn' = [d \in Connections |-> conn'[d]]
        /\ caller'[c] = Nobody /\ conn'[c] = after
        /\ \A d \in Connections \ {c} : caller'[d] = caller[d] /\ conn'[d] = conn[d]
    BY <1>1, <1>3 DEF StorageInv, StorageTypeOK
  <1>5. /\ conn[c].writes \subseteq Statements /\ caller[c].id \in 1..served /\ served \in Nat
        /\ \A w \in conn[c].writes : w[1] = caller[c].id
    BY <1>1 DEF StorageInv, StorageTypeOK, TransactionsAreTheirOwn, CallersAreTheirOwn, Busy
  <1>6. StorageTypeOK'
    <2>1. Nobody \in [id : Nat, at : {"none", "execute", "query", "begin", "body"}, next : Nat]
      BY DEF Nobody
    <2> QED
      BY <1>1, <1>3, <1>4, <1>5, <2>1 DEF StorageInv, StorageTypeOK
  <1>7. CallersAreTheirOwn'
    <2>1. ASSUME NEW d \in Connections \ {c}, Own(d)
          PROVE  /\ \A w \in (committed \cup given)' : w[1] # caller'[d].id
                 /\ \A e \in Connections \ {d} : caller'[e].id # caller'[d].id
      <3>1. caller[d].id # caller[c].id
        BY <2>1 DEF StorageInv, CallersAreTheirOwn
      <3>2. caller[d].id # 0
        BY <2>1 DEF Own
      <3> QED
        BY <1>1, <1>4, <1>5, <2>1, <3>1, <3>2 DEF StorageInv, CallersAreTheirOwn, Nobody
    <2>2. ASSUME NEW d \in Connections \ {c}
          PROVE  /\ ~Busy(d)' => caller'[d] = Nobody
                 /\ Busy(d)' => caller'[d].id \in 1..served'
                 /\ caller'[d].at \in {"execute", "query"} => Own(d)'
                 /\ caller'[d].at = "begin" => caller'[d].next = 1
                 /\ Own(d)' => Own(d)
      BY <1>1, <1>4 DEF StorageInv, CallersAreTheirOwn, Busy, Own
    <2> QED
      BY <1>4, <2>1, <2>2 DEF CallersAreTheirOwn, Busy, Own, Nobody
  <1>8. TransactionsAreTheirOwn'
    <2>1. \A d \in Connections : conn'[d].writes \subseteq conn[d].writes
      BY <1>3, <1>4
    <2>2. conn'[c].poisoned => conn'[c].writes \subseteq given'
      BY <1>1, <2>1
    <2>3. \A d \in Connections : conn'[d].writes # {} => MayWrite(d)'
      BY <1>4, <2>1 DEF StorageInv, TransactionsAreTheirOwn, MayWrite
    <2> QED
      BY <1>1, <1>3, <1>4, <2>2, <2>3 DEF StorageInv, TransactionsAreTheirOwn, Nobody
  <1>9. MigrationsFollow'
    BY <1>1, <1>4 DEF StorageInv, MigrationsFollow, Version, Busy, Own, Nobody
  <1>10. StoredIsNumbered'
    BY <1>1, <1>5 DEF StorageInv, StoredIsNumbered
  <1>11. AllOrNothing'
    <2>1. \A w \in conn[c].writes \cap committed : w[1] <= Latest
      BY <1>5 DEF StorageInv, CallersAreTheirOwn, Own
    <2> QED
      BY <1>1, <2>1 DEF StorageInv, AllOrNothing, Version
  <1>12. MigratedOnce'
    BY <1>1 DEF StorageInv, MigratedOnce, Version
  <1> QED
    BY <1>6, <1>7, <1>8, <1>9, <1>10, <1>11, <1>12 DEF StorageInv

(* The last migration before which all are there.                          *)
LEMMA LeastExists ==
    ASSUME NEW T, T \subseteq Nat, T # {}
    PROVE  \E x \in T : \A y \in T : x <= y
  <1>1. PICK x \in T : \A y \in T : ~ (<<y, x>> \in OpToRel(<,Nat))
    BY NatLessThanWellFounded, WFMin
  <1>2. \A y \in T : ~(y < x)
    BY <1>1 DEF OpToRel
  <1> QED
    BY <1>2

LEMMA CurrentIsLast ==
    ASSUME StorageInv
    PROVE  /\ Current \in 0..Latest
           /\ \A u \in 1..Current : Version(u) \in committed
  <1> USE StorageAssumption
  <1> DEFINE Missing == {v \in Nat : v > Latest \/ (v > 0 /\ Version(v) \notin committed)}
  <1>1. Latest + 1 \in Missing
    OBVIOUS
  <1>2. PICK m \in Missing : \A y \in Missing : m <= y
    BY <1>1, LeastExists
  <1>3. m \in 1 .. Latest + 1
    BY <1>1, <1>2
  <1>4. m - 1 > 0 => Version(m - 1) \in committed
    BY <1>2, <1>3
  <1>5. \A u \in (m-1)+1 .. Latest : Version(u) \notin committed
    <2> SUFFICES ASSUME NEW u \in m .. Latest, Version(u) \in committed PROVE FALSE
      BY <1>3
    <2>1. Version(m) \notin committed
      BY <1>2, <1>3
    <2> QED
      BY <1>3, <2>1 DEF StorageInv, MigratedOnce
  <1>6. \E v \in 0..Latest : /\ v > 0 => Version(v) \in committed
                             /\ \A u \in v+1 .. Latest : Version(u) \notin committed
    BY <1>3, <1>4, <1>5
  <1>7. /\ Current \in 0..Latest
        /\ Current > 0 => Version(Current) \in committed
    BY <1>6 DEF Current
  <1> QED
    BY <1>7 DEF StorageInv, MigratedOnce

(* A program starts with the migration after those that are there.         *)
LEMMA StartKeeps ==
    ASSUME StorageInv, NEW p \in DOMAIN Programs, Start(p)
    PROVE  StorageInv'
  <1> USE StorageAssumption
  <1> DEFINE c == Migrating[p]
  <1>1. c \in Connections
    BY DEF Connections
  <1>2. /\ caller[c] = Nobody
        /\ UNCHANGED <<committed, conn, served, confirmed, given, repeated>>
    BY DEF Start
  <1>3. Current \in 0..Latest /\ \A u \in 1..Current : Version(u) \in committed
    BY CurrentIsLast
  <1>4. /\ Current = Latest => caller' = [caller EXCEPT ![c] = Nobody]
        /\ Current < Latest => /\ caller' = [caller EXCEPT ![c] = Caller(Current + 1, "begin")]
                               /\ running' = running
    BY <1>3 DEF Start, Upgrade, Ends
  <1> HIDE DEF c
  <1>5. /\ caller' = [d \in Connections |-> caller'[d]]
        /\ \/ caller'[c] = Nobody
           \/ /\ Current < Latest
              /\ caller'[c] = [id |-> Current + 1, at |-> "begin", next |-> 1]
        /\ \A d \in Connections \ {c} : caller'[d] = caller[d]
    <2>1. caller = [d \in Connections |-> caller[d]]
      BY DEF StorageInv, StorageTypeOK
    <2>2. CASE Current = Latest
      BY <1>1, <1>4, <2>1, <2>2
    <2>3. CASE Current < Latest
      BY <1>1, <1>4, <2>1, <2>3 DEF Caller
    <2> QED
      BY <1>3, <2>2, <2>3
  <1>6. served \in Nat /\ Latest <= served
    BY DEF StorageInv, StorageTypeOK
  <1>7. caller'[c].id \in 0..Latest /\ caller'[c].at \in {"none", "begin"}
    BY <1>3, <1>5 DEF Nobody
  <1>8. StorageTypeOK'
    <2>1. caller'[c] \in [id : Nat, at : {"none", "execute", "query", "begin", "body"}, next : Nat]
      BY <1>3, <1>5 DEF Nobody
    <2> QED
      BY <1>1, <1>2, <1>5, <2>1 DEF StorageInv, StorageTypeOK
  <1>9. CallersAreTheirOwn'
    <2>1. ASSUME NEW d \in Connections \ {c}
          PROVE  /\ ~Busy(d)' => caller'[d] = Nobody
                 /\ Busy(d)' => caller'[d].id \in 1..served'
                 /\ caller'[d].at \in {"execute", "query"} => Own(d)'
                 /\ caller'[d].at = "begin" => caller'[d].next = 1
                 /\ Own(d)' => \A w \in (committed \cup given)' : w[1] # caller'[d].id
                 /\ Own(d)' => \A e \in Connections \ {d} : caller'[e].id # caller'[d].id
      BY <1>1, <1>2, <1>5, <1>7 DEF StorageInv, CallersAreTheirOwn, Busy, Own
    <2>2. /\ ~Own(c)' /\ (~Busy(c)' => caller'[c] = Nobody)
          /\ Busy(c)' => caller'[c].id \in 1..served' /\ caller'[c].next = 1
          /\ caller'[c].at \notin {"execute", "query"}
      BY <1>2, <1>3, <1>5, <1>6, <1>7 DEF Own, Busy, Nobody
    <2> QED
      BY <2>1, <2>2 DEF CallersAreTheirOwn, Busy
  <1>10. TransactionsAreTheirOwn'
    <2>1. caller[c].at # "body" /\ caller'[c].at # "body"
      BY <1>2, <1>7 DEF Nobody
    <2> QED
      BY <1>2, <1>5, <2>1 DEF StorageInv, TransactionsAreTheirOwn, MayWrite
  <1>11. MigrationsFollow'
    <2>1. Busy(c)' => \A u \in 1 .. caller'[c].id - 1 : Version(u) \in committed'
      BY <1>2, <1>3, <1>5 DEF Busy, Nobody
    <2>2. caller'[c].at # "body"
      BY <1>7
    <2> QED
      BY <1>2, <1>5, <2>1, <2>2 DEF StorageInv, MigrationsFollow, Busy, Own, Version
  <1>12. StoredIsNumbered' /\ AllOrNothing'
    BY <1>2 DEF StorageInv, StoredIsNumbered, AllOrNothing, Version
  <1>13. MigratedOnce'
    <2>1. running' # {} => Version(Latest) \in committed'
      BY <1>2, <1>3, <1>4 DEF StorageInv, MigratedOnce
    <2> QED
      BY <1>2, <2>1 DEF StorageInv, MigratedOnce, Version
  <1> QED
    BY <1>8, <1>9, <1>10, <1>11, <1>12, <1>13 DEF StorageInv

(* A program dies: what its transactions held is given up and gone.        *)
LEMMA CrashKeeps ==
    ASSUME StorageInv, NEW p \in DOMAIN Programs, Crash(p)
    PROVE  StorageInv'
  <1> USE StorageAssumption
  <1> DEFINE dead == Programs[p]
             lost == UNION {conn[c].writes : c \in dead}
  <1>1. /\ running' = running \ {p} /\ given' = given \cup lost
        /\ UNCHANGED <<committed, served, confirmed, repeated>>
        /\ conn' = [c \in Connections |-> IF c \in dead THEN Fresh ELSE conn[c]]
        /\ caller' = [c \in Connections |-> IF c \in dead THEN Nobody ELSE caller[c]]
    BY DEF Crash
  <1>2. dead \subseteq Connections
    BY DEF Connections
  <1>3. /\ \A c \in dead : conn'[c] = Fresh /\ caller'[c] = Nobody
        /\ \A c \in Connections \ dead : conn'[c] = conn[c] /\ caller'[c] = caller[c]
    BY <1>1, <1>2
  <1>4. ASSUME NEW w \in lost
        PROVE  w \in given \/ \E c \in dead : caller[c].at = "body" /\ w[1] = caller[c].id
    <2>1. PICK c \in dead : w \in conn[c].writes
      OBVIOUS
    <2>2. CASE caller[c].at = "body"
      BY <1>2, <2>1, <2>2 DEF StorageInv, TransactionsAreTheirOwn
    <2>3. CASE caller[c].at # "body"
      BY <1>2, <2>1, <2>3 DEF StorageInv, TransactionsAreTheirOwn
    <2> QED
      BY <2>2, <2>3
  <1>5. lost \subseteq Statements
    BY <1>2 DEF StorageInv, StorageTypeOK
  <1> HIDE DEF dead, lost
  <1>6. StorageTypeOK'
    <2>1. Nobody \in [id : Nat, at : {"none", "execute", "query", "begin", "body"}, next : Nat]
      BY DEF Nobody
    <2>2. Fresh \in [open : BOOLEAN, writes : SUBSET Statements, poisoned : BOOLEAN]
      BY DEF Fresh
    <2>3. \A c \in Connections :
             /\ conn'[c] \in [open : BOOLEAN, writes : SUBSET Statements, poisoned : BOOLEAN]
             /\ caller'[c] \in [id : Nat, at : {"none", "execute", "query", "begin", "body"}, next : Nat]
      BY <1>3, <2>1, <2>2 DEF StorageInv, StorageTypeOK
    <2>4. /\ conn' = [c \in Connections |-> conn'[c]]
          /\ caller' = [c \in Connections |-> caller'[c]]
      BY <1>1
    <2> QED
      BY <1>1, <1>5, <2>3, <2>4 DEF StorageInv, StorageTypeOK
  <1>7. CallersAreTheirOwn'
    <2>1. ASSUME NEW c \in Connections, Own(c)'
          PROVE  /\ \A w \in (committed \cup given)' : w[1] # caller'[c].id
                 /\ \A e \in Connections \ {c} : caller'[e].id # caller'[c].id
      <3>1. c \notin dead /\ caller'[c] = caller[c] /\ Own(c)
        BY <1>3, <2>1 DEF Own, Nobody
      <3>2. \A e \in Connections \ {c} : caller[e].id # caller[c].id
        BY <3>1 DEF StorageInv, CallersAreTheirOwn
      <3>3. \A w \in committed \cup given : w[1] # caller[c].id
        BY <3>1 DEF StorageInv, CallersAreTheirOwn
      <3>4. \A w \in lost : w[1] # caller[c].id
        BY <1>2, <1>4, <3>1, <3>2, <3>3
      <3>5. caller[c].id # 0
        BY <3>1 DEF Own
      <3> QED
        BY <1>1, <1>3, <3>1, <3>2, <3>3, <3>4, <3>5 DEF Nobody
    <2>2. ASSUME NEW c \in Connections
          PROVE  /\ ~Busy(c)' => caller'[c] = Nobody
                 /\ Busy(c)' => caller'[c].id \in 1..served'
                 /\ caller'[c].at \in {"execute", "query"} => Own(c)'
                 /\ caller'[c].at = "begin" => caller'[c].next = 1
      <3>1. CASE c \in dead
        BY <1>3, <3>1 DEF Busy, Nobody
      <3>2. CASE c \notin dead
        BY <1>1, <1>3, <3>2 DEF StorageInv, CallersAreTheirOwn, Busy, Own
      <3> QED
        BY <3>1, <3>2
    <2> QED
      BY <2>1, <2>2 DEF CallersAreTheirOwn
  <1>8. TransactionsAreTheirOwn'
    <2>1. ASSUME NEW c \in dead
          PROVE  /\ caller'[c].at # "body" /\ ~conn'[c].open /\ conn'[c].writes = {}
      BY <1>3, <2>1 DEF Fresh, Nobody
    <2>2. \A c \in Connections : conn'[c].writes \subseteq conn[c].writes
      BY <1>3, <2>1
    <2>3. \A c \in Connections : conn'[c].writes # {} => MayWrite(c)'
      BY <2>2 DEF StorageInv, TransactionsAreTheirOwn, MayWrite
    <2>4. ASSUME NEW c \in Connections \ dead
          PROVE  /\ caller'[c].at = "body" =>
                       /\ ~conn'[c].poisoned /\ caller'[c].next \in 1 .. Size + 1
                       /\ conn'[c].writes = {<<caller'[c].id, n>> : n \in 1 .. caller'[c].next - 1}
                 /\ caller'[c].at # "body" => conn'[c].poisoned \/ (~conn'[c].open /\ conn'[c].writes = {})
                 /\ conn'[c].poisoned => conn'[c].writes \subseteq given'
      BY <1>1, <1>3, <2>4 DEF StorageInv, TransactionsAreTheirOwn
    <2>5. \A c \in dead : conn'[c].writes \subseteq given'
      BY <2>1
    <2> QED
      BY <2>1, <2>3, <2>4, <2>5 DEF TransactionsAreTheirOwn
  <1>9. MigrationsFollow'
    BY <1>1, <1>3 DEF StorageInv, MigrationsFollow, Version, Busy, Own, Nobody
  <1>10. StoredIsNumbered'
    <2>1. \A c \in dead : caller[c].at = "body" => caller[c].id <= served
      BY <1>2 DEF StorageInv, CallersAreTheirOwn, Busy
    <2> QED
      BY <1>1, <1>4, <2>1 DEF StorageInv, StoredIsNumbered
  <1>11. AllOrNothing'
    <2>1. ASSUME NEW w \in lost \cap committed
          PROVE  w[1] <= Latest
      <3>1. CASE w \in given
        BY <3>1 DEF StorageInv, AllOrNothing
      <3>2. CASE w \notin given
        <4>1. PICK c \in dead : caller[c].at = "body" /\ w[1] = caller[c].id
          BY <1>4, <3>2
        <4>2. ~Own(c) /\ caller[c].id \in Nat
          BY <1>2, <4>1 DEF StorageInv, CallersAreTheirOwn, StorageTypeOK
        <4> QED
          BY <4>1, <4>2 DEF Own
      <3> QED
        BY <3>1, <3>2
    <2> QED
      BY <1>1, <2>1 DEF StorageInv, AllOrNothing, Version
  <1>12. MigratedOnce'
    BY <1>1 DEF StorageInv, MigratedOnce, Version
  <1> QED
    BY <1>6, <1>7, <1>8, <1>9, <1>10, <1>11, <1>12 DEF StorageInv

LEMMA StorageStep ==
    ASSUME StorageInv, [StorageNext]_storageVars
    PROVE  StorageInv'
  <1>1. ASSUME NEW c \in Connections, Query(c) \/ ExecuteFails(c)
        PROVE  StorageInv'
    <2>1. /\ caller[c].at # "body" /\ caller' = [caller EXCEPT ![c] = Nobody]
          /\ conn' = [conn EXCEPT ![c] = Recovered(c)]
          /\ UNCHANGED <<committed, running, served, confirmed, given, repeated>>
      BY <1>1 DEF Query, ExecuteFails, Ends, OnEntry
    <2> QED
      BY <2>1, RecoveredIsFresh, NothingKeeps
  <1>2. CASE UNCHANGED storageVars
    BY <1>2 DEF storageVars, StorageInv, StorageTypeOK, CallersAreTheirOwn, TransactionsAreTheirOwn,
                MigrationsFollow, StoredIsNumbered, AllOrNothing, MigratedOnce, MayWrite, Own, Busy, Version
  <1> QED
    BY <1>1, <1>2, CallKeeps, ExecuteKeeps, BeginKeeps, TxExecuteKeeps, CommitKeeps, TxFailsKeeps,
       StartKeeps, CrashKeeps DEF StorageNext

(* StorageIsSound, with any programs, connections, migrations and sizes of *)
(* transactions: a statement that was confirmed stays (execute, commit),   *)
(* of a transaction all or nothing is there although a dropped one leaves  *)
(* its BEGIN open (recover_orphan_tx), and each migration is applied once, *)
(* in order, before a program runs (run_migrations).                       *)
THEOREM StorageSound == StorageSpec => []StorageIsSound
  <1>1. StorageInv => StorageIsSound
    BY DEF StorageInv, StorageIsSound, ConfirmedStays, StoredIsNumbered
  <1> QED
    BY <1>1, StorageInitially, StorageStep, PTL DEF StorageSpec
-----------------------------------------------------------------------------
(* ImapSession: who holds the session is the one that uses it; what it has *)
(* selected is what its holder fetches from; and a holder that had found   *)
(* the session quiet works on a connection that was alive when it looked.  *)

WithTheSession == {"noop", "dial", "select", "fetch"}

SessionTypeOK ==
    /\ user = [u \in Users |-> user[u]] /\ server = [b \in Selectable |-> server[b]]
    /\ \A u \in Users :
          /\ user[u] = [at |-> user[u].at, id |-> user[u].id, stale |-> user[u].stale,
                        died |-> user[u].died]
          /\ user[u].at \in {"idle", "lock"} \cup WithTheSession
          /\ user[u].at # "idle" => user[u].id \in Ids

OneHolds == \A u \in Users : user[u].at \in WithTheSession <=> holder = u
SelectedIsTheirs == \A u \in Users : user[u].at = "fetch" => selected = user[u].id
ProbedIsAlive ==
    \A u \in Users : user[u].at \in {"select", "fetch"} /\ user[u].stale =>
       socket = "up" \/ user[u].died

SessionInv ==
    SessionTypeOK /\ OneHolds /\ SelectedIsTheirs /\ ProbedIsAlive /\ SessionIsSound

LEMMA SessionInitially == SessionInit => SessionInv
  <1> SUFFICES ASSUME SessionInit PROVE SessionInv
    OBVIOUS
  <1>1. user = [u \in Users |-> AtRest] /\ server = [b \in Selectable |-> 1] /\ holder = NoOne
    BY DEF SessionInit
  <1>2. /\ AtRest.at = "idle"
        /\ AtRest = [at |-> AtRest.at, id |-> AtRest.id, stale |-> AtRest.stale, died |-> AtRest.died]
    BY DEF AtRest
  <1>3. \A u \in Users : user[u] = AtRest
    BY <1>1
  <1>4. SessionTypeOK
    <2>1. user = [u \in Users |-> user[u]] /\ server = [b \in Selectable |-> server[b]]
      BY <1>1
    <2> QED
      BY <1>2, <1>3, <2>1 DEF SessionTypeOK
  <1>5. OneHolds /\ SelectedIsTheirs /\ ProbedIsAlive
    BY <1>1, <1>2, <1>3, SessionAssumption DEF OneHolds, SelectedIsTheirs, ProbedIsAlive, WithTheSession
  <1>6. SessionIsSound
    BY DEF SessionInit, SessionIsSound, OperationsHitTheirMessage, ProbesFindTheDead
  <1> QED
    BY <1>4, <1>5, <1>6 DEF SessionInv

(* The session is given back, with what is returned.                       *)
MayReturn(u, got, error) ==
    /\ user[u].at \in WithTheSession
    /\ error = "" => got = user[u].id
    /\ error = "Broken" => user[u].died \/ ~user[u].stale

LEMMA ReturnKeeps ==
    ASSUME SessionInv, NEW u \in Users, UNCHANGED <<server, socket>>,
           \E got, error : MayReturn(u, got, error) /\ Returns(u, got, error)
    PROVE  SessionInv'
  <1> USE SessionAssumption
  <1>0. PICK got, error : MayReturn(u, got, error) /\ Returns(u, got, error)
    OBVIOUS
  <1>1. /\ user' = [user EXCEPT ![u] = AtRest] /\ holder' = NoOne
        /\ outcome' = [of |-> user[u].id, got |-> got, error |-> error,
                       excused |-> user[u].died \/ ~user[u].stale]
    BY <1>0 DEF Returns, Idles
  <1>2. /\ user' = [v \in Users |-> user'[v]] /\ user'[u] = AtRest
        /\ \A v \in Users \ {u} : user'[v] = user[v]
    BY <1>1 DEF SessionInv, SessionTypeOK
  <1>3. holder = u
    BY <1>0 DEF SessionInv, OneHolds, MayReturn
  <1>4. \A v \in Users \ {u} : user[v].at \notin WithTheSession
    BY <1>3 DEF SessionInv, OneHolds
  <1>5. SessionTypeOK'
    <2>1. AtRest.at = "idle" /\ AtRest = [at |-> AtRest.at, id |-> AtRest.id, stale |-> AtRest.stale,
                                         died |-> AtRest.died]
      BY DEF AtRest
    <2> QED
      BY <1>2, <2>1 DEF SessionInv, SessionTypeOK
  <1>6. OneHolds' /\ SelectedIsTheirs' /\ ProbedIsAlive'
    BY <1>1, <1>2, <1>4 DEF OneHolds, SelectedIsTheirs, ProbedIsAlive, WithTheSession, AtRest
  <1>7. SessionIsSound'
    <2>1. /\ outcome'.of = user[u].id /\ outcome'.got = got /\ outcome'.error = error
          /\ outcome'.excused = (user[u].died \/ ~user[u].stale)
      BY <1>1
    <2> QED
      BY <1>0, <2>1 DEF SessionIsSound, OperationsHitTheirMessage, ProbesFindTheDead, MayReturn
  <1> QED
    BY <1>5, <1>6, <1>7 DEF SessionInv

(* A task goes on, with the session as its own.                            *)
LEMMA StepKeeps ==
    ASSUME SessionInv, NEW u \in Users, NEW at \in WithTheSession,
           user[u].at # "idle", holder \in {u, NoOne}, holder' = u, To(u, at),
           UNCHANGED <<server, outcome>>,
           at = "fetch" => selected' = user[u].id,
           at \in {"select", "fetch"} /\ user[u].stale => socket' = "up" \/ user[u].died
    PROVE  SessionInv'
  <1> USE SessionAssumption
  <1>1. /\ user' = [v \in Users |-> user'[v]] /\ user'[u] = [user[u] EXCEPT !.at = at]
        /\ \A v \in Users \ {u} : user'[v] = user[v]
    BY DEF SessionInv, SessionTypeOK, To
  <1>2. \A v \in Users \ {u} : user[v].at \notin WithTheSession
    BY DEF SessionInv, OneHolds
  <1>3. /\ user'[u] = [at |-> at, id |-> user[u].id, stale |-> user[u].stale, died |-> user[u].died]
        /\ user'[u].at = at /\ user'[u].id = user[u].id /\ user'[u].stale = user[u].stale
        /\ user'[u].died = user[u].died
    BY <1>1 DEF SessionInv, SessionTypeOK
  <1>4. SessionTypeOK'
    BY <1>1, <1>3 DEF SessionInv, SessionTypeOK
  <1>5. OneHolds' /\ SelectedIsTheirs' /\ ProbedIsAlive'
    BY <1>1, <1>2, <1>3 DEF OneHolds, SelectedIsTheirs, ProbedIsAlive, WithTheSession
  <1>6. SessionIsSound'
    BY DEF SessionInv, SessionIsSound, OperationsHitTheirMessage, ProbesFindTheDead
  <1> QED
    BY <1>4, <1>5, <1>6 DEF SessionInv

LEMMA AcquireKeeps ==
    ASSUME SessionInv, NEW u \in Users, NEW id \in Ids, Acquire(u, id)
    PROVE  SessionInv'
  <1>1. /\ user[u].at = "idle" /\ UNCHANGED <<server, socket, selected, holder, outcome>>
        /\ user' = [user EXCEPT ![u] = [AtRest EXCEPT !.at = "lock", !.id = id, !.stale = quiet]]
    BY DEF Acquire
  <1>2. /\ user' = [v \in Users |-> user'[v]]
        /\ user'[u] = [at |-> "lock", id |-> id, stale |-> quiet, died |-> FALSE]
        /\ \A v \in Users \ {u} : user'[v] = user[v]
    BY <1>1 DEF SessionInv, SessionTypeOK, AtRest
  <1>3. user'[u].at = "lock" /\ user'[u].id = id
    BY <1>2
  <1>4. SessionTypeOK'
    BY <1>1, <1>2, <1>3 DEF SessionInv, SessionTypeOK
  <1>5. OneHolds' /\ SelectedIsTheirs' /\ ProbedIsAlive'
    BY <1>1, <1>2, <1>3 DEF SessionInv, OneHolds, SelectedIsTheirs, ProbedIsAlive, WithTheSession
  <1>6. SessionIsSound'
    BY <1>1 DEF SessionInv, SessionIsSound, OperationsHitTheirMessage, ProbesFindTheDead
  <1> QED
    BY <1>4, <1>5, <1>6 DEF SessionInv

(* The connection dies in the hands of its holder.                         *)
LEMMA DropKeeps ==
    ASSUME SessionInv, NEW how, Drop(how)
    PROVE  SessionInv'
  <1>1. /\ user' = [u \in Users |-> [user[u] EXCEPT !.died = (u = holder)]]
        /\ UNCHANGED <<server, selected, holder, outcome>>
    BY DEF Drop
  <1>2. \A u \in Users :
           /\ user'[u] = [at |-> user[u].at, id |-> user[u].id, stale |-> user[u].stale, died |-> (u = holder)]
           /\ user'[u].at = user[u].at /\ user'[u].id = user[u].id /\ user'[u].stale = user[u].stale
           /\ user'[u].died = (u = holder)
    BY <1>1 DEF SessionInv, SessionTypeOK
  <1>3. user' = [u \in Users |-> user'[u]]
    BY <1>1
  <1>4. SessionTypeOK'
    BY <1>1, <1>2, <1>3 DEF SessionInv, SessionTypeOK
  <1>5. OneHolds' /\ SelectedIsTheirs' /\ ProbedIsAlive'
    <2>1. ASSUME NEW u \in Users, user'[u].at \in {"select", "fetch"}
          PROVE  user'[u].died
      <3>1. u = holder
        BY <1>2, <2>1 DEF SessionInv, OneHolds, WithTheSession
      <3> QED
        BY <1>2, <3>1
    <2>2. \A u \in Users : user'[u].at = user[u].at /\ user'[u].id = user[u].id
      BY <1>2
    <2>4. OneHolds'
      BY <1>1, <2>2 DEF SessionInv, OneHolds
    <2>5. SelectedIsTheirs'
      BY <1>1, <2>2 DEF SessionInv, SelectedIsTheirs
    <2>3. ProbedIsAlive'
      BY <2>1 DEF ProbedIsAlive
    <2> QED
      BY <2>3, <2>4, <2>5
  <1>6. SessionIsSound'
    BY <1>1 DEF SessionInv, SessionIsSound, OperationsHitTheirMessage, ProbesFindTheDead
  <1> QED
    BY <1>4, <1>5, <1>6 DEF SessionInv

LEMMA SelectKeeps ==
    ASSUME SessionInv, NEW u \in Users, Select(u)
    PROVE  SessionInv'
  <1> DEFINE id == user[u].id
  <1>1. /\ user[u].at = "select" /\ socket = "up" /\ UNCHANGED <<server, socket>>
        /\ selected' = [box |-> id.box, validity |-> server[id.box]]
    BY DEF Select
  <1>2. id \in Ids /\ holder = u
    BY <1>1 DEF SessionInv, SessionTypeOK, OneHolds, WithTheSession
  <1>3. CASE Unchanged(id, server[id.box])
    <2>1. selected' = id
      BY <1>1, <1>2, <1>3 DEF Unchanged, SameValidity, Ids
    <2>2. To(u, "fetch") /\ UNCHANGED <<holder, outcome>>
      BY <1>3 DEF Select
    <2> QED
      BY <1>1, <1>2, <2>1, <2>2, StepKeeps DEF WithTheSession
  <1>4. CASE ~Unchanged(id, server[id.box])
    <2>1. Returns(u, NoBox, "UidValidityChanged")
      BY <1>4 DEF Select
    <2> QED
      BY <1>1, <2>1, ReturnKeeps DEF WithTheSession, MayReturn
  <1> QED
    BY <1>3, <1>4

LEMMA SessionStep ==
    ASSUME SessionInv, [SessionNext]_sessionVars
    PROVE  SessionInv'
  <1> USE SessionAssumption
  <1>1. ASSUME NEW u \in Users, Lock(u)
        PROVE  SessionInv'
    <2> DEFINE at == IF socket = "none" THEN "dial" ELSE IF user[u].stale THEN "noop" ELSE "select"
    <2>1. /\ user[u].at = "lock" /\ holder = NoOne /\ holder' = u /\ To(u, at)
          /\ UNCHANGED <<server, outcome>>
      BY <1>1 DEF Lock
    <2>2. at \in WithTheSession /\ at # "fetch" /\ ~(at = "select" /\ user[u].stale)
      BY DEF WithTheSession
    <2> HIDE DEF at
    <2> QED
      BY <2>1, <2>2, StepKeeps
  <1>2. ASSUME NEW u \in Users, Noop(u)
        PROVE  SessionInv'
    <2>1. user[u].at = "noop" /\ UNCHANGED <<server, socket, holder, outcome>>
      BY <1>2 DEF Noop
    <2>2. holder = u
      BY <2>1 DEF SessionInv, OneHolds, WithTheSession
    <2>3. (socket = "up" /\ To(u, "select")) \/ To(u, "dial")
      BY <1>2 DEF Noop
    <2> QED
      BY <2>1, <2>2, <2>3, StepKeeps DEF WithTheSession
  <1>3. ASSUME NEW u \in Users, NEW s \in DOMAIN ErrorOf, DialFails(u, s)
        PROVE  SessionInv'
    <2>1. user[u].at = "dial" /\ Returns(u, NoBox, ErrorOf[s]) /\ UNCHANGED <<server, socket>>
      BY <1>3 DEF DialFails
    <2>2. ErrorOf[s] \notin {"", "Broken"}
      <3>1. s \in {"tcp", "tls", "greeting", "auth", "capability"}
        BY DEF ErrorOf
      <3>2. /\ ErrorOf["tcp"] = "Network" /\ ErrorOf["tls"] = "Network" /\ ErrorOf["auth"] = "Auth"
            /\ ErrorOf["greeting"] = "Protocol" /\ ErrorOf["capability"] = "Protocol"
        BY DEF ErrorOf
      <3> QED
        BY <3>1, <3>2
    <2> QED
      BY <2>1, <2>2, ReturnKeeps DEF WithTheSession, MayReturn
  <1>4. ASSUME NEW u \in Users, NEW caps, Dialled(u, caps)
        PROVE  SessionInv'
    <2>1. user[u].at = "dial" /\ UNCHANGED server
      BY <1>4 DEF Dialled
    <2>2. holder = u
      BY <2>1 DEF SessionInv, OneHolds, WithTheSession
    <2>3. CASE Sufficient(caps)
      <3>1. socket' = "up" /\ To(u, "select") /\ UNCHANGED <<holder, outcome>>
        BY <1>4, <2>3 DEF Dialled
      <3> QED
        BY <2>1, <2>2, <3>1, StepKeeps DEF WithTheSession
    <2>4. CASE ~Sufficient(caps)
      <3>1. Returns(u, NoBox, "Protocol") /\ UNCHANGED socket
        BY <1>4, <2>4 DEF Dialled
      <3> QED
        BY <2>1, <3>1, ReturnKeeps DEF WithTheSession, MayReturn
    <2> QED
      BY <2>3, <2>4
  <1>5. ASSUME NEW u \in Users, Fetch(u)
        PROVE  SessionInv'
    <2>1. user[u].at = "fetch" /\ UNCHANGED <<server, socket>>
      BY <1>5 DEF Fetch
    <2>2. Returns(u, selected, "") \/ Returns(u, NoBox, "NotFound")
      BY <1>5 DEF Fetch
    <2>3. selected = user[u].id
      BY <2>1 DEF SessionInv, SelectedIsTheirs
    <2>4. CASE Returns(u, selected, "")
      BY <2>1, <2>3, <2>4, ReturnKeeps DEF WithTheSession, MayReturn
    <2>5. CASE Returns(u, NoBox, "NotFound")
      BY <2>1, <2>5, ReturnKeeps DEF WithTheSession, MayReturn
    <2> QED
      BY <2>2, <2>4, <2>5
  <1>6. ASSUME NEW u \in Users, Breaks(u)
        PROVE  SessionInv'
    <2>1. /\ user[u].at \in {"select", "fetch"} /\ socket = "closed" /\ Returns(u, NoBox, "Broken")
          /\ UNCHANGED <<server, socket>>
      BY <1>6 DEF Breaks
    <2>2. user[u].died \/ ~user[u].stale
      BY <2>1 DEF SessionInv, ProbedIsAlive
    <2> QED
      BY <2>1, <2>2, ReturnKeeps DEF WithTheSession, MayReturn
  <1>7. ASSUME NEW b \in Selectable, Recreate(b)
        PROVE  SessionInv'
    <2>1. /\ server' = [server EXCEPT ![b] = @ + 1]
          /\ UNCHANGED <<socket, selected, user, holder, outcome>>
      BY <1>7 DEF Recreate
    <2> QED
      BY <2>1 DEF SessionInv, SessionTypeOK, OneHolds, SelectedIsTheirs, ProbedIsAlive, SessionIsSound,
                  OperationsHitTheirMessage, ProbesFindTheDead
  <1>8. CASE GiveUp \/ FiveMinutes \/ UNCHANGED sessionVars
    <2>1. /\ UNCHANGED <<server, selected, user, holder, outcome>>
          /\ socket' = socket \/ socket # "up"
      BY <1>8 DEF GiveUp, FiveMinutes, sessionVars
    <2> QED
      BY <2>1 DEF SessionInv, SessionTypeOK, OneHolds, SelectedIsTheirs, ProbedIsAlive, SessionIsSound,
                  OperationsHitTheirMessage, ProbesFindTheDead
  <1> QED
    BY <1>1, <1>2, <1>3, <1>4, <1>5, <1>6, <1>7, <1>8, AcquireKeeps, SelectKeeps, DropKeeps
    DEF SessionNext

(* SessionIsSound, with any tasks, mailboxes, capabilities and mishaps: an *)
(* operation on the shared session returns its own message or an error     *)
(* (lock_session_alive, fetch_raw_message), and a task that had found the  *)
(* session quiet gets no error of a connection that was dead before.       *)
THEOREM SessionSound == SessionSpec => []SessionIsSound
  <1>1. SessionInv => SessionIsSound
    BY DEF SessionInv
  <1> QED
    BY <1>1, SessionInitially, SessionStep, PTL DEF SessionSpec
-----------------------------------------------------------------------------
(* Attachments: names, their last dots and their numbers.                  *)

Numerals == {Numeral(n) : n \in 1..MostTries \cup UNION {DOMAIN Parcels[m] : m \in DOMAIN Parcels}}
Pieces == STRING \cup Numerals \cup {"attachment", ".", "bin", "_"}

LEMMA GreatestExists ==
    ASSUME NEW T, T \subseteq Nat, T # {}, NEW b \in Nat, \A x \in T : x <= b
    PROVE  \E x \in T : \A y \in T : y <= x
  <1> DEFINE U == {b - x : x \in T}
  <1>0. PICK t \in T : TRUE
    OBVIOUS
  <1>1. U \subseteq Nat /\ b - t \in U
    BY <1>0
  <1>2. PICK l \in U : \A y \in U : l <= y
    BY <1>1, LeastExists
  <1>3. PICK x \in T : l = b - x
    OBVIOUS
  <1>4. ASSUME NEW y \in T PROVE y <= x
    <2>1. b - y \in U
      OBVIOUS
    <2>2. b - x <= b - y
      BY <1>2, <1>3, <2>1
    <2> QED
      BY <1>3, <2>2
  <1> QED
    BY <1>4

LEMMA LastDotIs ==
    ASSUME NEW name \in Seq(Pieces)
    PROVE  /\ LastDot(name) \in 1 .. Len(name) + 1
           /\ LastDot(name) <= Len(name) => name[LastDot(name)] = "."
           /\ \A k \in 1..Len(name) : k > LastDot(name) => name[k] # "."
           /\ LastDot(name) = Len(name) + 1 => \A k \in 1..Len(name) : name[k] # "."
  <1> DEFINE dots == {k \in DOMAIN name : name[k] = "."}
  <1>1. DOMAIN name = 1..Len(name) /\ Len(name) \in Nat
    OBVIOUS
  <1>2. CASE dots = {}
    <2>1. LastDot(name) = Len(name) + 1
      BY <1>2 DEF LastDot
    <2> QED
      BY <1>1, <1>2, <2>1
  <1>3. CASE dots # {}
    <2>1. dots \subseteq Nat /\ \A k \in dots : k <= Len(name)
      BY <1>1
    <2>2. \E k \in dots : \A l \in dots : l <= k
      BY <1>1, <1>3, <2>1, GreatestExists
    <2>3. LastDot(name) = CHOOSE k \in dots : \A l \in dots : l <= k
      BY <1>3 DEF LastDot
    <2>4. LastDot(name) \in dots /\ \A l \in dots : l <= LastDot(name)
      BY <2>2, <2>3
    <2> HIDE DEF dots
    <2>5. LastDot(name) \in 1..Len(name) /\ name[LastDot(name)] = "."
      BY <1>1, <2>4 DEF dots
    <2>6. ASSUME NEW k \in 1..Len(name), k > LastDot(name)
          PROVE  name[k] # "."
      BY <1>1, <2>4, <2>5, <2>6 DEF dots
    <2> QED
      BY <1>1, <2>5, <2>6
  <1> QED
    BY <1>2, <1>3

(* A place after which there is no dot is the last dot's.                  *)
LEMMA LastDotAt ==
    ASSUME NEW name \in Seq(Pieces), NEW d \in 1 .. Len(name) + 1,
           d <= Len(name) => name[d] = ".",
           \A k \in 1..Len(name) : k > d => name[k] # ".",
           d = Len(name) + 1 => \A k \in 1..Len(name) : name[k] # "."
    PROVE  LastDot(name) = d
  <1>1. /\ LastDot(name) \in 1 .. Len(name) + 1 /\ Len(name) \in Nat
        /\ LastDot(name) <= Len(name) => name[LastDot(name)] = "."
        /\ \A k \in 1..Len(name) : k > LastDot(name) => name[k] # "."
        /\ LastDot(name) = Len(name) + 1 => \A k \in 1..Len(name) : name[k] # "."
    BY LastDotIs
  <1>2. ~(LastDot(name) < d)
    BY <1>1
  <1>3. ~(LastDot(name) > d)
    BY <1>1
  <1> QED
    BY <1>1, <1>2, <1>3

LEMMA Appended ==
    ASSUME NEW name \in Seq(Pieces), NEW more \in Seq(Pieces), NEW j \in 1..Len(more)
    PROVE  (name \o more)[Len(name) + j] = more[j]
  OBVIOUS

(* The number goes before the ending, which stays what it is.              *)
LEMMA NumberedKeeps ==
    ASSUME NEW name \in Seq(Pieces), LastDot(name) > 1, NEW n \in 1..MostTries
    PROVE  IsUnsafeToLaunch(Numbered(name, n)) <=> IsUnsafeToLaunch(name)
  <1> DEFINE d == LastDot(name)
             front == SubSeq(name, 1, d - 1)
             back == SubSeq(name, d, Len(name))
             new == front \o <<Numeral(n)>> \o back
  <1>1. /\ d \in 2 .. Len(name) + 1 /\ Len(name) \in Nat
        /\ d <= Len(name) => name[d] = "."
        /\ \A k \in 1..Len(name) : k > d => name[k] # "."
        /\ d = Len(name) + 1 => \A k \in 1..Len(name) : name[k] # "."
    BY LastDotIs
  <1>2. Numeral(n) \in Pieces /\ Numeral(n) # "."
    BY AttachmentAssumption DEF Pieces, Numerals
  <1> HIDE DEF d
  <1>3. front \in Seq(Pieces) /\ Len(front) = d - 1 /\ \A k \in 1 .. d - 1 : front[k] = name[k]
    BY <1>1
  <1>4. /\ back \in Seq(Pieces) /\ Len(back) = Len(name) - d + 1
        /\ \A k \in 1 .. Len(name) - d + 1 : back[k] = name[k + d - 1]
    BY <1>1
  <1> HIDE DEF front, back
  <1>5. /\ new \in Seq(Pieces) /\ Len(new) = Len(name) + 1
        /\ \A k \in 1 .. d - 1 : new[k] = name[k]
        /\ new[d] = Numeral(n)
        /\ \A k \in d + 1 .. Len(name) + 1 : new[k] = name[k - 1]
    <2> DEFINE begin == front \o <<Numeral(n)>>
    <2>1. /\ begin \in Seq(Pieces) /\ Len(begin) = d /\ begin[d] = Numeral(n)
          /\ \A k \in 1 .. d - 1 : begin[k] = name[k]
      BY <1>1, <1>2, <1>3
    <2>2. new = begin \o back
      OBVIOUS
    <2> HIDE DEF begin, new
    <2>5. new \in Seq(Pieces) /\ Len(new) = Len(begin) + Len(back)
      BY <1>4, <2>1, <2>2
    <2>6. \A k \in 1..Len(begin) : new[k] = begin[k]
      BY <1>4, <2>1, <2>2
    <2>7. ASSUME NEW j \in 1..Len(back)
          PROVE  new[Len(begin) + j] = back[j]
      BY <1>4, <2>1, <2>2, Appended
    <2>8. ASSUME NEW k \in d + 1 .. Len(name) + 1
          PROVE  new[k] = back[k - d]
      <3>1. k - d \in 1..Len(back) /\ d + (k - d) = k
        BY <1>1, <1>4
      <3> QED
        BY <2>1, <2>7, <3>1
    <2>3. /\ new \in Seq(Pieces) /\ Len(new) = Len(name) + 1
          /\ \A k \in 1..d : new[k] = begin[k]
          /\ \A k \in d + 1 .. Len(name) + 1 : new[k] = back[k - d]
      BY <1>1, <1>4, <2>1, <2>5, <2>6, <2>8
    <2>4. ASSUME NEW k \in d + 1 .. Len(name) + 1
          PROVE  back[k - d] = name[k - 1]
      <3>1. k - d \in 1 .. Len(name) - d + 1 /\ (k - d) + d - 1 = k - 1
        BY <1>1
      <3> QED
        BY <1>4, <3>1
    <2> QED
      BY <1>1, <2>1, <2>3, <2>4
  <1>6. Numbered(name, n) = new
    BY <1>1 DEF Numbered, new, d, front, back
  <1> HIDE DEF new
  <1>7. LastDot(new) = d + 1
    <2>1. d + 1 <= Len(new) => new[d + 1] = "."
      <3>1. d + 1 <= Len(new) => d + 1 \in d + 1 .. Len(name) + 1 /\ (d + 1) - 1 = d /\ d <= Len(name)
        BY <1>1, <1>5
      <3> QED
        BY <1>1, <1>5, <3>1
    <2>2. ASSUME NEW k \in 1..Len(new), k > d + 1
          PROVE  new[k] # "."
      <3>1. k \in d + 1 .. Len(name) + 1 /\ k - 1 \in 1..Len(name) /\ k - 1 > d
        BY <1>1, <1>5, <2>2
      <3> QED
        BY <1>1, <1>5, <3>1
    <2>3. ASSUME d + 1 = Len(new) + 1, NEW k \in 1..Len(new)
          PROVE  new[k] # "."
      BY <1>1, <1>2, <1>5, <2>3
    <2> QED
      BY <1>1, <1>5, <2>1, <2>2, <2>3, LastDotAt
  <1>8. d + 1 < Len(new) <=> d < Len(name)
    BY <1>1, <1>5
  <1>9. d < Len(name) => new[d + 2] = name[d + 1]
    BY <1>1, <1>5
  <1> QED
    BY <1>1, <1>6, <1>7, <1>8, <1>9 DEF IsUnsafeToLaunch, d

(* The name that a file is saved by does not begin with a dot.             *)
LEMMA TrimmedBegins ==
    ASSUME NEW name \in Seq(Pieces), Trimmed(name) # <<>>
    PROVE  /\ Trimmed(name) \in Seq(Pieces) /\ Len(Trimmed(name)) > 0
           /\ Trimmed(name)[1] # "."
  <1> DEFINE words == {k \in DOMAIN name : name[k] \notin {".", " "}}
             first == CHOOSE k \in words : \A l \in words : k <= l
             last == CHOOSE k \in words : \A l \in words : l <= k
  <1>1. DOMAIN name = 1..Len(name) /\ Len(name) \in Nat
    OBVIOUS
  <1>0. Trimmed(name) = IF words = {} THEN <<>> ELSE SubSeq(name, first, last)
    BY DEF Trimmed
  <1>2. words # {} /\ Trimmed(name) = SubSeq(name, first, last)
    BY <1>0
  <1>9. words \subseteq 1..Len(name) /\ \A k \in words : name[k] # "."
    BY <1>1
  <1> HIDE DEF words
  <1>3. words \subseteq Nat /\ \A k \in words : k <= Len(name)
    BY <1>1, <1>9
  <1>4. \E k \in words : \A l \in words : k <= l
    BY <1>2, <1>3, LeastExists
  <1>5. \E k \in words : \A l \in words : l <= k
    BY <1>1, <1>2, <1>3, GreatestExists
  <1>6. first \in words /\ \A l \in words : first <= l
    BY <1>4
  <1>7. last \in words /\ \A l \in words : l <= last
    BY <1>5
  <1>8. name[first] # "." /\ first \in 1..Len(name) /\ last \in 1..Len(name) /\ first <= last
    BY <1>1, <1>6, <1>7, <1>9
  <1> HIDE DEF words, first, last
  <1> QED
    BY <1>2, <1>8

LEMMA Replaced ==
    ASSUME NEW name \in Seq(Pieces), NEW w \in Pieces
    PROVE  [k \in DOMAIN name |-> IF name[k] = "/" THEN w ELSE name[k]] \in Seq(Pieces)
  OBVIOUS

LEMMA Prefixed ==
    ASSUME NEW name \in Seq(Pieces), NEW w \in Pieces
    PROVE  /\ <<w>> \o name \in Seq(Pieces) /\ Len(<<w>> \o name) > 0
           /\ (<<w>> \o name)[1] = w
  OBVIOUS

LEMMA SafeNameBegins ==
    ASSUME NEW raw \in Seq(Pieces)
    PROVE  SafeName(raw) \in Seq(Pieces) /\ LastDot(SafeName(raw)) > 1
  <1> DEFINE clean == [k \in DOMAIN raw |-> IF raw[k] = "/" THEN "_" ELSE raw[k]]
             name == Trimmed(clean)
  <1>0. "_" \in Pieces
    BY DEF Pieces
  <1>1. clean \in Seq(Pieces)
    BY <1>0, Replaced
  <1>2. /\ SafeName(raw) \in Seq(Pieces) /\ Len(SafeName(raw)) > 0
        /\ SafeName(raw)[1] # "."
    <2>1. CASE name = <<>>
      <3>1. SafeName(raw) = <<"attachment", ".", "bin">>
        BY <2>1 DEF SafeName
      <3>2. "attachment" \in Pieces /\ "." \in Pieces /\ "bin" \in Pieces
        BY DEF Pieces
      <3> QED
        BY <3>1, <3>2
    <2>2. CASE name # <<>>
      <3>1. name \in Seq(Pieces) /\ Len(name) > 0 /\ name[1] # "."
        BY <1>1, <2>2, TrimmedBegins
      <3>2. SafeName(raw) = <<"_">> \o name \/ SafeName(raw) = name
        BY <2>2 DEF SafeName
      <3> HIDE DEF name
      <3>3. /\ <<"_">> \o name \in Seq(Pieces) /\ Len(<<"_">> \o name) > 0
            /\ (<<"_">> \o name)[1] = "_"
        BY <1>0, <3>1, Prefixed
      <3> QED
        BY <3>1, <3>2, <3>3
    <2> QED
      BY <2>1, <2>2
  <1> HIDE DEF name, clean
  <1>3. /\ LastDot(SafeName(raw)) \in 1 .. Len(SafeName(raw)) + 1
        /\ LastDot(SafeName(raw)) <= Len(SafeName(raw)) => SafeName(raw)[LastDot(SafeName(raw))] = "."
    BY <1>2, LastDotIs
  <1>4. LastDot(SafeName(raw)) # 1
    BY <1>2, <1>3
  <1> QED
    BY <1>2, <1>3, <1>4
LEMMA SeqOfMore ==
    ASSUME NEW S, NEW T, S \subseteq T, NEW s \in Seq(S)
    PROVE  s \in Seq(T)
  OBVIOUS

LEMMA FilenamesAreNames ==
    ASSUME NEW m \in DOMAIN Parcels, NEW i \in DOMAIN Parcels[m]
    PROVE  Filename(m, i) \in Seq(Pieces)
  <1>1. Parcels[m][i].name \in Seq(STRING)
    BY AttachmentAssumption
  <1>2. Numeral(i) \in Pieces /\ "attachment" \in Pieces
    BY DEF Pieces, Numerals
  <1>3. Parcels[m][i].name \in Seq(Pieces)
    <2>1. STRING \subseteq Pieces
      BY DEF Pieces
    <2> QED
      BY <1>1, <2>1, SeqOfMore
  <1>4. <<"attachment", Numeral(i)>> \in Seq(Pieces)
    BY <1>2
  <1> QED
    BY <1>3, <1>4 DEF Filename

(* The name that is chosen ends like the one that was wanted, and is free  *)
(* unless the tries were used up.                                          *)
LEMMA UniquePathKeeps ==
    ASSUME NEW name \in Seq(Pieces), LastDot(name) > 1
    PROVE  /\ IsUnsafeToLaunch(UniquePath(name)) <=> IsUnsafeToLaunch(name)
           /\ UniquePath(name) \notin DOMAIN downloads \/ UsedUp(name)
  <1> DEFINE free == {n \in 1..MostTries : Numbered(name, n) \notin DOMAIN downloads}
             least == CHOOSE n \in free : \A k \in free : n <= k
  <1>1. CASE name \notin DOMAIN downloads
    BY <1>1 DEF UniquePath
  <1>2. CASE name \in DOMAIN downloads /\ free = {}
    <2>1. UniquePath(name) = name
      BY <1>2 DEF UniquePath, Suffixed, FirstFree
    <2>2. UsedUp(name)
      BY <1>2 DEF UsedUp
    <2> QED
      BY <2>1, <2>2
  <1>3. CASE name \in DOMAIN downloads /\ free # {}
    <2>1. UniquePath(name) = Numbered(name, least)
      BY <1>3 DEF UniquePath, Suffixed, FirstFree
    <2>2. free \subseteq Nat
      BY AttachmentAssumption
    <2>3. least \in free
      BY <1>3, <2>2, LeastExists
    <2>4. least \in 1..MostTries /\ Numbered(name, least) \notin DOMAIN downloads
      BY <2>3
    <2> HIDE DEF least
    <2> QED
      BY <2>1, <2>4, NumberedKeeps
  <1> QED
    BY <1>1, <1>2, <1>3

(* A name that a call has chosen is its own until the file is written, or  *)
(* the race is on record.                                                  *)
Alone(o, f) ==
    o.name \in raced \/ (o.name \notin f /\ \A p \in openings \ {o} : p.at = "write" => p.name # o.name)

OpeningsAreSound ==
    \A o \in openings :
       /\ o = [n |-> o.n, part |-> o.part, at |-> o.at, safe |-> o.safe, name |-> o.name]
       /\ o.part[1] \in DOMAIN Parcels /\ o.part[2] \in DOMAIN Parcels[o.part[1]]
       /\ o.at = "write" => (IsUnsafeToLaunch(o.name) <=> IsUnsafeToLaunch(o.safe)) /\ Alone(o, DOMAIN downloads)
       /\ o.at = "open" => ~IsUnsafeToLaunch(o.name)

AttachmentInv == OpeningsAreSound /\ FilesAreKept

LEMMA ChooseNameKeeps ==
    ASSUME AttachmentInv, NEW o \in openings, ChooseName(o)
    PROVE  AttachmentInv'
  <1> DEFINE safe == SafeName(Filename(o.part[1], o.part[2]))
  <1>0. PICK name : name = UniquePath(safe)
    OBVIOUS
  <1> DEFINE new == [n |-> o.n, part |-> o.part, at |-> "write", safe |-> safe, name |-> name]
  <1>1. /\ o.at = "body" /\ openings' = (openings \ {o}) \cup {new}
        /\ UNCHANGED <<downloads, results, launched>>
        /\ raced \subseteq raced'
        /\ UsedUp(safe) \/ (\E p \in openings : p.at = "write" /\ p.name = name) => name \in raced'
    BY <1>0 DEF ChooseName
  <1>2. /\ safe \in Seq(Pieces) /\ LastDot(safe) > 1
    BY FilenamesAreNames, SafeNameBegins DEF AttachmentInv, OpeningsAreSound
  <1>3. /\ IsUnsafeToLaunch(name) <=> IsUnsafeToLaunch(safe)
        /\ name \notin DOMAIN downloads \/ UsedUp(safe)
    BY <1>0, <1>2, UniquePathKeeps
  <1> HIDE DEF safe
  <1>4. /\ new.n = o.n /\ new.part = o.part /\ new.at = "write" /\ new.safe = safe /\ new.name = name
        /\ new = [n |-> new.n, part |-> new.part, at |-> new.at, safe |-> new.safe, name |-> new.name]
    OBVIOUS
  <1> HIDE DEF new
  <1>5. FilesAreKept'
    BY <1>1 DEF AttachmentInv, FilesAreKept, IsUnsafeToLaunch, LastDot
  <1>6. Alone(new, DOMAIN downloads)'
    BY <1>1, <1>3, <1>4 DEF Alone
  <1>7. ASSUME NEW p \in openings \ {o}, p.at = "write"
        PROVE  Alone(p, DOMAIN downloads)'
    <2>1. Alone(p, DOMAIN downloads)
      BY <1>7 DEF AttachmentInv, OpeningsAreSound
    <2>2. p.name = name => name \in raced'
      BY <1>1, <1>7
    <2> QED
      BY <1>1, <1>4, <2>1, <2>2 DEF Alone
  <1>8. OpeningsAreSound'
    <2>1. ASSUME NEW p \in openings \ {o}
          PROVE  /\ p = [n |-> p.n, part |-> p.part, at |-> p.at, safe |-> p.safe, name |-> p.name]
                 /\ p.part[1] \in DOMAIN Parcels /\ p.part[2] \in DOMAIN Parcels[p.part[1]]
                 /\ p.at = "write" => (IsUnsafeToLaunch(p.name) <=> IsUnsafeToLaunch(p.safe))
                 /\ p.at = "open" => ~IsUnsafeToLaunch(p.name)
      BY DEF AttachmentInv, OpeningsAreSound
    <2>2. /\ new.part[1] \in DOMAIN Parcels /\ new.part[2] \in DOMAIN Parcels[new.part[1]]
          /\ IsUnsafeToLaunch(new.name) <=> IsUnsafeToLaunch(new.safe)
      BY <1>3, <1>4 DEF AttachmentInv, OpeningsAreSound
    <2>3. ASSUME NEW p \in openings'
          PROVE  /\ p = [n |-> p.n, part |-> p.part, at |-> p.at, safe |-> p.safe, name |-> p.name]
                 /\ p.part[1] \in DOMAIN Parcels /\ p.part[2] \in DOMAIN Parcels[p.part[1]]
                 /\ p.at = "write" => (IsUnsafeToLaunch(p.name) <=> IsUnsafeToLaunch(p.safe))
                 /\ p.at = "open" => ~IsUnsafeToLaunch(p.name)
                 /\ p.at = "write" => Alone(p, DOMAIN downloads)'
      <3>1. CASE p \in openings \ {o}
        BY <1>7, <2>1, <3>1
      <3>2. CASE p = new
        BY <1>4, <1>6, <2>2, <3>2
      <3> QED
        BY <1>1, <3>1, <3>2
    <2> QED
      BY <2>3 DEF OpeningsAreSound
  <1> QED
    BY <1>5, <1>8 DEF AttachmentInv

LEMMA WriteFileKeeps ==
    ASSUME AttachmentInv, NEW o \in openings, WriteFile(o)
    PROVE  AttachmentInv'
  <1> DEFINE files == DOMAIN downloads
             new == [o EXCEPT !.at = "open"]
  <1>1. /\ o.at = "write"
        /\ downloads' = [f \in files \cup {o.name} |-> IF f = o.name THEN o.n ELSE downloads[f]]
        /\ results' = results \cup {[n |-> o.n, part |-> o.part, name |-> o.name]}
        /\ UNCHANGED <<launched, raced>>
        /\ IsUnsafeToLaunch(o.safe) => openings' = openings \ {o}
        /\ ~IsUnsafeToLaunch(o.safe) => openings' = (openings \ {o}) \cup {new}
    BY DEF WriteFile
  <1>2. /\ DOMAIN downloads' = files \cup {o.name} /\ downloads'[o.name] = o.n
        /\ \A f \in files : f # o.name => downloads'[f] = downloads[f]
    BY <1>1
  <1>3. (IsUnsafeToLaunch(o.name) <=> IsUnsafeToLaunch(o.safe)) /\ Alone(o, files)
    BY <1>1 DEF AttachmentInv, OpeningsAreSound
  <1>4. /\ new = [n |-> o.n, part |-> o.part, at |-> "open", safe |-> o.safe, name |-> o.name]
        /\ new.n = o.n /\ new.part = o.part /\ new.at = "open" /\ new.safe = o.safe /\ new.name = o.name
    BY DEF AttachmentInv, OpeningsAreSound
  <1> HIDE DEF files, new
  <1>5. FilesAreKept'
    <2>1. ASSUME NEW r \in results
          PROVE  r.name \in raced' \/ (r.name \in DOMAIN downloads' /\ downloads'[r.name] = r.n)
      <3>1. r.name \in raced \/ (r.name \in files /\ downloads[r.name] = r.n)
        BY DEF AttachmentInv, FilesAreKept, files
      <3>2. r.name = o.name /\ r.name \notin raced => r.name \notin files
        BY <1>3 DEF Alone
      <3> QED
        BY <1>1, <1>2, <3>1, <3>2
    <2>2. \A r \in results' \ results : r.name = o.name /\ r.n = o.n
      BY <1>1
    <2>3. \A f \in launched' : ~IsUnsafeToLaunch(f)
      BY <1>1 DEF AttachmentInv, FilesAreKept
    <2> QED
      BY <1>2, <2>1, <2>2, <2>3 DEF FilesAreKept, IsUnsafeToLaunch, LastDot
  <1>6. ASSUME NEW p \in openings \ {o}, p.at = "write"
        PROVE  Alone(p, DOMAIN downloads)'
    <2>1. Alone(p, files)
      BY <1>6 DEF AttachmentInv, OpeningsAreSound, files
    <2>2. p.name \notin raced => p.name # o.name
      BY <1>1, <2>1 DEF Alone
    <2>3. \A q \in openings' \ {p} : q.at = "write" => q \in openings \ {p}
      BY <1>1, <1>4
    <2> QED
      BY <1>1, <1>2, <2>1, <2>2, <2>3 DEF Alone
  <1>7. OpeningsAreSound'
    <2>1. ASSUME NEW p \in openings \ {o}
          PROVE  /\ p = [n |-> p.n, part |-> p.part, at |-> p.at, safe |-> p.safe, name |-> p.name]
                 /\ p.part[1] \in DOMAIN Parcels /\ p.part[2] \in DOMAIN Parcels[p.part[1]]
                 /\ p.at = "write" => (IsUnsafeToLaunch(p.name) <=> IsUnsafeToLaunch(p.safe))
                 /\ p.at = "open" => ~IsUnsafeToLaunch(p.name)
      BY DEF AttachmentInv, OpeningsAreSound
    <2>2. ASSUME ~IsUnsafeToLaunch(o.safe)
          PROVE  /\ new.part[1] \in DOMAIN Parcels /\ new.part[2] \in DOMAIN Parcels[new.part[1]]
                 /\ ~IsUnsafeToLaunch(new.name)
      BY <1>3, <1>4, <2>2 DEF AttachmentInv, OpeningsAreSound
    <2>3. ASSUME NEW p \in openings'
          PROVE  /\ p = [n |-> p.n, part |-> p.part, at |-> p.at, safe |-> p.safe, name |-> p.name]
                 /\ p.part[1] \in DOMAIN Parcels /\ p.part[2] \in DOMAIN Parcels[p.part[1]]
                 /\ p.at = "write" => (IsUnsafeToLaunch(p.name) <=> IsUnsafeToLaunch(p.safe))
                 /\ p.at = "open" => ~IsUnsafeToLaunch(p.name)
                 /\ p.at = "write" => Alone(p, DOMAIN downloads)'
      <3>1. CASE p \in openings \ {o}
        BY <1>6, <2>1, <3>1
      <3>2. CASE p = new /\ ~IsUnsafeToLaunch(o.safe)
        BY <1>4, <2>2, <3>2
      <3> QED
        BY <1>1, <3>1, <3>2
    <2> QED
      BY <2>3 DEF OpeningsAreSound
  <1> QED
    BY <1>5, <1>7 DEF AttachmentInv

(* Calls that end, and files that the user takes away.                     *)
LEMMA OthersKeep ==
    ASSUME AttachmentInv, raced \subseteq raced',
           \A o \in openings' : o \in openings,
           UNCHANGED results, \A f \in launched' : ~IsUnsafeToLaunch(f),
           DOMAIN downloads' \subseteq DOMAIN downloads,
           \A f \in DOMAIN downloads : f \in raced' \/ (f \in DOMAIN downloads' /\ downloads'[f] = downloads[f])
    PROVE  AttachmentInv'
  <1>1. FilesAreKept'
    BY DEF AttachmentInv, FilesAreKept, IsUnsafeToLaunch, LastDot
  <1>2. ASSUME NEW o \in openings', o.at = "write"
        PROVE  Alone(o, DOMAIN downloads)'
    <2>1. o \in openings /\ Alone(o, DOMAIN downloads)
      BY <1>2 DEF AttachmentInv, OpeningsAreSound
    <2> QED
      BY <2>1 DEF Alone
  <1>3. OpeningsAreSound'
    BY <1>2 DEF AttachmentInv, OpeningsAreSound, IsUnsafeToLaunch, LastDot
  <1> QED
    BY <1>1, <1>3 DEF AttachmentInv

LEMMA AttachmentStep ==
    ASSUME AttachmentInv, [AttachmentNext]_attachmentVars
    PROVE  AttachmentInv'
  <1>1. ASSUME NEW m \in DOMAIN Parcels, NEW i \in Listed(m), OpenAttachment(m, i)
        PROVE  AttachmentInv'
    <2>1. PICK new : /\ openings' = openings \cup {new}
                     /\ new = [n |-> count.clicks, part |-> <<m, i>>, at |-> "body", safe |-> <<>>, name |-> <<>>]
      BY <1>1 DEF OpenAttachment
    <2>2. UNCHANGED <<downloads, results, launched, raced>>
      BY <1>1 DEF OpenAttachment
    <2>3. /\ new = [n |-> new.n, part |-> new.part, at |-> new.at, safe |-> new.safe, name |-> new.name]
          /\ new.at = "body" /\ new.part[1] = m /\ new.part[2] = i /\ i \in DOMAIN Parcels[m]
      BY <2>1 DEF Listed
    <2>4. FilesAreKept'
      BY <2>2 DEF AttachmentInv, FilesAreKept, IsUnsafeToLaunch, LastDot
    <2>5. ASSUME NEW o \in openings, o.at = "write"
          PROVE  Alone(o, DOMAIN downloads)'
      BY <2>1, <2>2, <2>3, <2>5 DEF AttachmentInv, OpeningsAreSound, Alone
    <2>6. OpeningsAreSound'
      <3>1. ASSUME NEW p \in openings'
            PROVE  /\ p = [n |-> p.n, part |-> p.part, at |-> p.at, safe |-> p.safe, name |-> p.name]
                   /\ p.part[1] \in DOMAIN Parcels /\ p.part[2] \in DOMAIN Parcels[p.part[1]]
                   /\ p.at = "write" => (IsUnsafeToLaunch(p.name) <=> IsUnsafeToLaunch(p.safe))
                   /\ p.at = "open" => ~IsUnsafeToLaunch(p.name)
                   /\ p.at = "write" => Alone(p, DOMAIN downloads)'
        <4>1. CASE p \in openings
          BY <2>5, <4>1 DEF AttachmentInv, OpeningsAreSound
        <4>2. CASE p = new
          BY <2>3, <4>2
        <4> QED
          BY <2>1, <4>1, <4>2
      <3> QED
        BY <3>1 DEF OpeningsAreSound
    <2> QED
      BY <2>4, <2>6 DEF AttachmentInv
  <1>2. ASSUME NEW o \in openings, OpenFails(o)
        PROVE  AttachmentInv'
    <2>1. openings' = openings \ {o} /\ UNCHANGED <<downloads, results, launched, raced>>
      BY <1>2 DEF OpenFails
    <2> QED
      BY <2>1, OthersKeep DEF AttachmentInv, FilesAreKept
  <1>3. ASSUME NEW o \in openings, LaunchFile(o)
        PROVE  AttachmentInv'
    <2>1. /\ openings' = openings \ {o} /\ UNCHANGED <<downloads, results, raced>>
          /\ o.at = "open" /\ launched' = launched \cup {o.name}
      BY <1>3 DEF LaunchFile
    <2>2. ~IsUnsafeToLaunch(o.name)
      BY <2>1 DEF AttachmentInv, OpeningsAreSound
    <2>3. \A f \in launched' : ~IsUnsafeToLaunch(f)
      BY <2>1, <2>2 DEF AttachmentInv, FilesAreKept
    <2> QED
      BY <2>1, <2>3, OthersKeep
  <1>4. ASSUME NEW f \in DOMAIN downloads, TakeAway(f)
        PROVE  AttachmentInv'
    <2>1. /\ raced' = raced \cup {f} /\ UNCHANGED <<openings, results, launched>>
          /\ downloads' = [g \in DOMAIN downloads \ {f} |-> downloads[g]]
      BY <1>4 DEF TakeAway
    <2>2. \A g \in launched' : ~IsUnsafeToLaunch(g)
      BY <2>1 DEF AttachmentInv, FilesAreKept
    <2>3. /\ DOMAIN downloads' = DOMAIN downloads \ {f}
          /\ \A g \in DOMAIN downloads \ {f} : downloads'[g] = downloads[g]
      BY <2>1
    <2> QED
      BY <2>1, <2>2, <2>3, OthersKeep
  <1>5. CASE UNCHANGED attachmentVars
    <2>1. UNCHANGED <<downloads, openings, results, launched, raced>>
      BY <1>5 DEF attachmentVars
    <2> QED
      BY <2>1, OthersKeep DEF AttachmentInv, FilesAreKept
  <1> QED
    BY <1>1, <1>2, <1>3, <1>4, <1>5, ChooseNameKeeps, WriteFileKeeps DEF AttachmentNext

(* FilesAreKept, with any messages, names, unsafe endings and number of    *)
(* tries: what an opened attachment was written to is still there with     *)
(* what it held (unique_path, messages_open_attachment), but for races and *)
(* what the user removes, and no file is handed to the system that could   *)
(* run, although its name was made safe and numbered on the way.           *)
THEOREM FilesKept == AttachmentSpec => []FilesAreKept
  <1>1. AttachmentInit => AttachmentInv
    BY DEF AttachmentInit, AttachmentInv, OpeningsAreSound, FilesAreKept
  <1>2. AttachmentInv => FilesAreKept
    BY DEF AttachmentInv
  <1> QED
    BY <1>1, <1>2, AttachmentStep, PTL DEF AttachmentSpec
-----------------------------------------------------------------------------
(* Settings (module Settings).  A write that is in the table while its     *)
(* call goes on makes the control read again; and while nothing has        *)
(* overlapped or failed, at most one call is under way, it began when the  *)
(* windows had come to rest, and what it has told is on its way to them.   *)
Written(s) == s.at \in {"tell", "return"}

SettingsTypeOK ==
    /\ \A s \in sets : /\ s = [n |-> s.n, at |-> s.at, value |-> s.value]
                       /\ s.at \in {"write", "tell", "return"}
    /\ \A r \in icon.reads : r = [n |-> r.n, at |-> r.at, value |-> r.value] /\ r.at \in {"ask", "reply"}
    /\ icon = [applied |-> icon.applied, reads |-> icon.reads]
    /\ control = [fetch |-> control.fetch, rendered |-> control.rendered, marked |-> control.marked]
    /\ control.fetch.at \in {"idle", "ask", "reply"} /\ (control.fetch.at = "idle" => control.fetch = Idle)
    /\ shell = [boot |-> shell.boot, listening |-> shell.listening, applied |-> shell.applied]
    /\ shell.boot.at \in {"idle", "ask", "reply"} /\ shell.listening \in BOOLEAN

(* The control has the stored value, or is going to read it.               *)
ControlCatchesUp ==
    (\A s \in sets : ~Written(s)) =>
        /\ control.fetch.at = "idle" => control.rendered = kept
        /\ control.fetch.at = "reply" => control.fetch.value = kept

(* Its mark goes with what it is rendered with, or will when it is         *)
(* rendered with another value.                                            *)
MarkFollows ==
    /\ control.rendered = kept => control.marked = kept \/ \E s \in sets : s.at = "write"
    /\ \A s \in sets : s.at = "write" /\ control.rendered = s.value => control.marked = s.value

OneCall ==
    /\ \A s, t \in sets : s = t
    /\ Booting => sets = {} /\ notices = <<>> /\ icon.reads = {}
    /\ \A s \in sets : s.at \in {"write", "tell"} => notices = <<>> /\ icon.reads = {}
    /\ \A s \in sets : Written(s) => s.value = kept

Unwritten == \A s \in sets : s.at # "tell"

TrayFollows ==
    Unwritten => /\ \A r \in icon.reads : r.at = "reply" => r.value = kept
                 /\ icon.reads = {} => icon.applied = kept

WindowFollows ==
    Unwritten => /\ shell.boot.at = "reply" => shell.boot.value = kept
                 /\ notices = <<>> /\ shell.boot.at = "idle" => shell.applied = kept
                 /\ notices # <<>> => notices = <<kept>>

AllFollow == ~crossed => OneCall /\ MarkFollows /\ TrayFollows /\ WindowFollows

SettingsInv == SettingsTypeOK /\ ControlCatchesUp /\ AllFollow

LEMMA SettingsInitially == SettingsInit => SettingsInv
<1> SUFFICES ASSUME SettingsInit PROVE SettingsInv
    OBVIOUS
<1>1. /\ kept = 0 /\ sets = {} /\ notices = <<>> /\ shell = [boot |-> Ask, listening |-> FALSE, applied |-> 0]
      /\ icon = [applied |-> 0, reads |-> {}]
      /\ control = [fetch |-> Idle, rendered |-> 0, marked |-> 0]
    BY DEF SettingsInit
<1>2. SettingsTypeOK
    BY <1>1 DEF SettingsTypeOK, Ask, Idle
<1>3. ControlCatchesUp
    BY <1>1 DEF ControlCatchesUp, Idle
<1>4. OneCall /\ MarkFollows /\ TrayFollows /\ WindowFollows
    BY <1>1 DEF OneCall, MarkFollows, TrayFollows, WindowFollows, Ask
<1> QED
    BY <1>2, <1>3, <1>4 DEF SettingsInv, AllFollow

(* The parts of the invariant that a step leaves alone.                    *)
LEMMA ControlStays ==
    ASSUME ControlCatchesUp, UNCHANGED <<kept, control>>,
           \A s \in sets : Written(s) => \E t \in sets' : Written(t)
    PROVE  ControlCatchesUp'
BY DEF ControlCatchesUp, Written

LEMMA MarkStays ==
    ASSUME MarkFollows, UNCHANGED <<kept, control, sets>>
    PROVE  MarkFollows'
BY DEF MarkFollows

LEMMA TrayStays ==
    ASSUME TrayFollows, UNCHANGED <<kept, icon, sets>>
    PROVE  TrayFollows'
BY DEF TrayFollows, Unwritten

LEMMA WindowStays ==
    ASSUME WindowFollows, UNCHANGED <<kept, shell, notices, sets>>
    PROVE  WindowFollows'
BY DEF WindowFollows, Unwritten

LEMMA CallsStay ==
    ASSUME OneCall, UNCHANGED <<kept, sets, shell>>,
           notices' = notices \/ notices' = <<>>, icon'.reads = icon.reads \/ icon'.reads = {}
    PROVE  OneCall'
BY DEF OneCall, Booting, Written

LEMMA ClickControlKeeps == ASSUME SettingsInv, NEW v \in Values, ClickControl(v) PROVE SettingsInv'
<1> DEFINE new == [n |-> had.clicks, at |-> "write", value |-> v]
<1>1. /\ UNCHANGED <<kept, notices, shell, icon>> /\ sets' = sets \cup {new}
      /\ control' = [control EXCEPT !.marked = v]
      /\ crossed' = (crossed \/ sets # {} \/ Booting \/ notices # <<>> \/ icon.reads # {})
    BY DEF ClickControl
<1>2. new.at = "write" /\ new.value = v /\ new = [n |-> new.n, at |-> new.at, value |-> new.value]
    OBVIOUS
<1> HIDE DEF new
<1>3. control = [fetch |-> control.fetch, rendered |-> control.rendered, marked |-> control.marked]
    BY DEF SettingsInv, SettingsTypeOK
<1>4. control' = [fetch |-> control.fetch, rendered |-> control.rendered, marked |-> v]
    BY <1>1, <1>3
<1>5. SettingsTypeOK'
    BY <1>1, <1>2, <1>4 DEF SettingsInv, SettingsTypeOK
<1>6. ControlCatchesUp'
    BY <1>1, <1>2, <1>4 DEF SettingsInv, ControlCatchesUp, Written
<1>7. ASSUME ~crossed' PROVE OneCall' /\ MarkFollows' /\ TrayFollows' /\ WindowFollows'
  <2>1. ~crossed /\ sets = {} /\ ~Booting /\ notices = <<>> /\ icon.reads = {} /\ sets' = {new}
      BY <1>1, <1>7
  <2>2. OneCall /\ MarkFollows /\ TrayFollows /\ WindowFollows
      BY <2>1 DEF SettingsInv, AllFollow
  <2>3. OneCall'
      BY <1>1, <1>2, <2>1 DEF OneCall, Booting, Written
  <2>4. MarkFollows'
      BY <1>2, <1>4, <2>1 DEF MarkFollows
  <2>5. TrayFollows' /\ WindowFollows'
      BY <1>1, <1>2, <2>1, <2>2 DEF TrayFollows, WindowFollows, Unwritten
  <2> QED
      BY <2>3, <2>4, <2>5
<1> QED
    BY <1>5, <1>6, <1>7 DEF SettingsInv, AllFollow

LEMMA WriteFailsKeeps == ASSUME SettingsInv, NEW s \in sets, WriteFails(s) PROVE SettingsInv'
<1>1. UNCHANGED <<kept, notices, shell, icon, control>> /\ sets' = sets \ {s} /\ crossed' /\ s.at = "write"
    BY DEF WriteFails
<1>2. SettingsTypeOK'
    BY <1>1 DEF SettingsInv, SettingsTypeOK
<1>3. ControlCatchesUp'
    BY <1>1, ControlStays DEF SettingsInv, Written
<1> QED
    BY <1>1, <1>2, <1>3 DEF SettingsInv, AllFollow

(* The call and its next step are records of calls.                        *)
LEMMA CallMoves ==
    ASSUME SettingsTypeOK, NEW s \in sets, NEW at \in {"write", "tell", "return"}
    PROVE  /\ [s EXCEPT !.at = at] = [n |-> s.n, at |-> at, value |-> s.value]
           /\ Moved(s, at) = (sets \ {s}) \cup {[n |-> s.n, at |-> at, value |-> s.value]}
<1>1. s = [n |-> s.n, at |-> s.at, value |-> s.value]
    BY DEF SettingsTypeOK
<1>2. [s EXCEPT !.at = at] = [n |-> s.n, at |-> at, value |-> s.value]
    BY <1>1
<1> QED
    BY <1>2 DEF Moved

LEMMA SetWriteKeeps ==
    ASSUME SettingsInv, NEW s \in sets, SetGoesOn(s), s.at = "write"
    PROVE  SettingsInv'
<1> DEFINE t == [n |-> s.n, at |-> "tell", value |-> s.value]
<1>0. SettingsTypeOK
    BY DEF SettingsInv
<1>1. /\ UNCHANGED <<notices, icon, shell, control, crossed>> /\ kept' = s.value
      /\ sets' = (sets \ {s}) \cup {t}
  <2>1. /\ UNCHANGED <<notices, icon, shell, control, crossed>> /\ kept' = s.value
        /\ sets' = Moved(s, "tell")
      BY DEF SetGoesOn, SetStep, WriteAndTell
  <2> QED
      BY <1>0, <2>1, CallMoves
<1>2. t.at = "tell" /\ t.value = s.value /\ t = [n |-> t.n, at |-> t.at, value |-> t.value]
    OBVIOUS
<1> HIDE DEF t
<1>3. SettingsTypeOK'
    BY <1>0, <1>1, <1>2 DEF SettingsTypeOK
<1>4. ControlCatchesUp'
    BY <1>1, <1>2 DEF ControlCatchesUp, Written
<1>5. ASSUME ~crossed' PROVE OneCall' /\ MarkFollows' /\ TrayFollows' /\ WindowFollows'
  <2>1. OneCall /\ MarkFollows
      BY <1>1, <1>5 DEF SettingsInv, AllFollow
  <2>2. sets' = {t} /\ notices = <<>> /\ icon.reads = {} /\ ~Booting
      BY <1>1, <2>1 DEF OneCall
  <2>3. OneCall'
      BY <1>1, <1>2, <2>2 DEF OneCall, Booting, Written
  <2>4. MarkFollows'
      BY <1>1, <1>2, <2>1, <2>2 DEF MarkFollows
  <2>5. TrayFollows' /\ WindowFollows'
      BY <1>2, <2>2 DEF TrayFollows, WindowFollows, Unwritten
  <2> QED
      BY <2>3, <2>4, <2>5
<1> QED
    BY <1>3, <1>4, <1>5 DEF SettingsInv, AllFollow

LEMMA TellKeeps ==
    ASSUME SettingsInv, NEW s \in sets, SetGoesOn(s), s.at = "tell"
    PROVE  SettingsInv'
<1> DEFINE t == [n |-> s.n, at |-> "return", value |-> s.value]
           r == [n |-> s.n, at |-> "ask", value |-> 0]
<1>0. SettingsTypeOK
    BY DEF SettingsInv
<1>1. /\ UNCHANGED <<kept, shell, control, crossed>>
      /\ sets' = (sets \ {s}) \cup {t}
      /\ notices' = IF shell.listening THEN Append(notices, s.value) ELSE notices
      /\ icon' = [icon EXCEPT !.reads = @ \cup {r}]
  <2>1. /\ UNCHANGED <<kept, shell, control, crossed>> /\ Emitted(s)
        /\ sets' = Moved(s, "return")
      BY DEF SetGoesOn, SetStep, WriteAndTell
  <2> QED
      BY <1>0, <2>1, CallMoves DEF Emitted
<1>2. /\ t.at = "return" /\ t.value = s.value /\ t = [n |-> t.n, at |-> t.at, value |-> t.value]
      /\ r.at = "ask" /\ r = [n |-> r.n, at |-> r.at, value |-> r.value]
    OBVIOUS
<1> HIDE DEF t, r
<1>i. icon' = [applied |-> icon.applied, reads |-> icon.reads \cup {r}]
  <2>1. icon = [applied |-> icon.applied, reads |-> icon.reads]
      BY <1>0 DEF SettingsTypeOK
  <2> QED
      BY <1>1, <2>1
<1>3. SettingsTypeOK'
  <2>1. icon'.reads = icon.reads \cup {r} /\ icon' = [applied |-> icon'.applied, reads |-> icon'.reads]
      BY <1>i
  <2>2. \A q \in icon'.reads : q = [n |-> q.n, at |-> q.at, value |-> q.value] /\ q.at \in {"ask", "reply"}
      BY <1>0, <1>2, <2>1 DEF SettingsTypeOK
  <2>3. \A q \in sets' : /\ q = [n |-> q.n, at |-> q.at, value |-> q.value]
                         /\ q.at \in {"write", "tell", "return"}
      BY <1>0, <1>1, <1>2 DEF SettingsTypeOK
  <2> QED
      BY <1>0, <1>1, <2>1, <2>2, <2>3 DEF SettingsTypeOK
<1>4. ControlCatchesUp'
    BY <1>1, <1>2, ControlStays DEF SettingsInv, Written
<1>5. ASSUME ~crossed' PROVE OneCall' /\ MarkFollows' /\ TrayFollows' /\ WindowFollows'
  <2>1. OneCall /\ MarkFollows
      BY <1>1, <1>5 DEF SettingsInv, AllFollow
  <2>2. /\ sets' = {t} /\ notices = <<>> /\ icon.reads = {} /\ ~Booting /\ s.value = kept
        /\ shell.listening /\ shell.boot.at = "idle"
      BY <1>1, <2>1 DEF OneCall, Booting, Written
  <2>3. notices' = <<kept>> /\ notices' # <<>> /\ icon'.reads = {r}
      BY <1>1, <1>i, <2>2
  <2>4. OneCall'
      BY <1>1, <1>2, <2>2 DEF OneCall, Booting, Written
  <2>5. MarkFollows'
      BY <1>1, <1>2, <2>1, <2>2 DEF MarkFollows
  <2>6. TrayFollows' /\ WindowFollows'
      BY <1>1, <1>2, <2>2, <2>3 DEF TrayFollows, WindowFollows, Unwritten
  <2> QED
      BY <2>4, <2>5, <2>6
<1> QED
    BY <1>3, <1>4, <1>5 DEF SettingsInv, AllFollow

LEMMA ReturnedKeeps == ASSUME SettingsInv, NEW s \in sets, Returned(s) PROVE SettingsInv'
<1>1. /\ UNCHANGED <<kept, notices, shell, icon, crossed>> /\ sets' = sets \ {s}
      /\ control' = [control EXCEPT !.fetch = Ask] /\ s.at = "return"
    BY DEF Returned
<1>2. control' = [fetch |-> Ask, rendered |-> control.rendered, marked |-> control.marked]
  <2>1. control = [fetch |-> control.fetch, rendered |-> control.rendered, marked |-> control.marked]
      BY DEF SettingsInv, SettingsTypeOK
  <2> QED
      BY <1>1, <2>1
<1>3. SettingsTypeOK'
    BY <1>1, <1>2 DEF SettingsInv, SettingsTypeOK, Ask
<1>4. ControlCatchesUp'
    BY <1>2 DEF ControlCatchesUp, Ask
<1>5. ASSUME ~crossed' PROVE OneCall' /\ MarkFollows' /\ TrayFollows' /\ WindowFollows'
  <2>1. OneCall /\ MarkFollows /\ TrayFollows /\ WindowFollows
      BY <1>1, <1>5 DEF SettingsInv, AllFollow
  <2>2. sets' = {} /\ Unwritten
      BY <1>1, <2>1 DEF OneCall, Unwritten
  <2>3. OneCall'
      BY <1>1, <2>1, <2>2 DEF OneCall, Booting, Written
  <2>4. MarkFollows'
      BY <1>1, <1>2, <2>1, <2>2 DEF MarkFollows, OneCall
  <2>5. TrayFollows' /\ WindowFollows'
      BY <1>1, <2>1, <2>2 DEF TrayFollows, WindowFollows, Unwritten
  <2> QED
      BY <2>3, <2>4, <2>5
<1> QED
    BY <1>3, <1>4, <1>5 DEF SettingsInv, AllFollow

LEMMA RefetchControlKeeps == ASSUME SettingsInv, RefetchControl PROVE SettingsInv'
<1> DEFINE v == control.fetch.value
           new == control.fetch.at = "reply" /\ v # control.rendered
           f == IF control.fetch.at = "ask" THEN [at |-> "reply", value |-> kept] ELSE Idle
           rendered == IF new THEN v ELSE control.rendered
           marked == IF new THEN v ELSE control.marked
<1>1. /\ UNCHANGED <<kept, sets, notices, shell, icon, crossed>> /\ control.fetch.at \in {"ask", "reply"}
      /\ control' = [fetch |-> f, rendered |-> rendered, marked |-> marked]
    BY DEF RefetchControl, Answer, Reading, SettingsInv, SettingsTypeOK
<1>2. /\ control'.fetch = f /\ control'.rendered = rendered /\ control'.marked = marked
      /\ control' = [fetch |-> control'.fetch, rendered |-> control'.rendered, marked |-> control'.marked]
    BY <1>1
<1>3. SettingsTypeOK'
    BY <1>1, <1>2 DEF SettingsInv, SettingsTypeOK, Idle
<1>4. ControlCatchesUp'
    BY <1>1, <1>2 DEF SettingsInv, ControlCatchesUp, Idle, Written
<1>5. ASSUME ~crossed' PROVE OneCall' /\ MarkFollows' /\ TrayFollows' /\ WindowFollows'
  <2>1. OneCall /\ MarkFollows /\ TrayFollows /\ WindowFollows
      BY <1>1, <1>5 DEF SettingsInv, AllFollow
  <2>2. OneCall' /\ TrayFollows' /\ WindowFollows'
      BY <1>1, <2>1, CallsStay, TrayStays, WindowStays
  <2>3. MarkFollows'
      BY <1>1, <1>2, <2>1 DEF MarkFollows
  <2> QED
      BY <2>2, <2>3
<1> QED
    BY <1>3, <1>4, <1>5 DEF SettingsInv, AllFollow

LEMMA BootKeeps == ASSUME SettingsInv, Boot PROVE SettingsInv'
<1> DEFINE b == IF shell.boot.at = "ask" THEN [at |-> "reply", value |-> kept] ELSE Idle
           a == IF shell.boot.at = "reply" THEN shell.boot.value ELSE shell.applied
<1>1. /\ UNCHANGED <<kept, sets, notices, control, icon, crossed>> /\ shell.boot.at \in {"ask", "reply"}
      /\ shell' = [boot |-> b, listening |-> shell.listening, applied |-> a]
    BY DEF Boot, Answer, Reading, SettingsInv, SettingsTypeOK
<1>2. /\ shell'.boot = b /\ shell'.listening = shell.listening /\ shell'.applied = a
      /\ shell' = [boot |-> shell'.boot, listening |-> shell'.listening, applied |-> shell'.applied]
    BY <1>1
<1>3. SettingsTypeOK'
    BY <1>1, <1>2 DEF SettingsInv, SettingsTypeOK, Idle
<1>4. ControlCatchesUp'
    BY <1>1, ControlStays DEF SettingsInv
<1>5. ASSUME ~crossed' PROVE OneCall' /\ MarkFollows' /\ TrayFollows' /\ WindowFollows'
  <2>1. OneCall /\ MarkFollows /\ TrayFollows /\ WindowFollows
      BY <1>1, <1>5 DEF SettingsInv, AllFollow
  <2>2. sets = {} /\ notices = <<>> /\ icon.reads = {}
      BY <1>1, <2>1 DEF OneCall, Booting
  <2>3. OneCall'
      BY <1>1, <2>2 DEF OneCall
  <2>4. MarkFollows' /\ TrayFollows'
      BY <1>1, <2>1, MarkStays, TrayStays
  <2>5. WindowFollows'
      BY <1>1, <1>2, <2>1, <2>2 DEF WindowFollows, Unwritten, Idle
  <2> QED
      BY <2>3, <2>4, <2>5
<1> QED
    BY <1>3, <1>4, <1>5 DEF SettingsInv, AllFollow

LEMMA ListenKeeps == ASSUME SettingsInv, Listen PROVE SettingsInv'
<1>1. /\ UNCHANGED <<kept, sets, notices, control, icon, crossed>> /\ ~shell.listening
      /\ shell' = [shell EXCEPT !.listening = TRUE]
    BY DEF Listen
<1>2. shell' = [boot |-> shell.boot, listening |-> TRUE, applied |-> shell.applied]
  <2>1. shell = [boot |-> shell.boot, listening |-> shell.listening, applied |-> shell.applied]
      BY DEF SettingsInv, SettingsTypeOK
  <2>2. \A x : [shell EXCEPT !.listening = x] = [boot |-> shell.boot, listening |-> x, applied |-> shell.applied]
      BY <2>1
  <2> QED
      BY <1>1, <2>2
<1>3. SettingsTypeOK'
    BY <1>1, <1>2 DEF SettingsInv, SettingsTypeOK
<1>4. ControlCatchesUp'
    BY <1>1, ControlStays DEF SettingsInv
<1>5. ASSUME ~crossed' PROVE OneCall' /\ MarkFollows' /\ TrayFollows' /\ WindowFollows'
  <2>1. OneCall /\ MarkFollows /\ TrayFollows /\ WindowFollows
      BY <1>1, <1>5 DEF SettingsInv, AllFollow
  <2>2. sets = {} /\ notices = <<>> /\ icon.reads = {}
      BY <1>1, <2>1 DEF OneCall, Booting
  <2>3. OneCall'
      BY <1>1, <2>2 DEF OneCall
  <2>4. MarkFollows' /\ TrayFollows'
      BY <1>1, <2>1, MarkStays, TrayStays
  <2>5. WindowFollows'
      BY <1>1, <1>2, <2>1, <2>2 DEF WindowFollows, Unwritten
  <2> QED
      BY <2>3, <2>4, <2>5
<1> QED
    BY <1>3, <1>4, <1>5 DEF SettingsInv, AllFollow

LEMMA HearKeeps == ASSUME SettingsInv, Hear PROVE SettingsInv'
<1>1. /\ UNCHANGED <<kept, sets, control, icon, crossed>> /\ notices # <<>> /\ notices' = Tail(notices)
      /\ shell' = [shell EXCEPT !.applied = Head(notices)]
    BY DEF Hear
<1>2. shell' = [boot |-> shell.boot, listening |-> shell.listening, applied |-> Head(notices)]
  <2>1. shell = [boot |-> shell.boot, listening |-> shell.listening, applied |-> shell.applied]
      BY DEF SettingsInv, SettingsTypeOK
  <2>2. \A x : [shell EXCEPT !.applied = x] = [boot |-> shell.boot, listening |-> shell.listening, applied |-> x]
      BY <2>1
  <2> QED
      BY <1>1, <2>2
<1>3. SettingsTypeOK'
    BY <1>1, <1>2 DEF SettingsInv, SettingsTypeOK
<1>4. ControlCatchesUp'
    BY <1>1, ControlStays DEF SettingsInv
<1>5. ASSUME ~crossed' PROVE OneCall' /\ MarkFollows' /\ TrayFollows' /\ WindowFollows'
  <2>1. OneCall /\ MarkFollows /\ TrayFollows /\ WindowFollows
      BY <1>1, <1>5 DEF SettingsInv, AllFollow
  <2>2. ~Booting /\ Unwritten
      BY <1>1, <2>1 DEF OneCall, Unwritten
  <2>3. notices = <<kept>> /\ shell.boot.at = "idle"
      BY <1>1, <2>1, <2>2 DEF WindowFollows, Booting
  <2>4. notices' = <<>> /\ Head(notices) = kept
      BY <1>1, <2>3
  <2>5. OneCall'
      BY <1>1, <1>2, <2>1, <2>2, <2>4 DEF OneCall, Booting, Written
  <2>6. MarkFollows' /\ TrayFollows'
      BY <1>1, <2>1, MarkStays, TrayStays
  <2>7. WindowFollows'
      BY <1>1, <1>2, <2>3, <2>4 DEF WindowFollows
  <2> QED
      BY <2>5, <2>6, <2>7
<1> QED
    BY <1>3, <1>4, <1>5 DEF SettingsInv, AllFollow

LEMMA RefreshKeeps == ASSUME SettingsInv, NEW r \in icon.reads, Refresh(r) PROVE SettingsInv'
<1> DEFINE q == [n |-> r.n, at |-> "reply", value |-> kept]
<1>0. /\ r = [n |-> r.n, at |-> r.at, value |-> r.value] /\ r.at \in {"ask", "reply"}
      /\ icon = [applied |-> icon.applied, reads |-> icon.reads]
    BY DEF SettingsInv, SettingsTypeOK
<1>1. UNCHANGED <<kept, sets, notices, shell, control, crossed>>
    BY DEF Refresh
<1>2. \/ icon' = [applied |-> icon.applied, reads |-> (icon.reads \ {r}) \cup {q}] /\ r.at = "ask"
      \/ icon' = [applied |-> r.value, reads |-> icon.reads \ {r}] /\ r.at = "reply"
  <2>1. CASE r.at = "ask"
    <3>1. icon' = [icon EXCEPT !.reads = (icon.reads \ {r}) \cup {q}]
        BY <2>1 DEF Refresh
    <3>2. \A x : [icon EXCEPT !.reads = x] = [applied |-> icon.applied, reads |-> x]
        BY <1>0
    <3> QED
        BY <2>1, <3>1, <3>2
  <2>2. CASE r.at = "reply"
      BY <2>2 DEF Refresh
  <2> QED
      BY <1>0, <2>1, <2>2
<1>3. q.at = "reply" /\ q.value = kept /\ q = [n |-> q.n, at |-> q.at, value |-> q.value]
    OBVIOUS
<1> HIDE DEF q
<1>4. SettingsTypeOK'
  <2>1. /\ icon' = [applied |-> icon'.applied, reads |-> icon'.reads]
        /\ icon'.reads \subseteq icon.reads \cup {q}
      BY <1>2
  <2>2. \A p \in icon'.reads : p = [n |-> p.n, at |-> p.at, value |-> p.value] /\ p.at \in {"ask", "reply"}
      BY <1>3, <2>1 DEF SettingsInv, SettingsTypeOK
  <2> QED
      BY <1>1, <2>1, <2>2 DEF SettingsInv, SettingsTypeOK
<1>5. ControlCatchesUp'
    BY <1>1, ControlStays DEF SettingsInv
<1>6. ASSUME ~crossed' PROVE OneCall' /\ MarkFollows' /\ TrayFollows' /\ WindowFollows'
  <2>1. OneCall /\ MarkFollows /\ TrayFollows /\ WindowFollows
      BY <1>1, <1>6 DEF SettingsInv, AllFollow
  <2>2. Unwritten /\ ~Booting /\ \A s \in sets : s.at # "write"
      BY <2>1 DEF OneCall, Unwritten
  <2>3. OneCall'
      BY <1>1, <2>1, <2>2 DEF OneCall, Booting, Written, Unwritten
  <2>4. MarkFollows' /\ WindowFollows'
      BY <1>1, <2>1, MarkStays, WindowStays
  <2>5. TrayFollows'
      BY <1>1, <1>2, <1>3, <2>1, <2>2 DEF TrayFollows, Unwritten
  <2> QED
      BY <2>3, <2>4, <2>5
<1> QED
    BY <1>4, <1>5, <1>6 DEF SettingsInv, AllFollow

LEMMA SettingsStep == SettingsInv /\ [SettingsNext]_settingsVars => SettingsInv'
<1> SUFFICES ASSUME SettingsInv, [SettingsNext]_settingsVars
             PROVE  SettingsInv'
    OBVIOUS
<1>1. ASSUME UNCHANGED <<kept, sets, notices, shell, icon, control, crossed>>
      PROVE  SettingsInv'
  <2>1. SettingsTypeOK' /\ ControlCatchesUp'
      BY <1>1, ControlStays DEF SettingsInv, SettingsTypeOK
  <2>2. ASSUME ~crossed' PROVE OneCall' /\ MarkFollows' /\ TrayFollows' /\ WindowFollows'
    <3>1. OneCall /\ MarkFollows /\ TrayFollows /\ WindowFollows
        BY <1>1, <2>2 DEF SettingsInv, AllFollow
    <3> QED
        BY <1>1, <3>1, CallsStay, MarkStays, TrayStays, WindowStays
  <2> QED
      BY <2>1, <2>2 DEF SettingsInv, AllFollow
<1>2. CASE UNCHANGED settingsVars
    BY <1>1, <1>2 DEF settingsVars
<1>3. ASSUME NEW s \in sets, SetGoesOn(s)
      PROVE  SettingsInv'
  <2>1. s.at = "write" \/ s.at = "tell"
      BY <1>3 DEF SetGoesOn, SetStep, WriteAndTell
  <2> QED
      BY <1>3, <2>1, SetWriteKeeps, TellKeeps
<1>4. CASE ListAgain
    BY <1>1, <1>4 DEF ListAgain
<1>5. ASSUME NEW i \in DOMAIN tab.listed, TypeName(i) \/ SaveName(i) \/ RemoveRow(i)
      PROVE  SettingsInv'
    BY <1>1, <1>5 DEF TypeName, SaveName, RemoveRow
<1> QED
    BY <1>2, <1>3, <1>4, <1>5, ClickControlKeeps, WriteFailsKeeps, ReturnedKeeps, RefreshKeeps,
       RefetchControlKeeps, BootKeeps, ListenKeeps, HearKeeps
    DEF SettingsNext

(* When nothing is under way the control has the stored value, and so have *)
(* its mark, the main window and the tray but for overlaps and failures    *)
(* (app_settings_set, its event, and the refetches), with any values and   *)
(* any number of clicks.                                                   *)
THEOREM SettingsReachEveryone == SettingsSpec => []SettingsAreApplied
<1>1. SettingsInv => SettingsAreApplied
  <2> SUFFICES ASSUME SettingsInv, AtEase
               PROVE  /\ control.rendered = kept
                      /\ ~crossed => control.marked = kept /\ shell.applied = kept /\ icon.applied = kept
      BY DEF SettingsAreApplied
  <2>1. sets = {} /\ notices = <<>> /\ icon.reads = {} /\ control.fetch.at = "idle" /\ shell.boot.at = "idle"
      BY DEF AtEase, Idle, Booting, SettingsInv, SettingsTypeOK
  <2>2. control.rendered = kept
      BY <2>1 DEF SettingsInv, ControlCatchesUp
  <2> QED
      BY <2>1, <2>2 DEF SettingsInv, AllFollow, MarkFollows, TrayFollows, WindowFollows, Unwritten
<1> QED
    BY <1>1, SettingsInitially, SettingsStep, PTL DEF SettingsSpec

-----------------------------------------------------------------------------
(* Folders (module Folders).  The rows under an id are the messages that   *)
(* the last sync found there, less those that syncs of other mailboxes     *)
(* have claimed; what has not changed since that sync, it found.           *)
RowOf(i, id) == [id |-> i, folder |-> id]
RowsOf(a, n, mail) == {RowOf(i, Scoped(a, n)) : i \in IdsOf(a, n, mail)}
GotBy(a, n) == NewIn(a, n, Cursor(Scoped(a, n)))
TakenBy(a, n) == GotBy(a, n) \cup RemovedFrom(a, Cursor(Scoped(a, n)))

ServersOK ==
    /\ abroad \in [Owners -> [Items -> BoxKeys \cup {"unborn", "destroyed"}]]
    /\ stamps \in [Owners -> [Items -> Nat \ {0}]] /\ tides \in [Owners -> Nat \ {0}]
    /\ \A a \in Owners, e \in Items : stamps[a][e] <= tides[a]
WalkOK ==
    walk.at # "rest" => walk.of \in Owners /\ walk.left \subseteq BoxKeys
PromisesOK ==
    promised \in [Owners -> [BoxKeys -> SUBSET Items]]
FoldersOK ==
    \A id \in DOMAIN folders : \E a \in Owners, n \in BoxKeys :
        id = Scoped(a, n) /\ folders[id] = FolderOf(a, n)
SelectionOK ==
    selection # <<>> => selection \in DOMAIN folders /\ folders[selection].role = "inbox"

SyncedHolds(a, n) ==
    LET id == Scoped(a, n)
    IN  IF promised[a][n] # {}
        THEN /\ id \in DOMAIN folders
             /\ InFolder(id) = RowsOf(a, n, Owed(a, n))
             /\ Cursor(id) \in 1 .. tides[a]
             /\ \A e \in MailIn(a, n) : stamps[a][e] <= Cursor(id) => e \in promised[a][n]
        ELSE InFolder(id) = {} /\ Cursor(id) = 0
AllSynced == \A a \in Owners, n \in BoxKeys : SyncedHolds(a, n)

FoldersInv == ServersOK /\ WalkOK /\ PromisesOK /\ FoldersOK /\ SelectionOK /\ AllSynced

LEMMA IdsAreScoped ==
    \A a, n, b, m : Scoped(a, n) = Scoped(b, m) => a = b /\ n = m
BY DEF Scoped, ScopedId

(* Ids of messages differ as the messages do, but for the mailbox that an  *)
(* email of a JMAP account is in.                                          *)
LEMMA MailIdsDiffer ==
    \A a, n, e, b, m, f : MessageId(a, n, e) = MessageId(b, m, f) =>
        a = b /\ e = f /\ (IsJmap(a) \/ n = m)
<1> TAKE a, n, e, b, m, f
<1> SUFFICES ASSUME MessageId(a, n, e) = MessageId(b, m, f)
             PROVE  a = b /\ e = f /\ (IsJmap(a) \/ n = m)
    OBVIOUS
<1>1. MessageId(a, n, e).mail = e /\ MessageId(b, m, f).mail = f
    BY DEF MessageId
<1>2. /\ MessageId(a, n, e).of = IF IsJmap(a) THEN <<a>> ELSE <<a, n>>
      /\ MessageId(b, m, f).of = IF IsJmap(b) THEN <<b>> ELSE <<b, m>>
    BY DEF MessageId, Scoped, ScopedId
<1>3. \A x, y, z : <<x>> # <<y, z>>
  <2> TAKE x, y, z
  <2>1. Len(<<x>>) = 1 /\ Len(<<y, z>>) = 2
      OBVIOUS
  <2> QED
      BY <2>1
<1> QED
    BY <1>1, <1>2, <1>3

LEMMA FoldersInitially == FoldersInit => FoldersInv
<1> SUFFICES ASSUME FoldersInit PROVE FoldersInv
    OBVIOUS
<1>1. /\ abroad = Given /\ tides = [a \in Owners |-> 1]
      /\ stamps = [a \in Owners |-> [e \in Items |-> 1]]
      /\ folders = <<>> /\ messages = {} /\ cursors = <<>> /\ walk.at = "rest"
      /\ promised = [a \in Owners |-> [n \in BoxKeys |-> {}]] /\ selection = <<>>
    BY DEF FoldersInit, Away
<1>2. DOMAIN folders = {} /\ DOMAIN cursors = {}
  <2>1. \A f : f = <<>> => DOMAIN f = {}
      OBVIOUS
  <2> QED
      BY <1>1, <2>1
<1>3. ServersOK
  <2>1. abroad \in [Owners -> [Items -> BoxKeys \cup {"unborn", "destroyed"}]]
      BY <1>1, FoldersAssumption
  <2> QED
      BY <1>1, <2>1 DEF ServersOK
<1>4. WalkOK /\ PromisesOK /\ FoldersOK /\ SelectionOK
    BY <1>1, <1>2 DEF WalkOK, PromisesOK, FoldersOK, SelectionOK
<1>5. AllSynced
    BY <1>1, <1>2 DEF AllSynced, SyncedHolds, InFolder, Cursor
<1> QED
    BY <1>3, <1>4, <1>5 DEF FoldersInv

LEMMA SyncedStays ==
    ASSUME FoldersInv, UNCHANGED <<abroad, stamps, tides, messages, cursors, promised, claimed>>,
           DOMAIN folders \subseteq DOMAIN folders'
    PROVE  AllSynced'
<1> SUFFICES ASSUME NEW a \in Owners, NEW n \in BoxKeys PROVE SyncedHolds(a, n)'
    BY DEF AllSynced
<1>1. SyncedHolds(a, n)
    BY DEF FoldersInv, AllSynced
<1>2. /\ InFolder(Scoped(a, n))' = InFolder(Scoped(a, n)) /\ Cursor(Scoped(a, n))' = Cursor(Scoped(a, n))
      /\ RowsOf(a, n, Owed(a, n))' = RowsOf(a, n, Owed(a, n)) /\ MailIn(a, n)' = MailIn(a, n)
    BY DEF InFolder, Cursor, RowsOf, Owed, MailIn
<1> QED
    BY <1>1, <1>2 DEF SyncedHolds

(* The servers leave the tables alone, and what changes there has a state  *)
(* that no sync has seen.                                                  *)
LEMMA ServersKeep ==
    ASSUME FoldersInv, ServersOK',
           \A a \in Owners : tides[a] <= tides'[a],
           \A a \in Owners, n \in BoxKeys : promised[a][n] # {} =>
               \A e \in MailIn(a, n)' : \/ tides[a] < stamps'[a][e]
                                        \/ e \in MailIn(a, n) /\ stamps'[a][e] = stamps[a][e],
           UNCHANGED <<tables, walk, selection>>
    PROVE  FoldersInv'
<1>1. UNCHANGED <<folders, messages, cursors, promised, claimed, walk, selection>>
    BY DEF tables
<1>2. WalkOK' /\ PromisesOK' /\ FoldersOK' /\ SelectionOK'
    BY <1>1 DEF FoldersInv, WalkOK, PromisesOK, FoldersOK, SelectionOK
<1>3. ASSUME NEW a \in Owners, NEW n \in BoxKeys PROVE SyncedHolds(a, n)'
  <2>1. SyncedHolds(a, n)
      BY DEF FoldersInv, AllSynced
  <2>2. /\ InFolder(Scoped(a, n))' = InFolder(Scoped(a, n)) /\ Cursor(Scoped(a, n))' = Cursor(Scoped(a, n))
        /\ RowsOf(a, n, Owed(a, n))' = RowsOf(a, n, Owed(a, n))
      BY <1>1 DEF InFolder, Cursor, RowsOf, Owed
  <2>3. tides[a] \in Nat /\ tides'[a] \in Nat /\ tides[a] <= tides'[a]
      BY DEF FoldersInv, ServersOK
  <2>4. ASSUME promised[a][n] # {}, NEW e \in MailIn(a, n)', stamps'[a][e] <= Cursor(Scoped(a, n))
        PROVE  e \in promised[a][n]
    <3>1. Cursor(Scoped(a, n)) \in 1 .. tides[a]
        BY <2>1, <2>4 DEF SyncedHolds
    <3>2. stamps'[a][e] \in Nat
        BY <2>4 DEF ServersOK, MailIn
    <3>3. e \in MailIn(a, n) /\ stamps'[a][e] = stamps[a][e]
        BY <2>3, <2>4, <3>1, <3>2
    <3> QED
        BY <2>1, <2>4, <3>3 DEF SyncedHolds
  <2>5. CASE promised[a][n] # {}
      BY <1>1, <2>1, <2>2, <2>3, <2>4, <2>5 DEF SyncedHolds
  <2>6. CASE promised[a][n] = {}
      BY <1>1, <2>1, <2>2, <2>6 DEF SyncedHolds
  <2> QED
      BY <2>5, <2>6
<1> QED
    BY <1>2, <1>3 DEF FoldersInv, AllSynced

LEMMA MailMoves ==
    ASSUME FoldersInv, NEW a \in Owners, NEW e \in Items,
           NEW n \in BoxKeys \cup {"unborn", "destroyed"}, Becomes(a, e, n)
    PROVE  FoldersInv'
<1>1. /\ abroad' = [abroad EXCEPT ![a][e] = n] /\ tides' = [tides EXCEPT ![a] = @ + 1]
      /\ stamps' = [stamps EXCEPT ![a][e] = tides[a] + 1]
      /\ UNCHANGED <<tables, walk, selection>>
    BY DEF Becomes
<1>2. /\ \A b \in Owners : tides'[b] = IF b = a THEN tides[b] + 1 ELSE tides[b]
      /\ \A b \in Owners, f \in Items : ~(b = a /\ f = e) =>
             stamps'[b][f] = stamps[b][f] /\ abroad'[b][f] = abroad[b][f]
      /\ stamps'[a][e] = tides[a] + 1
    BY <1>1 DEF FoldersInv, ServersOK
<1>3. ServersOK'
  <2>1. \A b \in Owners : tides[b] \in Nat \ {0}
      BY DEF FoldersInv, ServersOK
  <2>2. /\ abroad' \in [Owners -> [Items -> BoxKeys \cup {"unborn", "destroyed"}]]
        /\ stamps' \in [Owners -> [Items -> Nat \ {0}]] /\ tides' \in [Owners -> Nat \ {0}]
      BY <1>1, <2>1 DEF FoldersInv, ServersOK
  <2>3. ASSUME NEW b \in Owners, NEW f \in Items PROVE stamps'[b][f] <= tides'[b]
    <3>1. stamps[b][f] \in Nat /\ tides[b] \in Nat /\ stamps[b][f] <= tides[b]
        BY DEF FoldersInv, ServersOK
    <3> QED
        BY <1>2, <3>1
  <2> QED
      BY <2>2, <2>3 DEF ServersOK
<1>4. \A b \in Owners : tides[b] \in Nat
    BY DEF FoldersInv, ServersOK
<1>5. ASSUME NEW b \in Owners, NEW m \in BoxKeys, NEW f \in MailIn(b, m)'
      PROVE  tides[b] < stamps'[b][f] \/ (f \in MailIn(b, m) /\ stamps'[b][f] = stamps[b][f])
    BY <1>2, <1>4, <1>5 DEF MailIn
<1> QED
    BY <1>1, <1>2, <1>3, <1>4, <1>5, ServersKeep

LEMMA MailboxRenameKeeps ==
    ASSUME FoldersInv, NEW a \in Owners, NEW n \in BoxKeys, NEW m \in BoxKeys, RenameMailbox(a, n, m)
    PROVE  FoldersInv'
<1>1. /\ promised[a][m] = {}
      /\ abroad' = [abroad EXCEPT ![a] = [e \in Items |-> IF @[e] = n THEN m ELSE @[e]]]
      /\ UNCHANGED <<stamps, tides, tables, walk, selection>>
    BY DEF RenameMailbox
<1>2. \A b \in Owners, e \in Items :
          abroad'[b][e] = IF b = a /\ abroad[b][e] = n THEN m ELSE abroad[b][e]
    BY <1>1 DEF FoldersInv, ServersOK
<1>3. ServersOK'
    BY <1>1, <1>2 DEF FoldersInv, ServersOK
<1>4. \A b \in Owners : tides[b] <= tides'[b]
    BY <1>1 DEF FoldersInv, ServersOK
<1>5. ASSUME NEW b \in Owners, NEW x \in BoxKeys, promised[b][x] # {}, NEW e \in MailIn(b, x)'
      PROVE  e \in MailIn(b, x) /\ stamps'[b][e] = stamps[b][e]
    BY <1>1, <1>2, <1>5 DEF MailIn
<1> QED
    BY <1>1, <1>3, <1>4, <1>5, ServersKeep

(* What a sync is told of: all that it has not seen, and nothing that is   *)
(* in the mailbox is removed.                                              *)
LEMMA SyncIsTold ==
    ASSUME FoldersInv, NEW a \in Owners, NEW n \in BoxKeys
    PROVE  /\ GotBy(a, n) \subseteq TakenBy(a, n) /\ TakenBy(a, n) \subseteq Items
           /\ Cursor(Scoped(a, n)) = 0 => GotBy(a, n) = MailIn(a, n)
           /\ \A e \in MailIn(a, n) : /\ e \in TakenBy(a, n) => e \in GotBy(a, n)
                                      /\ e \notin GotBy(a, n) => e \in promised[a][n]
<1>1. PICK c : c = Cursor(Scoped(a, n))
    OBVIOUS
<1>2. SyncedHolds(a, n) /\ c \in Nat
  <2>1. SyncedHolds(a, n)
      BY DEF FoldersInv, AllSynced
  <2> QED
      BY <1>1, <2>1 DEF SyncedHolds, FoldersInv, ServersOK
<1>3. \A e \in Items : stamps[a][e] \in Nat /\ stamps[a][e] > 0
    BY DEF FoldersInv, ServersOK
<1>4. GotBy(a, n) \subseteq TakenBy(a, n) /\ TakenBy(a, n) \subseteq Items
    BY DEF GotBy, TakenBy, NewIn, RemovedFrom, ChangedSince
<1>5. c = 0 => GotBy(a, n) = MailIn(a, n)
    BY <1>1, <1>3 DEF GotBy, NewIn, ByChanges, ChangedSince, MailIn
<1>6. ASSUME NEW e \in MailIn(a, n)
      PROVE  (e \in TakenBy(a, n) => e \in GotBy(a, n)) /\ (e \notin GotBy(a, n) => e \in promised[a][n])
  <2>1. e \in Items /\ abroad[a][e] = n /\ n # "destroyed"
      BY <1>6, FoldersAssumption DEF MailIn
  <2>2. e \notin RemovedFrom(a, c)
      BY <2>1 DEF RemovedFrom
  <2>3. e \in GotBy(a, n) <=> stamps[a][e] > c
      BY <1>1, <2>1 DEF GotBy, NewIn, ChangedSince
  <2>4. e \notin GotBy(a, n) => e \in promised[a][n]
      BY <1>1, <1>2, <1>3, <2>1, <2>3, <1>6 DEF SyncedHolds
  <2> QED
      BY <1>1, <2>2, <2>4 DEF TakenBy
<1> QED
    BY <1>1, <1>4, <1>5, <1>6

(* A sync of a mailbox leaves under its id what it owes, and takes from    *)
(* the others what it was told of.                                         *)
LEMMA SyncFindsAll ==
    ASSUME FoldersInv, NEW n, SyncMailbox(n), MailIn(walk.of, n) # {}
    PROVE  LET a == walk.of
               id == Scoped(a, n)
           IN  /\ \A e : RowOf(MessageId(a, n, e), id) \in messages' <=>
                         /\ e \in MailIn(a, n)
                         /\ e \in GotBy(a, n) \/ e \in Owed(a, n)
               /\ \A r \in messages' : r.folder = id => \E e : r = RowOf(MessageId(a, n, e), id)
               /\ \A r : r.folder # id =>
                      (r \in messages' <=> r \in messages /\ r.id \notin IdsOf(a, n, TakenBy(a, n)))
<1>1. PICK a : a = walk.of
    OBVIOUS
<1>2. PICK id : id = Scoped(a, n)
    OBVIOUS
<1> DEFINE here == MailIn(a, n)
           got == GotBy(a, n)
           taken == TakenBy(a, n)
           Added(r) == \E i \in IdsOf(a, n, got) : r = RowOf(i, id)
           Kept(r) == r \in messages /\ r.id \notin IdsOf(a, n, taken)
           Pruned(r) == Cursor(id) # 0 /\ r.folder = id /\ r.id \notin IdsOf(a, n, here)
<1>3. a \in Owners /\ n \in BoxKeys
    BY <1>1 DEF SyncMailbox, FoldersInv, WalkOK
<1>4. \A r : r \in messages' <=> (Kept(r) \/ Added(r)) /\ ~Pruned(r)
    BY <1>1, <1>2 DEF SyncMailbox, GotBy, TakenBy, RowOf
<1>5. \A e, mail : MessageId(a, n, e) \in IdsOf(a, n, mail) <=> e \in mail
    BY MailIdsDiffer DEF IdsOf
<1>6. \A i, j : RowOf(i, id).id = i /\ RowOf(i, id).folder = id
    BY DEF RowOf
<1>7. \A r : Added(r) => r.folder = id
    BY <1>6
<1>8. /\ got \subseteq taken /\ (Cursor(id) = 0 => got = here)
      /\ \A e \in here : (e \in taken => e \in got) /\ (e \notin got => e \in promised[a][n])
    BY <1>2, <1>3, SyncIsTold
<1>9. SyncedHolds(a, n)
    BY <1>3 DEF FoldersInv, AllSynced
<1>10. /\ \A e : RowOf(MessageId(a, n, e), id) \in messages => e \in Owed(a, n)
       /\ \A e \in Owed(a, n) : RowOf(MessageId(a, n, e), id) \in messages
       /\ \A r \in messages : r.folder = id => \E e : r = RowOf(MessageId(a, n, e), id)
       /\ Cursor(id) = 0 => \A r \in messages : r.folder # id
  <2>1. CASE promised[a][n] = {}
    <3>1. \A r \in messages : r.folder # id
        BY <1>2, <1>9, <2>1 DEF SyncedHolds, InFolder
    <3>2. Owed(a, n) = {}
        BY <2>1 DEF Owed
    <3> QED
        BY <1>6, <3>1, <3>2
  <2>2. CASE promised[a][n] # {}
    <3>1. InFolder(id) = RowsOf(a, n, Owed(a, n)) /\ Cursor(id) # 0
        BY <1>2, <1>9, <2>2 DEF SyncedHolds
    <3>2. \A r : r \in messages /\ r.folder = id <=> \E i \in IdsOf(a, n, Owed(a, n)) : r = RowOf(i, id)
        BY <1>2, <3>1 DEF InFolder, RowsOf
    <3>3. \A e : RowOf(MessageId(a, n, e), id) \in messages <=> MessageId(a, n, e) \in IdsOf(a, n, Owed(a, n))
        BY <1>6, <3>2
    <3>4. \A i \in IdsOf(a, n, Owed(a, n)) : \E e : i = MessageId(a, n, e)
        BY DEF IdsOf
    <3> QED
        BY <1>5, <3>1, <3>2, <3>3, <3>4
  <2> QED
      BY <2>1, <2>2
<1>11. ASSUME NEW e
       PROVE  RowOf(MessageId(a, n, e), id) \in messages' <=> e \in here /\ (e \in got \/ e \in Owed(a, n))
  <2>1. PICK r : r = RowOf(MessageId(a, n, e), id)
      OBVIOUS
  <2>2. r.id = MessageId(a, n, e) /\ r.folder = id
      BY <1>6, <2>1
  <2>3. Kept(r) <=> e \in Owed(a, n) /\ e \notin taken
      BY <1>5, <1>10, <2>1, <2>2
  <2>4. Added(r) <=> e \in got
    <3>1. e \in got => Added(r)
        BY <1>5, <2>1
    <3>2. ASSUME Added(r) PROVE e \in got
      <4>1. PICK i \in IdsOf(a, n, got) : r = RowOf(i, id)
          BY <3>2
      <4>2. r.id = i
          BY <1>6, <4>1
      <4> QED
          BY <1>5, <2>2, <4>1, <4>2
    <3> QED
        BY <3>1, <3>2
  <2>5. Pruned(r) <=> Cursor(id) # 0 /\ e \notin here
      BY <1>5, <2>2
  <2>6. Cursor(id) = 0 => ~Kept(r)
      BY <1>10, <2>2
  <2> HIDE DEF here, got, taken, Kept, Added, Pruned
  <2> QED
      BY <1>4, <1>8, <2>1, <2>3, <2>4, <2>5, <2>6
<1>12. ASSUME NEW r \in messages', r.folder = id PROVE \E e : r = RowOf(MessageId(a, n, e), id)
  <2>1. Kept(r) \/ Added(r)
      BY <1>4, <1>12
  <2>2. \A i \in IdsOf(a, n, got) : \E e : i = MessageId(a, n, e)
      BY DEF IdsOf
  <2> QED
      BY <1>10, <1>12, <2>1, <2>2
<1>13. ASSUME NEW r, r.folder # id PROVE r \in messages' <=> Kept(r)
    BY <1>4, <1>7, <1>13
<1> QED
    BY <1>1, <1>2, <1>11, <1>12, <1>13

LEMMA SyncKeeps == ASSUME FoldersInv, NEW n, SyncMailbox(n) PROVE FoldersInv'
<1>1. PICK a : a = walk.of
    OBVIOUS
<1>2. PICK id : id = Scoped(a, n)
    OBVIOUS
<1>3. /\ n \in walk.left /\ walk.at = "sync" /\ a \in Owners /\ n \in BoxKeys
      /\ walk' = [walk EXCEPT !.left = @ \ {n}]
      /\ folders' = Set(folders, id, FolderOf(a, n)) /\ UNCHANGED <<abroad, stamps, tides, selection>>
    BY <1>1, <1>2 DEF SyncMailbox, FoldersInv, WalkOK, servers
<1>4. /\ DOMAIN folders' = DOMAIN folders \cup {id}
      /\ folders'[id] = FolderOf(a, n)
      /\ \A x \in DOMAIN folders : x # id => folders'[x] = folders[x]
    BY <1>3 DEF Set
<1>5. WalkOK'
  <2>1. walk'.of = walk.of /\ walk'.left \subseteq walk.left
      BY <1>3 DEF Away
  <2> QED
      BY <1>1, <1>3, <2>1 DEF FoldersInv, WalkOK
<1>6. FoldersOK'
    BY <1>2, <1>3, <1>4 DEF FoldersInv, FoldersOK
<1>7. SelectionOK'
  <2>1. id \in DOMAIN folders => folders[id] = FolderOf(a, n)
      BY <1>2, IdsAreScoped DEF FoldersInv, FoldersOK
  <2> QED
      BY <1>3, <1>4, <2>1 DEF FoldersInv, SelectionOK
<1>8. ServersOK'
    BY <1>3 DEF FoldersInv, ServersOK
<1>9. CASE MailIn(a, n) = {}
  <2>1. UNCHANGED <<messages, cursors, promised, claimed>>
      BY <1>1, <1>9 DEF SyncMailbox
  <2>2. AllSynced'
      BY <1>3, <1>4, <2>1, SyncedStays
  <2>3. PromisesOK'
      BY <2>1 DEF FoldersInv, PromisesOK
  <2> QED
      BY <1>5, <1>6, <1>7, <1>8, <2>2, <2>3 DEF FoldersInv
<1>10. CASE MailIn(a, n) # {}
  <2>1. PICK here : here = MailIn(a, n)
      OBVIOUS
  <2>2. PICK got, taken : got = GotBy(a, n) /\ taken = TakenBy(a, n)
      OBVIOUS
  <2>3. /\ cursors' = Set(cursors, id, tides[a]) /\ promised' = [promised EXCEPT ![a][n] = here]
        /\ claimed' = (claimed \ ({a} \X {n} \X got)) \cup ({a} \X (BoxKeys \ {n}) \X taken)
      BY <1>1, <1>2, <1>10, <2>1, <2>2 DEF SyncMailbox, GotBy, TakenBy
  <2>4. Cursor(id)' = tides[a] /\ \A other : other # id => Cursor(other)' = Cursor(other)
    <3>1. DOMAIN cursors' = DOMAIN cursors \cup {id} /\ cursors'[id] = tides[a]
          /\ \A x \in DOMAIN cursors : x # id => cursors'[x] = cursors[x]
        BY <2>3 DEF Set
    <3> QED
        BY <3>1 DEF Cursor
  <2>5. /\ promised'[a][n] = here
        /\ \A b \in Owners, m \in BoxKeys : ~(b = a /\ m = n) => promised'[b][m] = promised[b][m]
      BY <1>3, <2>3 DEF FoldersInv, PromisesOK
  <2>6. PromisesOK'
      BY <1>3, <2>1, <2>3 DEF FoldersInv, PromisesOK, MailIn
  <2>7. /\ \A e : <<a, n, e>> \in claimed' <=> <<a, n, e>> \in claimed /\ e \notin got
        /\ \A m, e : m \in BoxKeys /\ m # n =>
               (<<a, m, e>> \in claimed' <=> <<a, m, e>> \in claimed \/ e \in taken)
        /\ \A b, m, e : b # a => (<<b, m, e>> \in claimed' <=> <<b, m, e>> \in claimed)
      BY <2>3
  <2>8. /\ \A e : RowOf(MessageId(a, n, e), id) \in messages' <=> e \in here /\ (e \in got \/ e \in Owed(a, n))
        /\ \A r \in messages' : r.folder = id => \E e : r = RowOf(MessageId(a, n, e), id)
        /\ \A r : r.folder # id => (r \in messages' <=> r \in messages /\ r.id \notin IdsOf(a, n, taken))
      BY <1>1, <1>2, <1>10, <2>1, <2>2, SyncFindsAll
  <2>9. \A e : e \in Owed(a, n)' <=> e \in here /\ (e \in got \/ e \in Owed(a, n))
    <3>1. \A e \in here : e \notin got => e \in promised[a][n]
        BY <1>3, <2>1, <2>2, SyncIsTold
    <3> QED
        BY <2>5, <2>7, <3>1 DEF Owed, IsJmap
  <2>10. InFolder(id)' = RowsOf(a, n, Owed(a, n))'
    <3>1. \A e : RowOf(MessageId(a, n, e), id).folder = id
        BY DEF RowOf
    <3>2. \A r : r \in InFolder(id)' <=> \E e : e \in Owed(a, n)' /\ r = RowOf(MessageId(a, n, e), id)
        BY <2>8, <2>9, <3>1 DEF InFolder
    <3>3. RowsOf(a, n, Owed(a, n))' = {RowOf(i, id) : i \in IdsOf(a, n, Owed(a, n)')}
        BY <1>2 DEF RowsOf, IdsOf, MessageId, IsJmap, Scoped, ScopedId, RowOf
    <3>4. \A r : r \in RowsOf(a, n, Owed(a, n))' <=> \E e \in Owed(a, n)' : r = RowOf(MessageId(a, n, e), id)
        BY <3>3 DEF IdsOf
    <3> QED
        BY <3>2, <3>4
  <2>11. SyncedHolds(a, n)'
    <3>1. tides'[a] = tides[a] /\ tides[a] \in Nat \ {0} /\ \A e \in MailIn(a, n) : stamps[a][e] <= tides[a]
        BY <1>3 DEF FoldersInv, ServersOK, MailIn
    <3>2. MailIn(a, n)' = here
        BY <1>3, <2>1 DEF MailIn
    <3>3. promised'[a][n] # {} /\ Scoped(a, n) \in DOMAIN folders'
        BY <1>2, <1>4, <1>10, <2>1, <2>5
    <3>4. Cursor(Scoped(a, n))' \in 1 .. tides'[a]
        BY <1>2, <2>4, <3>1 DEF Scoped, ScopedId
    <3>5. InFolder(Scoped(a, n))' = RowsOf(a, n, Owed(a, n))'
        BY <1>2, <2>10 DEF Scoped, ScopedId
    <3>6. \A e \in MailIn(a, n)' : e \in promised'[a][n]
        BY <2>5, <3>2
    <3> QED
        BY <3>3, <3>4, <3>5, <3>6 DEF SyncedHolds
  <2>12. ASSUME NEW b \in Owners, NEW m \in BoxKeys, ~(b = a /\ m = n) PROVE SyncedHolds(b, m)'
    <3>1. SyncedHolds(b, m)
        BY DEF FoldersInv, AllSynced
    <3>2. PICK key : key = Scoped(b, m)
        OBVIOUS
    <3>3. key # id
        BY <1>2, <2>12, <3>2, IdsAreScoped
    <3>4. /\ promised'[b][m] = promised[b][m] /\ MailIn(b, m)' = MailIn(b, m) /\ Cursor(key)' = Cursor(key)
          /\ key \in DOMAIN folders => key \in DOMAIN folders'
        BY <1>3, <1>4, <2>4, <2>5, <2>12, <3>3 DEF MailIn
    <3>5. \A e : e \in Owed(b, m)' <=> e \in Owed(b, m) /\ ~(IsJmap(a) /\ b = a /\ e \in taken)
        BY <2>7, <2>12, <3>4 DEF Owed, IsJmap
    <3>6. \A e : MessageId(b, m, e) \in IdsOf(a, n, taken) <=> IsJmap(a) /\ b = a /\ e \in taken
      <4>1. \A e : IsJmap(a) => MessageId(a, m, e) = MessageId(a, n, e)
          BY DEF MessageId
      <4>2. \A e : MessageId(b, m, e) \in IdsOf(a, n, taken)
                       <=> \E f \in taken : MessageId(b, m, e) = MessageId(a, n, f)
          BY DEF IdsOf
      <4>3. \A e, f : MessageId(b, m, e) = MessageId(a, n, f) => b = a /\ e = f /\ (IsJmap(b) \/ m = n)
          BY MailIdsDiffer
      <4> QED
          BY <2>12, <4>1, <4>2, <4>3
    <3>7. \A r : r \in InFolder(key)' <=> r \in InFolder(key) /\ r.id \notin IdsOf(a, n, taken)
        BY <2>8, <3>3 DEF InFolder
    <3>8. promised[b][m] # {} => InFolder(key)' = RowsOf(b, m, Owed(b, m))'
      <4> SUFFICES ASSUME promised[b][m] # {} PROVE InFolder(key)' = RowsOf(b, m, Owed(b, m))'
          OBVIOUS
      <4>1. InFolder(key) = RowsOf(b, m, Owed(b, m))
          BY <3>1, <3>2 DEF SyncedHolds
      <4>2. \A r : r \in InFolder(key) <=> \E e \in Owed(b, m) : r = RowOf(MessageId(b, m, e), key)
          BY <3>2, <4>1 DEF RowsOf, IdsOf
      <4>3. \A i : RowOf(i, key).id = i
          BY DEF RowOf
      <4>4. \A r : r \in InFolder(key)' <=> \E e \in Owed(b, m)' : r = RowOf(MessageId(b, m, e), key)
        <5>1. ASSUME NEW r, r \in InFolder(key)' PROVE \E e \in Owed(b, m)' : r = RowOf(MessageId(b, m, e), key)
          <6>1. PICK e \in Owed(b, m) : r = RowOf(MessageId(b, m, e), key)
              BY <3>7, <4>2, <5>1
          <6>2. r.id = MessageId(b, m, e) /\ r.id \notin IdsOf(a, n, taken)
              BY <3>7, <4>3, <5>1, <6>1
          <6> QED
              BY <3>5, <3>6, <6>1, <6>2
        <5>2. ASSUME NEW r, NEW e \in Owed(b, m)', r = RowOf(MessageId(b, m, e), key) PROVE r \in InFolder(key)'
          <6>1. e \in Owed(b, m) /\ MessageId(b, m, e) \notin IdsOf(a, n, taken)
              BY <3>5, <3>6, <5>2
          <6>2. r.id = MessageId(b, m, e)
              BY <4>3, <5>2
          <6> QED
              BY <3>7, <4>2, <5>2, <6>1, <6>2
        <5> QED
            BY <5>1, <5>2
      <4>5. RowsOf(b, m, Owed(b, m))' = {RowOf(i, key) : i \in IdsOf(b, m, Owed(b, m)')}
          BY <3>2 DEF RowsOf, IdsOf, MessageId, IsJmap, Scoped, ScopedId, RowOf
      <4>6. \A r : r \in RowsOf(b, m, Owed(b, m))' <=> \E e \in Owed(b, m)' : r = RowOf(MessageId(b, m, e), key)
          BY <4>5 DEF IdsOf
      <4> QED
          BY <4>4, <4>6
    <3>9. promised[b][m] = {} => InFolder(key)' = {}
        BY <3>1, <3>2, <3>7 DEF SyncedHolds
    <3>10. key = Scoped(b, m)'
        BY <3>2 DEF Scoped, ScopedId
    <3>11. CASE promised[b][m] = {}
        BY <3>1, <3>2, <3>4, <3>9, <3>10, <3>11 DEF SyncedHolds
    <3>12. CASE promised[b][m] # {}
        BY <1>3, <3>1, <3>2, <3>4, <3>8, <3>10, <3>12 DEF SyncedHolds
    <3> QED
        BY <3>11, <3>12
  <2> QED
      BY <1>5, <1>6, <1>7, <1>8, <2>6, <2>11, <2>12 DEF FoldersInv, AllSynced
<1> QED
    BY <1>9, <1>10

LEMMA FoldersStep == FoldersInv /\ [FoldersNext]_folderVars => FoldersInv'
<1> SUFFICES ASSUME FoldersInv, [FoldersNext]_folderVars PROVE FoldersInv'
    OBVIOUS
<1> USE DEF servers, tables
<1>1. ASSUME UNCHANGED <<servers, tables, selection>>, WalkOK'
      PROVE  FoldersInv'
  <2>1. AllSynced'
      BY <1>1, SyncedStays
  <2> QED
      BY <1>1, <2>1 DEF FoldersInv, ServersOK, PromisesOK, FoldersOK, SelectionOK
<1>2. CASE UNCHANGED folderVars
    BY <1>1, <1>2 DEF folderVars, FoldersInv, WalkOK
<1>3. ASSUME NEW a \in Owners, ListFolders(a) PROVE FoldersInv'
  <2>1. walk'.of = a /\ walk'.left = Mailboxes(a)
      BY <1>3 DEF ListFolders
  <2>2. WalkOK'
      BY <2>1 DEF WalkOK, Mailboxes
  <2> QED
      BY <1>1, <1>3, <2>2 DEF ListFolders
<1>4. ASSUME NEW a \in Owners, FoldersList(a) PROVE FoldersInv'
  <2>1. UNCHANGED <<servers, tables, walk>>
      BY <1>4 DEF FoldersList
  <2>2. SelectionOK'
    <3>1. PICK inboxes : inboxes = ByAccount(a) \cap ByRole("inbox")
        OBVIOUS
    <3>2. selection' = IF selection = <<>> /\ inboxes # {} THEN CHOOSE id \in inboxes : TRUE ELSE selection
        BY <1>4, <3>1 DEF FoldersList, AutoSelect
    <3>3. \A id \in inboxes : id \in DOMAIN folders /\ folders[id].role = "inbox"
        BY <3>1 DEF ByAccount, ByRole
    <3>4. inboxes # {} => (CHOOSE id \in inboxes : TRUE) \in inboxes
        OBVIOUS
    <3> QED
        BY <2>1, <3>2, <3>3, <3>4 DEF FoldersInv, SelectionOK
  <2>3. AllSynced'
      BY <2>1, SyncedStays
  <2> QED
      BY <2>1, <2>2, <2>3 DEF FoldersInv, ServersOK, WalkOK, PromisesOK, FoldersOK
<1>5. CASE PassEnds
  <2>1. WalkOK'
      BY <1>5 DEF PassEnds, Away, WalkOK
  <2> QED
      BY <1>1, <1>5, <2>1 DEF PassEnds
<1>6. ASSUME NEW a \in Owners, Servers(a) PROVE FoldersInv'
  <2>1. ASSUME NEW e \in Items, MailIsGone(a, e) PROVE FoldersInv'
      BY <2>1, MailMoves DEF MailIsGone
  <2>2. ASSUME NEW e \in Items, NEW n \in BoxKeys, MailArrives(a, e, n) \/ MailChanges(a, e, n)
        PROVE  FoldersInv'
      BY <2>2, MailMoves DEF MailArrives, MailChanges
  <2>3. ASSUME NEW n \in BoxKeys, NEW m \in BoxKeys, RenameMailbox(a, n, m) PROVE FoldersInv'
      BY <2>3, MailboxRenameKeeps
  <2> QED
      BY <1>6, <2>1, <2>2, <2>3 DEF Servers
<1> QED
    BY <1>2, <1>3, <1>4, <1>5, <1>6, SyncKeeps DEF FoldersNext

(* Folders that two accounts name alike stay apart, in the table, in the   *)
(* sidebar and in the unified inbox (FolderId::scoped), though the syncs   *)
(* of a JMAP account take from each other what has changed.                *)
THEOREM FoldersAreApart == FoldersSpec => []FoldersStayApart
<1>1. FoldersInv => FoldersStayApart
  <2> SUFFICES ASSUME FoldersInv PROVE FoldersStayApart
      OBVIOUS
  <2>1. \A id \in DOMAIN folders : \A a, n : id = Scoped(a, n) =>
            a \in Owners /\ n \in BoxKeys /\ folders[id] = FolderOf(a, n)
      BY IdsAreScoped DEF FoldersInv, FoldersOK
  <2>2. \A a \in Owners, n \in BoxKeys : promised[a][n] # {} =>
            Scoped(a, n) \in DOMAIN folders /\ InFolder(Scoped(a, n)) = RowsOf(a, n, Owed(a, n))
      BY DEF FoldersInv, AllSynced, SyncedHolds
  <2>3. \A a \in Owners, n \in BoxKeys : FolderOf(a, n).owner = a /\ FolderOf(a, n).role = Roles[n]
      BY DEF FolderOf
  <2>4. ASSUME NEW a \in Owners, NEW n \in BoxKeys, promised[a][n] # {}
        PROVE  {m.id : m \in InFolder(Scoped(a, n))} = IdsOf(a, n, Owed(a, n))
    <3>1. InFolder(Scoped(a, n)) = {RowOf(i, Scoped(a, n)) : i \in IdsOf(a, n, Owed(a, n))}
        BY <2>2, <2>4 DEF RowsOf
    <3>2. \A i : RowOf(i, Scoped(a, n)).id = i
        BY DEF RowOf
    <3> QED
        BY <3>1, <3>2
  <2>5. ListingsAreTheirOwn
    <3> SUFFICES ASSUME NEW a \in Owners, NEW n \in BoxKeys, promised[a][n] # {}
                 PROVE  IdsListed({i \in ByAccount(a) : i[2] = n}) = IdsOf(a, n, Owed(a, n))
        BY DEF ListingsAreTheirOwn
    <3>1. PICK id : id = Scoped(a, n)
        OBVIOUS
    <3>2. \A i : i \in ByAccount(a) /\ i[2] = n <=> i = id
      <4>1. ASSUME NEW i \in DOMAIN folders, folders[i].owner = a, i[2] = n PROVE i = id
        <5>1. PICK b \in Owners, m \in BoxKeys : i = Scoped(b, m) /\ folders[i] = FolderOf(b, m)
            BY DEF FoldersInv, FoldersOK
        <5>2. i[2] = m
            BY <5>1 DEF Scoped, ScopedId
        <5> QED
            BY <2>3, <3>1, <4>1, <5>1, <5>2
      <4>2. id \in DOMAIN folders /\ folders[id].owner = a /\ id[2] = n
          BY <2>1, <2>2, <2>3, <3>1 DEF Scoped, ScopedId
      <4> QED
          BY <4>1, <4>2 DEF ByAccount
    <3>3. {i \in ByAccount(a) : i[2] = n} = {id}
        BY <3>2
    <3>4. IdsListed({id}) = {m.id : m \in InFolder(id)}
        BY DEF IdsListed
    <3> QED
        BY <2>4, <3>1, <3>3, <3>4
  <2>6. UnifiedIsComplete
    <3> SUFFICES ASSUME NEW a \in Owners, NEW n \in BoxKeys, promised[a][n] # {}, Roles[n] = "inbox"
                 PROVE  {m.id : m \in {x \in Unified : folders[x.folder].owner = a}} = IdsOf(a, n, Owed(a, n))
        BY DEF UnifiedIsComplete
    <3>1. PICK id : id = Scoped(a, n)
        OBVIOUS
    <3>2. \A i \in ByRole("inbox") : folders[i].owner = a => i = id
      <4> SUFFICES ASSUME NEW i \in ByRole("inbox"), folders[i].owner = a PROVE i = id
          OBVIOUS
      <4>1. PICK b \in Owners, m \in BoxKeys : i = Scoped(b, m) /\ folders[i] = FolderOf(b, m)
          BY DEF FoldersInv, FoldersOK, ByRole
      <4>2. b = a /\ Roles[m] = "inbox"
          BY <2>3, <4>1 DEF ByRole
      <4> QED
          BY <3>1, <4>1, <4>2, FoldersAssumption
    <3>3. id \in ByRole("inbox") /\ folders[id].owner = a
        BY <2>1, <2>2, <2>3, <3>1 DEF ByRole
    <3>4. {m \in Unified : folders[m.folder].owner = a} = InFolder(id)
        BY <3>2, <3>3 DEF Unified, InFolder
    <3> QED
        BY <2>4, <3>1, <3>4
  <2>7. selection # <<>> => \E a \in Owners : selection \in ByAccount(a) \cap ByRole("inbox")
      BY <2>3 DEF FoldersInv, FoldersOK, SelectionOK, ByAccount, ByRole
  <2> QED
      BY <2>5, <2>6, <2>7 DEF FoldersStayApart
<1> QED
    BY <1>1, FoldersInitially, FoldersStep, PTL DEF FoldersSpec
-----------------------------------------------------------------------------
(* Threading.  A message that load-older has touched a thread for and not  *)
(* yet attached to it is pending; until nothing is removed or cut short,   *)
(* and the two writers do not overlap, a row that has a thread keeps it,   *)
(* so that what was resolved stays right until it is written.              *)
Working == chunk.at = "resolve"
Attaching == page.at \in {"resolve", "touch", "attach"}

RowsOK ==
    /\ DOMAIN stored \subseteq DOMAIN Post /\ RowsHaveThreads
    /\ DOMAIN threads \subseteq Nat \ {0} /\ lastId \in Nat
    /\ \A t \in DOMAIN threads : threads[t].count \in Nat
ChunkOK ==
    /\ chunk.at \in {"idle", "resolve"}
    /\ ~Working => DOMAIN chosen = {} /\ DOMAIN known = {}
    /\ Working =>
          /\ chunk.headers \in Chunks /\ chunk.next \in 1 .. Len(chunk.headers) + 1
          /\ DOMAIN chosen = {chunk.headers[i] : i \in 1 .. chunk.next - 1}
          /\ \A m \in DOMAIN chosen : chosen[m] \in Nat \ {0}
          /\ DOMAIN known \subseteq ToSet(chunk.headers)
          /\ \A m \in DOMAIN known : known[m] \in DOMAIN threads \cup {0}
          /\ \A m \in DOMAIN chosen : Settled(m) => chosen[m] = known[m]
PageOK ==
    /\ page.at \in {"idle", "find", "insert"} \/ Attaching
    /\ page.at # "idle" => page.headers \in Seq(DOMAIN Post) /\ page.headers # <<>>
    /\ page.at \in {"touch", "attach"} => page.thread \in DOMAIN threads

Pending(t) == IF page.at = "attach" /\ page.thread = t THEN {AtHand} ELSE {}
CountIncludes(t) ==
    /\ threads[t].count >= Cardinality(Members(t) \cup Pending(t))
    /\ untroubled => threads[t].count = Cardinality(Members(t) \cup Pending(t))
CountsInclude == \A t \in DOMAIN threads : CountIncludes(t)

OneWrites ==
    /\ Working => page.at = "idle"
    /\ Working => \A m \in ToSet(chunk.headers) :
          (m \in DOMAIN known <=> m \in DOMAIN stored) /\ (m \in DOMAIN known => known[m] = stored[m])
    /\ Attaching => AtHand \in DOMAIN stored /\ stored[AtHand] = 0
ChoicesFollow ==
    Working => \A m \in DOMAIN chosen, p \in DOMAIN Post :
        Answers(m, p) /\ ~Settled(m) =>
            /\ InCache(p) # 0 => chosen[m] = InCache(p)
            /\ Precedes(p, m) => chosen[m] = chosen[p]
PageFollows ==
    page.at \in {"touch", "attach"} => \A p \in DOMAIN Post :
        Answers(AtHand, p) /\ InCache(p) # 0 => page.thread = InCache(p)
RepliesAreIn ==
    \A m \in followers, p \in DOMAIN Post : Answers(m, p) => InCache(m) # 0 /\ InCache(m) = InCache(p)
Undisturbed == OneWrites /\ ChoicesFollow /\ PageFollows /\ RepliesAreIn

ThreadsInv == RowsOK /\ ChunkOK /\ PageOK /\ CountsInclude /\ (untroubled => Undisturbed)
-----------------------------------------------------------------------------
(* The resolution chain.                                                   *)
LEMMA FirstReferred ==
    ASSUME NEW m \in DOMAIN Post, NEW p, Answers(m, p)
    PROVE  1 \in DOMAIN Referred(m) /\ Referred(m)[1] = p
<1>1. PICK refs \in Seq(STRING) : refs = Post[m].refs
    BY ThreadingAssumption
<1>2. Reverse(refs) = [i \in 1 .. Len(refs) |-> refs[(Len(refs) - i) + 1]]
    BY DEF Reverse
<1>3. Reverse(refs) \in Seq(STRING)
    BY <1>2
<1>4. PICK back \in Seq(STRING) : back = Reverse(refs)
    BY <1>3
<1>5. Post[m].reply = <<p>> /\ p \in STRING
  <2>1. PICK reply \in Seq(STRING) : reply = Post[m].reply
      BY ThreadingAssumption
  <2>2. reply = <<p>>
      BY <2>1 DEF Answers
  <2>3. Len(reply) = 1 /\ reply[1] = p
      BY <2>2
  <2>4. \A i \in 1 .. Len(reply) : reply[i] \in STRING
      BY <2>1
  <2> QED
      BY <2>1, <2>2, <2>3, <2>4
<1>6. Referred(m) = <<p>> \o back
    BY <1>1, <1>4, <1>5 DEF Referred
<1> QED
    BY <1>4, <1>5, <1>6

LEMMA ResolvedFollows ==
    ASSUME NEW m \in DOMAIN Post, NEW p, Answers(m, p), NEW thread, thread[p] # 0,
           NEW t \in Resolved(m, thread)
    PROVE  t = thread[p]
<1> DEFINE hits == {i \in DOMAIN Referred(m) : thread[Referred(m)[i]] # 0}
<1>1. 1 \in hits /\ Referred(m)[1] = p
    BY FirstReferred
<1>2. \A i \in hits : i \in Nat /\ 1 <= i
  <2>1. DOMAIN Referred(m) = 1 .. Len(Referred(m))
    <3>1. PICK refs \in Seq(STRING) : refs = Post[m].refs
        BY ThreadingAssumption
    <3>2. Reverse(refs) = [i \in 1 .. Len(refs) |-> refs[(Len(refs) - i) + 1]]
        BY DEF Reverse
    <3>3. Reverse(refs) \in Seq(STRING)
        BY <3>2
    <3>4. PICK back \in Seq(STRING) : back = Reverse(refs)
        BY <3>3
    <3>5. Referred(m) = Post[m].reply \o back /\ Post[m].reply \in Seq(STRING)
        BY <3>1, <3>4, ThreadingAssumption DEF Referred
    <3>6. Referred(m) \in Seq(STRING)
        BY <3>5
    <3> QED
        BY <3>6
  <2> QED
      BY <2>1
<1>3. {j \in hits : \A k \in hits : j <= k} = {1}
    BY <1>1, <1>2
<1>4. Resolved(m, thread) = {thread[Referred(m)[i]] : i \in {j \in hits : \A k \in hits : j <= k}}
    BY <1>1 DEF Resolved
<1> HIDE DEF hits
<1> QED
    BY <1>1, <1>3, <1>4

LEMMA ResolvedIsThread ==
    ASSUME RowsOK, NEW m, NEW thread, \A x \in ToSet(Referred(m)) : thread[x] \in Nat,
           NEW t \in Resolved(m, thread)
    PROVE  t \in Nat \ {0}
<1> DEFINE hits == {i \in DOMAIN Referred(m) : thread[Referred(m)[i]] # 0}
<1>1. \A i \in hits : thread[Referred(m)[i]] \in Nat \ {0}
    BY DEF ToSet
<1>2. BySubject(Post[m].subject) \subseteq Nat \ {0} /\ lastId + 1 \in Nat \ {0}
    BY DEF BySubject, RowsOK
<1> QED
    BY <1>1, <1>2 DEF Resolved

LEMMA CachedAreThreads ==
    ASSUME RowsOK, NEW m
    PROVE  InCache(m) \in DOMAIN threads \cup {0} /\ InCache(m) \in Nat
BY DEF RowsOK, RowsHaveThreads, InCache

LEMMA NewIdsCount == ASSUME lastId \in Nat, NEW t \in Nat, Gives(t) PROVE lastId' \in Nat
BY DEF Gives

LEMMA RowsAreFinite == ASSUME RowsOK, NEW t PROVE IsFiniteSet(Members(t)) /\ IsFiniteSet(Pending(t))
<1>1. IsFiniteSet(Members(t))
    BY ThreadingAssumption, FS_Subset DEF RowsOK, Members
<1>2. IsFiniteSet(Pending(t))
    BY FS_EmptySet, FS_Singleton DEF Pending
<1> QED
    BY <1>1, <1>2

(* The rows of a thread become fewer, or stay the same.                    *)
LEMMA CountStaysRight ==
    ASSUME RowsOK, NEW t \in DOMAIN threads, CountIncludes(t), threads'[t].count = threads[t].count,
           (Members(t) \cup Pending(t))' \subseteq Members(t) \cup Pending(t),
           untroubled' => untroubled /\ (Members(t) \cup Pending(t))' = Members(t) \cup Pending(t)
    PROVE  CountIncludes(t)'
<1> DEFINE old == Members(t) \cup Pending(t)
           new == (Members(t) \cup Pending(t))'
<1>1. IsFiniteSet(old)
    BY RowsAreFinite, FS_Union
<1>2. Cardinality(old) \in Nat /\ Cardinality(new) \in Nat /\ Cardinality(new) <= Cardinality(old)
    BY <1>1, FS_Subset, FS_CardinalityType
<1>3. threads[t].count \in Nat /\ threads[t].count >= Cardinality(old) /\ (untroubled => threads[t].count = Cardinality(old))
    BY DEF CountIncludes, RowsOK
<1>4. threads'[t].count >= Cardinality(new)
  <2> HIDE DEF old, new
  <2> QED
      BY <1>2, <1>3
<1>5. untroubled' => threads'[t].count = Cardinality(new)
    BY <1>3
<1> QED
    BY <1>4, <1>5 DEF CountIncludes

(* A row without a thread is of no thread.                                 *)
LEMMA RowWithoutThread ==
    ASSUME RowsOK, NEW m \in DOMAIN Post, m \notin DOMAIN stored, stored' = Put(stored, m, 0),
           UNCHANGED <<threads, lastId>>
    PROVE  /\ RowsOK' /\ \A x : InCache(x)' = InCache(x)
           /\ \A t \in DOMAIN threads : Members(t)' = Members(t)
           /\ DOMAIN stored' = DOMAIN stored \cup {m} /\ stored'[m] = 0
           /\ \A x \in DOMAIN stored : stored'[x] = stored[x]
<1>1. /\ DOMAIN stored' = DOMAIN stored \cup {m} /\ stored'[m] = 0
      /\ \A x \in DOMAIN stored : stored'[x] = stored[x]
    BY DEF Put
<1>2. \A x : InCache(x)' = InCache(x)
    BY <1>1 DEF InCache
<1>3. \A t \in DOMAIN threads : Members(t)' = Members(t)
  <2>1. 0 \notin DOMAIN threads
      BY DEF RowsOK
  <2> QED
      BY <1>1, <2>1 DEF Members
<1>4. RowsOK'
    BY <1>1 DEF RowsOK, RowsHaveThreads
<1> QED
    BY <1>1, <1>2, <1>3, <1>4

LEMMA ThreadsInitially == ThreadsInit => ThreadsInv
<1> SUFFICES ASSUME ThreadsInit PROVE ThreadsInv
    OBVIOUS
<1>1. /\ DOMAIN stored = {} /\ DOMAIN threads = {} /\ lastId = 0 /\ chunk.at = "idle"
      /\ DOMAIN known = {} /\ DOMAIN chosen = {} /\ page.at = "idle" /\ followers = {}
  <2>1. \A f : f = <<>> => DOMAIN f = {}
      OBVIOUS
  <2>2. stored = <<>> /\ threads = <<>> /\ known = <<>> /\ chosen = <<>>
      BY DEF ThreadsInit
  <2>3. lastId = 0 /\ chunk.at = "idle" /\ page.at = "idle" /\ followers = {}
      BY DEF ThreadsInit, NoChunk, ChunkAt, NoPage, PageAt
  <2> QED
      BY <2>1, <2>2, <2>3
<1>2. RowsOK /\ ChunkOK /\ PageOK /\ CountsInclude
    BY <1>1 DEF RowsOK, RowsHaveThreads, ChunkOK, Working, PageOK, CountsInclude
<1>3. Undisturbed
    BY <1>1 DEF Undisturbed, OneWrites, Working, Attaching, ChoicesFollow, PageFollows, RepliesAreIn
<1> QED
    BY <1>2, <1>3 DEF ThreadsInv
-----------------------------------------------------------------------------
(* What several steps leave as it was.                                     *)
LEMMA CountsKept ==
    ASSUME RowsOK, CountsInclude, threads' = threads, untroubled' => untroubled,
           \A t \in DOMAIN threads : Members(t)' \cup Pending(t)' \subseteq Members(t) \cup Pending(t),
           untroubled' => \A t \in DOMAIN threads : Members(t)' \cup Pending(t)' = Members(t) \cup Pending(t)
    PROVE  CountsInclude'
<1> SUFFICES ASSUME NEW t \in DOMAIN threads PROVE CountIncludes(t)'
    BY DEF CountsInclude
<1>1. CountIncludes(t) /\ threads'[t].count = threads[t].count
    BY DEF CountsInclude
<1>2. (Members(t) \cup Pending(t))' = Members(t)' \cup Pending(t)'
    OBVIOUS
<1> QED
    BY <1>1, <1>2, CountStaysRight

LEMMA ChunkKept ==
    ASSUME ChunkOK, UNCHANGED <<chunk, known, chosen>>, DOMAIN threads \subseteq DOMAIN threads'
    PROVE  ChunkOK'
BY DEF ChunkOK, Working, Settled

LEMMA HeadOfPage ==
    ASSUME PageOK, page.at # "idle"
    PROVE  AtHand \in DOMAIN Post
<1>1. page.headers \in Seq(DOMAIN Post) /\ page.headers # <<>>
    BY DEF PageOK
<1> QED
    BY <1>1 DEF AtHand

LEMMA TailGoesOn ==
    ASSUME NEW S, NEW hs \in Seq(S), hs # <<>>, Len(hs) # 1
    PROVE  Tail(hs) \in Seq(S) /\ Tail(hs) # <<>>
<1>1. Len(hs) \in Nat /\ Len(hs) # 0
    OBVIOUS
<1>2. Tail(hs) \in Seq(S) /\ Len(Tail(hs)) = Len(hs) - 1
    BY <1>1
<1> QED
    BY <1>1, <1>2

LEMMA PageAdvances ==
    ASSUME PageOK, page.at # "idle", Advance \/ page' = NoPage
    PROVE  PageOK' /\ page'.at \in {"idle", "find"} /\ ~Attaching' /\ \A t : Pending(t)' = {}
<1>1. PICK hs \in Seq(DOMAIN Post) : hs = page.headers /\ hs # <<>>
    BY DEF PageOK
<1>2. CASE page' = NoPage
    BY <1>2 DEF NoPage, PageAt, PageOK, Attaching, Pending
<1>3. CASE Advance /\ page' # NoPage
  <2>1. Len(hs) # 1 /\ page' = PageAt("find", Tail(hs), 0)
      BY <1>1, <1>3 DEF Advance
  <2>3. Tail(hs) \in Seq(DOMAIN Post) /\ Tail(hs) # <<>>
      BY <1>1, <2>1, TailGoesOn
  <2>5. page'.at = "find" /\ page'.headers = Tail(hs)
      BY <2>1 DEF PageAt
  <2> QED
      BY <2>3, <2>5 DEF PageOK, Attaching, Pending
<1> QED
    BY <1>2, <1>3

LEMMA PageGoesTo ==
    ASSUME NEW at, GoTo(at)
    PROVE  page'.at = at /\ page'.headers = page.headers /\ page'.thread = page.thread /\ AtHand' = AtHand
BY DEF GoTo, PageAt, AtHand

LEMMA OneWriter ==
    ASSUME ThreadsInv, untroubled, page.at # "idle"
    PROVE  ~Working
BY DEF ThreadsInv, Undisturbed, OneWrites

-----------------------------------------------------------------------------
LEMMA DeliverKeeps == ASSUME ThreadsInv, NEW hs \in Chunks, Deliver(hs) PROVE ThreadsInv'
<1>1. /\ chunk.at = "idle" /\ ~Working
      /\ chunk'.at = "resolve" /\ chunk'.headers = hs /\ chunk'.next = 1 /\ Working'
      /\ DOMAIN known' = ToSet(hs) \cap DOMAIN stored
      /\ \A m \in DOMAIN known' : known'[m] = stored[m]
      /\ DOMAIN chosen' = {} /\ (untroubled' => untroubled /\ page.at = "idle")
      /\ UNCHANGED <<stored, threads, lastId, chosen, page, followers>>
    BY DEF Deliver, ChunkAt, ThreadsInv, ChunkOK, Working
<1>2. RowsOK' /\ PageOK'
    BY <1>1 DEF ThreadsInv, RowsOK, RowsHaveThreads, PageOK, Attaching
<1>3. ChunkOK'
  <2>1. Len(hs) \in Nat /\ 1 \in 1 .. Len(hs) + 1
      BY ThreadingAssumption
  <2>2. {hs[i] : i \in 1 .. 1 - 1} = {}
      OBVIOUS
  <2>3. \A m \in DOMAIN known' : known'[m] \in DOMAIN threads' \cup {0}
      BY <1>1 DEF ThreadsInv, RowsOK, RowsHaveThreads
  <2> QED
      BY <1>1, <2>1, <2>2, <2>3 DEF ChunkOK
<1>4. CountsInclude'
  <2>1. \A t : Members(t)' = Members(t) /\ Pending(t)' = Pending(t)
      BY <1>1 DEF Members, Pending, AtHand
  <2> QED
      BY <1>1, <2>1, CountsKept DEF ThreadsInv
<1>5. ASSUME untroubled' PROVE Undisturbed'
  <2>1. OneWrites'
      BY <1>1, <1>5 DEF OneWrites, Attaching
  <2>2. ChoicesFollow' /\ PageFollows' /\ RepliesAreIn'
      BY <1>1, <1>5 DEF ThreadsInv, Undisturbed, ChoicesFollow, PageFollows, RepliesAreIn, InCache
  <2> QED
      BY <2>1, <2>2 DEF Undisturbed
<1> QED
    BY <1>2, <1>3, <1>4, <1>5 DEF ThreadsInv

LEMMA ChunkFailsKeeps == ASSUME ThreadsInv, ChunkFails PROVE ThreadsInv'
<1>1. /\ chunk'.at = "idle" /\ ~Working' /\ DOMAIN known' = {} /\ DOMAIN chosen' = {}
      /\ UNCHANGED <<stored, threads, lastId, page, followers, untroubled>>
  <2>1. \A f : f = <<>> => DOMAIN f = {}
      OBVIOUS
  <2> QED
      BY <2>1 DEF ChunkFails, NoChunk, ChunkAt, Working
<1>2. RowsOK' /\ PageOK' /\ ChunkOK'
    BY <1>1 DEF ThreadsInv, RowsOK, RowsHaveThreads, PageOK, Attaching, ChunkOK
<1>3. CountsInclude'
  <2>1. \A t : Members(t)' = Members(t) /\ Pending(t)' = Pending(t)
      BY <1>1 DEF Members, Pending, AtHand
  <2> QED
      BY <1>1, <2>1, CountsKept DEF ThreadsInv
<1>4. untroubled' => Undisturbed'
    BY <1>1 DEF ThreadsInv, Undisturbed, OneWrites, Attaching, AtHand, ChoicesFollow, PageFollows, RepliesAreIn, InCache
<1> QED
    BY <1>2, <1>3, <1>4 DEF ThreadsInv

LEMMA LoadOlderKeeps == ASSUME ThreadsInv, NEW hs \in Chunks, LoadOlder(hs) PROVE ThreadsInv'
<1>1. /\ page.at = "idle" /\ page'.at = "find" /\ page'.headers = hs
      /\ (untroubled' => untroubled /\ chunk.at = "idle")
      /\ UNCHANGED <<stored, threads, lastId, chunk, known, chosen, followers>>
    BY DEF LoadOlder, PageAt
<1>2. RowsOK' /\ PageOK' /\ ChunkOK'
  <2>1. hs \in Seq(DOMAIN Post) /\ hs # <<>>
      BY ThreadingAssumption
  <2> QED
      BY <1>1, <2>1, ChunkKept DEF ThreadsInv, RowsOK, RowsHaveThreads, PageOK
<1>3. CountsInclude'
  <2>1. \A t : Members(t)' = Members(t) /\ Pending(t)' = Pending(t)
      BY <1>1 DEF Members, Pending
  <2> QED
      BY <1>1, <2>1, CountsKept DEF ThreadsInv
<1>4. untroubled' => Undisturbed'
    BY <1>1 DEF ThreadsInv, Undisturbed, OneWrites, Working, Attaching, ChoicesFollow, PageFollows, RepliesAreIn, InCache
<1> QED
    BY <1>2, <1>3, <1>4 DEF ThreadsInv

LEMMA FindOlderKeeps == ASSUME ThreadsInv, FindOlder PROVE ThreadsInv'
<1>1. /\ page.at = "find"
      /\ UNCHANGED <<stored, threads, lastId, chunk, known, chosen, followers, untroubled>>
    BY DEF FindOlder
<1>2. PageOK' /\ ~Attaching' /\ \A t : Pending(t)' = {}
  <2>1. CASE Advance
      BY <1>1, <2>1, PageAdvances DEF ThreadsInv
  <2>2. CASE GoTo("insert")
      BY <1>1, <2>2, PageGoesTo DEF ThreadsInv, PageOK, Attaching, Pending
  <2> QED
      BY <2>1, <2>2 DEF FindOlder
<1>3. RowsOK' /\ ChunkOK'
    BY <1>1, ChunkKept DEF ThreadsInv, RowsOK, RowsHaveThreads
<1>4. CountsInclude'
  <2>1. \A t : Members(t)' = Members(t) /\ Pending(t) = {}
      BY <1>1 DEF Members, Pending
  <2> QED
      BY <1>1, <1>2, <2>1, CountsKept DEF ThreadsInv
<1>5. ASSUME untroubled' PROVE Undisturbed'
  <2>1. untroubled /\ Undisturbed /\ ~Working /\ ~Working'
      BY <1>1, <1>5, OneWriter DEF ThreadsInv, Working
  <2> QED
      BY <1>1, <1>2, <2>1 DEF Undisturbed, OneWrites, Attaching, ChoicesFollow, PageFollows, RepliesAreIn, InCache
<1> QED
    BY <1>2, <1>3, <1>4, <1>5 DEF ThreadsInv

LEMMA OlderFailsKeeps == ASSUME ThreadsInv, OlderFails PROVE ThreadsInv'
<1>1. /\ page.at # "idle"
      /\ Advance \/ page' = NoPage
      /\ UNCHANGED <<stored, threads, lastId, chunk, known, chosen, followers>> /\ ~untroubled'
    BY DEF OlderFails
<1>2. PageOK' /\ \A t : Pending(t)' = {}
    BY <1>1, PageAdvances DEF ThreadsInv
<1>3. RowsOK' /\ ChunkOK'
    BY <1>1, ChunkKept DEF ThreadsInv, RowsOK, RowsHaveThreads
<1>4. CountsInclude'
  <2>1. \A t : Members(t)' = Members(t)
      BY <1>1 DEF Members
  <2> QED
      BY <1>1, <1>2, <2>1, CountsKept DEF ThreadsInv
<1> QED
    BY <1>1, <1>2, <1>3, <1>4 DEF ThreadsInv

LEMMA PruneRowKeeps == ASSUME ThreadsInv, NEW m \in DOMAIN Post, PruneRow(m) PROVE ThreadsInv'
<1>1. /\ DOMAIN stored' = DOMAIN stored \ {m} /\ \A x \in DOMAIN stored' : stored'[x] = stored[x]
      /\ UNCHANGED <<threads, lastId, chunk, known, chosen, page, followers>> /\ ~untroubled'
    BY DEF PruneRow
<1>2. RowsOK' /\ PageOK' /\ ChunkOK'
    BY <1>1, ChunkKept DEF ThreadsInv, RowsOK, RowsHaveThreads, PageOK, Attaching
<1>3. CountsInclude'
  <2>1. \A t : Members(t)' \subseteq Members(t) /\ Pending(t)' = Pending(t)
      BY <1>1 DEF Members, Pending, AtHand
  <2> QED
      BY <1>1, <2>1, CountsKept DEF ThreadsInv
<1> QED
    BY <1>1, <1>2, <1>3 DEF ThreadsInv

LEMMA PullHistoryKeeps == ASSUME ThreadsInv, NEW m \in DOMAIN Post, PullHistory(m) PROVE ThreadsInv'
<1>1. /\ m \notin DOMAIN stored /\ chunk.at = "idle" /\ stored' = Put(stored, m, 0)
      /\ UNCHANGED <<threads, lastId, chunk, known, chosen, page, followers, untroubled>>
    BY DEF PullHistory
<1>2. /\ RowsOK' /\ \A x : InCache(x)' = InCache(x)
      /\ \A t \in DOMAIN threads : Members(t)' = Members(t)
      /\ DOMAIN stored' = DOMAIN stored \cup {m} /\ stored'[m] = 0
      /\ \A x \in DOMAIN stored : stored'[x] = stored[x]
    BY <1>1, RowWithoutThread DEF ThreadsInv
<1>3. PageOK' /\ ChunkOK'
    BY <1>1, ChunkKept DEF ThreadsInv, PageOK, Attaching
<1>4. CountsInclude'
  <2>1. \A t \in DOMAIN threads : Members(t)' = Members(t) /\ Pending(t)' = Pending(t)
      BY <1>1, <1>2 DEF Pending, AtHand
  <2> QED
      BY <1>1, <2>1, CountsKept DEF ThreadsInv
<1>5. ASSUME untroubled' PROVE Undisturbed'
  <2>1. Undisturbed /\ ~Working /\ ~Working'
      BY <1>1, <1>5 DEF ThreadsInv, Working
  <2>2. OneWrites'
      BY <1>1, <1>2, <2>1 DEF Undisturbed, OneWrites, Attaching, AtHand
  <2>3. ChoicesFollow' /\ PageFollows' /\ RepliesAreIn'
      BY <1>1, <1>2, <2>1 DEF Undisturbed, ChoicesFollow, PageFollows, RepliesAreIn, AtHand
  <2> QED
      BY <2>2, <2>3 DEF Undisturbed
<1> QED
    BY <1>2, <1>3, <1>4, <1>5 DEF ThreadsInv

LEMMA InsertOlderKeeps == ASSUME ThreadsInv, InsertOlder PROVE ThreadsInv'
<1>1. /\ page.at = "insert" /\ AtHand \in DOMAIN Post
      /\ UNCHANGED <<threads, lastId, chunk, known, chosen, followers, untroubled>>
      /\ \A t : Pending(t) = {}
    BY HeadOfPage DEF ThreadsInv, InsertOlder, Pending
<1>2. ChunkOK'
    BY <1>1, ChunkKept DEF ThreadsInv
<1>3. CASE AtHand \in DOMAIN stored
  <2>1. page' = NoPage /\ UNCHANGED stored
      BY <1>3 DEF InsertOlder
  <2>2. PageOK' /\ ~Attaching' /\ (\A t : Pending(t)' = {}) /\ page'.at \in {"idle", "find"}
      BY <1>1, <2>1, PageAdvances DEF ThreadsInv
  <2>3. RowsOK'
      BY <1>1, <2>1 DEF ThreadsInv, RowsOK, RowsHaveThreads
  <2>4. CountsInclude'
    <3>1. \A t : Members(t)' = Members(t)
        BY <2>1 DEF Members
    <3> QED
        BY <1>1, <2>2, <3>1, CountsKept DEF ThreadsInv
  <2>5. ASSUME untroubled' PROVE Undisturbed'
    <3>1. Undisturbed /\ ~Working /\ ~Working'
        BY <1>1, <2>5, OneWriter DEF ThreadsInv, Working
    <3> QED
        BY <1>1, <2>1, <2>2, <3>1
        DEF Undisturbed, OneWrites, ChoicesFollow, PageFollows, RepliesAreIn, InCache
  <2> QED
      BY <1>2, <2>2, <2>3, <2>4, <2>5 DEF ThreadsInv
<1>4. CASE AtHand \notin DOMAIN stored
  <2>1. /\ stored' = Put(stored, AtHand, 0) /\ page'.at = "resolve"
        /\ page'.headers = page.headers /\ AtHand' = AtHand
      BY <1>4, PageGoesTo DEF InsertOlder
  <2>2. /\ RowsOK' /\ \A x : InCache(x)' = InCache(x)
        /\ \A t \in DOMAIN threads : Members(t)' = Members(t)
        /\ AtHand' \in DOMAIN stored' /\ stored'[AtHand'] = 0
      BY <1>1, <1>4, <2>1, RowWithoutThread DEF ThreadsInv
  <2>3. PageOK'
      BY <1>1, <2>1 DEF ThreadsInv, PageOK, Attaching
  <2>4. CountsInclude'
    <3>1. \A t : Pending(t)' = {}
        BY <2>1 DEF Pending
    <3> QED
        BY <1>1, <2>2, <3>1, CountsKept DEF ThreadsInv
  <2>5. ASSUME untroubled' PROVE Undisturbed'
    <3>1. Undisturbed /\ ~Working /\ ~Working'
        BY <1>1, <2>5, OneWriter DEF ThreadsInv, Working
    <3>2. OneWrites'
        BY <2>2, <3>1 DEF OneWrites
    <3>3. ChoicesFollow' /\ PageFollows' /\ RepliesAreIn'
        BY <1>1, <2>1, <2>2, <3>1 DEF Undisturbed, ChoicesFollow, PageFollows, RepliesAreIn
    <3> QED
        BY <3>2, <3>3 DEF Undisturbed
  <2> QED
      BY <1>2, <2>2, <2>3, <2>4, <2>5 DEF ThreadsInv
<1> QED
    BY <1>3, <1>4
-----------------------------------------------------------------------------
LEMMA AttachmentGives ==
    ASSUME RowsOK, NEW m \in DOMAIN Post, NEW t \in AttachmentInCache(m)
    PROVE  /\ t \in Nat \ {0}
           /\ \A p \in DOMAIN Post : Answers(m, p) /\ InCache(p) # 0 => t = InCache(p)
<1> DEFINE thread == [x \in ToSet(Referred(m)) |-> InCache(x)]
<1>1. t \in Resolved(m, thread)
    BY DEF AttachmentInCache
<1>2. \A x \in ToSet(Referred(m)) : thread[x] = InCache(x) /\ thread[x] \in Nat
    BY CachedAreThreads
<1>3. ASSUME NEW p \in DOMAIN Post, Answers(m, p), InCache(p) # 0 PROVE t = InCache(p)
  <2>1. p \in ToSet(Referred(m))
      BY <1>3, FirstReferred DEF ToSet
  <2>2. thread[p] = InCache(p)
      BY <1>2, <2>1
  <2> HIDE DEF thread
  <2> QED
      BY <1>1, <1>3, <2>2, ResolvedFollows
<1>4. t \in Nat \ {0}
  <2> HIDE DEF thread
  <2> QED
      BY <1>1, <1>2, ResolvedIsThread
<1> QED
    BY <1>3, <1>4

LEMMA ResolveOlderKeeps == ASSUME ThreadsInv, ResolveOlder PROVE ThreadsInv'
<1>1. /\ page.at = "resolve" /\ AtHand \in DOMAIN Post
      /\ UNCHANGED <<stored, chunk, known, chosen, followers, untroubled>>
      /\ \A t : Pending(t) = {}
    BY HeadOfPage DEF ThreadsInv, ResolveOlder, Pending
<1>2. PICK t \in AttachmentInCache(AtHand) :
          /\ page' = PageAt("touch", page.headers, t)
          /\ threads' = IF t \in DOMAIN threads THEN threads ELSE Put(threads, t, Minted(AtHand))
          /\ Gives(t)
    BY DEF ResolveOlder
<1>3. /\ t \in Nat \ {0}
      /\ \A p \in DOMAIN Post : Answers(AtHand, p) /\ InCache(p) # 0 => t = InCache(p)
    BY <1>1, AttachmentGives DEF ThreadsInv
<1>4. /\ page'.at = "touch" /\ page'.headers = page.headers /\ page'.thread = t
      /\ AtHand' = AtHand /\ \A u : Pending(u)' = {}
    BY <1>2 DEF PageAt, AtHand, Pending
<1>5. /\ DOMAIN threads' = DOMAIN threads \cup {t} /\ \A u \in DOMAIN threads : threads'[u] = threads[u]
      /\ t \notin DOMAIN threads => threads'[t].count = 0
    BY <1>2 DEF Put, Minted
<1>6. RowsOK'
  <2>1. lastId' \in Nat
      BY <1>2, <1>3, NewIdsCount DEF ThreadsInv, RowsOK
  <2>2. \A u \in DOMAIN threads' : threads'[u].count \in Nat
      BY <1>5 DEF ThreadsInv, RowsOK
  <2> QED
      BY <1>1, <1>3, <1>5, <2>1, <2>2 DEF ThreadsInv, RowsOK, RowsHaveThreads
<1>7. ChunkOK' /\ PageOK'
    BY <1>1, <1>4, <1>5, ChunkKept DEF ThreadsInv, PageOK, Attaching
<1>8. \A u : Members(u)' = Members(u)
    BY <1>1 DEF Members
<1>9. CountsInclude'
  <2> SUFFICES ASSUME NEW u \in DOMAIN threads' PROVE CountIncludes(u)'
      BY DEF CountsInclude
  <2>1. (Members(u) \cup Pending(u))' = Members(u)' \cup Pending(u)'
      OBVIOUS
  <2>2. CASE u \in DOMAIN threads
    <3>1. CountIncludes(u) /\ threads'[u].count = threads[u].count
        BY <1>5, <2>2 DEF ThreadsInv, CountsInclude
    <3> QED
        BY <1>1, <1>4, <1>8, <2>1, <2>2, <3>1, CountStaysRight DEF ThreadsInv
  <2>3. CASE u \notin DOMAIN threads
    <3>1. u = t /\ threads'[u].count = 0
        BY <1>5, <2>3
    <3>2. Members(u) = {}
        BY <1>3, <2>3, <3>1 DEF ThreadsInv, RowsOK, RowsHaveThreads, Members
    <3>3. Cardinality((Members(u) \cup Pending(u))') = 0
        BY <1>4, <1>8, <3>2, FS_EmptySet
    <3> QED
        BY <3>1, <3>3 DEF CountIncludes
  <2> QED
      BY <2>2, <2>3
<1>10. ASSUME untroubled' PROVE Undisturbed'
  <2>1. Undisturbed /\ ~Working /\ ~Working' /\ \A x : InCache(x)' = InCache(x)
      BY <1>1, <1>10, OneWriter DEF ThreadsInv, Working, InCache
  <2>2. OneWrites'
      BY <1>1, <1>4, <2>1 DEF Undisturbed, OneWrites, Attaching
  <2>3. PageFollows'
      BY <1>3, <1>4, <2>1 DEF PageFollows
  <2>4. ChoicesFollow' /\ RepliesAreIn'
      BY <1>1, <2>1 DEF Undisturbed, ChoicesFollow, RepliesAreIn
  <2> QED
      BY <2>2, <2>3, <2>4 DEF Undisturbed
<1> QED
    BY <1>6, <1>7, <1>9, <1>10 DEF ThreadsInv

LEMMA TouchOlderKeeps == ASSUME ThreadsInv, TouchOlder PROVE ThreadsInv'
<1> DEFINE pt == page.thread
<1>1. /\ page.at = "touch" /\ AtHand \in DOMAIN Post /\ pt \in DOMAIN threads
      /\ threads' = Put(threads, pt, Touched(threads[pt], {AtHand}))
      /\ UNCHANGED <<stored, lastId, chunk, known, chosen, followers, untroubled>>
      /\ \A t : Pending(t) = {}
    BY HeadOfPage DEF ThreadsInv, TouchOlder, PageOK, Pending
<1>2. /\ page'.at = "attach" /\ page'.headers = page.headers /\ page'.thread = pt
      /\ AtHand' = AtHand /\ \A u : Pending(u)' = IF u = pt THEN {AtHand} ELSE {}
  <2>1. /\ page'.at = "attach" /\ page'.headers = page.headers /\ page'.thread = pt
        /\ AtHand' = AtHand
      BY PageGoesTo DEF TouchOlder
  <2> QED
      BY <2>1 DEF Pending
<1>3. /\ DOMAIN threads' = DOMAIN threads /\ \A u \in DOMAIN threads : u # pt => threads'[u] = threads[u]
      /\ threads'[pt].count = threads[pt].count + 1
  <2>1. Cardinality({AtHand}) = 1
      BY FS_Singleton
  <2> QED
      BY <1>1, <2>1 DEF Put, Touched
<1>4. RowsOK'
  <2>1. \A u \in DOMAIN threads : threads[u].count \in Nat
      BY DEF ThreadsInv, RowsOK
  <2>2. threads'[pt].count \in Nat
      BY <1>1, <1>3, <2>1
  <2>3. \A u \in DOMAIN threads' : threads'[u].count \in Nat
    <3>1. \A u \in DOMAIN threads : u # pt => threads'[u].count = threads[u].count
        BY <1>3
    <3> QED
        BY <1>3, <2>1, <2>2, <3>1
  <2> QED
      BY <1>1, <1>3, <2>3 DEF ThreadsInv, RowsOK, RowsHaveThreads
<1>5. ChunkOK' /\ PageOK'
    BY <1>1, <1>2, <1>3, ChunkKept DEF ThreadsInv, PageOK, Attaching
<1>6. \A u : Members(u)' = Members(u)
    BY <1>1 DEF Members
<1>7. CountsInclude'
  <2> SUFFICES ASSUME NEW u \in DOMAIN threads PROVE CountIncludes(u)'
      BY <1>3 DEF CountsInclude
  <2>1. (Members(u) \cup Pending(u))' = Members(u)' \cup Pending(u)'
      OBVIOUS
  <2>2. CASE u # pt
    <3>1. CountIncludes(u) /\ threads'[u].count = threads[u].count
        BY <1>3, <2>2 DEF ThreadsInv, CountsInclude
    <3> QED
        BY <1>1, <1>2, <1>6, <2>1, <2>2, <3>1, CountStaysRight DEF ThreadsInv
  <2>3. CASE u = pt
    <3>1. /\ threads[u].count \in Nat /\ threads[u].count >= Cardinality(Members(u))
          /\ untroubled => threads[u].count = Cardinality(Members(u))
      <4>1. CountIncludes(u) /\ Members(u) \cup Pending(u) = Members(u)
          BY <1>1, <2>3 DEF ThreadsInv, CountsInclude
      <4> QED
          BY <4>1 DEF CountIncludes, ThreadsInv, RowsOK
    <3>2. (Members(u) \cup Pending(u))' = Members(u) \cup {AtHand}
        BY <1>2, <1>6, <2>1, <2>3
    <3>3. IsFiniteSet(Members(u))
        BY RowsAreFinite DEF ThreadsInv
    <3>4. /\ Cardinality(Members(u)) \in Nat
          /\ Cardinality(Members(u) \cup {AtHand}) =
                IF AtHand \in Members(u) THEN Cardinality(Members(u)) ELSE Cardinality(Members(u)) + 1
        BY <3>3, FS_AddElement, FS_CardinalityType
    <3>5. untroubled => AtHand \notin Members(u)
      <4>1. u # 0
          BY DEF ThreadsInv, RowsOK
      <4>2. untroubled => stored[AtHand] = 0
          BY <1>1 DEF ThreadsInv, Undisturbed, OneWrites, Attaching
      <4> QED
          BY <4>1, <4>2 DEF Members
    <3>6. threads'[u].count = threads[u].count + 1 /\ untroubled' = untroubled
        BY <1>1, <1>3, <2>3
    <3> QED
        BY <3>1, <3>2, <3>4, <3>5, <3>6 DEF CountIncludes
  <2> QED
      BY <2>2, <2>3
<1>8. ASSUME untroubled' PROVE Undisturbed'
  <2>1. Undisturbed /\ ~Working /\ ~Working' /\ \A x : InCache(x)' = InCache(x)
      BY <1>1, <1>8, OneWriter DEF ThreadsInv, Working, InCache
  <2>2. OneWrites'
      BY <1>1, <1>2, <2>1 DEF Undisturbed, OneWrites, Attaching
  <2>3. PageFollows'
      BY <1>1, <1>2, <2>1 DEF Undisturbed, PageFollows
  <2>4. ChoicesFollow' /\ RepliesAreIn'
      BY <1>1, <2>1 DEF Undisturbed, ChoicesFollow, RepliesAreIn
  <2> QED
      BY <2>2, <2>3, <2>4 DEF Undisturbed
<1> QED
    BY <1>4, <1>5, <1>7, <1>8 DEF ThreadsInv

LEMMA AttachOlderKeeps == ASSUME ThreadsInv, AttachOlder PROVE ThreadsInv'
<1> DEFINE pt == page.thread
<1>1. /\ page.at = "attach" /\ AtHand \in DOMAIN Post /\ pt \in DOMAIN threads /\ pt # 0
      /\ UNCHANGED <<threads, lastId, chunk, known, chosen, untroubled>>
      /\ \A t : Pending(t) = IF t = pt THEN {AtHand} ELSE {}
    BY HeadOfPage DEF ThreadsInv, AttachOlder, PageOK, Pending, RowsOK
<1>2. PageOK' /\ ~Attaching' /\ (\A t : Pending(t)' = {}) /\ page'.at \in {"idle", "find"}
    BY <1>1, PageAdvances DEF ThreadsInv, AttachOlder
<1>3. ChunkOK'
    BY <1>1, ChunkKept DEF ThreadsInv
<1>4. ASSUME untroubled
      PROVE  /\ Undisturbed /\ ~Working /\ ~Working'
             /\ AtHand \in DOMAIN stored /\ stored[AtHand] = 0 /\ InCache(AtHand) = 0
    BY <1>1, <1>4, OneWriter DEF ThreadsInv, Working, Undisturbed, OneWrites, Attaching, InCache
<1>5. CASE AtHand \in DOMAIN stored
  <2>1. /\ DOMAIN stored' = DOMAIN stored /\ stored'[AtHand] = pt
        /\ \A x \in DOMAIN stored : x # AtHand => stored'[x] = stored[x]
        /\ followers' = followers \cup
              {m \in {AtHand} : \E p \in DOMAIN Post : Answers(m, p) /\ InCache(p) # 0}
      BY <1>5 DEF AttachOlder, Put
  <2>2. RowsOK'
      BY <1>1, <2>1 DEF ThreadsInv, RowsOK, RowsHaveThreads
  <2>3. CountsInclude'
    <3>1. \A t \in DOMAIN threads : Members(t)' \subseteq Members(t) \cup Pending(t)
        BY <1>1, <2>1 DEF Members
    <3>2. ASSUME untroubled, NEW t \in DOMAIN threads PROVE Members(t)' = Members(t) \cup Pending(t)
      <4>1. t # 0
          BY DEF ThreadsInv, RowsOK
      <4> QED
          BY <1>1, <1>4, <2>1, <3>2, <4>1 DEF Members
    <3> QED
        BY <1>1, <1>2, <3>1, <3>2, CountsKept DEF ThreadsInv
  <2>4. ASSUME untroubled' PROVE Undisturbed'
    <3>1. \A x : InCache(x)' = IF x = AtHand THEN pt ELSE InCache(x)
        BY <1>5, <2>1 DEF InCache
    <3>2. ASSUME NEW m \in followers', NEW p \in DOMAIN Post, Answers(m, p)
          PROVE  InCache(m)' # 0 /\ InCache(m)' = InCache(p)'
      <4>1. CASE m \in followers
        <5>1. InCache(m) # 0 /\ InCache(m) = InCache(p)
            BY <1>1, <1>4, <2>4, <3>2, <4>1 DEF Undisturbed, RepliesAreIn
        <5> QED
            BY <1>1, <1>4, <2>4, <3>1, <5>1
      <4>2. CASE m = AtHand /\ \E q \in DOMAIN Post : Answers(m, q) /\ InCache(q) # 0
        <5>1. PICK q \in DOMAIN Post : Answers(m, q) /\ InCache(q) # 0
            BY <4>2
        <5>2. p = q
            BY <3>2, <5>1 DEF Answers
        <5>3. pt = InCache(q) /\ q # AtHand
            BY <1>1, <1>4, <2>4, <4>2, <5>1 DEF Undisturbed, PageFollows
        <5> QED
            BY <1>1, <3>1, <4>2, <5>2, <5>3
      <4> QED
          BY <2>1, <4>1, <4>2
    <3>3. RepliesAreIn'
        BY <3>2 DEF RepliesAreIn, Answers
    <3> QED
        BY <1>1, <1>2, <1>4, <2>4, <3>3 DEF Undisturbed, OneWrites, ChoicesFollow, PageFollows
  <2> QED
      BY <1>2, <1>3, <2>2, <2>3, <2>4 DEF ThreadsInv
<1>6. CASE AtHand \notin DOMAIN stored
  <2>1. UNCHANGED <<stored, followers>> /\ ~untroubled /\ ~untroubled'
      BY <1>1, <1>4, <1>6 DEF AttachOlder
  <2>2. RowsOK'
      BY <1>1, <2>1 DEF ThreadsInv, RowsOK, RowsHaveThreads
  <2>3. CountsInclude'
    <3>1. \A t : Members(t)' = Members(t)
        BY <2>1 DEF Members
    <3> QED
        BY <1>1, <1>2, <2>1, <3>1, CountsKept DEF ThreadsInv
  <2> QED
      BY <1>2, <1>3, <2>1, <2>2, <2>3 DEF ThreadsInv
<1> QED
    BY <1>5, <1>6
-----------------------------------------------------------------------------
LEMMA AttachmentChooses ==
    ASSUME RowsOK, \A x \in DOMAIN chosen : chosen[x] \in Nat, NEW m \in DOMAIN Post, NEW t \in Attachment(m)
    PROVE  /\ t \in Nat \ {0}
           /\ \A p \in DOMAIN Post : Answers(m, p) /\ InChunk(p) # 0 => t = InChunk(p)
<1> DEFINE thread == [x \in ToSet(Referred(m)) |-> InChunk(x)]
<1>1. t \in Resolved(m, thread)
    BY DEF Attachment
<1>2. \A x \in ToSet(Referred(m)) : thread[x] = InChunk(x) /\ thread[x] \in Nat
    BY CachedAreThreads DEF InChunk
<1>3. ASSUME NEW p \in DOMAIN Post, Answers(m, p), InChunk(p) # 0 PROVE t = InChunk(p)
  <2>1. p \in ToSet(Referred(m))
      BY <1>3, FirstReferred DEF ToSet
  <2>2. thread[p] = InChunk(p)
      BY <1>2, <2>1
  <2> HIDE DEF thread
  <2> QED
      BY <1>1, <1>3, <2>2, ResolvedFollows
<1>4. t \in Nat \ {0}
  <2> HIDE DEF thread
  <2> QED
      BY <1>1, <1>2, ResolvedIsThread
<1> QED
    BY <1>3, <1>4

(* The headers of a chunk are resolved in their order, each once.          *)
LEMMA HeadersInOrder ==
    ASSUME ChunkOK, Working
    PROVE  /\ Len(chunk.headers) \in Nat /\ chunk.next \in 1 .. Len(chunk.headers) + 1
           /\ DOMAIN chunk.headers = 1 .. Len(chunk.headers)
           /\ \A i \in DOMAIN chunk.headers : chunk.headers[i] \in DOMAIN Post \cap ToSet(chunk.headers)
           /\ \A i, j \in DOMAIN chunk.headers : chunk.headers[i] = chunk.headers[j] => i = j
           /\ \A i \in DOMAIN chunk.headers : chunk.headers[i] \in DOMAIN chosen <=> i < chunk.next
           /\ DOMAIN chosen \subseteq DOMAIN Post \cap ToSet(chunk.headers)
<1>1. PICK hs \in Chunks : hs = chunk.headers
    BY DEF ChunkOK
<1>2. hs \in Seq(DOMAIN Post) /\ \A i, j \in DOMAIN hs : hs[i] = hs[j] => i = j
    BY ThreadingAssumption
<1>3. Len(hs) \in Nat /\ DOMAIN hs = 1 .. Len(hs) /\ \A i \in 1 .. Len(hs) : hs[i] \in DOMAIN Post
    BY <1>2
<1>4. \A i \in DOMAIN hs : hs[i] \in ToSet(hs)
    BY DEF ToSet
<1>5. PICK n \in 1 .. Len(hs) + 1 : n = chunk.next
    BY <1>1 DEF ChunkOK
<1>6. DOMAIN chosen = {hs[i] : i \in 1 .. n - 1}
    BY <1>1, <1>5 DEF ChunkOK
<1>7. \A i \in DOMAIN hs : hs[i] \in DOMAIN chosen <=> i < n
    BY <1>2, <1>3, <1>5, <1>6
<1>8. DOMAIN chosen \subseteq DOMAIN Post \cap ToSet(hs)
    BY <1>3, <1>4, <1>5, <1>6
<1> QED
    BY <1>1, <1>2, <1>3, <1>4, <1>5, <1>7, <1>8

LEMMA ResolveKeeps == ASSUME ThreadsInv, Resolve PROVE ThreadsInv'
<1> DEFINE m == chunk.headers[chunk.next]
<1>1. /\ Working /\ Working' /\ chunk.next <= Len(chunk.headers)
      /\ chunk'.at = "resolve" /\ chunk'.headers = chunk.headers /\ chunk'.next = chunk.next + 1
      /\ UNCHANGED <<stored, threads, known, page, followers, untroubled>>
    BY DEF Resolve, ChunkAt, Working
<1>2. PICK t \in IF Settled(m) THEN {known[m]} ELSE Attachment(m) : chosen' = Put(chosen, m, t) /\ Gives(t)
    BY DEF Resolve
<1>3. /\ m \in DOMAIN Post \cap ToSet(chunk.headers) /\ m \notin DOMAIN chosen
      /\ chunk.next \in DOMAIN chunk.headers
    BY <1>1, HeadersInOrder DEF ThreadsInv
<1>4. \A x \in DOMAIN chosen : chosen[x] \in Nat \ {0}
    BY <1>1 DEF ThreadsInv, ChunkOK
<1>5. /\ t \in Nat \ {0} /\ (Settled(m) => t = known[m])
      /\ ~Settled(m) => \A p \in DOMAIN Post : Answers(m, p) /\ InChunk(p) # 0 => t = InChunk(p)
  <2>1. CASE Settled(m)
    <3>1. t = known[m] /\ known[m] # 0 /\ known[m] \in DOMAIN threads \cup {0}
        BY <1>1, <1>2, <2>1 DEF ThreadsInv, ChunkOK, Settled
    <3> QED
        BY <2>1, <3>1 DEF ThreadsInv, RowsOK
  <2>2. CASE ~Settled(m)
      BY <1>2, <1>3, <1>4, <2>2, AttachmentChooses DEF ThreadsInv
  <2> QED
      BY <2>1, <2>2
<1>6. /\ DOMAIN chosen' = DOMAIN chosen \cup {m} /\ chosen'[m] = t
      /\ \A x \in DOMAIN chosen : chosen'[x] = chosen[x]
    BY <1>2, <1>3 DEF Put
<1>7. RowsOK' /\ PageOK'
  <2>1. lastId' \in Nat
      BY <1>2, <1>5, NewIdsCount DEF ThreadsInv, RowsOK
  <2> QED
      BY <1>1, <2>1 DEF ThreadsInv, RowsOK, RowsHaveThreads, PageOK, Attaching
<1>8. ChunkOK'
  <2>1. DOMAIN chosen' = {chunk.headers[i] : i \in 1 .. (chunk.next + 1) - 1}
    <3>1. DOMAIN chosen = {chunk.headers[i] : i \in 1 .. chunk.next - 1} /\ chunk.next \in Nat \ {0}
        BY <1>1, HeadersInOrder DEF ThreadsInv, ChunkOK
    <3>2. 1 .. (chunk.next + 1) - 1 = (1 .. chunk.next - 1) \cup {chunk.next}
        BY <3>1
    <3> QED
        BY <1>6, <3>1, <3>2
  <2>2. chunk.next + 1 \in 1 .. Len(chunk.headers) + 1
      BY <1>1, HeadersInOrder DEF ThreadsInv
  <2>3. \A x \in DOMAIN chosen' : chosen'[x] \in Nat \ {0}
      BY <1>4, <1>5, <1>6
  <2>4. \A x \in DOMAIN chosen' : Settled(x)' => chosen'[x] = known'[x]
      BY <1>1, <1>5, <1>6 DEF ThreadsInv, ChunkOK, Settled
  <2>5. /\ chunk'.headers \in Chunks /\ DOMAIN known' \subseteq ToSet(chunk'.headers)
        /\ \A x \in DOMAIN known' : known'[x] \in DOMAIN threads' \cup {0}
      BY <1>1 DEF ThreadsInv, ChunkOK
  <2> QED
      BY <1>1, <2>1, <2>2, <2>3, <2>4, <2>5 DEF ChunkOK
<1>9. CountsInclude'
  <2>1. \A u : Members(u)' = Members(u) /\ Pending(u)' = Pending(u)
      BY <1>1 DEF Members, Pending, AtHand
  <2> QED
      BY <1>1, <2>1, CountsKept DEF ThreadsInv
<1>10. ASSUME untroubled' PROVE Undisturbed'
  <2>1. Undisturbed /\ \A x : InCache(x)' = InCache(x)
      BY <1>1, <1>10 DEF ThreadsInv, InCache
  <2>2. OneWrites' /\ PageFollows' /\ RepliesAreIn'
      BY <1>1, <2>1 DEF Undisturbed, OneWrites, Attaching, AtHand, PageFollows, RepliesAreIn
  <2>3. \A x, p : (Precedes(p, x)' <=> Precedes(p, x)) /\ (Settled(x)' <=> Settled(x))
      BY <1>1 DEF Precedes, Settled
  <2>4. ASSUME NEW x \in DOMAIN chosen', NEW p \in DOMAIN Post, Precedes(p, x)
        PROVE  p \in DOMAIN chosen
    <3>1. PICK i, j \in DOMAIN chunk.headers : i < j /\ chunk.headers[i] = p /\ chunk.headers[j] = x
        BY <2>4 DEF Precedes
    <3>2. j <= chunk.next
        BY <1>1, <1>3, <1>6, <3>1, HeadersInOrder DEF ThreadsInv
    <3>3. i < chunk.next
        BY <1>1, <3>1, <3>2, HeadersInOrder DEF ThreadsInv
    <3> QED
        BY <1>1, <3>1, <3>3, HeadersInOrder DEF ThreadsInv
  <2>5. ASSUME NEW x \in DOMAIN chosen', NEW p \in DOMAIN Post, Answers(x, p), ~Settled(x)
        PROVE  (InCache(p) # 0 => chosen'[x] = InCache(p)) /\ (Precedes(p, x) => chosen'[x] = chosen'[p])
    <3>1. CASE x \in DOMAIN chosen
      <4>1. /\ InCache(p) # 0 => chosen[x] = InCache(p)
            /\ Precedes(p, x) => chosen[x] = chosen[p]
          BY <1>1, <2>1, <2>5, <3>1 DEF Undisturbed, ChoicesFollow
      <4> QED
          BY <1>6, <2>4, <3>1, <4>1
    <3>2. CASE x = m
      <4>1. InChunk(p) # 0 => chosen'[x] = InChunk(p)
          BY <1>5, <1>6, <2>5, <3>2
      <4>2. Precedes(p, x) => InChunk(p) = chosen'[p] /\ InChunk(p) # 0
          BY <1>4, <1>6, <2>4 DEF InChunk
      <4>3. InCache(p) # 0 => InChunk(p) = InCache(p)
        <5>1. SUFFICES ASSUME InCache(p) # 0, p \in DOMAIN chosen PROVE chosen[p] = InCache(p)
            BY DEF InChunk
        <5>2. p \in DOMAIN stored /\ stored[p] = InCache(p) /\ p \in ToSet(chunk.headers)
            BY <1>1, <5>1, HeadersInOrder DEF InCache, ThreadsInv
        <5>3. p \in DOMAIN known /\ known[p] = stored[p]
            BY <1>1, <2>1, <5>2 DEF Undisturbed, OneWrites
        <5> QED
            BY <1>1, <5>1, <5>2, <5>3 DEF Settled, ThreadsInv, ChunkOK
      <4> QED
          BY <4>1, <4>2, <4>3
    <3> QED
        BY <1>6, <3>1, <3>2
  <2>6. ChoicesFollow'
      BY <2>1, <2>3, <2>5 DEF ChoicesFollow, Answers
  <2> QED
      BY <2>2, <2>6 DEF Undisturbed
<1> QED
    BY <1>7, <1>8, <1>9, <1>10 DEF ThreadsInv
-----------------------------------------------------------------------------
(* The messages of a commit are added to those that a thread counts.       *)
LEMMA CountGrows ==
    ASSUME NEW old, NEW added, IsFiniteSet(old), IsFiniteSet(added), NEW size \in Nat, size >= Cardinality(old),
           NEW new \in SUBSET (old \cup added)
    PROVE  /\ size + Cardinality(added) \in Nat
           /\ size + Cardinality(added) >= Cardinality(new)
           /\ size = Cardinality(old) /\ new = old \cup added /\ old \cap added = {}
                => size + Cardinality(added) = Cardinality(new)
<1>1. /\ IsFiniteSet(old \cup added) /\ Cardinality(old) \in Nat /\ Cardinality(added) \in Nat
      /\ Cardinality(old \cup added) = Cardinality(old) + Cardinality(added) - Cardinality(old \cap added)
    BY FS_Union, FS_CardinalityType
<1>2. /\ Cardinality(new) \in Nat /\ Cardinality(new) <= Cardinality(old \cup added)
      /\ Cardinality(old \cup added) \in Nat
    BY <1>1, FS_Subset, FS_CardinalityType
<1>3. Cardinality(old \cap added) \in Nat /\ (old \cap added = {} => Cardinality(old \cap added) = 0)
  <2>1. IsFiniteSet(old \cap added)
      BY FS_Subset
  <2> QED
      BY <2>1, FS_CardinalityType, FS_EmptySet
<1>4. PICK o \in Nat, a \in Nat, n \in Nat, both \in Nat, all \in Nat :
          /\ o = Cardinality(old) /\ a = Cardinality(added) /\ n = Cardinality(new)
          /\ both = Cardinality(old \cap added) /\ all = Cardinality(old \cup added)
    BY <1>1, <1>2, <1>3
<1>5. all = o + a - both /\ n <= all /\ size >= o
    BY <1>1, <1>2, <1>4
<1>6. size + a \in Nat /\ size + a >= n /\ (size = o /\ n = all /\ both = 0 => size + a = n)
    BY <1>5
<1> QED
    BY <1>3, <1>4, <1>6

LEMMA CommitChunkKeeps == ASSUME ThreadsInv, CommitChunk PROVE ThreadsInv'
<1> DEFINE written == {m \in Joining : m \in DOMAIN stored <=> m \in DOMAIN known}
           counted(t) == IF t \in DOMAIN threads THEN threads[t].count ELSE 0
<1>1. /\ Working /\ chunk.next = Len(chunk.headers) + 1
      /\ chunk'.at = "idle" /\ ~Working' /\ DOMAIN known' = {} /\ DOMAIN chosen' = {}
      /\ DOMAIN stored' = DOMAIN stored \cup written
      /\ \A x \in DOMAIN stored' : stored'[x] = IF x \in written THEN chosen[x] ELSE stored[x]
      /\ threads' = WithTouches /\ UNCHANGED <<lastId, page, untroubled>>
      /\ followers' = followers \cup
              {m \in written : InCache(m) = 0
                  /\ \E p \in DOMAIN Post : Answers(m, p) /\ (InCache(p) # 0 \/ Precedes(p, m))}
  <2>1. \A f : f = <<>> => DOMAIN f = {}
      OBVIOUS
  <2> QED
      BY <2>1 DEF CommitChunk, NoChunk, ChunkAt, Working
<1>2. /\ Joining \subseteq DOMAIN Post \cap ToSet(chunk.headers) \cap DOMAIN chosen
      /\ \A x \in Joining : ~Settled(x) /\ chosen[x] \in Nat \ {0}
      /\ written \subseteq Joining
    BY <1>1, HeadersInOrder DEF ThreadsInv, ChunkOK, Joining
<1>3. /\ DOMAIN threads' = DOMAIN threads \cup ToMint
      /\ ToMint \cap DOMAIN threads = {} /\ ToMint \subseteq Nat \ {0}
      /\ \A x \in Joining : chosen[x] \in DOMAIN threads'
    BY <1>1, <1>2 DEF WithTouches, ToMint
<1>4. \A t : IsFiniteSet(JoiningOf(t)) /\ Cardinality(JoiningOf(t)) \in Nat
  <2>1. \A t : JoiningOf(t) \subseteq DOMAIN Post
      BY <1>2 DEF JoiningOf
  <2> QED
      BY <2>1, ThreadingAssumption, FS_Subset, FS_CardinalityType
<1>5. \A t \in DOMAIN threads' : threads'[t].count = counted(t) + Cardinality(JoiningOf(t))
  <2> SUFFICES ASSUME NEW t \in DOMAIN threads'
               PROVE threads'[t].count = counted(t) + Cardinality(JoiningOf(t))
      OBVIOUS
  <2>1. threads'[t] = Touched(IF t \in ToMint THEN Minted(FirstOf(t)) ELSE threads[t], JoiningOf(t))
      BY <1>1, <1>3 DEF WithTouches
  <2>2. (IF t \in ToMint THEN Minted(FirstOf(t)) ELSE threads[t]).count = counted(t)
      BY <1>3 DEF Minted
  <2> QED
      BY <2>1, <2>2 DEF Touched
<1>6. \A t : Pending(t)' = Pending(t) /\ Members(t)' \subseteq Members(t) \cup JoiningOf(t)
    BY <1>1, <1>2 DEF Pending, AtHand, Members, JoiningOf
<1>7. ASSUME untroubled
      PROVE  /\ Undisturbed /\ page.at = "idle" /\ written = Joining
             /\ \A x \in Joining : InCache(x) = 0
  <2>1. Undisturbed /\ page.at = "idle"
      BY <1>1, <1>7 DEF ThreadsInv, Undisturbed, OneWrites
  <2>2. \A x \in Joining : /\ x \in DOMAIN known <=> x \in DOMAIN stored
                           /\ x \in DOMAIN known => known[x] = stored[x]
      BY <1>1, <1>2, <2>1 DEF Undisturbed, OneWrites
  <2> QED
      BY <1>2, <2>1, <2>2 DEF Settled, InCache
<1>8. ASSUME NEW t \in DOMAIN threads'
      PROVE  /\ counted(t) \in Nat /\ counted(t) >= Cardinality(Members(t) \cup Pending(t))
             /\ untroubled => counted(t) = Cardinality(Members(t) \cup Pending(t))
             /\ t # 0
  <2>1. CASE t \in DOMAIN threads
      BY <2>1 DEF ThreadsInv, CountsInclude, CountIncludes, RowsOK
  <2>2. CASE t \in ToMint
    <3>1. counted(t) = 0 /\ t # 0 /\ t \notin DOMAIN threads
        BY <1>3, <2>2
    <3>2. Members(t) = {} /\ Pending(t) = {}
        BY <3>1 DEF ThreadsInv, RowsOK, RowsHaveThreads, PageOK, Members, Pending
    <3> QED
        BY <3>1, <3>2, FS_EmptySet
  <2> QED
      BY <1>3, <2>1, <2>2
<1>9. CountsInclude'
  <2> SUFFICES ASSUME NEW t \in DOMAIN threads' PROVE CountIncludes(t)'
      BY DEF CountsInclude
  <2>1. PICK c \in Nat : c = counted(t)
      BY <1>8
  <2>2. /\ c >= Cardinality(Members(t) \cup Pending(t))
        /\ untroubled => c = Cardinality(Members(t) \cup Pending(t))
        /\ threads'[t].count = c + Cardinality(JoiningOf(t))
      BY <1>5, <1>8, <2>1
  <2>3. (Members(t) \cup Pending(t))' \subseteq (Members(t) \cup Pending(t)) \cup JoiningOf(t)
      BY <1>6
  <2>4. IsFiniteSet(Members(t) \cup Pending(t))
      BY RowsAreFinite, FS_Union DEF ThreadsInv
  <2>5. ASSUME untroubled
        PROVE  /\ (Members(t) \cup Pending(t))' = (Members(t) \cup Pending(t)) \cup JoiningOf(t)
               /\ (Members(t) \cup Pending(t)) \cap JoiningOf(t) = {}
    <3>1. Pending(t) = {} /\ t # 0
        BY <1>7, <1>8, <2>5 DEF Pending
    <3>2. Members(t) \cap JoiningOf(t) = {}
        BY <1>7, <2>5, <3>1 DEF Members, JoiningOf, InCache
    <3>3. Members(t)' = Members(t) \cup JoiningOf(t)
      <4>1. Members(t) \subseteq Members(t)'
          BY <1>1, <1>7, <2>5, <3>1 DEF Members, InCache
      <4>2. JoiningOf(t) \subseteq Members(t)'
          BY <1>1, <1>7, <2>5 DEF Members, JoiningOf
      <4> QED
          BY <1>6, <4>1, <4>2
    <3> QED
        BY <1>6, <3>1, <3>2, <3>3
  <2>6. /\ c + Cardinality(JoiningOf(t)) >= Cardinality((Members(t) \cup Pending(t))')
        /\ untroubled => c + Cardinality(JoiningOf(t)) = Cardinality((Members(t) \cup Pending(t))')
    <3> DEFINE old == Members(t) \cup Pending(t)
               new == (Members(t) \cup Pending(t))'
    <3>1. /\ c >= Cardinality(old) /\ IsFiniteSet(old) /\ new \in SUBSET (old \cup JoiningOf(t))
          /\ untroubled => c = Cardinality(old) /\ new = old \cup JoiningOf(t) /\ old \cap JoiningOf(t) = {}
        BY <2>2, <2>3, <2>4, <2>5
    <3>2. IsFiniteSet(JoiningOf(t))
        BY <1>4
    <3> HIDE DEF old, new
    <3>3. /\ c + Cardinality(JoiningOf(t)) >= Cardinality(new)
          /\ untroubled => c + Cardinality(JoiningOf(t)) = Cardinality(new)
        BY <3>1, <3>2, CountGrows
    <3> QED
        BY <3>3 DEF old, new
  <2> QED
      BY <1>1, <2>2, <2>6 DEF CountIncludes
<1>10. RowsOK'
  <2>1. \A t \in DOMAIN threads' : threads'[t].count \in Nat
    <3> SUFFICES ASSUME NEW t \in DOMAIN threads' PROVE threads'[t].count \in Nat
        OBVIOUS
    <3>1. PICK c \in Nat : c = counted(t)
        BY <1>8
    <3>2. threads'[t].count = c + Cardinality(JoiningOf(t)) /\ Cardinality(JoiningOf(t)) \in Nat
        BY <1>4, <1>5, <3>1
    <3> QED
        BY <3>2
  <2>2. RowsHaveThreads'
      BY <1>1, <1>2, <1>3 DEF ThreadsInv, RowsOK, RowsHaveThreads
  <2>3. DOMAIN stored' \subseteq DOMAIN Post /\ DOMAIN threads' \subseteq Nat \ {0} /\ lastId' \in Nat
      BY <1>1, <1>2, <1>3 DEF ThreadsInv, RowsOK
  <2> QED
      BY <2>1, <2>2, <2>3 DEF RowsOK
<1>11. ChunkOK' /\ PageOK'
    BY <1>1, <1>3 DEF ThreadsInv, ChunkOK, PageOK, Attaching
<1>12. ASSUME untroubled' PROVE Undisturbed'
  <2>1. \A x : InCache(x)' = IF x \in Joining THEN chosen[x] ELSE InCache(x)
      BY <1>1, <1>7, <1>12 DEF InCache
  <2>2. ASSUME NEW m \in followers', NEW p \in DOMAIN Post, Answers(m, p)
        PROVE  InCache(m)' # 0 /\ InCache(m)' = InCache(p)'
    <3>1. CASE m \in followers
      <4>1. InCache(m) # 0 /\ InCache(m) = InCache(p)
          BY <1>1, <1>7, <1>12, <2>2, <3>1 DEF Undisturbed, RepliesAreIn
      <4> QED
          BY <1>1, <1>7, <1>12, <2>1, <4>1
    <3>2. CASE /\ m \in Joining
               /\ \E q \in DOMAIN Post : Answers(m, q) /\ (InCache(q) # 0 \/ Precedes(q, m))
      <4>1. PICK q \in DOMAIN Post : Answers(m, q) /\ (InCache(q) # 0 \/ Precedes(q, m))
          BY <3>2
      <4>2. p = q
          BY <2>2, <4>1 DEF Answers
      <4>3. /\ InCache(q) # 0 => chosen[m] = InCache(q)
            /\ Precedes(q, m) => chosen[m] = chosen[q]
          BY <1>1, <1>2, <1>7, <1>12, <3>2, <4>1 DEF Undisturbed, ChoicesFollow
      <4>4. InCache(m)' = chosen[m] /\ chosen[m] # 0
          BY <1>2, <2>1, <3>2
      <4>5. CASE InCache(q) # 0
          BY <1>1, <1>7, <1>12, <2>1, <4>2, <4>3, <4>4, <4>5
      <4>6. CASE Precedes(q, m)
        <5>1. q \in DOMAIN chosen /\ q \in ToSet(chunk.headers)
            BY <1>1, <4>6, HeadersInOrder DEF Precedes, ThreadsInv
        <5>2. CASE q \in Joining
            BY <2>1, <4>2, <4>3, <4>4, <4>6, <5>2
        <5>3. CASE q \notin Joining
          <6>1. Settled(q) /\ chosen[q] = known[q] /\ q \in DOMAIN known
              BY <1>1, <5>1, <5>3 DEF Joining, Settled, ThreadsInv, ChunkOK
          <6>2. q \in DOMAIN stored /\ known[q] = stored[q]
              BY <1>1, <1>7, <1>12, <5>1, <6>1 DEF Undisturbed, OneWrites
          <6>3. InCache(q)' = chosen[q]
              BY <2>1, <5>3, <6>1, <6>2 DEF InCache
          <6> QED
              BY <4>2, <4>3, <4>4, <4>6, <6>3
        <5> QED
            BY <5>2, <5>3
      <4> QED
          BY <4>1, <4>5, <4>6
    <3> QED
        BY <1>1, <1>2, <3>1, <3>2
  <2>3. RepliesAreIn'
      BY <2>2 DEF RepliesAreIn, Answers
  <2>4. page'.at = "idle"
      BY <1>1, <1>7, <1>12
  <2> QED
      BY <1>1, <2>3, <2>4 DEF Undisturbed, OneWrites, Attaching, ChoicesFollow, PageFollows
<1> QED
    BY <1>9, <1>10, <1>11, <1>12 DEF ThreadsInv

LEMMA ThreadsStep == ThreadsInv /\ [ThreadsNext]_threadVars => ThreadsInv'
<1> SUFFICES ASSUME ThreadsInv, [ThreadsNext]_threadVars PROVE ThreadsInv'
    OBVIOUS
<1>1. ASSUME NEW hs \in Chunks, Deliver(hs) PROVE ThreadsInv'
    BY <1>1, DeliverKeeps
<1>2. ASSUME NEW hs \in Chunks, LoadOlder(hs) PROVE ThreadsInv'
    BY <1>2, LoadOlderKeeps
<1>3. CASE Resolve
    BY <1>3, ResolveKeeps
<1>4. CASE CommitChunk
    BY <1>4, CommitChunkKeeps
<1>5. CASE ChunkFails
    BY <1>5, ChunkFailsKeeps
<1>6. CASE FindOlder
    BY <1>6, FindOlderKeeps
<1>7. CASE InsertOlder
    BY <1>7, InsertOlderKeeps
<1>8. CASE ResolveOlder
    BY <1>8, ResolveOlderKeeps
<1>9. CASE TouchOlder
    BY <1>9, TouchOlderKeeps
<1>10. CASE AttachOlder
    BY <1>10, AttachOlderKeeps
<1>11. CASE OlderFails
    BY <1>11, OlderFailsKeeps
<1>12. ASSUME NEW m \in DOMAIN Post, PullHistory(m) PROVE ThreadsInv'
    BY <1>12, PullHistoryKeeps
<1>13. ASSUME NEW m \in DOMAIN Post, PruneRow(m) PROVE ThreadsInv'
    BY <1>13, PruneRowKeeps
<1>14. CASE UNCHANGED threadVars
    BY <1>14 DEF threadVars, ThreadsInv, RowsOK, RowsHaveThreads, ChunkOK, Working, Settled, PageOK, Attaching,
                 AtHand, CountsInclude, CountIncludes, Members, Pending, Undisturbed, OneWrites, ChoicesFollow,
                 PageFollows, RepliesAreIn, Answers, Precedes, InCache
<1> QED
    BY <1>1, <1>2, <1>3, <1>4, <1>5, <1>6, <1>7, <1>8, <1>9, <1>10, <1>11, <1>12, <1>13, <1>14 DEF ThreadsNext

LEMMA ThreadsInvSuffices == ThreadsInv => ThreadsAreSound
<1> SUFFICES ASSUME ThreadsInv PROVE ThreadsAreSound
    OBVIOUS
<1>1. ASSUME NEW t \in DOMAIN threads
      PROVE  /\ threads[t].count >= Cardinality(Members(t))
             /\ untroubled /\ page.at = "idle" => threads[t].count = Cardinality(Members(t))
  <2>1. IsFiniteSet(Members(t) \cup Pending(t)) /\ Cardinality(Members(t) \cup Pending(t)) \in Nat
      BY RowsAreFinite, FS_Union, FS_CardinalityType DEF ThreadsInv
  <2>2. Cardinality(Members(t)) \in Nat /\ Cardinality(Members(t)) <= Cardinality(Members(t) \cup Pending(t))
      BY <2>1, FS_Subset, FS_CardinalityType
  <2>3. /\ threads[t].count \in Nat /\ threads[t].count >= Cardinality(Members(t) \cup Pending(t))
        /\ untroubled => threads[t].count = Cardinality(Members(t) \cup Pending(t))
      BY DEF ThreadsInv, CountsInclude, CountIncludes, RowsOK
  <2>4. page.at = "idle" => Members(t) \cup Pending(t) = Members(t)
      BY DEF Pending
  <2> QED
      BY <2>1, <2>2, <2>3, <2>4
<1>2. RepliesFollow
  <2> SUFFICES ASSUME untroubled, NEW m \in followers, NEW p \in DOMAIN Post, Answers(m, p)
               PROVE  stored[m] # 0 /\ stored[m] = stored[p]
      BY DEF RepliesFollow
  <2>1. InCache(m) # 0 /\ InCache(m) = InCache(p)
      BY DEF ThreadsInv, Undisturbed, RepliesAreIn
  <2> QED
      BY <2>1 DEF InCache
<1> QED
    BY <1>1, <1>2 DEF ThreadsAreSound, CountsCover, ThreadsInv, RowsOK

(* Rows name threads that are there, the badge of a thread never says too  *)
(* few, and unless something was removed, cut short or written by both at  *)
(* once it is exact and replies are with what they answer (apply_chunk,    *)
(* attach_to_thread), for any messages, chunks and overlaps.               *)
THEOREM ConversationsAreSound == ThreadsSpec => []ThreadsAreSound
BY ThreadsInitially, ThreadsStep, ThreadsInvSuffices, PTL DEF ThreadsSpec
=============================================================================
