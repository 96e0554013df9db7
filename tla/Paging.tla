-------------------------------- MODULE Paging --------------------------------
(***************************************************************************)
(* Paging back in a folder of an IMAP account: messages_load_older and     *)
(* fetch_uid_range_headers behind it, the scroll that asks for it, and     *)
(* what overlaps: new mail, expunges, moves of the user and syncs.         *)
(*                                                                         *)
(* A message is its UID.  Rows are listed by date, which need not follow   *)
(* the UIDs: a message that was moved here is old and has a new UID.       *)
(***************************************************************************)
EXTENDS Naturals, FiniteSets

CONSTANTS
    Held,       \* what the folder's first sync left: the newest messages
    Top,        \* the largest UID of the model
    Old,        \* UIDs whose date is before that of all others
    Cap,        \* MAX_PAGE_LIMIT: how many rows the pager looks at
    Batch,      \* how many UIDs a scroll asks for
    Mischief    \* bounds: how often what kind of thing happens

VARIABLES
    stock,      \* the UIDs on the server
    cached,     \* the UIDs whose row is in this folder
    elsewhere,  \* the UIDs whose row the user has moved to another folder
    synced,     \* the UIDs below this were seen by a sync (uidnext)
    load,       \* messages_load_older: where it is, its anchor, what is to store, what it added
    abandoned,  \* (history) what a load that stopped half-way had still to store
    exhausted,  \* tail_exhausted of the list
    did         \* what is used up of the bounds

(* The newest messages, if any; a page and a batch of one at least.        *)
ASSUME PagingAssumption ==
    /\ Top \in Nat \ {0} /\ Cap \in Nat \ {0} /\ Batch \in Nat
    /\ Held \subseteq 1 .. Top - 1
    /\ \A u \in Held : u .. Top - 1 \subseteq Held

pagingVars == <<stock, cached, elsewhere, synced, load, abandoned, exhausted, did>>
Uids == 1..Top
Later(u, v) == IF (u \in Old) = (v \in Old) THEN u > v ELSE v \in Old
Newest == {u \in cached : Cardinality({v \in cached : Later(v, u)}) < Cap}
Least(s) == CHOOSE u \in s : \A v \in s : u <= v
NoLoad == [at |-> "idle", anchor |-> 0, got |-> {}, added |-> 0]

May(k) == /\ \E b \in Mischief : \A j \in DOMAIN b : did[j] + (IF j = k THEN 1 ELSE 0) <= b[j]
          /\ did' = [did EXCEPT ![k] = @ + 1]

PagingInit ==
    /\ stock = 1..(Top - 1) /\ cached = Held /\ elsewhere = {} /\ synced = Top /\ load = NoLoad
    /\ abandoned = {} /\ exhausted = FALSE /\ did = [loads |-> 0, expunges |-> 0, arrives |-> 0, moves |-> 0, fails |-> 0]
-----------------------------------------------------------------------------
(* One load at a time, until the tail is known to be exhausted.            *)
OnScroll ==
    /\ load.at = "idle" /\ ~exhausted /\ May("loads")
    /\ load' = [NoLoad EXCEPT !.at = "anchor"]
    /\ UNCHANGED <<stock, cached, elsewhere, synced, abandoned, exhausted>>

(* The smallest UID of the newest rows.                                    *)
Anchor ==
    /\ load.at = "anchor"
    /\ load' = IF cached = {} THEN [load EXCEPT !.at = "reply"]
               ELSE [load EXCEPT !.at = "fetch", !.anchor = Least(Newest)]
    /\ UNCHANGED <<stock, cached, elsewhere, synced, abandoned, exhausted, did>>

(* What exists between anchor - limit and anchor - 1.                      *)
WindowShort(a) == {u \in Uids : u + 1 < a /\ u + Batch >= a}
Window(a) == {u \in Uids : u < a /\ u + Batch >= a}
FetchRange ==
    /\ load.at = "fetch"
    /\ LET found == stock \cap Window(load.anchor)
       IN load' = [load EXCEPT !.at = IF found = {} THEN "reply" ELSE "insert", !.got = found]
    /\ UNCHANGED <<stock, cached, elsewhere, synced, abandoned, exhausted, did>>

(* Header after header, in the server's order (the lowest UID first, as a  *)
(* rule), each row in a transaction of its own, with the lock of the       *)
(* window's connection held from the first to the last.  Rows that are     *)
(* there, here or elsewhere, are not counted.                              *)
Insert(u) ==
    LET new == {u} \ (cached \cup elsewhere)
        rest == load.got \ {u}
    IN
    /\ load.at \in {"insert", "storing"} /\ u \in load.got /\ cached' = cached \cup new
    /\ load' = [load EXCEPT !.at = IF rest = {} THEN "reply" ELSE "storing",
                            !.got = rest, !.added = @ + Cardinality(new)]
    /\ UNCHANGED <<stock, elsewhere, synced, abandoned, exhausted, did>>
Land ==
    /\ load.at = "reply" /\ load' = NoLoad
    /\ exhausted' = (load.added = 0)
    /\ UNCHANGED <<stock, cached, elsewhere, synced, abandoned, did>>

(* A request or a statement fails, or the program ends (the next one       *)
(* begins with a list whose tail it does not know): what is stored stays.  *)
LoadFails ==
    /\ load.at \in {"anchor", "fetch", "insert", "storing"} /\ May("fails") /\ load' = NoLoad
    /\ abandoned' = abandoned \cup (IF load.at = "storing" THEN load.got ELSE {})
    /\ UNCHANGED <<stock, cached, elsewhere, synced, exhausted>>
-----------------------------------------------------------------------------
Expunge(u) ==
    /\ u \in stock /\ May("expunges") /\ stock' = stock \ {u}
    /\ UNCHANGED <<cached, elsewhere, synced, load, abandoned, exhausted>>
NewMail ==
    /\ Top \notin stock /\ synced = Top /\ May("arrives") /\ stock' = stock \cup {Top}
    /\ UNCHANGED <<cached, elsewhere, synced, load, abandoned, exhausted>>

(* messages_move: the row changes its folder, the server follows later.    *)
(* It takes the lock that a load keeps while it stores.                    *)
MoveAway(u) ==
    /\ u \in cached /\ load.at # "storing" /\ May("moves")
    /\ cached' = cached \ {u} /\ elsewhere' = elsewhere \cup {u}
    /\ UNCHANGED <<stock, synced, load, abandoned, exhausted>>

(* A sync adds what is new and prunes what is gone.                        *)
SyncFolder ==
    /\ cached' = (cached \cap stock) \cup {u \in stock : u >= synced}
    /\ synced' = IF Top \in stock THEN Top + 1 ELSE synced
    /\ <<cached', synced'>> # <<cached, synced>>
    /\ UNCHANGED <<stock, elsewhere, load, abandoned, exhausted, did>>

Pages == OnScroll \/ Anchor \/ FetchRange \/ Land \/ LoadFails \/ (\E u \in load.got : Insert(u))
PagingNext == Pages \/ NewMail \/ SyncFolder \/ (\E u \in Uids : Expunge(u) \/ MoveAway(u))
PagingSpec == PagingInit /\ [][PagingNext]_pagingVars
-----------------------------------------------------------------------------
(* A hole comes from a load that stopped between two inserts and from      *)
(* nothing else: whatever the server still has between the oldest row and  *)
(* the newest synced UID has a row, is being stored, or is of a page whose *)
(* store broke off.  So it is though the dates are not in the order of the *)
(* UIDs, and mail comes, goes and is moved while a load is under way.      *)
BeingStored == IF load.at = "storing" THEN load.got ELSE {}
NoHoles ==
    \A u \in stock : (u < synced /\ \E v \in cached : v < u)
                      => u \in cached \cup elsewhere \cup abandoned \cup BeingStored
=============================================================================
