------------------------- MODULE MailboxProperties -------------------------
(* What the mailbox promises: properties of module Mailbox.                *)
EXTENDS Mailbox

Ids == [folder : Folders, validity : Nat \ {0}, uid : Nat \ {0}]
Cursors == [validity : Nat \ {0}, uidnext : Nat \ {0}, modseq : Nat \ {0}]
Operations == [op : {"flags", "move", "delete"}, id : Ids, name : Nat \ {0},
               flag : Flags \cup {None}, set : BOOLEAN, target : Folders \cup {None},
               attempts : 0 .. MaxAttempts - 1]
Rows == [folder : Folders, flags : SUBSET Flags, name : Nat \ {0}]

(* The shapes of the tables and of what the sync holds; an operation in    *)
(* the queue has an attempt left.                                          *)
TypeOK ==
    /\ DOMAIN server = Folders
    /\ \A f \in Folders :
          /\ server[f] \in [validity : Nat \ {0}, uidnext : Nat \ {0}, modseq : Nat \ {0},
                            mail : [UidsOf(server[f]) ->
                                      [name : 1 .. nextName - 1, flags : SUBSET Flags, mod : Nat]]]
          /\ UidsOf(server[f]) \subseteq 1 .. server[f].uidnext - 1
          /\ \A u \in UidsOf(server[f]) : server[f].mail[u].mod <= server[f].modseq
          /\ cursor[f] \in Cursors \cup {None}
    /\ DOMAIN rows \subseteq Ids /\ \A i \in DOMAIN rows : rows[i] \in Rows
    /\ DOMAIN ops \subseteq 1 .. nextOp - 1 /\ \A n \in DOMAIN ops : ops[n] \in Operations
    /\ at \in {"idle", "select", "fetch", "changes", "find", "apply", "known", "local", "prune",
               "flags"}
    /\ on \in Folders \cup {None} /\ (at = "idle") = (on = None)
    /\ {prior, since, fresh} \subseteq Cursors \cup {None}
    /\ DOMAIN existing \cup doomed \subseteq Ids

(* The folder's cursor speaks of the UIDs the server uses now.             *)
Valid(f) == cursor[f] # None /\ cursor[f].validity = server[f].validity

(* Once a cursor is stored, every message below its UIDNEXT, back to where *)
(* the full listing began, has its row, unless the user moved or deleted   *)
(* it: nothing that arrives during a sync falls between two listings, and  *)
(* no reconciliation takes a message that is there.                        *)
NewMailIsNotSkipped ==
    \A f \in Folders : Valid(f) =>
       \A u \in UidsOf(server[f]) :
          low[f] <= u /\ u < cursor[f].uidnext =>
             Id(f, server[f].validity, u) \in DOMAIN rows \cup taken

(* A stored mod-sequence is a promise: a message that has not changed      *)
(* since is shown with the server's flags, unless the user changed them    *)
(* (one change writes all the flags of the message) or it lies below the   *)
(* full listing.  It must survive a failed flag pass, a sync cut short and *)
(* changes between the exchanges.                                          *)
FlagsAreNotMissed ==
    \A f \in Folders : Valid(f) =>
       \A u \in UidsOf(server[f]) :
          LET i == Id(f, server[f].validity, u)
              m == server[f].mail[u]
          IN  /\ low[f] <= u /\ m.mod <= cursor[f].modseq /\ i \in DOMAIN rows
              /\ \A x \in Flags : <<i, x>> \notin DOMAIN wish
              => rows[i].flags = m.flags

(* A cursor that is stored is honest about what lies below it.             *)
CursorsAreHonest == NewMailIsNotSkipped /\ FlagsAreNotMissed

(* A message is on the server once, and once more at most for each reply   *)
(* or EXPUNGE that was lost: retried moves do not multiply it.             *)
Copies(k) == {c \in UNION {{f} \X UidsOf(server[f]) : f \in Folders} :
                server[c[1]].mail[c[2]].name = k}
CopiesNeedMishaps ==
    \A k \in 1 .. nextName - 1 : Cardinality(Copies(k)) <= 1 + mishaps

(* Only a delete takes the last copy of a message off the server: a move   *)
(* that stops halfway, or is done twice, never does.                       *)
OnlyDeletesLoseMail ==
    [][remote' = remote =>
         \A k \in 1 .. nextName - 1 : Copies(k) # {} /\ Copies(k)' = {} =>
            \E n \in DOMAIN ops : ops[n].op = "delete" /\ ops[n].name = k]_vars

(* What the drain changes or removes on the server is a message for which  *)
(* an operation is queued: never the one that bears its UID after the      *)
(* mailbox was rebuilt.                                                    *)
Touched(f) == {u \in UidsOf(server[f]) : \/ u \notin UidsOf(server'[f])
                                         \/ server[f].mail[u] # server'[f].mail[u]}
OpsHitTheirMessage ==
    [][remote' = remote =>
         \A f \in Folders : \A u \in Touched(f) :
            \E n \in DOMAIN ops : ops[n].name = server[f].mail[u].name]_vars
=============================================================================
