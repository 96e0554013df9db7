-------------------------------- MODULE Bodies --------------------------------
(***************************************************************************)
(* Message bodies: the blob store (blobs.rs), the reader that fetches a    *)
(* body when none is recorded (render_message, lazy_fetch_body), the sync  *)
(* that stores the bodies of new messages and unlinks those of pruned      *)
(* ones, and the moves of the user, which touch the row alone.             *)
(*                                                                         *)
(* A blob is a file <folder>/<message>.eml.zst; a put writes <message>.tmp *)
(* beside it and renames.  The database lock covers a read or a write of   *)
(* the row, never the fetch or the file.  A file is an inode with the      *)
(* halves written so far: a process that has it open writes to the inode,  *)
(* whatever its name is by then.                                           *)
(***************************************************************************)
EXTENDS Naturals, Sequences, FiniteSets

CONSTANTS
    Messages,    \* message ids
    Shelves,    \* folders of the account
    Errands     \* bounds: an errand says how often what kind of thing happens

ASSUME BodiesAssumption == Shelves \cap {"new", "gone"} = {}

VARIABLES
    row,        \* the database: folder and body_path of each message; "new" before, "gone" after
    disk,       \* the files: <<folder, id, extension>> to an inode
    inodes,     \* what is in the files, by inode
    tasks,      \* renders and body fetches under way, and unlinks that are due
    strayed,    \* history: messages moved, or pruned with their body on its way
    overlapped, \* history: <<folder, id>> that two puts wrote at once
    taken       \* what is used up of the errand

history == <<strayed, overlapped>>
bodiesVars == <<row, disk, inodes, tasks, strayed, overlapped, taken>>

Halves == {1, 2}
Eml(f, m) == <<f, m, "eml">>
Tmp(f, m) == <<f, m, "tmp">>
Names == Shelves \X Messages \X {"eml", "tmp"}
Exists(n) == disk[n] # 0

(* The folder is the one the row named when the task read it; n tells the  *)
(* renders of a message from each other and from the sync.                 *)
Task(n, m, f, at) == [n |-> n, id |-> m, of |-> f, at |-> at, inode |-> 0, left |-> Halves]
Coming(m) == {t \in tasks : t.id = m /\ t.at \in {"fetch", "create", "write", "rename"}}
Writes(f, m) == {t \in tasks : t.id = m /\ t.of = f /\ t.at \in {"write", "rename"}}
Become(t, u) == tasks' = (tasks \ {t}) \cup {u}
Finish(t) == tasks' = tasks \ {t}

Take(k) == /\ \E e \in Errands : \A j \in DOMAIN e : taken[j] + (IF j = k THEN 1 ELSE 0) <= e[j]
           /\ taken' = [taken EXCEPT ![k] = @ + 1]

BodiesInit ==
    /\ row = [m \in Messages |-> [at |-> "new", body |-> FALSE]]
    /\ disk = [n \in Names |-> 0] /\ inodes = <<>> /\ tasks = {}
    /\ strayed = {} /\ overlapped = {}
    /\ taken = [opens |-> 0, moves |-> 0, prunes |-> 0, fails |-> 0, crashes |-> 0]
-----------------------------------------------------------------------------
(* The sync finds a new message; with a blob store its body is due.        *)
Arrive(m, f) ==
    /\ row[m].at = "new" /\ row' = [row EXCEPT ![m].at = f]
    /\ \/ tasks' = tasks \cup {Task(0, m, f, "fetch")}
       \/ UNCHANGED tasks
    /\ UNCHANGED <<disk, inodes, history, taken>>

(* The reader shows a message.  When the row records a body it reads the   *)
(* file, which changes nothing; else it fetches.                           *)
Render(m) ==
    /\ row[m].at \in Shelves /\ ~row[m].body /\ Take("opens")
    /\ tasks' = tasks \cup {Task(taken.opens + 1, m, row[m].at, "fetch")}
    /\ UNCHANGED <<row, disk, inodes, history>>

(* The server answers, or does not: then the row stays without a body.     *)
FetchBody(t) ==
    /\ t.at = "fetch" /\ Become(t, [t EXCEPT !.at = "create"])
    /\ UNCHANGED <<row, disk, inodes, history, taken>>
FetchFails(t) ==
    /\ t.at = "fetch" /\ Take("fails") /\ Finish(t) /\ UNCHANGED <<row, disk, inodes, history>>

(* put: File::create truncates the file that is there.                     *)
CreateFinal(t) ==
    LET n == Eml(t.of, t.id)
        i == IF Exists(n) THEN disk[n] ELSE Len(inodes) + 1
    IN /\ t.at = "create"
       /\ disk' = [disk EXCEPT ![n] = i, ![Tmp(t.of, t.id)] = i]
       /\ inodes' = [j \in DOMAIN inodes \cup {i} |-> IF j = i THEN {} ELSE inodes[j]]
       /\ overlapped' = overlapped \cup (IF Writes(t.of, t.id) = {} THEN {} ELSE {<<t.of, t.id>>})
       /\ Become(t, [t EXCEPT !.at = "write", !.inode = i])
       /\ UNCHANGED <<row, strayed, taken>>
Create(t) ==
    LET n == Tmp(t.of, t.id)
        i == IF Exists(n) THEN disk[n] ELSE Len(inodes) + 1
    IN /\ t.at = "create"
       /\ disk' = [disk EXCEPT ![n] = i]
       /\ inodes' = [j \in DOMAIN inodes \cup {i} |-> IF j = i THEN {} ELSE inodes[j]]
       /\ overlapped' = overlapped \cup (IF Writes(t.of, t.id) = {} THEN {} ELSE {<<t.of, t.id>>})
       /\ Become(t, [t EXCEPT !.at = "write", !.inode = i])
       /\ UNCHANGED <<row, strayed, taken>>
Write(t) ==
    /\ t.at = "write"
    /\ LET h == IF 1 \in t.left THEN 1 ELSE 2
       IN /\ inodes' = [inodes EXCEPT ![t.inode] = @ \cup {h}]
          /\ Become(t, [t EXCEPT !.left = @ \ {h}, !.at = IF h = 2 THEN "rename" ELSE "write"])
    /\ UNCHANGED <<row, disk, history, taken>>

(* The name of the other put may be gone: this one fails, and the bytes    *)
(* are shown without being recorded.                                       *)
Rename(t) ==
    LET n == Tmp(t.of, t.id) IN
    /\ t.at = "rename"
    /\ IF Exists(n)
       THEN /\ disk' = [disk EXCEPT ![Eml(t.of, t.id)] = disk[n], ![n] = 0]
            /\ Become(t, [t EXCEPT !.at = "record"])
       ELSE Finish(t) /\ UNCHANGED disk
    /\ UNCHANGED <<row, inodes, history, taken>>

(* set_body_path; a row that is gone is logged.                            *)
Record(t) ==
    /\ t.at = "record" /\ Finish(t)
    /\ row' = IF row[t.id].at \in Shelves THEN [row EXCEPT ![t.id].body = TRUE] ELSE row
    /\ UNCHANGED <<disk, inodes, history, taken>>
-----------------------------------------------------------------------------
(* set_folder leaves body_path as it is.                                   *)
Move(m, f) ==
    /\ row[m].at \in Shelves \ {f} /\ Take("moves")
    /\ row' = [row EXCEPT ![m].at = f] /\ strayed' = strayed \cup {m}
    /\ UNCHANGED <<disk, inodes, tasks, overlapped>>

(* The sync prunes the row, then removes the file, if it is there.         *)
Prune(m) ==
    /\ row[m].at \in Shelves /\ Take("prunes")
    /\ row' = [row EXCEPT ![m] = [at |-> "gone", body |-> FALSE]]
    /\ tasks' = tasks \cup {Task(0, m, row[m].at, "unlink")}
    /\ strayed' = IF Coming(m) = {} THEN strayed ELSE strayed \cup {m}
    /\ UNCHANGED <<disk, inodes, overlapped>>
Unlink(t) ==
    /\ t.at = "unlink" /\ Finish(t)
    /\ disk' = [disk EXCEPT ![Eml(t.of, t.id)] = 0]
    /\ UNCHANGED <<row, inodes, history, taken>>

(* The process ends: files and rows stay as they are.                      *)
ProcessEnds ==
    /\ tasks # {} /\ Take("crashes") /\ tasks' = {}
    /\ strayed' = strayed \cup {t.id : t \in {u \in tasks : u.at = "unlink"}}
    /\ UNCHANGED <<row, disk, inodes, overlapped>>

Steps(t) == FetchBody(t) \/ FetchFails(t) \/ Create(t) \/ Write(t) \/ Rename(t) \/ Record(t) \/ Unlink(t)
BodiesNext ==
    \/ \E m \in Messages : Render(m) \/ Prune(m) \/ (\E f \in Shelves : Arrive(m, f) \/ Move(m, f))
    \/ \E t \in tasks : Steps(t)
    \/ ProcessEnds

BodiesSpec == BodiesInit /\ [][BodiesNext]_bodiesVars
-----------------------------------------------------------------------------
(* Files and rows agree, however renders, syncs, moves and crashes fall: a *)
(* file is whole unless two puts of the message overlapped, even when the  *)
(* process ended half way; a row that records a body has its file, and a   *)
(* message that is gone has none, unless it was moved, or pruned or        *)
(* dropped while its body was on its way.                                  *)
WholeUnlessOverlapped ==
    \A n \in Names : (n[3] = "eml" /\ Exists(n) /\ <<n[1], n[2]>> \notin overlapped) => inodes[disk[n]] = Halves
RecordedIsStored ==
    \A m \in Messages \ strayed : row[m].body => Exists(Eml(row[m].at, m))
NothingIsLeft ==
    \A m \in Messages \ strayed, f \in Shelves :
        (row[m].at = "gone" /\ Exists(Eml(f, m))) => \E t \in tasks : t.at = "unlink" /\ t.id = m /\ t.of = f
BodiesAreSound == WholeUnlessOverlapped /\ RecordedIsStored /\ NothingIsLeft
=============================================================================
