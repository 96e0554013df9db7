----------------------------- MODULE Attachments -----------------------------
(***************************************************************************)
(* Opening an attachment: the reader lists the parts that are files        *)
(* (body_from in mime/src/lib.rs, ReaderAttachments in app.rs); a click    *)
(* takes the part out of the message, writes it to the Downloads folder    *)
(* under a name that is free there, and hands the file to the system       *)
(* unless it could run (messages_open_attachment).  A name is a sequence   *)
(* of pieces: words, ".", "/" for any character that is not allowed, " ",  *)
(* and numbers that unique_path has added.                                 *)
(***************************************************************************)
EXTENDS Naturals, Sequences, FiniteSets
LOCAL INSTANCE TLC

CONSTANTS
    Parcels,     \* message -> its parts, each [kind, name]; <<>> for no name
    Reserved,    \* words that Windows takes for devices
    Unsafe,      \* extensions of what is run rather than displayed
    MostTries,   \* 999 in unique_path
    Clickings,   \* bounds: how often what kind of thing happens
    AtATime      \* bound: calls under way

(* A number, as it is written: it holds no dot.                            *)
Numeral(n) == ToString(n)
ASSUME AttachmentAssumption ==
    /\ MostTries \in Nat /\ \A n \in 1..MostTries : Numeral(n) # "."
    /\ \A m \in DOMAIN Parcels : \A i \in DOMAIN Parcels[m] : Parcels[m][i].name \in Seq(STRING)

VARIABLES
    downloads,   \* the folder: name -> what the file holds
    openings,    \* messages_open_attachment calls under way
    results,     \* history: what the calls that wrote a file wrote, and to which name
    launched,    \* history: the names handed to the system
    raced,       \* history: names that two calls chose at a time, or that were overwritten
                 \* after the last try, or that the user took away
    count

attachmentVars == <<downloads, openings, results, launched, raced, count>>

Counted(k) ==
    /\ \E c \in Clickings : \A j \in DOMAIN c : count[j] + (IF j = k THEN 1 ELSE 0) <= c[j]
    /\ count' = [count EXCEPT ![k] = @ + 1]

AttachmentInit ==
    /\ downloads = <<>> /\ openings = {} /\ results = {} /\ launched = {} /\ raced = {}
    /\ count = [clicks |-> 0, fails |-> 0, removes |-> 0]
-----------------------------------------------------------------------------
(* The parts of message m that are listed, and the name one is saved by:   *)
(* both walks number the parts alike.                                      *)
IsFile(part) == part.kind \in {"binary", "inline"}
Listed(m) == {i \in DOMAIN Parcels[m] : IsFile(Parcels[m][i])}

Filename(m, i) == IF Parcels[m][i].name = <<>> THEN <<"attachment", Numeral(i)>> ELSE Parcels[m][i].name

Trimmed(name) ==
    LET words == {k \in DOMAIN name : name[k] \notin {".", " "}}
    IN  IF words = {} THEN <<>>
        ELSE SubSeq(name, CHOOSE k \in words : \A l \in words : k <= l,
                          CHOOSE k \in words : \A l \in words : l <= k)

SafeName(raw) ==
    LET name == Trimmed([k \in DOMAIN raw |-> IF raw[k] = "/" THEN "_" ELSE raw[k]])
    IN  IF name = <<>> THEN <<"attachment", ".", "bin">>
        ELSE IF name[1] \in Reserved /\ (Len(name) = 1 \/ name[2] = ".") THEN <<"_">> \o name
        ELSE name

(* unique_path: a number goes before the last dot, unless the name begins  *)
(* with it.                                                                *)
LastDot(name) == LET dots == {k \in DOMAIN name : name[k] = "."}
                 IN  IF dots = {} THEN Len(name) + 1 ELSE CHOOSE k \in dots : \A l \in dots : l <= k

Numbered(name, n) ==
    LET d == IF LastDot(name) > 1 THEN LastDot(name) ELSE Len(name) + 1
    IN  SubSeq(name, 1, d - 1) \o <<Numeral(n)>> \o SubSeq(name, d, Len(name))

FirstFree(name) ==
    LET free == {n \in 1 .. MostTries : Numbered(name, n) \notin DOMAIN downloads}
    IN  IF free = {} THEN name ELSE Numbered(name, CHOOSE n \in free : \A k \in free : n <= k)
NextNumber(name) == Numbered(name, 1)
Suffixed(name) == FirstFree(name)

UniquePath(name) == IF name \notin DOMAIN downloads THEN name ELSE Suffixed(name)

IsUnsafeToLaunch(name) == LastDot(name) < Len(name) /\ name[LastDot(name) + 1] \in Unsafe
-----------------------------------------------------------------------------
OpenAttachment(m, i) ==
    /\ i \in Listed(m) /\ Cardinality(openings) < AtATime /\ Counted("clicks")
    /\ openings' = openings \cup
           {[n |-> count.clicks, part |-> <<m, i>>, at |-> "body", safe |-> <<>>, name |-> <<>>]}
    /\ UNCHANGED <<downloads, results, launched, raced>>

(* No body, or the folder or the file cannot be written: the call ends.    *)
OpenFails(o) ==
    /\ o.at \in {"body", "write"} /\ Counted("fails") /\ openings' = openings \ {o}
    /\ UNCHANGED <<downloads, results, launched, raced>>

(* The bytes are there: the name is chosen.                                *)
UsedUp(name) == {name} \cup {Numbered(name, n) : n \in 1 .. MostTries} \subseteq DOMAIN downloads

ChooseName(o) ==
    LET safe == SafeName(Filename(o.part[1], o.part[2]))
        name == UniquePath(safe)
    IN  /\ o.at = "body"
        /\ openings' = (openings \ {o}) \cup {[n |-> o.n, part |-> o.part, at |-> "write",
                                               safe |-> safe, name |-> name]}
        /\ raced' = IF UsedUp(safe) \/ \E p \in openings : p.at = "write" /\ p.name = name
                    THEN raced \cup {name} ELSE raced
        /\ UNCHANGED <<downloads, results, launched, count>>

WriteFile(o) ==
    /\ o.at = "write"
    /\ downloads' = [f \in DOMAIN downloads \cup {o.name} |-> IF f = o.name THEN o.n ELSE downloads[f]]
    /\ results' = results \cup {[n |-> o.n, part |-> o.part, name |-> o.name]}
    /\ openings' = IF IsUnsafeToLaunch(o.safe) THEN openings \ {o}
                   ELSE (openings \ {o}) \cup {[o EXCEPT !.at = "open"]}
    /\ UNCHANGED <<launched, raced, count>>

(* webbrowser::open, whether or not the system can open it                 *)
LaunchFile(o) ==
    /\ o.at = "open" /\ openings' = openings \ {o} /\ launched' = launched \cup {o.name}
    /\ UNCHANGED <<downloads, results, raced, count>>

(* The user takes a file out of the folder.                                *)
TakeAway(f) ==
    /\ Counted("removes") /\ raced' = raced \cup {f}
    /\ downloads' = [g \in DOMAIN downloads \ {f} |-> downloads[g]]
    /\ UNCHANGED <<openings, results, launched>>

AttachmentNext ==
    \/ \E m \in DOMAIN Parcels : \E i \in Listed(m) : OpenAttachment(m, i)
    \/ \E o \in openings : OpenFails(o) \/ ChooseName(o) \/ WriteFile(o) \/ LaunchFile(o)
    \/ \E f \in DOMAIN downloads : TakeAway(f)

AttachmentSpec == AttachmentInit /\ [][AttachmentNext]_attachmentVars
-----------------------------------------------------------------------------
(* "suffixed (1), (2), … on collision": every call's file is still there   *)
(* with what it wrote, whatever was opened afterwards, unless two calls    *)
(* chose one name at a time or the tries were used up; and the suffix does *)
(* not change what kind of file the system is handed.                      *)
FilesAreKept ==
    /\ \A r \in results : r.name \in raced \/ (r.name \in DOMAIN downloads /\ downloads[r.name] = r.n)
    /\ \A f \in launched : ~IsUnsafeToLaunch(f)
=============================================================================
