------------------------------- MODULE Folders -------------------------------
(***************************************************************************)
(* The accounts in one table: the mailboxes that the servers list (IMAP    *)
(* list_folders, JMAP list_folders), the ids that qsl-core mints for them, *)
(* the rows of folders and messages that a pass of sync_account writes,    *)
(* and who reads them: folders_list for the sidebar, messages_list_unified *)
(* for the unified inbox.  Every account has an INBOX, and folders.id is a *)
(* global key.                                                             *)
(*                                                                         *)
(* A mailbox goes by what its server finds it by: its name in IMAP, where  *)
(* a rename makes another one of it; an opaque id in JMAP, where a rename  *)
(* changes a column of its row and is left out.  A sync is one step here;  *)
(* what comes between its requests is in Mailbox and JmapSync.             *)
(***************************************************************************)
EXTENDS Naturals, FiniteSets

CONSTANTS
    Tenants,         \* the accounts: what kind of server each has
    Roles,           \* the mailboxes, with the role the server gives them ("" for none)
    Items,           \* the messages there may be in an account
    Given,           \* where each message of an account is at first
    Months           \* bounds: how often what kind of thing happens

Owners == DOMAIN Tenants
BoxKeys == DOMAIN Roles

(* One mailbox of an account is its inbox.                                 *)
ASSUME FoldersAssumption ==
    /\ "unborn" \notin BoxKeys /\ "destroyed" \notin BoxKeys
    /\ Given \in [Owners -> [Items -> BoxKeys \cup {"unborn"}]]
    /\ \A n, m \in BoxKeys : Roles[n] = "inbox" /\ Roles[m] = "inbox" => n = m

VARIABLES
    abroad,      \* the servers: account -> the mailbox of each message, "unborn" or "destroyed"
    stamps,      \* the servers: at which state a message changed last; in IMAP, its UID
    tides,       \* the servers: the state of each account; in IMAP, one below UIDNEXT
    folders,     \* the table folders, by id: owner, role
    messages,    \* the table messages: id, folder
    cursors,     \* sync_states: the state that a folder has seen
    walk,        \* the pass of an account: the mailboxes still to be synced
    promised,    \* history: what the server had when (account, mailbox) was last synced
    claimed,     \* history: what a later sync of another mailbox took (account, mailbox, message)
    block,       \* the sidebar: the folders of each account, with counts
    selection,   \* the folder that is shown
    calendar

servers == <<abroad, stamps, tides>>
tables == <<folders, messages, cursors, promised, claimed>>
folderVars == <<servers, tables, walk, block, selection, calendar>>

Once(k) ==
    /\ \E m \in Months : \A j \in DOMAIN m : calendar[j] + (IF j = k THEN 1 ELSE 0) <= m[j]
    /\ calendar' = [calendar EXCEPT ![k] = @ + 1]
IsJmap(a) == Tenants[a] = "jmap"
MailIn(a, n) == {e \in Items : abroad[a][e] = n}
Mailboxes(a) == {abroad[a][e] : e \in Items} \cap BoxKeys

(* FolderId::scoped and what it replaced; the mailbox that an id stands    *)
(* for on the wire is its last part (backend_key).  Ids of messages: the   *)
(* folder and the UID; or the email's own, which no folder is part of, and *)
(* which two accounts are taken not to share.                              *)
Bare(a, n) == <<"", n>>
ScopedId(a, n) == <<a, n>>
Scoped(a, n) == ScopedId(a, n)
MessageId(a, n, e) == [of |-> IF IsJmap(a) THEN <<a>> ELSE Scoped(a, n), mail |-> e]
Away == [at |-> "rest", of |-> "", left |-> {}]

FoldersInit ==
    /\ abroad = Given /\ tides = [a \in Owners |-> 1]
    /\ stamps = [a \in Owners |-> [e \in Items |-> 1]]
    /\ folders = <<>> /\ messages = {} /\ cursors = <<>> /\ walk = Away
    /\ promised = [a \in Owners |-> [n \in BoxKeys |-> {}]] /\ claimed = {}
    /\ block = [a \in Owners |-> [mailboxes |-> {}, labels |-> {}]] /\ selection = <<>>
    /\ calendar = [passes |-> 0, changes |-> 0, reads |-> 0]
-----------------------------------------------------------------------------
(* The servers: mail arrives, is gone for good, or (JMAP) is moved or gets *)
(* a keyword.  No mailbox becomes empty: what the reconciliation spares    *)
(* then is in JmapSync.                                                    *)
Becomes(a, e, n) ==
    /\ Once("changes") /\ abroad' = [abroad EXCEPT ![a][e] = n]
    /\ tides' = [tides EXCEPT ![a] = @ + 1] /\ stamps' = [stamps EXCEPT ![a][e] = tides[a] + 1]
    /\ UNCHANGED <<tables, walk, block, selection>>
StaysFilled(a, e) == abroad[a][e] \in BoxKeys /\ MailIn(a, abroad[a][e]) # {e}
MailArrives(a, e, n) == abroad[a][e] = "unborn" /\ n \in Mailboxes(a) /\ Becomes(a, e, n)
MailIsGone(a, e) == StaysFilled(a, e) /\ Becomes(a, e, "destroyed")
MailChanges(a, e, n) ==
    /\ IsJmap(a) /\ n \in Mailboxes(a) /\ (n = abroad[a][e] \/ StaysFilled(a, e))
    /\ Becomes(a, e, n)

(* A mailbox of an IMAP account is renamed, and keeps its UIDs.  None      *)
(* takes the name of one that was synced and is gone: that one has another *)
(* UIDVALIDITY, and what that means is in Mailbox.                         *)
RenameMailbox(a, n, m) ==
    /\ ~IsJmap(a) /\ n \in Mailboxes(a) /\ Roles[n] # "inbox" /\ m \notin Mailboxes(a)
    /\ promised[a][m] = {} /\ Once("changes")
    /\ abroad' = [abroad EXCEPT ![a] = [e \in Items |-> IF @[e] = n THEN m ELSE @[e]]]
    /\ UNCHANGED <<stamps, tides, tables, walk, block, selection>>
-----------------------------------------------------------------------------
(* sync_account: one LIST; or a Mailbox/query and a Mailbox/get for each   *)
(* id.                                                                     *)
ListFolders(a) ==
    /\ walk.at = "rest" /\ Once("passes")
    /\ walk' = [at |-> "sync", of |-> a, left |-> Mailboxes(a)]
    /\ UNCHANGED <<servers, tables, block, selection>>

(* name_to_folder, mailbox_to_folder                                       *)
FolderOf(a, n) == [owner |-> a, role |-> Roles[n]]
Set(f, k, v) == [x \in DOMAIN f \cup {k} |-> IF x = k THEN v ELSE f[x]]
Cursor(id) == IF id \in DOMAIN cursors THEN cursors[id] ELSE 0

(* list_messages: in IMAP what is new in the mailbox; in JMAP all of it at *)
(* first, and then whatever changed in the account, in any mailbox.        *)
ChangedSince(a, state) == {e \in Items : stamps[a][e] > state}
ByChanges(a, state) == IsJmap(a) /\ state # 0
NewIn(a, n, state) ==
    {e \in ChangedSince(a, state) : IF ByChanges(a, state) THEN abroad[a][e] \in BoxKeys ELSE abroad[a][e] = n}
RemovedFrom(a, state) ==
    IF ByChanges(a, state) THEN {e \in ChangedSince(a, state) : abroad[a][e] = "destroyed"} ELSE {}

(* sync_folder: the row first, whatever becomes of the rest; then what was *)
(* listed goes to this folder, from whichever it was in; what was removed  *)
(* goes, and so do the rows of the folder that the mailbox does not have.  *)
IdsOf(a, n, mail) == {MessageId(a, n, e) : e \in mail}
SyncMailbox(n) ==
    LET a == walk.of
        id == Scoped(a, n)
        here == MailIn(a, n)
        got == NewIn(a, n, Cursor(id))
        taken == got \cup RemovedFrom(a, Cursor(id))
        applied == {m \in messages : m.id \notin IdsOf(a, n, taken)}
                       \cup {[id |-> i, folder |-> id] : i \in IdsOf(a, n, got)}
        Pruned(m) == Cursor(id) # 0 /\ m.folder = id /\ m.id \notin IdsOf(a, n, here)
    IN  /\ walk.at = "sync" /\ n \in walk.left
        /\ walk' = [walk EXCEPT !.left = @ \ {n}]
        /\ folders' = Set(folders, id, FolderOf(a, n))
        /\ IF here = {} THEN UNCHANGED <<messages, cursors, promised, claimed>>
           ELSE /\ messages' = {m \in applied : ~Pruned(m)}
                /\ cursors' = Set(cursors, id, tides[a])
                /\ promised' = [promised EXCEPT ![a][n] = here]
                /\ claimed' = (claimed \ ({a} \X {n} \X got)) \cup ({a} \X (BoxKeys \ {n}) \X taken)
        /\ UNCHANGED <<servers, block, selection, calendar>>
PassEnds ==
    /\ walk.at = "sync" /\ walk.left = {} /\ walk' = Away
    /\ UNCHANGED <<servers, tables, block, selection, calendar>>
-----------------------------------------------------------------------------
(* list_by_account, list_by_role; the counts are taken from messages.      *)
ByAccount(a) == {id \in DOMAIN folders : folders[id].owner = a}
ByRole(r) == {id \in DOMAIN folders : folders[id].role = r}
InFolder(id) == {m \in messages : m.folder = id}

(* split_mailboxes_labels: folders with one of these roles are mailboxes,  *)
(* the others labels.                                                      *)
Bands == {"inbox", "flagged", "sent", "drafts", "all", "spam", "trash", "archive"}
Split(ids) ==
    LET banded == {id \in ids : folders[id].role \in Bands}
        Counted(some) == {[id |-> id, count |-> Cardinality(InFolder(id))] : id \in some}
    IN  [mailboxes |-> Counted(banded), labels |-> Counted(ids \ banded)]

(* SidebarAccountBlock: the first inbox that arrives is selected while     *)
(* nothing is.                                                             *)
AutoSelect(a) ==
    LET inboxes == ByAccount(a) \cap ByRole("inbox")
    IN  selection' = IF selection = <<>> /\ inboxes # {} THEN CHOOSE id \in inboxes : TRUE
                     ELSE selection

(* folders_list, for one block of the sidebar.                             *)
FoldersList(a) ==
    /\ Once("reads") /\ block' = [block EXCEPT ![a] = Split(ByAccount(a))] /\ AutoSelect(a)
    /\ UNCHANGED <<servers, tables, walk>>

(* messages_list_unified                                                   *)
Unified == UNION {InFolder(id) : id \in ByRole("inbox")}

Servers(a) ==
    \/ \E e \in Items : MailIsGone(a, e) \/ (\E n \in BoxKeys : MailArrives(a, e, n) \/ MailChanges(a, e, n))
    \/ \E n, m \in BoxKeys : RenameMailbox(a, n, m)
FoldersNext ==
    \/ \E a \in Owners : Servers(a) \/ ListFolders(a) \/ FoldersList(a)
    \/ PassEnds \/ (\E n \in BoxKeys : SyncMailbox(n))
FoldersSpec == FoldersInit /\ [][FoldersNext]_folderVars
-----------------------------------------------------------------------------
(* Accounts that use the same names stay apart: what an account shows      *)
(* under a name is what its own server had there when it was last synced,  *)
(* whatever passes of other accounts came between; the unified inbox has   *)
(* the inboxes of all; and the inbox selected at first stays one ("two     *)
(* accounts syncing the same bare name would take turns re-owning one row, *)
(* sharing one sync cursor, and pruning each other's messages",            *)
(* ids.rs:68).  The mailboxes of one JMAP account do take each other's:    *)
(* what a later sync of another mailbox was told of is missing.            *)
Owed(a, n) ==
    IF IsJmap(a) THEN {e \in promised[a][n] : <<a, n, e>> \notin claimed} ELSE promised[a][n]
IdsListed(ids) == {m.id : m \in UNION {InFolder(id) : id \in ids}}
ListingsAreTheirOwn ==
    \A a \in Owners, n \in BoxKeys :
        promised[a][n] # {} => IdsListed({id \in ByAccount(a) : id[2] = n}) = IdsOf(a, n, Owed(a, n))
UnifiedIsComplete ==
    \A a \in Owners, n \in BoxKeys :
        (promised[a][n] # {} /\ Roles[n] = "inbox")
            => {m.id : m \in {x \in Unified : folders[x.folder].owner = a}} = IdsOf(a, n, Owed(a, n))
FoldersStayApart ==
    /\ ListingsAreTheirOwn /\ UnifiedIsComplete
    /\ selection # <<>> => \E a \in Owners : selection \in ByAccount(a) \cap ByRole("inbox")
===============================================================================
