------------------------------ MODULE MCParts ------------------------------
(***************************************************************************)
(* Small instances of the modules that share no state with another: each   *)
(* behaviour is that of one of them, the part, and the rest stays as it    *)
(* is.                                                                     *)
(***************************************************************************)
EXTENDS Storage, ImapSession, Attachments, Settings, PullPanel, Paging, JmapOps, Bodies,
    Compose, Reader, Folders, Threading, Recipients, Replies, Delivery, TLC

CONSTANT
    Parts        \* the parts of a run

VARIABLE part

VARIABLES  (* Lists *)
    where, local, seen, news, calls, box, open, searching, limit, tail,
    older, rows, fetch, checked, dragged, menu, clicked, lost, spent
VARIABLES  (* AddAccount *)
    window, awaits, flows, entry, token, removal, signals, sidebar, lookup,
    heard, mixed, torn, told
VARIABLES  (* JmapSync *)
    mailbox, changed, epoch, listed, states, turn, work, passed, broken

-----------------------------------------------------------------------------
(* The text typed, clicks on Send or Save, panes, whims (undo, discard)    *)
(* and mishaps of an hour of writing.                                      *)
Hour(t, c, p, w, m) == [text |-> t, clicks |-> c, panes |-> p, whims |-> w, mishaps |-> m]
PlansDef == {Hour(1, 2, 1, 0, 1), Hour(2, 1, 1, 0, 0), Hour(1, 1, 2, 1, 0),
             Hour(1, 1, 1, 1, 1), Hour(2, 0, 1, 1, 0)}

Course(m, r, l, s, f) == [moves |-> m, reads |-> r, looks |-> l, syncs |-> s, fails |-> f]
Courses == {Course(1, 0, 2, 0, 0), Course(2, 0, 0, 0, 0), Course(1, 0, 0, 1, 0),
            Course(0, 1, 2, 0, 0), Course(1, 0, 1, 0, 1), Course(1, 1, 0, 0, 0)}
Mail == 4
Page == 2
Targets == {"gone"}
Threads == {{3}, {3, 4}}

Story(l, v, r, f) == [flows |-> l, visits |-> v, removes |-> r, fails |-> f]
Stories == {Story(1, 1, 1, 1), Story(2, 1, 0, 0), Story(1, 2, 0, 0)}

Day(c, f, e, r) == [clicks |-> c, fails |-> f, edits |-> e, removes |-> r]
DaysDef == {Day(2, 0, 0, 0), Day(1, 1, 0, 0), Day(0, 0, 2, 1)}
AccountOrderDef == <<"a", "b">>

Press(s, c, p, f, r, x) ==
    [starts |-> s, cancels |-> c, picks |-> p, fails |-> f, resumes |-> r, restarts |-> x]
ClicksDef == {Press(1, 1, 0, 1, 0, 0), Press(2, 1, 0, 0, 0, 0), Press(2, 0, 1, 0, 0, 0),
              Press(1, 1, 0, 0, 1, 1), Press(1, 0, 0, 1, 2, 1), Press(2, 0, 0, 0, 1, 0)}
FolderOrderDef == <<"all", "inbox">>

(* One name has a comma, two begin alike.                                  *)
Session(g, t, p, m) == [sightings |-> g, types |-> t, picks |-> p, moves |-> m]
SessionsDef == {Session(2, 2, 2, 0), Session(2, 3, 1, 0), Session(1, 1, 1, 2), Session(2, 2, 1, 1),
             Session(3, 1, 0, 0)}
PeopleDef == {1, 2}
NameOfDef == 1 :> <<"Doe", "Jane">> @@ 2 :> <<"Ann">>
BeginsDef == "do" :> {1} @@ "an" :> {1, 2}

Opener(f, r, t, c) ==
    [from |-> f, replyTo |-> r, to |-> t, cc |-> c, refs |-> <<>>, parent |-> 0,
     kind |-> "first", on |-> 0, self |-> ""]
OpenersDef == {Opener(<<"p">>, <<>>, <<"me">>, <<"q">>),
            Opener(<<"p">>, <<"list">>, <<"q">>, <<"me">>),
            Opener(<<"me">>, <<>>, <<"p", "q">>, <<>>)}

(* A remote image and a link; a style of which nothing is known; a letter  *)
(* without a sender whose srcset has a remote candidate.                   *)
Attribute(n, u) == [name |-> n, urls |-> u]
Element(t, as) == [tag |-> t, attributes |-> as]
TextsDef ==
    "m" :> [from |-> "x", thread |-> "t",
            html |-> {Element("img", {Attribute("src", {"remote"})}),
                      Element("a", {Attribute("href", {"remote"})})}]
 @@ "n" :> [from |-> "y", thread |-> "u",
            html |-> {Element("div", {Attribute("style", {"unclear"}), Attribute("style", {"inline"})}),
                      Element("a", {Attribute("href", {"inline"})}),
                      Element("link", {Attribute("href", {"remote"})})}]
 @@ "o" :> [from |-> "", thread |-> "t",
            html |-> {Element("img", {Attribute("srcset", {"inline", "remote"}),
                                      Attribute("src", {"inline"})})}]
Evening(s, a, t, w, f) == [selects |-> s, asks |-> a, toggles |-> t, windows |-> w, fails |-> f]
EveningsDef == {Evening(2, 1, 0, 1, 0), Evening(2, 1, 0, 0, 1), Evening(1, 1, 1, 2, 0)}

Scroll(l, e, a, m, f) == [loads |-> l, expunges |-> e, arrives |-> a, moves |-> m, fails |-> f]
MischiefDef == {Scroll(3, 1, 1, 0, 0), Scroll(2, 1, 0, 1, 1), Scroll(3, 0, 1, 1, 0)}

Mailing(r, f, s, d) == [reply |-> r, refs |-> f, subject |-> s, day |-> d]
PostDef == "a" :> Mailing(<<>>, <<>>, "s", 5) @@ "b" :> Mailing(<<"a">>, <<"a">>, "t", 6)
               @@ "c" :> Mailing(<<"x">>, <<"a", "x">>, "s", 1)
Outing(c, p, h, d, f) == [chunks |-> c, pages |-> p, pulls |-> h, prunes |-> d, fails |-> f]
OutingsDef == {Outing(1, 1, 0, 0, 0), Outing(2, 0, 1, 0, 0), Outing(1, 0, 1, 1, 1),
               Outing(0, 1, 1, 0, 1)}
ChunksDef == {<<m>> : m \in DOMAIN PostDef} \cup {s \in (DOMAIN PostDef) \X (DOMAIN PostDef) : s[1] # s[2]}

Errand(o, m, p, f, c) == [opens |-> o, moves |-> m, prunes |-> p, fails |-> f, crashes |-> c]
ErrandsDef == {Errand(2, 0, 0, 1, 1), Errand(1, 1, 1, 0, 0), Errand(2, 0, 1, 0, 0),
               Errand(1, 0, 1, 0, 1)}

Letter(t, c, b, q) == [to |-> t, cc |-> c, bcc |-> b, refs |-> <<"r1", "r2">>, quotes |-> q]
LettersDef == {Letter(<<"a">>, <<>>, <<"b", "c">>, TRUE), Letter(<<>>, <<>>, <<"b">>, FALSE),
            Letter(<<"a", "b">>, <<"c">>, <<"b">>, TRUE), Letter(<<>>, <<>>, <<>>, FALSE),
            Letter(<<"a", "b">>, <<"c">>, <<>>, FALSE)}
Fortune(n, r, l, k) == [network |-> n, rejects |-> r, lost |-> l, crashes |-> k]
FortunesDef == {Fortune(1, 1, 1, 1), Fortune(2, 0, 0, 0), Fortune(0, 0, 2, 1)}

Month(p, c, r) == [passes |-> p, changes |-> c, reads |-> r]
MonthsDef == {Month(3, 1, 1), Month(2, 2, 1), Month(3, 2, 0)}
ItemsDef == 1..3
TenantsDef == [gmail |-> "imap", fast |-> "jmap"]
RolesDef == [INBOX |-> "inbox", Old |-> "archive", Older |-> ""]
Spread(a, b, c) == [x \in ItemsDef |-> CASE x = 1 -> a [] x = 2 -> b [] OTHER -> c]
GivenDef == [gmail |-> Spread("INBOX", "Old", "unborn"), fast |-> Spread("INBOX", "Old", "unborn")]

Order == <<"inbox", "archive">>
Remote == 2
Broken == 1

Request(k, i) == [kind |-> k, ids |-> i]
BatchesDef == {Request("flags", <<"e", "d">>), Request("move", <<"d", "e">>),
               Request("delete", <<"e", "d">>), Request("draft", <<>>)}
Season(r, f, o) == [rows |-> r, fails |-> f, others |-> o]
SeasonsDef == {Season(2, 1, 1), Season(1, 2, 1), Season(3, 1, 0)}
(* Two connections in the desktop, one in mailcli, each migrates on one.   *)
Trial(c, f, k) == [calls |-> c, fails |-> f, crashes |-> k]
TrialsDef == {Trial(2, 1, 0), Trial(1, 1, 1)}
ProgramsDef == "desktop" :> {"db", "sync_db"} @@ "mailcli" :> {"cli"}
MigratingDef == "desktop" :> "db" @@ "mailcli" :> "cli"

Weather(c, d, t, r) == [calls |-> c, drops |-> d, timeouts |-> t, recreates |-> r]
WeathersDef == {Weather(3, 1, 1, 0), Weather(3, 0, 0, 1)}
AdvertisedDef == {{"CONDSTORE", "IDLE", "X-GM-EXT-1"}, {"CONDSTORE", "IDLE"}}

(* A name that collides, none, and one that Windows would not take.        *)
Piece(k, n) == [kind |-> k, name |-> n]
ParcelsDef ==
    "m" :> <<Piece("text", <<>>), Piece("binary", <<"a", ".", "pdf">>), Piece("inline", <<>>)>>
 @@ "n" :> <<Piece("binary", <<".", "CON", ".", "exe", ".">>)>>
Clicking(c, f, r) == [clicks |-> c, fails |-> f, removes |-> r]
ClickingsDef == {Clicking(4, 0, 0), Clicking(2, 1, 1)}

-----------------------------------------------------------------------------
Lists == INSTANCE Lists
AddAccount == INSTANCE AddAccount
JmapSync == INSTANCE JmapSync

listsVars == <<where, local, seen, news, calls, box, open, searching, limit,
    tail, older, rows, fetch, checked, dragged, menu, clicked, lost, spent>>
addaccountVars == <<window, awaits, flows, entry, token, removal, signals,
    sidebar, lookup, heard, mixed, torn, told>>
jmapsyncVars == <<mailbox, changed, epoch, listed, states, turn, work,
    passed, broken>>
partVars == <<part, composeVars, listsVars, addaccountVars, settingsVars,
    pullVars, recipientVars, replyVars, readerVars, pagingVars,
    threadVars, bodiesVars, deliveryVars, folderVars, jmapsyncVars,
    jmapopsVars, storageVars, sessionVars, attachmentVars>>

Init ==
    /\ part \in Parts
    /\ Lists!Init
    /\ AddAccount!Init
    /\ JmapSync!Init
    /\ StorageInit /\ SessionInit /\ AttachmentInit /\ PagingInit
    /\ OpsInit /\ BodiesInit /\ ComposeInit /\ SettingsInit /\ PullInit /\ ReaderInit
    /\ FoldersInit /\ ThreadsInit /\ RecipientsInit /\ RepliesInit /\ DeliveryInit

(* A step of part p.                                                       *)
Only(p) ==
    /\ part = p /\ UNCHANGED part
    /\ p # "compose" => UNCHANGED composeVars
    /\ p # "lists" => UNCHANGED listsVars
    /\ p # "addaccount" => UNCHANGED addaccountVars
    /\ p # "settings" => UNCHANGED settingsVars
    /\ p # "pullpanel" => UNCHANGED pullVars
    /\ p # "recipients" => UNCHANGED recipientVars
    /\ p # "replies" => UNCHANGED replyVars
    /\ p # "reader" => UNCHANGED readerVars
    /\ p # "paging" => UNCHANGED pagingVars
    /\ p # "threading" => UNCHANGED threadVars
    /\ p # "bodies" => UNCHANGED bodiesVars
    /\ p # "delivery" => UNCHANGED deliveryVars
    /\ p # "folders" => UNCHANGED folderVars
    /\ p # "jmapsync" => UNCHANGED jmapsyncVars
    /\ p # "jmapops" => UNCHANGED jmapopsVars
    /\ p # "storage" => UNCHANGED storageVars
    /\ p # "imapsession" => UNCHANGED sessionVars
    /\ p # "attachments" => UNCHANGED attachmentVars

Next ==
    \/ Only("compose") /\ ComposeNext
    \/ Only("lists") /\ Lists!Next
    \/ Only("addaccount") /\ AddAccount!Next
    \/ Only("settings") /\ SettingsNext
    \/ Only("pullpanel") /\ PullNext
    \/ Only("recipients") /\ RecipientsNext
    \/ Only("replies") /\ RepliesNext
    \/ Only("reader") /\ ReaderNext
    \/ Only("paging") /\ PagingNext
    \/ Only("threading") /\ ThreadsNext
    \/ Only("bodies") /\ BodiesNext
    \/ Only("delivery") /\ DeliveryNext
    \/ Only("folders") /\ FoldersNext
    \/ Only("jmapsync") /\ JmapSync!Next
    \/ Only("jmapops") /\ OpsNext
    \/ Only("storage") /\ StorageNext
    \/ Only("imapsession") /\ SessionNext
    \/ Only("attachments") /\ AttachmentNext

Spec == Init /\ [][Next]_partVars

(* Timers fire, commands and servers answer.                               *)
FairSpec ==
    /\ Spec
    /\ WF_composeVars(part = "compose" /\ Sends)
    /\ WF_composeVars(part = "compose" /\ OtherFutures)
    /\ WF_listsVars(part = "lists" /\ Lists!Commands)
    /\ WF_listsVars(part = "lists" /\ Lists!Pages)
    /\ WF_addaccountVars(part = "addaccount" /\ AddAccount!Works)
    /\ WF_jmapsyncVars(part = "jmapsync" /\ JmapSync!PassSteps)
-----------------------------------------------------------------------------
(* The properties are stated where the parts are modelled.  An eventuality *)
(* is asked of its own part only, as a part stands still in the others.    *)

(* What is typed is saved and what is sent ends (module Compose).          *)
PanesSettle == part = "compose" => TypedTextIsSaved /\ SendsEnd

(* The list of a folder shows every change in the end (module Lists).      *)
ChangesAreShown == part = "lists" => Lists!ChangesAreShown

(* An account that is added is whole, approved and shown (AddAccount).     *)
AddingSucceeds == part = "addaccount" => AddAccount!AddingSucceeds

(* A message destroyed on a JMAP server loses its row (module JmapSync).   *)
DestroyedAreForgotten == part = "jmapsync" => JmapSync!DestroyedAreForgotten
=============================================================================
