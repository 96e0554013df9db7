-------------------------------- MODULE Reader --------------------------------
(***************************************************************************)
(* The reader and remote content.  The pane shows the thread of the        *)
(* selected message (ReaderV2, MessageCard and RemoteContentBanner in      *)
(* app.rs); the host renders each message for it and decides whether what  *)
(* the message would fetch from the network may stay (render_message and   *)
(* its callers in commands/messages.rs, sanitize in mime/src/lib.rs); a    *)
(* double click opens the message in a window of its own                   *)
(* (messages_open_in_window, reader_only.rs).  A message is the set of its *)
(* elements, an element the set of its attributes, and an attribute has    *)
(* the kinds of URL in it: "inline" for data: and cid:, "unclear" where    *)
(* none can be extracted, "remote" for any other.                          *)
(***************************************************************************)
EXTENDS Naturals, Sequences, FiniteSets

CONSTANTS
    Texts,       \* message -> [from, thread, html]; from "" if it has no address
    Evenings     \* bounds: an evening says how often what kind of thing happens

(* The attributes with URLs; those of no consequence, as cite, are left    *)
(* out.  "" is no message.                                                 *)
ASSUME ReaderAssumption ==
    /\ "" \notin DOMAIN Texts
    /\ \A m \in DOMAIN Texts : \A el \in Texts[m].html : \A a \in el.attributes :
          a.name \in {"src", "background", "poster", "srcset", "style", "href"}

VARIABLES
    privacy,     \* remote_images_always, and the senders in remote_content_opt_ins
    untold,      \* app_settings_changed is on its way to the main window
    slot,        \* last_rendered: the message rendered last by messages_get
    reading,     \* selection.message, "" for none
    visit,       \* history: counts the messages selected
    force,       \* force_trusted
    threaded,    \* reading.threading
    renders,     \* the calls that render messages
    awaited,     \* the call whose answer the pane waits for, 0 for none
    shown,       \* what the pane shows: the visit it was fetched for, its cards
    saves,       \* messages_trust_sender calls under way
    popups,      \* reader windows: message -> card
    asked,       \* history: <<visit, thread>> in which a banner's button was clicked
    strays,      \* history: <<visit, thread>> in which force_trusted was set for another
    spentOn

readerVars == <<privacy, untold, slot, reading, visit, force, threaded, renders, awaited, shown,
                saves, popups, asked, strays, spentOn>>

Within(k) ==
    /\ \E e \in Evenings : \A j \in DOMAIN e : spentOn[j] + (IF j = k THEN 1 ELSE 0) <= e[j]
    /\ spentOn' = [spentOn EXCEPT ![k] = @ + 1]

ReaderInit ==
    /\ privacy = [always |-> FALSE, everAlways |-> FALSE, optins |-> {}] /\ untold = FALSE
    /\ slot = <<>> /\ reading = "" /\ visit = 0 /\ force = FALSE /\ threaded = TRUE
    /\ renders = {} /\ awaited = 0 /\ shown = [visit |-> 0, cards |-> {}]
    /\ saves = {} /\ popups = <<>> /\ asked = {} /\ strays = {}
    /\ spentOn = [selects |-> 0, asks |-> 0, toggles |-> 0, windows |-> 0, fails |-> 0]
-----------------------------------------------------------------------------
(* sanitize: elements that are never kept; inline URLs go from links; in a *)
(* message that is not trusted every attribute or declaration goes that    *)
(* may fetch something, and an image without a source is marked.           *)
RemovedTags == {"script", "iframe", "object", "embed", "form", "input", "button", "textarea",
                "select", "style", "link", "head", "title", "noscript"}

UrlIsInlineSafe(u) == u = "inline"

OnlySources(a) == a.name \in {"src", "background", "poster"}
SourcesAndStyles(a) == a.name \in {"src", "background", "poster", "srcset", "style"}
IsFiltered(a) == SourcesAndStyles(a)

Stays(a, blockRemote) ==
    /\ a.name = "href" => ~\E u \in a.urls : UrlIsInlineSafe(u)
    /\ blockRemote /\ IsFiltered(a) => \A u \in a.urls : UrlIsInlineSafe(u)

Cleaned(el, blockRemote) ==
    LET kept == {a \in el.attributes : Stays(a, blockRemote)}
    IN  [tag |-> el.tag, attributes |-> kept,
         blocked |-> blockRemote /\ el.tag = "img" /\ ~\E a \in kept : a.name = "src"]

Sanitize(html, blockRemote) == {Cleaned(el, blockRemote) : el \in {e \in html : e.tag \notin RemovedTags}}

(* render_message: trust is looked up while the database is locked, then   *)
(* the body is read (or fetched, which may fail) and sanitised.            *)
SenderIsTrusted(m, forced) ==
    \/ forced \/ privacy.always
    \/ Texts[m].from # "" /\ Texts[m].from \in privacy.optins

Card(m, trusted, loads) ==
    [id |-> m, blocked |-> ~trusted, html |-> IF loads THEN Sanitize(Texts[m].html, ~trusted) ELSE {}]

ThreadOf(m) == {n \in DOMAIN Texts : Texts[n].thread = Texts[m].thread}

RenderCall(n, m, to, forced, v, todo, cards) ==
    [n |-> n, id |-> m, to |-> to, forced |-> forced, visit |-> v, todo |-> todo, cards |-> cards]

(* The pane asks for the thread, or for the one message if threading is    *)
(* off; an earlier call is no longer awaited, but runs to its end.         *)
FetchCards(m, forced, thr, n) ==
    /\ awaited' = n
    /\ renders' = renders \cup
        {IF thr THEN RenderCall(n, m, "thread", forced, visit', ThreadOf(m), {})
                ELSE RenderCall(n, m, "pane", forced, visit', {m}, {})}

NextCall == CHOOSE n \in 1 .. 1 + Cardinality(renders) : \A r \in renders : r.n # n

Refetch(forced, thr) ==
    IF reading = "" THEN UNCHANGED <<renders, awaited>> ELSE FetchCards(reading, forced, thr, NextCall)

RenderOne(r, m, loads) ==
    /\ m \in r.todo
    /\ renders' = (renders \ {r}) \cup
        {RenderCall(r.n, r.id, r.to, r.forced, r.visit, r.todo \ {m},
                    r.cards \cup {Card(m, SenderIsTrusted(m, r.forced), loads)})}
    /\ UNCHANGED <<privacy, untold, slot, reading, visit, force, threaded, awaited, shown, saves,
                   popups, asked, strays>>

RenderWithBody(r) == \E m \in r.todo : RenderOne(r, m, TRUE) /\ UNCHANGED spentOn
RenderWithoutBody(r) == \E m \in r.todo : RenderOne(r, m, FALSE) /\ Within("fails")

(* messages_get keeps what it rendered; the window of a popup is built     *)
(* unless another call has built it meanwhile.                             *)
Rendered(r) ==
    LET card == CHOOSE c \in r.cards : TRUE
    IN  /\ r.todo = {} /\ renders' = renders \ {r}
        /\ slot' = IF r.to = "thread" THEN slot ELSE <<card>>
        /\ IF r.n = awaited THEN awaited' = 0 /\ shown' = [visit |-> r.visit, cards |-> r.cards]
                            ELSE UNCHANGED <<awaited, shown>>
        /\ popups' = IF r.to = "popup" /\ r.id \notin DOMAIN popups
                     THEN [m \in DOMAIN popups \cup {r.id} |-> IF m = r.id THEN card ELSE popups[m]]
                     ELSE popups
        /\ UNCHANGED <<privacy, untold, reading, visit, force, threaded, saves, asked, strays, spentOn>>
-----------------------------------------------------------------------------
(* The user.  Another message: force_trusted is reset by an effect, and    *)
(* that makes the resource fetch again.                                    *)
SelectMessage(m) ==
    /\ m # reading /\ Within("selects")
    /\ reading' = m /\ visit' = visit + 1 /\ force' = FALSE
    /\ FetchCards(m, FALSE, threaded, NextCall)
    /\ UNCHANGED <<privacy, untold, slot, threaded, shown, saves, popups, asked, strays>>

(* No message is selected: ReaderV2 is unmounted, and its signals with it. *)
SelectNone ==
    /\ reading # "" /\ Within("selects")
    /\ reading' = "" /\ visit' = visit + 1 /\ force' = FALSE /\ awaited' = 0
    /\ shown' = [visit |-> visit + 1, cards |-> {}]
    /\ saves' = {[s EXCEPT !.mounted = FALSE] : s \in saves}
    /\ UNCHANGED <<privacy, untold, slot, threaded, renders, popups, asked, strays>>

(* force_trusted.set(true), by a button of visit v                         *)
Forced(v) ==
    /\ force' = TRUE /\ Refetch(TRUE, threaded)
    /\ strays' = IF v = visit THEN strays ELSE strays \cup {<<visit, Texts[reading].thread>>}

Clicked(c) == asked' = asked \cup {<<shown.visit, Texts[c.id].thread>>}

(* "Load images", on a card that may still be that of the last thread      *)
LoadImages(c) ==
    /\ c.blocked /\ Within("asks") /\ Clicked(c) /\ visit' = visit /\ Forced(shown.visit)
    /\ UNCHANGED <<privacy, untold, slot, reading, threaded, shown, saves, popups>>

(* "Always load from this sender", and messages_trust_sender; its answer   *)
(* sets force_trusted, whatever is read by then.                           *)
AlwaysLoad(c) ==
    /\ c.blocked /\ Texts[c.id].from # "" /\ ~\E s \in saves : s.card = c.id /\ s.visit = shown.visit
    /\ Within("asks") /\ Clicked(c)
    /\ saves' = saves \cup {[card |-> c.id, visit |-> shown.visit, at |-> "save", mounted |-> TRUE]}
    /\ UNCHANGED <<privacy, untold, slot, reading, visit, force, threaded, renders, awaited, shown,
                   popups, strays>>

TrustSender(s) ==
    /\ s.at = "save"
    /\ privacy' = [privacy EXCEPT !.optins = @ \cup {Texts[s.card].from}]
    /\ saves' = (saves \ {s}) \cup {[s EXCEPT !.at = "reply"]}
    /\ UNCHANGED <<untold, slot, reading, visit, force, threaded, renders, awaited, shown, popups,
                   asked, strays, spentOn>>

TrustFails(s) ==
    /\ s.at = "save" /\ Within("fails") /\ saves' = saves \ {s}
    /\ UNCHANGED <<privacy, untold, slot, reading, visit, force, threaded, renders, awaited, shown,
                   popups, asked, strays>>

Trusted(s) ==
    /\ s.at = "reply" /\ saves' = saves \ {s} /\ visit' = visit
    /\ IF s.mounted THEN Forced(s.visit) ELSE UNCHANGED <<force, renders, awaited, strays>>
    /\ UNCHANGED <<privacy, untold, slot, reading, threaded, shown, popups, asked, spentOn>>

(* The privacy setting: written, then told to the main window, whose pane  *)
(* fetches again; and the switch of conversation threading.                *)
SetAlways ==
    /\ Within("toggles") /\ untold' = TRUE
    /\ privacy' = [always |-> ~privacy.always, everAlways |-> TRUE, optins |-> privacy.optins]
    /\ UNCHANGED <<slot, reading, visit, force, threaded, renders, awaited, shown, saves, popups,
                   asked, strays>>

Told ==
    /\ untold /\ untold' = FALSE /\ visit' = visit /\ Refetch(force, threaded)
    /\ UNCHANGED <<privacy, slot, reading, force, threaded, shown, saves, popups, asked, strays, spentOn>>

SetThreading ==
    /\ Within("toggles") /\ threaded' = ~threaded /\ visit' = visit /\ Refetch(force, ~threaded)
    /\ UNCHANGED <<privacy, untold, slot, reading, force, shown, saves, popups, asked, strays>>

(* A double click on the selected row                                      *)
OpenInWindow ==
    /\ reading # "" /\ reading \notin DOMAIN popups /\ Within("windows")
    /\ IF slot # <<>> /\ slot[1].id = reading
       THEN /\ popups' = [m \in DOMAIN popups \cup {reading} |->
                              IF m = reading THEN slot[1] ELSE popups[m]]
            /\ UNCHANGED renders
       ELSE /\ renders' = renders \cup
                {RenderCall(NextCall, reading, "popup", FALSE, visit, {reading}, {})}
            /\ UNCHANGED popups
    /\ UNCHANGED <<privacy, untold, slot, reading, visit, force, threaded, awaited, shown, saves,
                   asked, strays>>

CloseReader(m) ==
    /\ Within("windows") /\ popups' = [n \in DOMAIN popups \ {m} |-> popups[n]]
    /\ UNCHANGED <<privacy, untold, slot, reading, visit, force, threaded, renders, awaited, shown,
                   saves, asked, strays>>

ReaderNext ==
    \/ \E m \in DOMAIN Texts : SelectMessage(m)
    \/ SelectNone \/ SetAlways \/ Told \/ SetThreading \/ OpenInWindow
    \/ \E c \in shown.cards : LoadImages(c) \/ AlwaysLoad(c)
    \/ \E r \in renders : RenderWithBody(r) \/ RenderWithoutBody(r) \/ Rendered(r)
    \/ \E s \in saves : TrustSender(s) \/ TrustFails(s) \/ Trusted(s)
    \/ \E m \in DOMAIN popups : CloseReader(m)

ReaderSpec == ReaderInit /\ [][ReaderNext]_readerVars
-----------------------------------------------------------------------------
(* "Images blocked for privacy": when the pane has fetched all it waits    *)
(* for, a message that loads something from the network is one whose       *)
(* sender was opted in, or the setting is on, or a button of the banner    *)
(* was clicked on that visit (or one of an earlier visit took effect on    *)
(* it); and a window shows no more than the pane was once allowed to.      *)
Loads(c) == \E el \in c.html : \E a \in el.attributes : a.name # "href" /\ ~(a.urls \subseteq {"inline"})

Quiet == awaited = 0 /\ ~untold

Asked(c, visits) == <<shown.visit, Texts[c.id].thread>> \in visits

RemoteIsAskedFor ==
    /\ Quiet => \A c \in shown.cards :
           Loads(c) => privacy.always \/ Texts[c.id].from \in privacy.optins \/ Asked(c, asked \cup strays)
    /\ \A m \in DOMAIN popups :
           Loads(popups[m]) => \/ privacy.everAlways \/ Texts[m].from \in privacy.optins
                               \/ \E v \in 0 .. visit : <<v, Texts[m].thread>> \in asked \cup strays
=============================================================================
