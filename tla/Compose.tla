------------------------------ MODULE Compose -------------------------------
(***************************************************************************)
(* The compose pane (ComposePane in app.rs): the form, the autosave that   *)
(* sleeps five seconds, the save button, and Send with its undo window,    *)
(* over drafts_save, drafts_delete and messages_send.                      *)
(*                                                                         *)
(* The UI runs on one thread: what happens between two awaits is a step,   *)
(* and so are a command and its reply: what overlaps waits before it.      *)
(* A future of the pane outlives it, but the signals of the pane do not:   *)
(* a future that touches one of them once the pane is gone panics, which   *)
(* ends the future where it stands.  undo_send_pending and compose belong  *)
(* to the app and survive.                                                 *)
(***************************************************************************)
EXTENDS Naturals, FiniteSets

CONSTANTS
    Plans,      \* bounds: the texts typed, clicks on Send, panes opened, other presses and
                \* failed saves stay within one of the plans
    Most,       \* the largest of those bounds
    Holds       \* whether compose.undo_send may be off (FALSE), on (TRUE)

VARIABLES
    pane,       \* the number of the mounted pane, 0 when the reader is shown
    draft,      \* draft_id, 0 for None
    text, edited,  \* the form; last_change is not 0
    status,     \* save_status
    sending,    \* send_in_flight
    pending,    \* undo_send_pending: the click that is held, 0 for None
    futures,    \* what is spawned and has not ended
    drafts,     \* the table of drafts: what is saved under each id
    sent,       \* history: the clicks that were submitted, with the text
    undone,     \* history: the clicks whose window was ended or replaced
    used        \* what is used up of the bounds; the ids minted

form == <<draft, text, edited, status, sending>>
composeVars == <<pane, form, pending, futures, drafts, sent, undone, used>>

(* A future: the pane it belongs to, the click it serves, where it waits,  *)
(* and the draft id and text it has read from the form.                    *)
Future == [of : 1..Most, kind : {"auto", "manual", "send", "delete"}, click : 0..Most,
           at : {"sleep", "setting", "hold", "save", "submit"},
           draft : Nat, text : 0..Most]

(* A fresh pane is open, and the first text typed into it.                 *)
ComposeInit ==
    /\ pane = 1 /\ draft = 0 /\ text = 1 /\ edited = TRUE /\ status = "dirty" /\ sending = FALSE
    /\ futures = {[of |-> 1, kind |-> "auto", click |-> 0, at |-> "sleep", draft |-> 0, text |-> 1]}
    /\ pending = 0 /\ drafts = [d \in {} |-> 0] /\ sent = {} /\ undone = {}
    /\ used = [text |-> 1, clicks |-> 0, panes |-> 1, whims |-> 0, ids |-> 0, mishaps |-> 0]

Mounted(f) == f.of = pane

(* Once pane p is the mounted one, or none, a future of another pane that  *)
(* needs a signal of it next is as good as over.  So is an autosave that   *)
(* sleeps over a text that is not the newest any more.                     *)
Survives(f, p) == f.of = p \/ f.at \in {"setting", "save", "submit"}
Left(fs, p) == {f \in fs : Survives(f, p)}
Snapshot(kind, click, at, d) ==
    [of |-> pane, kind |-> kind, click |-> click, at |-> at, draft |-> d, text |-> text]
Replace(f, g) == futures' = Left((futures \ {f}) \cup {g}, pane)
End(f) == futures' = futures \ {f}

(* One thing more happens.                                                 *)
More(k) == /\ \E p \in Plans : \A j \in DOMAIN p : used[j] + (IF j = k THEN 1 ELSE 0) <= p[j]
           /\ used' = [used EXCEPT ![k] = @ + 1]

(* A fresh pane, or one on a saved draft, which stays empty when the draft *)
(* cannot be loaded.  While a pane is mounted, a new ComposeState is set   *)
(* but the form keeps what it holds.                                       *)
Open ==
    /\ pane = 0 /\ More("panes") /\ pane' = used.panes + 1
    /\ \/ draft' = 0 /\ text' = 0
       \/ \E d \in DOMAIN drafts : draft' = d /\ text' \in {drafts[d], 0}
    /\ edited' = FALSE /\ status' = "idle" /\ sending' = FALSE
    /\ UNCHANGED <<pending, futures, drafts, sent, undone>>

(* The fields bump last_change, and the autosave effect takes a snapshot.  *)
Edit ==
    /\ pane # 0 /\ More("text")
    /\ text' = used.text + 1 /\ edited' = TRUE /\ status' = "dirty"
    /\ futures' = {f \in futures : f.at # "sleep"} \cup {[Snapshot("auto", 0, "sleep", draft) EXCEPT !.text = text']}
    /\ UNCHANGED <<pane, draft, sending, pending, drafts, sent, undone>>

Whim == More("whims")

ManualSave ==
    /\ pane # 0 /\ Whim
    /\ status' = "saving" /\ futures' = futures \cup {Snapshot("manual", 0, "save", draft)}
    /\ UNCHANGED <<pane, draft, text, edited, sending, pending, drafts, sent, undone>>

(* The guards of send_now are read before the setting is awaited.          *)
Click ==
    /\ pane # 0 /\ text # 0 /\ ~sending /\ pending = 0 /\ More("clicks")
    /\ futures' = futures \cup {Snapshot("send", used.clicks + 1, "setting", 0)}
    /\ UNCHANGED <<pane, form, pending, drafts, sent, undone>>

(* Escape, or the button of the pane: the window is over.                  *)
Undo ==
    /\ pending # 0 /\ pending' = 0
    /\ undone' = undone \cup {pending}
    /\ \/ UNCHANGED status
       \/ pane # 0 /\ status' = "idle"
    /\ UNCHANGED <<pane, draft, text, edited, sending, futures, drafts, sent, used>>

(* The pane goes: close, Escape, or an account that was removed.           *)
Close ==
    /\ pane # 0 /\ Whim
    /\ pane' = 0 /\ futures' = Left(futures, 0)
    /\ UNCHANGED <<form, pending, drafts, sent, undone>>

Discard ==
    /\ pane # 0 /\ Whim /\ pane' = 0
    /\ futures' = Left(futures, 0) \cup
          (IF draft = 0 THEN {} ELSE {Snapshot("delete", 0, "save", draft)})
    /\ UNCHANGED <<form, pending, drafts, sent, undone>>

(* Five seconds without an edit.                                           *)
Wake(f) ==
    /\ f.at = "sleep" /\ Replace(f, [f EXCEPT !.at = "save"])
    /\ UNCHANGED <<pane, form, pending, drafts, sent, undone, used>>

(* The setting arrives: the click is held, or goes on.                     *)
Goes(f) ==
    /\ sending' = TRUE /\ status' = "saving"
    /\ Replace(f, [f EXCEPT !.at = "save", !.draft = draft, !.text = text])
Setting(f) ==
    /\ f.at = "setting"
    /\ \/ /\ TRUE \in Holds /\ pending' = f.click /\ undone' = undone \cup ({pending} \ {0})
          /\ IF Mounted(f) THEN Replace(f, [f EXCEPT !.at = "hold"]) ELSE End(f)
          /\ UNCHANGED form
       \/ /\ FALSE \in Holds
          /\ IF Mounted(f) THEN Goes(f) /\ UNCHANGED <<draft, text, edited>>
             ELSE End(f) /\ UNCHANGED form
          /\ UNCHANGED <<pending, undone>>
    /\ UNCHANGED <<pane, drafts, sent, used>>

(* A tick of the window: the future ends when the deadline is not its own  *)
(* any more, and goes on when it is reached.                               *)
HoldingAny(f) == pending # 0
Holding(f) == pending = f.click
Tick(f) ==
    /\ f.at = "hold"
    /\ \/ ~Holding(f) /\ End(f) /\ UNCHANGED <<form, pending>>
       \/ Holding(f) /\ pending' = 0 /\ Goes(f) /\ UNCHANGED <<draft, text, edited>>
    /\ UNCHANGED <<pane, drafts, sent, undone, used>>

(* The table of drafts.                                                    *)
Updated(d, t) == [e \in DOMAIN drafts |-> IF e = d THEN t ELSE drafts[e]]
Upsert(d, t) == [e \in DOMAIN drafts \cup {d} |-> IF e = d THEN t ELSE drafts[e]]
Without(d) == [e \in DOMAIN drafts \ {d} |-> drafts[e]]

(* drafts_save and its reply, which nobody takes when the pane is gone.    *)
(* The effect of autosave reads draft_id: setting it wakes the effect,     *)
(* which takes a new snapshot once the form was edited.                    *)
Again(d) == IF edited THEN {Snapshot("auto", 0, "sleep", d)} ELSE {}
Save(f) ==
    /\ f.at = "save" /\ f.kind # "delete"
    /\ LET d == IF f.draft = 0 THEN used.ids + 1 ELSE f.draft
           next == IF f.kind = "send" THEN {[f EXCEPT !.at = "submit", !.draft = d]} ELSE {}
       IN /\ drafts' = Upsert(d, f.text) /\ used' = [used EXCEPT !.ids = IF f.draft = 0 THEN d ELSE @]
          /\ \/ /\ Mounted(f) /\ draft' = d /\ futures' = (futures \ {f}) \cup next \cup Again(d)
                /\ status' = IF f.kind = "send" THEN status ELSE "saved"
             \/ ~Mounted(f) /\ End(f) /\ UNCHANGED <<draft, status>>
    /\ UNCHANGED <<pane, text, edited, sending, pending, sent, undone>>
SaveRefused(f) ==
    /\ End(f)
    /\ IF Mounted(f) THEN status' = "error" /\ sending' = (sending /\ f.kind # "send")
       ELSE UNCHANGED <<status, sending>>
    /\ UNCHANGED <<draft, text, edited>>
SaveFails(f) ==
    /\ f.at = "save" /\ f.kind # "delete" /\ More("mishaps") /\ SaveRefused(f)
    /\ UNCHANGED <<pane, pending, drafts, sent, undone>>
Delete(f) ==
    /\ f.at = "save" /\ f.kind = "delete"
    /\ drafts' = Without(f.draft) /\ End(f)
    /\ UNCHANGED <<pane, form, pending, sent, undone, used>>

(* messages_send takes what the table holds, and the draft goes.  The      *)
(* reply closes whatever pane is open by then.                             *)
Submit(f) ==
    /\ f.at = "submit"
    /\ \/ /\ f.draft \in DOMAIN drafts
          /\ sent' = sent \cup {<<f.click, drafts[f.draft]>>} /\ drafts' = Without(f.draft)
          /\ pane' = 0 /\ futures' = Left(futures \ {f}, 0) /\ UNCHANGED form
       \/ f.draft \notin DOMAIN drafts /\ SaveRefused(f) /\ UNCHANGED <<pane, sent, drafts>>
    /\ UNCHANGED <<pending, undone, used>>

Runs(f) == Wake(f) \/ Setting(f) \/ Tick(f) \/ Save(f) \/ Delete(f) \/ Submit(f)
User == Open \/ Edit \/ ManualSave \/ Click \/ Undo \/ Close \/ Discard
Sends == \E f \in futures : f.kind = "send" /\ Runs(f)
OtherFutures == \E f \in futures : f.kind # "send" /\ Runs(f)
ComposeNext == User \/ Sends \/ OtherFutures \/ (\E f \in futures : SaveFails(f))

ComposeSpec == ComposeInit /\ [][ComposeNext]_composeVars

(* Timers fire and commands answer; the user need not do anything.         *)
ComposeFairSpec == ComposeSpec /\ WF_composeVars(Sends) /\ WF_composeVars(OtherFutures)

(* A click on Send whose window the user ended, or which a later click     *)
(* has replaced, sends nothing, however its ticks fall.                    *)
UndoIsFinal ==
    /\ \A f \in futures : f.kind = "send" /\ f.at \in {"save", "submit"} => f.click \notin undone
    /\ \A s \in sent : s[1] \notin undone

(* What is typed last is in the draft of the pane sooner or later, though  *)
(* saves overlap and an older one may end later, or an error is shown.     *)
TypedTextIsSaved ==
    \A t \in 1..Most : (status = "dirty" /\ pane # 0 /\ text = t)
        ~> \/ pane = 0 \/ text # t \/ status = "error"
           \/ draft \in DOMAIN drafts /\ drafts[draft] = t

(* A Send that has started ends: the pane closes, or shows the error and   *)
(* can send again.                                                         *)
SendsEnd == \A p \in 1..Most : (pane = p /\ sending) ~> (pane # p \/ (~sending /\ status = "error"))
=============================================================================
