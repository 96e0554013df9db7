------------------------------- MODULE Settings -------------------------------
(***************************************************************************)
(* Settings and who shows them: app_settings_set writes a key and then     *)
(* tells every window (commands/settings.rs); the main window reads it     *)
(* once and listens (use_appearance_hooks, and the hooks for threading and *)
(* spelling, in app.rs); the tray icon reads the table again (tray.rs);    *)
(* the controls of the Settings window refetch when a write has returned   *)
(* (SettingsRadioGroup, BoolSettingRow).  One key stands for all of them.  *)
(* And the rows of the accounts tab, whose fields are saved to the account *)
(* that a row shows at that time (AccountsTab, AccountRow).                *)
(***************************************************************************)
EXTENDS Naturals, Sequences, FiniteSets

CONSTANTS
    Values,        \* of the key, 0 for the default
    AccountOrder,  \* the configured accounts, in the order of accounts_list
    Days           \* bounds: a day says how often what kind of thing happens

VARIABLES
    kept,        \* app_settings_v1: the value of the key
    sets,        \* app_settings_set calls under way
    notices,     \* app_settings_changed events on their way to the main window
    shell,       \* the main window: its boot read, its listener, what it applies
    icon,        \* the tray: what it applies, and the refreshes under way
    control,     \* the control in the Settings window: its refetch, the value it was
                 \* rendered with, and the one that the browser marks
    configured,  \* the table accounts: who is there, and the display names
    tab,         \* the accounts tab: the accounts listed, and the text in each row's field
    stale,       \* the accounts tab has to refetch
    crossed,     \* history: two writes, or a write and the boot of the window, overlapped,
                 \* or a write failed
    had

settingsVars == <<kept, sets, notices, shell, icon, control, configured, tab, stale, crossed, had>>

Bounded(k) ==
    /\ \E d \in Days : \A j \in DOMAIN d : had[j] + (IF j = k THEN 1 ELSE 0) <= d[j]
    /\ had' = [had EXCEPT ![k] = @ + 1]

Reading(v) == [at |-> "reply", value |-> v]
Ask == [at |-> "ask", value |-> 0]
Idle == [at |-> "idle", value |-> 0]

(* The name 0 is the one an account has at first.                          *)
SettingsInit ==
    /\ kept = 0 /\ sets = {} /\ notices = <<>>
    /\ shell = [boot |-> Ask, listening |-> FALSE, applied |-> 0]
    /\ icon = [applied |-> 0, reads |-> {}]
    /\ control = [fetch |-> Idle, rendered |-> 0, marked |-> 0]
    /\ configured = [a \in {AccountOrder[i] : i \in DOMAIN AccountOrder} |-> a]
    /\ tab = [listed |-> AccountOrder, fields |-> AccountOrder] /\ stale = FALSE
    /\ crossed = FALSE
    /\ had = [clicks |-> 0, fails |-> 0, edits |-> 0, removes |-> 0]
-----------------------------------------------------------------------------
(* A click on a control, and app_settings_set: the table is written under  *)
(* state.db, the event goes out when the lock is free again, and when the  *)
(* call has returned the control refetches.                                *)
Booting == shell.boot.at # "idle" \/ ~shell.listening

ClickControl(v) ==
    /\ v # control.marked /\ Bounded("clicks")
    /\ control' = [control EXCEPT !.marked = v]
    /\ sets' = sets \cup {[n |-> had.clicks, at |-> "write", value |-> v]}
    /\ crossed' = (crossed \/ sets # {} \/ Booting \/ notices # <<>> \/ icon.reads # {})
    /\ UNCHANGED <<kept, notices, shell, icon, configured, tab, stale>>

Moved(s, at) == (sets \ {s}) \cup {[s EXCEPT !.at = at]}

WriteFails(s) ==
    /\ s.at = "write" /\ sets' = sets \ {s} /\ Bounded("fails") /\ crossed' = TRUE
    /\ UNCHANGED <<kept, notices, shell, icon, control, configured, tab, stale>>

Emitted(s) ==
    /\ notices' = IF shell.listening THEN Append(notices, s.value) ELSE notices
    /\ icon' = [icon EXCEPT !.reads = @ \cup {[n |-> s.n, at |-> "ask", value |-> 0]}]

WriteAndTell(s) ==
    \/ s.at = "write" /\ kept' = s.value /\ sets' = Moved(s, "tell") /\ UNCHANGED <<notices, icon>>
    \/ s.at = "tell" /\ Emitted(s) /\ sets' = Moved(s, "return") /\ UNCHANGED kept
TellAndWrite(s) ==
    \/ s.at = "write" /\ Emitted(s) /\ sets' = Moved(s, "tell") /\ UNCHANGED kept
    \/ s.at = "tell" /\ kept' = s.value /\ sets' = Moved(s, "return") /\ UNCHANGED <<notices, icon>>
SetStep(s) == WriteAndTell(s)

SetGoesOn(s) == SetStep(s) /\ UNCHANGED <<shell, control, configured, tab, stale, crossed, had>>

Returned(s) ==
    /\ s.at = "return" /\ sets' = sets \ {s}
    /\ control' = [control EXCEPT !.fetch = Ask]
    /\ UNCHANGED <<kept, notices, shell, icon, configured, tab, stale, crossed, had>>
-----------------------------------------------------------------------------
(* app_settings_get: asked, read under the lock, answered                  *)
Answer(f) == IF f.at = "ask" THEN Reading(kept) ELSE Idle

(* A refetch changes the mark only if it changes what is rendered.         *)
RefetchControl ==
    LET v == control.fetch.value
        new == control.fetch.at = "reply" /\ v # control.rendered
    IN  /\ control.fetch.at # "idle"
        /\ control' = [fetch |-> Answer(control.fetch),
                       rendered |-> IF new THEN v ELSE control.rendered,
                       marked |-> IF new THEN v ELSE control.marked]
        /\ UNCHANGED <<kept, sets, notices, shell, icon, configured, tab, stale, crossed, had>>

(* The boot read and the registration of the listener go on side by side.  *)
Boot ==
    /\ shell.boot.at # "idle"
    /\ shell' = [boot |-> Answer(shell.boot), listening |-> shell.listening,
                 applied |-> IF shell.boot.at = "reply" THEN shell.boot.value ELSE shell.applied]
    /\ UNCHANGED <<kept, sets, notices, icon, control, configured, tab, stale, crossed, had>>
Listen ==
    /\ ~shell.listening /\ shell' = [shell EXCEPT !.listening = TRUE]
    /\ UNCHANGED <<kept, sets, notices, icon, control, configured, tab, stale, crossed, had>>
Hear ==
    /\ notices # <<>> /\ notices' = Tail(notices) /\ shell' = [shell EXCEPT !.applied = Head(notices)]
    /\ UNCHANGED <<kept, sets, icon, control, configured, tab, stale, crossed, had>>

(* apply_visibility: each event starts a task that reads, then applies.    *)
Refresh(r) ==
    /\ r \in icon.reads
    /\ icon' = IF r.at = "ask"
               THEN [icon EXCEPT !.reads = (@ \ {r}) \cup {[n |-> r.n, at |-> "reply", value |-> kept]}]
               ELSE [reads |-> icon.reads \ {r}, applied |-> r.value]
    /\ UNCHANGED <<kept, sets, notices, shell, control, configured, tab, stale, crossed, had>>
-----------------------------------------------------------------------------
(* The accounts tab.  The list has no keys, so after a refetch row i keeps *)
(* the text it had and takes the account that is now in place i; a new row *)
(* begins with the name of its account.  A text is named after the account *)
(* whose row it was typed in.                                              *)
TypeName(i) ==
    /\ Bounded("edits") /\ tab' = [tab EXCEPT !.fields[i] = tab.listed[i]]
    /\ UNCHANGED <<kept, sets, notices, shell, icon, control, configured, stale, crossed>>

SaveName(i) ==
    /\ Bounded("edits") /\ tab.listed[i] \in DOMAIN configured
    /\ configured' = [configured EXCEPT ![tab.listed[i]] = tab.fields[i]] /\ stale' = TRUE
    /\ UNCHANGED <<kept, sets, notices, shell, icon, control, tab, crossed>>

RemoveRow(i) ==
    /\ Bounded("removes") /\ tab.listed[i] \in DOMAIN configured
    /\ configured' = [a \in DOMAIN configured \ {tab.listed[i]} |-> configured[a]] /\ stale' = TRUE
    /\ UNCHANGED <<kept, sets, notices, shell, icon, control, tab, crossed>>

ListAgain ==
    /\ stale /\ stale' = FALSE
    /\ LET list == SelectSeq(AccountOrder, LAMBDA a : a \in DOMAIN configured)
       IN  tab' = [listed |-> list, fields |-> SubSeq(tab.fields, 1, Len(list))]
    /\ UNCHANGED <<kept, sets, notices, shell, icon, control, configured, crossed, had>>

SettingsNext ==
    \/ \E v \in Values : ClickControl(v)
    \/ \E s \in sets : WriteFails(s) \/ SetGoesOn(s) \/ Returned(s)
    \/ \E r \in icon.reads : Refresh(r)
    \/ RefetchControl \/ Boot \/ Listen \/ Hear \/ ListAgain
    \/ \E i \in DOMAIN tab.listed : TypeName(i) \/ SaveName(i) \/ RemoveRow(i)

SettingsSpec == SettingsInit /\ [][SettingsNext]_settingsVars
-----------------------------------------------------------------------------
(* When nothing is under way, the control of the Settings window is        *)
(* rendered with the stored value whatever overlapped or failed; and its   *)
(* mark, the main window and the tray agree with the table too, unless a   *)
(* write failed or overlapped another, or the boot of the window.          *)
AtEase == sets = {} /\ notices = <<>> /\ icon.reads = {} /\ control.fetch = Idle /\ ~Booting

SettingsAreApplied ==
    AtEase => /\ control.rendered = kept
              /\ ~crossed => control.marked = kept /\ shell.applied = kept /\ icon.applied = kept
=============================================================================
