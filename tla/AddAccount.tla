------------------------------ MODULE AddAccount ------------------------------
(***************************************************************************)
(* Adding and removing an account: the add-account window (oauth_add.rs),  *)
(* the loopback flow (flow.rs, loopback.rs), accounts_add_oauth and        *)
(* accounts_remove, which each write the row and the keychain one after    *)
(* the other, and the list of accounts that the main window shows.         *)
(*                                                                         *)
(* One account is enough: what is added twice is the same.  A flow goes on *)
(* when its window is closed, and another one may be started.              *)
(***************************************************************************)
EXTENDS Naturals, Sequences, SequencesExt

CONSTANTS
    Stories     \* bounds: a story says how often what kind of thing happens

VARIABLES
    window,     \* the add-account window: closed, picker, waiting, error, success
    awaits,     \* the flow the window waits for
    flows,      \* the flows under way
    entry, token,  \* there is a row of the account, and a keychain entry
    removal,    \* accounts_remove: no, or what it does next
    signals,    \* accounts_changed events on their way
    sidebar, lookup,  \* what the main window shows; its accounts_list: none, asked, or the answer
    heard,      \* history: flows whose approval was taken, or that the provider denied
    mixed, torn,   \* history: an add and a removal overlapped; a keychain call failed
    told        \* what is used up of the story

store == <<entry, token>>
main == <<signals, sidebar, lookup>>
past == <<heard, mixed, torn>>
vars == <<window, awaits, flows, store, removal, main, past, told>>

Tell(k) == /\ \E s \in Stories : \A j \in DOMAIN s : told[j] + (IF j = k THEN 1 ELSE 0) <= s[j]
           /\ told' = [told EXCEPT ![k] = @ + 1]
Flow(n) == [n |-> n, at |-> "accept", queue |-> <<>>, now |-> "none"]
Step(f, g) == flows' = (flows \ {f}) \cup {g}
Writing == \E f \in flows : f.at \in {"insert", "store"}

Init ==
    /\ window = "picker" /\ awaits = 0 /\ flows = {} /\ entry = FALSE /\ token = FALSE
    /\ removal = "no" /\ signals = 0 /\ sidebar = FALSE /\ lookup = "none"
    /\ heard = {} /\ mixed = FALSE /\ torn = FALSE
    /\ told = [flows |-> 0, visits |-> 0, removes |-> 0, fails |-> 0]
-----------------------------------------------------------------------------
(* The window.                                                             *)
Host == <<store, removal, main, past>>
OpenWindow ==
    /\ window = "closed" /\ told.flows > 0 /\ window' = "picker" /\ awaits' = 0
    /\ UNCHANGED <<flows, Host, told>>
Continue ==
    /\ window = "picker" /\ Tell("flows") /\ window' = "waiting" /\ awaits' = told.flows + 1
    /\ flows' = flows \cup {Flow(told.flows + 1)}
    /\ UNCHANGED Host
TryAgain ==
    /\ window = "error" /\ window' = "picker" /\ awaits' = 0 /\ UNCHANGED <<flows, Host, told>>
CloseWindow ==
    /\ window = "waiting" /\ window' = "closed" /\ awaits' = 0 /\ UNCHANGED <<flows, Host, told>>
(* After a pause, or a click.                                              *)
CloseAfterSuccess ==
    /\ window = "success" /\ window' = "closed" /\ awaits' = 0 /\ signals' = signals + 1
    /\ UNCHANGED <<flows, store, removal, sidebar, lookup, past, told>>

(* The command returns: the window that waits for it shows how it went.    *)
Returns(f, result) ==
    IF awaits = f.n THEN window' = result /\ awaits' = 0 ELSE UNCHANGED <<window, awaits>>
Ends(f) == flows' = flows \ {f} /\ Returns(f, "error")
-----------------------------------------------------------------------------
(* The loopback listener: one connection at a time, with ten seconds each; *)
(* the deadline of the flow is looked at when there is none to accept.     *)
Connect(f, kind) ==
    /\ f.at \in {"accept", "serve"}
    /\ IF kind = "approval" THEN UNCHANGED told ELSE Tell("visits")
    /\ kind = "approval" => ~Contains(f.queue, kind) /\ f.now # kind
    /\ Step(f, [f EXCEPT !.queue = Append(@, kind)])
    /\ UNCHANGED <<window, awaits, Host>>
Accept(f) ==
    /\ f.at = "accept" /\ f.queue # <<>>
    /\ Step(f, [f EXCEPT !.at = "serve", !.now = Head(f.queue), !.queue = Tail(f.queue)])
    /\ UNCHANGED <<window, awaits, Host, told>>
DeadlinePassed(f) == TRUE
Deadline(f) == f.queue = <<>>
Cancelled(f) ==
    /\ f.at = "accept" /\ Deadline(f) /\ Ends(f)
    /\ UNCHANGED <<Host, told>>
(* Other requests get a 404, a silent peer is dropped; the provider's no   *)
(* ends the flow.                                                          *)
HandleConnection(f) ==
    /\ f.at = "serve"
    /\ \/ /\ f.now = "approval" /\ Step(f, [f EXCEPT !.at = "exchange"]) /\ heard' = heard \cup {f.n}
          /\ UNCHANGED <<window, awaits>>
       \/ f.now = "denial" /\ Ends(f) /\ heard' = heard \cup {f.n}
       \/ /\ f.now \in {"noise", "silent"} /\ Step(f, [f EXCEPT !.at = "accept", !.now = "none"])
          /\ UNCHANGED <<window, awaits, heard>>
    /\ UNCHANGED <<store, removal, main, mixed, torn, told>>
ExchangeCode(f) ==
    /\ f.at = "exchange"
    /\ \/ Step(f, [f EXCEPT !.at = "insert"]) /\ mixed' = (mixed \/ removal # "no")
          /\ UNCHANGED <<window, awaits, told>>
       \/ Tell("fails") /\ Ends(f) /\ UNCHANGED mixed
    /\ UNCHANGED <<store, removal, main, heard, torn>>
-----------------------------------------------------------------------------
(* accounts_add_oauth: the row, then the keychain, then the event.         *)
InsertRow(f) ==
    /\ f.at = "insert" /\ entry' = TRUE /\ Step(f, [f EXCEPT !.at = "store"])
    /\ UNCHANGED <<window, awaits, token, removal, main, past, told>>
PutToken(f) ==
    /\ f.at = "store"
    /\ \/ /\ token' = TRUE /\ signals' = signals + 1 /\ Step(f, [f EXCEPT !.at = "boot"])
          /\ Returns(f, "success") /\ UNCHANGED <<torn, told>>
       \/ Tell("fails") /\ torn' = TRUE /\ Ends(f) /\ UNCHANGED <<token, signals>>
    /\ UNCHANGED <<entry, removal, sidebar, lookup, heard, mixed>>
(* The bootstrap sync emits the event again when it is over.               *)
Bootstrapped(f) ==
    /\ f.at = "boot" /\ flows' = flows \ {f} /\ signals' = signals + 1
    /\ UNCHANGED <<window, awaits, store, removal, sidebar, lookup, past, told>>

(* accounts_remove: the keychain, then the row, then the event.            *)
RemoveAccount ==
    /\ entry /\ removal = "no" /\ Tell("removes") /\ removal' = "token"
    /\ mixed' = (mixed \/ Writing)
    /\ UNCHANGED <<window, awaits, flows, store, main, heard, torn>>
RevokeAndDelete ==
    \/ token' = FALSE /\ UNCHANGED <<torn, told>>
    \/ Tell("fails") /\ torn' = TRUE /\ UNCHANGED token
RemoveToken ==
    /\ removal = "token" /\ removal' = "row" /\ RevokeAndDelete
    /\ UNCHANGED <<window, awaits, flows, entry, main, heard, mixed>>
RemoveRow ==
    /\ removal = "row" /\ entry' = FALSE /\ removal' = "emit"
    /\ UNCHANGED <<window, awaits, flows, token, main, past, told>>
RemoveEmit ==
    /\ removal = "emit" /\ removal' = "no" /\ signals' = signals + 1
    /\ UNCHANGED <<window, awaits, flows, store, sidebar, lookup, past, told>>
-----------------------------------------------------------------------------
(* The main window: an event fetches the list anew, and drops the fetch    *)
(* that is under way.                                                      *)
RefetchList == "asked"
AccountsEvent ==
    /\ signals > 0 /\ signals' = signals - 1 /\ lookup' = RefetchList
    /\ UNCHANGED <<window, awaits, flows, store, removal, sidebar, past, told>>
AccountsList ==
    /\ lookup = "asked" /\ lookup' = IF entry THEN "one" ELSE "empty"
    /\ UNCHANGED <<window, awaits, flows, store, removal, signals, sidebar, past, told>>
ListArrives ==
    /\ lookup \in {"one", "empty"} /\ sidebar' = (lookup = "one") /\ lookup' = "none"
    /\ UNCHANGED <<window, awaits, flows, store, removal, signals, past, told>>

Add(f) == Accept(f) \/ Cancelled(f) \/ HandleConnection(f) \/ ExchangeCode(f) \/ InsertRow(f) \/ PutToken(f) \/ Bootstrapped(f)
Removing == RemoveToken \/ RemoveRow \/ RemoveEmit
Listing == AccountsEvent \/ AccountsList \/ ListArrives
User == OpenWindow \/ Continue \/ TryAgain \/ CloseWindow \/ CloseAfterSuccess \/ RemoveAccount
Works == (\E f \in flows : Add(f)) \/ Removing \/ Listing
Next ==
    \/ User \/ Works
    \/ \E f \in flows, kind \in {"approval", "denial", "noise", "silent"} : Connect(f, kind)

Spec == Init /\ [][Next]_vars
(* The host and the main window go on; a peer that is silent is dropped.   *)
FairSpec == Spec /\ WF_vars(Works)
-----------------------------------------------------------------------------
(* The row and the keychain entry come and go together: between adds and   *)
(* removals there is both or neither, unless a keychain call failed or an  *)
(* add and a removal overlapped.                                           *)
NoHalfAccounts == (~Writing /\ removal = "no") => (entry = token \/ mixed \/ torn)

(* An approval that reaches the listener of its flow is taken, whatever    *)
(* came before it and however late, unless the provider had said no.       *)
ApprovalsAreHeard ==
    \A n \in 1..2 : (\E f \in flows : f.n = n /\ Contains(f.queue, "approval")) ~> (n \in heard)

(* The main window shows the account that is there, and no other, in the   *)
(* end, unless a keychain call failed.                                     *)
AccountsAreShown == (sidebar # entry) ~> (sidebar = entry \/ torn)

(* An account that the user adds is there, whole, approved and shown.      *)
AddingSucceeds == []NoHalfAccounts /\ ApprovalsAreHeard /\ AccountsAreShown
=============================================================================
