------------------------------ MODULE Recipients ------------------------------
(***************************************************************************)
(* The recipients of a message: the contacts table that every new message  *)
(* and every send adds to (repos/contacts.rs, messages_send), the query    *)
(* for suggestions (contacts_query), and the address field of the compose  *)
(* pane with its dropdown (AddressField, parse_addrs in app.rs).           *)
(*                                                                         *)
(* A line of text is a sequence of segments, the last of which is being    *)
(* typed.  A segment is [text, address]: a display name or an unfinished   *)
(* text, and the address in brackets or on its own.  A comma in a name     *)
(* separates like any other comma.                                         *)
(***************************************************************************)
EXTENDS Naturals, Sequences, FiniteSets, SequencesExt

CONSTANTS
    People,     \* addresses, as numbers: their alphabetical order
    NameOf,     \* the display name of each, as the parts between its commas
    Begins,     \* what a user types, with the addresses that begin with it
    Short,      \* the texts of fewer than 2 characters
    MostSuggested, \* the limit of contacts_query
    Unset,      \* no display name, no address
    Sessions    \* bounds: a session says how often what kind of thing happens

ASSUME RecipientsAssumption ==
    NameOf \in [People -> Seq(STRING) \ {<<>>}] /\ Unset \notin People

VARIABLES
    contacts,   \* contacts_v1: display_name, last_seen_at and seen_count of an address
    clock,
    line,       \* the text of the field
    queries,    \* contacts_query calls on their way, by what they ask for
    suggestions, highlighted, dropdown,
    blurs,      \* timers that close the dropdown after a blur
    picked,     \* history: the addresses picked from the dropdown and not edited since
    doing

recipientVars ==
    <<contacts, clock, line, queries, suggestions, highlighted, dropdown, blurs, picked, doing>>
field == <<line, queries, suggestions, highlighted, dropdown, blurs, picked>>

Spend(k) == /\ \E s \in Sessions : \A j \in DOMAIN s : doing[j] + (IF j = k THEN 1 ELSE 0) <= s[j]
            /\ doing' = [doing EXCEPT ![k] = @ + 1]

Typed(t) == [text |-> t, address |-> Unset]
Empty == Typed("")

RecipientsInit ==
    /\ contacts = <<>> /\ clock = 0
    /\ line = <<Empty>> /\ queries = {} /\ suggestions = <<>> /\ highlighted = 1
    /\ dropdown = FALSE /\ blurs = 0 /\ picked = <<>>
    /\ doing = [sightings |-> 0, types |-> 0, picks |-> 0, moves |-> 0]
-----------------------------------------------------------------------------
(* upsert_seen: a name once known is not lost to a sighting without one.   *)
Upserted(a, name) ==
    LET old == contacts[a]
    IN  [x \in DOMAIN contacts \cup {a} |->
            IF x # a THEN contacts[x]
            ELSE IF a \notin DOMAIN contacts THEN [name |-> name, last |-> clock + 1, count |-> 1]
            ELSE [name |-> IF name = Unset THEN old.name ELSE name, last |-> clock + 1, count |-> old.count + 1]]

(* A new message from a, or a message sent to a: parse_addrs gives no name *)
(* to the recipients of a send.                                            *)
Sighted(a) ==
    /\ Spend("sightings")
    /\ \E name \in {NameOf[a], Unset} : contacts' = Upserted(a, name)
    /\ clock' = clock + 1
    /\ UNCHANGED field

(* query_prefix: the latest first, then the most frequent, then by address *)
Before(a, b) ==
    \/ contacts[a].last > contacts[b].last
    \/ contacts[a].last = contacts[b].last /\ contacts[a].count > contacts[b].count
    \/ contacts[a].last = contacts[b].last /\ contacts[a].count = contacts[b].count /\ a < b
QueryPrefix(p) ==
    LET all == {a \in DOMAIN contacts : a \in Begins[p]}
        size == Cardinality(all)
    IN  {rows \in [1 .. IF size < MostSuggested THEN size ELSE MostSuggested -> all] :
            \A i \in DOMAIN rows : {a \in all : Before(a, rows[i])} = {rows[j] : j \in 1 .. i - 1}}
-----------------------------------------------------------------------------
(* active_segment, replace_active_segment, format_contact                  *)
Active == line[Len(line)]
Earlier == SubSeq(line, 1, Len(line) - 1)

FormatContact(a, name) ==
    IF name = Unset THEN <<[text |-> "", address |-> a]>>
    ELSE [i \in DOMAIN name |-> [text |-> name[i], address |-> IF i = Len(name) THEN a ELSE Unset]]

ReplaceLine(segments) == segments \o <<Empty>>
ReplaceActive(segments) == Earlier \o segments \o <<Empty>>

(* parse_addrs: every segment that is not empty is a recipient, by its     *)
(* address, or by its text where there is none; as a set, for the order    *)
(* and repetitions make no difference here.                                *)
Parsed == ToSet(line) \ {Empty}

(* The effect of AddressField, which runs when the active segment changed: *)
(* below two characters the dropdown closes, else a query starts.          *)
Refreshed(segment) ==
    IF segment = Active THEN UNCHANGED <<queries, suggestions, highlighted, dropdown>>
    ELSE IF segment.text \in Short
    THEN suggestions' = <<>> /\ dropdown' = FALSE /\ highlighted' = 1 /\ UNCHANGED queries
    ELSE queries' = queries \cup {segment.text} /\ UNCHANGED <<suggestions, highlighted, dropdown>>

Type(t) ==
    /\ Spend("types") /\ t # Active.text
    /\ line' = Earlier \o <<Typed(t)>> /\ Refreshed(Typed(t))
    /\ UNCHANGED <<contacts, clock, blurs, picked>>

Comma ==
    /\ Spend("types") /\ Active # Empty
    /\ line' = line \o <<Empty>> /\ Refreshed(Empty)
    /\ UNCHANGED <<contacts, clock, blurs, picked>>

(* The answer to a query sets the suggestions, whatever the text is by now *)
Answered(p) ==
    /\ p \in queries /\ queries' = queries \ {p}
    /\ \E rows \in QueryPrefix(p) :
          /\ suggestions' = [i \in DOMAIN rows |-> [address |-> rows[i], name |-> contacts[rows[i]].name]]
          /\ dropdown' = (rows # <<>>)
    /\ highlighted' = 1 /\ UNCHANGED <<contacts, clock, line, blurs, picked, doing>>

QueryFails(p) ==
    /\ p \in queries /\ queries' = queries \ {p} /\ Spend("moves")
    /\ suggestions' = <<>> /\ dropdown' = FALSE
    /\ UNCHANGED <<contacts, clock, line, highlighted, blurs, picked>>
-----------------------------------------------------------------------------
Suggested == dropdown /\ suggestions # <<>>

Arrow ==
    /\ Suggested /\ Spend("moves")
    /\ highlighted' \in {(highlighted % Len(suggestions)) + 1,
                         IF highlighted = 1 THEN Len(suggestions) ELSE highlighted - 1}
    /\ UNCHANGED <<contacts, clock, line, queries, suggestions, dropdown, blurs, picked>>

(* Enter and Tab take the highlighted row, a press of the mouse any row.   *)
(* The new active segment is empty, so the effect clears the suggestions.  *)
PickRow(i) ==
    LET row == suggestions[i]
        new == ReplaceActive(FormatContact(row.address, row.name))
    IN  /\ Suggested /\ Spend("picks")
        /\ line' = new /\ picked' = Append(picked, row.address)
        /\ IF Active = Empty
           THEN dropdown' = FALSE /\ UNCHANGED <<suggestions, highlighted>>
           ELSE suggestions' = <<>> /\ dropdown' = FALSE /\ highlighted' = 1
        /\ UNCHANGED <<contacts, clock, queries, blurs>>

(* Escape closes the dropdown at once, a blur 150 ms later                 *)
Escape == /\ Suggested /\ Spend("moves") /\ dropdown' = FALSE
          /\ UNCHANGED <<contacts, clock, line, queries, suggestions, highlighted, blurs, picked>>
Blur == /\ Spend("moves") /\ blurs' = blurs + 1
        /\ UNCHANGED <<contacts, clock, line, queries, suggestions, highlighted, dropdown, picked>>
BlurEnds == /\ blurs > 0 /\ blurs' = blurs - 1 /\ dropdown' = FALSE
            /\ UNCHANGED <<contacts, clock, line, queries, suggestions, highlighted, picked, doing>>

RecipientsNext ==
    \/ \E a \in People : Sighted(a)
    \/ \E t \in DOMAIN Begins \cup Short : Type(t)
    \/ \E p \in DOMAIN Begins : Answered(p) \/ QueryFails(p)
    \/ Comma \/ Arrow \/ Escape \/ Blur \/ BlurEnds
    \/ \E i \in DOMAIN suggestions : PickRow(i)

RecipientsSpec == RecipientsInit /\ [][RecipientsNext]_recipientVars
-----------------------------------------------------------------------------
(* Whatever the answers of the queries are and when they come, the message *)
(* goes to everyone picked from the dropdown: no later pick, and no comma  *)
(* in a name, takes an earlier recipient out of what parse_addrs reads     *)
(* back from the text.                                                     *)
PickedAreParsed == \A i \in DOMAIN picked : \E s \in Parsed : s.address = picked[i]
=============================================================================
