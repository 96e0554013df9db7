------------------------------- MODULE Replies -------------------------------
(***************************************************************************)
(* Answering a message: who the answer goes to and what it refers to       *)
(* (reply.rs), and the draft that a click on reply, reply-all or forward   *)
(* stores for the compose pane (open_reply in app.rs).  An address stands  *)
(* for its lower-case form; subject and quotation are left out.            *)
(***************************************************************************)
EXTENDS Naturals, Sequences, FiniteSets, SequencesExt

CONSTANTS
    Self,        \* the account's address
    Openers,     \* the messages that a conversation may begin with
    Longest      \* bound: messages in a conversation

(* Who begins a conversation is its author or authors, named once, and     *)
(* answers nothing.                                                        *)
ASSUME RepliesAssumption ==
    /\ Openers \subseteq
           [from : Seq(STRING) \ {<<>>}, replyTo : Seq(STRING), to : Seq(STRING), cc : Seq(STRING),
            refs : {<<>>}, parent : {0}, kind : {"first"}, on : {0}, self : {""}]
    /\ \A m \in Openers : IsInjective(m.from) /\ IsInjective(m.replyTo)
    /\ Self \in STRING

VARIABLES
    talk,        \* the messages of the conversation: [from, replyTo, to, cc, refs, parent, kind];
                 \* the Message-ID is the place in the sequence
    replying,    \* open_reply calls under way: [kind, on, self], self once looked up
    prepared     \* drafts stored by drafts_save and not sent yet

replyVars == <<talk, replying, prepared>>

RepliesInit == talk = <<>> /\ replying = {} /\ prepared = {}
-----------------------------------------------------------------------------
(* Reply-To before From; the others of To and Cc, each once, without the   *)
(* account; and the chain of references: those of the message (or what it  *)
(* answers), then the message.                                             *)
ReplyToRecipients(m) == IF m.replyTo # <<>> THEN m.replyTo ELSE m.from

ToAndCc(m) == m.to \o m.cc
CcAlone(m) == m.cc
Others(m) == ToAndCc(m)

(* The loop of reply_all_cc: who was not seen yet is copied, and seen.     *)
Unseen(all, seen) ==
    LET out[i \in 0 .. Len(all)] ==
            IF i = 0 THEN <<>>
            ELSE IF all[i] \in seen \cup ToSet(out[i - 1]) THEN out[i - 1]
            ELSE Append(out[i - 1], all[i])
    IN  out[Len(all)]
ReplyAllCc(m, primary, self) == Unseen(Others(m), ToSet(primary) \cup {self})

ReplyReferences(n) ==
    LET m == talk[n]
        chain == IF m.refs = <<>> /\ m.parent # 0 THEN <<m.parent>> ELSE m.refs
    IN  IF n \in ToSet(chain) THEN chain ELSE Append(chain, n)

Prepared(kind, n, self) ==
    LET m == talk[n]
        to == ReplyToRecipients(m)
    IN  IF kind = "forward"
        THEN [from |-> <<Self>>, replyTo |-> <<>>, to |-> <<>>, cc |-> <<>>, refs |-> <<>>,
              parent |-> 0, kind |-> kind, on |-> n, self |-> self]
        ELSE [from |-> <<Self>>, replyTo |-> <<>>, to |-> to,
              cc |-> IF kind = "all" THEN ReplyAllCc(m, to, self) ELSE <<>>,
              refs |-> ReplyReferences(n), parent |-> n, kind |-> kind, on |-> n, self |-> self]
-----------------------------------------------------------------------------
Opens(m) == talk = <<>> /\ talk' = <<m>> /\ UNCHANGED <<replying, prepared>>

Concerns(m) == Self \in ToSet(m.from) \cup ToSet(m.to) \cup ToSet(m.cc)

(* open_reply: reply-all asks for the account's address first, and goes on *)
(* without it if that fails; then the draft is stored.                     *)
OpenReply(kind, n) ==
    /\ Concerns(talk[n]) /\ Len(talk) + Cardinality(replying) + Cardinality(prepared) < Longest
    /\ \E self \in IF kind = "all" THEN {Self, ""} ELSE {""} :
           replying' = replying \cup {[kind |-> kind, on |-> n, self |-> self]}
    /\ UNCHANGED <<talk, prepared>>

SaveDraft(r) ==
    /\ replying' = replying \ {r} /\ prepared' = prepared \cup {Prepared(r.kind, r.on, r.self)}
    /\ UNCHANGED talk

DraftFails(r) == replying' = replying \ {r} /\ UNCHANGED <<talk, prepared>>

(* The user fills in a recipient of a forward and sends.                   *)
SendReply(d) ==
    /\ prepared' = prepared \ {d}
    /\ talk' = Append(talk, IF d.to = <<>> THEN [d EXCEPT !.to = <<"new">>] ELSE d)
    /\ UNCHANGED replying

(* Somebody else answers all, with a program that copies everyone or each  *)
(* of the others once, and that keeps the chain of references or sends     *)
(* In-Reply-To alone.                                                      *)
TheirReply(n, p) ==
    LET m == talk[n]
        to == ReplyToRecipients(m)
    IN  /\ p # Self /\ Len(talk) + Cardinality(replying) + Cardinality(prepared) < Longest
        /\ p \in ToSet(m.to) \cup ToSet(m.cc)
        /\ \E refs \in {<<>>, Append(m.refs, n)}, cc \in {ToAndCc(m), ReplyAllCc(m, to, p)} :
               talk' = Append(talk, [from |-> <<p>>, replyTo |-> <<>>, to |-> to, cc |-> cc, refs |-> refs,
                                     parent |-> n, kind |-> "theirs", on |-> n, self |-> p])
        /\ UNCHANGED <<replying, prepared>>

RepliesNext ==
    \/ \E m \in Openers : Opens(m)
    \/ \E n \in DOMAIN talk :
           \/ \E kind \in {"reply", "all", "forward"} : OpenReply(kind, n)
           \/ \E p \in ToSet(talk[n].to) \cup ToSet(talk[n].cc) : TheirReply(n, p)
    \/ \E r \in replying : SaveDraft(r) \/ DraftFails(r)
    \/ \E d \in prepared : SendReply(d)

RepliesSpec == RepliesInit /\ [][RepliesNext]_replyVars
-----------------------------------------------------------------------------
(* A conversation kept up with reply-all keeps everyone who was in it (an  *)
(* author who asks for answers elsewhere aside), names nobody twice and    *)
(* leaves the user out of the copies if the account was found; and an      *)
(* answer refers to the message it answers, and through a chain of answers *)
(* that all refer to theirs, to the first one.                             *)
Present(m) == ToSet(m.from) \cup ToSet(m.to) \cup ToSet(m.cc)

(* Message n of t and what it answers, directly or not                      *)
Chain(t, n) ==
    {k \in DOMAIN t : \A S \in SUBSET DOMAIN t :
        n \in S /\ (\A j \in S : t[j].parent \in S \cup {0}) => k \in S}

RepliesReachEveryone ==
    \A n \in DOMAIN talk :
        LET m == talk[n]
            chain == Chain(talk, n)
        IN  /\ m.kind = "all" => /\ m.self = Self => Self \notin ToSet(m.cc)
                                 /\ IsInjective(m.to \o m.cc)
            /\ (\A k \in chain : talk[k].kind \in {"first", "all", "theirs"} /\ talk[k].replyTo = <<>>) =>
                   \A k \in chain : Present(talk[k]) \subseteq Present(m) \cup {""}
            /\ m.kind \in {"reply", "all"} =>
                   /\ Last(m.refs) = m.parent
                   /\ (\A k \in chain : talk[k].parent # 0 => talk[k].refs # <<>>) =>
                          chain \ {n} = ToSet(m.refs)
=============================================================================
