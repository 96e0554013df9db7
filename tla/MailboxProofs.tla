---------------------------- MODULE MailboxProofs ----------------------------
(***************************************************************************)
(* What the drain does to the server, for any number of folders, messages, *)
(* commands, other clients and lost replies.                               *)
(***************************************************************************)
EXTENDS MailboxProperties, TLAPS, FiniteSetTheorems

-----------------------------------------------------------------------------
(* The server: a mailbox gives no UID twice under one UIDVALIDITY.         *)

IsMailbox(m) ==
    m = [validity |-> m.validity, uidnext |-> m.uidnext, modseq |-> m.modseq, mail |-> m.mail]
Sane(m) ==
    /\ IsMailbox(m)
    /\ m.validity \in Nat /\ m.uidnext \in Nat \ {0} /\ UidsOf(m) \subseteq 1 .. m.uidnext - 1
    /\ m.modseq \in Nat /\ \A u \in UidsOf(m) : m.mail[u].mod \in Nat

(* What may become of a mailbox m: another, n.  What is new or changed in  *)
(* it has a later mod-sequence.                                            *)
Grows(m, n) == n.uidnext >= m.uidnext /\ n.modseq >= m.modseq
Holds(m, u, r) == u \in UidsOf(m) /\ r.name = m.mail[u].name
Evolves(m, n) ==
    \/ n.validity = m.validity + 1
    \/ /\ n.validity = m.validity /\ Grows(m, n)
       /\ \A u \in UidsOf(n) :
             /\ u < m.uidnext => Holds(m, u, n.mail[u])
             /\ n.mail[u].mod > m.modseq \/ (u \in UidsOf(m) /\ n.mail[u] = m.mail[u])

LEMMA StaysItself == ASSUME NEW m, Sane(m) PROVE Evolves(m, m)
BY DEF Sane, Evolves, Grows, Holds

LEMMA SetMail ==
    ASSUME NEW m, IsMailbox(m), NEW mail
    PROVE  /\ IsMailbox([m EXCEPT !.mail = mail])
           /\ [m EXCEPT !.mail = mail].mail = mail
           /\ [m EXCEPT !.mail = mail].validity = m.validity
           /\ [m EXCEPT !.mail = mail].uidnext = m.uidnext
           /\ [m EXCEPT !.mail = mail].modseq = m.modseq
BY DEF IsMailbox

LEMMA SetModseq ==
    ASSUME NEW m, IsMailbox(m), NEW x
    PROVE  /\ IsMailbox([m EXCEPT !.modseq = x])
           /\ [m EXCEPT !.modseq = x].mail = m.mail
           /\ [m EXCEPT !.modseq = x].validity = m.validity
           /\ [m EXCEPT !.modseq = x].uidnext = m.uidnext
           /\ [m EXCEPT !.modseq = x].modseq = x
BY DEF IsMailbox

LEMMA SetNext ==
    ASSUME NEW m, IsMailbox(m), NEW x
    PROVE  /\ IsMailbox([m EXCEPT !.uidnext = x])
           /\ [m EXCEPT !.uidnext = x].mail = m.mail
           /\ [m EXCEPT !.uidnext = x].validity = m.validity
           /\ [m EXCEPT !.uidnext = x].uidnext = x
           /\ [m EXCEPT !.uidnext = x].modseq = m.modseq
BY DEF IsMailbox

LEMMA SetValidity ==
    ASSUME NEW m, IsMailbox(m), NEW x
    PROVE  /\ IsMailbox([m EXCEPT !.validity = x])
           /\ [m EXCEPT !.validity = x].mail = m.mail
           /\ [m EXCEPT !.validity = x].validity = x
           /\ [m EXCEPT !.validity = x].uidnext = m.uidnext
           /\ [m EXCEPT !.validity = x].modseq = m.modseq
BY DEF IsMailbox

(* A message is added under the next UID; the others stay.                 *)
LEMMA AddsOne ==
    ASSUME NEW m, Sane(m), NEW name, NEW flags, NEW new, new = WithMessage(m, name, flags)
    PROVE  /\ Sane(new) /\ Evolves(m, new)
           /\ new.validity = m.validity /\ new.uidnext = m.uidnext + 1
           /\ UidsOf(new) = UidsOf(m) \cup {m.uidnext}
           /\ new.mail[m.uidnext].name = name
           /\ \A u \in UidsOf(m) : new.mail[u] = m.mail[u]
<1> DEFINE mail == [u \in UidsOf(m) \cup {m.uidnext} |->
                       IF u = m.uidnext THEN Message(name, flags, m.modseq + 1) ELSE m.mail[u]]
           a == [m EXCEPT !.uidnext = m.uidnext + 1]
           b == [a EXCEPT !.modseq = m.modseq + 1]
           n == [b EXCEPT !.mail = mail]
<1>1. IsMailbox(a) /\ a.mail = m.mail /\ a.validity = m.validity /\ a.uidnext = m.uidnext + 1
      /\ a.modseq = m.modseq
    BY SetNext DEF Sane
<1>2. IsMailbox(b) /\ b.mail = m.mail /\ b.validity = m.validity /\ b.uidnext = m.uidnext + 1
      /\ b.modseq = m.modseq + 1
  <2> HIDE DEF a
  <2> QED
      BY <1>1, SetModseq
<1>3. IsMailbox(n) /\ n.mail = mail /\ n.validity = m.validity /\ n.uidnext = m.uidnext + 1
      /\ n.modseq = m.modseq + 1
  <2> HIDE DEF a, b, mail
  <2> QED
      BY <1>2, SetMail
<1>4. WithMessage(m, name, flags) = n
  <2>1. m.modseq + 1 = a.modseq + 1
      BY DEF Sane, IsMailbox
  <2> QED
      BY DEF WithMessage
<1> HIDE DEF a, b, n
<1>5. UidsOf(n) = UidsOf(m) \cup {m.uidnext} /\ m.uidnext \notin UidsOf(m) /\ m.uidnext \in Nat \ {0}
    BY <1>3 DEF UidsOf, Sane
<1>6. /\ n.mail[m.uidnext].name = name /\ n.mail[m.uidnext].mod = m.modseq + 1
      /\ \A u \in UidsOf(m) : n.mail[u] = m.mail[u]
    BY <1>3, <1>5 DEF Message
<1>7. Sane(n)
    BY <1>3, <1>5, <1>6 DEF Sane
<1>8. Evolves(m, n)
    BY <1>3, <1>5, <1>6 DEF Evolves, Grows, Holds, Sane
<1> QED
    BY <1>3, <1>4, <1>5, <1>6, <1>7, <1>8

LEMMA RemovesOne ==
    ASSUME NEW m, Sane(m), NEW x, NEW new, new = WithoutMessage(m, x)
    PROVE  /\ Sane(new) /\ Evolves(m, new)
           /\ new.validity = m.validity /\ new.uidnext = m.uidnext /\ new.modseq = m.modseq
           /\ UidsOf(new) = UidsOf(m) \ {x}
           /\ \A u \in UidsOf(new) : new.mail[u] = m.mail[u]
<1> DEFINE mail == [v \in UidsOf(m) \ {x} |-> m.mail[v]]
           n == [m EXCEPT !.mail = mail]
<1>1. IsMailbox(n) /\ n.mail = mail /\ n.validity = m.validity /\ n.uidnext = m.uidnext
      /\ n.modseq = m.modseq
  <2> HIDE DEF mail
  <2> QED
      BY SetMail DEF Sane
<1>2. WithoutMessage(m, x) = n
    BY DEF WithoutMessage
<1> HIDE DEF n
<1>3. UidsOf(n) = UidsOf(m) \ {x} /\ \A u \in UidsOf(n) : n.mail[u] = m.mail[u]
    BY <1>1 DEF UidsOf
<1>4. Sane(n) /\ Evolves(m, n)
    BY <1>1, <1>3 DEF Sane, Evolves, Grows, Holds
<1> QED
    BY <1>1, <1>2, <1>3, <1>4

LEMMA MarksOne ==
    ASSUME NEW m, Sane(m), NEW x, NEW flags, NEW new, new = WithFlags(m, x, flags)
    PROVE  /\ Sane(new) /\ Evolves(m, new)
           /\ new.validity = m.validity /\ new.uidnext = m.uidnext
           /\ UidsOf(new) = UidsOf(m)
           /\ \A u \in UidsOf(m) : /\ new.mail[u].name = m.mail[u].name
                                   /\ u # x => new.mail[u] = m.mail[u]
<1> DEFINE mail == [m.mail EXCEPT ![x] = Message(m.mail[x].name, flags, m.modseq + 1)]
           a == [m EXCEPT !.modseq = m.modseq + 1]
           n == [a EXCEPT !.mail = mail]
<1>0. m.uidnext \in Nat /\ m.modseq \in Nat
    BY DEF Sane
<1>1. CASE ~(x \in UidsOf(m) /\ m.mail[x].flags # flags)
  <2>1. new = m
      BY <1>1 DEF WithFlags
  <2> QED
      BY <1>0, <2>1 DEF Evolves, Grows, Holds, Sane
<1>2. CASE x \in UidsOf(m) /\ m.mail[x].flags # flags
  <2>1. IsMailbox(a) /\ a.mail = m.mail /\ a.validity = m.validity /\ a.uidnext = m.uidnext
        /\ a.modseq = m.modseq + 1
      BY SetModseq DEF Sane
  <2>2. IsMailbox(n) /\ n.mail = mail /\ n.validity = m.validity /\ n.uidnext = m.uidnext
        /\ n.modseq = m.modseq + 1
    <3> HIDE DEF a, mail
    <3> QED
        BY <2>1, SetMail
  <2>3. WithFlags(m, x, flags) = n
      BY <1>2, <2>1 DEF WithFlags
  <2> HIDE DEF a, n
  <2>4. UidsOf(n) = UidsOf(m)
      BY <2>2 DEF UidsOf
  <2>5. \A u \in UidsOf(m) : /\ n.mail[u].name = m.mail[u].name
                             /\ u # x => n.mail[u] = m.mail[u]
                             /\ u = x => n.mail[u].mod = m.modseq + 1
      BY <2>2 DEF UidsOf, Message
  <2>6. Sane(n) /\ Evolves(m, n)
      BY <1>0, <2>2, <2>4, <2>5 DEF Sane, Evolves, Grows, Holds
  <2> QED
      BY <2>2, <2>3, <2>4, <2>5, <2>6
<1> QED
    BY <1>1, <1>2

LEMMA Renumbers ==
    ASSUME NEW m, Sane(m)
    PROVE  /\ Sane(Renumbered(m)) /\ Evolves(m, Renumbered(m))
           /\ Renumbered(m).validity = m.validity + 1 /\ Renumbered(m).modseq = m.modseq
<1> DEFINE rank(u) == Cardinality({v \in UidsOf(m) : v <= u})
           nth(k) == CHOOSE u \in UidsOf(m) : rank(u) = k
           size == Cardinality(UidsOf(m))
           mail == [k \in 1 .. size |->
                       Message(m.mail[nth(k)].name, m.mail[nth(k)].flags, m.modseq)]
           a == [m EXCEPT !.validity = m.validity + 1]
           b == [a EXCEPT !.uidnext = size + 1]
           n == [b EXCEPT !.mail = mail]
<1>1. size \in Nat
  <2>1. IsFiniteSet(1 .. m.uidnext - 1) /\ UidsOf(m) \subseteq 1 .. m.uidnext - 1
    <3>1. m.uidnext - 1 \in Int /\ UidsOf(m) \subseteq 1 .. m.uidnext - 1
        BY DEF Sane
    <3> QED
        BY <3>1, FS_Interval
  <2>2. IsFiniteSet(UidsOf(m))
      BY <2>1, FS_Subset
  <2> QED
      BY <2>2, FS_CardinalityType
<1>2. IsMailbox(a) /\ a.mail = m.mail /\ a.validity = m.validity + 1
      /\ a.modseq = m.modseq
    BY SetValidity DEF Sane
<1>3. IsMailbox(b) /\ b.mail = m.mail /\ b.validity = m.validity + 1 /\ b.uidnext = size + 1
      /\ b.modseq = m.modseq
  <2> HIDE DEF a, size
  <2> QED
      BY <1>2, SetNext
<1>4. IsMailbox(n) /\ n.mail = mail /\ n.validity = m.validity + 1 /\ n.uidnext = size + 1
      /\ n.modseq = m.modseq
  <2> HIDE DEF a, b, size, mail
  <2> QED
      BY <1>3, SetMail
<1>5. Renumbered(m) = n
    BY DEF Renumbered, Sane, IsMailbox
<1> HIDE DEF a, b, n, size
<1>6. UidsOf(n) = 1 .. size /\ \A u \in UidsOf(n) : n.mail[u].mod = m.modseq
    BY <1>4 DEF UidsOf, Message
<1>7. Evolves(m, n)
    BY <1>4 DEF Evolves
<1>8. \A u \in UidsOf(n) : n.mail[u].mod \in Nat
    BY <1>6 DEF Sane
<1> HIDE DEF mail
<1>9. /\ n.validity \in Nat /\ n.uidnext \in Nat \ {0} /\ n.modseq \in Nat
      /\ UidsOf(n) \subseteq 1 .. n.uidnext - 1
    BY <1>1, <1>4, <1>6 DEF Sane
<1>10. Sane(n)
    BY <1>4, <1>8, <1>9 DEF Sane
<1> QED
    BY <1>4, <1>5, <1>7, <1>10

-----------------------------------------------------------------------------
(* The account: what an operation does to its mailboxes.                   *)

World(w) == /\ w = [f \in Folders |-> w[f]]
            /\ \A f \in Folders : Sane(w[f])

(* From w to v, none but the message x of folder g changes or goes.        *)
Follows(w, v) == World(v) /\ \A f \in Folders : Evolves(w[f], v[f])
Spares(w, v, g, x) ==
    \A f \in Folders : \A u \in UidsOf(w[f]) :
        f # g \/ u # x => u \in UidsOf(v[f]) /\ v[f].mail[u] = w[f].mail[u]

IsOperation(o) ==
    /\ o.op \in {"flags", "move", "delete"} /\ o.id.folder \in Folders
    /\ o.op = "move" => o.target \in Folders
    /\ o.op = "flags" => o.flag \in Flags

LEMMA OneMailbox ==
    ASSUME NEW w, World(w), NEW g \in Folders, NEW n, Sane(n), Evolves(w[g], n), NEW x,
           \A u \in UidsOf(w[g]) : u # x => u \in UidsOf(n) /\ n.mail[u] = w[g].mail[u]
    PROVE  /\ Follows(w, [w EXCEPT ![g] = n]) /\ Spares(w, [w EXCEPT ![g] = n], g, x)
           /\ [w EXCEPT ![g] = n][g] = n
           /\ \A f \in Folders : f # g => [w EXCEPT ![g] = n][f] = w[f]
<1> DEFINE v == [w EXCEPT ![g] = n]
<1>1. v = [f \in Folders |-> IF f = g THEN n ELSE w[f]]
    BY DEF World
<1> HIDE DEF v
<1>2. v[g] = n /\ \A f \in Folders : f # g => v[f] = w[f]
    BY <1>1
<1>3. v = [f \in Folders |-> v[f]]
    BY <1>1
<1>4. World(v)
    BY <1>2, <1>3 DEF World
<1>5. \A f \in Folders : Evolves(w[f], w[f])
    BY StaysItself DEF World
<1>6. Follows(w, v)
    BY <1>2, <1>4, <1>5 DEF Follows
<1>7. Spares(w, v, g, x)
    BY <1>2 DEF Spares
<1> QED
    BY <1>2, <1>6, <1>7 DEF v

LEMMA StoredOne ==
    ASSUME World(server), NEW o, IsOperation(o)
    PROVE  /\ Follows(server, Stored(o)) /\ Spares(server, Stored(o), o.id.folder, o.id.uid)
           /\ \A f \in Folders : \A u \in UidsOf(server[f]) :
                 u \in UidsOf(Stored(o)[f]) /\ Stored(o)[f].mail[u].name = server[f].mail[u].name
<1> DEFINE g == o.id.folder
           m == server[g]
           n == IF o.id.uid \in UidsOf(m)
                THEN WithFlags(m, o.id.uid, Change(m.mail[o.id.uid].flags, o.flag, o.set)) ELSE m
           v == [server EXCEPT ![g] = n]
<1>1. g \in Folders /\ Sane(m)
    BY DEF World, IsOperation
<1>2. /\ Sane(n) /\ Evolves(m, n)
      /\ \A u \in UidsOf(m) : /\ u \in UidsOf(n) /\ n.mail[u].name = m.mail[u].name
                              /\ u # o.id.uid => n.mail[u] = m.mail[u]
  <2>1. Evolves(m, m)
      BY <1>1, StaysItself
  <2>2. CASE o.id.uid \notin UidsOf(m)
      BY <1>1, <2>1, <2>2
  <2>3. CASE o.id.uid \in UidsOf(m)
    <3> DEFINE fl == Change(m.mail[o.id.uid].flags, o.flag, o.set)
    <3>1. n = WithFlags(m, o.id.uid, fl)
        BY <2>3
    <3> HIDE DEF n, m, fl
    <3> QED
        BY <1>1, <3>1, MarksOne
  <2> QED
      BY <2>2, <2>3
<1>3. Stored(o) = v
    BY <1>1 DEF Stored, World
<1> HIDE DEF n
<1>4. Follows(server, v) /\ Spares(server, v, g, o.id.uid) /\ v[g] = n
      /\ \A f \in Folders : f # g => v[f] = server[f]
    BY <1>1, <1>2, OneMailbox
<1> HIDE DEF v
<1> QED
    BY <1>2, <1>3, <1>4

LEMMA DeletedOne ==
    ASSUME World(server), NEW o, IsOperation(o)
    PROVE  Follows(server, Deleted(o)) /\ Spares(server, Deleted(o), o.id.folder, o.id.uid)
<1> DEFINE g == o.id.folder
           n == WithoutMessage(server[g], o.id.uid)
<1>1. g \in Folders /\ Sane(server[g])
    BY DEF World, IsOperation
<1>2. /\ Sane(n) /\ Evolves(server[g], n)
      /\ \A u \in UidsOf(server[g]) : u # o.id.uid => u \in UidsOf(n) /\ n.mail[u] = server[g].mail[u]
  <2>1. n = WithoutMessage(server[g], o.id.uid)
      OBVIOUS
  <2> HIDE DEF n
  <2> QED
      BY <1>1, <2>1, RemovesOne
<1>3. Deleted(o) = [server EXCEPT ![g] = n]
    BY <1>1 DEF Deleted, World
<1> HIDE DEF n
<1> DEFINE v == [server EXCEPT ![g] = n]
<1>4. Follows(server, v) /\ Spares(server, v, g, o.id.uid)
    BY <1>1, <1>2, OneMailbox
<1> QED
    BY <1>3, <1>4

(* The copy bears the next UID of the target, and the name.                *)
LEMMA CopiedOne ==
    ASSUME World(server), NEW o, IsOperation(o), o.op = "move"
    PROVE  /\ Follows(server, Copied(o)) 
           /\ \A f \in Folders : \A u \in UidsOf(server[f]) :
                 u \in UidsOf(Copied(o)[f]) /\ Copied(o)[f].mail[u] = server[f].mail[u]
           /\ \A f \in Folders : Copied(o)[f].validity = server[f].validity
           /\ o.id.uid \in UidsOf(server[o.id.folder]) =>
                 \E u \in UidsOf(Copied(o)[o.target]) :
                     /\ u \notin UidsOf(server[o.target])
                     /\ Copied(o)[o.target].mail[u].name = server[o.id.folder].mail[o.id.uid].name
<1> DEFINE g == o.target
           m == server[o.id.folder].mail[o.id.uid]
           n == WithMessage(server[g], m.name, m.flags)
           v == [server EXCEPT ![g] = n]
<1>1. g \in Folders /\ Sane(server[g])
    BY DEF World, IsOperation
<1>2. CASE o.id.uid \notin UidsOf(server[o.id.folder])
  <2>1. Copied(o) = server
      BY <1>2 DEF Copied
  <2>2. Follows(server, server)
      BY StaysItself DEF Follows, World
  <2> QED
      BY <1>2, <2>1, <2>2
<1>3. CASE o.id.uid \in UidsOf(server[o.id.folder])
  <2>1. /\ Sane(n) /\ Evolves(server[g], n) /\ n.validity = server[g].validity
        /\ UidsOf(n) = UidsOf(server[g]) \cup {server[g].uidnext}
        /\ n.mail[server[g].uidnext].name = m.name
        /\ \A u \in UidsOf(server[g]) : n.mail[u] = server[g].mail[u]
    <3>1. n = WithMessage(server[g], m.name, m.flags)
        OBVIOUS
    <3> HIDE DEF n, m
    <3> QED
        BY <1>1, <3>1, AddsOne
  <2>2. Copied(o) = v
      BY <1>1, <1>3 DEF Copied, World
  <2> HIDE DEF n
  <2>3. Follows(server, v) /\ v[g] = n /\ \A f \in Folders : f # g => v[f] = server[f]
      BY <1>1, <2>1, OneMailbox
  <2> HIDE DEF v
  <2>4. server[g].uidnext \notin UidsOf(server[g])
      BY <1>1 DEF Sane
  <2> QED
      BY <1>1, <2>1, <2>2, <2>3, <2>4
<1> QED
    BY <1>2, <1>3

LEMMA MovedOne ==
    ASSUME World(server), NEW o, IsOperation(o), o.op = "move"
    PROVE  /\ Follows(server, Moved(o)) /\ Spares(server, Moved(o), o.id.folder, o.id.uid)
           /\ o.id.uid \in UidsOf(server[o.id.folder]) =>
                 \E u \in UidsOf(Moved(o)[o.target]) :
                     Moved(o)[o.target].mail[u].name = server[o.id.folder].mail[o.id.uid].name
<1> DEFINE g == o.id.folder
           c == Copied(o)
           n == WithoutMessage(c[g], o.id.uid)
           v == [c EXCEPT ![g] = n]
<1>1. g \in Folders /\ o.target \in Folders
    BY DEF IsOperation
<1>2. /\ World(c) /\ \A f \in Folders : Evolves(server[f], c[f]) /\ c[f].validity = server[f].validity
      /\ \A f \in Folders : \A u \in UidsOf(server[f]) :
             u \in UidsOf(c[f]) /\ c[f].mail[u] = server[f].mail[u]
    BY CopiedOne DEF Follows
<1>3. o.id.uid \in UidsOf(server[g]) =>
         \E u \in UidsOf(c[o.target]) :
             u \notin UidsOf(server[o.target]) /\ c[o.target].mail[u].name = server[g].mail[o.id.uid].name
    BY CopiedOne
<1>4. Moved(o) = v
    BY <1>1, <1>2 DEF Moved, World
<1> HIDE DEF c
<1>5. /\ Sane(n) /\ Evolves(c[g], n) /\ n.validity = c[g].validity /\ n.uidnext = c[g].uidnext
      /\ n.modseq = c[g].modseq
      /\ UidsOf(n) = UidsOf(c[g]) \ {o.id.uid}
      /\ \A u \in UidsOf(n) : n.mail[u] = c[g].mail[u]
    BY <1>1, <1>2, RemovesOne DEF World
<1> HIDE DEF n
<1>6. World(v) /\ v[g] = n /\ \A f \in Folders : f # g => v[f] = c[f]
  <2>1. \A u \in UidsOf(c[g]) : u # o.id.uid => u \in UidsOf(n) /\ n.mail[u] = c[g].mail[u]
      BY <1>5
  <2> QED
      BY <1>1, <1>2, <1>5, <2>1, OneMailbox DEF Follows
<1> HIDE DEF v
<1>7. Evolves(server[g], n)
  <2>1. /\ server[g].uidnext \in Nat /\ c[g].uidnext \in Nat /\ server[g].validity \in Nat
        /\ server[g].modseq \in Nat /\ c[g].modseq \in Nat
      BY <1>1, <1>2 DEF World, Sane
  <2>2. Grows(server[g], c[g]) /\ \A u \in UidsOf(c[g]) :
           /\ u < server[g].uidnext => Holds(server[g], u, c[g].mail[u])
           /\ \/ c[g].mail[u].mod > server[g].modseq
              \/ u \in UidsOf(server[g]) /\ c[g].mail[u] = server[g].mail[u]
      BY <1>1, <1>2, <2>1 DEF Evolves
  <2>3. Grows(server[g], n)
      BY <1>5, <2>1, <2>2 DEF Grows
  <2> QED
      BY <1>1, <1>2, <1>5, <2>1, <2>2, <2>3 DEF Evolves
<1>8. Follows(server, v)
    BY <1>2, <1>6, <1>7 DEF Follows
<1>9. Spares(server, v, g, o.id.uid)
    BY <1>2, <1>5, <1>6 DEF Spares
<1>10. o.id.uid \in UidsOf(server[g]) =>
          \E u \in UidsOf(v[o.target]) : v[o.target].mail[u].name = server[g].mail[o.id.uid].name
  <2> SUFFICES ASSUME o.id.uid \in UidsOf(server[g])
               PROVE  \E u \in UidsOf(v[o.target]) :
                         v[o.target].mail[u].name = server[g].mail[o.id.uid].name
      OBVIOUS
  <2> PICK u \in UidsOf(c[o.target]) :
             u \notin UidsOf(server[o.target]) /\ c[o.target].mail[u].name = server[g].mail[o.id.uid].name
      BY <1>3
  <2>1. CASE o.target # g
      BY <1>1, <1>6, <2>1
  <2>2. CASE o.target = g
    <3>1. u # o.id.uid
        BY <2>2
    <3>2. u \in UidsOf(n) /\ n.mail[u] = c[g].mail[u]
        BY <1>5, <2>2, <3>1
    <3> QED
        BY <1>6, <2>2, <3>2
  <2> QED
      BY <2>1, <2>2
<1> QED
    BY <1>4, <1>8, <1>9, <1>10

-----------------------------------------------------------------------------
(* Every id that is held anywhere, in a row, an operation or a listing, is *)
(* of a UIDVALIDITY the mailbox had or has, and while it is the present    *)
(* one, the message with that UID is the one that was meant.               *)

Names(i, k) ==
    /\ i = [folder |-> i.folder, validity |-> i.validity, uid |-> i.uid]
    /\ i.folder \in Folders /\ i.validity \in Nat /\ i.uid \in Nat
    /\ i.validity <= server[i.folder].validity
    /\ i.validity = server[i.folder].validity =>
          /\ i.uid < server[i.folder].uidnext
          /\ i.uid \in UidsOf(server[i.folder]) => server[i.folder].mail[i.uid].name = k

IsRow(r) == r = [folder |-> r.folder, flags |-> r.flags, name |-> r.name]
RowsNamed ==
    /\ rows = [i \in DOMAIN rows |-> rows[i]]
    /\ \A i \in DOMAIN rows : IsRow(rows[i]) /\ Names(i, rows[i].name)

IsQueued(o) ==
    /\ o = [op |-> o.op, id |-> o.id, name |-> o.name, flag |-> o.flag, set |-> o.set,
            target |-> o.target, attempts |-> o.attempts]
    /\ IsOperation(o)
Queued(o) == IsQueued(o) /\ Names(o.id, o.name)
OpsNamed ==
    /\ ops = [n \in DOMAIN ops |-> ops[n]]
    /\ \A n \in DOMAIN ops : Queued(ops[n])

CmdNamed ==
    cmd # None => /\ cmd = [stage |-> cmd.stage, todo |-> cmd.todo, flags |-> cmd.flags]
                  /\ Queued(cmd.todo)

PassNamed ==
    /\ at # "idle" => on \in Folders
    /\ at \in {"fetch", "changes"} =>
          /\ fresh = [validity |-> fresh.validity, uidnext |-> fresh.uidnext,
                      modseq |-> fresh.modseq]
          /\ fresh.validity = server[on].validity
    /\ at \in {"changes", "find", "apply"} =>
          \A u \in DOMAIN headers : Names(Listed(u), headers[u].name)
    /\ at = "apply" => DOMAIN existing \subseteq {Listed(u) : u \in DOMAIN headers}

MInv == World(server) /\ RowsNamed /\ OpsNamed /\ CmdNamed /\ PassNamed /\ remote \in Nat

LEMMA NamesKept ==
    ASSUME World(server), Follows(server, server')
    PROVE  \A i, k : Names(i, k) => Names(i, k)'
<1> SUFFICES ASSUME NEW i, NEW k, Names(i, k) PROVE Names(i, k)'
    OBVIOUS
<1> DEFINE m == server[i.folder]
           n == server'[i.folder]
<1>1. i.folder \in Folders /\ i.validity \in Nat /\ i.uid \in Nat
    BY DEF Names
<1>2. /\ m.validity \in Nat /\ m.uidnext \in Nat /\ n.uidnext \in Nat
      /\ Evolves(m, n)
    BY <1>1 DEF World, Follows, Sane
<1>3. i.validity <= m.validity
    BY DEF Names
<1>4. CASE n.validity = m.validity + 1
  <2>1. i.validity < n.validity
      BY <1>1, <1>2, <1>3, <1>4
  <2> QED
      BY <1>1, <1>2, <1>4, <2>1 DEF Names
<1>5. CASE /\ n.validity = m.validity /\ n.uidnext >= m.uidnext
           /\ \A u \in UidsOf(n) : u < m.uidnext => Holds(m, u, n.mail[u])
  <2>1. ASSUME i.validity = n.validity
        PROVE  i.uid < n.uidnext /\ (i.uid \in UidsOf(n) => n.mail[i.uid].name = k)
    <3>1. i.uid < m.uidnext /\ (i.uid \in UidsOf(m) => m.mail[i.uid].name = k)
        BY <1>5, <2>1 DEF Names
    <3> QED
        BY <1>1, <1>2, <1>5, <3>1 DEF Holds
  <2> QED
      BY <1>1, <1>3, <1>5, <2>1 DEF Names
<1> QED
    BY <1>2, <1>4, <1>5 DEF Evolves, Grows

LEMMA NamesSame == UNCHANGED server => \A i, k : Names(i, k) <=> Names(i, k)'
BY DEF Names

LEMMA FollowsSame == World(server) => Follows(server, server)
BY StaysItself DEF World, Follows

(* A step that only the server takes.                                      *)
LEMMA ServerStep ==
    ASSUME MInv, Follows(server, server'),
           UNCHANGED <<rows, cmd, at, syncVars>>,
           at \in {"fetch", "changes"} => server'[on].validity = server[on].validity,
           remote' \in Nat,
           OpsNamed'
    PROVE  MInv'
<1>1. World(server)'
    BY DEF Follows
<1>2. \A i, k : Names(i, k) => Names(i, k)'
    BY NamesKept DEF MInv
<1>3. RowsNamed'
    BY <1>2 DEF MInv, RowsNamed, IsRow
<1>4. CmdNamed'
    BY <1>2 DEF MInv, CmdNamed, Queued, IsQueued, IsOperation
<1>5. \A u : Listed(u)' = Listed(u)
    BY DEF Listed, syncVars
<1>6. PassNamed'
    BY <1>2, <1>5 DEF MInv, PassNamed, syncVars
<1> QED
    BY <1>1, <1>3, <1>4, <1>6 DEF MInv

LEMMA OpsStep ==
    ASSUME OpsNamed, \A i, k : Names(i, k) => Names(i, k)', NEW n \in DOMAIN ops,
           UNCHANGED ops \/ Settled(n) \/ Failed(n)
    PROVE  OpsNamed'
<1>1. CASE UNCHANGED ops
    BY <1>1 DEF OpsNamed, Queued, IsQueued, IsOperation
<1>2. CASE ops' = Drop(ops, {n})
  <2>1. DOMAIN ops' = DOMAIN ops \ {n} /\ ops' = [k \in DOMAIN ops' |-> ops'[k]]
        /\ \A k \in DOMAIN ops' : ops'[k] = ops[k]
      BY <1>2 DEF Drop
  <2> QED
      BY <2>1 DEF OpsNamed, Queued, IsQueued, IsOperation
<1>3. CASE ops' = [ops EXCEPT ![n].attempts = @ + 1]
  <2> PICK o : o = [ops[n] EXCEPT !.attempts = ops[n].attempts + 1]
      OBVIOUS
  <2>1. IsQueued(ops[n]) /\ Names(ops[n].id, ops[n].name)
      BY DEF OpsNamed, Queued
  <2>2. /\ o = [op |-> o.op, id |-> o.id, name |-> o.name, flag |-> o.flag, set |-> o.set,
                target |-> o.target, attempts |-> o.attempts]
        /\ o.op = ops[n].op /\ o.id = ops[n].id /\ o.name = ops[n].name /\ o.target = ops[n].target
      BY <2>1 DEF IsQueued
  <2>3. ops' = [ops EXCEPT ![n] = o]
      BY <1>3
  <2>4. DOMAIN ops' = DOMAIN ops /\ ops' = [k \in DOMAIN ops' |-> ops'[k]]
        /\ ops'[n] = o /\ \A k \in DOMAIN ops : k # n => ops'[k] = ops[k]
      BY <2>3 DEF OpsNamed
  <2>5. IsQueued(o) /\ Names(o.id, o.name)
    <3>1. Names(o.id, o.name)
        BY <2>1, <2>2
    <3>2. IsOperation(o)
        BY <2>1, <2>2 DEF IsQueued, IsOperation
    <3> QED
        BY <2>2, <3>1, <3>2 DEF IsQueued
  <2>6. \A k \in DOMAIN ops' : IsQueued(ops'[k]) /\ Names(ops'[k].id, ops'[k].name)
      BY <2>4, <2>5 DEF OpsNamed, Queued
  <2>7. \A k \in DOMAIN ops' : Names(ops[k].id, ops[k].name)'
      BY <2>6
  <2> QED
      BY <2>4, <2>6, <2>7 DEF OpsNamed, Queued, IsQueued, IsOperation
<1> QED
    BY <1>1, <1>2, <1>3 DEF Settled, Failed

(* What the drain does is done to an operation's own message.              *)
Effects(o) == {Effect(o)} \cup (IF o.op = "move" THEN {Halfway(o)} ELSE {})

LEMMA EffectFollows ==
    ASSUME World(server), NEW o, IsOperation(o), NEW v \in Effects(o)
    PROVE  Follows(server, v) /\ Spares(server, v, o.id.folder, o.id.uid)
<1>1. CASE o.op = "flags"
  <2>1. v = Stored(o)
      BY <1>1 DEF Effects, Effect
  <2> QED
      BY <2>1, StoredOne
<1>2. CASE o.op = "delete"
  <2>1. v = Deleted(o)
      BY <1>2 DEF Effects, Effect
  <2> QED
      BY <2>1, DeletedOne
<1>3. CASE o.op = "move"
  <2>1. v = Moved(o) \/ v = Copied(o)
      BY <1>3 DEF Effects, Effect, Halfway
  <2>2. Spares(server, Copied(o), o.id.folder, o.id.uid)
      BY <1>3, CopiedOne DEF Spares
  <2> QED
      BY <1>3, <2>1, <2>2, MovedOne, CopiedOne
<1> QED
    BY <1>1, <1>2, <1>3 DEF IsOperation

LEMMA DrainFollows ==
    ASSUME MInv, NEW n \in DOMAIN ops, Dispatch(n) \/ DispatchFails(n) \/ DispatchLost(n)
    PROVE  Follows(server, server')
<1>1. server' = server \/ server' \in Effects(ops[n])
    BY DEF Dispatch, DispatchFails, DispatchLost, Effects, world
<1>2. IsOperation(ops[n])
    BY DEF MInv, OpsNamed, Queued, IsQueued
<1> QED
    BY <1>1, <1>2, EffectFollows, FollowsSame DEF MInv

LEMMA DrainStep ==
    ASSUME MInv, NEW n \in DOMAIN ops, Dispatch(n) \/ DispatchFails(n) \/ DispatchLost(n)
    PROVE  MInv'
<1>1. /\ at = "idle" /\ UNCHANGED <<rows, cmd, at, syncVars>> /\ UNCHANGED remote
      /\ UNCHANGED ops \/ Settled(n) \/ Failed(n)
    BY DEF Dispatch, DispatchFails, DispatchLost, Due, Mishap, budget
<1>2. Follows(server, server')
    BY DrainFollows
<1>3. OpsNamed'
    BY <1>1, <1>2, NamesKept, OpsStep DEF MInv
<1> QED
    BY <1>1, <1>2, <1>3, ServerStep DEF MInv

LEMMA OthersFollow ==
    ASSUME MInv, Others
    PROVE  /\ Follows(server, server')
           /\ at \in {"fetch", "changes"} => server'[on].validity = server[on].validity
<1> PICK f \in Folders :
        \/ Arrive(f) \/ Rebuild(f)
        \/ \E u \in UidsOf(server[f]) : Expunge(f, u) \/ \E x \in Flags : Flip(f, u, x)
    BY DEF Others
<1>1. \E new : /\ Sane(new) /\ Evolves(server[f], new) /\ server' = [server EXCEPT ![f] = new]
               /\ at \in {"fetch", "changes"} /\ on = f => new.validity = server[f].validity
  <2>1. Sane(server[f])
      BY DEF MInv, World
  <2>2. CASE Arrive(f)
    <3> DEFINE new == WithMessage(server[f], nextName, {})
    <3>1. Sane(new) /\ Evolves(server[f], new) /\ new.validity = server[f].validity
        BY <2>1, AddsOne
    <3>2. server' = [server EXCEPT ![f] = new]
        BY <2>2 DEF Arrive
    <3> QED
        BY <3>1, <3>2
  <2>3. CASE Rebuild(f)
    <3> DEFINE new == Renumbered(server[f])
    <3>1. Sane(new) /\ Evolves(server[f], new)
        BY <2>1, Renumbers
    <3>2. server' = [server EXCEPT ![f] = new] /\ ~(at \in {"fetch", "changes"} /\ on = f)
        BY <2>3 DEF Rebuild
    <3> QED
        BY <3>1, <3>2
  <2>4. ASSUME NEW u, Expunge(f, u)
        PROVE  \E new : /\ Sane(new) /\ Evolves(server[f], new) /\ server' = [server EXCEPT ![f] = new]
                        /\ new.validity = server[f].validity
    <3> DEFINE new == WithoutMessage(server[f], u)
    <3>1. Sane(new) /\ Evolves(server[f], new) /\ new.validity = server[f].validity
        BY <2>1, RemovesOne
    <3>2. server' = [server EXCEPT ![f] = new]
        BY <2>4 DEF Expunge
    <3> QED
        BY <3>1, <3>2
  <2>5. ASSUME NEW u, NEW x, Flip(f, u, x)
        PROVE  \E new : /\ Sane(new) /\ Evolves(server[f], new) /\ server' = [server EXCEPT ![f] = new]
                        /\ new.validity = server[f].validity
    <3> DEFINE fl == Change(server[f].mail[u].flags, x, x \notin server[f].mail[u].flags)
               new == WithFlags(server[f], u, fl)
    <3>1. server' = [server EXCEPT ![f] = new]
        BY <2>5 DEF Flip
    <3> HIDE DEF fl
    <3>2. Sane(new) /\ Evolves(server[f], new) /\ new.validity = server[f].validity
        BY <2>1, MarksOne
    <3> QED
        BY <3>1, <3>2
  <2> QED
      BY <2>2, <2>3, <2>4, <2>5
<1>2. PICK new : /\ Sane(new) /\ Evolves(server[f], new) /\ server' = [server EXCEPT ![f] = new]
                 /\ at \in {"fetch", "changes"} /\ on = f => new.validity = server[f].validity
    BY <1>1
<1>3. /\ server' = [g \in Folders |-> IF g = f THEN new ELSE server[g]]
    BY <1>2 DEF MInv, World
<1>4. Follows(server, server')
  <2>1. \A g \in Folders : Evolves(server[g], server[g])
      BY StaysItself DEF MInv, World
  <2> QED
      BY <1>2, <1>3, <2>1 DEF MInv, World, Follows
<1>5. at \in {"fetch", "changes"} => server'[on].validity = server[on].validity
    BY <1>2, <1>3 DEF MInv, PassNamed
<1> QED
    BY <1>4, <1>5

LEMMA OthersStep == MInv /\ Others => MInv'
<1> SUFFICES ASSUME MInv, Others PROVE MInv'
    OBVIOUS
<1>1. /\ UNCHANGED <<rows, ops, cmd, at, syncVars>> /\ remote' \in Nat
    BY DEF Others, Arrive, Rebuild, Expunge, Flip, Elsewhere, tables, MInv
<1>2. /\ Follows(server, server')
      /\ at \in {"fetch", "changes"} => server'[on].validity = server[on].validity
    BY OthersFollow
<1>3. OpsNamed'
    BY <1>1, <1>2, NamesKept DEF MInv, OpsNamed, Queued, IsQueued, IsOperation
<1> QED
    BY <1>1, <1>2, <1>3, ServerStep

-----------------------------------------------------------------------------
(* The commands: a change to the tables, none to the server.               *)

LEMMA Quiet ==
    ASSUME MInv, UNCHANGED <<server, remote>>, RowsNamed', OpsNamed', CmdNamed', PassNamed'
    PROVE  MInv'
BY DEF MInv, World, Sane, IsMailbox, UidsOf

LEMMA PassStays ==
    ASSUME MInv, UNCHANGED <<server, at, syncVars>>
    PROVE  PassNamed'
BY DEF MInv, PassNamed, Names, Listed, Id, UidsOf, syncVars

LEMMA RowsStay == MInv /\ UNCHANGED <<server, rows>> => RowsNamed'
BY NamesSame DEF MInv, RowsNamed, IsRow

LEMMA OpsStay == MInv /\ UNCHANGED <<server, ops>> => OpsNamed'
BY NamesSame DEF MInv, OpsNamed, Queued, IsQueued, IsOperation

LEMMA CmdStays == MInv /\ UNCHANGED <<server, cmd>> => CmdNamed'
BY NamesSame DEF MInv, CmdNamed, Queued, IsQueued, IsOperation

LEMMA NamesNow == ASSUME NEW o, UNCHANGED server PROVE Names(o.id, o.name) => Names(o.id, o.name)'
BY NamesSame

(* A command takes its operation's name from the row it reads.             *)
LEMMA BeginStep ==
    ASSUME MInv, NEW i \in DOMAIN rows, NEW op \in {"flags", "move", "delete"}, NEW x, NEW set,
           NEW t, op = "move" => t \in Folders, op = "flags" => x \in Flags, Begin(Operation(op, i, x, set, t))
    PROVE  MInv'
<1> PICK o : o = [op |-> op, id |-> i, name |-> rows[i].name, flag |-> x, set |-> set,
                  target |-> t, attempts |-> 0]
    OBVIOUS
<1>1. UNCHANGED <<server, remote, rows, ops, at, syncVars>>
    BY DEF Begin, world, tables
<1>2. cmd' = [stage |-> "write", todo |-> o, flags |-> rows[o.id].flags]
    BY DEF Begin, Operation
<1>3. Names(o.id, o.name) /\ o.id.folder \in Folders
    BY DEF MInv, RowsNamed, Names
<1>4. IsQueued(o)
    BY <1>3 DEF IsQueued, IsOperation
<1>5. Names(o.id, o.name)'
    BY <1>1, <1>3, NamesNow
<1>6. cmd'.todo = o /\ cmd' = [stage |-> cmd'.stage, todo |-> cmd'.todo, flags |-> cmd'.flags]
    BY <1>2
<1>7. CmdNamed'
    BY <1>4, <1>5, <1>6 DEF CmdNamed, Queued, IsQueued, IsOperation
<1> QED
    BY <1>1, <1>7, Quiet, PassStays, RowsStay, OpsStay

LEMMA WrittenStep ==
    ASSUME MInv, cmd # None, UNCHANGED server, Written
    PROVE  CmdNamed'
<1> PICK o : o = cmd.todo
    OBVIOUS
<1>1. cmd = [stage |-> cmd.stage, todo |-> o, flags |-> cmd.flags] /\ IsQueued(o) /\ Names(o.id, o.name)
    BY DEF MInv, CmdNamed, Queued
<1>2. cmd' = [stage |-> "enqueue", todo |-> o, flags |-> cmd.flags]
    BY <1>1 DEF Written
<1>3. Names(o.id, o.name)'
    BY <1>1, NamesNow
<1>4. cmd'.todo = o /\ cmd' = [stage |-> cmd'.stage, todo |-> cmd'.todo, flags |-> cmd'.flags]
    BY <1>2
<1> QED
    BY <1>1, <1>3, <1>4 DEF CmdNamed, Queued, IsQueued, IsOperation

(* Rows that keep their names, or go.                                      *)
LEMMA RowsKeep ==
    ASSUME MInv, UNCHANGED server, DOMAIN rows' \subseteq DOMAIN rows,
           rows' = [i \in DOMAIN rows' |-> rows'[i]],
           \A i \in DOMAIN rows' : IsRow(rows'[i]) /\ rows'[i].name = rows[i].name
    PROVE  RowsNamed'
<1>1. \A i \in DOMAIN rows' : Names(i, rows'[i].name)
    BY DEF MInv, RowsNamed
<1>2. \A i \in DOMAIN rows' : Names(i, rows[i].name)'
    BY <1>1, NamesSame
<1> QED
    BY <1>2 DEF RowsNamed, IsRow

LEMMA OneRow ==
    ASSUME NEW r, IsRow(r), NEW x
    PROVE  /\ IsRow([r EXCEPT !.flags = x]) /\ [r EXCEPT !.flags = x].name = r.name
           /\ IsRow([r EXCEPT !.folder = x]) /\ [r EXCEPT !.folder = x].name = r.name
BY DEF IsRow

LEMMA Dropped ==
    ASSUME MInv, UNCHANGED server, NEW S, rows' = Drop(rows, S)
    PROVE  RowsNamed'
<1>1. DOMAIN rows' = DOMAIN rows \ S /\ rows' = [i \in DOMAIN rows' |-> rows'[i]]
      /\ \A i \in DOMAIN rows' : rows'[i] = rows[i]
    BY DEF Drop
<1> QED
    BY <1>1, RowsKeep DEF MInv, RowsNamed

LEMMA UserStep == MInv /\ User => MInv'
<1> SUFFICES ASSUME MInv, User PROVE MInv'
    OBVIOUS
<1>1. ASSUME NEW i \in DOMAIN rows, NEW x \in Flags, NEW set \in BOOLEAN, FlagRead(i, x, set)
      PROVE  MInv'
    BY <1>1, BeginStep DEF FlagRead
<1>2. ASSUME NEW i \in DOMAIN rows, NEW t \in Folders, MoveRead(i, t)
      PROVE  MInv'
    BY <1>2, BeginStep DEF MoveRead
<1>3. ASSUME NEW i \in DOMAIN rows, DeleteRead(i)
      PROVE  MInv'
    BY <1>3, BeginStep DEF DeleteRead
<1>4. CASE FlagWrite
  <2>1. UNCHANGED <<server, remote, ops, at, syncVars>> /\ Written /\ cmd # None
        /\ cmd.todo.id \in DOMAIN rows
      BY <1>4 DEF FlagWrite, Writes, world, budget
  <2> DEFINE fl == Change(cmd.flags, cmd.todo.flag, cmd.todo.set)
             r == [rows[cmd.todo.id] EXCEPT !.flags = fl]
  <2>2. rows' = [rows EXCEPT ![cmd.todo.id] = r]
      BY <1>4 DEF FlagWrite
  <2>3. IsRow(r) /\ r.name = rows[cmd.todo.id].name
    <3> HIDE DEF fl
    <3> QED
        BY <2>1, OneRow DEF MInv, RowsNamed
  <2> HIDE DEF r
  <2>4. DOMAIN rows' = DOMAIN rows /\ rows' = [i \in DOMAIN rows' |-> rows'[i]]
        /\ \A i \in DOMAIN rows' : rows'[i] = rows[i] \/ (i = cmd.todo.id /\ rows'[i] = r)
      BY <2>1, <2>2 DEF MInv, RowsNamed
  <2>5. RowsNamed'
      BY <2>1, <2>3, <2>4, RowsKeep DEF MInv, RowsNamed
  <2> QED
      BY <2>1, <2>5, WrittenStep, Quiet, PassStays, OpsStay
<1>5. CASE MoveWrite
  <2>1. UNCHANGED <<server, remote, ops, at, syncVars>> /\ Written /\ cmd # None
        /\ cmd.todo.id \in DOMAIN rows
      BY <1>5 DEF MoveWrite, Writes, world, budget
  <2> DEFINE r == [rows[cmd.todo.id] EXCEPT !.folder = cmd.todo.target]
  <2>2. rows' = [rows EXCEPT ![cmd.todo.id] = r]
      BY <1>5 DEF MoveWrite
  <2>3. IsRow(r) /\ r.name = rows[cmd.todo.id].name
      BY <2>1, OneRow DEF MInv, RowsNamed
  <2> HIDE DEF r
  <2>4. DOMAIN rows' = DOMAIN rows /\ rows' = [i \in DOMAIN rows' |-> rows'[i]]
        /\ \A i \in DOMAIN rows' : rows'[i] = rows[i] \/ (i = cmd.todo.id /\ rows'[i] = r)
      BY <2>1, <2>2 DEF MInv, RowsNamed
  <2>5. RowsNamed'
      BY <2>1, <2>3, <2>4, RowsKeep DEF MInv, RowsNamed
  <2> QED
      BY <2>1, <2>5, WrittenStep, Quiet, PassStays, OpsStay
<1>6. CASE RowVanished \/ CommandFails
  <2>1. UNCHANGED <<server, remote, rows, ops, at, syncVars>> /\ cmd' = None
      BY <1>6 DEF RowVanished, CommandFails, Mishap, world, tables, budget
  <2>2. CmdNamed'
      BY <2>1 DEF CmdNamed
  <2> QED
      BY <2>1, <2>2, Quiet, PassStays, RowsStay, OpsStay
<1>7. CASE DeleteWrite
  <2>1. UNCHANGED <<server, remote, ops, at, syncVars>> /\ Written /\ cmd # None
      BY <1>7 DEF DeleteWrite, Writes, world, budget
  <2>2. RowsNamed'
      BY <1>7, <2>1, Dropped DEF DeleteWrite
  <2> QED
      BY <2>1, <2>2, WrittenStep, Quiet, PassStays, OpsStay
<1>8. CASE Enqueue
  <2> PICK o : o = cmd.todo
      OBVIOUS
  <2>1. UNCHANGED <<server, remote, rows, at, syncVars>> /\ cmd' = None /\ cmd # None
        /\ ops' = [n \in DOMAIN ops \cup {nextOp} |-> IF n = nextOp THEN o ELSE ops[n]]
      BY <1>8 DEF Enqueue, world, budget
  <2>2. CmdNamed'
      BY <2>1 DEF CmdNamed
  <2>3. IsQueued(o) /\ Names(o.id, o.name)
      BY <2>1 DEF MInv, CmdNamed, Queued
  <2>4. /\ ops' = [n \in DOMAIN ops' |-> ops'[n]]
        /\ \A n \in DOMAIN ops' : ops'[n] = o \/ (n \in DOMAIN ops /\ ops'[n] = ops[n])
      BY <2>1
  <2>5. \A n \in DOMAIN ops' : IsQueued(ops'[n]) /\ Names(ops'[n].id, ops'[n].name)
      BY <2>3, <2>4 DEF MInv, OpsNamed, Queued
  <2>6. \A i, k : Names(i, k) => Names(i, k)'
      BY <2>1, NamesSame
  <2>7. OpsNamed'
      BY <2>4, <2>5, <2>6 DEF OpsNamed, Queued, IsQueued, IsOperation
  <2> QED
      BY <2>1, <2>2, <2>7, Quiet, PassStays, RowsStay
<1> QED
    BY <1>1, <1>2, <1>3, <1>4, <1>5, <1>6, <1>7, <1>8 DEF User

-----------------------------------------------------------------------------
(* The sync: what it has listed keeps its meaning until it is written.     *)

LEMMA SyncStep == MInv /\ Sync => MInv'
<1> SUFFICES ASSUME MInv, Sync PROVE MInv'
    OBVIOUS
<1>1. UNCHANGED <<server, remote, ops, cmd>>
    BY DEF Sync, SyncStart, ClearCursor, Select, Fetch, Changes, FindExisting, ApplyChunk,
           ListKnown, ListLocal, Prune, UpdateFlags, PutCursor, SyncFails, world, tables, budget
<1>2. OpsNamed' /\ CmdNamed'
    BY <1>1, OpsStay, CmdStays
<1> SUFFICES RowsNamed' /\ PassNamed'
    BY <1>1, <1>2, Quiet
<1>3. UNCHANGED rows => RowsNamed'
    BY <1>1, RowsStay
<1>4. World(server) /\ \A i, k : Names(i, k) => Names(i, k)'
    BY <1>1, NamesSame DEF MInv
<1>5. ASSUME NEW f \in Folders, SyncStart(f) PROVE RowsNamed' /\ PassNamed'
  <2>1. at' = "select" /\ on' = f /\ UNCHANGED rows
      BY <1>5 DEF SyncStart, tables
  <2>2. PassNamed'
      BY <2>1 DEF PassNamed
  <2> QED
      BY <1>3, <2>1, <2>2
<1>6. CASE ClearCursor
  <2>1. at = "select" /\ at' = "select" /\ on' = on /\ UNCHANGED rows
      BY <1>6 DEF ClearCursor
  <2>2. PassNamed'
      BY <2>1 DEF MInv, PassNamed
  <2> QED
      BY <1>3, <2>1, <2>2
<1>7. CASE Select
  <2>1. /\ at = "select" /\ at' = "fetch" /\ on' = on /\ UNCHANGED rows
        /\ fresh' = [validity |-> server[on].validity, uidnext |-> server[on].uidnext,
                     modseq |-> server[on].modseq]
      BY <1>7 DEF Select, StateOf, tables
  <2>2. PassNamed'
      BY <1>1, <2>1 DEF MInv, PassNamed
  <2> QED
      BY <1>3, <2>1, <2>2
<1>8. CASE Fetch
  <2>1. /\ at = "fetch" /\ at' = "changes" /\ UNCHANGED <<on, fresh, rows>>
        /\ headers' = [u \in UidsFrom(server[on], ListFrom) |-> server[on].mail[u]]
      BY <1>8 DEF Fetch, tables
  <2>2. /\ on \in Folders /\ fresh.validity = server[on].validity
        /\ fresh = [validity |-> fresh.validity, uidnext |-> fresh.uidnext,
                    modseq |-> fresh.modseq]
      BY <2>1 DEF MInv, PassNamed
  <2>3. DOMAIN headers' \subseteq UidsOf(server[on])
        /\ \A u \in DOMAIN headers' : headers'[u] = server[on].mail[u]
      BY <2>1 DEF UidsFrom
  <2>4. \A u \in UidsOf(server[on]) : Names(Listed(u), server[on].mail[u].name)
      BY <1>4, <2>2 DEF World, Sane, Names, Listed, Id
  <2>5. \A u \in UidsOf(server[on]) : Names(Listed(u), server[on].mail[u].name)'
      BY <1>1, <2>1, <2>4 DEF Names, Listed, Id, UidsOf
  <2>6. \A u \in DOMAIN headers' : (Names(Listed(u), headers[u].name))'
      BY <1>1, <2>1, <2>3, <2>5 DEF Names, Listed, Id, UidsOf
  <2>7. PassNamed'
      BY <1>1, <2>1, <2>2, <2>6 DEF PassNamed
  <2> QED
      BY <1>3, <2>1, <2>7
<1>9. CASE Changes
  <2>1. /\ at = "changes" /\ at' = "find" /\ UNCHANGED <<on, headers, rows>>
        /\ fresh' = fresh \/ fresh' = [fresh EXCEPT !.modseq = since.modseq]
      BY <1>9 DEF Changes, tables
  <2>2. /\ on \in Folders /\ \A u \in DOMAIN headers : Names(Listed(u), headers[u].name)
        /\ fresh = [validity |-> fresh.validity, uidnext |-> fresh.uidnext,
                    modseq |-> fresh.modseq]
      BY <2>1 DEF MInv, PassNamed
  <2>3. fresh'.validity = fresh.validity
      BY <2>1, <2>2
  <2>4. \A u \in DOMAIN headers' : (Names(Listed(u), headers[u].name))'
      BY <1>1, <2>1, <2>2, <2>3 DEF Names, Listed, Id, UidsOf
  <2>5. PassNamed'
      BY <1>1, <2>1, <2>2, <2>4 DEF PassNamed
  <2> QED
      BY <1>3, <2>1, <2>5
<1>10. CASE FindExisting
  <2>1. /\ at = "find" /\ at' = "apply" /\ UNCHANGED <<on, headers, rows, fresh>>
        /\ existing' = [i \in {Listed(u) : u \in DOMAIN headers} \cap DOMAIN rows |-> rows[i]]
      BY <1>10 DEF FindExisting, tables
  <2>2. on \in Folders /\ \A u \in DOMAIN headers : Names(Listed(u), headers[u].name)
      BY <2>1 DEF MInv, PassNamed
  <2>3. \A u \in DOMAIN headers' : (Names(Listed(u), headers[u].name))'
      BY <1>1, <2>1, <2>2 DEF Names, Listed, Id, UidsOf
  <2>4. DOMAIN existing' \subseteq {Listed(u) : u \in DOMAIN headers}'
      BY <2>1 DEF Listed, Id
  <2>5. PassNamed'
      BY <1>1, <2>1, <2>2, <2>3, <2>4 DEF PassNamed
  <2> QED
      BY <1>3, <2>1, <2>5
<1>11. CASE ApplyChunk
  <2>1. /\ at = "apply" /\ at' \in {"known", "flags"} /\ UNCHANGED on
        /\ rows' = [i \in DOMAIN rows \cup ToInsert |->
                      IF i \in DOMAIN rows /\ i \notin ToUpdate THEN rows[i]
                      ELSE Row(on, headers[i.uid])]
      BY <1>11 DEF ApplyChunk
  <2>2. /\ on \in Folders /\ \A u \in DOMAIN headers : Names(Listed(u), headers[u].name)
        /\ DOMAIN existing \subseteq {Listed(u) : u \in DOMAIN headers}
      BY <2>1 DEF MInv, PassNamed
  <2>3. PassNamed'
      BY <2>1, <2>2 DEF PassNamed
  <2>4. \A i \in ToInsert \cup ToUpdate : \E u \in DOMAIN headers : i = Listed(u) /\ i.uid = u
      BY <2>2 DEF ToInsert, ToUpdate, Listed, Id
  <2>5. \A i \in ToInsert \cup ToUpdate :
           Names(i, Row(on, headers[i.uid]).name) /\ IsRow(Row(on, headers[i.uid]))
      BY <2>2, <2>4 DEF Row, IsRow
  <2>6. /\ rows' = [i \in DOMAIN rows' |-> rows'[i]]
        /\ \A i \in DOMAIN rows' : Names(i, rows'[i].name) /\ IsRow(rows'[i])
      BY <2>1, <2>5 DEF MInv, RowsNamed
  <2>7. RowsNamed'
      BY <1>4, <2>6 DEF RowsNamed, IsRow
  <2> QED
      BY <2>3, <2>7
<1>12. CASE ListKnown \/ ListLocal
  <2>1. /\ at \in {"known", "local"} /\ at' \in {"local", "prune", "flags"} /\ UNCHANGED <<on, rows>>
      BY <1>12 DEF ListKnown, ListLocal, tables
  <2>2. PassNamed'
      BY <2>1 DEF MInv, PassNamed
  <2> QED
      BY <1>3, <2>1, <2>2
<1>13. CASE Prune
  <2>1. /\ at = "prune" /\ at' \in {"prune", "flags"} /\ UNCHANGED on
        /\ UNCHANGED rows \/ \E i \in doomed : rows' = Drop(rows, {i})
      BY <1>13 DEF Prune
  <2>2. PassNamed'
      BY <2>1 DEF MInv, PassNamed
  <2> QED
      BY <1>1, <1>3, <2>1, <2>2, Dropped
<1>14. CASE UpdateFlags
  <2>1. at = "flags" /\ at' = "flags" /\ UNCHANGED on
      BY <1>14 DEF UpdateFlags
  <2>2. PICK u \in DOMAIN deltas :
           rows' = [i \in DOMAIN rows |->
                      IF i = Listed(u) THEN [rows[i] EXCEPT !.flags = deltas[u]] ELSE rows[i]]
      BY <1>14 DEF UpdateFlags
  <2>3. \A i \in DOMAIN rows : /\ IsRow([rows[i] EXCEPT !.flags = deltas[u]])
                               /\ [rows[i] EXCEPT !.flags = deltas[u]].name = rows[i].name
      BY OneRow DEF MInv, RowsNamed
  <2>4. \A i \in DOMAIN rows : IsRow(rows[i])
      BY DEF MInv, RowsNamed
  <2>5. DOMAIN rows' = DOMAIN rows /\ rows' = [i \in DOMAIN rows' |-> rows'[i]]
        /\ \A i \in DOMAIN rows' : IsRow(rows'[i]) /\ rows'[i].name = rows[i].name
      BY <2>2, <2>3, <2>4
  <2>6. RowsNamed'
      BY <1>1, <2>5, RowsKeep
  <2>7. PassNamed'
      BY <2>1 DEF MInv, PassNamed
  <2> QED
      BY <2>6, <2>7
<1>15. CASE PutCursor \/ SyncFails
  <2>1. at' = "idle" /\ UNCHANGED rows
      BY <1>15 DEF PutCursor, SyncFails, Forget, tables
  <2>2. PassNamed'
      BY <2>1 DEF PassNamed
  <2> QED
      BY <1>3, <2>1, <2>2
<1> QED
    BY <1>5, <1>6, <1>7, <1>8, <1>9, <1>10, <1>11, <1>12, <1>13, <1>14, <1>15 DEF Sync

LEMMA InitNamed == Init => MInv
<1> SUFFICES ASSUME Init PROVE MInv
    OBVIOUS
<1>1. \A n \in Nat : Sane(MailboxOf(n))
  <2> SUFFICES ASSUME NEW n \in Nat PROVE Sane(MailboxOf(n))
      OBVIOUS
  <2> DEFINE mail == [u \in 1 .. n |-> Message(u, {}, u + 1)]
  <2>1. DOMAIN mail = 1 .. n
      OBVIOUS
  <2>2. MailboxOf(n) = [validity |-> 1, uidnext |-> n + 1, modseq |-> n + 1, mail |-> mail]
      BY DEF MailboxOf
  <2>3. \A u \in 1 .. n : mail[u].mod \in Nat
      BY DEF Message
  <2> HIDE DEF mail
  <2> QED
      BY <2>1, <2>2, <2>3 DEF Sane, IsMailbox, UidsOf
<1>2. World(server)
  <2>1. \A f \in Folders : server[f] = MailboxOf(IF f = Inbox THEN Held ELSE 0)
        /\ (IF f = Inbox THEN Held ELSE 0) \in Nat
      BY HeldAssumption DEF Init
  <2>2. server = [f \in Folders |-> server[f]]
      BY DEF Init
  <2> QED
      BY <1>1, <2>1, <2>2 DEF World
<1> QED
    BY <1>2 DEF Init, MInv, RowsNamed, OpsNamed, CmdNamed, PassNamed

LEMMA NextNamed == MInv /\ [Next]_vars => MInv'
<1> SUFFICES ASSUME MInv, [Next]_vars PROVE MInv'
    OBVIOUS
<1>1. CASE UNCHANGED vars
  <2>1. UNCHANGED <<server, remote, rows, ops, cmd, at, syncVars>>
      BY <1>1 DEF vars, world, tables, budget
  <2> QED
      BY <2>1, Quiet, PassStays, RowsStay, OpsStay, CmdStays
<1>2. CASE Drain
    BY <1>2, DrainStep DEF Drain
<1> QED
    BY <1>1, <1>2, UserStep, SyncStep, OthersStep DEF Next

(* Every id in a row, in a queued operation, in a command or in a listing  *)
(* is of a present or past UIDVALIDITY of its folder, and under the        *)
(* present one its UID is that of the message it was made for              *)
(* (imap|<uidvalidity>|<uid>|<folder> in imap-client).                     *)
THEOREM IdsNameTheirMessage == Spec => []MInv
<1>1. Init => MInv
    BY InitNamed
<1>2. MInv /\ [Next]_vars => MInv'
    BY NextNamed
<1> QED
    BY <1>1, <1>2, PTL DEF Spec

LEMMA DrainTouches ==
    ASSUME MInv, [Next]_vars, remote' = remote, NEW f \in Folders, NEW u \in Touched(f)
    PROVE  \E n \in DOMAIN ops : /\ server' \in Effects(ops[n]) /\ Queued(ops[n])
                                 /\ f = ops[n].id.folder /\ u = ops[n].id.uid
                                 /\ server[f].mail[u].name = ops[n].name
<1>1. u \in UidsOf(server[f]) /\ server' # server
    BY DEF Touched
<1>2. PICK n \in DOMAIN ops : Dispatch(n) \/ DispatchLost(n)
  <2>1. ~Others
    <3>1. Others => Elsewhere
        BY DEF Others, Arrive, Rebuild, Expunge, Flip
    <3> QED
        BY <3>1 DEF Elsewhere, MInv
  <2>2. ~User
      BY <1>1 DEF User, FlagRead, MoveRead, DeleteRead, Begin, FlagWrite, MoveWrite, RowVanished,
                  DeleteWrite, Enqueue, CommandFails, world
  <2>3. ~Sync
      BY <1>1 DEF Sync, SyncStart, ClearCursor, Select, Fetch, Changes, FindExisting, ApplyChunk,
                  ListKnown, ListLocal, Prune, UpdateFlags, PutCursor, SyncFails, world
  <2>4. \A n : ~DispatchFails(n)
      BY <1>1 DEF DispatchFails, world
  <2> QED
      BY <1>1, <2>1, <2>2, <2>3, <2>4 DEF Next, Drain, vars, world
<1>3. Current(ops[n].id) /\ server' \in Effects(ops[n])
    BY <1>2 DEF Dispatch, DispatchLost, Effects
<1>4. Queued(ops[n])
    BY DEF MInv, OpsNamed
<1>5. Spares(server, server', ops[n].id.folder, ops[n].id.uid)
    BY <1>3, <1>4, EffectFollows DEF MInv, Queued, IsQueued
<1>6. f = ops[n].id.folder /\ u = ops[n].id.uid
    BY <1>1, <1>5 DEF Spares, Touched
<1>7. server[f].mail[u].name = ops[n].name
    BY <1>1, <1>3, <1>4, <1>6 DEF Queued, Names, Current
<1> QED
    BY <1>3, <1>4, <1>6, <1>7

(* The drain changes or removes no message but one an operation is queued  *)
(* for: the UIDVALIDITY in the id is compared before a UID is used         *)
(* (check_uidvalidity in imap-client), and UIDs are not given twice.       *)
THEOREM DrainHitsItsMessage == Spec => OpsHitTheirMessage
<1>1. MInv /\ [Next]_vars =>
        [remote' = remote =>
           \A f \in Folders : \A u \in Touched(f) :
              \E n \in DOMAIN ops : ops[n].name = server[f].mail[u].name]_vars
    BY DrainTouches
<1> QED
    BY <1>1, IdsNameTheirMessage, PTL DEF Spec, OpsHitTheirMessage

(* Only a delete takes the last copy of a message off the server: STORE    *)
(* keeps it, and a move leaves the copy it made before it expunged, even   *)
(* when it stops halfway or is done again (imap-client, move_messages).    *)
THEOREM OthersKeepMail == Spec => OnlyDeletesLoseMail
<1>1. ASSUME MInv, [Next]_vars, remote' = remote,
             NEW k \in 1 .. nextName - 1, Copies(k) # {}, Copies(k)' = {}
      PROVE  \E n \in DOMAIN ops : ops[n].op = "delete" /\ ops[n].name = k
  <2>0. PICK f \in Folders : \E u \in UidsOf(server[f]) : server[f].mail[u].name = k
      BY <1>1 DEF Copies
  <2>1. PICK u \in UidsOf(server[f]) : server[f].mail[u].name = k
      BY <2>0
  <2>2. \A g \in Folders : \A v \in UidsOf(server'[g]) : server'[g].mail[v].name # k
    <3> SUFFICES ASSUME NEW g \in Folders, NEW v \in UidsOf(server'[g]),
                        server'[g].mail[v].name = k
                 PROVE  FALSE
        OBVIOUS
    <3>1. <<g, v>> \in {g} \X UidsOf(server'[g])
        OBVIOUS
    <3>2. UidsOf(server[g])' = UidsOf(server'[g])
        BY DEF UidsOf
    <3>3. <<g, v>> \in Copies(k)'
        BY <3>1, <3>2 DEF Copies
    <3> QED
        BY <1>1, <3>3
  <2>3. u \in Touched(f)
      BY <2>1, <2>2 DEF Touched
  <2>4. PICK n \in DOMAIN ops : /\ server' \in Effects(ops[n]) /\ Queued(ops[n])
                                /\ f = ops[n].id.folder /\ u = ops[n].id.uid
                                /\ server[f].mail[u].name = ops[n].name
      BY <1>1, <2>3, DrainTouches
  <2>5. IsOperation(ops[n]) /\ World(server)
      BY <1>1, <2>4 DEF MInv, Queued, IsQueued
  <2>6. ops[n].op # "flags"
    <3> SUFFICES ASSUME ops[n].op = "flags" PROVE FALSE
        OBVIOUS
    <3>1. server' = Stored(ops[n])
        BY <2>4 DEF Effects, Effect
    <3>2. u \in UidsOf(server'[f]) /\ server'[f].mail[u].name = server[f].mail[u].name
        BY <2>1, <2>5, <3>1, StoredOne
    <3> QED
        BY <2>1, <2>2, <3>2
  <2>7. ops[n].op # "move"
    <3> SUFFICES ASSUME ops[n].op = "move" PROVE FALSE
        OBVIOUS
    <3>1. server' = Moved(ops[n]) \/ server' = Copied(ops[n])
        BY <2>4 DEF Effects, Effect, Halfway
    <3>2. \E g \in Folders : \E v \in UidsOf(server'[g]) : server'[g].mail[v].name = k
      <4>1. CASE server' = Moved(ops[n])
          BY <2>1, <2>4, <2>5, <4>1, MovedOne DEF IsOperation
      <4>2. CASE server' = Copied(ops[n])
          BY <2>1, <2>4, <2>5, <4>2, CopiedOne DEF IsOperation
      <4> QED
          BY <3>1, <4>1, <4>2
    <3> QED
        BY <2>2, <3>2
  <2> QED
      BY <2>1, <2>4, <2>5, <2>6, <2>7 DEF IsOperation
<1>2. MInv /\ [Next]_vars =>
        [remote' = remote =>
           \A k \in 1 .. nextName - 1 : Copies(k) # {} /\ Copies(k)' = {} =>
              \E n \in DOMAIN ops : ops[n].op = "delete" /\ ops[n].name = k]_vars
    BY <1>1
<1> QED
    BY <1>2, IdsNameTheirMessage, PTL DEF Spec, OnlyDeletesLoseMail

-----------------------------------------------------------------------------
(* How many copies of a message there are.                                 *)

CopiesIn(w, k) ==
    {c \in UNION {{f} \X UidsOf(w[f]) : f \in Folders} : w[c[1]].mail[c[2]].name = k}

(* Counting from w to v: no message is new, and none has more copies.      *)
IsFrom(w, v) ==
    \A f \in Folders : \A u \in UidsOf(v[f]) :
        \E g \in Folders : \E x \in UidsOf(w[g]) : v[f].mail[u].name = w[g].mail[x].name
AtMost(w, v, n) ==
    /\ IsFrom(w, v)
    /\ \A k : IsFiniteSet(CopiesIn(w, k)) =>
          /\ IsFiniteSet(CopiesIn(v, k)) /\ Cardinality(CopiesIn(v, k)) <= Cardinality(CopiesIn(w, k)) + n

CopiesInv ==
    /\ nextName \in Nat \ {0} /\ mishaps \in Nat
    /\ \A f \in Folders : \A u \in UidsOf(server[f]) : server[f].mail[u].name \in 1 .. nextName - 1
    /\ \A k \in 1 .. nextName - 1 :
          IsFiniteSet(CopiesIn(server, k)) /\ Cardinality(CopiesIn(server, k)) <= 1 + mishaps

LEMMA CopiesAre ==
    ASSUME NEW w, NEW k
    PROVE  /\ \A f, u : <<f, u>> \in CopiesIn(w, k) <=>
                            f \in Folders /\ u \in UidsOf(w[f]) /\ w[f].mail[u].name = k
           /\ \A c \in CopiesIn(w, k) : c = <<c[1], c[2]>>
BY DEF CopiesIn

LEMMA SameCopies ==
    ASSUME NEW w, NEW k, NEW S, \A c \in S : c = <<c[1], c[2]>>,
           \A f, u : <<f, u>> \in CopiesIn(w, k) <=> <<f, u>> \in S
    PROVE  CopiesIn(w, k) = S
<1> SUFFICES ASSUME NEW c PROVE c \in CopiesIn(w, k) <=> c \in S
    OBVIOUS
<1>1. CASE c = <<c[1], c[2]>>
  <2> PICK f, u : f = c[1] /\ u = c[2]
      OBVIOUS
  <2>1. c = <<f, u>>
      BY <1>1
  <2> QED
      BY <2>1
<1>2. CASE c # <<c[1], c[2]>>
    BY <1>2, CopiesAre
<1> QED
    BY <1>1, <1>2

LEMMA FewerCopies ==
    ASSUME NEW w, NEW v,
           \A f \in Folders : \A u \in UidsOf(v[f]) :
               u \in UidsOf(w[f]) /\ v[f].mail[u].name = w[f].mail[u].name
    PROVE  AtMost(w, v, 0)
<1>1. \A k : CopiesIn(v, k) \subseteq CopiesIn(w, k)
    BY CopiesAre
<1>2. \A k : IsFiniteSet(CopiesIn(w, k)) =>
         /\ IsFiniteSet(CopiesIn(v, k)) /\ Cardinality(CopiesIn(v, k)) <= Cardinality(CopiesIn(w, k))
         /\ Cardinality(CopiesIn(w, k)) \in Nat
    BY <1>1, FS_Subset, FS_CardinalityType
<1> QED
    BY <1>2 DEF AtMost, IsFrom

LEMMA StoredCounts ==
    ASSUME World(server), NEW o, IsOperation(o)
    PROVE  AtMost(server, Stored(o), 0)
<1> DEFINE g == o.id.folder
           m == server[g]
           n == IF o.id.uid \in UidsOf(m)
                THEN WithFlags(m, o.id.uid, Change(m.mail[o.id.uid].flags, o.flag, o.set)) ELSE m
           v == [server EXCEPT ![g] = n]
<1>1. g \in Folders /\ Sane(m)
    BY DEF World, IsOperation
<1>2. UidsOf(n) = UidsOf(m) /\ \A u \in UidsOf(m) : n.mail[u].name = m.mail[u].name
  <2>1. CASE o.id.uid \notin UidsOf(m)
      BY <2>1
  <2>2. CASE o.id.uid \in UidsOf(m)
    <3> DEFINE fl == Change(m.mail[o.id.uid].flags, o.flag, o.set)
    <3>1. n = WithFlags(m, o.id.uid, fl)
        BY <2>2
    <3> HIDE DEF n, m, fl
    <3> QED
        BY <1>1, <3>1, MarksOne
  <2> QED
      BY <2>1, <2>2
<1>3. Stored(o) = v
    BY <1>1 DEF Stored, World
<1> HIDE DEF n
<1>4. \A f \in Folders : v[f] = IF f = g THEN n ELSE server[f]
    BY DEF World
<1> HIDE DEF v
<1> QED
    BY <1>1, <1>2, <1>3, <1>4, FewerCopies

Without(w, v, g, x) ==
    \A f \in Folders : \A u :
        /\ u \in UidsOf(v[f]) <=> u \in UidsOf(w[f]) /\ ~(f = g /\ u = x)
        /\ u \in UidsOf(v[f]) => v[f].mail[u].name = w[f].mail[u].name

LEMMA OneLess ==
    ASSUME NEW w, NEW v, NEW g, NEW x, Without(w, v, g, x), NEW k
    PROVE  CopiesIn(v, k) = CopiesIn(w, k) \ {<<g, x>>}
<1>1. ASSUME NEW f, NEW u
      PROVE  <<f, u>> \in CopiesIn(v, k) <=> <<f, u>> \in CopiesIn(w, k) \ {<<g, x>>}
  <2>1. f \in Folders => (u \in UidsOf(v[f]) /\ v[f].mail[u].name = k <=>
            u \in UidsOf(w[f]) /\ w[f].mail[u].name = k /\ ~(f = g /\ u = x))
      BY DEF Without
  <2>2. <<f, u>> = <<g, x>> <=> f = g /\ u = x
      OBVIOUS
  <2> QED
      BY <2>1, <2>2, CopiesAre
<1>2. \A c \in CopiesIn(w, k) \ {<<g, x>>} : c = <<c[1], c[2]>>
    BY CopiesAre
<1> QED
    BY <1>1, <1>2, SameCopies

LEMMA WithoutCounts ==
    ASSUME NEW w, World(w), NEW g \in Folders, NEW x, NEW v,
           v[g] = WithoutMessage(w[g], x), \A f \in Folders : f # g => v[f] = w[f]
    PROVE  AtMost(w, v, 0) /\ \A k : CopiesIn(v, k) = CopiesIn(w, k) \ {<<g, x>>}
<1>1. UidsOf(v[g]) = UidsOf(w[g]) \ {x} /\ \A u \in UidsOf(v[g]) : v[g].mail[u] = w[g].mail[u]
  <2> PICK n : n = v[g]
      OBVIOUS
  <2>1. n = WithoutMessage(w[g], x) /\ Sane(w[g])
      BY DEF World
  <2>2. UidsOf(n) = UidsOf(w[g]) \ {x} /\ \A u \in UidsOf(n) : n.mail[u] = w[g].mail[u]
      BY <2>1, RemovesOne
  <2> QED
      BY <2>2
<1>2. Without(w, v, g, x)
    BY <1>1 DEF Without
<1>3. AtMost(w, v, 0)
    BY <1>2, FewerCopies DEF Without
<1>4. \A k : CopiesIn(v, k) = CopiesIn(w, k) \ {<<g, x>>}
    BY <1>2, OneLess
<1> QED
    BY <1>3, <1>4

(* A copy counts as one more, unless there is nothing to copy.             *)
LEMMA CopiedCounts ==
    ASSUME World(server), NEW o, IsOperation(o), o.op = "move"
    PROVE  /\ World(Copied(o)) /\ IsFrom(server, Copied(o))
           /\ \A k : \/ CopiesIn(Copied(o), k) = CopiesIn(server, k)
                     \/ /\ <<o.id.folder, o.id.uid>> \in CopiesIn(server, k)
                        /\ \E c : /\ c \notin CopiesIn(server, k)
                                 /\ CopiesIn(Copied(o), k) = CopiesIn(server, k) \cup {c}
<1> DEFINE g == o.target
           m == server[o.id.folder].mail[o.id.uid]
           n == WithMessage(server[g], m.name, m.flags)
           v == [server EXCEPT ![g] = n]
<1>1. g \in Folders /\ o.id.folder \in Folders /\ Sane(server[g]) /\ World(Copied(o))
    BY CopiedOne DEF World, IsOperation, Follows
<1>2. CASE o.id.uid \notin UidsOf(server[o.id.folder])
  <2>1. Copied(o) = server
      BY <1>2 DEF Copied
  <2> QED
      BY <1>1, <2>1 DEF IsFrom
<1>3. CASE o.id.uid \in UidsOf(server[o.id.folder])
  <2>1. /\ UidsOf(n) = UidsOf(server[g]) \cup {server[g].uidnext}
        /\ n.mail[server[g].uidnext].name = m.name
        /\ \A u \in UidsOf(server[g]) : n.mail[u] = server[g].mail[u]
        /\ server[g].uidnext \notin UidsOf(server[g])
    <3>1. n = WithMessage(server[g], m.name, m.flags)
        OBVIOUS
    <3> HIDE DEF n, m
    <3>2. server[g].uidnext \notin UidsOf(server[g])
        BY <1>1 DEF Sane
    <3> QED
        BY <1>1, <3>1, <3>2, AddsOne
  <2>2. Copied(o) = v
      BY <1>1, <1>3 DEF Copied, World
  <2> HIDE DEF n
  <2>3. \A f \in Folders : v[f] = IF f = g THEN n ELSE server[f]
      BY DEF World
  <2> HIDE DEF v
  <2>4. IsFrom(server, v)
    <3>1. ASSUME NEW f \in Folders, NEW u \in UidsOf(v[f])
          PROVE  \/ u \in UidsOf(server[f]) /\ v[f].mail[u].name = server[f].mail[u].name
                 \/ v[f].mail[u].name = m.name
        BY <2>1, <2>3
    <3> QED
        BY <1>1, <1>3, <3>1 DEF IsFrom
  <2> DEFINE next == server[g].uidnext
  <2>0. \A f \in Folders : \A u :
            /\ u \in UidsOf(v[f]) <=> u \in UidsOf(server[f]) \/ (f = g /\ u = next)
            /\ u \in UidsOf(v[f]) =>
                   v[f].mail[u].name = IF f = g /\ u = next THEN m.name ELSE server[f].mail[u].name
      BY <2>1, <2>3
  <2> HIDE DEF m, next
  <2>5. ASSUME NEW k, k # m.name PROVE CopiesIn(v, k) = CopiesIn(server, k)
    <3>1. ASSUME NEW f, NEW u PROVE <<f, u>> \in CopiesIn(v, k) <=> <<f, u>> \in CopiesIn(server, k)
      <4>1. f \in Folders => (u \in UidsOf(v[f]) /\ v[f].mail[u].name = k <=>
                u \in UidsOf(server[f]) /\ server[f].mail[u].name = k)
          BY <2>0, <2>1, <2>5 DEF next
      <4> QED
          BY <4>1, CopiesAre
    <3> QED
        BY <3>1, CopiesAre, SameCopies
  <2>6. LET k == m.name
            c == <<g, next>>
        IN  /\ <<o.id.folder, o.id.uid>> \in CopiesIn(server, k)
            /\ c \notin CopiesIn(server, k) /\ CopiesIn(v, k) = CopiesIn(server, k) \cup {c}
    <3> DEFINE k == m.name
               c == <<g, next>>
    <3>1. <<o.id.folder, o.id.uid>> \in CopiesIn(server, k) /\ c \notin CopiesIn(server, k)
        BY <1>1, <1>3, <2>1, CopiesAre DEF m, next
    <3>2. ASSUME NEW f, NEW u
          PROVE  <<f, u>> \in CopiesIn(v, k) <=> <<f, u>> \in CopiesIn(server, k) \cup {c}
      <4>1. f \in Folders => (u \in UidsOf(v[f]) /\ v[f].mail[u].name = k <=>
                (u \in UidsOf(server[f]) /\ server[f].mail[u].name = k) \/ (f = g /\ u = next))
          BY <2>0, <2>1 DEF next
      <4> QED
          BY <1>1, <4>1, CopiesAre
    <3>3. \A d \in CopiesIn(server, k) \cup {c} : d = <<d[1], d[2]>>
        BY CopiesAre
    <3>4. CopiesIn(v, k) = CopiesIn(server, k) \cup {c}
      <4> HIDE DEF c, k
      <4> QED
          BY <3>2, <3>3, SameCopies
    <3> QED
        BY <3>1, <3>4
  <2> QED
      BY <1>1, <2>2, <2>4, <2>5, <2>6
<1> QED
    BY <1>2, <1>3

LEMMA HalfwayCounts ==
    ASSUME World(server), NEW o, IsOperation(o), o.op = "move"
    PROVE  AtMost(server, Copied(o), 1)
<1>1. IsFrom(server, Copied(o))
    BY CopiedCounts
<1>2. ASSUME NEW k, IsFiniteSet(CopiesIn(server, k))
      PROVE  /\ IsFiniteSet(CopiesIn(Copied(o), k))
             /\ Cardinality(CopiesIn(Copied(o), k)) <= Cardinality(CopiesIn(server, k)) + 1
  <2>1. Cardinality(CopiesIn(server, k)) \in Nat
      BY <1>2, FS_CardinalityType
  <2>2. \/ CopiesIn(Copied(o), k) = CopiesIn(server, k)
        \/ \E c : CopiesIn(Copied(o), k) = CopiesIn(server, k) \cup {c}
      BY CopiedCounts
  <2>3. ASSUME NEW c, CopiesIn(Copied(o), k) = CopiesIn(server, k) \cup {c}
        PROVE  /\ IsFiniteSet(CopiesIn(Copied(o), k))
               /\ Cardinality(CopiesIn(Copied(o), k)) <= Cardinality(CopiesIn(server, k)) + 1
    <3>1. /\ IsFiniteSet(CopiesIn(server, k) \cup {c})
          /\ Cardinality(CopiesIn(server, k) \cup {c}) =
                IF c \in CopiesIn(server, k) THEN Cardinality(CopiesIn(server, k))
                                            ELSE Cardinality(CopiesIn(server, k)) + 1
        BY <1>2, FS_AddElement
    <3> QED
        BY <2>1, <2>3, <3>1
  <2>4. CASE CopiesIn(Copied(o), k) = CopiesIn(server, k)
      BY <1>2, <2>1, <2>4
  <2> QED
      BY <2>2, <2>3, <2>4
<1> QED
    BY <1>1, <1>2 DEF AtMost

(* A move takes one copy away for the one it makes.                        *)
LEMMA MovedCounts ==
    ASSUME World(server), NEW o, IsOperation(o), o.op = "move"
    PROVE  AtMost(server, Moved(o), 0)
<1> DEFINE g == o.id.folder
           c == Copied(o)
           v == [c EXCEPT ![g] = WithoutMessage(c[g], o.id.uid)]
<1>1. World(c) /\ IsFrom(server, c) /\ g \in Folders
    BY CopiedCounts DEF IsOperation
<1>2. Moved(o) = v
    BY <1>1 DEF Moved, World
<1> HIDE DEF c
<1>3. AtMost(c, v, 0) /\ \A k : CopiesIn(v, k) = CopiesIn(c, k) \ {<<g, o.id.uid>>}
  <2> PICK x : x = o.id.uid
      OBVIOUS
  <2>1. v[g] = WithoutMessage(c[g], x) /\ \A f \in Folders : f # g => v[f] = c[f]
      BY <1>1 DEF World
  <2> HIDE DEF v, g
  <2> QED
      BY <1>1, <2>1, WithoutCounts
<1>4. \A k : \/ CopiesIn(c, k) = CopiesIn(server, k)
             \/ /\ <<g, o.id.uid>> \in CopiesIn(server, k)
                /\ \E d : d \notin CopiesIn(server, k) /\ CopiesIn(c, k) = CopiesIn(server, k) \cup {d}
    BY CopiedCounts DEF c
<1> HIDE DEF v
<1>5. IsFrom(server, v)
    BY <1>1, <1>3 DEF AtMost, IsFrom
<1>6. ASSUME NEW k, IsFiniteSet(CopiesIn(server, k))
      PROVE  /\ IsFiniteSet(CopiesIn(v, k))
             /\ Cardinality(CopiesIn(v, k)) <= Cardinality(CopiesIn(server, k)) + 0
  <2> DEFINE old == CopiesIn(server, k)
             new == CopiesIn(v, k)
             x == <<g, o.id.uid>>
  <2>1. Cardinality(old) \in Nat
      BY <1>6, FS_CardinalityType
  <2>2. CASE CopiesIn(c, k) = old
    <3>1. new \subseteq old
        BY <1>3, <2>2
    <3>2. IsFiniteSet(new) /\ Cardinality(new) \in Nat /\ Cardinality(new) <= Cardinality(old)
        BY <1>6, <3>1, FS_Subset, FS_CardinalityType
    <3> HIDE DEF old, new
    <3> QED
        BY <2>1, <3>2 DEF old, new
  <2>3. CASE x \in old /\ \E d : d \notin old /\ CopiesIn(c, k) = old \cup {d}
    <3>1. PICK d : d \notin old /\ CopiesIn(c, k) = old \cup {d}
        BY <2>3
    <3>2. new = (old \cup {d}) \ {x} /\ x \in old \cup {d}
        BY <1>3, <2>3, <3>1
    <3>3. IsFiniteSet(old \cup {d}) /\ Cardinality(old \cup {d}) = Cardinality(old) + 1
        BY <1>6, <3>1, FS_AddElement
    <3>4. IsFiniteSet(new) /\ Cardinality(new) = Cardinality(old \cup {d}) - 1
      <4> PICK big : big = old \cup {d}
          OBVIOUS
      <4>1. IsFiniteSet(big \ {x}) /\ Cardinality(big \ {x}) = Cardinality(big) - 1
          BY <3>2, <3>3, FS_RemoveElement
      <4> QED
          BY <3>2, <4>1
    <3> HIDE DEF old, new
    <3>5. Cardinality(new) <= Cardinality(old) + 0
        BY <2>1, <3>3, <3>4
    <3> QED
        BY <3>4, <3>5 DEF old, new
  <2> QED
      BY <1>4, <2>2, <2>3
<1> QED
    BY <1>2, <1>5, <1>6 DEF AtMost

(* A rebuilt mailbox has the messages it had, each once: the ranks of its  *)
(* UIDs are the new UIDs.                                                  *)
LEMMA RebuiltKeeps ==
    ASSUME NEW m, Sane(m)
    PROVE  \E was \in Injection(UidsOf(Renumbered(m)), UidsOf(m)) :
               Renumbered(m).mail = [j \in UidsOf(Renumbered(m)) |->
                                       Message(m.mail[was[j]].name, m.mail[was[j]].flags, m.modseq)]
<1> DEFINE uids == UidsOf(m)
           upto(u) == {v \in uids : v <= u}
           rank == [u \in uids |-> Cardinality(upto(u))]
           nth(k) == CHOOSE u \in uids : Cardinality(upto(u)) = k
           size == Cardinality(uids)
           mail == [k \in 1 .. size |-> Message(m.mail[nth(k)].name, m.mail[nth(k)].flags, m.modseq)]
<1>1. IsFiniteSet(uids) /\ uids \subseteq Nat
  <2>1. m.uidnext - 1 \in Int /\ uids \subseteq 1 .. m.uidnext - 1
      BY DEF Sane
  <2> QED
      BY <2>1, FS_Interval, FS_Subset
<1>2. /\ size \in Nat
      /\ \A u \in uids : /\ IsFiniteSet(upto(u))
                         /\ Cardinality(upto(u)) \in Nat /\ Cardinality(upto(u)) <= size
    BY <1>1, FS_Subset, FS_CardinalityType
<1>3. rank \in [uids -> 1 .. size]
  <2>1. ASSUME NEW u \in uids PROVE Cardinality(upto(u)) # 0
    <3>1. u \in upto(u)
        BY <1>1
    <3> QED
        BY <1>2, <3>1, FS_EmptySet
  <2> QED
      BY <1>2, <2>1
<1>4. \A u, v \in uids : u < v => Cardinality(upto(u)) # Cardinality(upto(v))
  <2> SUFFICES ASSUME NEW u \in uids, NEW v \in uids, u < v PROVE Cardinality(upto(u)) # Cardinality(upto(v))
      OBVIOUS
  <2>1. upto(u) \subseteq upto(v) /\ v \in upto(v) /\ v \notin upto(u)
      BY <1>1
  <2> QED
      BY <1>2, <2>1, FS_Subset
<1>5. rank \in Injection(uids, 1 .. size)
  <2>1. \A u, v \in uids : rank[u] = rank[v] => u = v
      BY <1>1, <1>4
  <2> QED
      BY <1>3, <2>1 DEF Injection, IsInjective
<1>6. rank \in Surjection(uids, 1 .. size)
  <2>1. IsFiniteSet(1 .. size) /\ Cardinality(1 .. size) = size
      BY <1>2, FS_Interval
  <2> QED
      BY <1>5, <2>1, FS_Injection
<1>7. \A k \in 1 .. size : nth(k) \in uids /\ Cardinality(upto(nth(k))) = k
    BY <1>6 DEF Surjection
<1> DEFINE was == [k \in 1 .. size |-> nth(k)]
<1>8. was \in Injection(1 .. size, uids)
  <2>1. \A k \in 1 .. size : was[k] = nth(k)
      OBVIOUS
  <2> HIDE DEF nth, upto
  <2>2. was \in [1 .. size -> uids]
      BY <1>7
  <2>3. \A i, j \in 1 .. size : was[i] = was[j] => i = j
    <3>1. \A i, j \in 1 .. size : nth(i) = nth(j) => i = j
      <4> SUFFICES ASSUME NEW i \in 1 .. size, NEW j \in 1 .. size, nth(i) = nth(j) PROVE i = j
          OBVIOUS
      <4>1. Cardinality(upto(nth(i))) = i /\ Cardinality(upto(nth(j))) = j
          BY <1>7
      <4> QED
          BY <4>1
    <3> QED
        BY <2>1, <3>1
  <2> QED
      BY <2>2, <2>3 DEF Injection, IsInjective
<1>9. Renumbered(m).mail = mail
    BY DEF Renumbered, Sane, IsMailbox
<1>10. UidsOf(Renumbered(m)) = 1 .. size
    BY <1>9 DEF UidsOf
<1>11. Renumbered(m).mail =
          [j \in 1 .. size |-> Message(m.mail[was[j]].name, m.mail[was[j]].flags, m.modseq)]
  <2>1. \A j \in 1 .. size : was[j] = nth(j)
      OBVIOUS
  <2> HIDE DEF was, nth
  <2> QED
      BY <1>9, <2>1
<1> HIDE DEF was, size, mail
<1> QED
    BY <1>8, <1>10, <1>11

LEMMA InjectedCounts ==
    ASSUME NEW w, NEW v, NEW g \in Folders, NEW was \in Injection(UidsOf(v[g]), UidsOf(w[g])),
           \A j \in UidsOf(v[g]) : v[g].mail[j].name = w[g].mail[was[j]].name,
           \A f \in Folders : f # g => v[f] = w[f]
    PROVE  AtMost(w, v, 0)
<1>3. \A j \in UidsOf(v[g]) : was[j] \in UidsOf(w[g])
    BY DEF Injection
<1>4. \A i, j \in UidsOf(v[g]) : was[i] = was[j] => i = j
    BY DEF Injection, IsInjective
<1>5. IsFrom(w, v)
  <2> SUFFICES ASSUME NEW f \in Folders, NEW u \in UidsOf(v[f])
               PROVE  \E h \in Folders : \E x \in UidsOf(w[h]) : v[f].mail[u].name = w[h].mail[x].name
      BY DEF IsFrom
  <2> QED
      BY <1>3
<1>6. ASSUME NEW k, IsFiniteSet(CopiesIn(w, k))
      PROVE  IsFiniteSet(CopiesIn(v, k)) /\ Cardinality(CopiesIn(v, k)) <= Cardinality(CopiesIn(w, k)) + 0
  <2> DEFINE new == CopiesIn(v, k)
             old == CopiesIn(w, k)
             to == [c \in new |-> IF c[1] = g THEN <<g, was[c[2]]>> ELSE c]
  <2>1. \A c \in new : to[c] \in old
    <3> SUFFICES ASSUME NEW c \in new PROVE to[c] \in old
        OBVIOUS
    <3>1. PICK f, u : c = <<f, u>> /\ f = c[1] /\ u = c[2]
        BY CopiesAre
    <3>2. f \in Folders /\ u \in UidsOf(v[f]) /\ v[f].mail[u].name = k
      <4>1. <<f, u>> \in CopiesIn(v, k)
          BY <3>1
      <4> QED
          BY <4>1, CopiesAre
    <3>3. to[c] = IF f = g THEN <<g, was[u]>> ELSE <<f, u>>
        BY <3>1
    <3> QED
        BY <1>3, <3>2, <3>3, CopiesAre
  <2>2. \A c, d \in new : to[c] = to[d] => c = d
    <3> SUFFICES ASSUME NEW c \in new, NEW d \in new, to[c] = to[d] PROVE c = d
        OBVIOUS
    <3>1. PICK f, u : c = <<f, u>> /\ f = c[1] /\ u = c[2]
        BY CopiesAre
    <3>2. PICK h, x : d = <<h, x>> /\ h = d[1] /\ x = d[2]
        BY CopiesAre
    <3>3. f \in Folders /\ u \in UidsOf(v[f]) /\ h \in Folders /\ x \in UidsOf(v[h])
        BY <3>1, <3>2, CopiesAre
    <3>4. /\ to[c] = IF f = g THEN <<g, was[u]>> ELSE <<f, u>>
          /\ to[d] = IF h = g THEN <<g, was[x]>> ELSE <<h, x>>
        BY <3>1, <3>2
    <3>5. f = h /\ u = x
        BY <1>4, <3>3, <3>4
    <3> QED
        BY <3>1, <3>2, <3>5
  <2>3. to \in Injection(new, old)
      BY <2>1, <2>2 DEF Injection, IsInjective
  <2> HIDE DEF to, new, old
  <2>4. IsFiniteSet(old)
      BY <1>6 DEF old
  <2>5. IsFiniteSet(new) /\ Cardinality(new) <= Cardinality(old)
      BY <2>3, <2>4, FS_Injection
  <2>6. Cardinality(new) <= Cardinality(old) + 0
      BY <2>4, <2>5, FS_CardinalityType
  <2> QED
      BY <2>5, <2>6 DEF old, new
<1> QED
    BY <1>5, <1>6 DEF AtMost

LEMMA RebuiltCounts ==
    ASSUME NEW w, World(w), NEW g \in Folders, NEW v,
           v[g] = Renumbered(w[g]), \A f \in Folders : f # g => v[f] = w[f]
    PROVE  AtMost(w, v, 0)
<1>1. Sane(w[g])
    BY DEF World
<1>2. PICK was \in Injection(UidsOf(Renumbered(w[g])), UidsOf(w[g])) :
          Renumbered(w[g]).mail = [j \in UidsOf(Renumbered(w[g])) |->
                                     Message(w[g].mail[was[j]].name, w[g].mail[was[j]].flags, w[g].modseq)]
    BY <1>1, RebuiltKeeps
<1>3. was \in Injection(UidsOf(v[g]), UidsOf(w[g]))
      /\ \A j \in UidsOf(v[g]) : v[g].mail[j].name = w[g].mail[was[j]].name
    BY <1>2 DEF Message
<1> QED
    BY <1>3, InjectedCounts

-----------------------------------------------------------------------------
LEMMA DrainCounts ==
    ASSUME MInv, NEW n \in DOMAIN ops
    PROVE  /\ Dispatch(n) => AtMost(server, server', 0)
           /\ DispatchLost(n) => AtMost(server, server', 1)
<1>1. World(server) /\ IsOperation(ops[n])
    BY DEF MInv, OpsNamed, Queued, IsQueued
<1>2. AtMost(server, Effect(ops[n]), 0)
  <2>1. CASE ops[n].op = "flags"
      BY <1>1, <2>1, StoredCounts DEF Effect
  <2>2. CASE ops[n].op = "delete"
    <3>1. ops[n].id.folder \in Folders /\ Effect(ops[n]) = Deleted(ops[n])
        BY <1>1, <2>2 DEF IsOperation, Effect
    <3> PICK v, g, x : v = Deleted(ops[n]) /\ g = ops[n].id.folder /\ x = ops[n].id.uid
        OBVIOUS
    <3>2. v[g] = WithoutMessage(server[g], x) /\ \A f \in Folders : f # g => v[f] = server[f]
        BY <1>1, <3>1 DEF Deleted, World
    <3>3. AtMost(server, v, 0)
        BY <1>1, <3>1, <3>2, WithoutCounts
    <3> QED
        BY <3>1, <3>3
  <2>3. CASE ops[n].op = "move"
      BY <1>1, <2>3, MovedCounts DEF Effect
  <2> QED
      BY <1>1, <2>1, <2>2, <2>3 DEF IsOperation
<1>3. ops[n].op = "move" => AtMost(server, Halfway(ops[n]), 1)
    BY <1>1, HalfwayCounts DEF Halfway
<1>4. ASSUME NEW v, AtMost(server, v, 0) PROVE AtMost(server, v, 1)
  <2>1. \A k : IsFiniteSet(CopiesIn(v, k)) /\ IsFiniteSet(CopiesIn(server, k)) =>
            Cardinality(CopiesIn(v, k)) \in Nat /\ Cardinality(CopiesIn(server, k)) \in Nat
      BY FS_CardinalityType
  <2> QED
      BY <1>4, <2>1 DEF AtMost
<1> QED
    BY <1>2, <1>3, <1>4 DEF Dispatch, DispatchLost

LEMMA OthersCount ==
    ASSUME MInv, NEW f \in Folders,
           Rebuild(f) \/ \E u \in UidsOf(server[f]) : Expunge(f, u) \/ \E x \in Flags : Flip(f, u, x)
    PROVE  AtMost(server, server', 0)
<1>0. World(server) /\ Sane(server[f])
    BY DEF MInv, World
<1>1. CASE Rebuild(f)
  <2>1. server'[f] = Renumbered(server[f]) /\ \A g \in Folders : g # f => server'[g] = server[g]
      BY <1>0, <1>1 DEF Rebuild, World
  <2> QED
      BY <1>0, <2>1, RebuiltCounts
<1>2. ASSUME NEW u, Expunge(f, u) PROVE AtMost(server, server', 0)
  <2>1. server'[f] = WithoutMessage(server[f], u) /\ \A g \in Folders : g # f => server'[g] = server[g]
      BY <1>0, <1>2 DEF Expunge, World
  <2> QED
      BY <1>0, <2>1, WithoutCounts
<1>3. ASSUME NEW u, NEW x, Flip(f, u, x) PROVE AtMost(server, server', 0)
  <2> DEFINE fl == Change(server[f].mail[u].flags, x, x \notin server[f].mail[u].flags)
             new == WithFlags(server[f], u, fl)
  <2>1. server' = [server EXCEPT ![f] = new]
      BY <1>0, <1>3 DEF Flip
  <2>2. /\ UidsOf(new) = UidsOf(server[f])
        /\ \A v \in UidsOf(server[f]) : new.mail[v].name = server[f].mail[v].name
    <3>1. new = WithFlags(server[f], u, fl)
        OBVIOUS
    <3> HIDE DEF new, fl
    <3> QED
        BY <1>0, <3>1, MarksOne
  <2> HIDE DEF new
  <2>3. \A g \in Folders : server'[g] = IF g = f THEN new ELSE server[g]
      BY <1>0, <2>1 DEF World
  <2> QED
      BY <2>2, <2>3, FewerCopies
<1> QED
    BY <1>1, <1>2, <1>3

(* What arrives has a name of its own, and one copy.                       *)
LEMMA ArrivesOnce ==
    ASSUME MInv, CopiesInv, NEW f \in Folders, Arrive(f)
    PROVE  CopiesInv'
<1> DEFINE x == server[f].uidnext
           new == WithMessage(server[f], nextName, {})
<1>0. World(server) /\ Sane(server[f])
    BY DEF MInv, World
<1>1. nextName' = nextName + 1 /\ mishaps' = mishaps /\ server' = [server EXCEPT ![f] = new]
    BY <1>0 DEF Arrive, Elsewhere
<1>2. /\ UidsOf(new) = UidsOf(server[f]) \cup {x} /\ new.mail[x].name = nextName
      /\ \A u \in UidsOf(server[f]) : new.mail[u] = server[f].mail[u]
      /\ x \notin UidsOf(server[f])
  <2>1. new = WithMessage(server[f], nextName, {}) /\ x \notin UidsOf(server[f])
      BY <1>0 DEF Sane
  <2> HIDE DEF new
  <2> QED
      BY <1>0, <2>1, AddsOne
<1> HIDE DEF new
<1>3. \A g \in Folders : server'[g] = IF g = f THEN new ELSE server[g]
    BY <1>0, <1>1 DEF World
<1>4. \A g \in Folders : \A u :
          /\ u \in UidsOf(server'[g]) <=> u \in UidsOf(server[g]) \/ (g = f /\ u = x)
          /\ u \in UidsOf(server'[g]) =>
                 server'[g].mail[u].name = IF g = f /\ u = x THEN nextName ELSE server[g].mail[u].name
    BY <1>2, <1>3
<1> HIDE DEF x
<1>5. nextName \in Nat \ {0} /\ mishaps \in Nat
      /\ \A g \in Folders : \A u \in UidsOf(server[g]) : server[g].mail[u].name \in 1 .. nextName - 1
    BY DEF CopiesInv
<1>6. \A g \in Folders : \A u \in UidsOf(server'[g]) : server'[g].mail[u].name \in 1 .. nextName' - 1
  <2> SUFFICES ASSUME NEW g \in Folders, NEW u \in UidsOf(server'[g])
               PROVE  server'[g].mail[u].name \in 1 .. nextName
      BY <1>1, <1>5
  <2>1. \/ server'[g].mail[u].name = nextName
        \/ server'[g].mail[u].name \in 1 .. nextName - 1
      BY <1>4, <1>5
  <2> QED
      BY <1>5, <2>1
<1>7. ASSUME NEW k \in 1 .. nextName - 1 PROVE CopiesIn(server', k) = CopiesIn(server, k)
  <2>1. ASSUME NEW g, NEW u PROVE <<g, u>> \in CopiesIn(server', k) <=> <<g, u>> \in CopiesIn(server, k)
    <3>1. g \in Folders => (u \in UidsOf(server'[g]) /\ server'[g].mail[u].name = k
                              <=> u \in UidsOf(server[g]) /\ server[g].mail[u].name = k)
        BY <1>2, <1>4, <1>5 DEF x
    <3> QED
        BY <3>1, CopiesAre
  <2> QED
      BY <2>1, CopiesAre, SameCopies
<1>8. CopiesIn(server', nextName) = {<<f, x>>}
  <2>1. ASSUME NEW g, NEW u PROVE <<g, u>> \in CopiesIn(server', nextName) <=> <<g, u>> \in {<<f, x>>}
    <3>1. g \in Folders => (u \in UidsOf(server'[g]) /\ server'[g].mail[u].name = nextName <=> g = f /\ u = x)
        BY <1>4, <1>5
    <3> QED
        BY <3>1, CopiesAre
  <2>2. \A c \in {<<f, x>>} : c = <<c[1], c[2]>>
      OBVIOUS
  <2> QED
      BY <2>1, <2>2, SameCopies
<1>9. ASSUME NEW k \in 1 .. nextName' - 1
      PROVE  IsFiniteSet(CopiesIn(server', k)) /\ Cardinality(CopiesIn(server', k)) <= 1 + mishaps'
  <2>1. CASE k = nextName
    <3>1. IsFiniteSet({<<f, x>>}) /\ Cardinality({<<f, x>>}) = 1
        BY FS_Singleton
    <3>2. IsFiniteSet(CopiesIn(server', k)) /\ Cardinality(CopiesIn(server', k)) = 1
        BY <1>8, <2>1, <3>1
    <3>3. 1 <= 1 + mishaps
        BY <1>5
    <3> QED
        BY <1>1, <3>2, <3>3
  <2>2. CASE k \in 1 .. nextName - 1
      BY <1>1, <1>7, <2>2 DEF CopiesInv
  <2> QED
      BY <1>1, <1>5, <2>1, <2>2
<1>10. nextName' \in Nat \ {0} /\ mishaps' \in Nat
    BY <1>1, <1>5
<1> QED
    BY <1>6, <1>9, <1>10 DEF CopiesInv

LEMMA CopiesInit ==
    ASSUME Init
    PROVE  CopiesInv
<1>1. nextName = Held + 1 /\ mishaps = 0 /\ Held \in Nat
    BY HeldAssumption DEF Init
<1>2. \A f \in Folders : server[f] = MailboxOf(IF f = Inbox THEN Held ELSE 0)
    BY DEF Init
<1>3. \A f \in Folders : \A u :
          /\ u \in UidsOf(server[f]) <=> f = Inbox /\ u \in 1 .. Held
          /\ u \in UidsOf(server[f]) => server[f].mail[u].name = u
  <2>1. ASSUME NEW n \in Nat
        PROVE  UidsOf(MailboxOf(n)) = 1 .. n /\ \A u \in 1 .. n : MailboxOf(n).mail[u].name = u
    <3> DEFINE mail == [u \in 1 .. n |-> Message(u, {}, u + 1)]
    <3>1. MailboxOf(n).mail = mail
        BY DEF MailboxOf
    <3>2. DOMAIN mail = 1 .. n /\ \A u \in 1 .. n : mail[u].name = u
        BY DEF Message
    <3> HIDE DEF mail
    <3> QED
        BY <3>1, <3>2 DEF UidsOf
  <2>2. server[Inbox] = MailboxOf(Held) /\ \A f \in Folders : f # Inbox => server[f] = MailboxOf(0)
      BY <1>2, HeldAssumption
  <2>3. UidsOf(server[Inbox]) = 1 .. Held /\ \A u \in 1 .. Held : server[Inbox].mail[u].name = u
      BY <1>1, <2>1, <2>2
  <2>4. \A f \in Folders : f # Inbox => UidsOf(server[f]) = {}
    <3>1. UidsOf(MailboxOf(0)) = {}
        BY <2>1
    <3> QED
        BY <2>2, <3>1
  <2> QED
      BY <2>3, <2>4
<1>4. ASSUME NEW k \in 1 .. nextName - 1
      PROVE  IsFiniteSet(CopiesIn(server, k)) /\ Cardinality(CopiesIn(server, k)) <= 1 + mishaps
  <2>1. ASSUME NEW f, NEW u PROVE <<f, u>> \in CopiesIn(server, k) <=> <<f, u>> \in {<<Inbox, k>>}
    <3>1. f \in Folders => (u \in UidsOf(server[f]) /\ server[f].mail[u].name = k <=> f = Inbox /\ u = k)
        BY <1>1, <1>3
    <3> QED
        BY <3>1, CopiesAre, HeldAssumption
  <2>2. \A c \in {<<Inbox, k>>} : c = <<c[1], c[2]>>
      OBVIOUS
  <2>3. CopiesIn(server, k) = {<<Inbox, k>>}
      BY <2>1, <2>2, SameCopies
  <2>4. IsFiniteSet({<<Inbox, k>>}) /\ Cardinality({<<Inbox, k>>}) = 1
      BY FS_Singleton
  <2> QED
      BY <1>1, <2>3, <2>4
<1> QED
    BY <1>1, <1>3, <1>4 DEF CopiesInv

(* What has at most as many copies as there are mishaps more.              *)
LEMMA CountsHold ==
    ASSUME CopiesInv, NEW n \in {0, 1}, AtMost(server, server', n),
           nextName' = nextName, mishaps' \in Nat, mishaps' >= mishaps + n
    PROVE  CopiesInv'
<1>1. nextName \in Nat \ {0} /\ mishaps \in Nat
    BY DEF CopiesInv
<1>2. \A f \in Folders : \A u \in UidsOf(server'[f]) : server'[f].mail[u].name \in 1 .. nextName' - 1
    BY DEF CopiesInv, AtMost, IsFrom
<1>3. ASSUME NEW k \in 1 .. nextName' - 1
      PROVE  IsFiniteSet(CopiesIn(server', k)) /\ Cardinality(CopiesIn(server', k)) <= 1 + mishaps'
  <2>1. IsFiniteSet(CopiesIn(server, k)) /\ Cardinality(CopiesIn(server, k)) <= 1 + mishaps
      BY DEF CopiesInv
  <2>2. /\ IsFiniteSet(CopiesIn(server', k))
        /\ Cardinality(CopiesIn(server', k)) <= Cardinality(CopiesIn(server, k)) + n
      BY <2>1 DEF AtMost
  <2>3. Cardinality(CopiesIn(server', k)) \in Nat /\ Cardinality(CopiesIn(server, k)) \in Nat
      BY <2>1, <2>2, FS_CardinalityType
  <2>4. PICK a \in Nat, b \in Nat : /\ a = Cardinality(CopiesIn(server, k))
                                   /\ b = Cardinality(CopiesIn(server', k))
      BY <2>3
  <2>5. b <= 1 + mishaps'
      BY <1>1, <2>1, <2>2, <2>4
  <2> QED
      BY <2>2, <2>4, <2>5
<1> QED
    BY <1>1, <1>2, <1>3 DEF CopiesInv

LEMMA CopiesStep ==
    ASSUME MInv, CopiesInv, [Next]_vars
    PROVE  CopiesInv'
<1>0. mishaps \in Nat
    BY DEF CopiesInv
<1>1. AtMost(server, server, 0)
    BY FewerCopies
<1>2. ASSUME UNCHANGED world, UNCHANGED mishaps \/ Mishap PROVE CopiesInv'
    BY <1>0, <1>1, <1>2, CountsHold DEF world, Mishap
<1>3. CASE User
    BY <1>2, <1>3 DEF User, FlagRead, MoveRead, DeleteRead, Begin, FlagWrite, MoveWrite, RowVanished,
                      DeleteWrite, Enqueue, CommandFails, budget
<1>4. CASE Sync
    BY <1>2, <1>4 DEF Sync, SyncStart, ClearCursor, Select, Fetch, Changes, FindExisting, ApplyChunk,
                      ListKnown, ListLocal, Prune, UpdateFlags, PutCursor, SyncFails, budget
<1>5. ASSUME NEW n \in DOMAIN ops, Dispatch(n) \/ DispatchFails(n) \/ DispatchLost(n) PROVE CopiesInv'
  <2>1. CASE Dispatch(n)
    <3>1. nextName' = nextName /\ mishaps' = mishaps
        BY <2>1 DEF Dispatch, budget
    <3> QED
        BY <1>0, <2>1, <3>1, DrainCounts, CountsHold
  <2>2. CASE DispatchFails(n)
      BY <1>2, <2>2 DEF DispatchFails, budget
  <2>3. CASE DispatchLost(n)
    <3>1. nextName' = nextName /\ mishaps' = mishaps + 1
        BY <2>3 DEF DispatchLost, Mishap
    <3> QED
        BY <1>0, <2>3, <3>1, DrainCounts, CountsHold
  <2> QED
      BY <1>5, <2>1, <2>2, <2>3
<1>6. ASSUME NEW f \in Folders,
             Arrive(f) \/ Rebuild(f)
             \/ \E u \in UidsOf(server[f]) : Expunge(f, u) \/ \E x \in Flags : Flip(f, u, x)
      PROVE  CopiesInv'
  <2>1. CASE Arrive(f)
      BY <2>1, ArrivesOnce
  <2>2. CASE Rebuild(f) \/ \E u \in UidsOf(server[f]) : Expunge(f, u) \/ \E x \in Flags : Flip(f, u, x)
    <3>1. AtMost(server, server', 0)
        BY <2>2, OthersCount
    <3>2. nextName' = nextName /\ mishaps' = mishaps
        BY <2>2 DEF Rebuild, Expunge, Flip, Elsewhere
    <3> QED
        BY <1>0, <3>1, <3>2, CountsHold
  <2> QED
      BY <1>6, <2>1, <2>2
<1>7. CASE UNCHANGED vars
    BY <1>2, <1>7 DEF vars, budget
<1> QED
    BY <1>3, <1>4, <1>5, <1>6, <1>7 DEF Next, Drain, Others

(* A message is on the server once, and once more at most for each reply   *)
(* or EXPUNGE that was lost: an operation that the drain sends again (its  *)
(* row is deleted only after the answer) copies what is there only if the  *)
(* first attempt stopped between COPY and EXPUNGE, and neither a rebuilt   *)
(* mailbox nor another client multiplies it.                               *)
THEOREM MovesDoNotMultiply == Spec => []CopiesNeedMishaps
<1>1. Init => MInv /\ CopiesInv
    BY InitNamed, CopiesInit
<1>2. MInv /\ CopiesInv /\ [Next]_vars => MInv' /\ CopiesInv'
    BY NextNamed, CopiesStep
<1>3. CopiesInv => CopiesNeedMishaps
    BY DEF CopiesInv, CopiesNeedMishaps, CopiesIn, Copies
<1> QED
    BY <1>1, <1>2, <1>3, PTL DEF Spec

-----------------------------------------------------------------------------
(* The types.                                                              *)

Msgs(k) == [name : 1 .. k - 1, flags : SUBSET Flags, mod : Nat]
Typed(m, k) ==
    /\ Sane(m) /\ m.validity # 0 /\ m.modseq # 0
    /\ m.mail \in [UidsOf(m) -> Msgs(k)]
    /\ \A u \in UidsOf(m) : m.mail[u].mod <= m.modseq
ServerTyped == nextName \in Nat \ {0} /\ \A f \in Folders : Typed(server[f], nextName)

RowsTyped == DOMAIN rows \subseteq Ids /\ \A i \in DOMAIN rows : rows[i] \in Rows
CursorTyped ==
    /\ cursor = [f \in Folders |-> cursor[f]]
    /\ \A f \in Folders : cursor[f] \in Cursors \cup {None}
OpsTyped ==
    /\ nextOp \in Nat \ {0} /\ DOMAIN ops \subseteq 1 .. nextOp - 1
    /\ \A n \in DOMAIN ops : ops[n] \in Operations
CmdTyped ==
    cmd # None => cmd.todo \in Operations /\ cmd.flags \in SUBSET Flags

Steps == {"idle", "select", "fetch", "changes", "find", "apply", "known", "local", "prune", "flags"}
PassTyped ==
    /\ at \in Steps /\ on \in Folders \cup {None} /\ (at = "idle") = (on = None)
    /\ {prior, since, fresh} \subseteq Cursors \cup {None}
    /\ at \notin {"idle", "select"} => fresh \in Cursors
    /\ DOMAIN headers \subseteq Nat \ {0}
    /\ \A u \in DOMAIN headers : headers[u].name \in Nat \ {0} /\ headers[u].flags \in SUBSET Flags
    /\ DOMAIN existing \cup doomed \subseteq Ids
    /\ \A u \in DOMAIN deltas : deltas[u] \in SUBSET Flags

TInv == ServerTyped /\ RowsTyped /\ CursorTyped /\ OpsTyped /\ CmdTyped /\ PassTyped

(* A mailbox, from its parts.                                              *)
LEMMA OfParts ==
    ASSUME NEW m, NEW v \in Nat \ {0}, NEW n \in Nat \ {0}, NEW q \in Nat \ {0}, NEW U, NEW mail, NEW k,
           m = [validity |-> v, uidnext |-> n, modseq |-> q, mail |-> mail],
           U \subseteq 1 .. n - 1, mail \in [U -> Msgs(k)],
           \A u \in U : mail[u].mod <= q
    PROVE  Typed(m, k)
<1>1. m.validity = v /\ m.uidnext = n /\ m.modseq = q /\ m.mail = mail
    OBVIOUS
<1>2. UidsOf(m) = U
    BY <1>1 DEF UidsOf
<1>3. \A u \in U : mail[u].mod \in Nat
    BY DEF Msgs
<1>4. m = [validity |-> m.validity, uidnext |-> m.uidnext, modseq |-> m.modseq, mail |-> m.mail]
    BY <1>1
<1> QED
    BY <1>1, <1>2, <1>3, <1>4 DEF Typed, Sane, IsMailbox

LEMMA PartsOf ==
    ASSUME NEW m, NEW k, Typed(m, k)
    PROVE  /\ m = [validity |-> m.validity, uidnext |-> m.uidnext, modseq |-> m.modseq, mail |-> m.mail]
           /\ m.validity \in Nat \ {0} /\ m.uidnext \in Nat \ {0} /\ m.modseq \in Nat \ {0}
           /\ UidsOf(m) \subseteq 1 .. m.uidnext - 1
           /\ m.mail \in [UidsOf(m) -> Msgs(k)]
           /\ \A u \in UidsOf(m) : m.mail[u].mod <= m.modseq /\ m.mail[u] \in Msgs(k)
BY DEF Typed, Sane, IsMailbox

LEMMA LaterNames ==
    ASSUME NEW m, NEW k \in Nat, NEW j \in Nat, k <= j, Typed(m, k)
    PROVE  Typed(m, j)
<1>1. Msgs(k) \subseteq Msgs(j)
    BY DEF Msgs
<1> QED
    BY <1>1 DEF Typed

LEMMA AddedTyped ==
    ASSUME NEW m, NEW k \in Nat \ {0}, Typed(m, k), NEW name \in 1 .. k - 1, NEW flags \in SUBSET Flags
    PROVE  Typed(WithMessage(m, name, flags), k)
<1> PICK v, n, q, old : v = m.validity /\ n = m.uidnext /\ q = m.modseq /\ old = m.mail
    OBVIOUS
<1> DEFINE U == UidsOf(m) \cup {n}
           r == Message(name, flags, q + 1)
           mail == [u \in U |-> IF u = n THEN r ELSE old[u]]
<1>1. v \in Nat \ {0} /\ n \in Nat \ {0} /\ q \in Nat \ {0} /\ UidsOf(m) \subseteq 1 .. n - 1
      /\ (\A u \in UidsOf(m) : old[u].mod <= q /\ old[u].mod \in Nat /\ old[u] \in Msgs(k))
      /\ m = [validity |-> v, uidnext |-> n, modseq |-> q, mail |-> old]
    BY PartsOf DEF Msgs
<1>2. WithMessage(m, name, flags) = [validity |-> v, uidnext |-> n + 1, modseq |-> q + 1, mail |-> mail]
  <2>1. WithMessage(m, name, flags) = [m EXCEPT !.uidnext = n + 1, !.modseq = q + 1, !.mail = mail]
      BY <1>1 DEF WithMessage
  <2> HIDE DEF mail
  <2> QED
      BY <1>1, <2>1
<1>3. r \in Msgs(k) /\ r.mod = q + 1
    BY <1>1 DEF Msgs, Message
<1> HIDE DEF r
<1>4. mail \in [U -> Msgs(k)]
    BY <1>1, <1>3
<1>5. \A u \in U : mail[u].mod <= q + 1
    BY <1>1, <1>3
<1>6. U \subseteq 1 .. (n + 1) - 1 /\ n + 1 \in Nat \ {0} /\ q + 1 \in Nat \ {0}
    BY <1>1
<1> PICK new, ml, A : new = WithMessage(m, name, flags) /\ ml = mail /\ A = U
    OBVIOUS
<1> HIDE DEF mail, U
<1> QED
    BY <1>1, <1>2, <1>4, <1>5, <1>6, OfParts

LEMMA RemovedTyped ==
    ASSUME NEW m, NEW k, Typed(m, k), NEW x
    PROVE  Typed(WithoutMessage(m, x), k)
<1> PICK v, n, q, old : v = m.validity /\ n = m.uidnext /\ q = m.modseq /\ old = m.mail
    OBVIOUS
<1> DEFINE U == UidsOf(m) \ {x}
           mail == [u \in U |-> old[u]]
<1>1. v \in Nat \ {0} /\ n \in Nat \ {0} /\ q \in Nat \ {0} /\ UidsOf(m) \subseteq 1 .. n - 1
      /\ (\A u \in UidsOf(m) : old[u].mod <= q /\ old[u] \in Msgs(k))
      /\ m = [validity |-> v, uidnext |-> n, modseq |-> q, mail |-> old]
    BY PartsOf
<1>2. WithoutMessage(m, x) = [validity |-> v, uidnext |-> n, modseq |-> q, mail |-> mail]
    BY <1>1 DEF WithoutMessage
<1>3. mail \in [U -> Msgs(k)] /\ U \subseteq 1 .. n - 1 /\ \A u \in U : mail[u].mod <= q
    BY <1>1
<1> HIDE DEF mail, U
<1> QED
    BY <1>1, <1>2, <1>3, OfParts

LEMMA MarkedTyped ==
    ASSUME NEW m, NEW k, Typed(m, k), NEW x, NEW flags \in SUBSET Flags
    PROVE  Typed(WithFlags(m, x, flags), k)
<1> PICK v, n, q, old : v = m.validity /\ n = m.uidnext /\ q = m.modseq /\ old = m.mail
    OBVIOUS
<1>1. v \in Nat \ {0} /\ n \in Nat \ {0} /\ q \in Nat \ {0} /\ UidsOf(m) \subseteq 1 .. n - 1
      /\ (\A u \in UidsOf(m) : old[u].mod <= q /\ old[u].mod \in Nat /\ old[u] \in Msgs(k))
      /\ m = [validity |-> v, uidnext |-> n, modseq |-> q, mail |-> old]
      /\ old \in [UidsOf(m) -> Msgs(k)]
    BY PartsOf DEF Msgs
<1>2. CASE ~(x \in UidsOf(m) /\ m.mail[x].flags # flags)
    BY <1>2 DEF WithFlags
<1>3. CASE x \in UidsOf(m) /\ m.mail[x].flags # flags
  <2> DEFINE r == Message(old[x].name, flags, q + 1)
             mail == [old EXCEPT ![x] = r]
  <2>1. WithFlags(m, x, flags) = [validity |-> v, uidnext |-> n, modseq |-> q + 1, mail |-> mail]
      BY <1>1, <1>3 DEF WithFlags
  <2>2. r \in Msgs(k) /\ r.mod = q + 1
      BY <1>1, <1>3 DEF Msgs, Message
  <2> HIDE DEF r
  <2>3. mail \in [UidsOf(m) -> Msgs(k)] /\ \A u \in UidsOf(m) : mail[u].mod <= q + 1
      BY <1>1, <1>3, <2>2
  <2>4. q + 1 \in Nat \ {0}
      BY <1>1
  <2> PICK new, ml, A : new = WithFlags(m, x, flags) /\ ml = mail /\ A = UidsOf(m)
      OBVIOUS
  <2> HIDE DEF mail
  <2> QED
      BY <1>1, <2>1, <2>3, <2>4, OfParts
<1> QED
    BY <1>2, <1>3

LEMMA RenumberedTyped ==
    ASSUME NEW m, NEW k, Typed(m, k)
    PROVE  Typed(Renumbered(m), k)
<1> PICK new : new = Renumbered(m)
    OBVIOUS
<1>1. Sane(new) /\ new.validity = m.validity + 1 /\ new.modseq = m.modseq
    BY Renumbers DEF Typed
<1>2. PICK was \in Injection(UidsOf(new), UidsOf(m)) :
          new.mail = [j \in UidsOf(new) |-> Message(m.mail[was[j]].name, m.mail[was[j]].flags, m.modseq)]
    BY RebuiltKeeps DEF Typed
<1>3. \A j \in UidsOf(new) : was[j] \in UidsOf(m) /\ m.mail[was[j]] \in Msgs(k)
    BY PartsOf DEF Injection
<1>4. m.modseq \in Nat \ {0} /\ m.validity \in Nat \ {0}
    BY PartsOf
<1>5. \A j \in UidsOf(new) : new.mail[j] \in Msgs(k) /\ new.mail[j].mod = m.modseq
    BY <1>2, <1>3, <1>4 DEF Msgs, Message
<1>6. new.mail \in [UidsOf(new) -> Msgs(k)]
  <2>1. new.mail = [j \in UidsOf(new) |-> new.mail[j]]
      BY <1>2
  <2> QED
      BY <1>5, <2>1
<1> QED
    BY <1>1, <1>4, <1>5, <1>6 DEF Typed

-----------------------------------------------------------------------------
(* The server.                                                             *)

AllTyped(w) == \A f \in Folders : Typed(w[f], nextName)

LEMMA OneTyped ==
    ASSUME NEW w, World(w), AllTyped(w), NEW g, NEW m, g \in Folders => Typed(m, nextName),
           NEW v, v = [w EXCEPT ![g] = m]
    PROVE  AllTyped(v)
<1>1. \A f \in Folders : v[f] = IF f = g THEN m ELSE w[f]
    BY DEF World
<1> QED
    BY <1>1 DEF AllTyped

LEMMA FlagsTyped ==
    ASSUME NEW old \in SUBSET Flags, NEW x, NEW set, set => x \in Flags
    PROVE  Change(old, x, set) \in SUBSET Flags
BY DEF Change

LEMMA EffectsTyped ==
    ASSUME World(server), ServerTyped, NEW o, IsOperation(o)
    PROVE  AllTyped(Effect(o)) /\ (o.op = "move" => AllTyped(Halfway(o)))
<1> PICK g, x : g = o.id.folder /\ x = o.id.uid
    OBVIOUS
<1>1. g \in Folders /\ AllTyped(server) /\ Typed(server[g], nextName) /\ nextName \in Nat \ {0}
    BY DEF ServerTyped, AllTyped, IsOperation
<1>2. \A u \in UidsOf(server[g]) : server[g].mail[u].flags \in SUBSET Flags
                                    /\ server[g].mail[u].name \in 1 .. nextName - 1
    BY <1>1, PartsOf DEF Msgs
<1>3. CASE o.op = "flags"
  <2>0. PICK m : m = IF x \in UidsOf(server[g])
                     THEN WithFlags(server[g], x, Change(server[g].mail[x].flags, o.flag, o.set))
                     ELSE server[g]
      OBVIOUS
  <2>1. Typed(m, nextName)
    <3>1. CASE x \in UidsOf(server[g])
      <4>1. Change(server[g].mail[x].flags, o.flag, o.set) \in SUBSET Flags
          BY <1>2, <1>3, <3>1, FlagsTyped DEF IsOperation
      <4> QED
          BY <1>1, <2>0, <3>1, <4>1, MarkedTyped
    <3> QED
        BY <1>1, <2>0, <3>1
  <2>2. Effect(o) = [server EXCEPT ![g] = m]
      BY <1>1, <1>3, <2>0 DEF Effect, Stored, World
  <2> QED
    <3>1. AllTyped(Effect(o))
        BY <1>1, <2>1, <2>2, OneTyped
    <3> QED
        BY <1>3, <3>1
<1>4. CASE o.op = "delete"
  <2> PICK m : m = WithoutMessage(server[g], x)
      OBVIOUS
  <2>1. Typed(m, nextName)
      BY <1>1, RemovedTyped
  <2>2. Effect(o) = [server EXCEPT ![g] = m]
      BY <1>1, <1>4 DEF Effect, Deleted, World
  <2> QED
    <3>1. AllTyped(Effect(o))
        BY <1>1, <2>1, <2>2, OneTyped
    <3> QED
        BY <1>4, <3>1
<1>5. CASE o.op = "move"
  <2> PICK c, t : c = Copied(o) /\ t = o.target
      OBVIOUS
  <2>1. World(c) /\ t \in Folders
      BY <1>5, CopiedOne DEF Follows, IsOperation
  <2>2. AllTyped(c)
    <3>1. CASE x \in UidsOf(server[g])
      <4>0. PICK m : m = WithMessage(server[t], server[g].mail[x].name, server[g].mail[x].flags)
          OBVIOUS
      <4>1. Typed(m, nextName)
          BY <1>1, <1>2, <2>1, <3>1, <4>0, AddedTyped DEF AllTyped
      <4>2. c = [server EXCEPT ![t] = m]
          BY <2>1, <3>1, <4>0 DEF Copied, World
      <4> QED
          BY <1>1, <4>1, <4>2, OneTyped
    <3>2. CASE x \notin UidsOf(server[g])
        BY <1>1, <3>2 DEF Copied
    <3> QED
        BY <3>1, <3>2
  <2>3. AllTyped([c EXCEPT ![g] = WithoutMessage(c[g], x)])
    <3> PICK m : m = WithoutMessage(c[g], x)
        OBVIOUS
    <3>1. Typed(m, nextName)
        BY <1>1, <2>2, RemovedTyped DEF AllTyped
    <3> QED
        BY <2>1, <2>2, <3>1, OneTyped
  <2>4. Effect(o) = [c EXCEPT ![g] = WithoutMessage(c[g], x)]
      BY <1>1, <1>5, <2>1 DEF Effect, Moved, World
  <2> QED
      BY <2>2, <2>3, <2>4 DEF Halfway
<1> QED
    BY <1>3, <1>4, <1>5 DEF IsOperation

LEMMA ServerTypes ==
    ASSUME MInv, TInv, [Next]_vars
    PROVE  ServerTyped'
<1>0. /\ World(server) /\ ServerTyped /\ AllTyped(server) /\ nextName \in Nat \ {0}
      /\ \A f \in Folders : Typed(server[f], nextName)
    BY DEF MInv, TInv, ServerTyped, AllTyped
<1>1. ASSUME UNCHANGED world PROVE ServerTyped'
    BY <1>0, <1>1 DEF world, ServerTyped
<1>2. ASSUME UNCHANGED nextName, AllTyped(server') PROVE ServerTyped'
    BY <1>0, <1>2 DEF ServerTyped, AllTyped
<1>3. CASE User
    BY <1>1, <1>3 DEF User, FlagRead, MoveRead, DeleteRead, Begin, FlagWrite, MoveWrite, RowVanished,
                      DeleteWrite, Enqueue, CommandFails
<1>4. CASE Sync
    BY <1>1, <1>4 DEF Sync, SyncStart, ClearCursor, Select, Fetch, Changes, FindExisting, ApplyChunk,
                      ListKnown, ListLocal, Prune, UpdateFlags, PutCursor, SyncFails
<1>5. ASSUME NEW n \in DOMAIN ops, Dispatch(n) \/ DispatchFails(n) \/ DispatchLost(n) PROVE ServerTyped'
  <2>1. AllTyped(Effect(ops[n])) /\ (ops[n].op = "move" => AllTyped(Halfway(ops[n])))
      BY <1>0, EffectsTyped DEF MInv, OpsNamed, Queued, IsQueued
  <2> QED
      BY <1>1, <1>2, <1>5, <2>1 DEF Dispatch, DispatchFails, DispatchLost
<1>6. ASSUME NEW f \in Folders,
             Arrive(f) \/ Rebuild(f)
             \/ \E u \in UidsOf(server[f]) : Expunge(f, u) \/ \E x \in Flags : Flip(f, u, x)
      PROVE  ServerTyped'
  <2>1. CASE Arrive(f)
    <3> PICK m : m = WithMessage(server[f], nextName, {})
        OBVIOUS
    <3>1. nextName' = nextName + 1 /\ server' = [server EXCEPT ![f] = m]
        BY <1>0, <2>1 DEF Arrive, World
    <3>2. \A g \in Folders : Typed(server[g], nextName + 1)
        BY <1>0, LaterNames
    <3>3. Typed(m, nextName + 1)
        BY <1>0, <3>2, AddedTyped
    <3>4. \A g \in Folders : server'[g] = IF g = f THEN m ELSE server[g]
        BY <1>0, <3>1 DEF World
    <3> QED
        BY <1>0, <3>1, <3>2, <3>3, <3>4 DEF ServerTyped
  <2>2. CASE Rebuild(f)
    <3> PICK m : m = Renumbered(server[f])
        OBVIOUS
    <3>1. Typed(m, nextName) /\ server' = [server EXCEPT ![f] = m] /\ nextName' = nextName
        BY <1>0, <2>2, RenumberedTyped DEF Rebuild, World
    <3> QED
        BY <1>0, <1>2, <3>1, OneTyped
  <2>3. ASSUME NEW u \in UidsOf(server[f]), Expunge(f, u) PROVE ServerTyped'
    <3> PICK m : m = WithoutMessage(server[f], u)
        OBVIOUS
    <3>1. Typed(m, nextName) /\ server' = [server EXCEPT ![f] = m] /\ nextName' = nextName
        BY <1>0, <2>3, RemovedTyped DEF Expunge, World
    <3> QED
        BY <1>0, <1>2, <3>1, OneTyped
  <2>4. ASSUME NEW u \in UidsOf(server[f]), NEW x \in Flags, Flip(f, u, x) PROVE ServerTyped'
    <3> PICK old, set : old = server[f].mail[u].flags /\ set = (x \notin server[f].mail[u].flags)
        OBVIOUS
    <3> PICK m : m = WithFlags(server[f], u, Change(old, x, set))
        OBVIOUS
    <3>1. old \in SUBSET Flags
        BY <1>0, PartsOf DEF Msgs
    <3>2. Typed(m, nextName)
        BY <1>0, <3>1, FlagsTyped, MarkedTyped
    <3>3. server' = [server EXCEPT ![f] = m] /\ nextName' = nextName
        BY <1>0, <2>4 DEF Flip, World
    <3> QED
        BY <1>0, <1>2, <3>2, <3>3, OneTyped
  <2> QED
      BY <1>6, <2>1, <2>2, <2>3, <2>4
<1>7. CASE UNCHANGED vars
    BY <1>1, <1>7 DEF vars
<1> QED
    BY <1>3, <1>4, <1>5, <1>6, <1>7 DEF Next, Drain, Others

-----------------------------------------------------------------------------
(* The tables, the command and the pass.                                   *)

LEMMA RowTypes ==
    ASSUME MInv, TInv, [Next]_vars
    PROVE  RowsTyped'
<1>0. RowsTyped /\ rows = [i \in DOMAIN rows |-> rows[i]]
    BY DEF TInv, MInv, RowsNamed
<1>1. CASE UNCHANGED rows
    BY <1>0, <1>1 DEF RowsTyped
<1>2. ASSUME NEW r \in Rows
      PROVE  /\ \A f \in Folders : [r EXCEPT !.folder = f] \in Rows
             /\ \A fl \in SUBSET Flags : [r EXCEPT !.flags = fl] \in Rows
    BY DEF Rows
<1>3. CASE FlagWrite
  <2> PICK i, fl : i = cmd.todo.id /\ fl = Change(cmd.flags, cmd.todo.flag, cmd.todo.set)
      OBVIOUS
  <2>1. cmd # None /\ cmd.todo.op = "flags" /\ i \in DOMAIN rows /\ rows' = [rows EXCEPT ![i].flags = fl]
      BY <1>3 DEF FlagWrite, Writes
  <2>2. cmd.flags \in SUBSET Flags /\ cmd.todo.flag \in Flags
      BY <2>1 DEF TInv, CmdTyped, MInv, CmdNamed, Queued, IsQueued, IsOperation
  <2>3. fl \in SUBSET Flags
      BY <2>2, FlagsTyped
  <2>4. [rows[i] EXCEPT !.flags = fl] \in Rows
      BY <1>0, <1>2, <2>1, <2>3 DEF RowsTyped
  <2>5. DOMAIN rows' = DOMAIN rows
        /\ \A k \in DOMAIN rows : rows'[k] = IF k = i THEN [rows[i] EXCEPT !.flags = fl] ELSE rows[k]
      BY <1>0, <2>1
  <2> QED
      BY <1>0, <2>4, <2>5 DEF RowsTyped
<1>4. CASE MoveWrite
  <2> PICK i, t : i = cmd.todo.id /\ t = cmd.todo.target
      OBVIOUS
  <2>1. cmd # None /\ cmd.todo.op = "move" /\ i \in DOMAIN rows /\ rows' = [rows EXCEPT ![i].folder = t]
      BY <1>4 DEF MoveWrite, Writes
  <2>2. t \in Folders
      BY <2>1 DEF MInv, CmdNamed, Queued, IsQueued, IsOperation
  <2>3. [rows[i] EXCEPT !.folder = t] \in Rows
      BY <1>0, <1>2, <2>1, <2>2 DEF RowsTyped
  <2>4. DOMAIN rows' = DOMAIN rows
        /\ \A k \in DOMAIN rows : rows'[k] = IF k = i THEN [rows[i] EXCEPT !.folder = t] ELSE rows[k]
      BY <1>0, <2>1
  <2> QED
      BY <1>0, <2>3, <2>4 DEF RowsTyped
<1>5. ASSUME NEW S, rows' = Drop(rows, S) PROVE RowsTyped'
    BY <1>0, <1>5 DEF Drop, RowsTyped
<1>6. CASE User
    BY <1>1, <1>3, <1>4, <1>5, <1>6
    DEF User, FlagRead, MoveRead, DeleteRead, Begin, RowVanished, DeleteWrite, Enqueue, CommandFails, tables
<1>7. CASE ApplyChunk
  <2>1. /\ at = "apply" /\ on \in Folders /\ fresh \in Cursors
        /\ DOMAIN headers \subseteq Nat \ {0}
        /\ \A u \in DOMAIN headers : headers[u].name \in Nat \ {0} /\ headers[u].flags \in SUBSET Flags
        /\ DOMAIN existing \subseteq {Listed(u) : u \in DOMAIN headers}
      BY <1>7 DEF ApplyChunk, TInv, PassTyped, MInv, PassNamed
  <2>2. fresh.validity \in Nat \ {0}
      BY <2>1 DEF Cursors
  <2>3. \A u \in DOMAIN headers : Listed(u) \in Ids /\ Listed(u).uid = u
      BY <2>1, <2>2 DEF Listed, Id, Ids
  <2>4. \A u \in DOMAIN headers : Row(on, headers[u]) \in Rows
      BY <2>1 DEF Row, Rows
  <2>5. /\ DOMAIN rows' = DOMAIN rows \cup ToInsert
        /\ \A i \in DOMAIN rows' : rows'[i] = IF i \in DOMAIN rows /\ i \notin ToUpdate THEN rows[i]
                                              ELSE Row(on, headers[i.uid])
      BY <1>7 DEF ApplyChunk
  <2>6. \A i \in ToInsert \cup ToUpdate : \E u \in DOMAIN headers : i = Listed(u)
      BY <2>1 DEF ToInsert, ToUpdate
  <2> QED
      BY <1>0, <2>3, <2>4, <2>5, <2>6 DEF RowsTyped
<1>8. CASE UpdateFlags
  <2>1. \A u \in DOMAIN deltas : deltas[u] \in SUBSET Flags
      BY DEF TInv, PassTyped
  <2>2. PICK u \in DOMAIN deltas :
            rows' = [i \in DOMAIN rows |->
                       IF i = Listed(u) THEN [rows[i] EXCEPT !.flags = deltas[u]] ELSE rows[i]]
      BY <1>8 DEF UpdateFlags
  <2>3. \A i \in DOMAIN rows : [rows[i] EXCEPT !.flags = deltas[u]] \in Rows
      BY <1>0, <1>2, <2>1 DEF RowsTyped
  <2> QED
      BY <1>0, <2>2, <2>3 DEF RowsTyped
<1>9. CASE Sync
    BY <1>1, <1>5, <1>7, <1>8, <1>9
    DEF Sync, SyncStart, ClearCursor, Select, Fetch, Changes, FindExisting, ListKnown, ListLocal, Prune,
        PutCursor, SyncFails, tables
<1>10. CASE Drain
    BY <1>1, <1>10 DEF Drain, Dispatch, DispatchFails, DispatchLost
<1>11. CASE Others
    BY <1>1, <1>11 DEF Others, Arrive, Rebuild, Expunge, Flip, Elsewhere, tables
<1>12. CASE UNCHANGED vars
    BY <1>1, <1>12 DEF vars, tables
<1> QED
    BY <1>6, <1>9, <1>10, <1>11, <1>12 DEF Next

LEMMA OpTypes ==
    ASSUME MInv, TInv, [Next]_vars
    PROVE  OpsTyped' /\ CmdTyped'
<1>0. OpsTyped /\ CmdTyped /\ ops = [n \in DOMAIN ops |-> ops[n]]
    BY DEF TInv, MInv, OpsNamed
<1>1. ASSUME UNCHANGED <<ops, nextOp>> PROVE OpsTyped'
    BY <1>0, <1>1 DEF OpsTyped
<1>2. ASSUME UNCHANGED cmd PROVE CmdTyped'
    BY <1>0, <1>2 DEF CmdTyped
<1>3. ASSUME NEW i \in DOMAIN rows, NEW op \in {"flags", "move", "delete"}, NEW x \in Flags \cup {None},
             NEW set \in BOOLEAN, NEW t \in Folders \cup {None}, Begin(Operation(op, i, x, set, t))
      PROVE  CmdTyped'
  <2> PICK o : o = Operation(op, i, x, set, t)
      OBVIOUS
  <2>1. i \in Ids /\ rows[i].name \in Nat \ {0} /\ rows[i].flags \in SUBSET Flags
      BY DEF TInv, RowsTyped, Rows
  <2>2. o \in Operations /\ o.id = i
      BY <2>1, LimitAssumption DEF Operation, Operations
  <2>3. cmd' = [stage |-> "write", todo |-> o, flags |-> rows[o.id].flags]
      BY <1>3 DEF Begin
  <2>4. cmd'.todo = o /\ cmd'.flags = rows[o.id].flags
      BY <2>3
  <2> QED
      BY <2>1, <2>2, <2>4 DEF CmdTyped
<1>4. ASSUME Written, cmd # None PROVE CmdTyped'
  <2>1. cmd'.todo = cmd.todo /\ cmd'.flags = cmd.flags
      BY <1>4 DEF Written, MInv, CmdNamed
  <2> QED
      BY <1>0, <1>4, <2>1 DEF CmdTyped
<1>5. ASSUME cmd' = None PROVE CmdTyped'
    BY <1>5 DEF CmdTyped
<1>6. CASE User
  <2>1. ASSUME NEW i \in DOMAIN rows, NEW x \in Flags, NEW set \in BOOLEAN, FlagRead(i, x, set)
        PROVE  OpsTyped' /\ CmdTyped'
      BY <1>1, <1>3, <2>1 DEF FlagRead, Begin, tables
  <2>2. ASSUME NEW i \in DOMAIN rows, NEW t \in Folders, MoveRead(i, t)
        PROVE  OpsTyped' /\ CmdTyped'
      BY <1>1, <1>3, <2>2 DEF MoveRead, Begin, tables
  <2>3. ASSUME NEW i \in DOMAIN rows, DeleteRead(i)
        PROVE  OpsTyped' /\ CmdTyped'
      BY <1>1, <1>3, <2>3 DEF DeleteRead, Begin, tables
  <2>4. CASE FlagWrite \/ MoveWrite \/ DeleteWrite
      BY <1>1, <1>4, <2>4 DEF FlagWrite, MoveWrite, DeleteWrite, Writes
  <2>5. CASE RowVanished \/ CommandFails
      BY <1>1, <1>5, <2>5 DEF RowVanished, CommandFails, tables
  <2>6. CASE Enqueue
    <3>1. cmd # None /\ cmd' = None /\ nextOp' = nextOp + 1
          /\ ops' = [n \in DOMAIN ops \cup {nextOp} |-> IF n = nextOp THEN cmd.todo ELSE ops[n]]
        BY <2>6 DEF Enqueue
    <3>2. cmd.todo \in Operations
        BY <1>0, <3>1 DEF CmdTyped
    <3>3. DOMAIN ops' \subseteq 1 .. nextOp' - 1 /\ nextOp' \in Nat \ {0}
        BY <1>0, <3>1 DEF OpsTyped
    <3>4. \A n \in DOMAIN ops' : ops'[n] \in Operations
        BY <1>0, <3>1, <3>2 DEF OpsTyped
    <3> QED
        BY <1>5, <3>1, <3>3, <3>4 DEF OpsTyped
  <2> QED
      BY <1>6, <2>1, <2>2, <2>3, <2>4, <2>5, <2>6 DEF User
<1>7. ASSUME NEW n \in DOMAIN ops, Dispatch(n) \/ DispatchFails(n) \/ DispatchLost(n)
      PROVE  OpsTyped' /\ CmdTyped'
  <2>1. nextOp' = nextOp /\ cmd' = cmd
      BY <1>7 DEF Dispatch, DispatchFails, DispatchLost
  <2>2. CASE ops' = Drop(ops, {n})
      BY <1>0, <1>2, <2>1, <2>2 DEF Drop, OpsTyped
  <2>3. CASE ~(ops[n].attempts + 1 >= MaxAttempts) /\ ops' = [ops EXCEPT ![n].attempts = @ + 1]
    <3> PICK o : o = ops[n]
        OBVIOUS
    <3>1. o \in Operations
        BY <1>0 DEF OpsTyped
    <3>2. o.attempts + 1 \in 0 .. MaxAttempts - 1
        BY <2>3, <3>1, LimitAssumption DEF Operations
    <3>3. [o EXCEPT !.attempts = o.attempts + 1] \in Operations
        BY <3>1, <3>2 DEF Operations
    <3>4. /\ DOMAIN ops' = DOMAIN ops
          /\ \A m \in DOMAIN ops : ops'[m] = IF m = n THEN [o EXCEPT !.attempts = o.attempts + 1] ELSE ops[m]
        BY <1>0, <2>3
    <3> QED
        BY <1>0, <1>2, <2>1, <3>3, <3>4 DEF OpsTyped
  <2> QED
      BY <1>1, <1>2, <1>7, <2>1, <2>2, <2>3 DEF Dispatch, DispatchFails, DispatchLost, Settled, Failed
<1>8. CASE Sync
    BY <1>1, <1>2, <1>8
    DEF Sync, SyncStart, ClearCursor, Select, Fetch, Changes, FindExisting, ApplyChunk, ListKnown, ListLocal,
        Prune, UpdateFlags, PutCursor, SyncFails, tables
<1>9. CASE Others
    BY <1>1, <1>2, <1>9 DEF Others, Arrive, Rebuild, Expunge, Flip, Elsewhere, tables
<1>10. CASE UNCHANGED vars
    BY <1>1, <1>2, <1>10 DEF vars, tables
<1> QED
    BY <1>6, <1>7, <1>8, <1>9, <1>10 DEF Next, Drain

LEMMA CursorTypes ==
    ASSUME MInv, TInv, [Next]_vars
    PROVE  CursorTyped'
<1>0. CursorTyped
    BY DEF TInv
<1>1. CASE UNCHANGED cursor
    BY <1>0, <1>1 DEF CursorTyped
<1>2. ASSUME NEW x \in Cursors \cup {None}, NEW f, cursor' = [cursor EXCEPT ![f] = x] PROVE CursorTyped'
    BY <1>0, <1>2 DEF CursorTyped
<1>3. CASE ClearCursor
    BY <1>2, <1>3 DEF ClearCursor
<1>4. CASE PutCursor
    BY <1>2, <1>4 DEF PutCursor, TInv, PassTyped
<1>5. CASE Sync
    BY <1>1, <1>3, <1>4, <1>5
    DEF Sync, SyncStart, Select, Fetch, Changes, FindExisting, ApplyChunk, ListKnown, ListLocal, Prune,
        UpdateFlags, SyncFails, tables
<1>6. CASE User
    BY <1>1, <1>6
    DEF User, FlagRead, MoveRead, DeleteRead, Begin, FlagWrite, MoveWrite, RowVanished, DeleteWrite, Enqueue,
        CommandFails, tables
<1>7. CASE Drain
    BY <1>1, <1>7 DEF Drain, Dispatch, DispatchFails, DispatchLost
<1>8. CASE Others
    BY <1>1, <1>8 DEF Others, Arrive, Rebuild, Expunge, Flip, Elsewhere, tables
<1>9. CASE UNCHANGED vars
    BY <1>1, <1>9 DEF vars, tables
<1> QED
    BY <1>5, <1>6, <1>7, <1>8, <1>9 DEF Next

LEMMA PassTypes ==
    ASSUME MInv, TInv, [Next]_vars
    PROVE  PassTyped'
<1>0. PassTyped /\ None \notin Folders
    BY NoneAssumption DEF TInv
<1>1. CASE UNCHANGED <<at, syncVars>>
    BY <1>0, <1>1 DEF PassTyped, syncVars
<1>2. ASSUME on \in Folders PROVE IdsAt(on) \subseteq Ids
  <2>1. UidsOf(server[on]) \subseteq Nat \ {0} /\ server[on].validity \in Nat \ {0}
    <3>1. Typed(server[on], nextName)
        BY <1>2 DEF TInv, ServerTyped
    <3>2. server[on].uidnext \in Nat /\ UidsOf(server[on]) \subseteq 1 .. server[on].uidnext - 1
        BY <3>1, PartsOf
    <3>3. \A u \in 1 .. server[on].uidnext - 1 : u \in Nat \ {0}
        BY <3>2
    <3> QED
        BY <3>1, <3>2, <3>3, PartsOf
  <2> QED
      BY <1>2, <2>1 DEF IdsAt, Id, Ids
<1>3. ASSUME NEW f \in Folders, SyncStart(f) PROVE PassTyped'
  <2>1. cursor[f] \in Cursors \cup {None}
      BY DEF TInv, CursorTyped
  <2>2. /\ at' = "select" /\ on' = f /\ prior' = cursor[f] /\ since' = cursor[f]
        /\ UNCHANGED <<fresh, headers, existing, doomed, deltas>>
      BY <1>3 DEF SyncStart
  <2>3. /\ at' \in Steps /\ on' \in Folders \cup {None} /\ (at' = "idle") = (on' = None)
        /\ at' \in {"idle", "select"}
      BY <1>0, <2>2 DEF Steps
  <2>4. {prior', since', fresh'} \subseteq Cursors \cup {None}
      BY <1>0, <2>1, <2>2 DEF PassTyped
  <2> QED
      BY <1>0, <2>2, <2>3, <2>4 DEF PassTyped
<1>4. CASE ClearCursor
    BY <1>0, <1>4 DEF ClearCursor, PassTyped
<1>5. CASE Select
  <2>1. StateOf(server[on]) \in Cursors
    <3>1. Typed(server[on], nextName)
        BY <1>0, <1>5 DEF Select, TInv, ServerTyped, PassTyped
    <3> QED
        BY <3>1, PartsOf DEF StateOf, Cursors
  <2> QED
      BY <1>0, <1>5, <2>1 DEF Select, PassTyped, Steps
<1>6. CASE Fetch
  <2>1. Typed(server[on], nextName) /\ nextName \in Nat
      BY <1>0, <1>6 DEF Fetch, TInv, ServerTyped, PassTyped
  <2>2. UidsFrom(server[on], ListFrom) \subseteq UidsOf(server[on])
      BY DEF UidsFrom
  <2>3. \A u \in UidsOf(server[on]) :
            /\ u \in Nat \ {0} /\ server[on].mail[u].name \in Nat \ {0}
            /\ server[on].mail[u].flags \in SUBSET Flags
    <3>1. server[on].uidnext \in Nat /\ UidsOf(server[on]) \subseteq 1 .. server[on].uidnext - 1
        BY <2>1, PartsOf
    <3>2. \A u \in UidsOf(server[on]) : server[on].mail[u] \in Msgs(nextName)
        BY <2>1, PartsOf
    <3>3. \A u \in 1 .. server[on].uidnext - 1 : u \in Nat \ {0}
        BY <3>1
    <3>4. \A r \in Msgs(nextName) : r.name \in Nat \ {0} /\ r.flags \in SUBSET Flags
        BY <2>1 DEF Msgs
    <3> QED
        BY <3>1, <3>2, <3>3, <3>4
  <2>4. headers' = [u \in UidsFrom(server[on], ListFrom) |-> server[on].mail[u]]
      BY <1>6 DEF Fetch
  <2> QED
      BY <1>0, <1>6, <2>2, <2>3, <2>4 DEF Fetch, PassTyped, Steps
<1>7. CASE Changes
  <2>1. Typed(server[on], nextName)
      BY <1>0, <1>7 DEF Changes, TInv, ServerTyped, PassTyped
  <2>2. \A u \in UidsOf(server[on]) : server[on].mail[u].flags \in SUBSET Flags
      BY <2>1, PartsOf DEF Msgs
  <2>3. \A u \in DOMAIN deltas' : deltas'[u] \in SUBSET Flags
    <3>1. CASE deltas' = [u \in {} |-> 0]
        BY <3>1
    <3>2. CASE deltas' = [u \in UidsChanged(server[on], fresh.uidnext - 1, since.modseq) |->
                            server[on].mail[u].flags]
        BY <2>2, <3>2 DEF UidsChanged
    <3> QED
        BY <1>7, <3>1, <3>2 DEF Changes
  <2>4. fresh' \in Cursors
    <3>1. fresh \in Cursors /\ (since # None => since \in Cursors)
        BY <1>0, <1>7 DEF Changes, PassTyped
    <3> QED
        BY <1>7, <3>1 DEF Changes, Cursors
  <2> QED
      BY <1>0, <1>7, <2>3, <2>4 DEF Changes, PassTyped, Steps
<1>8. CASE FindExisting
  <2>1. DOMAIN existing' \subseteq DOMAIN rows
      BY <1>8 DEF FindExisting
  <2> QED
      BY <1>0, <1>8, <2>1 DEF FindExisting, PassTyped, Steps, TInv, RowsTyped
<1>9. CASE ApplyChunk
    BY <1>0, <1>9 DEF ApplyChunk, PassTyped, Steps
<1>10. CASE ListKnown
    BY <1>0, <1>2, <1>10 DEF ListKnown, PassTyped, Steps
<1>11. CASE ListLocal
  <2>1. doomed' \subseteq DOMAIN rows
      BY <1>11 DEF ListLocal
  <2> QED
      BY <1>0, <1>11, <2>1 DEF ListLocal, PassTyped, Steps, TInv, RowsTyped
<1>12. CASE Prune
    BY <1>0, <1>12 DEF Prune, PassTyped, Steps
<1>13. CASE UpdateFlags
    BY <1>0, <1>13 DEF UpdateFlags, PassTyped, Steps, Drop
<1>14. ASSUME Forget PROVE PassTyped'
    BY <1>0, <1>14 DEF Forget, PassTyped, Steps
<1>15. CASE Sync
    BY <1>3, <1>4, <1>5, <1>6, <1>7, <1>8, <1>9, <1>10, <1>11, <1>12, <1>13, <1>14, <1>15
    DEF Sync, PutCursor, SyncFails
<1>16. CASE User
    BY <1>1, <1>16
    DEF User, FlagRead, MoveRead, DeleteRead, Begin, FlagWrite, MoveWrite, RowVanished, DeleteWrite, Enqueue,
        CommandFails
<1>17. CASE Drain
    BY <1>1, <1>17 DEF Drain, Dispatch, DispatchFails, DispatchLost
<1>18. CASE Others
    BY <1>1, <1>18 DEF Others, Arrive, Rebuild, Expunge, Flip, Elsewhere
<1>19. CASE UNCHANGED vars
    BY <1>1, <1>19 DEF vars
<1> QED
    BY <1>15, <1>16, <1>17, <1>18, <1>19 DEF Next

LEMMA TypesAtFirst ==
    ASSUME Init
    PROVE  TInv
<1>1. ASSUME NEW n \in Nat, NEW k, k = n + 1 PROVE Typed(MailboxOf(n), k)
  <2> DEFINE mail == [u \in 1 .. n |-> Message(u, {}, u + 1)]
  <2>1. MailboxOf(n) = [validity |-> 1, uidnext |-> n + 1, modseq |-> n + 1, mail |-> mail]
      BY DEF MailboxOf
  <2>2. \A u \in 1 .. n : Message(u, {}, u + 1) \in Msgs(k) /\ Message(u, {}, u + 1).mod <= n + 1
      BY <1>1 DEF Message, Msgs
  <2>3. mail \in [1 .. n -> Msgs(k)] /\ \A u \in 1 .. n : mail[u].mod <= n + 1
      BY <2>2
  <2>4. 1 .. n \subseteq 1 .. (n + 1) - 1 /\ n + 1 \in Nat \ {0} /\ 1 \in Nat \ {0}
      OBVIOUS
  <2> PICK m, A : m = MailboxOf(n) /\ A = 1 .. n
      OBVIOUS
  <2> HIDE DEF mail
  <2> QED
      BY <2>1, <2>3, <2>4, OfParts
<1>2. ServerTyped
  <2>1. Held \in Nat /\ Inbox \in Folders /\ nextName = Held + 1
        /\ \A f \in Folders : server[f] = IF f = Inbox THEN MailboxOf(Held) ELSE MailboxOf(0)
      BY HeldAssumption DEF Init
  <2>2. Typed(MailboxOf(Held), nextName) /\ Typed(MailboxOf(0), 1)
      BY <1>1, <2>1
  <2>3. Typed(MailboxOf(0), nextName)
      BY <2>1, <2>2, LaterNames
  <2> QED
      BY <2>1, <2>2, <2>3 DEF ServerTyped
<1>3. RowsTyped /\ OpsTyped /\ CmdTyped
    BY DEF Init, RowsTyped, OpsTyped, CmdTyped
<1>4. CursorTyped
    BY DEF Init, CursorTyped
<1>5. PassTyped
    BY DEF Init, PassTyped, Steps
<1> QED
    BY <1>2, <1>3, <1>4, <1>5 DEF TInv

(* The tables, the queue, the mailboxes and what a pass holds keep their   *)
(* shapes: ids with a UIDVALIDITY and a UID that an IMAP server can give,  *)
(* operations with an attempt left (record_failure), cursors such as a     *)
(* SELECT returns, UIDs below UIDNEXT, mod-sequences up to HIGHESTMODSEQ.  *)
THEOREM TypesHold == Spec => []TypeOK
<1>1. Init => MInv /\ TInv
    BY InitNamed, TypesAtFirst
<1>2. MInv /\ TInv /\ [Next]_vars => MInv' /\ TInv'
    BY NextNamed, ServerTypes, RowTypes, OpTypes, CursorTypes, PassTypes DEF TInv
<1>3. MInv /\ TInv => TypeOK
  <2> SUFFICES ASSUME MInv, TInv PROVE TypeOK
      OBVIOUS
  <2>1. DOMAIN server = Folders
      BY DEF MInv, World
  <2>2. \A f \in Folders :
           /\ server[f] \in [validity : Nat \ {0}, uidnext : Nat \ {0}, modseq : Nat \ {0},
                             mail : [UidsOf(server[f]) ->
                                       [name : 1 .. nextName - 1, flags : SUBSET Flags, mod : Nat]]]
           /\ UidsOf(server[f]) \subseteq 1 .. server[f].uidnext - 1
           /\ \A u \in UidsOf(server[f]) : server[f].mail[u].mod <= server[f].modseq
    <3> SUFFICES ASSUME NEW m, Typed(m, nextName)
                 PROVE  /\ m \in [validity : Nat \ {0}, uidnext : Nat \ {0}, modseq : Nat \ {0},
                                  mail : [UidsOf(m) -> Msgs(nextName)]]
                        /\ UidsOf(m) \subseteq 1 .. m.uidnext - 1
                        /\ \A u \in UidsOf(m) : m.mail[u].mod <= m.modseq
        BY DEF TInv, ServerTyped, Msgs
    <3> QED
        BY PartsOf
  <2>3. \A f \in Folders : cursor[f] \in Cursors \cup {None}
      BY DEF TInv, CursorTyped
  <2> QED
      BY <2>1, <2>2, <2>3 DEF TypeOK, TInv, RowsTyped, OpsTyped, PassTyped, Steps
<1> QED
    BY <1>1, <1>2, <1>3, PTL DEF Spec

-----------------------------------------------------------------------------
(* What a stored cursor promises, message by message.                      *)

Here(f, u) == Id(f, server[f].validity, u)
Kept(i, r, t) == i \in DOMAIN r \cup t
Unwished(i, w) == \A x \in Flags : <<i, x>> \notin DOMAIN w
Shown(i, flags, r, w) == i \in DOMAIN r /\ Unwished(i, w) => r[i].flags = flags

(* A cursor c that came from the mailbox m, now or earlier.                *)
Bounded(c, m) ==
    /\ c = [validity |-> c.validity, uidnext |-> c.uidnext, modseq |-> c.modseq]
    /\ c.validity \in Nat /\ c.uidnext \in Nat /\ c.modseq \in Nat
    /\ c.validity <= m.validity
    /\ c.validity = m.validity => c.uidnext <= m.uidnext /\ c.modseq <= m.modseq

(* An id that no message has, nor will have.                               *)
Gone(i, w) ==
    /\ i.folder \in Folders /\ i.validity \in Nat /\ i.uid \in Nat
    /\ i.validity <= w[i.folder].validity
    /\ i.validity = w[i.folder].validity =>
          i.uid < w[i.folder].uidnext /\ i.uid \notin UidsOf(w[i.folder])

Tables ==
    /\ cursor = [f \in Folders |-> cursor[f]] /\ low = [f \in Folders |-> low[f]]
    /\ \A f \in Folders : low[f] \in Nat /\ (cursor[f] # None => Bounded(cursor[f], server[f]))
    /\ \A i \in DOMAIN rows : rows[i].folder # i.folder => i \in taken

Promised ==
    \A f \in Folders : Valid(f) =>
       \A u \in UidsOf(server[f]) : low[f] <= u =>
          /\ u < cursor[f].uidnext => Kept(Here(f, u), rows, taken)
          /\ server[f].mail[u].mod <= cursor[f].modseq =>
                Shown(Here(f, u), server[f].mail[u].flags, rows, wish)

-----------------------------------------------------------------------------
(* What a pass has read, while UIDs still mean the same: of a message that *)
(* has not changed since the SELECT, everything read is still true.        *)

Same == fresh.validity = server[on].validity
Old(u) == server[on].mail[u].mod <= fresh.modseq
Reading == {"changes", "find", "apply"}
Marking == {"find", "apply", "known", "local", "prune", "flags"}
Placing == {"known", "local", "prune", "flags"}

Started == at # "idle" => on \in Folders /\ cursor[on] = since
Selected ==
    at \notin {"idle", "select"} =>
       /\ Bounded(fresh, server[on])
       /\ since # None => /\ since.validity = fresh.validity /\ since.uidnext <= fresh.uidnext
                          /\ since.modseq <= fresh.modseq
HeadersRead ==
    at \in Reading /\ Same =>
       \A u \in UidsOf(server[on]) :
          /\ ListFrom <= u /\ (u < fresh.uidnext \/ Old(u)) => u \in DOMAIN headers
          /\ u \in DOMAIN headers /\ Old(u) => headers[u].flags = server[on].mail[u].flags
DeltasRead ==
    at \in Marking /\ Same =>
       \A u \in UidsOf(server[on]) : Old(u) =>
          /\ u \in DOMAIN deltas => deltas[u] = server[on].mail[u].flags
          /\ since # None /\ server[on].mail[u].mod > since.modseq /\ u < fresh.uidnext =>
                \/ u \in DOMAIN deltas
                \/ Shown(Here(on, u), server[on].mail[u].flags, rows, wish)
ExistingRead ==
    at = "apply" =>
       \A u \in DOMAIN headers :
          /\ Listed(u) \in DOMAIN rows => Listed(u) \in DOMAIN existing
          /\ Listed(u) \in DOMAIN existing => Kept(Listed(u), rows, taken)
          /\ Shown(Listed(u), existing[Listed(u)].flags, rows, wish)
Applied ==
    at \in Placing /\ Same =>
       \A u \in UidsOf(server[on]) : ListFrom <= u =>
          /\ u < fresh.uidnext => Kept(Here(on, u), rows, taken)
          /\ Old(u) => Shown(Here(on, u), server[on].mail[u].flags, rows, wish)
KnownRead ==
    /\ at = "local" =>
          \A i \in DOMAIN rows : rows[i].folder = on => i \in doomed \cup taken \/ Gone(i, server)
    /\ at = "prune" => \A i \in doomed : i \in taken \/ Gone(i, server)

PassRead == Started /\ Selected /\ HeadersRead /\ DeltasRead /\ ExistingRead /\ Applied /\ KnownRead
CInv == Tables /\ Promised /\ PassRead

-----------------------------------------------------------------------------
LEMMA CursorsFollow == CInv => CursorsAreHonest
BY DEF CInv, Promised, CursorsAreHonest, NewMailIsNotSkipped, FlagsAreNotMissed, Here, Kept, Shown,
       Unwished

LEMMA InitHonest == Init => CInv
<1> SUFFICES ASSUME Init PROVE CInv
    OBVIOUS
<1>1. Tables
    BY DEF Init, Tables
<1>2. Promised
    BY DEF Init, Promised, Valid
<1>3. PassRead
    BY DEF Init, PassRead, Started, Selected, HeadersRead, DeltasRead, ExistingRead, Applied,
           KnownRead, Reading, Marking, Placing
<1> QED
    BY <1>1, <1>2, <1>3 DEF CInv

-----------------------------------------------------------------------------
(* Steps of the server.                                                    *)

(* Of a mailbox that was not rebuilt: what has an old UID was there, and   *)
(* what has an old mod-sequence was there unchanged.                       *)
LEMMA WasThere ==
    ASSUME NEW m, NEW n, Sane(m), Sane(n), Evolves(m, n), n.validity = m.validity
    PROVE  /\ m.uidnext <= n.uidnext /\ m.modseq <= n.modseq
           /\ \A u \in UidsOf(n) :
                 /\ u < m.uidnext => u \in UidsOf(m)
                 /\ n.mail[u].mod <= m.modseq => u \in UidsOf(m) /\ n.mail[u] = m.mail[u]
<1>1. m.validity \in Nat /\ m.uidnext \in Nat /\ m.modseq \in Nat /\ n.uidnext \in Nat
      /\ n.modseq \in Nat /\ \A u \in UidsOf(n) : n.mail[u].mod \in Nat
    BY DEF Sane
<1>2. n.validity # m.validity + 1
    BY <1>1
<1> QED
    BY <1>1, <1>2 DEF Evolves, Grows, Holds

LEMMA BoundedFollows ==
    ASSUME NEW m, NEW n, Sane(m), Sane(n), Evolves(m, n), NEW c, Bounded(c, m)
    PROVE  /\ Bounded(c, n)
           /\ c.validity = n.validity =>
                 /\ c.validity = m.validity /\ m.validity = n.validity
                 /\ \A u \in UidsOf(n) :
                       /\ u < c.uidnext => u \in UidsOf(m)
                       /\ n.mail[u].mod <= c.modseq => u \in UidsOf(m) /\ n.mail[u] = m.mail[u]
<1>1. /\ m.validity \in Nat /\ m.uidnext \in Nat /\ m.modseq \in Nat /\ n.uidnext \in Nat
      /\ n.modseq \in Nat /\ UidsOf(n) \subseteq Nat /\ \A u \in UidsOf(n) : n.mail[u].mod \in Nat
    BY DEF Sane
<1>2. n.validity = m.validity \/ n.validity = m.validity + 1
    BY DEF Evolves
<1>3. c.validity \in Nat /\ c.uidnext \in Nat /\ c.modseq \in Nat /\ c.validity <= m.validity
    BY DEF Bounded
<1>4. CASE n.validity = m.validity + 1
  <2>1. c.validity # n.validity /\ c.validity <= n.validity
      BY <1>1, <1>3, <1>4
  <2> QED
      BY <2>1 DEF Bounded
<1>5. CASE n.validity = m.validity
  <2>1. /\ m.uidnext <= n.uidnext /\ m.modseq <= n.modseq
        /\ \A u \in UidsOf(n) :
              /\ u < m.uidnext => u \in UidsOf(m)
              /\ n.mail[u].mod <= m.modseq => u \in UidsOf(m) /\ n.mail[u] = m.mail[u]
      BY <1>5, WasThere
  <2>2. c.validity = m.validity => c.uidnext <= m.uidnext /\ c.modseq <= m.modseq
      BY DEF Bounded
  <2>3. c.validity = m.validity => c.uidnext <= n.uidnext /\ c.modseq <= n.modseq
      BY <1>1, <1>3, <2>1, <2>2
  <2>4. Bounded(c, n)
      BY <1>5, <2>3 DEF Bounded
  <2>5. ASSUME c.validity = n.validity, NEW u \in UidsOf(n)
        PROVE  /\ u < c.uidnext => u \in UidsOf(m)
               /\ n.mail[u].mod <= c.modseq => u \in UidsOf(m) /\ n.mail[u] = m.mail[u]
    <3>1. u \in Nat /\ n.mail[u].mod \in Nat /\ c.uidnext <= m.uidnext /\ c.modseq <= m.modseq
        BY <1>1, <1>5, <2>2, <2>5
    <3>2. (u < c.uidnext => u < m.uidnext) /\ (n.mail[u].mod <= c.modseq => n.mail[u].mod <= m.modseq)
        BY <1>1, <1>3, <3>1
    <3> QED
        BY <2>1, <3>2
  <2> QED
      BY <1>5, <2>4, <2>5
<1> QED
    BY <1>2, <1>4, <1>5

LEMMA GoneFollows ==
    ASSUME NEW w, NEW v, World(w), Follows(w, v), NEW i, Gone(i, w)
    PROVE  Gone(i, v)
<1> DEFINE m == w[i.folder]
           n == v[i.folder]
<1>1. i.folder \in Folders /\ i.validity \in Nat /\ i.uid \in Nat /\ i.validity <= m.validity
    BY DEF Gone
<1>2. Sane(m) /\ Sane(n) /\ Evolves(m, n)
    BY <1>1 DEF World, Follows
<1>3. m.validity \in Nat /\ m.uidnext \in Nat /\ n.uidnext \in Nat
    BY <1>2 DEF Sane
<1>4. CASE n.validity = m.validity + 1
  <2>1. i.validity < n.validity
      BY <1>1, <1>3, <1>4
  <2> QED
      BY <1>1, <1>3, <1>4, <2>1 DEF Gone
<1>5. CASE n.validity = m.validity
  <2>1. m.uidnext <= n.uidnext /\ \A u \in UidsOf(n) : u < m.uidnext => u \in UidsOf(m)
      BY <1>2, <1>5, WasThere
  <2>2. i.validity = m.validity => i.uid < m.uidnext /\ i.uid \notin UidsOf(m)
      BY DEF Gone
  <2>3. i.validity = n.validity => i.uid < n.uidnext /\ i.uid \notin UidsOf(n)
      BY <1>1, <1>3, <1>5, <2>1, <2>2
  <2> QED
      BY <1>1, <1>5, <2>3 DEF Gone
<1> QED
    BY <1>2, <1>4, <1>5 DEF Evolves

LEMMA ServerKeeps ==
    ASSUME World(server), CInv, Follows(server, server'),
           UNCHANGED <<rows, cursor, at, syncVars, history>>
    PROVE  CInv'
<1>1. \A f \in Folders : Sane(server[f]) /\ Sane(server'[f]) /\ Evolves(server[f], server'[f])
    BY DEF World, Follows
<1>2. Tables'
    BY <1>1, BoundedFollows DEF CInv, Tables, history
<1>3. \A f, u : server'[f].validity = server[f].validity => Here(f, u)' = Here(f, u)
    BY DEF Here
<1>4. Promised'
  <2> SUFFICES ASSUME NEW f \in Folders, Valid(f)', NEW u \in UidsOf(server'[f]), low[f] <= u
               PROVE  /\ u < cursor[f].uidnext => Kept(Here(f, u)', rows, taken)
                      /\ server'[f].mail[u].mod <= cursor[f].modseq =>
                            Shown(Here(f, u)', server'[f].mail[u].flags, rows, wish)
      BY DEF Promised, Kept, Shown, Unwished, history, UidsOf
  <2>1. Bounded(cursor[f], server[f]) /\ cursor[f].validity = server'[f].validity
      BY DEF CInv, Tables, Valid
  <2>2. /\ cursor[f].validity = server[f].validity /\ server[f].validity = server'[f].validity
        /\ u < cursor[f].uidnext => u \in UidsOf(server[f])
        /\ server'[f].mail[u].mod <= cursor[f].modseq =>
              u \in UidsOf(server[f]) /\ server'[f].mail[u] = server[f].mail[u]
      BY <1>1, <2>1, BoundedFollows
  <2>3. Valid(f) /\ Here(f, u)' = Here(f, u)
      BY <1>3, <2>2 DEF Valid
  <2> QED
      BY <2>2, <2>3 DEF CInv, Promised
<1>5. Started' /\ ExistingRead'
    BY DEF CInv, PassRead, Started, ExistingRead, Listed, Kept, Shown, Unwished, syncVars, history
<1>6. CASE at \in {"idle", "select"}
    BY <1>2, <1>4, <1>5, <1>6 DEF CInv, PassRead, Selected, HeadersRead, DeltasRead, Applied,
         KnownRead, Reading, Marking, Placing
<1>7. CASE at \notin {"idle", "select"}
  <2>1. on \in Folders /\ Bounded(fresh, server[on])
      BY <1>7 DEF CInv, PassRead, Started, Selected
  <2>2. /\ Bounded(fresh, server'[on])
        /\ fresh.validity = server'[on].validity =>
              /\ fresh.validity = server[on].validity /\ server[on].validity = server'[on].validity
              /\ \A u \in UidsOf(server'[on]) :
                    /\ u < fresh.uidnext => u \in UidsOf(server[on])
                    /\ server'[on].mail[u].mod <= fresh.modseq =>
                          u \in UidsOf(server[on]) /\ server'[on].mail[u] = server[on].mail[u]
      BY <1>1, <2>1, BoundedFollows
  <2>3. Selected'
      BY <2>2 DEF CInv, PassRead, Selected, syncVars
  <2>4. /\ Same' => Same
        /\ Same' => \A u \in UidsOf(server'[on]) :
              /\ u < fresh.uidnext => u \in UidsOf(server[on])
              /\ Old(u)' => u \in UidsOf(server[on]) /\ Old(u)
                            /\ server'[on].mail[u] = server[on].mail[u]
              /\ Here(on, u)' = Here(on, u)
      BY <1>3, <2>2 DEF Same, Old, syncVars, Here
  <2>5. ListFrom' = ListFrom
      BY DEF ListFrom, syncVars
  <2>6. HeadersRead'
      BY <2>4, <2>5 DEF CInv, PassRead, HeadersRead, UidsOf, syncVars
  <2>7. DeltasRead'
      BY <2>4, <2>5 DEF CInv, PassRead, DeltasRead, UidsOf, syncVars, Shown, Unwished, history
  <2>8. Applied'
      BY <2>4, <2>5 DEF CInv, PassRead, Applied, UidsOf, syncVars, Kept, Shown, Unwished, history
  <2>9. \A i : Gone(i, server) => Gone(i, server')
      BY GoneFollows
  <2>10. KnownRead'
      BY <2>9 DEF CInv, PassRead, KnownRead, syncVars, history
  <2> QED
      BY <1>2, <1>4, <1>5, <2>3, <2>6, <2>7, <2>8, <2>10 DEF CInv, PassRead
<1> QED
    BY <1>6, <1>7

-----------------------------------------------------------------------------
(* Steps of the user: a row goes only when its id is taken, and changes    *)
(* only with a wish, or with its folder.                                   *)

UserMoves ==
    /\ DOMAIN rows' \subseteq DOMAIN rows /\ taken \subseteq taken' /\ DOMAIN wish \subseteq DOMAIN wish'
    /\ \A i \in DOMAIN rows : i \in DOMAIN rows' \cup taken'
    /\ \A i \in DOMAIN rows' : /\ Unwished(i, wish') => rows'[i].flags = rows[i].flags
                               /\ rows'[i].folder = rows[i].folder \/ i \in taken'

LEMMA UserKeeps ==
    ASSUME CInv, UserMoves, UNCHANGED <<server, cursor, low, at, syncVars>>
    PROVE  CInv'
<1>1. \A i : Kept(i, rows, taken) => Kept(i, rows', taken')
    BY DEF UserMoves, Kept
<1>2. \A i, x : Shown(i, x, rows, wish) => Shown(i, x, rows', wish')
    BY DEF UserMoves, Shown, Unwished
<1>3. Tables'
    BY DEF CInv, Tables, UserMoves
<1>4. \A f, u : Here(f, u)' = Here(f, u)
    BY DEF Here
<1>5. Promised'
    BY <1>1, <1>2, <1>4 DEF CInv, Promised, Valid, UidsOf
<1>6. /\ Same' = Same /\ ListFrom' = ListFrom /\ \A u : Old(u)' = Old(u) /\ Listed(u)' = Listed(u)
      /\ on' = on /\ fresh' = fresh /\ since' = since /\ headers' = headers /\ deltas' = deltas
      /\ existing' = existing /\ doomed' = doomed /\ at' = at
    BY DEF Same, ListFrom, Old, Listed, syncVars
<1>7. Started' /\ Selected' /\ HeadersRead'
    BY <1>6 DEF CInv, PassRead, Started, Selected, HeadersRead, UidsOf
<1>8. DeltasRead' /\ Applied'
    BY <1>1, <1>2, <1>4, <1>6 DEF CInv, PassRead, DeltasRead, Applied, UidsOf
<1>9. ExistingRead'
    BY <1>1, <1>2, <1>6 DEF CInv, PassRead, ExistingRead, UserMoves
<1>10. KnownRead'
    BY <1>6 DEF CInv, PassRead, KnownRead, UserMoves
<1> QED
    BY <1>3, <1>5, <1>7, <1>8, <1>9, <1>10 DEF CInv, PassRead

LEMMA UserHonest == MInv /\ CInv /\ User => CInv'
<1> SUFFICES ASSUME MInv, CInv, User PROVE CInv'
    OBVIOUS
<1>0. UNCHANGED <<server, cursor, low, at, syncVars>>
    BY DEF User, FlagRead, MoveRead, DeleteRead, Begin, FlagWrite, MoveWrite, RowVanished, DeleteWrite,
           Enqueue, CommandFails, Mishap, world, tables, history
<1>1. CASE FlagWrite
  <2>1. /\ cmd # None /\ cmd.todo.op = "flags" /\ cmd.todo.id \in DOMAIN rows
        /\ rows' = [rows EXCEPT ![cmd.todo.id].flags = Change(cmd.flags, cmd.todo.flag, cmd.todo.set)]
        /\ DOMAIN wish' = DOMAIN wish \cup {<<cmd.todo.id, cmd.todo.flag>>}
        /\ taken' = taken
      BY <1>1 DEF FlagWrite, Writes
  <2>2. cmd.todo.flag \in Flags
      BY <2>1 DEF MInv, CmdNamed, Queued, IsQueued, IsOperation
  <2>3. ~Unwished(cmd.todo.id, wish')
      BY <2>1, <2>2 DEF Unwished
  <2>4. /\ DOMAIN rows' = DOMAIN rows
        /\ \A i \in DOMAIN rows : i # cmd.todo.id => rows'[i] = rows[i]
      BY <2>1 DEF MInv, RowsNamed
  <2>5. rows'[cmd.todo.id].folder = rows[cmd.todo.id].folder
    <3>1. rows'[cmd.todo.id] =
             [rows[cmd.todo.id] EXCEPT !.flags = Change(cmd.flags, cmd.todo.flag, cmd.todo.set)]
        BY <2>1
    <3>2. IsRow(rows[cmd.todo.id])
        BY <2>1 DEF MInv, RowsNamed
    <3> QED
        BY <3>1, <3>2 DEF IsRow
  <2>6. UserMoves
      BY <2>1, <2>3, <2>4, <2>5 DEF UserMoves
  <2> QED
      BY <1>0, <2>6, UserKeeps
<1>2. CASE MoveWrite
  <2>1. /\ cmd.todo.id \in DOMAIN rows
        /\ rows' = [rows EXCEPT ![cmd.todo.id].folder = cmd.todo.target]
        /\ taken' = taken \cup {cmd.todo.id} /\ wish' = wish
      BY <1>2 DEF MoveWrite
  <2>2. /\ DOMAIN rows' = DOMAIN rows
        /\ \A i \in DOMAIN rows : i # cmd.todo.id => rows'[i] = rows[i]
      BY <2>1 DEF MInv, RowsNamed
  <2>3. rows'[cmd.todo.id].flags = rows[cmd.todo.id].flags
    <3>1. rows'[cmd.todo.id] = [rows[cmd.todo.id] EXCEPT !.folder = cmd.todo.target]
        BY <2>1
    <3>2. IsRow(rows[cmd.todo.id])
        BY <2>1 DEF MInv, RowsNamed
    <3> QED
        BY <3>1, <3>2 DEF IsRow
  <2>4. UserMoves
      BY <2>1, <2>2, <2>3 DEF UserMoves
  <2> QED
      BY <1>0, <2>4, UserKeeps
<1>3. CASE DeleteWrite
  <2>1. rows' = Drop(rows, {cmd.todo.id}) /\ taken' = taken \cup {cmd.todo.id} /\ wish' = wish
      BY <1>3 DEF DeleteWrite
  <2>2. /\ DOMAIN rows' = DOMAIN rows \ {cmd.todo.id}
        /\ \A i \in DOMAIN rows' : rows'[i] = rows[i]
      BY <2>1 DEF Drop
  <2>3. UserMoves
      BY <2>1, <2>2 DEF UserMoves
  <2> QED
      BY <1>0, <2>3, UserKeeps
<1>4. CASE UNCHANGED <<rows, taken, wish>>
  <2>1. UserMoves
      BY <1>4 DEF UserMoves
  <2> QED
      BY <1>0, <2>1, UserKeeps
<1>5. FlagWrite \/ MoveWrite \/ DeleteWrite \/ UNCHANGED <<rows, taken, wish>>
    BY DEF User, FlagRead, MoveRead, DeleteRead, Begin, RowVanished, Enqueue, CommandFails, tables,
           history
<1> QED
    BY <1>1, <1>2, <1>3, <1>4, <1>5

-----------------------------------------------------------------------------
(* Steps of a pass.                                                        *)

(* A pass writes no flags but current ones, where UIDs mean the same and   *)
(* the message has not changed since it was selected; and takes away none  *)
(* of the rows of messages that are there.                                 *)
PassWrites ==
    \A f \in Folders : \A u \in UidsOf(server[f]) :
       /\ Kept(Here(f, u), rows, taken) => Kept(Here(f, u), rows', taken)
       /\ (f = on /\ Same => Old(u)) =>
             \A x : x = server[f].mail[u].flags /\ Shown(Here(f, u), x, rows, wish) =>
                      Shown(Here(f, u), x, rows', wish)

LEMMA PassKeeps ==
    ASSUME World(server), CInv, at \notin {"idle", "select"},
           UNCHANGED <<server, cursor, low, taken, wish>>, PassWrites,
           \A i \in DOMAIN rows' : rows'[i].folder # i.folder => i \in taken
    PROVE  Tables' /\ Promised'
<1>1. Tables'
    BY DEF CInv, Tables
<1>2. \A f, u : Here(f, u)' = Here(f, u)
    BY DEF Here
<1>3. ASSUME NEW f \in Folders, Valid(f), NEW u \in UidsOf(server[f]), low[f] <= u,
             server[f].mail[u].mod <= cursor[f].modseq
      PROVE  f = on /\ Same => Old(u)
  <2> SUFFICES ASSUME f = on PROVE server[on].mail[u].mod <= fresh.modseq
      BY DEF Old
  <2>1. cursor[on] = since /\ since # None /\ since.modseq <= fresh.modseq
      BY <1>3 DEF CInv, PassRead, Started, Selected, Valid
  <2>2. since.modseq \in Nat /\ fresh.modseq \in Nat
      BY <1>3, <2>1 DEF CInv, PassRead, Selected, Tables, Bounded
  <2>3. server[on].mail[u].mod \in Nat
      BY <1>3 DEF World, Sane
  <2> QED
      BY <1>3, <2>1, <2>2, <2>3
<1>4. Promised'
  <2> SUFFICES ASSUME NEW f \in Folders, Valid(f), NEW u \in UidsOf(server[f]), low[f] <= u
               PROVE  /\ u < cursor[f].uidnext => Kept(Here(f, u), rows', taken)
                      /\ server[f].mail[u].mod <= cursor[f].modseq =>
                            Shown(Here(f, u), server[f].mail[u].flags, rows', wish)
      BY <1>2 DEF Promised, Valid, UidsOf
  <2> QED
      BY <1>3 DEF CInv, Promised, PassWrites
<1> QED
    BY <1>1, <1>4

LEMMA TablesStay ==
    ASSUME CInv, UNCHANGED <<server, rows, cursor, low, taken, wish>>
    PROVE  Tables' /\ Promised'
BY DEF CInv, Tables, Promised, Valid, Here, UidsOf

LEMMA Beginning ==
    ASSUME MInv, CInv, (\E f \in Folders : SyncStart(f)) \/ ClearCursor \/ Select
    PROVE  CInv'
<1>1. UNCHANGED <<server, rows, low, taken, wish>>
    BY DEF SyncStart, ClearCursor, Select, world, tables, history
<1>2. ASSUME NEW f \in Folders, SyncStart(f) PROVE CInv'
  <2>1. at' = "select" /\ on' = f /\ since' = cursor[f] /\ cursor' = cursor
      BY <1>2 DEF SyncStart, tables
  <2>2. Tables' /\ Promised'
      BY <1>1, <2>1, TablesStay
  <2>3. PassRead'
      BY <2>1 DEF PassRead, Started, Selected, HeadersRead, DeltasRead, ExistingRead, Applied,
                  KnownRead, Reading, Marking, Placing
  <2> QED
      BY <2>2, <2>3 DEF CInv
<1>3. CASE ClearCursor
  <2>1. /\ at = "select" /\ at' = "select" /\ on' = on /\ since' = None
        /\ cursor' = [cursor EXCEPT ![on] = None]
      BY <1>3 DEF ClearCursor
  <2>2. on \in Folders /\ cursor = [f \in Folders |-> cursor[f]]
      BY <2>1 DEF CInv, Tables, PassRead, Started
  <2>3. /\ cursor' = [f \in Folders |-> cursor'[f]] /\ cursor'[on] = None
        /\ \A f \in Folders : f # on => cursor'[f] = cursor[f]
      BY <2>1, <2>2
  <2>4. Tables' /\ Promised'
      BY <1>1, <2>3 DEF CInv, Tables, Promised, Valid, Here, UidsOf
  <2>5. PassRead'
      BY <2>1, <2>2, <2>3 DEF PassRead, Started, Selected, HeadersRead, DeltasRead, ExistingRead,
                              Applied, KnownRead, Reading, Marking, Placing
  <2> QED
      BY <2>4, <2>5 DEF CInv
<1>4. CASE Select
  <2>1. /\ at = "select" /\ at' = "fetch" /\ on' = on /\ since' = since /\ cursor' = cursor
        /\ fresh' = [validity |-> server[on].validity, uidnext |-> server[on].uidnext,
                     modseq |-> server[on].modseq]
        /\ since # None => since.validity = server[on].validity
      BY <1>4 DEF Select, StateOf, tables, Renewed
  <2>2. Tables' /\ Promised'
      BY <1>1, <2>1, TablesStay
  <2>3. on \in Folders /\ cursor[on] = since
      BY <2>1 DEF CInv, PassRead, Started
  <2>4. since # None => Bounded(since, server[on])
      BY <2>3 DEF CInv, Tables
  <2>5. /\ server[on].validity \in Nat /\ server[on].uidnext \in Nat /\ server[on].modseq \in Nat
      BY <2>3 DEF MInv, World, Sane
  <2>6. Bounded(fresh', server[on])
      BY <2>1, <2>5 DEF Bounded
  <2>7. Selected'
      BY <1>1, <2>1, <2>4, <2>6 DEF Selected, Bounded
  <2>8. PassRead'
      BY <2>1, <2>3, <2>7 DEF PassRead, Started, HeadersRead, DeltasRead, ExistingRead,
                              Applied, KnownRead, Reading, Marking, Placing
  <2> QED
      BY <2>2, <2>8 DEF CInv
<1> QED
    BY <1>2, <1>3, <1>4

(* ListFrom is the first UID listed in full.                               *)
LEMMA ListFromIsNat ==
    ASSUME CInv, at \notin {"idle", "select"}
    PROVE  ListFrom \in Nat
<1>1. CASE since # None
  <2>1. since.uidnext \in Nat
      BY <1>1 DEF CInv, PassRead, Started, Tables, Bounded
  <2> QED
      BY <1>1, <2>1 DEF ListFrom
<1>2. CASE since = None
  <2>1. fresh.uidnext \in Nat
      BY DEF CInv, PassRead, Selected, Bounded
  <2> QED
      BY <1>2, <2>1, LimitAssumption DEF ListFrom
<1> QED
    BY <1>1, <1>2

LEMMA Listing ==
    ASSUME MInv, CInv, Fetch \/ Changes
    PROVE  CInv'
<1>1. /\ UNCHANGED <<server, rows, cursor, low, taken, wish, on, since>>
      /\ at \in {"fetch", "changes"}
    BY DEF Fetch, Changes, world, tables, history
<1>2. Tables' /\ Promised'
    BY <1>1, TablesStay
<1>3. on \in Folders /\ cursor[on] = since /\ Bounded(fresh, server[on]) /\ ListFrom \in Nat
    BY <1>1, ListFromIsNat DEF CInv, PassRead, Started, Selected
<1>4. since # None => /\ since.validity = fresh.validity /\ since.uidnext <= fresh.uidnext
                      /\ since.modseq <= fresh.modseq /\ Bounded(since, server[on])
    BY <1>1, <1>3 DEF CInv, PassRead, Selected, Tables
<1>5. \A u \in UidsOf(server[on]) : u \in Nat /\ server[on].mail[u].mod \in Nat
    BY <1>3 DEF MInv, World, Sane
<1>6. CASE Fetch
  <2>1. /\ at' = "changes" /\ fresh' = fresh
        /\ headers' = [u \in UidsFrom(server[on], ListFrom) |-> server[on].mail[u]]
      BY <1>6 DEF Fetch
  <2>2. ListFrom' = ListFrom /\ Same' = Same /\ (\A u : Old(u)' = Old(u))
        /\ UidsOf(server[on])' = UidsOf(server[on])
      BY <1>1, <2>1 DEF ListFrom, Same, Old, UidsOf
  <2>3. /\ \A u \in UidsOf(server[on]) : ListFrom <= u => u \in DOMAIN headers'
        /\ \A u \in DOMAIN headers' : headers'[u] = server[on].mail[u]
      BY <1>3, <1>5, <2>1 DEF UidsFrom
  <2>4. HeadersRead'
      BY <1>1, <2>1, <2>2, <2>3 DEF HeadersRead
  <2>5. Started' /\ Selected'
      BY <1>1, <1>3, <1>4, <2>1 DEF Started, Selected
  <2> QED
      BY <1>2, <2>1, <2>4, <2>5 DEF CInv, PassRead, DeltasRead, ExistingRead, Applied, KnownRead,
                                    Reading, Marking, Placing
<1>7. CASE Changes
  <2>1. /\ at = "changes" /\ at' = "find" /\ headers' = headers
        /\ \/ /\ fresh' = fresh
              /\ deltas' = IF since = None THEN [u \in {} |-> 0]
                           ELSE [u \in UidsChanged(server[on], fresh.uidnext - 1, since.modseq) |->
                                   server[on].mail[u].flags]
           \/ /\ since # None /\ deltas' = [u \in {} |-> 0]
              /\ fresh' = [fresh EXCEPT !.modseq = since.modseq]
      BY <1>7 DEF Changes
  <2>2. /\ fresh'.validity = fresh.validity /\ fresh'.uidnext = fresh.uidnext
        /\ fresh'.modseq = fresh.modseq \/ (since # None /\ fresh'.modseq = since.modseq)
        /\ fresh' = [validity |-> fresh'.validity, uidnext |-> fresh'.uidnext,
                     modseq |-> fresh'.modseq]
      BY <1>3, <2>1 DEF Bounded
  <2>3. /\ fresh'.modseq \in Nat /\ fresh.modseq \in Nat /\ fresh'.modseq <= fresh.modseq
        /\ since # None => since.modseq \in Nat /\ since.modseq <= fresh'.modseq
      BY <1>3, <1>4, <2>2 DEF Bounded
  <2>4. Bounded(fresh', server[on])
    <3>1. server[on].modseq \in Nat
        BY <1>3 DEF MInv, World, Sane
    <3> QED
        BY <1>3, <2>2, <2>3, <3>1 DEF Bounded
  <2>5. Started' /\ Selected'
      BY <1>1, <1>3, <1>4, <2>1, <2>2, <2>3, <2>4 DEF Started, Selected
  <2>6. /\ ListFrom' = ListFrom /\ Same' = Same /\ UidsOf(server[on])' = UidsOf(server[on])
        /\ \A u \in UidsOf(server[on]) : Old(u)' => Old(u)
    <3>1. ListFrom' = ListFrom /\ Same' = Same /\ UidsOf(server[on])' = UidsOf(server[on])
        BY <1>1, <2>2 DEF ListFrom, Same, UidsOf
    <3>2. \A u \in UidsOf(server[on]) :
             server[on].mail[u].mod <= fresh'.modseq => server[on].mail[u].mod <= fresh.modseq
        BY <1>5, <2>3
    <3> QED
        BY <1>1, <3>1, <3>2 DEF Old
  <2>7. HeadersRead'
    <3>1. at \in Reading
        BY <2>1 DEF Reading
    <3> QED
        BY <1>1, <2>1, <2>2, <2>6, <3>1 DEF CInv, PassRead, HeadersRead
  <2>8. DeltasRead'
    <3> SUFFICES ASSUME NEW u \in UidsOf(server[on]), server[on].mail[u].mod <= fresh'.modseq
                 PROVE  /\ u \in DOMAIN deltas' => deltas'[u] = server[on].mail[u].flags
                        /\ since # None /\ server[on].mail[u].mod > since.modseq
                           /\ u < fresh.uidnext => u \in DOMAIN deltas'
        BY <1>1, <2>2, <2>6 DEF DeltasRead, Old
    <3>1. u \in DOMAIN deltas' => deltas'[u] = server[on].mail[u].flags
        BY <2>1
    <3>2. ASSUME since # None, server[on].mail[u].mod > since.modseq, u < fresh.uidnext
          PROVE  u \in DOMAIN deltas'
      <4>1. fresh'.modseq # since.modseq
          BY <1>5, <2>3, <3>2
      <4>2. CASE deltas' = [v \in UidsChanged(server[on], fresh.uidnext - 1, since.modseq) |->
                              server[on].mail[v].flags]
        <5>1. fresh.uidnext \in Nat /\ u \in Nat
            BY <1>3, <1>5 DEF Bounded
        <5>2. u <= fresh.uidnext - 1
            BY <3>2, <5>1
        <5> QED
            BY <3>2, <4>2, <5>2 DEF UidsChanged
      <4>3. CASE fresh' = [fresh EXCEPT !.modseq = since.modseq]
          BY <1>3, <4>1, <4>3 DEF Bounded
      <4> QED
          BY <2>1, <3>2, <4>2, <4>3
    <3> QED
        BY <3>1, <3>2
  <2> QED
      BY <1>2, <2>1, <2>5, <2>7, <2>8 DEF CInv, PassRead, ExistingRead, Applied, KnownRead,
                                          Reading, Marking, Placing
<1> QED
    BY <1>6, <1>7

(* What depends on the listing alone stays as long as that does.           *)
LEMMA PassStands ==
    ASSUME CInv, UNCHANGED <<server, cursor, on, since, fresh>>
    PROVE  /\ at # "idle" => Started'
           /\ at \notin {"idle", "select"} => Selected'
           /\ Same' = Same /\ ListFrom' = ListFrom
           /\ UidsOf(server[on])' = UidsOf(server[on])
           /\ \A u : Old(u)' = Old(u) /\ Listed(u)' = Listed(u) /\ Here(on, u)' = Here(on, u)
BY DEF CInv, PassRead, Started, Selected, Same, ListFrom, UidsOf, Old, Listed, Here

LEMMA Finding ==
    ASSUME MInv, CInv, FindExisting
    PROVE  CInv'
<1>1. /\ at = "find" /\ at' = "apply"
      /\ UNCHANGED <<server, rows, cursor, low, taken, wish, on, since, fresh, headers, deltas>>
      /\ existing' = [i \in {Listed(u) : u \in DOMAIN headers} \cap DOMAIN rows |-> rows[i]]
    BY DEF FindExisting, world, tables, history
<1>2. Tables' /\ Promised'
    BY <1>1, TablesStay
<1>3. /\ Started' /\ Selected' /\ Same' = Same /\ ListFrom' = ListFrom
      /\ UidsOf(server[on])' = UidsOf(server[on])
      /\ \A u : Old(u)' = Old(u) /\ Listed(u)' = Listed(u) /\ Here(on, u)' = Here(on, u)
    BY <1>1, PassStands
<1>4. HeadersRead' /\ DeltasRead'
    BY <1>1, <1>3 DEF CInv, PassRead, HeadersRead, DeltasRead, Reading, Marking
<1>5. ExistingRead'
    BY <1>1, <1>3 DEF ExistingRead, Kept, Shown
<1> QED
    BY <1>1, <1>2, <1>3, <1>4, <1>5 DEF CInv, PassRead, Applied, KnownRead, Placing

(* The chunk: rows that were not there are those of the listing, and so    *)
(* are those that differed from it; what was there otherwise stays.        *)
LEMMA Applying ==
    ASSUME MInv, CInv, ApplyChunk
    PROVE  CInv'
<1>1. /\ at = "apply" /\ at' \in {"known", "flags"}
      /\ UNCHANGED <<server, cursor, low, taken, wish, on, since, fresh, deltas>>
      /\ rows' = [i \in DOMAIN rows \cup ToInsert |->
                    IF i \in DOMAIN rows /\ i \notin ToUpdate THEN rows[i]
                    ELSE Row(on, headers[i.uid])]
    BY DEF ApplyChunk, world, history
<1>2. /\ on \in Folders /\ World(server)
      /\ DOMAIN existing \subseteq {Listed(u) : u \in DOMAIN headers}
    BY <1>1 DEF CInv, PassRead, Started, MInv, PassNamed
<1>3. /\ Started' /\ Selected' /\ Same' = Same /\ ListFrom' = ListFrom
      /\ UidsOf(server[on])' = UidsOf(server[on])
      /\ \A u : Old(u)' = Old(u) /\ Listed(u)' = Listed(u) /\ Here(on, u)' = Here(on, u)
    BY <1>1, PassStands
<1>4. \A u : Listed(u).uid = u /\ Listed(u).folder = on /\ Listed(u).validity = fresh.validity
    BY DEF Listed, Id
<1>5. \A i \in DOMAIN rows' :
         \/ i \in DOMAIN rows /\ i \notin ToUpdate /\ rows'[i] = rows[i]
         \/ \E u \in DOMAIN headers : /\ i = Listed(u) /\ rows'[i].flags = headers[u].flags
                                      /\ rows'[i].folder = on
    BY <1>1, <1>2, <1>4 DEF ToInsert, ToUpdate, Row
<1>6. \A i \in DOMAIN rows' : rows'[i].folder # i.folder => i \in taken
    BY <1>4, <1>5 DEF CInv, Tables
<1>7. \A f \in Folders : \A u : \A v : Here(f, u) = Listed(v) => f = on /\ u = v /\ Same
    BY <1>4 DEF Here, Id, Same
<1>8. Same => \A u \in UidsOf(server[on]) :
                 /\ ListFrom <= u /\ (u < fresh.uidnext \/ Old(u)) => u \in DOMAIN headers
                 /\ u \in DOMAIN headers /\ Old(u) => headers[u].flags = server[on].mail[u].flags
    BY <1>1 DEF CInv, PassRead, HeadersRead, Reading
<1>9. PassWrites
  <2> SUFFICES ASSUME NEW f \in Folders, NEW u \in UidsOf(server[f])
               PROVE  /\ Kept(Here(f, u), rows, taken) => Kept(Here(f, u), rows', taken)
                      /\ (f = on /\ Same => Old(u)) =>
                            \A x : x = server[f].mail[u].flags /\ Shown(Here(f, u), x, rows, wish) =>
                                     Shown(Here(f, u), x, rows', wish)
      BY DEF PassWrites
  <2>1. Kept(Here(f, u), rows, taken) => Kept(Here(f, u), rows', taken)
      BY <1>1 DEF Kept
  <2>2. ASSUME f = on /\ Same => Old(u), Shown(Here(f, u), server[f].mail[u].flags, rows, wish),
               Here(f, u) \in DOMAIN rows', Unwished(Here(f, u), wish)
        PROVE  rows'[Here(f, u)].flags = server[f].mail[u].flags
    <3>1. CASE Here(f, u) \in DOMAIN rows /\ rows'[Here(f, u)] = rows[Here(f, u)]
        BY <2>2, <3>1 DEF Shown
    <3>2. ASSUME NEW v \in DOMAIN headers, Here(f, u) = Listed(v),
                 rows'[Here(f, u)].flags = headers[v].flags
          PROVE  rows'[Here(f, u)].flags = server[f].mail[u].flags
        BY <1>7, <1>8, <2>2, <3>2
    <3> QED
        BY <1>5, <2>2, <3>1, <3>2
  <2> QED
      BY <2>1, <2>2 DEF Shown
<1>10. Tables' /\ Promised'
    BY <1>1, <1>2, <1>6, <1>9, PassKeeps
<1>11. ASSUME Same, NEW u \in UidsOf(server[on]), ListFrom <= u
       PROVE  /\ u < fresh.uidnext => Kept(Here(on, u), rows', taken)
              /\ Old(u) => Shown(Here(on, u), server[on].mail[u].flags, rows', wish)
  <2>1. Here(on, u) = Listed(u)
      BY <1>11 DEF Here, Listed, Same
  <2>2. u < fresh.uidnext \/ Old(u) => u \in DOMAIN headers
      BY <1>8, <1>11
  <2>3. u \in DOMAIN headers =>
           /\ Listed(u) \in DOMAIN rows => Listed(u) \in DOMAIN existing
           /\ Listed(u) \in DOMAIN existing => Kept(Listed(u), rows, taken)
           /\ Shown(Listed(u), existing[Listed(u)].flags, rows, wish)
      BY <1>1 DEF CInv, PassRead, ExistingRead
  <2>4. u \in DOMAIN headers => Kept(Listed(u), rows', taken)
      BY <1>1, <2>3 DEF Kept, ToInsert
  <2>5. ASSUME u \in DOMAIN headers, Old(u), Listed(u) \in DOMAIN rows', Unwished(Listed(u), wish)
        PROVE  rows'[Listed(u)].flags = server[on].mail[u].flags
    <3>1. headers[u].flags = server[on].mail[u].flags
        BY <1>8, <1>11, <2>5
    <3>2. CASE Listed(u) \in DOMAIN rows /\ Listed(u) \notin ToUpdate
      <4>1. rows'[Listed(u)] = rows[Listed(u)] /\ Listed(u) \in DOMAIN existing
            /\ rows[Listed(u)].flags = existing[Listed(u)].flags
          BY <1>1, <2>3, <2>5, <3>2 DEF Shown
      <4>2. existing[Listed(u)].flags = headers[u].flags
          BY <1>4, <3>2, <4>1 DEF ToUpdate, Row
      <4> QED
          BY <3>1, <4>1, <4>2
    <3>3. CASE ~(Listed(u) \in DOMAIN rows /\ Listed(u) \notin ToUpdate)
        BY <1>1, <1>4, <2>5, <3>1, <3>3 DEF Row
    <3> QED
        BY <3>2, <3>3
  <2> QED
      BY <2>1, <2>2, <2>4, <2>5 DEF Shown
<1>12. Applied'
    BY <1>1, <1>3, <1>11 DEF Applied
<1>13. DeltasRead'
    BY <1>1, <1>2, <1>3, <1>9 DEF CInv, PassRead, DeltasRead, Marking, PassWrites
<1> QED
    BY <1>1, <1>3, <1>10, <1>12, <1>13 DEF CInv, PassRead, HeadersRead, ExistingRead, KnownRead, Reading

LEMMA IdsNow == ASSUME MInv, on \in Folders
                PROVE  \A i \in DOMAIN rows : i.folder = on => i \in IdsAt(on) \/ Gone(i, server)
<1> SUFFICES ASSUME NEW i \in DOMAIN rows, i.folder = on, ~Gone(i, server) PROVE i \in IdsAt(on)
    OBVIOUS
<1>1. Names(i, rows[i].name)
    BY DEF MInv, RowsNamed
<1>2. i.validity = server[on].validity /\ i.uid \in UidsOf(server[on])
    BY <1>1 DEF Names, Gone
<1>3. i = [folder |-> i.folder, validity |-> i.validity, uid |-> i.uid]
    BY <1>1 DEF Names
<1>4. i = Id(on, server[on].validity, i.uid)
    BY <1>2, <1>3 DEF Id
<1> QED
    BY <1>2, <1>4 DEF IdsAt

LEMMA Reconciling ==
    ASSUME MInv, CInv, ListKnown \/ ListLocal \/ Prune
    PROVE  CInv'
<1>1. /\ UNCHANGED <<server, cursor, low, taken, wish, on, since, fresh, deltas>>
      /\ at \in {"known", "local", "prune"} /\ at' \in {"local", "prune", "flags"}
    BY DEF ListKnown, ListLocal, Prune, world, tables, history
<1>2. on \in Folders /\ World(server) /\ \A i \in DOMAIN rows : rows[i].folder # i.folder => i \in taken
    BY <1>1 DEF CInv, PassRead, Started, Tables, MInv
<1>3. /\ Started' /\ Selected' /\ Same' = Same /\ ListFrom' = ListFrom
      /\ UidsOf(server[on])' = UidsOf(server[on])
      /\ \A u : Old(u)' = Old(u) /\ Listed(u)' = Listed(u) /\ Here(on, u)' = Here(on, u)
    BY <1>1, PassStands
<1>4. ASSUME UNCHANGED rows, KnownRead'
      PROVE  CInv'
  <2>1. Tables' /\ Promised'
      BY <1>1, <1>4, TablesStay
  <2>2. DeltasRead' /\ Applied'
      BY <1>1, <1>3, <1>4 DEF CInv, PassRead, DeltasRead, Applied, Marking, Placing
  <2> QED
      BY <1>1, <1>3, <1>4, <2>1, <2>2 DEF CInv, PassRead, HeadersRead, ExistingRead, Reading
<1>5. ASSUME NEW i \in doomed, at = "prune", at' = "prune", rows' = Drop(rows, {i}),
             doomed' = doomed \ {i}
      PROVE  CInv'
  <2>1. DOMAIN rows' = DOMAIN rows \ {i} /\ \A j \in DOMAIN rows' : rows'[j] = rows[j]
      BY <1>5 DEF Drop
  <2>2. i \in taken \/ Gone(i, server)
      BY <1>5 DEF CInv, PassRead, KnownRead
  <2>3. \A f \in Folders : \A u \in UidsOf(server[f]) :
           Kept(Here(f, u), rows, taken) => Kept(Here(f, u), rows', taken)
      BY <2>1, <2>2 DEF Kept, Gone, Here, Id
  <2>4. \A j, x : Shown(j, x, rows, wish) => Shown(j, x, rows', wish)
      BY <2>1 DEF Shown
  <2>5. PassWrites
      BY <2>3, <2>4 DEF PassWrites
  <2>6. Tables' /\ Promised'
      BY <1>1, <1>2, <2>1, <2>5, PassKeeps
  <2>7. DeltasRead' /\ Applied'
      BY <1>1, <1>2, <1>3, <2>3, <2>4 DEF CInv, PassRead, DeltasRead, Applied, Marking, Placing
  <2>8. KnownRead'
      BY <1>1, <1>5 DEF CInv, PassRead, KnownRead
  <2> QED
      BY <1>3, <1>5, <2>6, <2>7, <2>8 DEF CInv, PassRead, HeadersRead, ExistingRead, Reading
<1>6. CASE at' = "flags" /\ UNCHANGED rows
    BY <1>4, <1>6 DEF KnownRead
<1>7. CASE at' = "local" /\ doomed' = IdsAt(on) /\ UNCHANGED rows
  <2>1. \A i \in DOMAIN rows : rows[i].folder = on => i \in doomed' \cup taken \/ Gone(i, server)
      BY <1>2, <1>7, IdsNow
  <2>2. KnownRead'
      BY <1>1, <1>7, <2>1 DEF KnownRead
  <2> QED
      BY <1>4, <1>7, <2>2
<1>8. CASE ListLocal
  <2>1. /\ at = "local" /\ at' = "prune" /\ UNCHANGED rows
        /\ doomed' = {i \in DOMAIN rows : rows[i].folder = on} \ doomed
      BY <1>8 DEF ListLocal, tables
  <2>2. KnownRead'
      BY <1>1, <2>1 DEF CInv, PassRead, KnownRead
  <2> QED
      BY <1>4, <2>1, <2>2
<1> QED
    BY <1>5, <1>6, <1>7, <1>8 DEF ListKnown, Prune, tables

LEMMA FlagPass ==
    ASSUME MInv, CInv, UpdateFlags
    PROVE  CInv'
<1>1. /\ UNCHANGED <<server, cursor, low, taken, wish, on, since, fresh>>
      /\ at = "flags" /\ at' = "flags"
    BY DEF UpdateFlags, world, history
<1>2. PICK v \in DOMAIN deltas :
         /\ rows' = [i \in DOMAIN rows |->
                       IF i = Listed(v) THEN [rows[i] EXCEPT !.flags = deltas[v]] ELSE rows[i]]
         /\ deltas' = Drop(deltas, {v})
    BY DEF UpdateFlags
<1>3. on \in Folders /\ World(server)
    BY <1>1 DEF CInv, PassRead, Started, MInv
<1>4. /\ Started' /\ Selected' /\ Same' = Same /\ ListFrom' = ListFrom
      /\ UidsOf(server[on])' = UidsOf(server[on])
      /\ \A u : Old(u)' = Old(u) /\ Listed(u)' = Listed(u) /\ Here(on, u)' = Here(on, u)
    BY <1>1, PassStands
<1>5. /\ DOMAIN rows' = DOMAIN rows
      /\ \A i \in DOMAIN rows : /\ i # Listed(v) => rows'[i] = rows[i]
                                /\ i = Listed(v) => rows'[i].flags = deltas[v]
                                /\ rows'[i].folder = rows[i].folder
  <2>1. \A i \in DOMAIN rows : IsRow(rows[i])
      BY DEF MInv, RowsNamed
  <2>2. \A i \in DOMAIN rows : /\ [rows[i] EXCEPT !.flags = deltas[v]].flags = deltas[v]
                               /\ [rows[i] EXCEPT !.flags = deltas[v]].folder = rows[i].folder
      BY <2>1 DEF IsRow
  <2> QED
      BY <1>2, <2>2
<1>6. /\ DOMAIN deltas' = DOMAIN deltas \ {v}
      /\ \A u \in DOMAIN deltas' : deltas'[u] = deltas[u]
    BY <1>2 DEF Drop
<1>7. Same => \A u \in UidsOf(server[on]) : Old(u) /\ u \in DOMAIN deltas =>
                 deltas[u] = server[on].mail[u].flags
    BY <1>1 DEF CInv, PassRead, DeltasRead, Marking
<1>8. \A f \in Folders : \A u : Here(f, u) = Listed(v) => f = on /\ u = v /\ Same
    BY DEF Here, Listed, Id, Same
<1>9. PassWrites
  <2>1. \A i : Kept(i, rows, taken) => Kept(i, rows', taken)
      BY <1>5 DEF Kept
  <2>2. ASSUME NEW f \in Folders, NEW u \in UidsOf(server[f]), f = on /\ Same => Old(u),
               Shown(Here(f, u), server[f].mail[u].flags, rows, wish)
        PROVE  Shown(Here(f, u), server[f].mail[u].flags, rows', wish)
      BY <1>2, <1>5, <1>7, <1>8, <2>2 DEF Shown
  <2> QED
      BY <2>1, <2>2 DEF PassWrites
<1>10. Tables' /\ Promised'
    BY <1>1, <1>3, <1>5, <1>9, PassKeeps DEF CInv, Tables
<1>11. Applied'
    BY <1>1, <1>3, <1>4, <1>9 DEF CInv, PassRead, Applied, Placing, PassWrites
<1>12. DeltasRead'
  <2> SUFFICES ASSUME Same, NEW u \in UidsOf(server[on]), Old(u)
               PROVE  /\ u \in DOMAIN deltas' => deltas'[u] = server[on].mail[u].flags
                      /\ since # None /\ server[on].mail[u].mod > since.modseq
                         /\ u < fresh.uidnext =>
                            \/ u \in DOMAIN deltas'
                            \/ Shown(Here(on, u), server[on].mail[u].flags, rows', wish)
      BY <1>1, <1>4 DEF DeltasRead
  <2>1. u \in DOMAIN deltas' => deltas'[u] = server[on].mail[u].flags
      BY <1>6, <1>7
  <2>2. CASE u = v
    <3>1. Here(on, u) = Listed(v)
        BY <2>2 DEF Here, Listed, Same
    <3>2. Shown(Here(on, u), server[on].mail[u].flags, rows', wish)
        BY <1>2, <1>5, <1>7, <2>2, <3>1 DEF Shown
    <3> QED
        BY <2>1, <3>2
  <2>3. CASE u # v
    <3>1. \/ ~(since # None /\ server[on].mail[u].mod > since.modseq /\ u < fresh.uidnext)
          \/ u \in DOMAIN deltas
          \/ Shown(Here(on, u), server[on].mail[u].flags, rows, wish)
        BY <1>1 DEF CInv, PassRead, DeltasRead, Marking
    <3>2. Shown(Here(on, u), server[on].mail[u].flags, rows, wish) =>
             Shown(Here(on, u), server[on].mail[u].flags, rows', wish)
        BY <1>3, <1>9 DEF PassWrites
    <3> QED
        BY <1>6, <2>1, <2>3, <3>1, <3>2
  <2> QED
      BY <2>2, <2>3
<1> QED
    BY <1>1, <1>4, <1>10, <1>11, <1>12 DEF CInv, PassRead, HeadersRead, ExistingRead, KnownRead, Reading

(* The new cursor: what the old one promised, what was listed in full, and *)
(* what was marked since.                                                  *)
LEMMA Ending ==
    ASSUME MInv, CInv, PutCursor \/ SyncFails
    PROVE  CInv'
<1>1. /\ at' = "idle" /\ UNCHANGED <<server, rows, taken, wish>>
    BY DEF PutCursor, SyncFails, Forget, world, tables, history
<1>2. PassRead'
    BY <1>1 DEF PassRead, Started, Selected, HeadersRead, DeltasRead, ExistingRead, Applied,
                KnownRead, Reading, Marking, Placing
<1>3. CASE SyncFails
  <2>1. cursor' = cursor /\ low' = low
      BY <1>3 DEF SyncFails, tables, history
  <2> QED
      BY <1>1, <1>2, <2>1, TablesStay DEF CInv
<1>4. CASE PutCursor
  <2>1. /\ at = "flags" /\ DOMAIN deltas = {} /\ cursor' = [cursor EXCEPT ![on] = fresh]
        /\ low' = IF since = None THEN [low EXCEPT ![on] = ListFrom] ELSE low
      BY <1>4 DEF PutCursor
  <2>2. /\ on \in Folders /\ cursor[on] = since /\ Bounded(fresh, server[on]) /\ ListFrom \in Nat
        /\ World(server)
      BY <2>1, ListFromIsNat DEF CInv, PassRead, Started, Selected, MInv
  <2>3. /\ cursor' = [f \in Folders |-> IF f = on THEN fresh ELSE cursor[f]]
        /\ low' = [f \in Folders |-> IF f = on /\ since = None THEN ListFrom ELSE low[f]]
      BY <2>1, <2>2 DEF CInv, Tables
  <2>4. Tables'
      BY <1>1, <2>2, <2>3 DEF CInv, Tables
  <2>5. ASSUME Same, NEW u \in UidsOf(server[on]), low'[on] <= u
        PROVE  /\ u < fresh.uidnext => Kept(Here(on, u), rows, taken)
               /\ Old(u) => Shown(Here(on, u), server[on].mail[u].flags, rows, wish)
    <3>1. ListFrom <= u => /\ u < fresh.uidnext => Kept(Here(on, u), rows, taken)
                           /\ Old(u) => Shown(Here(on, u), server[on].mail[u].flags, rows, wish)
        BY <2>1, <2>5 DEF CInv, PassRead, Applied, Placing
    <3>2. CASE ListFrom <= u
        BY <3>1, <3>2
    <3>3. CASE ~(ListFrom <= u)
      <4>1. since # None /\ low[on] <= u
          BY <2>2, <2>3, <2>5, <3>3
      <4>2. /\ since.validity = fresh.validity /\ Bounded(since, server[on])
            /\ since.modseq <= fresh.modseq
          BY <2>1, <2>2, <4>1 DEF CInv, PassRead, Selected, Tables
      <4>3. Valid(on)
          BY <2>2, <2>5, <4>1, <4>2 DEF Valid, Same
      <4>4. /\ u < since.uidnext => Kept(Here(on, u), rows, taken)
            /\ server[on].mail[u].mod <= since.modseq =>
                  Shown(Here(on, u), server[on].mail[u].flags, rows, wish)
          BY <2>2, <4>1, <4>3 DEF CInv, Promised
      <4>5. since.uidnext \in Nat /\ since.modseq \in Nat /\ u \in Nat
            /\ server[on].mail[u].mod \in Nat /\ fresh.uidnext \in Nat
          BY <2>2, <4>2 DEF Bounded, World, Sane
      <4>6. u < since.uidnext /\ since.uidnext <= fresh.uidnext
          BY <2>1, <3>3, <4>1, <4>5 DEF ListFrom, CInv, PassRead, Selected
      <4>7. Old(u) /\ server[on].mail[u].mod > since.modseq =>
               Shown(Here(on, u), server[on].mail[u].flags, rows, wish)
        <5>1. u < fresh.uidnext
            BY <4>5, <4>6
        <5> QED
            BY <2>1, <2>5, <4>1, <5>1 DEF CInv, PassRead, DeltasRead, Marking
      <4> QED
          BY <4>4, <4>5, <4>6, <4>7
    <3> QED
        BY <3>2, <3>3
  <2>6. Promised'
    <3>1. \A f, u : Here(f, u)' = Here(f, u)
        BY <1>1 DEF Here
    <3>2. ASSUME NEW f \in Folders, f # on, Valid(f)', NEW u \in UidsOf(server[f]), low'[f] <= u
          PROVE  /\ u < cursor'[f].uidnext => Kept(Here(f, u), rows, taken)
                 /\ server[f].mail[u].mod <= cursor'[f].modseq =>
                       Shown(Here(f, u), server[f].mail[u].flags, rows, wish)
      <4>1. cursor'[f] = cursor[f] /\ low'[f] = low[f]
          BY <2>3, <3>2
      <4> QED
          BY <1>1, <3>2, <4>1 DEF CInv, Promised, Valid
    <3>3. cursor'[on] = fresh /\ server'[on] = server[on]
        BY <1>1, <2>2, <2>3
    <3> SUFFICES ASSUME NEW f \in Folders, Valid(f)', NEW u \in UidsOf(server[f]), low'[f] <= u
                 PROVE  /\ u < cursor'[f].uidnext => Kept(Here(f, u), rows, taken)
                        /\ server[f].mail[u].mod <= cursor'[f].modseq =>
                              Shown(Here(f, u), server[f].mail[u].flags, rows, wish)
        BY <1>1, <3>1 DEF Promised, UidsOf
    <3>4. CASE f = on
      <4>1. Same
          BY <3>3, <3>4 DEF Valid, Same
      <4> QED
          BY <2>5, <3>3, <3>4, <4>1 DEF Old
    <3> QED
        BY <3>2, <3>4
  <2> QED
      BY <1>2, <2>4, <2>6 DEF CInv
<1> QED
    BY <1>3, <1>4

LEMMA NextHonest == MInv /\ CInv /\ [Next]_vars => CInv'
<1> SUFFICES ASSUME MInv, CInv, [Next]_vars PROVE CInv'
    OBVIOUS
<1>1. CASE Sync
    BY <1>1, Beginning, Listing, Finding, Applying, Reconciling, FlagPass, Ending DEF Sync
<1>2. CASE Drain \/ Others
  <2>1. UNCHANGED <<rows, cursor, at, syncVars, history>>
      BY <1>2 DEF Drain, Dispatch, DispatchFails, DispatchLost, Others, Arrive, Rebuild, Expunge,
                  Flip, Elsewhere, tables
  <2>2. Follows(server, server')
      BY <1>2, DrainFollows, OthersFollow DEF Drain
  <2> QED
      BY <2>1, <2>2, ServerKeeps DEF MInv
<1>3. CASE UNCHANGED vars
  <2>1. UNCHANGED <<server, rows, cursor, low, taken, wish, at, syncVars>>
      BY <1>3 DEF vars, world, tables, history
  <2>2. UserMoves
      BY <2>1 DEF UserMoves
  <2> QED
      BY <2>1, <2>2, UserKeeps
<1> QED
    BY <1>1, <1>2, <1>3, UserHonest DEF Next

(* What a stored cursor says of a folder is true of the table, whatever    *)
(* happens between the exchanges of a pass (list_messages, apply_chunk,    *)
(* reconciliation, the flag pass and put in crates/sync/src/lib.rs).       *)
THEOREM CursorsHold == Spec => []CInv
<1>1. Init => CInv
    BY InitHonest
<1>2. MInv /\ CInv /\ [Next]_vars => CInv'
    BY NextHonest
<1> QED
    BY <1>1, <1>2, IdsNameTheirMessage, PTL DEF Spec

(* No message below a stored UIDNEXT is without a row unless the user took *)
(* it away, and none that has not changed since a stored mod-sequence is   *)
(* shown with other flags than the server's unless the user wished so.     *)
THEOREM CursorsStayHonest == Spec => []CursorsAreHonest
<1>1. CInv => CursorsAreHonest
    BY CursorsFollow
<1> QED
    BY <1>1, CursorsHold, PTL
=============================================================================
