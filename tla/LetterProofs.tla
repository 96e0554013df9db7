---------------------------- MODULE LetterProofs ----------------------------
(***************************************************************************)
(* A letter, from the field that names its recipients to the server that   *)
(* takes it: for any contacts, queries, conversations, drafts, accounts    *)
(* and bounds.                                                             *)
(***************************************************************************)
EXTENDS Recipients, Replies, Delivery, TLAPS, SequenceTheorems, WellFoundedInduction

-----------------------------------------------------------------------------
(* Sequences, and what a loop over one has done: induction over its passes *)
(* rests on the well-foundedness of the order of the naturals, as no       *)
(* theorem with an operator for a parameter can be used.                   *)

(* What concatenation and cutting do, for sequences over one set.          *)
LEMMA Joined ==
    ASSUME NEW S, NEW s \in Seq(S), NEW t \in Seq(S)
    PROVE  /\ s \o t \in Seq(S) /\ Len(s \o t) = Len(s) + Len(t)
           /\ Len(s) \in Nat /\ Len(t) \in Nat
           /\ \A i \in 1 .. Len(s) : (s \o t)[i] = s[i]
           /\ \A i \in 1 .. Len(t) : (s \o t)[Len(s) + i] = t[i]
<1>1. Len(s) \in Nat /\ Len(t) \in Nat
    BY LenProperties
<1>2. /\ s \o t \in Seq(S) /\ Len(s \o t) = Len(s) + Len(t)
      /\ \A i \in 1 .. Len(s) + Len(t) :
            (s \o t)[i] = IF i <= Len(s) THEN s[i] ELSE t[i - Len(s)]
    BY ConcatProperties
<1>3. ASSUME NEW i \in 1 .. Len(t) PROVE (s \o t)[Len(s) + i] = t[i]
  <2>1. Len(s) + i \in 1 .. Len(s) + Len(t) /\ ~(Len(s) + i <= Len(s)) /\ (Len(s) + i) - Len(s) = i
      BY <1>1
  <2> QED
      BY <1>2, <2>1
<1> QED
    BY <1>1, <1>2, <1>3

LEMMA Begun ==
    ASSUME NEW S, NEW s \in Seq(S), NEW n \in 0 .. Len(s)
    PROVE  /\ SubSeq(s, 1, n) \in Seq(S) /\ Len(SubSeq(s, 1, n)) = n
           /\ \A i \in 1 .. n : SubSeq(s, 1, n)[i] = s[i]
<1>1. Len(s) \in Nat /\ \A i \in 1 .. Len(s) : s[i] \in S
    BY LenProperties, ElementOfSeq
<1>2. n \in Int /\ \A i \in 1 .. n : s[i] \in S
    BY <1>1
<1>3. /\ SubSeq(s, 1, n) \in Seq(S)
      /\ Len(SubSeq(s, 1, n)) = IF 1 <= n THEN n - 1 + 1 ELSE 0
      /\ \A i \in 1 .. n - 1 + 1 : SubSeq(s, 1, n)[i] = s[1 + i - 1]
    BY <1>2, SubSeqProperties
<1> QED
    BY <1>1, <1>3

(* A sequence of no element, of one, and with one more.                    *)
LEMMA NoElement ==
    ASSUME NEW S
    PROVE  <<>> \in Seq(S) /\ DOMAIN <<>> = {} /\ IsInjective(<<>>) /\ ToSet(<<>>) = {}
<1>1. <<>> \in Seq(S) /\ Len(<<>>) = 0
    OBVIOUS
<1>2. DOMAIN <<>> = {}
    BY <1>1, LenProperties
<1> QED
    BY <1>1, <1>2 DEF IsInjective, ToSet

LEMMA Single == ASSUME NEW S, NEW e \in S PROVE <<e>> \in Seq(S) /\ Len(<<e>>) = 1 /\ <<e>>[1] = e
OBVIOUS

LEMMA OneElement ==
    ASSUME NEW S, NEW e \in S
    PROVE  /\ <<e>> \in Seq(S) /\ <<e>> # <<>> /\ IsInjective(<<e>>) /\ ToSet(<<e>>) = {e}
           /\ \A n \in S : Append(<<e>>, n) = <<e, n>>
<1>1. DOMAIN <<e>> = {1} /\ <<e>>[1] = e
    OBVIOUS
<1>2. IsInjective(<<e>>) /\ ToSet(<<e>>) = {e}
    BY <1>1 DEF IsInjective, ToSet
<1>3. <<e>> \in Seq(S)
    OBVIOUS
<1>4. <<e>> # <<>>
    OBVIOUS
<1>5. ASSUME NEW n \in S PROVE Append(<<e>>, n) = <<e, n>>
  <2>1. Append(<<e>>, n) \in Seq(S) /\ <<e, n>> \in Seq(S)
      OBVIOUS
  <2>2. /\ Len(Append(<<e>>, n)) = 2 /\ Len(<<e, n>>) = 2
        /\ Append(<<e>>, n)[1] = e /\ Append(<<e>>, n)[2] = n /\ <<e, n>>[1] = e /\ <<e, n>>[2] = n
      OBVIOUS
  <2>3. \A i \in 1 .. 2 : i = 1 \/ i = 2
      OBVIOUS
  <2>4. \A i \in 1 .. Len(Append(<<e>>, n)) : Append(<<e>>, n)[i] = <<e, n>>[i]
      BY <2>2, <2>3
  <2> QED
      BY <2>1, <2>2, <2>4, SeqEqual
<1> QED
    BY <1>2, <1>3, <1>4, <1>5

LEMMA ToSetAppend ==
    ASSUME NEW S, NEW r \in Seq(S), NEW p \in S
    PROVE  Append(r, p) \in Seq(S) /\ ToSet(Append(r, p)) = ToSet(r) \cup {p}
<1>1. /\ DOMAIN Append(r, p) = 1 .. Len(r) + 1 /\ DOMAIN r = 1 .. Len(r) /\ Len(r) \in Nat
      /\ Append(r, p)[Len(r) + 1] = p /\ \A j \in 1 .. Len(r) : Append(r, p)[j] = r[j]
    OBVIOUS
<1>2. ToSet(Append(r, p)) = ToSet(r) \cup {p}
    BY <1>1 DEF ToSet
<1> QED
    BY <1>2

LEMMA OneMore ==
    ASSUME NEW S, NEW w \in Seq(S), NEW k \in Nat, k < Len(w)
    PROVE  SubSeq(w, 1, k + 1) = Append(SubSeq(w, 1, k), w[k + 1])
<1>1. Len(w) \in Nat /\ k \in 0 .. Len(w) /\ k + 1 \in 0 .. Len(w) /\ k + 1 \in 1 .. Len(w)
    BY LenProperties
<1> DEFINE u == SubSeq(w, 1, k)
           v == SubSeq(w, 1, k + 1)
           e == w[k + 1]
<1>2. u \in Seq(S) /\ Len(u) = k /\ \A i \in 1 .. k : u[i] = w[i]
    BY <1>1, Begun
<1>3. v \in Seq(S) /\ Len(v) = k + 1 /\ \A i \in 1 .. k + 1 : v[i] = w[i]
    BY <1>1, Begun
<1>4. e \in S
    BY <1>1, ElementOfSeq
<1>5. \A i \in 1 .. k + 1 : v[i] = IF i = k + 1 THEN e ELSE u[i]
    BY <1>2, <1>3
<1> HIDE DEF u, v, e
<1>6. /\ Append(u, e) \in Seq(S) /\ Len(Append(u, e)) = k + 1
      /\ \A i \in 1 .. k + 1 : Append(u, e)[i] = IF i = k + 1 THEN e ELSE u[i]
    BY <1>2, <1>4
<1>7. v = Append(u, e)
    BY <1>3, <1>5, <1>6, SeqEqual
<1> QED
    BY <1>7 DEF u, v, e

(* What two sequences hold together, and what the second of them is.       *)
LEMMA TwoParts ==
    ASSUME NEW S, NEW s \in Seq(S), NEW u \in Seq(S)
    PROVE  /\ ToSet(s \o u) = ToSet(s) \cup ToSet(u)
           /\ IsInjective(s) /\ IsInjective(u) /\ ToSet(s) \cap ToSet(u) = {} => IsInjective(s \o u)
<1> DEFINE w == s \o u
<1>1. /\ w \in Seq(S) /\ Len(w) = Len(s) + Len(u) /\ Len(s) \in Nat /\ Len(u) \in Nat
      /\ \A i \in 1 .. Len(s) : w[i] = s[i]
      /\ \A i \in 1 .. Len(u) : w[Len(s) + i] = u[i]
    BY Joined
<1>2. DOMAIN w = 1 .. Len(s) + Len(u) /\ DOMAIN s = 1 .. Len(s) /\ DOMAIN u = 1 .. Len(u)
    BY <1>1, LenProperties
<1> HIDE DEF w
<1>3. \A i \in 1 .. Len(s) + Len(u) :
         \/ i \in 1 .. Len(s) /\ w[i] = s[i]
         \/ i - Len(s) \in 1 .. Len(u) /\ i = Len(s) + (i - Len(s)) /\ w[i] = u[i - Len(s)]
  <2> SUFFICES ASSUME NEW i \in 1 .. Len(s) + Len(u), i \notin 1 .. Len(s)
               PROVE  i - Len(s) \in 1 .. Len(u) /\ i = Len(s) + (i - Len(s)) /\ w[i] = u[i - Len(s)]
      BY <1>1
  <2>1. i - Len(s) \in 1 .. Len(u) /\ i = Len(s) + (i - Len(s))
      BY <1>1
  <2> QED
      BY <1>1, <2>1
<1>4. ToSet(w) = ToSet(s) \cup ToSet(u)
  <2>1. ASSUME NEW x \in ToSet(s) \cup ToSet(u) PROVE x \in ToSet(w)
    <3>1. CASE x \in ToSet(s)
      <4>1. PICK i \in 1 .. Len(s) : x = s[i]
          BY <1>2, <3>1 DEF ToSet
      <4>2. i \in DOMAIN w /\ w[i] = x
          BY <1>1, <1>2, <4>1
      <4> QED
          BY <4>2 DEF ToSet
    <3>2. CASE x \in ToSet(u)
      <4>1. PICK i \in 1 .. Len(u) : x = u[i]
          BY <1>2, <3>2 DEF ToSet
      <4>2. Len(s) + i \in DOMAIN w /\ w[Len(s) + i] = x
          BY <1>1, <1>2, <4>1
      <4> QED
          BY <4>2 DEF ToSet
    <3> QED
        BY <3>1, <3>2
  <2>2. ASSUME NEW x \in ToSet(w) PROVE x \in ToSet(s) \cup ToSet(u)
    <3>1. PICK i \in 1 .. Len(s) + Len(u) : x = w[i]
        BY <1>2, <2>2 DEF ToSet
    <3> QED
        BY <1>2, <1>3, <3>1 DEF ToSet
  <2> QED
      BY <2>1, <2>2
<1>5. ASSUME IsInjective(s), IsInjective(u), ToSet(s) \cap ToSet(u) = {} PROVE IsInjective(w)
  <2> SUFFICES ASSUME NEW i \in 1 .. Len(s) + Len(u), NEW j \in 1 .. Len(s) + Len(u), w[i] = w[j]
               PROVE  i = j
      BY <1>2 DEF IsInjective
  <2>1. \A a \in 1 .. Len(s), b \in 1 .. Len(u) : s[a] # u[b]
      BY <1>2, <1>5 DEF ToSet
  <2>2. \A a, b \in 1 .. Len(s) : s[a] = s[b] => a = b
      BY <1>2, <1>5 DEF IsInjective
  <2>3. \A a, b \in 1 .. Len(u) : u[a] = u[b] => a = b
      BY <1>2, <1>5 DEF IsInjective
  <2>4. CASE i \in 1 .. Len(s)
      BY <1>3, <2>1, <2>2, <2>4
  <2>5. CASE i \notin 1 .. Len(s)
    <3>1. i - Len(s) \in 1 .. Len(u) /\ i = Len(s) + (i - Len(s)) /\ w[i] = u[i - Len(s)]
        BY <1>3, <2>5
    <3>2. CASE j \in 1 .. Len(s)
      <4>1. w[j] = s[j] /\ s[j] # u[i - Len(s)]
          BY <1>1, <2>1, <3>1, <3>2
      <4> QED
          BY <3>1, <4>1
    <3>3. CASE j \notin 1 .. Len(s)
      <4>1. j - Len(s) \in 1 .. Len(u) /\ j = Len(s) + (j - Len(s)) /\ w[j] = u[j - Len(s)]
          BY <1>3, <3>3
      <4>2. i - Len(s) = j - Len(s)
          BY <2>3, <3>1, <4>1
      <4> QED
          BY <1>1, <4>2
    <3> QED
        BY <3>2, <3>3
  <2> QED
      BY <2>4, <2>5
<1> QED
    BY <1>4, <1>5 DEF w

LEMMA Rest ==
    ASSUME NEW S, NEW x \in Seq(S), NEW y \in Seq(S)
    PROVE  SubSeq(x \o y, Len(x) + 1, Len(x \o y)) = y
<1> DEFINE w == x \o y
           z == SubSeq(w, Len(x) + 1, Len(w))
<1>1. /\ w \in Seq(S) /\ Len(w) = Len(x) + Len(y) /\ Len(x) \in Nat /\ Len(y) \in Nat
      /\ \A i \in 1 .. Len(y) : w[Len(x) + i] = y[i]
    BY Joined
<1>2. \A i \in 1 .. Len(w) : w[i] \in S
    BY <1>1, ElementOfSeq
<1> HIDE DEF w
<1>3. Len(x) + 1 \in Int /\ Len(w) \in Int /\ \A i \in Len(x) + 1 .. Len(w) : w[i] \in S
    BY <1>1, <1>2
<1>4. /\ z \in Seq(S)
      /\ Len(z) = IF Len(x) + 1 <= Len(w) THEN Len(w) - (Len(x) + 1) + 1 ELSE 0
      /\ \A i \in 1 .. Len(w) - (Len(x) + 1) + 1 : z[i] = w[(Len(x) + 1) + i - 1]
    BY <1>3, SubSeqProperties
<1> HIDE DEF z
<1>5. Len(z) = Len(y)
    BY <1>1, <1>4
<1>6. ASSUME NEW i \in 1 .. Len(z) PROVE z[i] = y[i]
  <2>1. i \in 1 .. Len(w) - (Len(x) + 1) + 1 /\ (Len(x) + 1) + i - 1 = Len(x) + i
      BY <1>1, <1>5
  <2> QED
      BY <1>1, <1>4, <1>5, <2>1
<1>7. z = y
    BY <1>4, <1>5, <1>6, SeqEqual
<1> QED
    BY <1>7 DEF z, w

(* A set of numbers that has 0 and with each number the next has them all: *)
(* a number that it lacks would have a least one.                          *)
LEMMA NatSet ==
    ASSUME NEW S, 0 \in S, \A n \in Nat : n \in S => n + 1 \in S
    PROVE  Nat \subseteq S
<1> DEFINE T == {n \in Nat : n \notin S}
<1>1. SUFFICES ASSUME T # {} PROVE FALSE
    OBVIOUS
<1>2. IsWellFoundedOn({ss \in Nat \X Nat : ss[1] < ss[2]}, Nat)
    BY NatLessThanWellFounded, Zenon DEF OpToRel
<1>3. PICK x \in T : \A y \in T : ~(y < x)
  <2> DEFINE R == {ss \in Nat \X Nat : ss[1] < ss[2]}
  <2>1. \A y, z \in Nat : y < z => <<y, z>> \in R
    OBVIOUS
  <2>2. T \subseteq Nat
    OBVIOUS
  <2> HIDE DEF T, R
  <2>3. PICK x \in T : \A y \in T : ~(<<y, x>> \in R)
    <3>1. IsWellFoundedOn(R, Nat) BY <1>2 DEF R
    <3> QED BY <1>1, <2>2, <3>1, WFMin
  <2> QED
    BY <2>1, <2>2, <2>3
<1>4. x # 0 /\ x - 1 \in Nat
    OBVIOUS
<1>5. x - 1 \notin S
    <2>1. x - 1 \in S => x \in S BY <1>4
    <2> QED BY <2>1
<1> QED
    BY <1>3, <1>4, <1>5

(* A loop of n passes, from base on by step, and that there is one.        *)
Loops(A, base, step, n) ==
    \E f \in [0 .. n -> A] : \A i \in 0 .. n : f[i] = IF i = 0 THEN base ELSE step[<<f[i - 1], i>>]

LEMMA Recursion ==
    ASSUME NEW A, NEW base \in A, NEW step \in [A \X Nat -> A], NEW n \in Nat
    PROVE  Loops(A, base, step, n)
<1> DEFINE Runs(f, k) == \A i \in 0 .. k : f[i] = IF i = 0 THEN base ELSE step[<<f[i - 1], i>>]
           S == {k \in Nat : \E f \in [0 .. k -> A] : Runs(f, k)}
<1>1. 0 \in S
  <2> DEFINE f == [i \in 0 .. 0 |-> base]
  <2>1. f \in [0 .. 0 -> A] /\ Runs(f, 0)
      OBVIOUS
  <2> QED
      BY <2>1
<1>2. ASSUME NEW k \in Nat, k \in S PROVE k + 1 \in S
  <2>1. PICK f \in [0 .. k -> A] : Runs(f, k)
      BY <1>2
  <2> DEFINE g == [i \in 0 .. k + 1 |-> IF i \in 0 .. k THEN f[i] ELSE step[<<f[k], k + 1>>]]
  <2>2. g \in [0 .. k + 1 -> A]
      OBVIOUS
  <2>3. Runs(g, k + 1)
    <3> SUFFICES ASSUME NEW i \in 0 .. k + 1
                 PROVE  g[i] = IF i = 0 THEN base ELSE step[<<g[i - 1], i>>]
        OBVIOUS
    <3>1. CASE i = k + 1
      <4>1. g[i] = step[<<f[k], k + 1>>] /\ g[k] = f[k]
          BY <3>1
      <4>2. i # 0 /\ i - 1 = k
          BY <3>1
      <4> HIDE DEF g
      <4> QED
          BY <3>1, <4>1, <4>2
    <3>2. CASE i \in 0 .. k
      <4>1. f[i] = IF i = 0 THEN base ELSE step[<<f[i - 1], i>>]
          BY <2>1, <3>2
      <4>2. i # 0 => g[i - 1] = f[i - 1]
          BY <3>2
      <4>3. g[i] = f[i]
          BY <3>2
      <4> HIDE DEF g
      <4> QED
          BY <4>1, <4>2, <4>3
    <3> QED
        BY <3>1, <3>2
  <2> HIDE DEF g, Runs
  <2> QED
      BY <2>2, <2>3
<1>3. n \in S
  <2> HIDE DEF S
  <2> QED
      BY <1>1, <1>2, NatSet
<1> QED
    BY <1>3 DEF Loops

LEMMA Greatest ==
    ASSUME NEW n \in Nat, NEW T \in SUBSET (1 .. n), T # {}
    PROVE  \E m \in T : \A k \in T : k <= m
<1> DEFINE Has(b) == \A U \in SUBSET (1 .. b) : U # {} => \E m \in U : \A k \in U : k <= m
           S == {b \in Nat : Has(b)}
<1>1. 0 \in S
  <2>1. 1 .. 0 = {}
      OBVIOUS
  <2> QED
      BY <2>1
<1>2. ASSUME NEW b \in Nat, b \in S PROVE b + 1 \in S
  <2> SUFFICES ASSUME NEW U \in SUBSET (1 .. b + 1), U # {} PROVE \E m \in U : \A k \in U : k <= m
      OBVIOUS
  <2>1. CASE b + 1 \in U
      BY <2>1
  <2>2. CASE b + 1 \notin U
    <3>1. U \in SUBSET (1 .. b)
        BY <2>2
    <3> QED
        BY <1>2, <3>1
  <2> QED
      BY <2>1, <2>2
<1>3. n \in S
  <2> HIDE DEF S
  <2> QED
      BY <1>1, <1>2, NatSet
<1> QED
    BY <1>3

-----------------------------------------------------------------------------
(* The field of recipients: every address that was picked stands in a      *)
(* segment before the one being typed, which is the only one that an edit  *)
(* or a later pick replaces.                                               *)

Segments == [text : DOMAIN Begins \cup Short \cup STRING \cup {""}, address : People \cup {Unset}]

Names == {NameOf[a] : a \in People} \cup {Unset}

(* The address is that of a segment before the one that is being typed.    *)
Keeps(l, a) == \E j \in 1 .. Len(l) - 1 : l[j].address = a

LinesAreSound ==
    /\ line \in Seq(Segments) /\ line # <<>>
    /\ picked \in Seq(People) /\ \A i \in DOMAIN picked : Keeps(line, picked[i])
ContactsAreSound ==
    /\ DOMAIN contacts \subseteq People
    /\ \A a \in DOMAIN contacts : contacts[a].name \in Names
SuggestionsAreSound ==
    \A i \in DOMAIN suggestions : suggestions[i].address \in People /\ suggestions[i].name \in Names
RecipientsInv == LinesAreSound /\ ContactsAreSound /\ SuggestionsAreSound

(* The last segment of a formatted contact has the address, however many   *)
(* commas the name has (format_contact).                                   *)
LEMMA FormatKeepsAddress ==
    ASSUME NEW a \in People, NEW name \in Names
    PROVE  /\ FormatContact(a, name) \in Seq(Segments) \ {<<>>}
           /\ FormatContact(a, name)[Len(FormatContact(a, name))].address = a
<1>1. CASE name = Unset
  <2> DEFINE e == [text |-> "", address |-> a]
  <2>1. e \in Segments /\ e.address = a
      BY DEF Segments
  <2>2. FormatContact(a, name) = <<e>>
      BY <1>1 DEF FormatContact
  <2> HIDE DEF e
  <2>3. <<e>> \in Seq(Segments) /\ <<e>> # <<>> /\ Len(<<e>>) = 1 /\ <<e>>[1] = e
      BY <2>1
  <2> QED
      BY <2>1, <2>2, <2>3
<1>2. CASE name # Unset
  <2>1. name \in Seq(STRING) /\ name # <<>>
      BY <1>2, RecipientsAssumption DEF Names
  <2>2. FormatContact(a, name)
          = [i \in 1 .. Len(name) |-> [text |-> name[i], address |-> IF i = Len(name) THEN a ELSE Unset]]
      BY <1>2, <2>1 DEF FormatContact
  <2>3. Len(name) \in Nat /\ Len(name) > 0
      BY <2>1
  <2> DEFINE f == [i \in 1 .. Len(name) |-> [text |-> name[i], address |-> IF i = Len(name) THEN a ELSE Unset]]
  <2>4. \A i \in 1 .. Len(name) :
            [text |-> name[i], address |-> IF i = Len(name) THEN a ELSE Unset] \in Segments
    <3>1. \A i \in 1 .. Len(name) : name[i] \in STRING
        BY <2>1, ElementOfSeq
    <3> QED
        BY <3>1 DEF Segments
  <2>5. f \in Seq(Segments) /\ Len(f) = Len(name)
      BY <2>3, <2>4
  <2>6. f[Len(name)].address = a /\ f # <<>>
    <3>1. f[Len(name)].address = a
        BY <2>3
    <3>2. Len(f) # 0
      <4> HIDE DEF f
      <4> QED
          BY <2>3, <2>5
    <3> QED
        BY <3>1, <3>2
  <2>7. FormatContact(a, name) = f
      BY <2>2
  <2> HIDE DEF f
  <2> QED
      BY <2>5, <2>6, <2>7
<1> QED
    BY <1>1, <1>2

(* A line that loses at most the segment being typed keeps what was        *)
(* picked.                                                                 *)
LEMMA LineGrows ==
    ASSUME LinesAreSound, NEW more \in Seq(Segments), NEW keep \in {Len(line) - 1, Len(line)},
           more # <<>>, line' = SubSeq(line, 1, keep) \o more, picked' = picked
    PROVE  LinesAreSound'
<1>1. /\ line \in Seq(Segments) /\ line # <<>> /\ Len(line) \in Nat \ {0}
      /\ \A i \in DOMAIN picked : Keeps(line, picked[i])
    BY DEF LinesAreSound
<1>2. /\ SubSeq(line, 1, keep) \in Seq(Segments) /\ Len(SubSeq(line, 1, keep)) = keep
      /\ \A j \in 1 .. keep : SubSeq(line, 1, keep)[j] = line[j]
    BY <1>1, Begun
<1>3. /\ line' \in Seq(Segments) /\ Len(line') = keep + Len(more) /\ Len(more) \in Nat \ {0}
      /\ \A j \in 1 .. keep : line'[j] = SubSeq(line, 1, keep)[j]
    BY <1>2, Joined, EmptySeq
<1>4. \A j \in 1 .. Len(line) - 1 : line'[j] = line[j] /\ j \in 1 .. Len(line') - 1
    BY <1>1, <1>2, <1>3
<1>5. \A i \in DOMAIN picked : Keeps(line', picked[i])
    BY <1>1, <1>4 DEF Keeps
<1> QED
    BY <1>3, <1>5 DEF LinesAreSound

LEMMA EmptyIsASegment == Empty \in Segments
BY DEF Empty, Typed, Segments

(* Every step keeps the line, the contacts and the suggestions sound.      *)
LEMMA RecipientsStep == RecipientsInv /\ [RecipientsNext]_recipientVars => RecipientsInv'
<1> SUFFICES ASSUME RecipientsInv, [RecipientsNext]_recipientVars PROVE RecipientsInv'
    OBVIOUS
<1> USE DEF RecipientsInv
<1>1. CASE UNCHANGED recipientVars
    BY <1>1 DEF recipientVars, LinesAreSound, Keeps, ContactsAreSound, SuggestionsAreSound
<1>2. ASSUME NEW a \in People, Sighted(a) PROVE RecipientsInv'
  <2>1. PICK name \in {NameOf[a], Unset} : contacts' = Upserted(a, name)
      BY <1>2 DEF Sighted
  <2>2. ContactsAreSound'
      BY <2>1 DEF ContactsAreSound, Upserted, Names
  <2>3. UNCHANGED <<line, picked, suggestions>>
      BY <1>2 DEF Sighted, field
  <2> QED
      BY <2>2, <2>3 DEF LinesAreSound, Keeps, SuggestionsAreSound
<1>3. ASSUME NEW t \in DOMAIN Begins \cup Short, Type(t) PROVE RecipientsInv'
  <2>1. Typed(t) \in Segments
      BY DEF Typed, Segments
  <2>2. line' = SubSeq(line, 1, Len(line) - 1) \o <<Typed(t)>> /\ UNCHANGED <<picked, contacts>>
      BY <1>3 DEF Type, Earlier
  <2>3. LinesAreSound'
    <3>1. <<Typed(t)>> \in Seq(Segments) /\ <<Typed(t)>> # <<>> /\ Len(line) - 1 \in {Len(line) - 1, Len(line)}
        BY <2>1
    <3>2. picked' = picked
        BY <2>2
    <3> QED
        BY <2>2, <3>1, <3>2, LineGrows
  <2>4. suggestions' = suggestions \/ suggestions' = <<>>
      BY <1>3 DEF Type, Refreshed
  <2> QED
      BY <2>2, <2>3, <2>4 DEF ContactsAreSound, SuggestionsAreSound
<1>4. CASE Comma
  <2>1. line' = SubSeq(line, 1, Len(line)) \o <<Empty>> /\ UNCHANGED <<picked, contacts>>
    <3>1. SubSeq(line, 1, Len(line)) = line
        BY SubSeqFull DEF LinesAreSound
    <3> QED
        BY <1>4, <3>1 DEF Comma
  <2>2. LinesAreSound'
    <3>1. <<Empty>> \in Seq(Segments) /\ <<Empty>> # <<>> /\ Len(line) \in {Len(line) - 1, Len(line)}
        BY EmptyIsASegment
    <3>2. picked' = picked
        BY <2>1
    <3> QED
        BY <2>1, <3>1, <3>2, LineGrows
  <2>3. suggestions' = suggestions \/ suggestions' = <<>>
      BY <1>4 DEF Comma, Refreshed
  <2> QED
      BY <2>1, <2>2, <2>3 DEF ContactsAreSound, SuggestionsAreSound
<1>5. ASSUME NEW p \in DOMAIN Begins, Answered(p) \/ QueryFails(p) PROVE RecipientsInv'
  <2>1. UNCHANGED <<contacts, line, picked>>
      BY <1>5 DEF Answered, QueryFails
  <2>2. SuggestionsAreSound'
    <3>1. CASE QueryFails(p)
        BY <3>1 DEF QueryFails, SuggestionsAreSound
    <3>2. CASE Answered(p)
      <4>1. PICK rows \in QueryPrefix(p) :
                suggestions' = [i \in DOMAIN rows |-> [address |-> rows[i], name |-> contacts[rows[i]].name]]
          BY <3>2 DEF Answered
      <4>2. \A i \in DOMAIN rows : rows[i] \in DOMAIN contacts
          BY DEF QueryPrefix
      <4> QED
          BY <4>1, <4>2 DEF SuggestionsAreSound, ContactsAreSound
    <3> QED
        BY <1>5, <3>1, <3>2
  <2> QED
      BY <2>1, <2>2 DEF LinesAreSound, Keeps, ContactsAreSound
<1>6. CASE Arrow \/ Escape \/ Blur \/ BlurEnds
  <2>1. UNCHANGED <<contacts, line, picked, suggestions>>
      BY <1>6 DEF Arrow, Escape, Blur, BlurEnds
  <2> QED
      BY <2>1 DEF LinesAreSound, Keeps, ContactsAreSound, SuggestionsAreSound
<1>7. ASSUME NEW i \in DOMAIN suggestions, PickRow(i) PROVE RecipientsInv'
  <2> DEFINE a == suggestions[i].address
             text == FormatContact(a, suggestions[i].name)
             new == text \o <<Empty>>
             before == SubSeq(line, 1, Len(line) - 1)
  <2>1. /\ text \in Seq(Segments) \ {<<>>} /\ text[Len(text)].address = a /\ a \in People
      BY FormatKeepsAddress DEF SuggestionsAreSound
  <2>2. /\ line' = (before \o text) \o <<Empty>> /\ picked' = Append(picked, a)
        /\ UNCHANGED contacts /\ suggestions' \in {suggestions, <<>>}
      BY <1>7 DEF PickRow, ReplaceActive, Earlier
  <2> HIDE DEF text, a
  <2>3. /\ before \in Seq(Segments) /\ Len(before) = Len(line) - 1 /\ Len(line) \in Nat \ {0}
        /\ \A j \in 1 .. Len(line) - 1 : before[j] = line[j]
    <3>1. line \in Seq(Segments) /\ Len(line) \in Nat \ {0}
        BY EmptySeq DEF LinesAreSound
    <3>2. Len(line) - 1 \in 0 .. Len(line)
        BY <3>1
    <3> QED
        BY <3>1, <3>2, Begun
  <2> HIDE DEF before
  <2>4. /\ before \o text \in Seq(Segments) /\ Len(before \o text) = Len(line) - 1 + Len(text)
        /\ Len(text) \in Nat \ {0} /\ (before \o text)[Len(line) - 1 + Len(text)] = text[Len(text)]
        /\ \A j \in 1 .. Len(line) - 1 : (before \o text)[j] = line[j]
    <3>1. Len(text) \in Nat \ {0}
        BY <2>1, EmptySeq
    <3>2. /\ before \o text \in Seq(Segments) /\ Len(before \o text) = Len(before) + Len(text)
          /\ \A k \in 1 .. Len(before) : (before \o text)[k] = before[k]
          /\ \A k \in 1 .. Len(text) : (before \o text)[Len(before) + k] = text[k]
      <4>1. before \in Seq(Segments) /\ text \in Seq(Segments)
          BY <2>1, <2>3
      <4> QED
          BY <4>1, Joined
    <3> QED
        BY <2>3, <3>1, <3>2
  <2>5. /\ line' \in Seq(Segments) /\ Len(line') = Len(line) + Len(text)
        /\ \A j \in 1 .. Len(line) - 1 + Len(text) : line'[j] = (before \o text)[j]
    <3>1. <<Empty>> \in Seq(Segments) /\ Len(<<Empty>>) = 1
        BY EmptyIsASegment, Single
    <3>2. /\ (before \o text) \o <<Empty>> \in Seq(Segments)
          /\ Len((before \o text) \o <<Empty>>) = Len(before \o text) + 1
          /\ \A k \in 1 .. Len(before \o text) : ((before \o text) \o <<Empty>>)[k] = (before \o text)[k]
        BY <2>4, <3>1, Joined
    <3> QED
        BY <2>2, <2>3, <2>4, <3>2
  <2>6. Keeps(line', a)
    <3>1. Len(line) \in Nat \ {0} /\ Len(text) \in Nat \ {0} /\ Len(line') = Len(line) + Len(text)
        BY <2>3, <2>4, <2>5
    <3>2. Len(line) - 1 + Len(text) \in 1 .. Len(line') - 1
        BY <3>1
    <3>3. line'[Len(line) - 1 + Len(text)] = text[Len(text)]
      <4>1. Len(line) - 1 + Len(text) \in 1 .. Len(line) - 1 + Len(text)
          BY <3>1
      <4> QED
          BY <2>4, <2>5, <4>1
    <3> QED
        BY <2>1, <3>2, <3>3 DEF Keeps
  <2>7. \A k \in DOMAIN picked : Keeps(line', picked[k])
    <3>1. \A j \in 1 .. Len(line) - 1 : j \in 1 .. Len(line') - 1 /\ line'[j] = line[j]
        BY <2>3, <2>4, <2>5
    <3>2. \A k \in DOMAIN picked : Keeps(line, picked[k])
        BY DEF LinesAreSound
    <3> QED
        BY <3>1, <3>2 DEF Keeps
  <2>8. picked' \in Seq(People) /\ \A k \in DOMAIN picked' : Keeps(line', picked'[k])
    <3>1. picked \in Seq(People)
        BY DEF LinesAreSound
    <3>2. /\ picked' \in Seq(People)
          /\ \A k \in DOMAIN picked' : (k \in DOMAIN picked /\ picked'[k] = picked[k]) \/ picked'[k] = a
        BY <2>1, <2>2, <3>1
    <3>3. \A k \in DOMAIN picked' : Keeps(line', picked'[k])
        BY <2>6, <2>7, <3>2 DEF Keeps
    <3> QED
        BY <3>2, <3>3
  <2>9. line' # <<>>
    <3>1. Len(line') # 0
        BY <2>3, <2>4, <2>5
    <3> QED
        BY <3>1
  <2>10. LinesAreSound'
      BY <2>5, <2>8, <2>9 DEF LinesAreSound
  <2> QED
      BY <2>2, <2>10 DEF ContactsAreSound, SuggestionsAreSound
<1> QED
    BY <1>1, <1>2, <1>3, <1>4, <1>5, <1>6, <1>7 DEF RecipientsNext

(* Everyone who was picked from the dropdown is among those that           *)
(* parse_addrs reads back, whatever was typed, asked and answered since    *)
(* (AddressField, replace_active_segment).                                 *)
THEOREM PickedStayParsed == RecipientsSpec => []PickedAreParsed
<1>1. RecipientsInit => RecipientsInv
    BY EmptyIsASegment
       DEF RecipientsInit, RecipientsInv, LinesAreSound, ContactsAreSound, SuggestionsAreSound, Keeps
<1>2. RecipientsInv => PickedAreParsed
  <2> SUFFICES ASSUME RecipientsInv, NEW i \in DOMAIN picked
               PROVE  \E s \in Parsed : s.address = picked[i]
      BY DEF PickedAreParsed
  <2>1. PICK j \in 1 .. Len(line) - 1 : line[j].address = picked[i]
      BY DEF RecipientsInv, LinesAreSound, Keeps
  <2>2. line[j] # Empty
    <3>1. picked[i] \in People
        BY ElementOfSeq, LenProperties DEF RecipientsInv, LinesAreSound
    <3>2. Empty.address = Unset
        BY DEF Empty, Typed
    <3> QED
        BY <2>1, <3>1, <3>2, RecipientsAssumption
  <2>3. line[j] \in Parsed
      BY <2>2 DEF Parsed, ToSet, RecipientsInv, LinesAreSound
  <2> QED
      BY <2>1, <2>3
<1> QED
    BY <1>1, <1>2, RecipientsStep, PTL DEF RecipientsSpec

-----------------------------------------------------------------------------
(* Answers: the loop of reply_all_cc, the chain of a message, and what one *)
(* more message does to the chains of a conversation.                      *)

(* A pass of the loop of reply_all_cc                                      *)
LoopStep(all, seen, A) ==
    [p \in Seq(A) \X Nat |->
        IF p[2] \in 1 .. Len(all)
        THEN IF all[p[2]] \in seen \cup ToSet(p[1]) THEN p[1] ELSE Append(p[1], all[p[2]])
        ELSE p[1]]

(* The loop copies whoever is not seen yet, each once.                     *)
THEOREM UnseenOnce ==
    ASSUME NEW A, NEW all \in Seq(A), NEW seen
    PROVE  /\ Unseen(all, seen) \in Seq(A)
           /\ ToSet(Unseen(all, seen)) = ToSet(all) \ seen
           /\ IsInjective(Unseen(all, seen))
<1> DEFINE out[i \in 0 .. Len(all)] ==
            IF i = 0 THEN <<>>
            ELSE IF all[i] \in seen \cup ToSet(out[i - 1]) THEN out[i - 1]
            ELSE Append(out[i - 1], all[i])
           n == Len(all)
           step == LoopStep(all, seen, A)
<1>1. n \in Nat
    BY LenProperties
<1>2. \A i \in 1 .. n : all[i] \in A
    BY ElementOfSeq
<1>3. step \in [Seq(A) \X Nat -> Seq(A)]
  <2>1. ASSUME NEW p \in Seq(A) \X Nat
        PROVE  (IF p[2] \in 1 .. Len(all)
                THEN IF all[p[2]] \in seen \cup ToSet(p[1]) THEN p[1] ELSE Append(p[1], all[p[2]])
                ELSE p[1]) \in Seq(A)
      BY <1>2
  <2> QED
      BY <2>1 DEF LoopStep
<1>4. \A s \in Seq(A), i \in 1 .. n :
            step[<<s, i>>] = IF all[i] \in seen \cup ToSet(s) THEN s ELSE Append(s, all[i])
    BY <1>1 DEF LoopStep
<1>5. <<>> \in Seq(A)
    OBVIOUS
<1>6. PICK f \in [0 .. n -> Seq(A)] :
           \A i \in 0 .. n : f[i] = IF i = 0 THEN <<>> ELSE step[<<f[i - 1], i>>]
  <2> HIDE DEF step, n, out
  <2>1. Loops(Seq(A), <<>>, step, n)
      BY <1>1, <1>3, <1>5, Recursion
  <2> QED
      BY <2>1 DEF Loops
<1>7. f = [i \in 0 .. n |-> IF i = 0 THEN <<>>
                            ELSE IF all[i] \in seen \cup ToSet(f[i - 1]) THEN f[i - 1]
                            ELSE Append(f[i - 1], all[i])]
  <2> HIDE DEF step
  <2>1. ASSUME NEW i \in 0 .. n
        PROVE  f[i] = IF i = 0 THEN <<>>
                      ELSE IF all[i] \in seen \cup ToSet(f[i - 1]) THEN f[i - 1]
                      ELSE Append(f[i - 1], all[i])
    <3>1. CASE i = 0
        BY <1>6, <3>1
    <3>2. CASE i # 0
      <4>1. i \in 1 .. n /\ i - 1 \in 0 .. n
          BY <1>1, <3>2
      <4>2. f[i - 1] \in Seq(A) /\ f[i] = step[<<f[i - 1], i>>]
          BY <1>6, <3>2, <4>1
      <4> QED
          BY <1>4, <3>2, <4>1, <4>2
    <3> QED
        BY <3>1, <3>2
  <2> QED
      BY <2>1
<1>8. out = [i \in 0 .. n |-> IF i = 0 THEN <<>>
                              ELSE IF all[i] \in seen \cup ToSet(out[i - 1]) THEN out[i - 1]
                              ELSE Append(out[i - 1], all[i])]
    BY <1>7
<1>9. Unseen(all, seen) = out[n]
    BY DEF Unseen
<1> HIDE DEF out
<1> DEFINE Right(s, i) == /\ s \in Seq(A)
                          /\ ToSet(s) = {all[j] : j \in 1 .. i} \ seen
                          /\ IsInjective(s)
           S == {i \in Nat : i <= n => Right(out[i], i)}
<1>10. 0 \in S
  <2>1. out[0] = <<>>
      BY <1>1, <1>8
  <2> QED
      BY <2>1 DEF ToSet, IsInjective
<1>11. ASSUME NEW i \in Nat, i \in S PROVE i + 1 \in S
  <2> SUFFICES ASSUME i + 1 <= n PROVE Right(out[i + 1], i + 1)
      OBVIOUS
  <2>1. i + 1 \in 0 .. n /\ i + 1 \in 1 .. n /\ i + 1 # 0 /\ (i + 1) - 1 = i
      BY <1>1
  <2>2. Right(out[i], i)
      BY <1>1, <1>11
  <2>3. out[i + 1] = IF all[i + 1] \in seen \cup ToSet(out[i]) THEN out[i] ELSE Append(out[i], all[i + 1])
      BY <1>8, <2>1
  <2>4. {all[j] : j \in 1 .. i + 1} = {all[j] : j \in 1 .. i} \cup {all[i + 1]}
      BY <2>1
  <2>5. CASE all[i + 1] \in seen \cup ToSet(out[i])
      BY <2>2, <2>3, <2>4, <2>5
  <2>6. CASE all[i + 1] \notin seen \cup ToSet(out[i])
    <3> DEFINE s == out[i]
               e == all[i + 1]
    <3>1. e \in A /\ s \in Seq(A) /\ out[i + 1] = Append(s, e)
        BY <1>2, <2>1, <2>2, <2>3, <2>6
    <3>2. e \notin ToSet(s) /\ e \notin seen
        BY <2>6
    <3>3. ToSet(s) = {all[j] : j \in 1 .. i} \ seen /\ IsInjective(s)
        BY <2>2
    <3> HIDE DEF s, e
    <3>4. /\ Append(s, e) \in Seq(A) /\ DOMAIN Append(s, e) = 1 .. Len(s) + 1 /\ Len(s) \in Nat
          /\ DOMAIN s = 1 .. Len(s)
          /\ Append(s, e)[Len(s) + 1] = e /\ \A j \in 1 .. Len(s) : Append(s, e)[j] = s[j]
        BY <3>1
    <3>5. ToSet(Append(s, e)) = ToSet(s) \cup {e}
        BY <3>4 DEF ToSet
    <3>6. IsInjective(Append(s, e))
        BY <3>2, <3>3, <3>4 DEF IsInjective, ToSet
    <3> QED
        BY <2>4, <3>1, <3>2, <3>3, <3>4, <3>5, <3>6 DEF e
  <2> QED
      BY <2>5, <2>6
<1>12. Nat \subseteq S
  <2> HIDE DEF S
  <2> QED
      BY <1>10, <1>11, NatSet
<1>13. Right(out[n], n)
  <2>1. n \in S
      BY <1>1, <1>12
  <2> QED
      BY <1>1, <2>1
<1>14. ToSet(all) = {all[j] : j \in 1 .. n}
    BY LenProperties DEF ToSet
<1> QED
    BY <1>9, <1>13, <1>14

Addresses == STRING \cup {"", "new"}
Mails == [from : Seq(Addresses), replyTo : Seq(Addresses), to : Seq(Addresses), cc : Seq(Addresses),
            refs : Seq(Nat), parent : Nat, kind : {"first", "reply", "all", "forward", "theirs"},
            on : Nat, self : Addresses]

(* What d, an answer to message m of number n, has of it.                  *)
Answers(d, m, n) ==
    /\ d.parent = n /\ d.kind \in {"reply", "all", "theirs"} /\ d.replyTo = <<>>
    /\ d.kind \in {"all", "theirs"} /\ m.replyTo = <<>> => Present(m) \subseteq Present(d) \cup {""}
    /\ d.kind = "all" => /\ d.self = Self => Self \notin ToSet(d.cc)
                         /\ IsInjective(d.to \o d.cc)
    /\ \/ d.refs = Append(m.refs, n)
       \/ d.refs = <<>> /\ d.kind = "theirs"
       \/ m.refs = <<>> /\ m.parent # 0 /\ d.refs = <<m.parent, n>>

Alone(d) == d.parent = 0 /\ d.refs = <<>> /\ d.kind \in {"first", "forward"}
Signed(d) == d.from # <<>> /\ IsInjective(d.from) /\ IsInjective(d.replyTo)

(* The conversation t: every message stands alone or answers an earlier    *)
(* one.                                                                    *)
Sound(t) ==
    /\ t \in Seq(Mails)
    /\ \A n \in DOMAIN t :
          /\ Signed(t[n]) /\ t[n].parent < n /\ \A i \in DOMAIN t[n].refs : t[n].refs[i] < n
          /\ IF t[n].parent = 0 THEN Alone(t[n]) ELSE Answers(t[n], t[t[n].parent], t[n].parent)

(* A draft that may be sent: it stands alone, or it answers a message.     *)
Sendable(d, t) ==
    /\ d \in Mails /\ Signed(d)
    /\ \/ Alone(d)
       \/ /\ d.parent \in DOMAIN t /\ Answers(d, t[d.parent], d.parent)
          /\ \A i \in DOMAIN d.refs : d.refs[i] <= d.parent

(* All that the message has to say of those it answers.                    *)
Public(t, n) == \A k \in Chain(t, n) : t[k].kind \in {"first", "all", "theirs"} /\ t[k].replyTo = <<>>
Linked(t, n) == \A k \in Chain(t, n) : t[k].parent # 0 => t[k].refs # <<>>
ChainsAreKept(t) ==
    \A n \in DOMAIN t :
        /\ Public(t, n) => \A k \in Chain(t, n) : Present(t[k]) \subseteq Present(t[n]) \cup {""}
        /\ Linked(t, n) => Chain(t, n) \ {n} = ToSet(t[n].refs)

RepliesInv ==
    /\ Sound(talk) /\ ChainsAreKept(talk)
    /\ \A r \in replying :
          r.kind \in {"reply", "all", "forward"} /\ r.on \in DOMAIN talk /\ r.self \in {Self, ""}
    /\ \A d \in prepared : Sendable(d, talk) /\ (d.to = <<>> => d.kind = "forward")

(* The messages of a conversation, and how one more is added.              *)
LEMMA TalkEnds ==
    ASSUME NEW t, Sound(t)
    PROVE  /\ Len(t) \in Nat /\ DOMAIN t = 1 .. Len(t)
           /\ \A n \in DOMAIN t : t[n] \in Mails /\ n \in Nat \ {0}
<1>1. t \in Seq(Mails)
    BY DEF Sound
<1>2. Len(t) \in Nat /\ DOMAIN t = 1 .. Len(t)
    BY <1>1, LenProperties
<1> QED
    BY <1>1, <1>2, ElementOfSeq

LEMMA TalkGrows ==
    ASSUME NEW t, Sound(t), NEW d \in Mails
    PROVE  /\ DOMAIN t = 1 .. Len(t) /\ Len(t) \in Nat
           /\ Append(t, d) \in Seq(Mails) /\ DOMAIN Append(t, d) = DOMAIN t \cup {Len(t) + 1}
           /\ Append(t, d)[Len(t) + 1] = d
           /\ \A j \in DOMAIN t : Append(t, d)[j] = t[j] /\ j <= Len(t)
<1> DEFINE u == Append(t, d)
<1>1. t \in Seq(Mails) /\ DOMAIN t = 1 .. Len(t) /\ Len(t) \in Nat
    BY TalkEnds DEF Sound
<1>2. /\ u \in Seq(Mails) /\ Len(u) = Len(t) + 1 /\ DOMAIN u = 1 .. Len(t) + 1
      /\ u[Len(t) + 1] = d /\ \A j \in 1 .. Len(t) : u[j] = t[j]
    BY <1>1
<1> QED
    BY <1>1, <1>2

(* The chain of a message is itself and the chain of what it answers.      *)
LEMMA ChainGoesUp ==
    ASSUME NEW t, Sound(t), NEW n \in DOMAIN t
    PROVE  /\ n \in Chain(t, n) /\ \A k \in Chain(t, n) : k \in DOMAIN t /\ k <= n
           /\ t[n].parent = 0 => Chain(t, n) = {n}
           /\ t[n].parent # 0 =>
                 t[n].parent \in DOMAIN t /\ Chain(t, n) = Chain(t, t[n].parent) \cup {n}
<1> DEFINE Closed(S) == \A j \in S : t[j].parent \in S \cup {0}
<1>1. /\ DOMAIN t = 1 .. Len(t) /\ Len(t) \in Nat
      /\ \A j \in DOMAIN t : t[j].parent \in Nat /\ t[j].parent < j
    BY TalkEnds DEF Sound, Mails
<1>2. n \in Chain(t, n)
    BY DEF Chain
<1>3. \A k \in Chain(t, n) : k \in DOMAIN t /\ k <= n
  <2>1. 1 .. n \in SUBSET DOMAIN t /\ n \in 1 .. n /\ Closed(1 .. n)
      BY <1>1
  <2>2. \A k \in Chain(t, n) : k \in DOMAIN t /\ k \in 1 .. n
      BY <2>1 DEF Chain
  <2> QED
      BY <1>1, <2>2
<1>4. ASSUME t[n].parent = 0 PROVE Chain(t, n) = {n}
  <2>1. {n} \in SUBSET DOMAIN t /\ Closed({n})
      BY <1>4
  <2>2. \A k \in Chain(t, n) : k \in {n}
      BY <2>1 DEF Chain
  <2> QED
      BY <1>2, <2>2
<1>5. ASSUME t[n].parent # 0
      PROVE  t[n].parent \in DOMAIN t /\ Chain(t, n) = Chain(t, t[n].parent) \cup {n}
  <2> DEFINE p == t[n].parent
  <2>1. p \in DOMAIN t
      BY <1>1, <1>5
  <2>2. ASSUME NEW k \in Chain(t, p) PROVE k \in Chain(t, n)
    <3>1. ASSUME NEW S \in SUBSET DOMAIN t, n \in S, Closed(S) PROVE k \in S
      <4>1. p \in S
          BY <1>5, <3>1
      <4> QED
          BY <2>2, <3>1, <4>1 DEF Chain
    <3> QED
        BY <2>2, <3>1 DEF Chain
  <2>3. ASSUME NEW k \in Chain(t, n), k # n PROVE k \in Chain(t, p)
    <3>1. ASSUME NEW S \in SUBSET DOMAIN t, p \in S, Closed(S) PROVE k \in S
      <4>1. S \cup {n} \in SUBSET DOMAIN t /\ n \in S \cup {n} /\ Closed(S \cup {n})
          BY <3>1
      <4>2. k \in S \cup {n}
          BY <2>3, <4>1 DEF Chain
      <4> QED
          BY <2>3, <4>2
    <3> QED
        BY <2>3, <3>1 DEF Chain
  <2> QED
      BY <1>2, <2>1, <2>2, <2>3
<1> QED
    BY <1>2, <1>3, <1>4, <1>5

(* A message that arrives changes no chain of the others.                  *)
LEMMA ChainStays ==
    ASSUME NEW t, Sound(t), NEW d \in Mails, NEW n \in DOMAIN t
    PROVE  Chain(Append(t, d), n) = Chain(t, n)
<1> DEFINE u == Append(t, d)
<1>1. /\ DOMAIN t = 1 .. Len(t) /\ Len(t) \in Nat
      /\ \A j \in DOMAIN t : t[j].parent \in Nat /\ t[j].parent < j
    BY TalkEnds DEF Sound, Mails
<1>2. DOMAIN t \subseteq DOMAIN u /\ \A j \in DOMAIN t : u[j] = t[j]
    BY TalkGrows
<1> HIDE DEF u
<1> DEFINE Closed(S) == \A j \in S : t[j].parent \in S \cup {0}
           ClosedNow(S) == \A j \in S : u[j].parent \in S \cup {0}
<1>3. ASSUME NEW k \in Chain(u, n) PROVE k \in Chain(t, n)
  <2>1. ClosedNow(DOMAIN t) /\ DOMAIN t \in SUBSET DOMAIN u
      BY <1>1, <1>2
  <2>2. k \in DOMAIN t
      BY <1>3, <2>1 DEF Chain
  <2>3. ASSUME NEW S \in SUBSET DOMAIN t, n \in S, Closed(S) PROVE k \in S
    <3>1. S \in SUBSET DOMAIN u /\ ClosedNow(S)
        BY <1>2, <2>3
    <3> QED
        BY <1>3, <2>3, <3>1 DEF Chain
  <2> QED
      BY <2>2, <2>3 DEF Chain
<1>4. ASSUME NEW k \in Chain(t, n) PROVE k \in Chain(u, n)
  <2>1. ASSUME NEW S \in SUBSET DOMAIN u, n \in S, ClosedNow(S) PROVE k \in S
    <3>1. S \cap DOMAIN t \in SUBSET DOMAIN t /\ n \in S \cap DOMAIN t
        BY <2>1
    <3>2. Closed(S \cap DOMAIN t)
        BY <1>1, <1>2, <2>1
    <3> QED
        BY <1>4, <3>1, <3>2 DEF Chain
  <2>2. k \in DOMAIN u
      BY <1>2, <1>4 DEF Chain
  <2> QED
      BY <2>1, <2>2 DEF Chain
<1>5. Chain(u, n) = Chain(t, n)
    BY <1>3, <1>4
<1> QED
    BY <1>5 DEF u

(* What is sent keeps the conversation sound: it knows what it answers ... *)
LEMMA SentIsSound ==
    ASSUME NEW t, Sound(t), NEW d, Sendable(d, t)
    PROVE  Sound(Append(t, d))
<1> DEFINE n == Len(t) + 1
           u == Append(t, d)
<1>1. d \in Mails
    BY DEF Sendable
<1>2. /\ DOMAIN t = 1 .. Len(t) /\ Len(t) \in Nat
      /\ u \in Seq(Mails) /\ DOMAIN u = DOMAIN t \cup {n}
      /\ u[n] = d /\ \A j \in DOMAIN t : u[j] = t[j] /\ j <= Len(t)
    BY <1>1, TalkGrows
<1> HIDE DEF u
<1>3. \A k \in DOMAIN t :
          /\ Signed(t[k]) /\ t[k].parent < k /\ \A i \in DOMAIN t[k].refs : t[k].refs[i] < k
          /\ IF t[k].parent = 0 THEN Alone(t[k])
             ELSE t[k].parent \in DOMAIN t /\ Answers(t[k], t[t[k].parent], t[k].parent)
    BY ChainGoesUp DEF Sound
<1>4. ASSUME NEW k \in DOMAIN t
      PROVE  /\ Signed(u[k]) /\ u[k].parent < k /\ \A i \in DOMAIN u[k].refs : u[k].refs[i] < k
             /\ IF u[k].parent = 0 THEN Alone(u[k])
                ELSE Answers(u[k], u[u[k].parent], u[k].parent)
    BY <1>2, <1>3
<1>5. /\ Signed(d) /\ d.parent < n /\ \A i \in DOMAIN d.refs : d.refs[i] < n
      /\ IF d.parent = 0 THEN Alone(d) ELSE Answers(d, u[d.parent], d.parent)
  <2>1. CASE Alone(d)
      BY <1>2, <2>1 DEF Sendable, Alone
  <2>2. CASE ~Alone(d)
    <3>1. /\ d.parent \in DOMAIN t /\ Answers(d, t[d.parent], d.parent) /\ Signed(d)
          /\ \A i \in DOMAIN d.refs : d.refs[i] <= d.parent
        BY <2>2 DEF Sendable
    <3>2. d.parent # 0 /\ d.parent \in Nat /\ d.parent < n /\ u[d.parent] = t[d.parent]
        BY <1>2, <3>1
    <3>3. \A i \in DOMAIN d.refs : d.refs[i] \in Nat
        BY <1>1, ElementOfSeq, LenProperties DEF Mails
    <3> QED
        BY <1>2, <3>1, <3>2, <3>3
  <2> QED
      BY <2>1, <2>2
<1> QED
    BY <1>2, <1>4, <1>5 DEF Sound, u

(* ... and through it everyone and everything further up, as what it       *)
(* answers did.                                                            *)
LEMMA SentKeepsChains ==
    ASSUME NEW t, Sound(t), ChainsAreKept(t), NEW d, Sendable(d, t)
    PROVE  ChainsAreKept(Append(t, d))
<1> DEFINE n == Len(t) + 1
           u == Append(t, d)
<1>1. d \in Mails
    BY DEF Sendable
<1>2. /\ DOMAIN t = 1 .. Len(t) /\ Len(t) \in Nat
      /\ u \in Seq(Mails) /\ DOMAIN u = DOMAIN t \cup {n}
      /\ u[n] = d /\ \A j \in DOMAIN t : u[j] = t[j] /\ j <= Len(t)
    BY <1>1, TalkGrows
<1>3. Sound(u)
    BY SentIsSound
<1>4. \A k \in DOMAIN t : Chain(u, k) = Chain(t, k) /\ Chain(t, k) \subseteq DOMAIN t
  <2>1. \A k \in DOMAIN t : Chain(u, k) = Chain(t, k)
      BY <1>1, ChainStays
  <2>2. \A k \in DOMAIN t : \A j \in Chain(t, k) : j \in DOMAIN t
      BY ChainGoesUp
  <2> QED
      BY <2>1, <2>2
<1> HIDE DEF u
<1> DEFINE Kept(k) == /\ Public(u, k) => \A j \in Chain(u, k) : Present(u[j]) \subseteq Present(u[k]) \cup {""}
                      /\ Linked(u, k) => Chain(u, k) \ {k} = ToSet(u[k].refs)
<1>5. ASSUME NEW k \in DOMAIN t PROVE Kept(k)
  <2>1. Chain(u, k) = Chain(t, k) /\ \A j \in Chain(t, k) : u[j] = t[j]
      BY <1>2, <1>4
  <2>2. Public(u, k) => Public(t, k)
      BY <2>1 DEF Public
  <2>3. Linked(u, k) => Linked(t, k)
      BY <2>1 DEF Linked
  <2>4. /\ Public(t, k) => \A j \in Chain(t, k) : Present(t[j]) \subseteq Present(t[k]) \cup {""}
        /\ Linked(t, k) => Chain(t, k) \ {k} = ToSet(t[k].refs)
      BY DEF ChainsAreKept
  <2> QED
      BY <1>2, <2>1, <2>2, <2>3, <2>4
<1>6. n \in DOMAIN u /\ n \notin DOMAIN t
    BY <1>2
<1> HIDE DEF n
<1>7. ASSUME Alone(d) PROVE Kept(n)
  <2>1. Chain(u, n) = {n}
    <3>1. u[n].parent = 0
        BY <1>2, <1>7 DEF Alone
    <3> QED
        BY <1>3, <1>6, <3>1, ChainGoesUp
  <2>2. ToSet(u[n].refs) = {}
      BY <1>2, <1>7 DEF Alone, ToSet
  <2> QED
      BY <2>1, <2>2
<1>8. ASSUME ~Alone(d) PROVE Kept(n)
  <2> DEFINE p == d.parent
             m == t[p]
  <2>1. p \in DOMAIN t /\ Answers(d, m, p) /\ p # 0
      BY <1>2, <1>8 DEF Sendable
  <2>2. Chain(u, n) = Chain(t, p) \cup {n} /\ p \in Chain(t, p)
    <3>1. u[n].parent = p
        BY <1>2
    <3>2. u[n].parent # 0 => Chain(u, n) = Chain(u, u[n].parent) \cup {n}
        BY <1>3, <1>6, ChainGoesUp
    <3> QED
        BY <1>4, <2>1, <3>1, <3>2, ChainGoesUp
  <2>3. u[n] = d /\ n \notin Chain(t, p) /\ \A j \in Chain(t, p) : u[j] = t[j]
      BY <1>2, <1>4, <1>6, <2>1
  <2> HIDE DEF p
  <2>4. ASSUME Public(u, n) PROVE \A j \in Chain(u, n) : Present(u[j]) \subseteq Present(u[n]) \cup {""}
    <3>1. Public(t, p) /\ d.kind \in {"first", "all", "theirs"} /\ m.replyTo = <<>>
        BY <2>2, <2>3, <2>4 DEF Public
    <3>2. Present(m) \subseteq Present(d) \cup {""}
        BY <2>1, <3>1 DEF Answers
    <3>3. \A j \in Chain(t, p) : Present(t[j]) \subseteq Present(m) \cup {""}
        BY <2>1, <3>1 DEF ChainsAreKept
    <3> QED
        BY <2>2, <2>3, <3>2, <3>3
  <2>5. ASSUME Linked(u, n) PROVE Chain(u, n) \ {n} = ToSet(u[n].refs)
    <3>1. Linked(t, p) /\ d.refs # <<>> /\ (m.parent # 0 => m.refs # <<>>)
      <4>1. d.parent # 0
          BY <2>1 DEF p
      <4> QED
          BY <2>2, <2>3, <2>5, <4>1 DEF Linked
    <3>2. d.refs = Append(m.refs, p)
        BY <2>1, <3>1 DEF Answers
    <3>3. m.refs \in Seq(Nat) /\ p \in Nat
        BY <1>2, <2>1, TalkEnds DEF Mails
    <3>4. ToSet(d.refs) = ToSet(m.refs) \cup {p}
      <4> DEFINE r == m.refs
      <4>1. /\ r \in Seq(Nat) /\ d.refs = Append(r, p)
          BY <3>2, <3>3
      <4> HIDE DEF r
      <4>2. /\ DOMAIN Append(r, p) = 1 .. Len(r) + 1 /\ DOMAIN r = 1 .. Len(r) /\ Len(r) \in Nat
            /\ Append(r, p)[Len(r) + 1] = p /\ \A j \in 1 .. Len(r) : Append(r, p)[j] = r[j]
          BY <3>3, <4>1
      <4>3. ToSet(Append(r, p)) = ToSet(r) \cup {p}
          BY <4>2 DEF ToSet
      <4> QED
          BY <4>1, <4>3 DEF r
    <3>5. Chain(t, p) \ {p} = ToSet(m.refs)
        BY <2>1, <3>1 DEF ChainsAreKept
    <3> QED
        BY <2>2, <2>3, <3>4, <3>5
  <2> QED
      BY <2>4, <2>5
<1>9. \A k \in DOMAIN u : Kept(k)
    BY <1>2, <1>5, <1>7, <1>8
<1> QED
    BY <1>9 DEF ChainsAreKept, u

(* Who answers all is the only one that the answer may lose                *)
(* (reply_to_recipients, reply_all_cc).                                    *)
LEMMA AllAreAnswered ==
    ASSUME NEW m \in Mails, Signed(m), NEW self
    PROVE  LET to == ReplyToRecipients(m)
               cc == ReplyAllCc(m, to, self)
           IN  /\ to \in Seq(Addresses) /\ cc \in Seq(Addresses) /\ ToAndCc(m) \in Seq(Addresses)
               /\ to # <<>> /\ IsInjective(to \o cc) /\ self \notin ToSet(cc)
               /\ m.replyTo = <<>> => Present(m) \subseteq ToSet(to) \cup ToSet(cc) \cup {self}
               /\ m.replyTo = <<>> => Present(m) \subseteq ToSet(to) \cup ToSet(ToAndCc(m))
<1> DEFINE to == ReplyToRecipients(m)
           cc == ReplyAllCc(m, to, self)
<1>1. /\ m.from \in Seq(Addresses) /\ m.replyTo \in Seq(Addresses)
      /\ m.to \in Seq(Addresses) /\ m.cc \in Seq(Addresses)
    BY DEF Mails
<1>2. to \in Seq(Addresses) /\ to # <<>> /\ IsInjective(to) /\ (m.replyTo = <<>> => to = m.from)
    BY <1>1 DEF ReplyToRecipients, Signed
<1>3. ToAndCc(m) \in Seq(Addresses) /\ ToSet(ToAndCc(m)) = ToSet(m.to) \cup ToSet(m.cc)
    BY <1>1, Joined, TwoParts DEF ToAndCc
<1>4. cc = Unseen(ToAndCc(m), ToSet(to) \cup {self})
    BY DEF ReplyAllCc, Others
<1>5. /\ cc \in Seq(Addresses) /\ IsInjective(cc)
      /\ ToSet(cc) = ToSet(ToAndCc(m)) \ (ToSet(to) \cup {self})
    BY <1>3, <1>4, UnseenOnce
<1> HIDE DEF to, cc
<1>6. IsInjective(to \o cc)
  <2>1. ToSet(to) \cap ToSet(cc) = {}
      BY <1>5
  <2> QED
      BY <1>2, <1>5, <2>1, TwoParts
<1> QED
    BY <1>2, <1>3, <1>5, <1>6 DEF Present, to, cc

(* No message refers to itself or a later one, so the references of an     *)
(* answer are those of the message, or what it answers, and then the       *)
(* message.                                                                *)
LEMMA References ==
    ASSUME Sound(talk), NEW n \in DOMAIN talk
    PROVE  LET m == talk[n]
           IN  /\ ReplyReferences(n) \in Seq(Nat)
               /\ \A i \in DOMAIN ReplyReferences(n) : ReplyReferences(n)[i] <= n
               /\ \/ ReplyReferences(n) = Append(m.refs, n)
                  \/ m.refs = <<>> /\ m.parent # 0 /\ ReplyReferences(n) = <<m.parent, n>>
               /\ Append(m.refs, n) \in Seq(Nat)
               /\ \A i \in DOMAIN Append(m.refs, n) : Append(m.refs, n)[i] <= n
<1> DEFINE m == talk[n]
           chain == IF m.refs = <<>> /\ m.parent # 0 THEN <<m.parent>> ELSE m.refs
<1>1. /\ m.refs \in Seq(Nat) /\ m.parent \in Nat /\ n \in Nat /\ m.parent < n
      /\ \A i \in DOMAIN m.refs : m.refs[i] < n
    BY TalkEnds DEF Sound, Mails
<1>2. \A c \in Seq(Nat) : (\A i \in DOMAIN c : c[i] < n) =>
          /\ n \notin ToSet(c) /\ Append(c, n) \in Seq(Nat)
          /\ \A i \in DOMAIN Append(c, n) : Append(c, n)[i] <= n
  <2> SUFFICES ASSUME NEW c \in Seq(Nat), \A i \in DOMAIN c : c[i] < n
               PROVE  /\ n \notin ToSet(c) /\ Append(c, n) \in Seq(Nat)
                      /\ \A i \in DOMAIN Append(c, n) : Append(c, n)[i] <= n
      OBVIOUS
  <2>1. /\ DOMAIN Append(c, n) = 1 .. Len(c) + 1 /\ DOMAIN c = 1 .. Len(c) /\ Len(c) \in Nat
        /\ Append(c, n)[Len(c) + 1] = n /\ \A j \in 1 .. Len(c) : Append(c, n)[j] = c[j]
        /\ Append(c, n) \in Seq(Nat)
      BY <1>1
  <2>2. n \notin ToSet(c)
      BY <1>1 DEF ToSet
  <2> QED
      BY <1>1, <2>1, <2>2
<1>3. chain \in Seq(Nat) /\ \A i \in DOMAIN chain : chain[i] < n
    BY <1>1
<1>4. ReplyReferences(n) = IF n \in ToSet(chain) THEN chain ELSE Append(chain, n)
    BY DEF ReplyReferences
<1>5. /\ n \notin ToSet(chain) /\ Append(chain, n) \in Seq(Nat)
      /\ \A i \in DOMAIN Append(chain, n) : Append(chain, n)[i] <= n
  <2> HIDE DEF chain
  <2> QED
      BY <1>2, <1>3
<1>6. ReplyReferences(n) = Append(chain, n)
    BY <1>4, <1>5
<1>7. chain = m.refs \/ (m.refs = <<>> /\ m.parent # 0 /\ Append(chain, n) = <<m.parent, n>>)
    BY <1>1, OneElement
<1>8. /\ Append(m.refs, n) \in Seq(Nat)
      /\ \A i \in DOMAIN Append(m.refs, n) : Append(m.refs, n)[i] <= n
    BY <1>1, <1>2
<1> HIDE DEF chain
<1> QED
    BY <1>5, <1>6, <1>7, <1>8

(* The draft that open_reply stores, and the answer of somebody else, may  *)
(* be sent.                                                                *)
LEMMA PreparedIsSendable ==
    ASSUME Sound(talk), NEW n \in DOMAIN talk, NEW kind \in {"reply", "all", "forward"}, NEW self \in {Self, ""}
    PROVE  LET d == Prepared(kind, n, self)
           IN  Sendable(d, talk) /\ (d.to = <<>> => d.kind = "forward")
<1> DEFINE m == talk[n]
           d == Prepared(kind, n, self)
           to == ReplyToRecipients(m)
           cc == ReplyAllCc(m, to, self)
<1>1. m \in Mails /\ Signed(m) /\ n \in Nat \ {0}
    BY TalkEnds DEF Sound
<1>2. Self \in Addresses /\ "" \in Addresses /\ self \in Addresses
    BY RepliesAssumption DEF Addresses
<1>3. /\ to \in Seq(Addresses) /\ cc \in Seq(Addresses) /\ to # <<>> /\ IsInjective(to \o cc)
      /\ self \notin ToSet(cc)
      /\ m.replyTo = <<>> => Present(m) \subseteq ToSet(to) \cup ToSet(cc) \cup {self}
    BY <1>1, AllAreAnswered
<1>4. /\ <<Self>> \in Seq(Addresses) /\ <<Self>> # <<>> /\ IsInjective(<<Self>>) /\ ToSet(<<Self>>) = {Self}
      /\ <<>> \in Seq(Addresses) /\ <<>> \in Seq(Nat) /\ IsInjective(<<>>)
  <2>1. <<>> \in Seq(Addresses) /\ <<>> \in Seq(Nat) /\ IsInjective(<<>>)
      BY NoElement
  <2> QED
      BY <1>2, <2>1, OneElement
<1>5. /\ ReplyReferences(n) \in Seq(Nat) /\ \A i \in DOMAIN ReplyReferences(n) : ReplyReferences(n)[i] <= n
      /\ \/ ReplyReferences(n) = Append(m.refs, n)
         \/ m.refs = <<>> /\ m.parent # 0 /\ ReplyReferences(n) = <<m.parent, n>>
    BY References
<1>6. CASE kind = "forward"
  <2>1. d = [from |-> <<Self>>, replyTo |-> <<>>, to |-> <<>>, cc |-> <<>>, refs |-> <<>>,
             parent |-> 0, kind |-> "forward", on |-> n, self |-> self]
      BY <1>6 DEF Prepared
  <2> HIDE DEF d
  <2>2. d \in Mails
      BY <1>1, <1>2, <1>4, <2>1 DEF Mails
  <2>3. Signed(d) /\ Alone(d) /\ d.kind = "forward"
      BY <1>4, <2>1 DEF Signed, Alone
  <2> QED
      BY <2>2, <2>3 DEF Sendable, d
<1>7. CASE kind # "forward"
  <2> DEFINE copies == IF kind = "all" THEN cc ELSE <<>>
             refs == ReplyReferences(n)
  <2>1. d = [from |-> <<Self>>, replyTo |-> <<>>, to |-> to, cc |-> copies, refs |-> refs,
             parent |-> n, kind |-> kind, on |-> n, self |-> self]
      BY <1>7 DEF Prepared
  <2>2. copies \in Seq(Addresses)
      BY <1>3, <1>4
  <2>3. copies = cc \/ kind # "all"
      OBVIOUS
  <2> HIDE DEF to, cc, copies, refs, d
  <2>4. refs \in Seq(Nat)
      BY <1>5 DEF refs
  <2>5. d \in Mails
      BY <1>1, <1>2, <1>3, <1>4, <1>7, <2>1, <2>2, <2>4 DEF Mails
  <2>6. Signed(d) /\ d.to # <<>>
      BY <1>3, <1>4, <2>1 DEF Signed
  <2>7. kind = "all" /\ m.replyTo = <<>> => Present(m) \subseteq Present(d) \cup {""}
      BY <1>3, <1>4, <2>1, <2>3 DEF Present
  <2>8. Answers(d, m, n)
    <3>1. d.parent = n /\ d.kind = kind /\ d.replyTo = <<>> /\ kind \in {"reply", "all"} /\ d.self = self
        BY <1>7, <2>1
    <3>2. kind = "all" => d.to \o d.cc = to \o cc /\ d.cc = cc
        BY <2>1, <2>3
    <3>3. \/ d.refs = Append(m.refs, n)
          \/ m.refs = <<>> /\ m.parent # 0 /\ d.refs = <<m.parent, n>>
        BY <1>5, <2>1 DEF refs
    <3> QED
        BY <1>3, <2>7, <3>1, <3>2, <3>3 DEF Answers
  <2>9. d.parent = n /\ \A i \in DOMAIN d.refs : d.refs[i] <= d.parent
      BY <1>5, <2>1 DEF refs
  <2> QED
      BY <2>5, <2>6, <2>8, <2>9 DEF Sendable, d
<1> QED
    BY <1>6, <1>7

LEMMA TheirsIsSendable ==
    ASSUME Sound(talk), NEW n \in DOMAIN talk, NEW p, p \in ToSet(talk[n].to) \cup ToSet(talk[n].cc),
           NEW refs \in {<<>>, Append(talk[n].refs, n)},
           NEW cc \in {ToAndCc(talk[n]), ReplyAllCc(talk[n], ReplyToRecipients(talk[n]), p)}
    PROVE  Sendable([from |-> <<p>>, replyTo |-> <<>>, to |-> ReplyToRecipients(talk[n]), cc |-> cc,
                     refs |-> refs, parent |-> n, kind |-> "theirs", on |-> n, self |-> p], talk)
<1> DEFINE m == talk[n]
           to == ReplyToRecipients(m)
           d == [from |-> <<p>>, replyTo |-> <<>>, to |-> to, cc |-> cc, refs |-> refs,
                 parent |-> n, kind |-> "theirs", on |-> n, self |-> p]
<1>1. m \in Mails /\ Signed(m) /\ n \in Nat \ {0}
    BY TalkEnds DEF Sound
<1>2. p \in Addresses
  <2>1. m.to \in Seq(Addresses) /\ m.cc \in Seq(Addresses)
      BY <1>1 DEF Mails
  <2> QED
      BY <2>1, ElementOfSeq, LenProperties DEF ToSet
<1>3. /\ to \in Seq(Addresses) /\ cc \in Seq(Addresses)
      /\ m.replyTo = <<>> => Present(m) \subseteq ToSet(to) \cup ToSet(cc) \cup {p}
    BY <1>1, AllAreAnswered
<1>4. /\ <<p>> \in Seq(Addresses) /\ <<p>> # <<>> /\ IsInjective(<<p>>) /\ ToSet(<<p>>) = {p}
      /\ <<>> \in Seq(Addresses) /\ <<>> \in Seq(Nat) /\ IsInjective(<<>>)
    BY <1>2, OneElement DEF IsInjective
<1>5. refs \in Seq(Nat) /\ \A i \in DOMAIN refs : refs[i] <= n
  <2>1. <<>> \in Seq(Nat) /\ DOMAIN <<>> = {}
      OBVIOUS
  <2> QED
      BY <2>1, References
<1> HIDE DEF to
<1>6. d \in Mails /\ Signed(d)
    BY <1>1, <1>2, <1>3, <1>4, <1>5 DEF Mails, Signed
<1>7. Answers(d, m, n)
  <2>1. m.replyTo = <<>> => Present(m) \subseteq Present(d) \cup {""}
      BY <1>3, <1>4 DEF Present
  <2> QED
      BY <2>1 DEF Answers
<1> QED
    BY <1>5, <1>6, <1>7 DEF Sendable, to

LEMMA SentKeepsInv ==
    ASSUME RepliesInv, NEW d, Sendable(d, talk), talk' = Append(talk, d),
           replying' \subseteq replying, prepared' \subseteq prepared
    PROVE  RepliesInv'
<1>1. Sound(talk) /\ ChainsAreKept(talk) /\ d \in Mails
    BY DEF RepliesInv, Sendable
<1>2. Sound(talk') /\ ChainsAreKept(talk')
    BY <1>1, SentIsSound, SentKeepsChains
<1>3. /\ DOMAIN talk = 1 .. Len(talk) /\ Len(talk) \in Nat /\ DOMAIN talk' = DOMAIN talk \cup {Len(talk) + 1}
      /\ \A j \in DOMAIN talk : talk'[j] = talk[j]
    BY <1>1, TalkGrows
<1>4. \A e : Sendable(e, talk) => Sendable(e, talk')
    BY <1>3 DEF Sendable
<1> QED
    BY <1>2, <1>3, <1>4 DEF RepliesInv

LEMMA NothingIsSound == Sound(<<>>) /\ ChainsAreKept(<<>>)
<1>1. <<>> \in Seq(Mails) /\ DOMAIN <<>> = {}
    BY NoElement
<1> QED
    BY <1>1 DEF Sound, ChainsAreKept

LEMMA OpenerIsSendable ==
    ASSUME NEW m \in Openers
    PROVE  Sendable(m, <<>>) /\ Append(<<>>, m) = <<m>>
<1>1. /\ m \in [from : Seq(STRING) \ {<<>>}, replyTo : Seq(STRING), to : Seq(STRING), cc : Seq(STRING),
                refs : {<<>>}, parent : {0}, kind : {"first"}, on : {0}, self : {""}]
      /\ IsInjective(m.from) /\ IsInjective(m.replyTo)
    BY RepliesAssumption
<1>2. \A w \in Seq(STRING) : w \in Seq(Addresses)
    BY SeqMonotonic DEF Addresses
<1>3. <<>> \in Seq(Nat) /\ "" \in Addresses
    BY NoElement DEF Addresses
<1>4. m \in Mails
  <2>1. /\ m = [from |-> m.from, replyTo |-> m.replyTo, to |-> m.to, cc |-> m.cc, refs |-> <<>>,
                parent |-> 0, kind |-> "first", on |-> 0, self |-> ""]
        /\ m.from \in Seq(STRING) /\ m.replyTo \in Seq(STRING) /\ m.to \in Seq(STRING) /\ m.cc \in Seq(STRING)
      BY <1>1
  <2>2. /\ m.from \in Seq(Addresses) /\ m.replyTo \in Seq(Addresses)
        /\ m.to \in Seq(Addresses) /\ m.cc \in Seq(Addresses)
      BY <1>2, <2>1
  <2>3. \A a, b, c, e \in Seq(Addresses) :
            [from |-> a, replyTo |-> b, to |-> c, cc |-> e, refs |-> <<>>,
             parent |-> 0, kind |-> "first", on |-> 0, self |-> ""] \in Mails
      BY <1>3 DEF Mails
  <2> QED
      BY <2>1, <2>2, <2>3
<1>5. Signed(m) /\ Alone(m)
    BY <1>1 DEF Signed, Alone
<1>6. Append(<<>>, m) = <<m>>
    OBVIOUS
<1> QED
    BY <1>4, <1>5, <1>6 DEF Sendable

(* Every step keeps the conversation, the calls and the drafts sound.      *)
LEMMA RepliesStep == RepliesInv /\ [RepliesNext]_replyVars => RepliesInv'
<1> SUFFICES ASSUME RepliesInv, [RepliesNext]_replyVars PROVE RepliesInv'
    OBVIOUS
<1>1. /\ Sound(talk) /\ ChainsAreKept(talk)
      /\ \A r \in replying :
            r.kind \in {"reply", "all", "forward"} /\ r.on \in DOMAIN talk /\ r.self \in {Self, ""}
      /\ \A d \in prepared : Sendable(d, talk) /\ (d.to = <<>> => d.kind = "forward")
    BY DEF RepliesInv
<1>2. CASE UNCHANGED replyVars
    BY <1>2 DEF RepliesInv, replyVars
<1>3. ASSUME NEW m \in Openers, Opens(m) PROVE RepliesInv'
    BY <1>3, OpenerIsSendable, SentKeepsInv DEF Opens
<1>4. ASSUME NEW n \in DOMAIN talk, NEW kind \in {"reply", "all", "forward"}, OpenReply(kind, n)
      PROVE  RepliesInv'
  <2>1. PICK self \in {Self, ""} : replying' = replying \cup {[kind |-> kind, on |-> n, self |-> self]}
      BY <1>4 DEF OpenReply
  <2>2. talk' = talk /\ prepared' = prepared
      BY <1>4 DEF OpenReply
  <2>3. ASSUME NEW r \in replying'
        PROVE  r.kind \in {"reply", "all", "forward"} /\ r.on \in DOMAIN talk /\ r.self \in {Self, ""}
    <3>1. CASE r \in replying
        BY <1>1, <3>1
    <3>2. CASE r = [kind |-> kind, on |-> n, self |-> self]
        BY <3>2
    <3> QED
        BY <2>1, <3>1, <3>2
  <2> QED
      BY <1>1, <2>2, <2>3 DEF RepliesInv
<1>5. ASSUME NEW n \in DOMAIN talk, NEW p \in ToSet(talk[n].to) \cup ToSet(talk[n].cc), TheirReply(n, p)
      PROVE  RepliesInv'
  <2>1. PICK refs \in {<<>>, Append(talk[n].refs, n)},
             cc \in {ToAndCc(talk[n]), ReplyAllCc(talk[n], ReplyToRecipients(talk[n]), p)} :
               talk' = Append(talk, [from |-> <<p>>, replyTo |-> <<>>, to |-> ReplyToRecipients(talk[n]),
                                     cc |-> cc, refs |-> refs,
                                     parent |-> n, kind |-> "theirs", on |-> n, self |-> p])
      BY <1>5 DEF TheirReply
  <2>2. replying' = replying /\ prepared' = prepared
      BY <1>5 DEF TheirReply
  <2> QED
      BY <1>1, <2>1, <2>2, TheirsIsSendable, SentKeepsInv
<1>6. ASSUME NEW r \in replying, SaveDraft(r) PROVE RepliesInv'
  <2>1. /\ Sendable(Prepared(r.kind, r.on, r.self), talk)
        /\ Prepared(r.kind, r.on, r.self).to = <<>> => Prepared(r.kind, r.on, r.self).kind = "forward"
      BY <1>1, PreparedIsSendable
  <2> QED
      BY <1>1, <1>6, <2>1 DEF SaveDraft, RepliesInv
<1>7. ASSUME NEW r \in replying, DraftFails(r) PROVE RepliesInv'
    BY <1>1, <1>7 DEF DraftFails, RepliesInv
<1>8. ASSUME NEW d \in prepared, SendReply(d) PROVE RepliesInv'
  <2> DEFINE e == IF d.to = <<>> THEN [d EXCEPT !.to = <<"new">>] ELSE d
  <2>1. Sendable(d, talk) /\ (d.to = <<>> => d.kind = "forward")
      BY <1>1
  <2>2. Sendable(e, talk)
    <3>1. CASE d.to = <<>>
      <4>1. e = [d EXCEPT !.to = <<"new">>] /\ d \in Mails /\ Signed(d) /\ Alone(d)
          BY <2>1, <3>1 DEF Sendable, Answers
      <4>2. <<"new">> \in Seq(Addresses)
          BY OneElement DEF Addresses
      <4>3. /\ e \in Mails /\ e.from = d.from /\ e.replyTo = d.replyTo /\ e.parent = d.parent
            /\ e.refs = d.refs /\ e.kind = d.kind
          BY <4>1, <4>2 DEF Mails
      <4> HIDE DEF e
      <4> QED
          BY <4>1, <4>3 DEF Sendable, Signed, Alone
    <3>2. CASE d.to # <<>>
        BY <2>1, <3>2
    <3> QED
        BY <3>1, <3>2
  <2>3. talk' = Append(talk, e) /\ replying' = replying /\ prepared' \subseteq prepared
      BY <1>8 DEF SendReply
  <2> HIDE DEF e
  <2> QED
      BY <2>2, <2>3, SentKeepsInv
<1> QED
    BY <1>2, <1>3, <1>4, <1>5, <1>6, <1>7, <1>8 DEF RepliesNext

(* What the invariant says of every answer is what the property asks.      *)
LEMMA RepliesConclude == ASSUME RepliesInv PROVE RepliesReachEveryone
<1> SUFFICES ASSUME NEW n \in DOMAIN talk
             PROVE  LET m == talk[n]
                        chain == Chain(talk, n)
                    IN  /\ m.kind = "all" => /\ m.self = Self => Self \notin ToSet(m.cc)
                                             /\ IsInjective(m.to \o m.cc)
                        /\ Public(talk, n) => \A k \in chain : Present(talk[k]) \subseteq Present(m) \cup {""}
                        /\ m.kind \in {"reply", "all"} =>
                              /\ Last(m.refs) = m.parent
                              /\ Linked(talk, n) => chain \ {n} = ToSet(m.refs)
    BY DEF RepliesReachEveryone, Public, Linked
<1> DEFINE m == talk[n]
<1>1. /\ Public(talk, n) => \A k \in Chain(talk, n) : Present(talk[k]) \subseteq Present(m) \cup {""}
      /\ Linked(talk, n) => Chain(talk, n) \ {n} = ToSet(m.refs)
    BY DEF RepliesInv, ChainsAreKept
<1>2. Sound(talk) /\ m \in Mails
    BY TalkEnds DEF RepliesInv
<1>3. ASSUME m.kind \in {"reply", "all"}
      PROVE  Answers(m, talk[m.parent], m.parent) /\ m.parent \in DOMAIN talk
    BY <1>2, <1>3, ChainGoesUp DEF Sound, Alone
<1>4. ASSUME m.kind \in {"reply", "all"} PROVE Last(m.refs) = m.parent
  <2> DEFINE p == m.parent
             r == talk[p].refs
  <2>1. \/ m.refs = Append(r, p)
        \/ talk[p].parent # 0 /\ m.refs = <<talk[p].parent, p>>
      BY <1>3, <1>4 DEF Answers
  <2>2. p \in Nat /\ r \in Seq(Nat) /\ talk[p].parent \in Nat
      BY <1>2, <1>3, <1>4, TalkEnds DEF Mails
  <2> HIDE DEF p, r
  <2>3. Last(m.refs) = p
    <3>1. Len(Append(r, p)) = Len(r) + 1 /\ Append(r, p)[Len(r) + 1] = p
        BY <2>2
    <3>2. Len(<<talk[p].parent, p>>) = 2 /\ <<talk[p].parent, p>>[2] = p
        OBVIOUS
    <3> QED
        BY <2>1, <3>1, <3>2 DEF Last
  <2> QED
      BY <2>3 DEF p
<1>5. m.kind = "all" => (m.self = Self => Self \notin ToSet(m.cc)) /\ IsInjective(m.to \o m.cc)
    BY <1>3 DEF Answers
<1> QED
    BY <1>1, <1>4, <1>5

(* A conversation kept up with reply-all loses nobody, copies nobody twice *)
(* and not the user, and its references are the chain of what was          *)
(* answered, with any openers, people and length (reply_all_cc,            *)
(* reply_references, open_reply).                                          *)
THEOREM AnswersReachEveryone == RepliesSpec => []RepliesReachEveryone
<1>1. RepliesInit => RepliesInv
    BY NothingIsSound DEF RepliesInit, RepliesInv
<1>2. RepliesInv => RepliesReachEveryone
    BY RepliesConclude
<1> QED
    BY <1>1, <1>2, RepliesStep, PTL DEF RepliesSpec

-----------------------------------------------------------------------------
(* Delivery: a built message is a head of folded headers and a body. The   *)
(* pass of strip_bcc_header over its lines is followed line by line, and   *)
(* extract_envelope header by header.                                      *)

Words == STRING \cup {"", "me", "quoted"}
HeaderNames == {"From", "Subject", "To", "Cc", "Bcc", "References"}
Lines == [name : HeaderNames \cup {"", "text"}, who : Words, continues : BOOLEAN]

(* What heads a message: no line of it is empty, and the first line names  *)
(* a header.                                                               *)
Heads(x) ==
    /\ x \in Seq(Lines)
    /\ \A i \in DOMAIN x : x[i] # EmptyLine /\ (i = 1 => ~x[i].continues)

(* A header has its name on the first line and an address on every line.   *)
LEMMA HeaderLines ==
    ASSUME NEW n \in HeaderNames, NEW p \in Seq(Words)
    PROVE  /\ Header(n, p) \in Seq(Lines) /\ Len(Header(n, p)) = Len(p) /\ Len(p) \in Nat
           /\ \A i \in 1 .. Len(p) :
                 /\ Header(n, p)[i].who = p[i] /\ Header(n, p)[i] # EmptyLine
                 /\ i = 1 => ~Header(n, p)[i].continues /\ Header(n, p)[i].name = n
                 /\ i # 1 => Header(n, p)[i].continues
           /\ Heads(Header(n, p))
<1>1. Len(p) \in Nat /\ DOMAIN p = 1 .. Len(p) /\ \A i \in 1 .. Len(p) : p[i] \in Words
    BY LenProperties, ElementOfSeq
<1> DEFINE h == Header(n, p)
<1>2. h = [i \in 1 .. Len(p) |-> IF i = 1 THEN Line(n, p[1]) ELSE Folded(p[i])]
    BY <1>1 DEF Header
<1>3. ASSUME NEW w \in Words
      PROVE  /\ Line(n, w) \in Lines /\ Line(n, w).who = w /\ Line(n, w).name = n /\ ~Line(n, w).continues
             /\ Folded(w) \in Lines /\ Folded(w).who = w /\ Folded(w).continues
             /\ Line(n, w) # EmptyLine /\ Folded(w) # EmptyLine
  <2>1. /\ Line(n, w).who = w /\ Line(n, w).name = n /\ Line(n, w).continues = FALSE
        /\ Folded(w).who = w /\ Folded(w).continues = TRUE
        /\ EmptyLine.name = "" /\ EmptyLine.continues = FALSE
      BY DEF Line, Folded, EmptyLine
  <2>2. Line(n, w) \in Lines /\ Folded(w) \in Lines
      BY DEF Line, Folded, Lines
  <2>3. n # ""
      BY DEF HeaderNames
  <2> QED
      BY <2>1, <2>2, <2>3
<1>4. \A i \in 1 .. Len(p) : h[i] = IF i = 1 THEN Line(n, p[1]) ELSE Folded(p[i])
    BY <1>2
<1>5. \A i \in 1 .. Len(p) :
         /\ h[i] \in Lines /\ h[i].who = p[i] /\ h[i] # EmptyLine
         /\ i = 1 => ~h[i].continues /\ h[i].name = n
         /\ i # 1 => h[i].continues
  <2> SUFFICES ASSUME NEW i \in 1 .. Len(p)
               PROVE  /\ h[i] \in Lines /\ h[i].who = p[i] /\ h[i] # EmptyLine
                      /\ i = 1 => ~h[i].continues /\ h[i].name = n
                      /\ i # 1 => h[i].continues
      OBVIOUS
  <2>1. p[i] \in Words /\ p[i] \in Words /\ h[i] = IF i = 1 THEN Line(n, p[1]) ELSE Folded(p[i])
      BY <1>1, <1>4
  <2> HIDE DEF h
  <2> QED
      BY <1>3, <2>1
<1>6. h \in Seq(Lines) /\ Len(h) = Len(p)
  <2>1. DOMAIN h = 1 .. Len(p) /\ h \in [1 .. Len(p) -> Lines]
      BY <1>2, <1>5
  <2> HIDE DEF h
  <2>2. h \in Seq(Lines)
      BY <1>1, <2>1
  <2> QED
      BY <1>1, <2>1, <2>2, LenProperties
<1> HIDE DEF h
<1>7. Heads(h)
    BY <1>1, <1>5, <1>6, LenProperties DEF Heads
<1> QED
    BY <1>1, <1>5, <1>6, <1>7 DEF h

(* Heads joined make a head.                                               *)
LEMMA HeadsJoin ==
    ASSUME NEW x, Heads(x), NEW y, Heads(y)
    PROVE  Heads(x \o y)
<1> DEFINE w == x \o y
<1>1. x \in Seq(Lines) /\ y \in Seq(Lines)
    BY DEF Heads
<1>2. /\ w \in Seq(Lines) /\ Len(w) = Len(x) + Len(y) /\ Len(x) \in Nat /\ Len(y) \in Nat
      /\ \A i \in 1 .. Len(x) : w[i] = x[i]
      /\ \A i \in 1 .. Len(y) : w[Len(x) + i] = y[i]
    BY <1>1, Joined
<1>3. DOMAIN w = 1 .. Len(x) + Len(y) /\ DOMAIN x = 1 .. Len(x) /\ DOMAIN y = 1 .. Len(y)
    BY <1>1, <1>2, LenProperties
<1> HIDE DEF w
<1>4. ASSUME NEW i \in 1 .. Len(x) + Len(y) PROVE w[i] # EmptyLine /\ (i = 1 => ~w[i].continues)
  <2>1. CASE i \in 1 .. Len(x)
      BY <1>2, <1>3, <2>1 DEF Heads
  <2>2. CASE i \notin 1 .. Len(x)
    <3>1. i - Len(x) \in 1 .. Len(y) /\ i = Len(x) + (i - Len(x)) /\ (i = 1 => i - Len(x) = 1)
        BY <1>2, <2>2
    <3>2. w[i] = y[i - Len(x)]
        BY <1>2, <3>1
    <3> QED
        BY <1>3, <3>1, <3>2 DEF Heads
  <2> QED
      BY <2>1, <2>2
<1> QED
    BY <1>2, <1>3, <1>4 DEF Heads, w

(* The headers of a message are what stands before its first empty line.   *)
LEMMA HeadEnds ==
    ASSUME NEW x, Heads(x), NEW b \in Seq(Lines), b # <<>>, b[1] = EmptyLine
    PROVE  HeadersEnd(x \o b) = Len(x)
<1> DEFINE w == x \o b
<1>1. x \in Seq(Lines) /\ Len(b) \in Nat /\ Len(b) # 0
    BY EmptySeq DEF Heads
<1>2. /\ w \in Seq(Lines) /\ Len(w) = Len(x) + Len(b) /\ Len(x) \in Nat
      /\ \A i \in 1 .. Len(x) : w[i] = x[i]
      /\ \A i \in 1 .. Len(b) : w[Len(x) + i] = b[i]
    BY <1>1, Joined
<1>3. DOMAIN w = 1 .. Len(x) + Len(b) /\ DOMAIN x = 1 .. Len(x)
    BY <1>1, <1>2, LenProperties
<1> HIDE DEF w
<1>4. w[Len(x) + 1] = EmptyLine /\ Len(x) + 1 \in DOMAIN w
  <2>1. 1 \in 1 .. Len(b)
      BY <1>1
  <2> QED
      BY <1>1, <1>2, <1>3, <2>1
<1>5. \A i \in 1 .. Len(x) : w[i] # EmptyLine
    BY <1>2, <1>3 DEF Heads
<1> DEFINE blanks == {i \in DOMAIN w : w[i] = EmptyLine}
<1>6. Len(x) + 1 \in blanks /\ \A j \in blanks : Len(x) + 1 <= j
    BY <1>2, <1>3, <1>4, <1>5
<1>7. \A i \in blanks : (\A j \in blanks : i <= j) => i = Len(x) + 1
    BY <1>2, <1>3, <1>6
<1>8. (CHOOSE i \in blanks : \A j \in blanks : i <= j) = Len(x) + 1
  <2> HIDE DEF blanks
  <2> QED
      BY <1>6, <1>7
<1>9. HeadersEnd(w) = IF blanks = {} THEN Len(w) ELSE (CHOOSE i \in blanks : \A j \in blanks : i <= j) - 1
    BY DEF HeadersEnd
<1> HIDE DEF blanks
<1>10. HeadersEnd(w) = (Len(x) + 1) - 1
    BY <1>6, <1>8, <1>9
<1> QED
    BY <1>2, <1>10 DEF w

(* The loop of strip_bcc_header drops the Bcc header with its continuation *)
(* lines and nothing else.                                                 *)
LEMMA Stripped ==
    ASSUME NEW A, Heads(A), NEW B, Heads(B), NEW C, Heads(C),
           NEW b \in Seq(Lines), b # <<>>, b[1] = EmptyLine,
           \A i \in DOMAIN A : ~A[i].continues => A[i].name # "Bcc",
           \A i \in DOMAIN B : IF i = 1 THEN B[i].name = "Bcc" ELSE B[i].continues,
           \A i \in DOMAIN C : ~C[i].continues => C[i].name # "Bcc"
    PROVE  StripBcc(((A \o B) \o C) \o b) = (A \o C) \o b
<1> DEFINE H == (A \o B) \o C
           L == H \o b
           W == A \o C
           m == Len(A)
           n == Len(B)
           end == HeadersEnd(L)
           K(i) == IF i <= m THEN i ELSE IF i <= m + n THEN m ELSE i - n
           Skips(i) == IF i > m /\ i <= m + n THEN TRUE ELSE FALSE
           After(acc, l) ==
               LET skip == IF TRUE /\ l.continues THEN acc.skipping ELSE l.name = "Bcc"
               IN  [out |-> IF skip THEN acc.out ELSE Append(acc.out, l), skipping |-> skip]
           pass[i \in 0 .. end] ==
               IF i = 0 THEN [out |-> <<>>, skipping |-> FALSE] ELSE After(pass[i - 1], L[i])
           g == [i \in 0 .. end |-> [out |-> SubSeq(W, 1, K(i)), skipping |-> Skips(i)]]
<1>1. /\ A \in Seq(Lines) /\ B \in Seq(Lines) /\ C \in Seq(Lines)
      /\ m \in Nat /\ n \in Nat /\ Len(C) \in Nat
      /\ DOMAIN A = 1 .. m /\ DOMAIN B = 1 .. n /\ DOMAIN C = 1 .. Len(C)
    BY LenProperties DEF Heads
<1>2. /\ A \o B \in Seq(Lines) /\ Len(A \o B) = m + n
      /\ \A i \in 1 .. m : (A \o B)[i] = A[i]
      /\ \A i \in 1 .. n : (A \o B)[m + i] = B[i]
    BY <1>1, Joined
<1>3. /\ H \in Seq(Lines) /\ Len(H) = (m + n) + Len(C)
      /\ \A i \in 1 .. m + n : H[i] = (A \o B)[i]
      /\ \A i \in 1 .. Len(C) : H[(m + n) + i] = C[i]
    BY <1>1, <1>2, Joined
<1>4. /\ L \in Seq(Lines) /\ \A i \in 1 .. Len(H) : L[i] = H[i]
    BY <1>3, Joined
<1>5. /\ W \in Seq(Lines) /\ Len(W) = m + Len(C)
      /\ \A i \in 1 .. m : W[i] = A[i]
      /\ \A i \in 1 .. Len(C) : W[m + i] = C[i]
    BY <1>1, Joined
<1>6. Heads(H) /\ end = (m + n) + Len(C)
    BY <1>3, HeadsJoin, HeadEnds
<1>7. SubSeq(L, end + 1, Len(L)) = b
    BY <1>3, <1>6, Rest
<1> HIDE DEF H, L, W, end, m, n
<1>8. ASSUME NEW i \in 1 .. end
      PROVE  /\ i <= m => L[i] = A[i] /\ L[i] = W[i] /\ i \in DOMAIN A
             /\ i > m /\ i <= m + n => L[i] = B[i - m] /\ i - m \in DOMAIN B
             /\ i > m + n => /\ L[i] = C[i - (m + n)] /\ L[i] = W[i - n] /\ i - (m + n) \in DOMAIN C
  <2>1. L[i] = H[i]
      BY <1>3, <1>4, <1>6
  <2>2. CASE i <= m
    <3>1. i \in 1 .. m /\ i \in 1 .. m + n
        BY <1>1, <2>2
    <3> QED
        BY <1>1, <1>2, <1>3, <1>5, <2>1, <2>2, <3>1
  <2>3. CASE i > m /\ i <= m + n
    <3>1. i - m \in 1 .. n /\ m + (i - m) = i /\ i \in 1 .. m + n
        BY <1>1, <2>3
    <3>2. H[i] = B[i - m]
        BY <1>2, <1>3, <3>1
    <3> QED
        BY <1>1, <2>1, <2>3, <3>1, <3>2
  <2>4. CASE i > m + n
    <3>1. i - (m + n) \in 1 .. Len(C) /\ (m + n) + (i - (m + n)) = i /\ m + (i - (m + n)) = i - n
        BY <1>1, <1>6, <2>4
    <3>2. H[i] = C[i - (m + n)] /\ W[i - n] = C[i - (m + n)]
        BY <1>3, <1>5, <3>1
    <3> QED
        BY <1>1, <2>1, <2>4, <3>1, <3>2
  <2> QED
      BY <1>1, <2>2, <2>3, <2>4
<1>9. ASSUME NEW i \in 1 .. end
      PROVE  (IF L[i].continues THEN Skips(i - 1) ELSE L[i].name = "Bcc") = Skips(i)
  <2>1. CASE i <= m
    <3>1. L[i] = A[i] /\ (~A[i].continues => A[i].name # "Bcc")
        BY <1>8, <2>1
    <3>2. Skips(i) = FALSE /\ Skips(i - 1) = FALSE
        BY <1>1, <2>1
    <3> HIDE DEF Skips
    <3> QED
        BY <3>1, <3>2
  <2>2. CASE i > m /\ i <= m + n
    <3>1. L[i] = B[i - m] /\ i - m \in DOMAIN B
        BY <1>8, <2>2
    <3>2. Skips(i) = TRUE /\ (i - m # 1 => Skips(i - 1) = TRUE)
        BY <1>1, <2>2
    <3>3. IF i - m = 1 THEN ~B[i - m].continues /\ B[i - m].name = "Bcc" ELSE B[i - m].continues
        BY <3>1 DEF Heads
    <3> HIDE DEF Skips
    <3> QED
        BY <3>1, <3>2, <3>3
  <2>3. CASE i > m + n
    <3>1. L[i] = C[i - (m + n)] /\ i - (m + n) \in DOMAIN C
        BY <1>8, <2>3
    <3>2. Skips(i) = FALSE /\ (i - (m + n) # 1 => Skips(i - 1) = FALSE)
        BY <1>1, <2>3
    <3>3. /\ i - (m + n) = 1 => ~C[i - (m + n)].continues
          /\ ~C[i - (m + n)].continues => C[i - (m + n)].name # "Bcc"
        BY <3>1 DEF Heads
    <3> HIDE DEF Skips
    <3> QED
        BY <3>1, <3>2, <3>3
  <2> HIDE DEF Skips
  <2> QED
      BY <1>1, <2>1, <2>2, <2>3
<1>10. ASSUME NEW i \in 1 .. end
       PROVE  IF Skips(i) THEN K(i) = K(i - 1)
              ELSE /\ K(i - 1) \in Nat /\ K(i - 1) < Len(W) /\ K(i) = K(i - 1) + 1 /\ L[i] = W[K(i - 1) + 1]
  <2>1. CASE i <= m
    <3>1. K(i) = i /\ K(i - 1) = i - 1 /\ Skips(i) = FALSE /\ i - 1 \in Nat /\ i - 1 < Len(W) /\ (i - 1) + 1 = i
        BY <1>1, <1>5, <2>1
    <3>2. L[i] = W[i]
        BY <1>8, <2>1
    <3> HIDE DEF K, Skips
    <3> QED
        BY <3>1, <3>2
  <2>2. CASE i > m /\ i <= m + n
    <3>1. K(i) = m /\ K(i - 1) = m /\ Skips(i) = TRUE
        BY <1>1, <2>2
    <3> HIDE DEF K, Skips
    <3> QED
        BY <3>1
  <2>3. CASE i > m + n
    <3>1. /\ K(i) = i - n /\ K(i - 1) = (i - 1) - n /\ Skips(i) = FALSE
          /\ (i - 1) - n \in Nat /\ (i - 1) - n < Len(W) /\ ((i - 1) - n) + 1 = i - n
        BY <1>1, <1>5, <1>6, <2>3
    <3>2. L[i] = W[i - n]
        BY <1>8, <2>3
    <3> HIDE DEF K, Skips
    <3> QED
        BY <3>1, <3>2
  <2> QED
      BY <1>1, <2>1, <2>2, <2>3
<1>11. K(0) = 0 /\ Skips(0) = FALSE /\ K(end) = Len(W) /\ end \in Nat
    BY <1>1, <1>5, <1>6
<1> HIDE DEF K, Skips
<1>12. ASSUME NEW i \in 1 .. end
       PROVE  After([out |-> SubSeq(W, 1, K(i - 1)), skipping |-> Skips(i - 1)], L[i])
                  = [out |-> SubSeq(W, 1, K(i)), skipping |-> Skips(i)]
  <2> DEFINE acc == [out |-> SubSeq(W, 1, K(i - 1)), skipping |-> Skips(i - 1)]
             skip == IF TRUE /\ L[i].continues THEN acc.skipping ELSE L[i].name = "Bcc"
  <2>1. skip = Skips(i)
      BY <1>9
  <2>2. After(acc, L[i]) = [out |-> IF skip THEN acc.out ELSE Append(acc.out, L[i]), skipping |-> skip]
      OBVIOUS
  <2>3. acc.out = SubSeq(W, 1, K(i - 1))
      OBVIOUS
  <2> HIDE DEF skip, acc, After
  <2>4. (IF Skips(i) THEN acc.out ELSE Append(acc.out, L[i])) = SubSeq(W, 1, K(i))
    <3>1. CASE Skips(i)
        BY <1>10, <2>3, <3>1
    <3>2. CASE ~Skips(i)
      <4>1. /\ K(i - 1) \in Nat /\ K(i - 1) < Len(W) /\ K(i) = K(i - 1) + 1
            /\ L[i] = W[K(i - 1) + 1]
          BY <1>10, <3>2
      <4>2. SubSeq(W, 1, K(i - 1) + 1) = Append(SubSeq(W, 1, K(i - 1)), W[K(i - 1) + 1])
          BY <1>5, <4>1, OneMore
      <4> QED
          BY <2>3, <3>2, <4>1, <4>2
    <3> QED
        BY <3>1, <3>2
  <2> QED
      BY <2>1, <2>2, <2>4 DEF acc
<1>13. SubSeq(W, 1, K(0)) = <<>>
  <2>1. 0 \in 0 .. Len(W)
      BY <1>1, <1>5
  <2>2. SubSeq(W, 1, 0) \in Seq(Lines) /\ Len(SubSeq(W, 1, 0)) = 0
      BY <1>5, <2>1, Begun
  <2> QED
      BY <1>11, <2>2, EmptySeq
<1>14. g = [i \in 0 .. end |-> IF i = 0 THEN [out |-> <<>>, skipping |-> FALSE] ELSE After(g[i - 1], L[i])]
  <2> HIDE DEF After
  <2>1. ASSUME NEW i \in 0 .. end
        PROVE  g[i] = IF i = 0 THEN [out |-> <<>>, skipping |-> FALSE] ELSE After(g[i - 1], L[i])
    <3>1. CASE i = 0
        BY <1>11, <1>13, <3>1
    <3>2. CASE i # 0
      <4>1. i \in 1 .. end /\ i - 1 \in 0 .. end
          BY <1>11, <3>2
      <4> QED
          BY <1>12, <3>2, <4>1
    <3> QED
        BY <3>1, <3>2
  <2> QED
      BY <2>1
<1>15. pass = [i \in 0 .. end |->
                  IF i = 0 THEN [out |-> <<>>, skipping |-> FALSE] ELSE After(pass[i - 1], L[i])]
  <2> HIDE DEF After, g
  <2> QED
      BY <1>14
<1> DEFINE Follows(f) == \A i \in 1 .. end : f[i] = After(f[i - 1], L[i])
<1>16. Follows(pass) /\ Follows(g)
  <2> HIDE DEF After, g, pass
  <2>1. \A i \in 1 .. end : i \in 0 .. end /\ i # 0
      BY <1>11
  <2>2. \A i \in 0 .. end : i # 0 => g[i] = After(g[i - 1], L[i])
      BY <1>14
  <2>3. \A i \in 0 .. end : i # 0 => pass[i] = After(pass[i - 1], L[i])
      BY <1>15
  <2> QED
      BY <2>1, <2>2, <2>3
<1>17. StripBcc(L) = pass[end].out \o SubSeq(L, end + 1, Len(L))
    BY DEF StripBcc, Keep, end
<1> HIDE DEF pass, After
<1> DEFINE S == {i \in Nat : i <= end => pass[i] = g[i]}
<1>18. 0 \in S
  <2>1. pass[0] = [out |-> <<>>, skipping |-> FALSE] /\ g[0] = [out |-> <<>>, skipping |-> FALSE]
    <3> HIDE DEF g
    <3> QED
        BY <1>11, <1>14, <1>15
  <2> QED
      BY <2>1
<1>19. ASSUME NEW i \in Nat, i \in S PROVE i + 1 \in S
  <2> HIDE DEF g
  <2> SUFFICES ASSUME i + 1 <= end PROVE pass[i + 1] = g[i + 1]
      OBVIOUS
  <2>1. i + 1 \in 0 .. end /\ i + 1 # 0 /\ (i + 1) - 1 = i /\ i <= end
      BY <1>11
  <2>2. pass[i + 1] = After(pass[i], L[i + 1]) /\ g[i + 1] = After(g[i], L[i + 1])
    <3>1. i + 1 \in 1 .. end
        BY <1>11
    <3> QED
        BY <1>16, <2>1, <3>1
  <2>3. pass[i] = g[i]
      BY <1>19, <2>1
  <2> QED
      BY <2>2, <2>3
<1>20. pass[end] = g[end]
  <2> HIDE DEF S
  <2>1. Nat \subseteq S
      BY <1>18, <1>19, NatSet
  <2>2. end \in S
      BY <1>11, <2>1
  <2> QED
      BY <1>11, <2>2 DEF S
<1>21. pass[end].out = W
  <2>1. g[end].out = SubSeq(W, 1, Len(W))
      BY <1>11
  <2>2. SubSeq(W, 1, Len(W)) = W
      BY <1>5, SubSeqFull
  <2> QED
      BY <1>20, <2>1, <2>2
<1>22. StripBcc(L) = W \o b
    BY <1>7, <1>17, <1>21
<1> QED
    BY <1>22 DEF L, H, W

(* The header that a line belongs to is the last one that begins at or     *)
(* above it: it does not depend on what follows, and is the new one for    *)
(* the lines of a header that is added.                                    *)
LEMMA HeaderStays ==
    ASSUME NEW x, Heads(x), NEW y, Heads(y), NEW i \in 1 .. Len(x)
    PROVE  HeaderOf(x \o y, i) = HeaderOf(x, i)
<1> DEFINE w == x \o y
           starts == {j \in 1..i : ~x[j].continues}
           now == {j \in 1..i : ~w[j].continues}
<1>1. x \in Seq(Lines) /\ y \in Seq(Lines) /\ Len(x) \in Nat /\ DOMAIN x = 1 .. Len(x)
    BY LenProperties DEF Heads
<1>2. \A j \in 1 .. Len(x) : w[j] = x[j]
    BY <1>1, Joined
<1>3. \A j \in 1 .. i : j \in 1 .. Len(x) /\ j <= i
    BY <1>1
<1> HIDE DEF w
<1>4. starts = now
    BY <1>2, <1>3
<1>5. 1 \in starts
    BY <1>1 DEF Heads
<1>6. \A j \in starts : w[j] = x[j]
    BY <1>2, <1>3
<1>7. \E j \in starts : \A k \in starts : k <= j
  <2>1. i \in Nat /\ starts \in SUBSET (1 .. i) /\ starts # {}
      BY <1>1, <1>5
  <2> HIDE DEF starts
  <2> QED
      BY <2>1, Greatest
<1> DEFINE last == CHOOSE j \in starts : \A k \in starts : k <= j
<1>8. last \in starts
  <2> HIDE DEF starts
  <2> QED
      BY <1>7
<1>9. HeaderOf(x, i) = x[last].name
    BY DEF HeaderOf
<1>10. HeaderOf(w, i) = w[CHOOSE j \in now : \A k \in now : k <= j].name
    BY DEF HeaderOf
<1> HIDE DEF starts, now
<1>11. HeaderOf(w, i) = w[last].name
    BY <1>4, <1>10
<1> QED
    BY <1>6, <1>8, <1>9, <1>11 DEF w

LEMMA HeaderNamed ==
    ASSUME NEW x, Heads(x), NEW n \in HeaderNames, NEW p \in Seq(Words), NEW i \in 1 .. Len(p)
    PROVE  HeaderOf(x \o Header(n, p), Len(x) + i) = n
<1> DEFINE h == Header(n, p)
           w == x \o h
           m == Len(x)
           starts == {j \in 1..m + i : ~w[j].continues}
<1>1. /\ h \in Seq(Lines) /\ Len(h) = Len(p) /\ Len(p) \in Nat
      /\ \A j \in 1 .. Len(p) : /\ j = 1 => ~h[j].continues /\ h[j].name = n
                                /\ j # 1 => h[j].continues
    BY HeaderLines
<1>2. x \in Seq(Lines) /\ m \in Nat
    BY LenProperties DEF Heads
<1> HIDE DEF h
<1>3. \A j \in 1 .. Len(p) : w[m + j] = h[j]
    BY <1>1, <1>2, Joined
<1> HIDE DEF w, m
<1>4. 1 \in 1 .. Len(p) /\ w[m + 1] = h[1]
  <2>1. 1 \in 1 .. Len(p)
      BY <1>1
  <2> QED
      BY <1>3, <2>1
<1>5. m + 1 \in starts /\ w[m + 1].name = n
    BY <1>1, <1>2, <1>4
<1>6. ASSUME NEW k \in starts PROVE k <= m + 1
  <2> SUFFICES ASSUME k > m + 1 PROVE FALSE
      BY <1>2
  <2>1. k - m \in 1 .. Len(p) /\ m + (k - m) = k /\ k - m # 1
      BY <1>1, <1>2
  <2>2. w[k].continues
      BY <1>1, <1>3, <2>1
  <2> QED
      BY <2>2
<1>7. \A j \in starts : (\A k \in starts : k <= j) => j = m + 1
    BY <1>2, <1>5, <1>6
<1>8. HeaderOf(w, m + i) = w[CHOOSE j \in starts : \A k \in starts : k <= j].name
    BY DEF HeaderOf
<1> HIDE DEF starts
<1>9. (CHOOSE j \in starts : \A k \in starts : k <= j) = m + 1
    BY <1>5, <1>6, <1>7
<1> QED
    BY <1>5, <1>8, <1>9 DEF w, h, m

(* Who the headers x address                                               *)
Addressed(x) == {x[i].who : i \in {j \in 1..Len(x) : HeaderOf(x, j) \in {"To", "Cc", "Bcc"}}}

(* One more header addresses its people if it is To, Cc or Bcc.            *)
LEMMA AddressedMore ==
    ASSUME NEW x, Heads(x), NEW n \in HeaderNames, NEW p \in Seq(Words)
    PROVE  /\ Heads(x \o Header(n, p))
           /\ n \in {"To", "Cc", "Bcc"} => Addressed(x \o Header(n, p)) = Addressed(x) \cup ToSet(p)
           /\ n \notin {"To", "Cc", "Bcc"} => Addressed(x \o Header(n, p)) = Addressed(x)
<1> DEFINE h == Header(n, p)
           w == x \o h
           To(i) == i \in {"To", "Cc", "Bcc"}
<1>1. /\ h \in Seq(Lines) /\ Len(h) = Len(p) /\ Len(p) \in Nat /\ Heads(h)
      /\ \A j \in 1 .. Len(p) : h[j].who = p[j]
      /\ x \in Seq(Lines) /\ Len(x) \in Nat
    BY HeaderLines, LenProperties DEF Heads
<1>2. Heads(w)
    BY <1>1, HeadsJoin
<1>3. /\ Len(w) = Len(x) + Len(p)
      /\ \A i \in 1 .. Len(x) : w[i] = x[i]
      /\ \A i \in 1 .. Len(p) : w[Len(x) + i] = h[i]
  <2> HIDE DEF h
  <2>1. x \in Seq(Lines) /\ h \in Seq(Lines)
      BY <1>1
  <2>2. /\ Len(w) = Len(x) + Len(h)
        /\ \A i \in 1 .. Len(x) : w[i] = x[i]
        /\ \A i \in 1 .. Len(h) : w[Len(x) + i] = h[i]
      BY <2>1, Joined
  <2> HIDE DEF w
  <2> QED
      BY <1>1, <2>2
<1>4. \A i \in 1 .. Len(x) : HeaderOf(w, i) = HeaderOf(x, i)
    BY <1>1, HeaderStays
<1>5. \A i \in 1 .. Len(p) : HeaderOf(w, Len(x) + i) = n
    BY HeaderNamed
<1>6. ToSet(p) = {p[i] : i \in 1 .. Len(p)}
    BY LenProperties DEF ToSet
<1> HIDE DEF w, h, To
<1>7. ASSUME NEW e \in Addressed(w) PROVE e \in Addressed(x) \/ (To(n) /\ e \in ToSet(p))
  <2>1. PICK i \in 1 .. Len(w) : To(HeaderOf(w, i)) /\ e = w[i].who
      BY <1>7 DEF Addressed, To
  <2>2. CASE i \in 1 .. Len(x)
    <3>1. To(HeaderOf(x, i)) /\ e = x[i].who
        BY <1>3, <1>4, <2>1, <2>2
    <3> QED
        BY <2>2, <3>1 DEF Addressed, To
  <2>3. CASE i \notin 1 .. Len(x)
    <3>1. i - Len(x) \in 1 .. Len(p) /\ Len(x) + (i - Len(x)) = i
        BY <1>1, <1>3, <2>3
    <3>2. HeaderOf(w, i) = n /\ w[i] = h[i - Len(x)]
        BY <1>3, <1>5, <3>1
    <3>3. e = p[i - Len(x)]
        BY <1>1, <2>1, <3>1, <3>2
    <3> QED
        BY <1>6, <2>1, <3>1, <3>2, <3>3
  <2> QED
      BY <2>2, <2>3
<1>8. ASSUME NEW e \in Addressed(x) PROVE e \in Addressed(w)
  <2>1. PICK i \in 1 .. Len(x) : To(HeaderOf(x, i)) /\ e = x[i].who
      BY <1>8 DEF Addressed, To
  <2>2. i \in 1 .. Len(w) /\ To(HeaderOf(w, i)) /\ e = w[i].who
      BY <1>1, <1>3, <1>4, <2>1
  <2> QED
      BY <2>2 DEF Addressed, To
<1>9. ASSUME To(n), NEW e \in ToSet(p) PROVE e \in Addressed(w)
  <2>1. PICK i \in 1 .. Len(p) : e = p[i]
      BY <1>6, <1>9
  <2>2. Len(x) + i \in 1 .. Len(w) /\ HeaderOf(w, Len(x) + i) = n /\ w[Len(x) + i].who = e
      BY <1>1, <1>3, <1>5, <2>1
  <2> QED
      BY <1>9, <2>2 DEF Addressed, To
<1>10. /\ To(n) => Addressed(w) = Addressed(x) \cup ToSet(p)
       /\ ~To(n) => Addressed(w) = Addressed(x)
    BY <1>7, <1>8, <1>9
<1> QED
    BY <1>2, <1>10 DEF w, h, To

Drafts == [to : Seq(STRING), cc : Seq(STRING), bcc : Seq(STRING), refs : Seq(STRING), quotes : BOOLEAN]
Upper(l) ==
    Header("From", <<"me">>) \o Header("Subject", <<"">>) \o Header("To", l.to) \o Header("Cc", l.cc)

LEMMA Bodies ==
    ASSUME NEW l
    PROVE  BodyOf(l) \in Seq(Lines) /\ BodyOf(l) # <<>> /\ BodyOf(l)[1] = EmptyLine
<1> DEFINE rest == IF l.quotes THEN <<Line("Bcc", "quoted")>> ELSE <<Line("text", "")>>
<1>1. EmptyLine \in Lines /\ Line("Bcc", "quoted") \in Lines /\ Line("text", "") \in Lines
    BY DEF EmptyLine, Line, Lines, Words, HeaderNames
<1>2. /\ <<EmptyLine>> \in Seq(Lines) /\ rest \in Seq(Lines)
      /\ Len(<<EmptyLine>>) = 1 /\ <<EmptyLine>>[1] = EmptyLine
    BY <1>1, Single
<1>3. BodyOf(l) = <<EmptyLine>> \o rest
    BY DEF BodyOf
<1> HIDE DEF rest
<1>4. /\ <<EmptyLine>> \o rest \in Seq(Lines) /\ Len(<<EmptyLine>> \o rest) = 1 + Len(rest) /\ Len(rest) \in Nat
      /\ (<<EmptyLine>> \o rest)[1] = EmptyLine
    BY <1>2, Joined
<1> QED
    BY <1>3, <1>4, EmptySeq

(* What a draft is written to: its headers and who they address.           *)
LEMMA Written ==
    ASSUME NEW l \in Drafts
    PROVE  /\ Build(l) = ((Upper(l) \o Header("Bcc", l.bcc)) \o Header("References", l.refs)) \o BodyOf(l)
           /\ Heads(Upper(l)) /\ Heads(Header("Bcc", l.bcc)) /\ Heads(Header("References", l.refs))
           /\ Heads((Upper(l) \o Header("Bcc", l.bcc)) \o Header("References", l.refs))
           /\ Addressed((Upper(l) \o Header("Bcc", l.bcc)) \o Header("References", l.refs)) = Everyone(l)
<1>1. /\ l.to \in Seq(Words) /\ l.cc \in Seq(Words) /\ l.bcc \in Seq(Words) /\ l.refs \in Seq(Words)
      /\ <<"me">> \in Seq(Words) /\ <<"">> \in Seq(Words)
  <2>1. l.to \in Seq(STRING) /\ l.cc \in Seq(STRING) /\ l.bcc \in Seq(STRING) /\ l.refs \in Seq(STRING)
      BY DEF Drafts
  <2>2. "me" \in Words /\ "" \in Words
      BY DEF Words
  <2>3. <<"me">> \in Seq(Words) /\ <<"">> \in Seq(Words)
      BY <2>2, Single
  <2>4. \A q \in Seq(STRING) : q \in Seq(Words)
      BY SeqMonotonic DEF Words
  <2> QED
      BY <2>1, <2>3, <2>4
<1>2. "From" \in HeaderNames /\ "Subject" \in HeaderNames /\ "To" \in HeaderNames
      /\ "Cc" \in HeaderNames /\ "Bcc" \in HeaderNames /\ "References" \in HeaderNames
    BY DEF HeaderNames
<1> DEFINE f == Header("From", <<"me">>)
           fs == f \o Header("Subject", <<"">>)
           fst == fs \o Header("To", l.to)
           up == fst \o Header("Cc", l.cc)
           ub == up \o Header("Bcc", l.bcc)
           ur == ub \o Header("References", l.refs)
<1>3. Heads(f) /\ Addressed(f) = {}
  <2>1. Heads(f)
      BY <1>1, <1>2, HeaderLines
  <2>2. Heads(<<>>)
      BY NoElement DEF Heads
  <2>3. Addressed(<<>> \o f) = Addressed(<<>>)
      BY <1>1, <1>2, <2>2, AddressedMore
  <2>4. <<>> \o f = f
      BY <2>1, ConcatEmptySeq DEF Heads
  <2>5. Addressed(<<>>) = {}
      BY EmptySeq DEF Addressed
  <2> QED
      BY <2>1, <2>3, <2>4, <2>5
<1>4. \A n \in {"To", "Cc", "Bcc"} : \A x : \A p \in Seq(Words) :
           n \in HeaderNames /\ Heads(x) => /\ Heads(x \o Header(n, p))
                                           /\ Addressed(x \o Header(n, p)) = Addressed(x) \cup ToSet(p)
    BY AddressedMore
<1>5. \A n \in HeaderNames : \A x : \A p \in Seq(Words) :
           n \notin {"To", "Cc", "Bcc"} /\ Heads(x) =>
               Heads(x \o Header(n, p)) /\ Addressed(x \o Header(n, p)) = Addressed(x)
    BY AddressedMore
<1> HIDE DEF f
<1>6. Heads(fs) /\ Addressed(fs) = {}
    BY <1>1, <1>2, <1>3, <1>5
<1> HIDE DEF fs
<1>7. Heads(fst) /\ Addressed(fst) = ToSet(l.to)
  <2>1. Heads(fst) /\ Addressed(fst) = Addressed(fs) \cup ToSet(l.to)
      BY <1>1, <1>2, <1>6, <1>4
  <2> HIDE DEF fst
  <2> QED
      BY <1>6, <2>1
<1> HIDE DEF fst
<1>8. Heads(up) /\ Addressed(up) = ToSet(l.to) \cup ToSet(l.cc)
  <2>1. Heads(up) /\ Addressed(up) = Addressed(fst) \cup ToSet(l.cc)
      BY <1>1, <1>2, <1>7, <1>4
  <2> HIDE DEF up
  <2> QED
      BY <1>7, <2>1
<1> HIDE DEF up
<1>9. Heads(ub) /\ Addressed(ub) = ToSet(l.to) \cup ToSet(l.cc) \cup ToSet(l.bcc)
  <2>1. Heads(ub) /\ Addressed(ub) = Addressed(up) \cup ToSet(l.bcc)
      BY <1>1, <1>2, <1>8, <1>4
  <2> HIDE DEF ub
  <2> QED
      BY <1>8, <2>1
<1> HIDE DEF ub
<1>10. Heads(ur) /\ Addressed(ur) = ToSet(l.to) \cup ToSet(l.cc) \cup ToSet(l.bcc)
    BY <1>1, <1>2, <1>9, <1>5
<1>11. Heads(Header("Bcc", l.bcc)) /\ Heads(Header("References", l.refs))
    BY <1>1, <1>2, HeaderLines
<1>12. up = Upper(l)
    BY DEF Upper, up, fst, fs, f
<1>13. Build(l) = ur \o BodyOf(l)
    BY DEF Build, ur, ub, up, fst, fs, f
<1> QED
    BY <1>8, <1>10, <1>11, <1>12, <1>13 DEF Everyone, ur, ub

(* The envelope is everyone in To, Cc and Bcc (extract_envelope).          *)
THEOREM EnvelopeIsEveryone ==
    ASSUME NEW l \in Drafts
    PROVE  Envelope(Build(l)) = Everyone(l)
<1> DEFINE h == (Upper(l) \o Header("Bcc", l.bcc)) \o Header("References", l.refs)
           L == Build(l)
<1>1. Heads(h) /\ Addressed(h) = Everyone(l) /\ L = h \o BodyOf(l)
    BY Written
<1>2. BodyOf(l) \in Seq(Lines) /\ BodyOf(l) # <<>> /\ BodyOf(l)[1] = EmptyLine
    BY Bodies
<1> HIDE DEF h, L
<1>3. h \in Seq(Lines) /\ Len(h) \in Nat
    BY <1>1, LenProperties DEF Heads
<1>4. /\ HeadersEnd(L) = Len(h) /\ \A i \in 1 .. Len(h) : L[i] = h[i]
    BY <1>1, <1>2, <1>3, HeadEnds, Joined
<1>5. ASSUME NEW i \in 1 .. Len(h) PROVE HeaderOf(L, i) = HeaderOf(h, i)
  <2> DEFINE starts == {j \in 1..i : ~h[j].continues}
             now == {j \in 1..i : ~L[j].continues}
             last == CHOOSE j \in starts : \A k \in starts : k <= j
  <2>1. \A j \in 1 .. i : j \in 1 .. Len(h)
      BY <1>3
  <2>2. starts = now /\ \A j \in starts : L[j] = h[j]
      BY <1>4, <2>1
  <2>3. 1 \in starts /\ i \in Nat /\ starts \in SUBSET (1 .. i)
    <3>1. 1 \in 1 .. i /\ 1 \in DOMAIN h
        BY <1>3, LenProperties
    <3> QED
        BY <1>1, <1>3, <3>1 DEF Heads
  <2> HIDE DEF starts, now
  <2>4. last \in starts
      BY <2>3, Greatest
  <2>5. HeaderOf(h, i) = h[last].name
      BY DEF HeaderOf, starts
  <2>6. HeaderOf(L, i) = L[CHOOSE j \in now : \A k \in now : k <= j].name
      BY DEF HeaderOf, now
  <2>7. HeaderOf(L, i) = L[last].name
      BY <2>2, <2>6
  <2> QED
      BY <2>2, <2>4, <2>5, <2>7
<1>6. Envelope(L) = {L[i].who : i \in {j \in 1..Len(h) : HeaderOf(L, j) \in {"To", "Cc", "Bcc"}}}
    BY <1>4 DEF Envelope
<1>7. Envelope(L) = Addressed(h)
    BY <1>4, <1>5, <1>6 DEF Addressed
<1> QED
    BY <1>1, <1>7 DEF L

(* No line of the headers above the Bcc header begins one.                  *)
Visible(x) == Heads(x) /\ \A i \in DOMAIN x : ~x[i].continues => x[i].name # "Bcc"

LEMMA VisibleMore ==
    ASSUME NEW x, Visible(x), NEW n \in HeaderNames \ {"Bcc"}, NEW p \in Seq(Words)
    PROVE  Visible(x \o Header(n, p))
<1> DEFINE h == Header(n, p)
           w == x \o h
<1>1. Heads(h) /\ Len(h) = Len(p) /\ \A i \in 1 .. Len(p) : ~h[i].continues => h[i].name = n
    BY HeaderLines
<1> HIDE DEF h
<1>2. h \in Seq(Lines) /\ x \in Seq(Lines) /\ Heads(x)
    BY <1>1 DEF Heads, Visible
<1>3. Heads(w)
    BY <1>1, <1>2, HeadsJoin
<1>4. /\ w \in Seq(Lines) /\ Len(w) = Len(x) + Len(h) /\ Len(x) \in Nat /\ Len(h) \in Nat
      /\ \A i \in 1 .. Len(x) : w[i] = x[i]
      /\ \A i \in 1 .. Len(h) : w[Len(x) + i] = h[i]
    BY <1>2, Joined
<1>5. DOMAIN w = 1 .. Len(x) + Len(h) /\ DOMAIN x = 1 .. Len(x)
    BY <1>2, <1>4, LenProperties
<1> HIDE DEF w
<1>6. ASSUME NEW i \in 1 .. Len(x) + Len(h), ~w[i].continues PROVE w[i].name # "Bcc"
  <2>1. CASE i \in 1 .. Len(x)
      BY <1>4, <1>5, <1>6, <2>1 DEF Visible
  <2>2. CASE i \notin 1 .. Len(x)
    <3>1. i - Len(x) \in 1 .. Len(h) /\ Len(x) + (i - Len(x)) = i
        BY <1>4, <2>2
    <3>2. w[i] = h[i - Len(x)]
        BY <1>4, <3>1
    <3> QED
        BY <1>1, <1>6, <3>1, <3>2
  <2> QED
      BY <2>1, <2>2
<1> QED
    BY <1>3, <1>5, <1>6 DEF Visible, w, h

LEMMA UpperHasNoBcc ==
    ASSUME NEW l \in Drafts
    PROVE  \A i \in DOMAIN Upper(l) : ~Upper(l)[i].continues => Upper(l)[i].name # "Bcc"
<1>1. l.to \in Seq(Words) /\ l.cc \in Seq(Words) /\ <<"me">> \in Seq(Words) /\ <<"">> \in Seq(Words)
  <2>1. l.to \in Seq(STRING) /\ l.cc \in Seq(STRING)
      BY DEF Drafts
  <2>2. "me" \in Words /\ "" \in Words
      BY DEF Words
  <2>3. <<"me">> \in Seq(Words) /\ <<"">> \in Seq(Words)
      BY <2>2, Single
  <2>4. \A q \in Seq(STRING) : q \in Seq(Words)
      BY SeqMonotonic DEF Words
  <2> QED
      BY <2>1, <2>3, <2>4
<1>2. /\ "From" \in HeaderNames \ {"Bcc"} /\ "Subject" \in HeaderNames \ {"Bcc"}
      /\ "To" \in HeaderNames \ {"Bcc"} /\ "Cc" \in HeaderNames \ {"Bcc"}
    BY DEF HeaderNames
<1> DEFINE f == Header("From", <<"me">>)
           fs == f \o Header("Subject", <<"">>)
           fst == fs \o Header("To", l.to)
           up == fst \o Header("Cc", l.cc)
<1>3. Visible(f)
  <2>1. Visible(<<>>)
      BY NoElement DEF Visible, Heads
  <2>2. Visible(<<>> \o f)
      BY <1>1, <1>2, <2>1, VisibleMore
  <2>3. f \in Seq(Lines)
      BY <1>1, <1>2, HeaderLines
  <2> QED
      BY <2>2, <2>3, ConcatEmptySeq
<1> HIDE DEF f
<1>4. Visible(fs)
    BY <1>1, <1>2, <1>3, VisibleMore
<1> HIDE DEF fs
<1>5. Visible(fst)
    BY <1>1, <1>2, <1>4, VisibleMore
<1> HIDE DEF fst
<1>6. Visible(up)
    BY <1>1, <1>2, <1>5, VisibleMore
<1> HIDE DEF up
<1>7. up = Upper(l)
    BY DEF Upper, up, fst, fs, f
<1> QED
    BY <1>6, <1>7 DEF Visible

(* Without its Bcc header a letter is what would have been written without *)
(* blind recipients (strip_bcc_header).                                    *)
THEOREM OnlyBlindIsStripped ==
    ASSUME NEW l \in Drafts
    PROVE  StripBcc(Build(l)) = WhatIsWritten(l)
<1> DEFINE A == Upper(l)
           B == Header("Bcc", l.bcc)
           C == Header("References", l.refs)
           b == BodyOf(l)
           l0 == [l EXCEPT !.bcc = <<>>]
<1>1. Build(l) = ((A \o B) \o C) \o b /\ Heads(A) /\ Heads(B) /\ Heads(C)
    BY Written
<1>2. b \in Seq(Lines) /\ b # <<>> /\ b[1] = EmptyLine
    BY Bodies
<1>3. l.bcc \in Seq(Words) /\ l.refs \in Seq(Words)
  <2>1. l.bcc \in Seq(STRING) /\ l.refs \in Seq(STRING)
      BY DEF Drafts
  <2> QED
      BY <2>1, SeqMonotonic DEF Words
<1>4. \A i \in DOMAIN B : IF i = 1 THEN B[i].name = "Bcc" ELSE B[i].continues
  <2>1. /\ Len(B) = Len(l.bcc) /\ B \in Seq(Lines)
        /\ \A i \in 1 .. Len(l.bcc) : /\ i = 1 => ~B[i].continues /\ B[i].name = "Bcc"
                                      /\ i # 1 => B[i].continues
      BY <1>3, HeaderLines DEF HeaderNames
  <2> HIDE DEF B
  <2> QED
      BY <2>1, LenProperties
<1>5. \A i \in DOMAIN C : ~C[i].continues => C[i].name # "Bcc"
  <2>1. /\ Len(C) = Len(l.refs) /\ C \in Seq(Lines)
        /\ \A i \in 1 .. Len(l.refs) : /\ i = 1 => C[i].name = "References"
                                       /\ i # 1 => C[i].continues
      BY <1>3, HeaderLines DEF HeaderNames
  <2> HIDE DEF C
  <2> QED
      BY <2>1, LenProperties
<1>6. \A i \in DOMAIN A : ~A[i].continues => A[i].name # "Bcc"
    BY UpperHasNoBcc
<1>7. StripBcc(Build(l)) = (A \o C) \o b
  <2> HIDE DEF A, B, C, b
  <2> QED
      BY <1>1, <1>2, <1>4, <1>5, <1>6, Stripped
<1>8. l0 \in Drafts /\ l0.bcc = <<>> /\ l0.to = l.to /\ l0.cc = l.cc /\ l0.refs = l.refs /\ l0.quotes = l.quotes
  <2>1. <<>> \in Seq(STRING)
      BY NoElement
  <2> QED
      BY <2>1 DEF Drafts
<1> HIDE DEF l0
<1>9. Upper(l0) = A /\ Header("References", l0.refs) = C /\ BodyOf(l0) = b
    BY <1>8 DEF Upper, BodyOf
<1>10. Header("Bcc", l0.bcc) = <<>>
  <2>1. <<>> \in Seq(Words) /\ Len(<<>>) = 0 /\ "Bcc" \in HeaderNames
      BY EmptySeq DEF HeaderNames
  <2>2. \A p \in Seq(Words) : Header("Bcc", p) \in Seq(Lines) /\ Len(Header("Bcc", p)) = Len(p)
      BY <2>1, HeaderLines
  <2>3. Header("Bcc", <<>>) \in Seq(Lines) /\ Len(Header("Bcc", <<>>)) = 0
      BY <2>1, <2>2
  <2> QED
      BY <1>8, <2>3, EmptySeq
<1>11. Build(l0) = ((Upper(l0) \o Header("Bcc", l0.bcc)) \o Header("References", l0.refs)) \o BodyOf(l0)
    BY <1>8, Written
<1> HIDE DEF A, B, C, b
<1>12. A \o <<>> = A
    BY <1>1, ConcatEmptySeq DEF Heads
<1>13. Build(l0) = (A \o C) \o b
    BY <1>9, <1>10, <1>11, <1>12
<1> QED
    BY <1>7, <1>13 DEF WhatIsWritten, l0

(* What a server has of the letter l                                       *)
Submitted(l) == [to |-> Everyone(l), lines |-> WhatIsWritten(l)]

DeliveryInv ==
    /\ letter.at \in {"none", "draft", "queued", "dead", "gone"}
    /\ letter = [at |-> letter.at, of |-> letter.of] /\ letter.of \in Drafts
    /\ attempt = [at |-> attempt.at, wire |-> attempt.wire]
    /\ attempt.at # "idle" => letter.at = "queued"
    /\ IF letter.at \in {"none", "draft"} THEN accepted = <<>> ELSE mail = Build(letter.of)
    /\ accepted \in Seq({Submitted(letter.of)})

(* Every step keeps the row what was built of the draft, and what the      *)
(* server has what was submitted of the row.                               *)
LEMMA DeliveryStep == DeliveryInv /\ [DeliveryNext]_deliveryVars => DeliveryInv'
<1> SUFFICES ASSUME DeliveryInv, [DeliveryNext]_deliveryVars PROVE DeliveryInv'
    OBVIOUS
<1> USE DEF DeliveryInv
<1>1. CASE UNCHANGED deliveryVars
    BY <1>1 DEF deliveryVars
(* A step of the drain that leaves what the server has alone.              *)
<1>2. ASSUME letter.at = "queued", letter' \in {[letter EXCEPT !.at = s] : s \in {"queued", "dead", "gone"}},
             \E s : attempt' = [attempt EXCEPT !.at = s] /\ (s # "idle" => letter'.at = "queued"),
             mail' = mail,
             accepted' \in {accepted, Append(accepted, [to |-> Envelope(mail), lines |-> StripBcc(mail)])}
      PROVE  DeliveryInv'
  <2>1. /\ letter'.at \in {"queued", "dead", "gone"} /\ letter'.of = letter.of
        /\ letter' = [at |-> letter'.at, of |-> letter'.of]
      BY <1>2
  <2>2. /\ attempt' = [at |-> attempt'.at, wire |-> attempt'.wire]
        /\ attempt'.at # "idle" => letter'.at = "queued"
      BY <1>2
  <2>3. mail' = Build(letter'.of)
      BY <1>2, <2>1
  <2>4. [to |-> Envelope(mail), lines |-> StripBcc(mail)] = Submitted(letter.of)
      BY <1>2, EnvelopeIsEveryone, OnlyBlindIsStripped DEF Submitted
  <2>5. accepted' \in Seq({Submitted(letter'.of)})
      BY <1>2, <2>1, <2>4
  <2> QED
      BY <2>1, <2>2, <2>3, <2>5
<1>3. ASSUME NEW l \in Letters, NEW w \in Wires, SaveLetter(l, w) PROVE DeliveryInv'
  <2>1. l \in Drafts
      BY DeliveryAssumption DEF Drafts
  <2>2. <<>> \in Seq({Submitted(l)})
      BY EmptySeq
  <2> QED
      BY <1>3, <2>1, <2>2 DEF SaveLetter
<1>4. ASSUME SendLetter PROVE DeliveryInv'
  <2>1. accepted' = accepted /\ letter'.at = "queued" /\ letter'.of = letter.of /\ attempt' = attempt
        /\ letter' = [at |-> letter'.at, of |-> letter'.of] /\ mail' = Build(letter'.of)
      BY <1>4 DEF SendLetter
  <2> QED
      BY <2>1
<1>5. ASSUME NEW why, RecordFailure(why), letter.at = "queued", mail' = mail,
             accepted' \in {accepted, Append(accepted, [to |-> Envelope(mail), lines |-> StripBcc(mail)])}
      PROVE  DeliveryInv'
  <2>1. letter' \in {[letter EXCEPT !.at = s] : s \in {"queued", "dead", "gone"}}
      BY <1>5 DEF RecordFailure
  <2>2. attempt' = [attempt EXCEPT !.at = "idle"]
      BY <1>5 DEF RecordFailure, Proceed
  <2> QED
      BY <1>2, <1>5, <2>1, <2>2
<1>6. ASSUME NEW step, Proceed(step), letter.at = "queued", letter' = letter, mail' = mail,
             accepted' \in {accepted, Append(accepted, [to |-> Envelope(mail), lines |-> StripBcc(mail)])}
      PROVE  DeliveryInv'
  <2>1. letter' \in {[letter EXCEPT !.at = s] : s \in {"queued", "dead", "gone"}}
      BY <1>6
  <2>2. attempt' = [attempt EXCEPT !.at = step]
      BY <1>6 DEF Proceed
  <2> QED
      BY <1>2, <1>6, <2>1, <2>2
<1>7. CASE BeginAttempt
    BY <1>6, <1>7 DEF BeginAttempt
<1>8. ASSUME NEW why, ConnectFails(why) PROVE DeliveryInv'
    BY <1>5, <1>8 DEF ConnectFails
<1>9. CASE NoRoute
    BY <1>5, <1>9 DEF NoRoute, On
<1>10. CASE NoMailboxes
    BY <1>5, <1>10 DEF NoMailboxes, On
<1>11. CASE SubmitSmtp
    BY <1>5, <1>6, <1>11 DEF SubmitSmtp, Accept, On
<1>12. CASE RejectSmtp
    BY <1>5, <1>12 DEF RejectSmtp, On
<1>13. CASE AppendToSent
    BY <1>6, <1>13 DEF AppendToSent, On
<1>14. CASE ImportToDrafts
    BY <1>5, <1>6, <1>14 DEF ImportToDrafts, On
<1>15. CASE SubmitJmap
    BY <1>5, <1>6, <1>15 DEF SubmitJmap, Accept, On
<1>16. CASE ProblemJmap
    BY <1>5, <1>16 DEF ProblemJmap, On
<1>17. CASE NotCreated
    BY <1>6, <1>17 DEF NotCreated, On
<1>18. CASE DeleteRow
  <2>1. letter.at = "queued" /\ mail' = mail /\ accepted' = accepted
      BY <1>18 DEF DeleteRow
  <2>2. letter' \in {[letter EXCEPT !.at = s] : s \in {"queued", "dead", "gone"}}
      BY <1>18, <2>1 DEF DeleteRow
  <2>3. attempt' = [attempt EXCEPT !.at = "idle"]
      BY <1>18 DEF DeleteRow, Proceed
  <2> QED
      BY <1>2, <2>1, <2>2, <2>3
<1>19. CASE ProcessDies
    BY <1>6, <1>19 DEF ProcessDies
<1> QED
    BY <1>1, <1>3, <1>4, <1>7, <1>8, <1>9, <1>10, <1>11, <1>12, <1>13, <1>14, <1>15, <1>16, <1>17, <1>18, <1>19
       DEF DeliveryNext

(* Whatever a server has taken, however often and over whichever wire,     *)
(* went to everyone in To, Cc and Bcc and shows no blind recipient to      *)
(* anyone, for any letters with any number of recipients in each list      *)
(* (submit_message, strip_bcc_header, extract_envelope).                   *)
THEOREM LettersArriveBlind == DeliverySpec => []BlindCopiesArriveBlind
<1>1. DeliveryInit => DeliveryInv
  <2> SUFFICES ASSUME DeliveryInit PROVE DeliveryInv
      OBVIOUS
  <2>1. <<>> \in Seq(STRING) /\ <<>> \in Seq({Submitted(NoLetter)})
      BY EmptySeq
  <2>2. NoLetter \in Drafts
      BY <2>1 DEF NoLetter, Drafts
  <2> QED
      BY <2>1, <2>2 DEF DeliveryInit, DeliveryInv
<1>2. DeliveryInv => BlindCopiesArriveBlind
  <2> SUFFICES ASSUME DeliveryInv, NEW i \in DOMAIN accepted
               PROVE  accepted[i].to = Everyone(letter.of) /\ accepted[i].lines = WhatIsWritten(letter.of)
      BY DEF BlindCopiesArriveBlind
  <2>1. accepted[i] = Submitted(letter.of)
      BY LenProperties, ElementOfSeq DEF DeliveryInv
  <2> QED
      BY <2>1 DEF Submitted
<1> QED
    BY <1>1, <1>2, DeliveryStep, PTL DEF DeliverySpec
=============================================================================
