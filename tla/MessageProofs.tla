----------------------------- MODULE MessageProofs -----------------------------
(***************************************************************************)
(* What holds of the parts that read and write messages, for all values of *)
(* their constants: paging back (Paging), the operations of a JMAP account *)
(* (JmapOps), bodies on disk (Bodies), the compose pane (Compose), the     *)
(* panel of the history pulls (PullPanel) and the reader (Reader).         *)
(***************************************************************************)
EXTENDS PartsProofs, Paging, JmapOps, Bodies, Compose, PullPanel, Reader, FiniteSetTheorems

-----------------------------------------------------------------------------
(* Paging: a load that has its anchor knows that nothing above is missing, *)
(* and what it has still to store is all that is missing of its page.      *)

Loading == {"idle", "anchor", "fetch", "insert", "storing", "reply"}
Covered(u) == u \in cached \cup elsewhere \cup abandoned

PagingTypeOK ==
    /\ stock \subseteq Uids /\ cached \subseteq Uids /\ synced \in {Top, Top + 1}
    /\ synced = Top + 1 \/ \A u \in cached : u < Top
    /\ load.at \in Loading /\ load.anchor \in Nat /\ load.got \subseteq Uids
    /\ load = [at |-> load.at, anchor |-> load.anchor, got |-> load.got, added |-> load.added]

AnchorIsCovered ==
    load.at \in {"fetch", "insert", "storing"} =>
        /\ load.anchor \in 1 .. synced - 1
        /\ \A u \in stock : load.anchor <= u /\ u < synced => Covered(u)
AllWasGot ==
    load.at \in {"insert", "storing"} =>
        /\ load.got \subseteq Window(load.anchor)
        /\ \A u \in stock \cap Window(load.anchor) : Covered(u) \/ u \in load.got

PagingInv == PagingTypeOK /\ AnchorIsCovered /\ AllWasGot /\ NoHoles

LEMMA PagingInitially == PagingInit => PagingInv
  <1> SUFFICES ASSUME PagingInit PROVE PagingInv
    OBVIOUS
  <1> USE PagingAssumption DEF PagingInit
  <1>1. PagingTypeOK
    BY DEF PagingTypeOK, Uids, NoLoad, Loading
  <1>2. NoHoles
    <2> SUFFICES ASSUME NEW u \in stock, u < synced, NEW v \in cached, v < u
                 PROVE  u \in cached
      BY DEF NoHoles
    <2>1. v \in Held /\ v \in Nat /\ u \in v .. Top - 1
      OBVIOUS
    <2> QED
      BY <2>1
  <1> QED
    BY <1>1, <1>2 DEF PagingInv, AnchorIsCovered, AllWasGot, NoLoad

(* What is missing is being stored, or is above no row.                    *)
LEMMA NoHolesMeans ==
    NoHoles <=> \A u \in stock : (u < synced /\ \E v \in cached : v < u)
                                   => Covered(u) \/ u \in BeingStored
  BY DEF NoHoles, Covered

(* The rows that are listed have a smallest one, if there are any rows.    *)
LEMMA NewestExists ==
    ASSUME PagingTypeOK, cached # {}
    PROVE  Least(Newest) \in cached
  <1> USE PagingAssumption DEF PagingTypeOK, Uids
  <1>1. PICK x \in cached : \A v \in cached : ~Later(v, x)
    <2>1. CASE cached \subseteq Old
      <3>1. PICK x \in cached : \A v \in cached : v <= x
        BY GreatestExists
      <3> QED
        BY <2>1, <3>1 DEF Later
    <2>2. CASE ~(cached \subseteq Old)
      <3> DEFINE T == cached \ Old
      <3>0. T \subseteq Nat /\ T # {} /\ \A x \in T : x <= Top
        BY <2>2
      <3> HIDE DEF T
      <3>1. PICK x \in T : \A v \in T : v <= x
        BY <3>0, GreatestExists
      <3> USE DEF T
      <3> QED
        BY <3>1 DEF Later
    <2> QED
      BY <2>1, <2>2
  <1>2. {v \in cached : Later(v, x)} = {}
    BY <1>1
  <1>3. Cardinality({v \in cached : Later(v, x)}) = 0
    BY <1>2, FS_EmptySet
  <1> DEFINE F(u) == Cardinality({v \in cached : Later(v, u)})
  <1>4. F(x) < Cap
    BY <1>3
  <1>5. Newest = {u \in cached : F(u) < Cap}
    BY DEF Newest
  <1> HIDE DEF F
  <1>6. Newest \subseteq Nat /\ Newest \subseteq cached /\ Newest # {}
    BY <1>4, <1>5
  <1>7. \E l \in Newest : \A v \in Newest : l <= v
    BY <1>6, LeastExists
  <1> QED
    BY <1>6, <1>7 DEF Least

LEMMA AnchorKeeps ==
    ASSUME PagingInv, Anchor
    PROVE  PagingInv'
  <1> USE PagingAssumption DEF PagingInv
  <1>0. load.at = "anchor" /\ UNCHANGED <<stock, cached, elsewhere, synced, abandoned>>
    BY DEF Anchor
  <1>1. CASE cached = {}
    <2>1. /\ load'.at = "reply" /\ load'.anchor = load.anchor /\ load'.got = load.got
          /\ load' = [at |-> load'.at, anchor |-> load'.anchor, got |-> load'.got, added |-> load'.added]
      BY <1>1 DEF Anchor, PagingTypeOK
    <2> QED
      BY <1>0, <1>1, <2>1 DEF PagingTypeOK, AnchorIsCovered, AllWasGot, NoHoles, Loading
  <1>2. CASE cached # {}
    <2> DEFINE a == Least(Newest)
    <2>1. a \in cached
      BY <1>2, NewestExists
    <2>2. load' = [load EXCEPT !.at = "fetch", !.anchor = a]
      BY <1>2 DEF Anchor
    <2> HIDE DEF a
    <2>3. /\ load'.at = "fetch" /\ load'.anchor = a /\ load'.got = load.got
          /\ load' = [at |-> load'.at, anchor |-> load'.anchor, got |-> load'.got, added |-> load'.added]
      BY <2>2 DEF PagingTypeOK
    <2>4. a \in Nat /\ a \in 1 .. synced - 1
      BY <2>1 DEF PagingTypeOK, Uids
    <2>5. PagingTypeOK'
      BY <1>0, <2>3, <2>4 DEF PagingTypeOK, Loading
    <2>6. ASSUME NEW u \in stock, a <= u, u < synced PROVE Covered(u)
      <3>1. u = a \/ a < u
        BY <2>4, <2>6 DEF PagingTypeOK, Uids
      <3>2. CASE u = a
        BY <2>1, <3>2 DEF Covered
      <3>3. CASE a < u
        BY <1>0, <2>1, <2>6, <3>3, NoHolesMeans DEF BeingStored
      <3> QED
        BY <3>1, <3>2, <3>3
    <2>7. AnchorIsCovered'
      BY <1>0, <2>3, <2>4, <2>6 DEF AnchorIsCovered, Covered
    <2>8. NoHoles'
      BY <1>0, <2>3 DEF NoHoles, BeingStored
    <2> QED
      BY <2>3, <2>5, <2>7, <2>8 DEF AllWasGot
  <1> QED
    BY <1>1, <1>2

LEMMA InsertKeeps ==
    ASSUME PagingInv, NEW m \in load.got, Insert(m)
    PROVE  PagingInv'
  <1> USE PagingAssumption DEF PagingInv
  <1> DEFINE rest == load.got \ {m}
  <1>1. /\ load.at \in {"insert", "storing"} /\ cached' = cached \cup ({m} \ (cached \cup elsewhere))
        /\ load'.at = (IF rest = {} THEN "reply" ELSE "storing")
        /\ load'.anchor = load.anchor /\ load'.got = rest
        /\ load' = [at |-> load'.at, anchor |-> load'.anchor, got |-> load'.got, added |-> load'.added]
        /\ UNCHANGED <<stock, elsewhere, synced, abandoned>>
    BY DEF Insert, PagingTypeOK
  <1>2. synced = Top + 1 \/ m < Top
    <2> SUFFICES ASSUME synced # Top + 1 PROVE m < Top
      OBVIOUS
    <2>1. synced = Top /\ load.anchor \in 1 .. synced - 1
      BY <1>1 DEF PagingTypeOK, AnchorIsCovered
    <2>2. m \in Nat /\ m < load.anchor
      BY <1>1 DEF AllWasGot, Window, Uids
    <2> QED
      BY <2>1, <2>2
  <1>3. PagingTypeOK'
    BY <1>1, <1>2 DEF PagingTypeOK, Loading
  <1>4. \A u : (Covered(u) => Covered(u)') /\ (u \in load.got => Covered(u)' \/ u \in rest)
    BY <1>1 DEF Covered
  <1>5. AnchorIsCovered'
    BY <1>1, <1>4 DEF AnchorIsCovered
  <1>6. AllWasGot'
    BY <1>1, <1>4 DEF AllWasGot, Window
  <1>7. NoHoles'
    <2> SUFFICES ASSUME NEW u \in stock, u < synced, NEW v \in cached', v < u
                 PROVE  Covered(u)' \/ u \in BeingStored'
      BY <1>1 DEF NoHoles, Covered
    <2>1. BeingStored' = rest
      BY <1>1 DEF BeingStored
    <2>2. BeingStored \subseteq load.got
      BY DEF BeingStored
    <2>3. CASE v \in cached
      BY <1>4, <2>1, <2>2, <2>3, NoHolesMeans
    <2>4. CASE v = m
      <3>1. u \in Nat /\ v \in Nat /\ load.anchor \in Nat
        BY <1>3, <1>1 DEF PagingTypeOK, Uids
      <3>2. CASE load.anchor <= u
        BY <1>1, <1>4, <3>2 DEF AnchorIsCovered
      <3>3. CASE u < load.anchor
        <4>1. v \in Window(load.anchor)
          BY <1>1, <2>4 DEF AllWasGot
        <4>2. u \in Window(load.anchor)
          BY <3>1, <3>3, <4>1 DEF Window, PagingTypeOK
        <4> QED
          BY <1>1, <1>4, <2>1, <4>2 DEF AllWasGot
      <3> QED
        BY <3>1, <3>2, <3>3
    <2> QED
      BY <1>1, <2>3, <2>4
  <1> QED
    BY <1>3, <1>5, <1>6, <1>7

(* A load that fails leaves what it had still to store.                    *)
LEMMA FailureKeeps ==
    ASSUME PagingInv, LoadFails
    PROVE  PagingInv'
  <1> USE DEF PagingInv
  <1>1. /\ load'.at = "idle" /\ load'.anchor = 0 /\ load'.got = {} /\ load' = NoLoad
        /\ abandoned' = abandoned \cup BeingStored
        /\ UNCHANGED <<stock, cached, elsewhere, synced, exhausted>>
    BY DEF LoadFails, NoLoad, BeingStored
  <1>2. PagingTypeOK'
    BY <1>1 DEF PagingTypeOK, Loading, NoLoad
  <1>3. \A u : Covered(u) \/ u \in BeingStored => Covered(u)'
    BY <1>1 DEF Covered
  <1>4. NoHoles'
    BY <1>1, <1>3, NoHolesMeans DEF NoHoles, Covered
  <1> QED
    BY <1>1, <1>2, <1>4 DEF AnchorIsCovered, AllWasGot

LEMMA PagingStep ==
    ASSUME PagingInv, [PagingNext]_pagingVars
    PROVE  PagingInv'
  <1> USE PagingAssumption DEF PagingInv
  <1>1. CASE OnScroll
    <2>1. /\ load.at = "idle" /\ load'.at = "anchor" /\ load'.anchor = 0 /\ load'.got = {}
          /\ load' = [at |-> "anchor", anchor |-> 0, got |-> {}, added |-> 0]
          /\ UNCHANGED <<stock, cached, elsewhere, synced, abandoned>>
      BY <1>1 DEF OnScroll, NoLoad
    <2> QED
      BY <2>1 DEF PagingTypeOK, AnchorIsCovered, AllWasGot, NoHoles, Loading, BeingStored
  <1>2. CASE Anchor
    BY <1>2, AnchorKeeps
  <1>3. CASE FetchRange
    <2> DEFINE found == stock \cap Window(load.anchor)
    <2>1. load.at = "fetch" /\ UNCHANGED <<stock, cached, elsewhere, synced, abandoned>>
      BY <1>3 DEF FetchRange
    <2>2. /\ load'.at \in {"reply", "insert"} /\ load'.anchor = load.anchor /\ load'.got = found
          /\ load' = [at |-> load'.at, anchor |-> load'.anchor, got |-> load'.got, added |-> load'.added]
      BY <1>3 DEF FetchRange, PagingTypeOK
    <2>3. PagingTypeOK'
      BY <2>1, <2>2 DEF PagingTypeOK, Loading
    <2>4. AnchorIsCovered'
      BY <2>1, <2>2 DEF AnchorIsCovered, Covered
    <2>5. AllWasGot'
      BY <2>1, <2>2 DEF AllWasGot, Window
    <2>6. NoHoles'
      BY <2>1, <2>2 DEF NoHoles, BeingStored
    <2> QED
      BY <2>3, <2>4, <2>5, <2>6
  <1>4. ASSUME NEW m \in load.got, Insert(m) PROVE PagingInv'
    BY <1>4, InsertKeeps
  <1>5. CASE Land
    <2>1. /\ load.at = "reply" /\ load'.at = "idle" /\ load'.anchor = 0 /\ load'.got = {}
          /\ load' = NoLoad /\ UNCHANGED <<stock, cached, elsewhere, synced, abandoned>>
      BY <1>5 DEF Land, NoLoad
    <2> QED
      BY <2>1 DEF NoLoad, PagingTypeOK, AnchorIsCovered, AllWasGot, NoHoles, Loading, BeingStored
  <1>6. CASE LoadFails
    BY <1>6, FailureKeeps
  <1>7. CASE NewMail
    <2>1. /\ Top \notin stock /\ synced = Top /\ stock' = stock \cup {Top}
          /\ UNCHANGED <<cached, elsewhere, synced, load, abandoned>>
      BY <1>7 DEF NewMail
    <2>2. PagingTypeOK'
      BY <2>1 DEF PagingTypeOK, Uids
    <2>3. AnchorIsCovered' /\ NoHoles'
      BY <2>1 DEF AnchorIsCovered, NoHoles, Covered, BeingStored
    <2>4. AllWasGot'
      BY <2>1 DEF AllWasGot, AnchorIsCovered, Window, PagingTypeOK, Covered
    <2> QED
      BY <2>2, <2>3, <2>4
  <1>8. CASE SyncFolder
    <2>1. /\ cached' = (cached \cap stock) \cup {u \in stock : u >= synced}
          /\ synced' = IF Top \in stock THEN Top + 1 ELSE synced
          /\ UNCHANGED <<stock, elsewhere, load, abandoned>>
      BY <1>8 DEF SyncFolder
    <2>2. synced' \in {Top, Top + 1} /\ synced <= synced'
      BY <2>1 DEF PagingTypeOK
    <2>3. PagingTypeOK'
      BY <2>1, <2>2 DEF PagingTypeOK, Uids
    <2>4. /\ \A u \in stock : Covered(u) \/ synced <= u => Covered(u)'
          /\ BeingStored' = BeingStored
      BY <2>1 DEF Covered, BeingStored
    <2>5. ASSUME NEW u \in stock PROVE u \in Nat /\ synced \in Nat /\ (u < synced \/ synced <= u)
      BY DEF PagingTypeOK, Uids
    <2>6. AnchorIsCovered'
      BY <2>1, <2>2, <2>4, <2>5 DEF AnchorIsCovered, PagingTypeOK
    <2>7. NoHoles'
      <3> SUFFICES ASSUME NEW u \in stock, u < synced', NEW v \in cached', v < u
                   PROVE  Covered(u)' \/ u \in BeingStored'
        BY <2>1 DEF NoHoles, Covered
      <3>1. v \in Nat /\ u \in Nat /\ synced \in Nat
        BY <2>3 DEF PagingTypeOK, Uids
      <3>2. CASE synced <= u
        BY <3>2, <2>4
      <3>3. CASE u < synced
        <4>1. v \in cached
          BY <2>1, <3>1, <3>3
        <4> QED
          BY <2>4, <3>3, <4>1, NoHolesMeans
      <3> QED
        BY <3>1, <3>2, <3>3
    <2> QED
      BY <2>1, <2>3, <2>4, <2>6, <2>7 DEF AllWasGot
  <1>9. ASSUME NEW u \in Uids, Expunge(u) PROVE PagingInv'
    <2>1. /\ stock' = stock \ {u} /\ UNCHANGED <<cached, elsewhere, synced, load, abandoned>>
      BY <1>9 DEF Expunge
    <2> QED
      BY <2>1 DEF PagingTypeOK, AnchorIsCovered, AllWasGot, NoHoles, Covered, BeingStored
  <1>10. ASSUME NEW u \in Uids, MoveAway(u) PROVE PagingInv'
    <2>1. /\ cached' = cached \ {u} /\ elsewhere' = elsewhere \cup {u}
          /\ UNCHANGED <<stock, synced, load, abandoned>>
      BY <1>10 DEF MoveAway
    <2> QED
      BY <2>1 DEF PagingTypeOK, AnchorIsCovered, AllWasGot, NoHoles, Covered, BeingStored
  <1>11. CASE UNCHANGED pagingVars
    BY <1>11 DEF pagingVars, PagingTypeOK, AnchorIsCovered, AllWasGot, NoHoles, Covered, BeingStored
  <1> QED
    BY <1>1, <1>2, <1>3, <1>4, <1>5, <1>6, <1>7, <1>8, <1>9, <1>10, <1>11 DEF PagingNext, Pages

(* Paging back leaves no holes but those of a load that stopped half-way   *)
(* (messages_load_older): its anchor is the oldest of the rows that are    *)
(* listed, which need not have the smallest UID, the rows are stored one   *)
(* by one, and mail comes, goes and is moved while a load is under way.    *)
THEOREM PagingLeavesNoHoles == PagingSpec => []NoHoles
  <1>1. PagingInv => NoHoles
    BY DEF PagingInv
  <1> QED
    BY PagingInitially, PagingStep, <1>1, PTL DEF PagingSpec

-----------------------------------------------------------------------------
(* JmapOps: what the requests so far have asked for has been so, and every *)
(* save of a draft makes a copy that no save before it has made.           *)

Asks(k) == <<op.row.ids[((k - 1) \div Portions(op.row.kind)) + 1], ((k - 1) % Portions(op.row.kind)) + 1>>
All(r) == About(r) \X (1 .. Portions(r.kind))
Attempt == season.rows * Limit + op.tries
Prior == {serverId} \ {0}

OpsTypeOK ==
    /\ cloud = [e \in Emails |-> cloud[e]]
    /\ \A e \in Emails : cloud[e] = [box |-> cloud[e].box, keywords |-> cloud[e].keywords]
    /\ op = [row |-> op.row, tries |-> op.tries, at |-> op.at]
    /\ request = [at |-> request.at, next |-> request.next, save |-> request.save]
    /\ season = [rows |-> season.rows, fails |-> season.fails, others |-> season.others]
    /\ op.row \in Batches \cup {NoRow} /\ op.tries \in Nat /\ op.at \in {"queued", "done", "dead"}
    /\ request.at \in {"idle", "set", "import", "destroy", "store", "settle"}
    /\ request.next \in Nat /\ request.save \in Nat
    /\ season.rows \in Nat /\ serverId \in Nat /\ uploads \subseteq Nat

OneAtATime ==
    /\ request.at # "idle" => op.at = "queued"
    /\ op.at = "queued" => op.row \in Batches /\ season.rows > 0
    /\ request.at = "set" => op.row.kind # "draft"
    /\ request.at \in {"import", "destroy", "store"} => op.row.kind = "draft"
    /\ op.tries <= Limit /\ (op.at \in {"queued", "done"} => op.tries < Limit)

SoFar ==
    /\ request.at = "set" => /\ request.next \in 1..Total
                             /\ \A k \in 1 .. request.next - 1 : Asks(k) \in reached
    /\ request.at = "settle" \/ op.at = "done" => All(op.row) \subseteq reached

CopiesAreCounted ==
    /\ \A u \in uploads : u <= Attempt
    /\ serverId # 0 => serverId <= Attempt
    /\ request.at \notin {"destroy", "store", "settle"} /\ op.at # "done" =>
          /\ \A u \in uploads : u < Attempt
          /\ serverId # 0 => serverId < Attempt
    /\ request.at \in {"destroy", "store"} =>
          /\ request.save = Attempt /\ request.save \in uploads /\ request.save # 0
          /\ serverId # 0 => serverId < Attempt
    /\ serverId # 0 => uploads # {}

CopiesUnlessFailed ==
    ~failedOnce =>
       uploads = CASE request.at = "destroy" -> Prior \cup {request.save}
                   [] request.at = "store" -> {request.save}
                   [] OTHER -> Prior

OpsInv == OpsTypeOK /\ OneAtATime /\ SoFar /\ CopiesAreCounted /\ CopiesUnlessFailed

LEMMA BatchIs ==
    ASSUME NEW b \in Batches
    PROVE  /\ b = [kind |-> b.kind, ids |-> b.ids] /\ b.ids \in Seq(Emails)
           /\ b.kind \in {"flags", "move", "delete", "draft"}
           /\ (b.kind = "draft") = (b.ids = <<>>)
           /\ Portions(b.kind) \in {1, 2}
           /\ Portions(b.kind) = 2 <=> b.kind = "flags"
  <1>1. About(b) \subseteq Emails
    BY DEF Emails
  <1>2. b.ids \in Seq(About(b)) /\ (b.kind = "draft") = (b.ids = <<>>)
    BY OpsAssumption
  <1>3. b.ids \in Seq(Emails)
    BY <1>1, <1>2
  <1>4. Len(Keywords) = 2
    BY DEF Keywords
  <1> QED
    BY <1>2, <1>3, <1>4, OpsAssumption DEF Portions

LEMMA TwoGo ==
    ASSUME NEW n \in Nat
    PROVE  /\ (2 * n) \div 2 = n /\ (2 * n) % 2 = 0
           /\ (2 * n + 1) \div 2 = n /\ (2 * n + 1) % 2 = 1
  OBVIOUS

LEMMA TwoBound ==
    ASSUME NEW n \in Nat, NEW m \in Nat, n < 2 * m
    PROVE  (n \div 2) \in Nat /\ n \div 2 < m /\ n % 2 \in {0, 1}
  OBVIOUS

(* A row of the loops is through when its last request has been answered.  *)
LEMMA AllWereAsked ==
    ASSUME NEW b \in Batches, b.kind # "draft",
           NEW w \in All(b)
    PROVE  \E k \in 1 .. Len(b.ids) * Portions(b.kind) :
              w = <<b.ids[((k - 1) \div Portions(b.kind)) + 1], ((k - 1) % Portions(b.kind)) + 1>>
  <1>1. PICK j \in DOMAIN b.ids, i \in 1 .. Portions(b.kind) : w = <<b.ids[j], i>>
    BY DEF All, About
  <1>2. DOMAIN b.ids = 1 .. Len(b.ids) /\ Len(b.ids) \in Nat
    BY BatchIs
  <1>3. CASE Portions(b.kind) = 1
    <2>1. /\ j \in 1 .. Len(b.ids) * 1 /\ ((j - 1) \div 1) + 1 = j /\ ((j - 1) % 1) + 1 = i
      BY <1>1, <1>2, <1>3
    <2> QED
      BY <1>1, <1>3, <2>1
  <1>4. CASE Portions(b.kind) = 2
    <2> DEFINE k == (j - 1) * 2 + i
    <2>0. j \in Nat /\ j >= 1 /\ j <= Len(b.ids) /\ i \in {1, 2}
      BY <1>1, <1>2, <1>4
    <2>1. /\ k \in 1 .. Len(b.ids) * 2 /\ ((k - 1) \div 2) + 1 = j /\ ((k - 1) % 2) + 1 = i
      <3>0. j - 1 \in Nat
        BY <2>0
      <3>1. CASE i = 1
        <4>1. k - 1 = 2 * (j - 1) /\ k \in 1 .. Len(b.ids) * 2
          BY <1>2, <2>0, <3>1
        <4>2. (2 * (j - 1)) \div 2 = j - 1 /\ (2 * (j - 1)) % 2 = 0
          BY <3>0, TwoGo
        <4> HIDE DEF k
        <4> QED
          BY <2>0, <3>1, <4>1, <4>2
      <3>2. CASE i = 2
        <4>1. k - 1 = 2 * (j - 1) + 1 /\ k \in 1 .. Len(b.ids) * 2
          BY <1>2, <2>0, <3>2
        <4>2. (2 * (j - 1) + 1) \div 2 = j - 1 /\ (2 * (j - 1) + 1) % 2 = 1
          BY <3>0, TwoGo
        <4>3. ((k - 1) \div 2) = j - 1 /\ ((k - 1) % 2) = 1
          <5> HIDE DEF k
          <5> QED
            BY <4>1, <4>2
        <4> HIDE DEF k
        <4> QED
          BY <2>0, <3>2, <4>1, <4>3
      <3> QED
        BY <2>0, <3>1, <3>2
    <2> HIDE DEF k
    <2> QED
      BY <1>1, <1>4, <2>1
  <1> QED
    BY <1>3, <1>4, BatchIs

LEMMA OpsInitially == OpsInit => OpsInv
  <1> SUFFICES ASSUME OpsInit PROVE OpsInv
    OBVIOUS
  <1> USE OpsAssumption DEF OpsInit
  <1>1. OpsTypeOK /\ OneAtATime
    BY DEF OpsTypeOK, OneAtATime, NoRow, Still
  <1>2. All(NoRow) = {}
    BY DEF All, About, NoRow
  <1>3. SoFar
    BY <1>2 DEF SoFar, Still
  <1>4. CopiesAreCounted /\ CopiesUnlessFailed
    BY DEF CopiesAreCounted, CopiesUnlessFailed, Still, Prior
  <1> QED
    BY <1>1, <1>3, <1>4 DEF OpsInv

(* Counting what happens leaves the number of rows alone.                  *)
LEMMA HappensKeeps ==
    ASSUME OpsTypeOK, Happens("fails") \/ Happens("others") \/ UNCHANGED season
    PROVE  /\ season' = [rows |-> season'.rows, fails |-> season'.fails, others |-> season'.others]
           /\ season'.rows = season.rows
  BY DEF Happens, OpsTypeOK

LEMMA EnqueueKeeps ==
    ASSUME OpsInv, NEW b \in Batches, Enqueue(b)
    PROVE  OpsInv'
  <1> USE OpsAssumption DEF OpsInv
  <1>1. /\ op.at # "queued" /\ op' = [row |-> b, tries |-> 0, at |-> "queued"]
        /\ UNCHANGED <<cloud, uploads, serverId, request, failedOnce>>
        /\ season' = [season EXCEPT !.rows = @ + 1]
    BY DEF Enqueue, Happens
  <1>2. /\ season' = [rows |-> season'.rows, fails |-> season'.fails, others |-> season'.others]
        /\ season'.rows = season.rows + 1 /\ season.rows \in Nat
    BY <1>1 DEF OpsTypeOK
  <1>3. request.at = "idle"
    BY <1>1 DEF OneAtATime
  <1>4. OpsTypeOK' /\ OneAtATime' /\ SoFar'
    BY <1>1, <1>2, <1>3 DEF OpsTypeOK, OneAtATime, SoFar
  <1>5. Attempt' = season.rows * Limit + Limit /\ Attempt = season.rows * Limit + op.tries
    BY <1>1, <1>2 DEF Attempt
  <1>6. season.rows * Limit \in Nat
    BY <1>2
  <1>7. op.tries \in Nat /\ op.tries <= Limit /\ (op.at # "dead" => op.tries < Limit)
    BY <1>1 DEF OpsTypeOK, OneAtATime
  <1>8. Attempt \in Nat /\ Attempt' \in Nat /\ Attempt <= Attempt' /\ (op.at # "dead" => Attempt < Attempt')
    BY <1>5, <1>6, <1>7
  <1>9. \A u \in uploads : u < Attempt'
    BY <1>1, <1>3, <1>8 DEF OpsTypeOK, CopiesAreCounted
  <1>10. serverId # 0 => serverId < Attempt'
    BY <1>1, <1>3, <1>8 DEF OpsTypeOK, CopiesAreCounted
  <1>11. CopiesAreCounted'
    BY <1>1, <1>3, <1>8, <1>9, <1>10 DEF OpsTypeOK, CopiesAreCounted
  <1>12. CopiesUnlessFailed'
    BY <1>1, <1>3 DEF CopiesUnlessFailed, Prior
  <1> QED
    BY <1>4, <1>11, <1>12

(* An attempt that fails counts, and the next one starts over.             *)
LEMMA FailRowKeeps ==
    ASSUME OpsInv, FailRow, op.at = "queued",
           season' = [rows |-> season'.rows, fails |-> season'.fails, others |-> season'.others],
           season'.rows = season.rows
    PROVE  /\ op' = [row |-> op.row, tries |-> op.tries + 1, at |-> op'.at]
           /\ op'.at \in {"queued", "dead"} /\ request' = Still
           /\ OneAtATime'
           /\ Attempt' = Attempt + 1 /\ Attempt \in Nat
  <1> USE OpsAssumption DEF OpsInv
  <1>1. /\ op' = [row |-> op.row, tries |-> op.tries + 1, at |-> op'.at]
        /\ op'.at = IF op.tries + 1 >= Limit THEN "dead" ELSE "queued"
        /\ request' = Still
    BY DEF FailRow, OpsTypeOK
  <1>2. OneAtATime'
    BY <1>1 DEF OneAtATime, OpsTypeOK, Still
  <1>3. season.rows * Limit \in Nat
    BY DEF OpsTypeOK
  <1>4. Attempt' = Attempt + 1 /\ Attempt \in Nat
    BY <1>1, <1>3 DEF Attempt, OpsTypeOK
  <1> QED
    BY <1>1, <1>2, <1>4

(* The row is asked to be so of an email that was set as it asks.          *)
LEMMA ReachedGrows ==
    ASSUME NEW now
    PROVE  reached \subseteq Reached(now)
  BY DEF Reached

LEMMA SetIsReached ==
    ASSUME OpsInv, request.at = "set",
           cloud' = [cloud EXCEPT ![Email] = Part(op.row.kind, @, PartNo)], reached' = Reached(cloud')
    PROVE  /\ Asks(request.next) \in reached' /\ reached \subseteq reached' /\ Email \in Emails
           /\ \A e \in Emails : cloud'[e] = [box |-> cloud'[e].box, keywords |-> cloud'[e].keywords]
           /\ cloud' = [e \in Emails |-> cloud'[e]]
  <1> USE DEF OpsInv
  <1>1. op.row \in Batches /\ op.at = "queued" /\ op.row.kind \in {"flags", "move", "delete"}
    BY BatchIs DEF OneAtATime
  <1>2. request.next \in 1..Total
    BY DEF SoFar
  <1> DEFINE P == Portions(op.row.kind)
             j == ((request.next - 1) \div P) + 1
             i == ((request.next - 1) % P) + 1
  <1>3. P \in {1, 2} /\ Len(op.row.ids) \in Nat /\ op.row.ids \in Seq(Emails)
    BY <1>1, BatchIs
  <1>4. request.next \in Nat /\ 1 <= request.next /\ request.next <= Len(op.row.ids) * P
    BY <1>2, <1>3 DEF Total
  <1>5. j \in 1 .. Len(op.row.ids) /\ i \in 1..P
    <2>1. CASE P = 1
      <3> HIDE DEF P
      <3> QED
        BY <1>3, <1>4, <2>1
    <2>2. CASE P = 2
      <3> DEFINE n == request.next - 1
      <3>1. n \in Nat /\ n < 2 * Len(op.row.ids)
        BY <1>3, <1>4, <2>2
      <3>2. j = (n \div 2) + 1 /\ i = (n % 2) + 1
        BY <2>2
      <3> HIDE DEF P, j, i, n
      <3>3. (n \div 2) \in Nat /\ n \div 2 < Len(op.row.ids) /\ n % 2 \in {0, 1}
        BY <1>3, <3>1, TwoBound
      <3> QED
        BY <1>3, <2>2, <3>2, <3>3
    <2> QED
      BY <1>3, <2>1, <2>2
  <1>6. Email = op.row.ids[j] /\ PartNo = i /\ Asks(request.next) = <<op.row.ids[j], i>>
    BY DEF Email, PartNo, Asks
  <1> HIDE DEF P, i, j
  <1>7. Email \in Emails
    BY <1>3, <1>5, <1>6
  <1>8. PICK c : c = cloud[Email] /\ c = [box |-> c.box, keywords |-> c.keywords]
    BY <1>7 DEF OpsTypeOK
  <1>9. /\ cloud' = [e \in Emails |-> cloud'[e]]
        /\ cloud'[Email] = Part(op.row.kind, c, i)
        /\ \A e \in Emails \ {Email} : cloud'[e] = cloud[e]
    BY <1>6, <1>7, <1>8 DEF OpsTypeOK
  <1>10. PICK b : b = Part(op.row.kind, c, i)
    OBVIOUS
  <1>11. b = [box |-> b.box, keywords |-> b.keywords] /\ AsAsked(op.row.kind, b, i)
    <2>1. CASE op.row.kind = "flags"
      <3>1. b = [c EXCEPT !.keywords = @ \cup {Keywords[i]}]
        BY <2>1, <1>10 DEF Part
      <3>2. b = [box |-> c.box, keywords |-> c.keywords \cup {Keywords[i]}]
        BY <1>8, <3>1
      <3> QED
        BY <2>1, <3>2 DEF AsAsked
    <2>2. CASE op.row.kind = "move"
      <3>1. b = [c EXCEPT !.box = "archive"]
        BY <2>2, <1>10 DEF Part
      <3>2. b = [box |-> "archive", keywords |-> c.keywords]
        BY <1>8, <3>1
      <3> QED
        BY <2>2, <3>2 DEF AsAsked
    <2>3. CASE op.row.kind = "delete"
      <3>1. b = [c EXCEPT !.box = "destroyed"]
        BY <2>3, <1>10 DEF Part
      <3>2. b = [box |-> "destroyed", keywords |-> c.keywords]
        BY <1>8, <3>1
      <3> QED
        BY <2>3, <3>2 DEF AsAsked
    <2> QED
      BY <1>1, <2>1, <2>2, <2>3
  <1>12. AsAsked(op.row.kind, cloud'[Email], i)
    BY <1>9, <1>10, <1>11
  <1>13. <<Email, i>> \in Fulfilled(op.row.kind, cloud')
    <2>1. PICK now : now = cloud'
      OBVIOUS
    <2>2. AsAsked(op.row.kind, now[Email], i) /\ i \in 1 .. Portions(op.row.kind)
      BY <1>12, <1>5, <2>1 DEF P
    <2>3. <<Email, i>> \in Fulfilled(op.row.kind, now)
      BY <1>7, <2>2 DEF Fulfilled
    <2> QED
      BY <2>1, <2>3
  <1>14. Reached(cloud') = reached \cup Fulfilled(op.row.kind, cloud')
    BY <1>1 DEF Reached
  <1>15. \A e \in Emails : cloud'[e] = [box |-> cloud'[e].box, keywords |-> cloud'[e].keywords]
    BY <1>9, <1>10, <1>11 DEF OpsTypeOK
  <1> QED
    BY <1>6, <1>7, <1>9, <1>13, <1>14, <1>15

(* An attempt fails, with the copies as they were, and what was asked      *)
(* asked for.                                                              *)
LEMMA FailedKeeps ==
    ASSUME OpsInv, FailRow, op.at = "queued", OpsTypeOK',
           season'.rows = season.rows, uploads \subseteq uploads',
           \A u \in uploads' : u <= Attempt,
           serverId' = serverId, CopiesUnlessFailed'
    PROVE  OpsInv'
  <1> USE DEF OpsInv
  <1>1. season' = [rows |-> season'.rows, fails |-> season'.fails, others |-> season'.others]
    BY DEF OpsTypeOK
  <1>2. /\ op' = [row |-> op.row, tries |-> op.tries + 1, at |-> op'.at]
        /\ op'.at \in {"queued", "dead"} /\ request' = Still
        /\ OneAtATime'
        /\ Attempt' = Attempt + 1 /\ Attempt \in Nat
    BY <1>1, FailRowKeeps
  <1>3. SoFar'
    BY <1>2 DEF SoFar, Still
  <1>4. serverId # 0 => serverId < Attempt'
    BY <1>2 DEF CopiesAreCounted, OpsTypeOK
  <1>5. \A u \in uploads' : u < Attempt'
    BY <1>2 DEF OpsTypeOK
  <1>6. serverId' # 0 => uploads' # {}
    BY DEF CopiesAreCounted
  <1>7. CopiesAreCounted'
    BY <1>2, <1>4, <1>5, <1>6 DEF CopiesAreCounted, OpsTypeOK, Still
  <1> QED
    BY <1>2, <1>3, <1>7

LEMMA SetEmailKeeps ==
    ASSUME OpsInv, SetEmail
    PROVE  OpsInv'
  <1> USE OpsAssumption DEF OpsInv
  <1>1. /\ request.at = "set" /\ cloud' = [cloud EXCEPT ![Email] = Part(op.row.kind, @, PartNo)]
        /\ reached' = Reached(cloud') /\ UNCHANGED <<uploads, serverId, failedOnce>>
        /\ (GoOn /\ UNCHANGED <<op, season>>) \/ (Happens("fails") /\ FailRow)
    BY DEF SetEmail
  <1>2. /\ Asks(request.next) \in reached' /\ reached \subseteq reached'
        /\ \A e \in Emails : cloud'[e] = [box |-> cloud'[e].box, keywords |-> cloud'[e].keywords]
        /\ cloud' = [e \in Emails |-> cloud'[e]]
    BY <1>1, SetIsReached
  <1>3. op.at = "queued" /\ op.row \in Batches /\ op.row.kind # "draft"
    BY <1>1 DEF OneAtATime
  <1>4. CASE GoOn /\ UNCHANGED <<op, season>>
    <2>1. /\ request' = [at |-> request'.at, next |-> request'.next, save |-> request'.save]
          /\ request'.save = request.save
          /\ \/ request'.at = "set" /\ request'.next = request.next + 1 /\ request.next < Total
             \/ request'.at = "settle" /\ request'.next = request.next /\ ~(request.next < Total)
      BY <1>1, <1>4 DEF GoOn, OpsTypeOK
    <2>2. OpsTypeOK'
      BY <1>1, <1>2, <1>4, <2>1 DEF OpsTypeOK
    <2>3. OneAtATime'
      BY <1>3, <1>4, <2>1 DEF OneAtATime
    <2>4. Attempt' = Attempt /\ Total' = Total /\ \A k : Asks(k)' = Asks(k)
      BY <1>4 DEF Attempt, Total, Asks
    <2>5. CopiesAreCounted' /\ CopiesUnlessFailed'
      BY <1>1, <1>3, <1>4, <2>1, <2>4 DEF CopiesAreCounted, CopiesUnlessFailed, Prior
    <2>6. request.next \in 1..Total /\ \A k \in 1 .. request.next - 1 : Asks(k) \in reached
      BY <1>1 DEF SoFar
    <2>7. Total \in Nat
      BY <1>3, BatchIs DEF Total
    <2>8. \A k \in 1 .. request.next : Asks(k) \in reached'
      BY <1>2, <2>6, <2>7
    <2>9. SoFar'
      <3>1. CASE request'.at = "set"
        BY <1>3, <1>4, <2>1, <2>4, <2>6, <2>7, <2>8, <3>1 DEF SoFar
      <3>2. CASE request'.at = "settle"
        <4>1. request.next = Total
          BY <2>1, <2>6, <2>7, <3>2
        <4>2. ASSUME NEW w \in All(op.row) PROVE w \in reached'
          <5>1. PICK k \in 1..Total : w = Asks(k)
            BY <1>3, AllWereAsked DEF Asks, Total
          <5> QED
            BY <2>8, <4>1, <5>1
        <4>3. All(op.row)' = All(op.row)
          BY <1>4
        <4> QED
          BY <3>2, <4>2, <4>3 DEF SoFar
      <3> QED
        BY <2>1, <3>1, <3>2
    <2> QED
      BY <2>2, <2>3, <2>5, <2>9
  <1>5. CASE Happens("fails") /\ FailRow
    <2>1. /\ season' = [rows |-> season'.rows, fails |-> season'.fails, others |-> season'.others]
          /\ season'.rows = season.rows
      BY <1>5, HappensKeeps
    <2>2. /\ op' = [row |-> op.row, tries |-> op.tries + 1, at |-> op'.at]
          /\ op'.at \in {"queued", "dead"} /\ request' = Still
      BY <1>3, <1>5, <2>1, FailRowKeeps
    <2>3. OpsTypeOK'
      BY <1>1, <1>2, <2>1, <2>2 DEF OpsTypeOK, Still
    <2>4. CopiesUnlessFailed'
      BY <1>1, <2>2 DEF CopiesUnlessFailed, Prior, Still
    <2>5. \A u \in uploads' : u <= Attempt
      BY <1>1 DEF CopiesAreCounted
    <2> QED
      BY <1>1, <1>3, <1>5, <2>1, <2>3, <2>4, <2>5, FailedKeeps
  <1> QED
    BY <1>1, <1>4, <1>5

LEMMA ImportKeeps ==
    ASSUME OpsInv, Import
    PROVE  OpsInv'
  <1> USE OpsAssumption DEF OpsInv
  <1>1. /\ request.at = "import" /\ uploads' = uploads \cup {Attempt}
        /\ UNCHANGED <<cloud, serverId, reached>>
        /\ \/ /\ request' = [request EXCEPT !.at = "destroy", !.save = Attempt]
              /\ UNCHANGED <<op, season, failedOnce>>
           \/ Happens("fails") /\ failedOnce' = TRUE /\ FailRow
    BY DEF Import, Attempt
  <1>2. op.at = "queued" /\ op.row \in Batches /\ op.row.kind = "draft" /\ season.rows > 0
    BY <1>1 DEF OneAtATime
  <1>3. season.rows * Limit \in Nat /\ season.rows * Limit > 0
    BY <1>2 DEF OpsTypeOK
  <1>4. Attempt \in Nat /\ Attempt > 0
    BY <1>3 DEF Attempt, OpsTypeOK
  <1>5. /\ \A u \in uploads : u < Attempt
        /\ serverId # 0 => serverId < Attempt
    BY <1>1, <1>2 DEF CopiesAreCounted
  <1>6. CASE /\ request' = [request EXCEPT !.at = "destroy", !.save = Attempt]
             /\ UNCHANGED <<op, season, failedOnce>>
    <2>1. /\ request' = [at |-> "destroy", next |-> request.next, save |-> Attempt]
          /\ Attempt' = Attempt
      BY <1>6 DEF OpsTypeOK, Attempt
    <2>2. OpsTypeOK' /\ OneAtATime' /\ SoFar'
      BY <1>1, <1>2, <1>4, <1>6, <2>1 DEF OpsTypeOK, OneAtATime, SoFar
    <2>3. CopiesAreCounted'
      BY <1>1, <1>2, <1>4, <1>5, <1>6, <2>1 DEF CopiesAreCounted, OpsTypeOK
    <2>4. CopiesUnlessFailed'
      BY <1>1, <1>6, <2>1 DEF CopiesUnlessFailed, Prior
    <2> QED
      BY <2>2, <2>3, <2>4
  <1>7. CASE Happens("fails") /\ failedOnce' = TRUE /\ FailRow
    <2>1. /\ season' = [rows |-> season'.rows, fails |-> season'.fails, others |-> season'.others]
          /\ season'.rows = season.rows
      BY <1>7, HappensKeeps
    <2>2. /\ op' = [row |-> op.row, tries |-> op.tries + 1, at |-> op'.at]
          /\ op'.at \in {"queued", "dead"} /\ request' = Still
      BY <1>2, <1>7, <2>1, FailRowKeeps
    <2>3. OpsTypeOK'
      BY <1>1, <1>4, <2>1, <2>2 DEF OpsTypeOK, Still
    <2>4. CopiesUnlessFailed'
      BY <1>7 DEF CopiesUnlessFailed
    <2>5. \A u \in uploads' : u <= Attempt
      BY <1>1, <1>4, <1>5 DEF OpsTypeOK
    <2> QED
      BY <1>1, <1>2, <1>7, <2>1, <2>3, <2>4, <2>5, FailedKeeps
  <1> QED
    BY <1>1, <1>6, <1>7

LEMMA DestroyPriorKeeps ==
    ASSUME OpsInv, DestroyPrior
    PROVE  OpsInv'
  <1> USE OpsAssumption DEF OpsInv
  <1>1. /\ request.at = "destroy" /\ request' = [request EXCEPT !.at = "store"]
        /\ UNCHANGED <<cloud, serverId, op, reached>>
        /\ \/ uploads' = uploads \ {serverId} /\ UNCHANGED <<season, failedOnce>>
           \/ Happens("fails") /\ failedOnce' = TRUE /\ UNCHANGED uploads
    BY DEF DestroyPrior
  <1>2. /\ season' = [rows |-> season'.rows, fails |-> season'.fails, others |-> season'.others]
        /\ season'.rows = season.rows
    BY <1>1, HappensKeeps
  <1>3. /\ request' = [at |-> "store", next |-> request.next, save |-> request.save]
        /\ Attempt' = Attempt
    BY <1>1, <1>2 DEF OpsTypeOK, Attempt
  <1>4. op.at = "queued" /\ op.row.kind = "draft"
    BY <1>1 DEF OneAtATime
  <1>5. OpsTypeOK' /\ OneAtATime' /\ SoFar'
    BY <1>1, <1>2, <1>3, <1>4 DEF OpsTypeOK, OneAtATime, SoFar
  <1>6. request.save = Attempt /\ request.save \in uploads /\ request.save # 0 /\ request.save # serverId
    BY <1>1 DEF CopiesAreCounted, OpsTypeOK
  <1>7. CopiesAreCounted'
    BY <1>1, <1>3, <1>4, <1>6 DEF CopiesAreCounted
  <1>8. CopiesUnlessFailed'
    BY <1>1, <1>3, <1>6 DEF CopiesUnlessFailed, Prior
  <1> QED
    BY <1>5, <1>7, <1>8

LEMMA StoreServerIdKeeps ==
    ASSUME OpsInv, StoreServerId
    PROVE  OpsInv'
  <1> USE OpsAssumption DEF OpsInv
  <1>1. /\ request.at = "store" /\ UNCHANGED <<cloud, uploads, reached>>
        /\ \/ /\ serverId' = request.save /\ request' = [request EXCEPT !.at = "settle"]
              /\ UNCHANGED <<op, season, failedOnce>>
           \/ Happens("fails") /\ failedOnce' = TRUE /\ FailRow /\ UNCHANGED serverId
    BY DEF StoreServerId
  <1>2. op.at = "queued" /\ op.row \in Batches /\ op.row.kind = "draft"
    BY <1>1 DEF OneAtATime
  <1>3. CASE /\ serverId' = request.save /\ request' = [request EXCEPT !.at = "settle"]
             /\ UNCHANGED <<op, season, failedOnce>>
    <2>1. /\ request' = [at |-> "settle", next |-> request.next, save |-> request.save]
          /\ Attempt' = Attempt
      BY <1>3 DEF OpsTypeOK, Attempt
    <2>2. All(op.row) = {}
      <3>1. op.row.ids = <<>>
        BY <1>2, BatchIs
      <3> QED
        BY <3>1 DEF All, About
    <2>3. OpsTypeOK' /\ OneAtATime' /\ SoFar'
      BY <1>1, <1>2, <1>3, <2>1, <2>2 DEF OpsTypeOK, OneAtATime, SoFar
    <2>4. request.save = Attempt /\ request.save \in uploads /\ request.save # 0
      BY <1>1 DEF CopiesAreCounted
    <2>5. CopiesAreCounted'
      BY <1>1, <1>2, <1>3, <2>1, <2>4 DEF CopiesAreCounted, OpsTypeOK
    <2>6. CopiesUnlessFailed'
      BY <1>1, <1>3, <2>1, <2>4 DEF CopiesUnlessFailed, Prior
    <2> QED
      BY <2>3, <2>5, <2>6
  <1>4. CASE Happens("fails") /\ failedOnce' = TRUE /\ FailRow /\ UNCHANGED serverId
    <2>1. /\ season' = [rows |-> season'.rows, fails |-> season'.fails, others |-> season'.others]
          /\ season'.rows = season.rows
      BY <1>4, HappensKeeps
    <2>2. /\ op' = [row |-> op.row, tries |-> op.tries + 1, at |-> op'.at]
          /\ op'.at \in {"queued", "dead"} /\ request' = Still
      BY <1>2, <1>4, <2>1, FailRowKeeps
    <2>3. OpsTypeOK'
      BY <1>1, <1>4, <2>1, <2>2 DEF OpsTypeOK, Still
    <2>4. CopiesUnlessFailed'
      BY <1>4 DEF CopiesUnlessFailed
    <2>5. \A u \in uploads' : u <= Attempt
      BY <1>1 DEF CopiesAreCounted
    <2> QED
      BY <1>1, <1>2, <1>4, <2>1, <2>3, <2>4, <2>5, FailedKeeps
  <1> QED
    BY <1>1, <1>3, <1>4

LEMMA OpsStep ==
    ASSUME OpsInv, [OpsNext]_jmapopsVars
    PROVE  OpsInv'
  <1> USE OpsAssumption DEF OpsInv
  <1>1. ASSUME NEW e \in Emails, NEW box, NEW words,
               OtherClient(e, [box |-> box, keywords |-> words])
        PROVE  OpsInv'
    <2>1. /\ Happens("others") /\ cloud' = [cloud EXCEPT ![e] = [box |-> box, keywords |-> words]]
          /\ reached' = Reached(cloud')
          /\ UNCHANGED <<uploads, serverId, op, request, failedOnce>>
      BY <1>1 DEF OtherClient
    <2>2. /\ season' = [rows |-> season'.rows, fails |-> season'.fails, others |-> season'.others]
          /\ season'.rows = season.rows
      BY <2>1, HappensKeeps
    <2>3. reached \subseteq reached'
      BY <2>1, ReachedGrows
    <2>4. OpsTypeOK'
      <3>1. /\ cloud' = [f \in Emails |-> cloud'[f]]
            /\ \A f \in Emails : cloud'[f] = [box |-> cloud'[f].box, keywords |-> cloud'[f].keywords]
        BY <2>1 DEF OpsTypeOK
      <3> QED
        BY <2>1, <2>2, <3>1 DEF OpsTypeOK
    <2>5. OneAtATime' /\ CopiesUnlessFailed'
      BY <2>1, <2>2 DEF OneAtATime, CopiesUnlessFailed, Prior
    <2>6. Attempt' = Attempt /\ Total' = Total /\ \A k : Asks(k)' = Asks(k)
      BY <2>1, <2>2 DEF Attempt, Total, Asks
    <2>7. CopiesAreCounted'
      BY <2>1, <2>6 DEF CopiesAreCounted
    <2>8. SoFar'
      BY <2>1, <2>3, <2>6 DEF SoFar
    <2> QED
      BY <2>4, <2>5, <2>7, <2>8
  <1>2. ASSUME NEW e \in Emails,
               \/ OtherClient(e, [cloud[e] EXCEPT !.box = "destroyed"])
               \/ OtherClient(e, [cloud[e] EXCEPT !.box = "inbox"])
               \/ OtherClient(e, [cloud[e] EXCEPT !.keywords = {}])
        PROVE  OpsInv'
    <2>1. PICK x, w : cloud[e] = [box |-> x, keywords |-> w]
      BY DEF OpsTypeOK
    <2>2. [cloud[e] EXCEPT !.box = "destroyed"] = [box |-> "destroyed", keywords |-> w]
      BY <2>1
    <2>3. [cloud[e] EXCEPT !.box = "inbox"] = [box |-> "inbox", keywords |-> w]
      BY <2>1
    <2>4. [cloud[e] EXCEPT !.keywords = {}] = [box |-> x, keywords |-> {}]
      <3>1. \A z : [cloud[e] EXCEPT !.keywords = z] = [box |-> x, keywords |-> z]
        BY <2>1
      <3> QED
        BY <3>1
    <2>5. \/ OtherClient(e, [box |-> "destroyed", keywords |-> w])
          \/ OtherClient(e, [box |-> "inbox", keywords |-> w])
          \/ OtherClient(e, [box |-> x, keywords |-> {}])
      BY <1>2, <2>2, <2>3, <2>4
    <2> QED
      BY <1>1, <2>5
  <1>3. ASSUME NEW b \in Batches, Enqueue(b) PROVE OpsInv'
    BY <1>3, EnqueueKeeps
  <1>4. CASE BeginOp
    <2>1. /\ op.at = "queued" /\ request.at = "idle"
          /\ request' = [Still EXCEPT !.at = IF op.row.kind = "draft" THEN "import" ELSE "set"]
          /\ UNCHANGED <<cloud, uploads, serverId, op, reached, failedOnce, season>>
      BY <1>4 DEF BeginOp
    <2>2. /\ request' = [at |-> request'.at, next |-> 1, save |-> 0]
          /\ request'.at = IF op.row.kind = "draft" THEN "import" ELSE "set"
      BY <2>1 DEF Still
    <2>3. op.row \in Batches
      BY <2>1 DEF OneAtATime
    <2>4. OpsTypeOK' /\ OneAtATime'
      BY <2>1, <2>2, <2>3 DEF OpsTypeOK, OneAtATime
    <2>5. Attempt' = Attempt /\ Total' = Total
      BY <2>1 DEF Attempt, Total
    <2>6. CopiesAreCounted' /\ CopiesUnlessFailed'
      BY <2>1, <2>2, <2>5 DEF CopiesAreCounted, CopiesUnlessFailed, Prior
    <2>7. request'.at = "set" => 1 \in 1..Total
      <3> SUFFICES ASSUME op.row.kind # "draft" PROVE 1 \in 1..Total
        BY <2>2
      <3>1. op.row.ids # <<>> /\ op.row.ids \in Seq(Emails) /\ Portions(op.row.kind) \in {1, 2}
        BY <2>3, BatchIs
      <3>2. Len(op.row.ids) \in Nat \ {0}
        BY <3>1
      <3> QED
        BY <3>1, <3>2 DEF Total
    <2>8. SoFar'
      BY <2>1, <2>2, <2>5, <2>7 DEF SoFar
    <2> QED
      BY <2>4, <2>6, <2>8
  <1>5. CASE SetEmail
    BY <1>5, SetEmailKeeps
  <1>6. CASE SetFails
    <2>1. /\ request.at = "set" /\ FailRow
          /\ Happens("fails") \/ UNCHANGED season
          /\ UNCHANGED <<cloud, uploads, serverId, reached, failedOnce>>
      BY <1>6 DEF SetFails, OnError, StopsAtError
    <2>2. /\ season' = [rows |-> season'.rows, fails |-> season'.fails, others |-> season'.others]
          /\ season'.rows = season.rows
      BY <2>1, HappensKeeps
    <2>3. op.at = "queued"
      BY <2>1 DEF OneAtATime
    <2>4. /\ op' = [row |-> op.row, tries |-> op.tries + 1, at |-> op'.at]
          /\ op'.at \in {"queued", "dead"} /\ request' = Still
      BY <2>1, <2>2, <2>3, FailRowKeeps
    <2>5. OpsTypeOK'
      BY <2>1, <2>2, <2>4 DEF OpsTypeOK, Still
    <2>6. CopiesUnlessFailed'
      BY <2>1, <2>4 DEF CopiesUnlessFailed, Prior, Still
    <2>7. \A u \in uploads' : u <= Attempt
      BY <2>1 DEF CopiesAreCounted
    <2> QED
      BY <2>1, <2>2, <2>3, <2>5, <2>6, <2>7, FailedKeeps
  <1>7. CASE Import
    BY <1>7, ImportKeeps
  <1>8. CASE DestroyPrior
    BY <1>8, DestroyPriorKeeps
  <1>9. CASE StoreServerId
    BY <1>9, StoreServerIdKeeps
  <1>10. CASE Settle
    <2>1. /\ request.at = "settle" /\ request' = Still /\ op' = [op EXCEPT !.at = "done"]
          /\ UNCHANGED <<cloud, uploads, serverId, reached, failedOnce, season>>
      BY <1>10 DEF Settle
    <2>2. /\ op' = [row |-> op.row, tries |-> op.tries, at |-> "done"]
          /\ Attempt' = Attempt
      BY <2>1 DEF OpsTypeOK, Attempt
    <2>3. OpsTypeOK' /\ OneAtATime' /\ SoFar'
      BY <2>1, <2>2 DEF OpsTypeOK, OneAtATime, SoFar, Still
    <2>4. CopiesAreCounted' /\ CopiesUnlessFailed'
      BY <2>1, <2>2 DEF CopiesAreCounted, CopiesUnlessFailed, Prior, Still
    <2> QED
      BY <2>3, <2>4
  <1>11. CASE UNCHANGED jmapopsVars
    BY <1>11 DEF jmapopsVars, OpsTypeOK, OneAtATime, SoFar, CopiesAreCounted, CopiesUnlessFailed,
                 Attempt, Prior, Total, Asks
  <1> QED
    BY <1>2, <1>3, <1>4, <1>5, <1>6, <1>7, <1>8, <1>9, <1>10, <1>11 DEF OpsNext

(* An outbox row that a JMAP server has answered (process_one and the      *)
(* loops of jmap-client) was carried out for each of its messages at some  *)
(* time since it was queued, whatever failed half way and was repeated,    *)
(* and whatever other clients did; a draft that was saved is there, once   *)
(* unless a save of it failed.                                             *)
THEOREM OpsAreDone == OpsSpec => []OpsAreCarriedOut
  <1>1. OpsInv => OpsAreCarriedOut
    <2> SUFFICES ASSUME OpsInv PROVE DoneMeansAll /\ DraftIsThere
      BY DEF OpsAreCarriedOut
    <2>1. DoneMeansAll
      BY DEF OpsInv, SoFar, DoneMeansAll, All
    <2>2. ASSUME ~failedOnce, request.at \notin {"destroy", "store"} PROVE Cardinality(uploads) <= 1
      <3>1. uploads = {} \/ uploads = {serverId}
        BY <2>2 DEF OpsInv, CopiesUnlessFailed, Prior
      <3>2. Cardinality({}) = 0 /\ Cardinality({serverId}) = 1
        BY FS_EmptySet, FS_Singleton
      <3> QED
        BY <3>1, <3>2
    <2>3. serverId # 0 => uploads # {}
      BY DEF OpsInv, CopiesAreCounted
    <2> QED
      BY <2>1, <2>2, <2>3 DEF DraftIsThere
  <1> QED
    BY OpsInitially, OpsStep, <1>1, PTL DEF OpsSpec

-----------------------------------------------------------------------------
(* Bodies: an inode is of one message in one folder, and unless two puts   *)
(* overlap, of one put; and while a message stays where it was found, its  *)
(* tasks and files are where its row is.                                   *)

Stages == {"fetch", "create", "write", "rename", "record", "unlink"}
TaskOK(t) ==
    /\ t = [n |-> t.n, id |-> t.id, of |-> t.of, at |-> t.at, inode |-> t.inode, left |-> t.left]
    /\ t.id \in Messages /\ t.of \in Shelves /\ t.at \in Stages
    /\ t.at \in {"fetch", "create"} => t.left = Halves

BodiesTypeOK ==
    /\ row = [m \in Messages |-> row[m]] /\ disk = [n \in Names |-> disk[n]]
    /\ \A m \in Messages : /\ row[m] = [at |-> row[m].at, body |-> row[m].body]
                           /\ row[m].at \in Shelves \cup {"new", "gone"}
    /\ inodes \in Seq(SUBSET Halves)
    /\ \A n \in Names : disk[n] \in 0 .. Len(inodes)
    /\ \A t \in tasks : TaskOK(t)

Writing(t) == t.at \in {"write", "rename"}
Together(t, u) == t.of = u.of /\ t.id = u.id

FilesAreApart == \A n, k \in Names : disk[n] = disk[k] /\ disk[n] # 0 => n = k

WritersOwn ==
    \A t \in tasks : Writing(t) =>
       /\ t.inode \in 1 .. Len(inodes)
       /\ \A n \in Names : disk[n] = t.inode => n[1] = t.of /\ n[2] = t.id
       /\ \A u \in tasks : Writing(u) /\ u.inode = t.inode => Together(t, u)

WritersAreAlone ==
    \A t \in tasks : Writing(t) /\ <<t.of, t.id>> \notin overlapped =>
       /\ disk[Tmp(t.of, t.id)] = t.inode /\ inodes[t.inode] = Halves \ t.left
       /\ t.left = IF t.at = "rename" THEN {} ELSE IF 1 \in t.left THEN Halves ELSE {2}
       /\ \A u \in tasks : Writing(u) /\ Together(t, u) => u = t

(* What is the case of a message that has not strayed.                     *)
UnreadAgrees(m) ==
    row[m].at = "new" =>
       /\ ~row[m].body /\ \A t \in tasks : t.id # m
       /\ \A f \in Shelves : ~Exists(Eml(f, m))
ShelvedAgrees(m) ==
    row[m].at \in Shelves =>
       /\ \A t \in tasks : t.id = m => t.of = row[m].at /\ t.at # "unlink"
       /\ \A t \in tasks : t.id = m /\ t.at = "record" => Exists(Eml(row[m].at, m))
       /\ \A f \in Shelves : Exists(Eml(f, m)) => f = row[m].at
       /\ row[m].body => Exists(Eml(row[m].at, m))
GoneAgrees(m) ==
    row[m].at = "gone" =>
       /\ ~row[m].body /\ \A t \in tasks : t.id = m => t.at \in {"record", "unlink"}
       /\ \A f \in Shelves : Exists(Eml(f, m)) => \E t \in tasks : t.at = "unlink" /\ t.id = m /\ t.of = f
RowsAgree == \A m \in Messages \ strayed : UnreadAgrees(m) /\ ShelvedAgrees(m) /\ GoneAgrees(m)

FilesInv == FilesAreApart /\ WritersOwn /\ WritersAreAlone /\ WholeUnlessOverlapped
BodiesInv == BodiesTypeOK /\ FilesInv /\ RowsAgree

LEMMA BodiesInitially == BodiesInit => BodiesInv
  <1> SUFFICES ASSUME BodiesInit PROVE BodiesInv
    OBVIOUS
  <1> USE BodiesAssumption DEF BodiesInit
  <1>1. \A n \in Names : disk[n] = 0
    OBVIOUS
  <1>2. BodiesTypeOK
    <2>1. inodes \in Seq(SUBSET Halves) /\ Len(inodes) = 0
      OBVIOUS
    <2>2. \A m \in Messages : row[m] = [at |-> "new", body |-> FALSE]
      OBVIOUS
    <2> QED
      BY <1>1, <2>1, <2>2 DEF BodiesTypeOK
  <1>3. FilesInv
    BY <1>1 DEF FilesInv, FilesAreApart, WritersOwn, WritersAreAlone, WholeUnlessOverlapped, Exists
  <1>4. \A f \in Shelves, m \in Messages : Eml(f, m) \in Names
    BY DEF Eml, Names
  <1>5. RowsAgree
    BY <1>1, <1>4 DEF RowsAgree, UnreadAgrees, ShelvedAgrees, GoneAgrees, Exists
  <1> QED
    BY <1>2, <1>3, <1>5 DEF BodiesInv

LEMMA NamesAre ==
    ASSUME NEW f \in Shelves, NEW m \in Messages
    PROVE  /\ Eml(f, m) \in Names /\ Tmp(f, m) \in Names /\ Eml(f, m) # Tmp(f, m)
           /\ Eml(f, m)[1] = f /\ Eml(f, m)[2] = m /\ Eml(f, m)[3] = "eml"
           /\ Tmp(f, m)[1] = f /\ Tmp(f, m)[2] = m /\ Tmp(f, m)[3] = "tmp"
           /\ \A n \in Names : n[1] = f /\ n[2] = m => n \in {Eml(f, m), Tmp(f, m)}
           /\ \A n \in Names : n[1] = f /\ n[2] = m /\ n[3] = "eml" => n = Eml(f, m)
           /\ \A g \in Shelves, k \in Messages : Eml(g, k) = Eml(f, m) => g = f /\ k = m
           /\ \A g \in Shelves, k \in Messages : Eml(g, k) # Tmp(f, m)
  BY DEF Eml, Tmp, Names

(* What leaves the files alone, and the tasks that write, too.             *)
LEMMA FilesStay ==
    ASSUME BodiesTypeOK, FilesInv, UNCHANGED <<disk, inodes, overlapped>>,
           \A t \in tasks' : Writing(t) => t \in tasks
    PROVE  FilesInv'
  BY DEF FilesInv, FilesAreApart, WritersOwn, WritersAreAlone, WholeUnlessOverlapped, Exists,
         Writing, Together

(* A file is opened: truncated when it is there, new otherwise.            *)
LEMMA Truncated ==
    ASSUME NEW S, NEW s \in Seq(S), NEW v \in S, NEW i \in 1 .. Len(s) + 1,
           NEW r \in [DOMAIN s \cup {i} -> S], r[i] = v,
           \A j \in DOMAIN s : j # i => r[j] = s[j]
    PROVE  /\ r \in Seq(S) /\ Len(s) <= Len(r) /\ i \in 1 .. Len(r) /\ r[i] = v
           /\ \A j \in 1 .. Len(s) : j # i => r[j] = s[j]
  <1>1. CASE i = Len(s) + 1
    <2>1. DOMAIN s \cup {i} = 1 .. Len(s) + 1
      BY <1>1
    <2>2. r \in [1 .. Len(s) + 1 -> S]
      BY <2>1
    <2>3. r \in Seq(S) /\ Len(r) = Len(s) + 1
      BY <1>1, <2>2
    <2> QED
      BY <1>1, <2>2, <2>3
  <1>2. CASE i # Len(s) + 1
    <2>1. DOMAIN s \cup {i} = 1 .. Len(s) /\ i \in 1 .. Len(s)
      BY <1>2
    <2>2. r \in [1 .. Len(s) -> S]
      BY <2>1
    <2>3. r \in Seq(S) /\ Len(r) = Len(s)
      BY <2>2
    <2> QED
      BY <2>1, <2>2, <2>3
  <1> QED
    BY <1>1, <1>2

LEMMA CreateKeeps ==
    ASSUME BodiesInv, NEW t \in tasks, Create(t)
    PROVE  BodiesInv'
  <1> USE DEF BodiesInv
  <1> DEFINE k == Tmp(t.of, t.id)
  <1>1. PICK i : i = IF Exists(k) THEN disk[k] ELSE Len(inodes) + 1
    OBVIOUS
  <1>2. PICK u : u = [t EXCEPT !.at = "write", !.inode = i]
    OBVIOUS
  <1>3. /\ t.at = "create" /\ disk' = [disk EXCEPT ![k] = i]
        /\ inodes' = [j \in DOMAIN inodes \cup {i} |-> IF j = i THEN {} ELSE inodes[j]]
        /\ overlapped' = overlapped \cup (IF Writes(t.of, t.id) = {} THEN {} ELSE {<<t.of, t.id>>})
        /\ tasks' = (tasks \ {t}) \cup {u}
        /\ UNCHANGED <<row, strayed, taken>>
    BY <1>1, <1>2 DEF Create, Become
  <1>4. TaskOK(t) /\ t.id \in Messages /\ t.of \in Shelves /\ t.left = Halves
    BY <1>3 DEF BodiesTypeOK, TaskOK
  <1>5. /\ u = [n |-> t.n, id |-> t.id, of |-> t.of, at |-> "write", inode |-> i, left |-> Halves]
        /\ u.id = t.id /\ u.of = t.of /\ u.at = "write" /\ u.inode = i /\ u.left = Halves
    BY <1>2, <1>4 DEF TaskOK
  <1>6. k \in Names
    BY <1>4, NamesAre
  <1>7. i \in 1 .. Len(inodes) + 1 /\ Len(inodes) \in Nat
    BY <1>1, <1>6 DEF BodiesTypeOK, Exists
  <1>8. /\ inodes' \in Seq(SUBSET Halves) /\ Len(inodes) <= Len(inodes') /\ i \in 1 .. Len(inodes')
        /\ inodes'[i] = {} /\ \A j \in 1 .. Len(inodes) : j # i => inodes'[j] = inodes[j]
    <2>1. PICK r : r = inodes'
      OBVIOUS
    <2>2. {} \in SUBSET Halves /\ inodes \in Seq(SUBSET Halves)
      BY DEF BodiesTypeOK
    <2>3. /\ r \in Seq(SUBSET Halves) /\ Len(inodes) <= Len(r) /\ i \in 1 .. Len(r)
          /\ r[i] = {} /\ \A j \in 1 .. Len(inodes) : j # i => r[j] = inodes[j]
      <3>1. PICK S, v, s : S = SUBSET Halves /\ v = {} /\ s = inodes
        OBVIOUS
      <3>2. /\ r \in [DOMAIN s \cup {i} -> S]
            /\ r[i] = v /\ \A j \in DOMAIN s : j # i => r[j] = s[j]
        BY <1>3, <2>1, <2>2, <3>1
      <3>3. s \in Seq(S) /\ v \in S /\ i \in 1 .. Len(s) + 1
        BY <1>7, <2>2, <3>1
      <3>4. /\ r \in Seq(S) /\ Len(s) <= Len(r) /\ i \in 1 .. Len(r) /\ r[i] = v
            /\ \A j \in 1 .. Len(s) : j # i => r[j] = s[j]
        BY <3>2, <3>3, Truncated
      <3> QED
        BY <3>1, <3>4
    <2> QED
      BY <2>1, <2>3
  <1>9. /\ disk' = [n \in Names |-> disk'[n]] /\ disk'[k] = i
        /\ \A n \in Names \ {k} : disk'[n] = disk[n]
    BY <1>3, <1>6 DEF BodiesTypeOK
  <1>10. Len(inodes') \in Nat
    BY <1>8
  <1> HIDE DEF k
  <1>11. BodiesTypeOK'
    <2>1. \A n \in Names : disk'[n] \in 0 .. Len(inodes')
      BY <1>7, <1>8, <1>9, <1>10 DEF BodiesTypeOK
    <2>2. TaskOK(u)
      BY <1>4, <1>5 DEF TaskOK, Stages
    <2> QED
      BY <1>3, <1>8, <1>9, <2>1, <2>2 DEF BodiesTypeOK
  <1>12. \A n \in Names \ {k} : disk[n] # i
    BY <1>1, <1>6, <1>7 DEF BodiesTypeOK, FilesInv, FilesAreApart, Exists
  <1>13. FilesAreApart'
    BY <1>9, <1>12 DEF FilesInv, FilesAreApart
  <1>14. k[1] = t.of /\ k[2] = t.id
    BY <1>4, NamesAre DEF k
  <1>15. \A v \in tasks : Writing(v) /\ v.inode = i => Together(v, t)
    <2> SUFFICES ASSUME NEW v \in tasks, Writing(v), v.inode = i PROVE Together(v, t)
      OBVIOUS
    <2>1. v.inode \in 1 .. Len(inodes)
      BY DEF FilesInv, WritersOwn
    <2>2. i = disk[k]
      BY <1>1, <1>7, <2>1
    <2> QED
      BY <1>6, <1>14, <2>2 DEF FilesInv, WritersOwn, Together
  <1>16. WritersOwn'
    <2>1. ASSUME NEW v \in tasks, Writing(v)
          PROVE  /\ v.inode \in 1 .. Len(inodes')
                 /\ \A n \in Names : disk'[n] = v.inode => n[1] = v.of /\ n[2] = v.id
                 /\ \A w \in tasks : Writing(w) /\ w.inode = v.inode => Together(v, w)
                 /\ u.inode = v.inode => Together(v, u)
      <3>1. v.inode \in 1 .. Len(inodes')
        BY <1>7, <1>8, <1>10, <2>1 DEF FilesInv, WritersOwn
      <3>2. ASSUME NEW n \in Names, disk'[n] = v.inode PROVE n[1] = v.of /\ n[2] = v.id
        <4>1. CASE n = k
          BY <1>9, <1>14, <1>15, <2>1, <3>2, <4>1 DEF Together
        <4>2. CASE n # k
          BY <1>9, <2>1, <3>2, <4>2 DEF FilesInv, WritersOwn
        <4> QED
          BY <4>1, <4>2
      <3>3. u.inode = v.inode => Together(v, u)
        BY <1>5, <1>15, <2>1 DEF Together
      <3> QED
        BY <2>1, <3>1, <3>2, <3>3 DEF FilesInv, WritersOwn
    <2>2. /\ u.inode \in 1 .. Len(inodes')
          /\ \A n \in Names : disk'[n] = u.inode => n[1] = u.of /\ n[2] = u.id
      BY <1>5, <1>8, <1>9, <1>12, <1>14
    <2>3. \A v \in tasks : Writing(v) /\ v.inode = u.inode => Together(u, v)
      BY <1>5, <1>15 DEF Together
    <2>4. Writing(u)
      BY <1>5 DEF Writing
    <2> SUFFICES ASSUME NEW v \in tasks', Writing(v)
                 PROVE  /\ v.inode \in 1 .. Len(inodes')
                        /\ \A n \in Names : disk'[n] = v.inode => n[1] = v.of /\ n[2] = v.id
                        /\ \A w \in tasks' : Writing(w) /\ w.inode = v.inode => Together(v, w)
      BY DEF WritersOwn, Writing, Together
    <2>5. CASE v \in tasks
      BY <1>3, <2>1, <2>5
    <2>6. CASE v = u
      BY <1>3, <2>2, <2>3, <2>6 DEF Together
    <2> QED
      BY <1>3, <2>5, <2>6
  <1>17. ASSUME <<t.of, t.id>> \notin overlapped' PROVE \A v \in tasks : ~(Writing(v) /\ Together(v, t))
    BY <1>3, <1>17 DEF Writes, Writing, Together
  <1>18. ASSUME NEW v \in tasks, Writing(v), <<v.of, v.id>> \notin overlapped'
         PROVE  /\ disk'[Tmp(v.of, v.id)] = v.inode /\ inodes'[v.inode] = Halves \ v.left
                /\ v.left = IF v.at = "rename" THEN {} ELSE IF 1 \in v.left THEN Halves ELSE {2}
                /\ \A w \in tasks : Writing(w) /\ Together(v, w) => w = v
                /\ ~Together(v, u)
    <2>1. ~Together(v, t)
      BY <1>17, <1>18 DEF Together
    <2>2. <<v.of, v.id>> \notin overlapped
      BY <1>3, <1>18
    <2>3. /\ disk[Tmp(v.of, v.id)] = v.inode /\ inodes[v.inode] = Halves \ v.left
          /\ v.left = IF v.at = "rename" THEN {} ELSE IF 1 \in v.left THEN Halves ELSE {2}
          /\ \A w \in tasks : Writing(w) /\ Together(v, w) => w = v
      BY <1>18, <2>2 DEF FilesInv, WritersAreAlone
    <2>4. v.inode # i /\ v.inode \in 1 .. Len(inodes)
      BY <1>15, <1>18, <2>1 DEF FilesInv, WritersOwn
    <2>5. v.id \in Messages /\ v.of \in Shelves
      BY DEF BodiesTypeOK, TaskOK
    <2>6. Tmp(v.of, v.id) \in Names /\ Tmp(v.of, v.id) # k
      BY <1>14, <2>1, <2>5, NamesAre DEF Together
    <2> QED
      BY <1>5, <1>8, <1>9, <2>1, <2>3, <2>4, <2>6 DEF Together
  <1>19. WritersAreAlone'
    <2> SUFFICES ASSUME NEW v \in tasks', Writing(v), <<v.of, v.id>> \notin overlapped'
                 PROVE  /\ disk'[Tmp(v.of, v.id)] = v.inode /\ inodes'[v.inode] = Halves \ v.left
                        /\ v.left = IF v.at = "rename" THEN {} ELSE IF 1 \in v.left THEN Halves ELSE {2}
                        /\ \A w \in tasks' : Writing(w) /\ Together(v, w) => w = v
      BY DEF WritersAreAlone, Writing, Together, Tmp
    <2>1. CASE v \in tasks
      BY <1>3, <1>18, <2>1
    <2>2. CASE v = u
      <3>1. disk'[Tmp(v.of, v.id)] = v.inode /\ inodes'[v.inode] = Halves \ v.left
        BY <1>5, <1>8, <1>9, <2>2 DEF k
      <3>2. v.left = IF v.at = "rename" THEN {} ELSE IF 1 \in v.left THEN Halves ELSE {2}
        BY <1>5, <2>2 DEF Halves
      <3>3. \A w \in tasks : ~(Writing(w) /\ Together(v, w))
        BY <1>5, <1>17, <2>2 DEF Together
      <3> QED
        BY <1>3, <2>2, <3>1, <3>2, <3>3
    <2> QED
      BY <1>3, <2>1, <2>2
  <1>20. WholeUnlessOverlapped'
    <2> SUFFICES ASSUME NEW n \in Names, n[3] = "eml", disk'[n] # 0, <<n[1], n[2]>> \notin overlapped'
                 PROVE  inodes'[disk'[n]] = Halves
      BY DEF WholeUnlessOverlapped, Exists
    <2>1. n # k
      BY <1>4, NamesAre DEF k
    <2>2. disk'[n] = disk[n] /\ disk[n] # i /\ disk[n] \in 1 .. Len(inodes)
      BY <1>7, <1>9, <1>12, <2>1 DEF BodiesTypeOK
    <2>3. inodes[disk[n]] = Halves
      BY <1>3, <2>2 DEF FilesInv, WholeUnlessOverlapped, Exists
    <2> QED
      BY <1>8, <2>2, <2>3
  <1>21. RowsAgree'
    <2>1. \A f \in Shelves, m \in Messages : disk'[Eml(f, m)] = disk[Eml(f, m)]
      BY <1>4, <1>9, NamesAre DEF k
    <2>2. ASSUME NEW m \in Messages \ strayed
          PROVE  UnreadAgrees(m)' /\ ShelvedAgrees(m)' /\ GoneAgrees(m)'
      <3>1. UnreadAgrees(m) /\ ShelvedAgrees(m) /\ GoneAgrees(m)
        BY DEF RowsAgree
      <3>2. UnreadAgrees(m)'
        BY <1>3, <1>5, <2>1, <3>1 DEF UnreadAgrees, Exists
      <3>3. ShelvedAgrees(m)'
        BY <1>3, <1>5, <2>1, <3>1 DEF ShelvedAgrees, Exists
      <3>4. GoneAgrees(m)'
        BY <1>3, <1>5, <2>1, <3>1 DEF GoneAgrees, Exists
      <3> QED
        BY <3>2, <3>3, <3>4
    <2> QED
      BY <1>3, <2>2 DEF RowsAgree
  <1> QED
    BY <1>11, <1>13, <1>16, <1>19, <1>20, <1>21 DEF FilesInv

(* What leaves rows and files alone, and takes no task but to its next     *)
(* stage before the row is written.                                        *)
OnItsWay == {"fetch", "create", "write", "rename"}
LEMMA RowsStay ==
    ASSUME RowsAgree, row' = row, strayed \subseteq strayed',
           \A f \in Shelves, m \in Messages : disk'[Eml(f, m)] = disk[Eml(f, m)],
           \A u \in tasks' : \E t \in tasks :
               Together(t, u) /\ (t.at = u.at \/ (t.at \in OnItsWay /\ u.at \in OnItsWay)),
           \A t \in tasks : t.at = "unlink" => t \in tasks'
    PROVE  RowsAgree'
  <1> SUFFICES ASSUME NEW m \in Messages \ strayed'
               PROVE  UnreadAgrees(m)' /\ ShelvedAgrees(m)' /\ GoneAgrees(m)'
    BY DEF RowsAgree
  <1>1. UnreadAgrees(m) /\ ShelvedAgrees(m) /\ GoneAgrees(m)
    BY DEF RowsAgree
  <1>2. UnreadAgrees(m)'
    BY <1>1 DEF UnreadAgrees, Exists, Together
  <1>3. ShelvedAgrees(m)'
    BY <1>1 DEF ShelvedAgrees, Exists, Together, OnItsWay
  <1>4. GoneAgrees(m)'
    BY <1>1 DEF GoneAgrees, Exists, Together, OnItsWay
  <1> QED
    BY <1>2, <1>3, <1>4

LEMMA WriteKeeps ==
    ASSUME BodiesInv, NEW t \in tasks, Write(t)
    PROVE  BodiesInv'
  <1> USE DEF BodiesInv
  <1>1. PICK h : h = IF 1 \in t.left THEN 1 ELSE 2
    OBVIOUS
  <1>2. PICK u : u = [t EXCEPT !.left = @ \ {h}, !.at = IF h = 2 THEN "rename" ELSE "write"]
    OBVIOUS
  <1>3. /\ t.at = "write" /\ inodes' = [inodes EXCEPT ![t.inode] = @ \cup {h}]
        /\ tasks' = (tasks \ {t}) \cup {u}
        /\ UNCHANGED <<row, disk, strayed, overlapped, taken>>
    BY <1>1, <1>2 DEF Write, Become, history
  <1>4. TaskOK(t) /\ t.id \in Messages /\ t.of \in Shelves
    BY DEF BodiesTypeOK, TaskOK
  <1>5. /\ u = [n |-> t.n, id |-> t.id, of |-> t.of, at |-> u.at, inode |-> t.inode, left |-> t.left \ {h}]
        /\ u.at = IF h = 2 THEN "rename" ELSE "write"
        /\ u.id = t.id /\ u.of = t.of /\ u.inode = t.inode /\ u.left = t.left \ {h}
    BY <1>2, <1>4 DEF TaskOK
  <1>6. Writing(t) /\ Writing(u)
    BY <1>3, <1>5 DEF Writing
  <1>7. t.inode \in 1 .. Len(inodes) /\ inodes \in Seq(SUBSET Halves)
    BY <1>6 DEF BodiesTypeOK, FilesInv, WritersOwn
  <1>8. inodes[t.inode] \cup {h} \in SUBSET Halves
    BY <1>1, <1>7 DEF Halves
  <1>9. /\ inodes' \in Seq(SUBSET Halves) /\ Len(inodes') = Len(inodes)
        /\ inodes'[t.inode] = inodes[t.inode] \cup {h}
        /\ \A j \in 1 .. Len(inodes) : j # t.inode => inodes'[j] = inodes[j]
    BY <1>3, <1>7, <1>8
  <1>10. BodiesTypeOK'
    <2>1. TaskOK(u)
      BY <1>4, <1>5 DEF TaskOK, Stages
    <2> QED
      BY <1>3, <1>9, <2>1 DEF BodiesTypeOK
  <1>11. FilesAreApart'
    BY <1>3 DEF FilesInv, FilesAreApart
  <1>12. WritersOwn'
    <2> SUFFICES ASSUME NEW v \in tasks', Writing(v)
                 PROVE  /\ v.inode \in 1 .. Len(inodes')
                        /\ \A n \in Names : disk'[n] = v.inode => n[1] = v.of /\ n[2] = v.id
                        /\ \A w \in tasks' : Writing(w) /\ w.inode = v.inode => Together(v, w)
      BY DEF WritersOwn, Writing, Together
    <2>1. PICK x \in tasks : Writing(x) /\ x.inode = v.inode /\ Together(x, v)
      BY <1>3, <1>5, <1>6 DEF Together
    <2>2. \A w \in tasks' : Writing(w) => \E y \in tasks : Writing(y) /\ y.inode = w.inode /\ Together(y, w)
      BY <1>3, <1>5, <1>6 DEF Together
    <2>3. /\ x.inode \in 1 .. Len(inodes)
          /\ \A n \in Names : disk[n] = x.inode => n[1] = x.of /\ n[2] = x.id
          /\ \A y \in tasks : Writing(y) /\ y.inode = x.inode => Together(x, y)
      BY <2>1 DEF FilesInv, WritersOwn
    <2> QED
      BY <1>3, <1>9, <2>1, <2>2, <2>3 DEF Together
  <1>13. ASSUME NEW v \in tasks, Writing(v), v # t, <<v.of, v.id>> \notin overlapped
         PROVE  v.inode # t.inode /\ ~Together(v, t)
    <2>1. ~Together(v, t)
      BY <1>6, <1>13 DEF FilesInv, WritersAreAlone
    <2> QED
      BY <1>6, <1>13, <2>1 DEF FilesInv, WritersOwn
  <1>14. ASSUME <<t.of, t.id>> \notin overlapped
         PROVE  /\ disk[Tmp(t.of, t.id)] = t.inode /\ inodes[t.inode] = Halves \ t.left
                /\ t.left = IF 1 \in t.left THEN Halves ELSE {2}
                /\ \A w \in tasks : Writing(w) /\ Together(t, w) => w = t
    BY <1>3, <1>6, <1>14 DEF FilesInv, WritersAreAlone
  <1>15. WritersAreAlone'
    <2> SUFFICES ASSUME NEW v \in tasks', Writing(v), <<v.of, v.id>> \notin overlapped
                 PROVE  /\ disk[Tmp(v.of, v.id)] = v.inode /\ inodes'[v.inode] = Halves \ v.left
                        /\ v.left = IF v.at = "rename" THEN {} ELSE IF 1 \in v.left THEN Halves ELSE {2}
                        /\ \A w \in tasks' : Writing(w) /\ Together(v, w) => w = v
      BY <1>3 DEF WritersAreAlone, Writing, Together, Tmp
    <2>1. CASE v \in tasks \ {t}
      <3>1. /\ disk[Tmp(v.of, v.id)] = v.inode /\ inodes[v.inode] = Halves \ v.left
            /\ v.left = IF v.at = "rename" THEN {} ELSE IF 1 \in v.left THEN Halves ELSE {2}
            /\ \A w \in tasks : Writing(w) /\ Together(v, w) => w = v
        BY <2>1 DEF FilesInv, WritersAreAlone
      <3>2. v.inode # t.inode /\ ~Together(v, t) /\ v.inode \in 1 .. Len(inodes)
        BY <1>13, <2>1 DEF FilesInv, WritersOwn
      <3> QED
        BY <1>3, <1>5, <1>9, <3>1, <3>2 DEF Together
    <2>2. CASE v = u
      <3>1. /\ disk[Tmp(t.of, t.id)] = t.inode /\ inodes[t.inode] = Halves \ t.left
            /\ t.left = IF 1 \in t.left THEN Halves ELSE {2}
            /\ \A w \in tasks : Writing(w) /\ Together(t, w) => w = t
        BY <1>5, <1>14, <2>2
      <3>2. h \in t.left /\ t.left \subseteq Halves
        BY <1>1, <3>1 DEF Halves
      <3>3. inodes'[v.inode] = Halves \ v.left
        BY <1>5, <1>9, <2>2, <3>1, <3>2
      <3>4. v.left = IF v.at = "rename" THEN {} ELSE IF 1 \in v.left THEN Halves ELSE {2}
        BY <1>1, <1>5, <2>2, <3>1 DEF Halves
      <3>5. \A w \in tasks' : Writing(w) /\ Together(v, w) => w = v
        BY <1>3, <1>5, <2>2, <3>1 DEF Together
      <3> QED
        BY <1>5, <2>2, <3>1, <3>3, <3>4, <3>5
    <2> QED
      BY <1>3, <2>1, <2>2
  <1>16. WholeUnlessOverlapped'
    <2> SUFFICES ASSUME NEW n \in Names, n[3] = "eml", disk[n] # 0, <<n[1], n[2]>> \notin overlapped
                 PROVE  inodes'[disk[n]] = Halves
      BY <1>3 DEF WholeUnlessOverlapped, Exists
    <2>1. inodes[disk[n]] = Halves
      BY DEF FilesInv, WholeUnlessOverlapped, Exists
    <2>2. disk[n] # t.inode
      <3> SUFFICES ASSUME disk[n] = t.inode PROVE FALSE
        OBVIOUS
      <3>1. n[1] = t.of /\ n[2] = t.id
        BY <1>6 DEF FilesInv, WritersOwn
      <3>2. disk[Tmp(t.of, t.id)] = disk[n]
        BY <1>14, <3>1
      <3>3. Tmp(t.of, t.id) = n
        BY <1>4, <3>2, NamesAre DEF FilesInv, FilesAreApart
      <3> QED
        BY <1>4, <3>3, NamesAre
    <2>3. disk[n] \in 1 .. Len(inodes)
      BY DEF BodiesTypeOK
    <2> QED
      BY <1>9, <2>1, <2>2, <2>3
  <1>17. RowsAgree'
    <2>1. \A v \in tasks' : \E w \in tasks :
             Together(w, v) /\ (w.at = v.at \/ (w.at \in OnItsWay /\ v.at \in OnItsWay))
      <3>1. t.at \in OnItsWay /\ u.at \in OnItsWay /\ Together(t, u)
        BY <1>3, <1>5 DEF Together, OnItsWay
      <3> QED
        BY <1>3, <3>1 DEF Together
    <2>2. \A w \in tasks : w.at = "unlink" => w \in tasks'
      BY <1>3
    <2> QED
      BY <1>3, <2>1, <2>2, RowsStay
  <1> QED
    BY <1>10, <1>11, <1>12, <1>15, <1>16, <1>17 DEF FilesInv

LEMMA RenameKeeps ==
    ASSUME BodiesInv, NEW t \in tasks, Rename(t)
    PROVE  BodiesInv'
  <1> USE DEF BodiesInv
  <1>1. PICK e, k : e = Eml(t.of, t.id) /\ k = Tmp(t.of, t.id)
    OBVIOUS
  <1>2. t.at = "rename" /\ UNCHANGED <<row, inodes, strayed, overlapped, taken>>
    BY DEF Rename, history
  <1>3. TaskOK(t) /\ t.id \in Messages /\ t.of \in Shelves /\ Writing(t)
    BY <1>2 DEF BodiesTypeOK, TaskOK, Writing
  <1>4. CASE disk[k] = 0
    <2>1. tasks' = tasks \ {t} /\ disk' = disk
      BY <1>1, <1>4 DEF Rename, Exists, Finish
    <2>2. BodiesTypeOK'
      BY <1>2, <2>1 DEF BodiesTypeOK
    <2>3. FilesInv'
      BY <1>2, <2>1, FilesStay
    <2>4. RowsAgree'
      <3>1. \A v \in tasks' : \E w \in tasks :
               Together(w, v) /\ (w.at = v.at \/ (w.at \in OnItsWay /\ v.at \in OnItsWay))
        BY <2>1 DEF Together
      <3>2. \A w \in tasks : w.at = "unlink" => w \in tasks'
        BY <1>2, <2>1
      <3> QED
        BY <1>2, <2>1, <3>1, <3>2, RowsStay
    <2> QED
      BY <2>2, <2>3, <2>4
  <1>5. CASE disk[k] # 0
    <2>1. PICK u : u = [t EXCEPT !.at = "record"]
      OBVIOUS
    <2>2. disk' = [disk EXCEPT ![e] = disk[k], ![k] = 0] /\ tasks' = (tasks \ {t}) \cup {u}
      BY <1>1, <1>5, <2>1 DEF Rename, Exists, Become
    <2>3. /\ u = [n |-> t.n, id |-> t.id, of |-> t.of, at |-> "record", inode |-> t.inode, left |-> t.left]
          /\ u.id = t.id /\ u.of = t.of /\ u.at = "record"
      BY <1>3, <2>1 DEF TaskOK
    <2>4. /\ e \in Names /\ k \in Names /\ e # k /\ e[1] = t.of /\ e[2] = t.id
          /\ k[1] = t.of /\ k[2] = t.id /\ k[3] = "tmp" /\ e[3] = "eml"
      BY <1>1, <1>3, NamesAre
    <2>5. /\ disk' = [n \in Names |-> disk'[n]] /\ disk'[e] = disk[k] /\ disk'[k] = 0
          /\ \A n \in Names \ {e, k} : disk'[n] = disk[n]
      BY <2>2, <2>4 DEF BodiesTypeOK
    <2>6. BodiesTypeOK'
      <3>1. TaskOK(u)
        BY <1>3, <2>3 DEF TaskOK, Stages
      <3>2. 0 \in 0 .. Len(inodes)
        BY DEF BodiesTypeOK
      <3>3. \A n \in Names : disk'[n] \in 0 .. Len(inodes)
        BY <2>4, <2>5, <3>2 DEF BodiesTypeOK
      <3> QED
        BY <1>2, <2>2, <2>5, <3>1, <3>3 DEF BodiesTypeOK
    <2>7. FilesAreApart'
      BY <1>5, <2>4, <2>5 DEF FilesInv, FilesAreApart
    <2>8. \A v \in tasks' : Writing(v) => v \in tasks
      BY <2>2, <2>3 DEF Writing
    <2>9. WritersOwn'
      <3> SUFFICES ASSUME NEW v \in tasks', Writing(v)
                   PROVE  /\ v.inode \in 1 .. Len(inodes')
                          /\ \A n \in Names : disk'[n] = v.inode => n[1] = v.of /\ n[2] = v.id
                          /\ \A w \in tasks' : Writing(w) /\ w.inode = v.inode => Together(v, w)
        BY DEF WritersOwn, Writing, Together
      <3>1. /\ v.inode \in 1 .. Len(inodes)
            /\ \A n \in Names : disk[n] = v.inode => n[1] = v.of /\ n[2] = v.id
            /\ \A w \in tasks : Writing(w) /\ w.inode = v.inode => Together(v, w)
        BY <2>8 DEF FilesInv, WritersOwn
      <3>2. v.inode # 0
        BY <3>1
      <3>3. \A n \in Names : disk'[n] = v.inode => n[1] = v.of /\ n[2] = v.id
        BY <2>4, <2>5, <3>1, <3>2
      <3> QED
        BY <1>2, <2>8, <3>1, <3>3
    <2>10. ASSUME NEW v \in tasks', Writing(v), <<v.of, v.id>> \notin overlapped
           PROVE  /\ disk[Tmp(v.of, v.id)] = v.inode /\ inodes[v.inode] = Halves \ v.left
                  /\ v.left = IF v.at = "rename" THEN {} ELSE IF 1 \in v.left THEN Halves ELSE {2}
                  /\ \A w \in tasks : Writing(w) /\ Together(v, w) => w = v
      BY <2>8, <2>10 DEF FilesInv, WritersAreAlone
    <2>11. ASSUME NEW v \in tasks', Writing(v), <<v.of, v.id>> \notin overlapped
           PROVE  disk'[Tmp(v.of, v.id)] = disk[Tmp(v.of, v.id)]
      <3>1. v \in tasks /\ v # t
        <4>1. CASE u = t
          BY <1>2, <2>3, <4>1
        <4>2. CASE u # t
          BY <2>2, <2>3, <2>11, <4>2 DEF Writing
        <4> QED
          BY <4>1, <4>2
      <3>2. ~Together(v, t)
        BY <1>3, <2>10, <2>11, <3>1
      <3>3. v.id \in Messages /\ v.of \in Shelves
        BY <3>1 DEF BodiesTypeOK, TaskOK
      <3>4. Tmp(v.of, v.id) \in Names \ {e, k}
        BY <2>4, <3>2, <3>3, NamesAre DEF Together
      <3> QED
        BY <2>5, <3>4
    <2>12. WritersAreAlone'
      <3> SUFFICES ASSUME NEW v \in tasks', Writing(v), <<v.of, v.id>> \notin overlapped
                   PROVE  /\ disk'[Tmp(v.of, v.id)] = v.inode /\ inodes[v.inode] = Halves \ v.left
                          /\ v.left = IF v.at = "rename" THEN {} ELSE IF 1 \in v.left THEN Halves ELSE {2}
                          /\ \A w \in tasks' : Writing(w) /\ Together(v, w) => w = v
        BY <1>2 DEF WritersAreAlone, Writing, Together, Tmp
      <3> QED
        BY <2>8, <2>10, <2>11
    <2>13. WholeUnlessOverlapped'
      <3> SUFFICES ASSUME NEW n \in Names, n[3] = "eml", disk'[n] # 0, <<n[1], n[2]>> \notin overlapped
                   PROVE  inodes[disk'[n]] = Halves
        BY <1>2 DEF WholeUnlessOverlapped, Exists
      <3>1. CASE n = e
        <4>1. <<t.of, t.id>> \notin overlapped
          BY <2>4, <3>1
        <4>2. /\ disk[k] = t.inode /\ inodes[t.inode] = Halves \ t.left
              /\ t.left = IF t.at = "rename" THEN {} ELSE IF 1 \in t.left THEN Halves ELSE {2}
          BY <1>1, <1>3, <4>1 DEF FilesInv, WritersAreAlone
        <4>3. t.left = {}
          BY <1>2, <4>2
        <4> QED
          BY <2>5, <3>1, <4>2, <4>3
      <3>2. CASE n # e
        <4>1. n # k
          BY <2>4
        <4> QED
          BY <2>5, <3>2, <4>1 DEF FilesInv, WholeUnlessOverlapped, Exists
      <3> QED
        BY <3>1, <3>2
    <2>14. RowsAgree'
      <3> SUFFICES ASSUME NEW m \in Messages \ strayed
                   PROVE  UnreadAgrees(m)' /\ ShelvedAgrees(m)' /\ GoneAgrees(m)'
        BY <1>2 DEF RowsAgree
      <3>1. UnreadAgrees(m) /\ ShelvedAgrees(m) /\ GoneAgrees(m)
        BY DEF RowsAgree
      <3>2. \A f \in Shelves : m # t.id \/ f # t.of => disk'[Eml(f, m)] = disk[Eml(f, m)]
        BY <1>1, <1>3, <2>5, NamesAre
      <3>3. disk'[Eml(t.of, t.id)] # 0
        BY <1>1, <1>5, <2>5
      <3>4. UnreadAgrees(m)'
        BY <1>2, <2>2, <2>3, <3>1, <3>2 DEF UnreadAgrees, Exists
      <3>5. ShelvedAgrees(m)'
        BY <1>2, <2>2, <2>3, <3>1, <3>2, <3>3 DEF ShelvedAgrees, Exists
      <3>6. GoneAgrees(m)'
        <4>1. CASE row[m].at # "gone"
          BY <1>2, <4>1 DEF GoneAgrees
        <4>2. CASE row[m].at = "gone"
          <5>1. m # t.id
            BY <1>2, <3>1, <4>2 DEF GoneAgrees
          <5>2. \A f \in Shelves : disk'[Eml(f, m)] = disk[Eml(f, m)]
            BY <3>2, <5>1
          <5>3. \A v \in tasks : v.at = "unlink" => v \in tasks'
            BY <1>2, <2>2
          <5>4. \A v \in tasks' : v.id = m => v \in tasks
            BY <2>2, <2>3, <5>1
          <5> QED
            BY <1>2, <3>1, <4>2, <5>2, <5>3, <5>4 DEF GoneAgrees, Exists
        <4> QED
          BY <4>1, <4>2
      <3> QED
        BY <3>4, <3>5, <3>6
    <2> QED
      BY <2>6, <2>7, <2>9, <2>12, <2>13, <2>14 DEF FilesInv
  <1> QED
    BY <1>4, <1>5

LEMMA RecordKeeps ==
    ASSUME BodiesInv, NEW t \in tasks, Record(t)
    PROVE  BodiesInv'
  <1> USE BodiesAssumption DEF BodiesInv
  <1>1. /\ t.at = "record" /\ tasks' = tasks \ {t}
        /\ row' = IF row[t.id].at \in Shelves THEN [row EXCEPT ![t.id].body = TRUE] ELSE row
        /\ UNCHANGED <<disk, inodes, strayed, overlapped, taken>>
    BY DEF Record, Finish, history
  <1>2. t.id \in Messages
    BY DEF BodiesTypeOK, TaskOK
  <1>3. /\ row' = [m \in Messages |-> row'[m]]
        /\ \A m \in Messages : row'[m] = [at |-> row[m].at, body |-> row'[m].body]
        /\ \A m \in Messages \ {t.id} : row'[m] = row[m]
        /\ row[t.id].at \notin Shelves => row'[t.id] = row[t.id]
    <2>1. PICK at, body : row[t.id] = [at |-> at, body |-> body]
      BY <1>2 DEF BodiesTypeOK
    <2>2. CASE row[t.id].at \in Shelves
      <3>1. row' = [row EXCEPT ![t.id].body = TRUE]
        BY <1>1, <2>2
      <3>2. /\ row' = [m \in Messages |-> row'[m]]
            /\ \A m \in Messages \ {t.id} : row'[m] = row[m]
        BY <3>1 DEF BodiesTypeOK
      <3>3. row'[t.id] = [row[t.id] EXCEPT !.body = TRUE]
        BY <1>2, <3>1 DEF BodiesTypeOK
      <3>4. \A z : [row[t.id] EXCEPT !.body = z] = [at |-> at, body |-> z]
        BY <2>1
      <3>5. row'[t.id] = [at |-> at, body |-> TRUE]
        BY <3>3, <3>4
      <3>6. ASSUME NEW m \in Messages
            PROVE  row'[m] = [at |-> row[m].at, body |-> row'[m].body]
        <4>1. CASE m = t.id
          BY <2>1, <3>5, <4>1
        <4>2. CASE m # t.id
          BY <3>2, <4>2 DEF BodiesTypeOK
        <4> QED
          BY <4>1, <4>2
      <3> QED
        BY <2>2, <3>2, <3>6
    <2>3. CASE row[t.id].at \notin Shelves
      BY <1>1, <1>2, <2>1, <2>3 DEF BodiesTypeOK
    <2> QED
      BY <2>2, <2>3
  <1>4. \A m \in Messages : row'[m].at = row[m].at
    BY <1>3
  <1>5. BodiesTypeOK'
    BY <1>1, <1>3, <1>4 DEF BodiesTypeOK
  <1>6. FilesInv'
    BY <1>1, FilesStay
  <1>7. RowsAgree'
    <2> SUFFICES ASSUME NEW m \in Messages \ strayed
                 PROVE  UnreadAgrees(m)' /\ ShelvedAgrees(m)' /\ GoneAgrees(m)'
      BY <1>1 DEF RowsAgree
    <2>1. UnreadAgrees(m) /\ ShelvedAgrees(m) /\ GoneAgrees(m)
      BY DEF RowsAgree
    <2>2. UnreadAgrees(m)'
      BY <1>1, <1>3, <1>4, <2>1 DEF UnreadAgrees, Exists
    <2>3. ShelvedAgrees(m)'
      <3>1. row[m].at \in Shelves /\ m = t.id => Exists(Eml(row[m].at, m))
        BY <1>1, <2>1 DEF ShelvedAgrees
      <3> QED
        BY <1>1, <1>3, <1>4, <2>1, <3>1 DEF ShelvedAgrees, Exists
    <2>4. GoneAgrees(m)'
      BY <1>1, <1>3, <1>4, <2>1 DEF GoneAgrees, Exists
    <2> QED
      BY <2>2, <2>3, <2>4
  <1> QED
    BY <1>5, <1>6, <1>7

LEMMA UnlinkKeeps ==
    ASSUME BodiesInv, NEW t \in tasks, Unlink(t)
    PROVE  BodiesInv'
  <1> USE BodiesAssumption DEF BodiesInv
  <1>1. PICK e : e = Eml(t.of, t.id)
    OBVIOUS
  <1>2. /\ t.at = "unlink" /\ tasks' = tasks \ {t} /\ disk' = [disk EXCEPT ![e] = 0]
        /\ UNCHANGED <<row, inodes, strayed, overlapped, taken>>
    BY <1>1 DEF Unlink, Finish, history
  <1>3. t.id \in Messages /\ t.of \in Shelves
    BY DEF BodiesTypeOK, TaskOK
  <1>4. e \in Names /\ e[1] = t.of /\ e[2] = t.id /\ e[3] = "eml"
    BY <1>1, <1>3, NamesAre
  <1>5. /\ disk' = [n \in Names |-> disk'[n]] /\ disk'[e] = 0
        /\ \A n \in Names \ {e} : disk'[n] = disk[n]
    BY <1>2, <1>4 DEF BodiesTypeOK
  <1>6. BodiesTypeOK'
    <2>1. 0 \in 0 .. Len(inodes)
      BY DEF BodiesTypeOK
    <2> QED
      BY <1>2, <1>5, <2>1 DEF BodiesTypeOK
  <1>7. \A f \in Shelves, m \in Messages : disk'[Tmp(f, m)] = disk[Tmp(f, m)]
    BY <1>1, <1>3, <1>5, NamesAre
  <1>8. \A n \in Names : disk'[n] = disk[n] \/ disk'[n] = 0
    BY <1>5
  <1>9. FilesAreApart' /\ WholeUnlessOverlapped'
    BY <1>2, <1>8 DEF FilesInv, FilesAreApart, WholeUnlessOverlapped, Exists
  <1>10. WritersOwn'
    <2> SUFFICES ASSUME NEW v \in tasks, Writing(v)
                 PROVE  /\ v.inode \in 1 .. Len(inodes)
                        /\ \A n \in Names : disk'[n] = v.inode => n[1] = v.of /\ n[2] = v.id
                        /\ \A w \in tasks : Writing(w) /\ w.inode = v.inode => Together(v, w)
      BY <1>2 DEF WritersOwn, Writing, Together
    <2> QED
      BY <1>8 DEF FilesInv, WritersOwn
  <1>11. WritersAreAlone'
    <2> SUFFICES ASSUME NEW v \in tasks, Writing(v), <<v.of, v.id>> \notin overlapped
                 PROVE  /\ disk'[Tmp(v.of, v.id)] = v.inode /\ inodes[v.inode] = Halves \ v.left
                        /\ v.left = IF v.at = "rename" THEN {} ELSE IF 1 \in v.left THEN Halves ELSE {2}
                        /\ \A w \in tasks : Writing(w) /\ Together(v, w) => w = v
      BY <1>2 DEF WritersAreAlone, Writing, Together, Tmp
    <2>1. v.id \in Messages /\ v.of \in Shelves
      BY DEF BodiesTypeOK, TaskOK
    <2> QED
      BY <1>7, <2>1 DEF FilesInv, WritersAreAlone
  <1>12. RowsAgree'
    <2> SUFFICES ASSUME NEW m \in Messages \ strayed
                 PROVE  UnreadAgrees(m)' /\ ShelvedAgrees(m)' /\ GoneAgrees(m)'
      BY <1>2 DEF RowsAgree
    <2>1. UnreadAgrees(m) /\ ShelvedAgrees(m) /\ GoneAgrees(m)
      BY DEF RowsAgree
    <2>2. \A f \in Shelves : m # t.id \/ f # t.of => disk'[Eml(f, m)] = disk[Eml(f, m)]
      BY <1>1, <1>3, <1>5, NamesAre
    <2>3. \A f \in Shelves : disk'[Eml(f, m)] = disk[Eml(f, m)] \/ disk'[Eml(f, m)] = 0
      BY <1>8, NamesAre
    <2>4. UnreadAgrees(m)'
      BY <1>2, <2>1, <2>3 DEF UnreadAgrees, Exists
    <2>5. ShelvedAgrees(m)'
      <3>1. CASE m = t.id
        BY <1>2, <2>1, <3>1 DEF ShelvedAgrees
      <3>2. CASE m # t.id
        BY <1>2, <2>1, <2>2, <3>2 DEF ShelvedAgrees, Exists
      <3> QED
        BY <3>1, <3>2
    <2>6. GoneAgrees(m)'
      <3> SUFFICES ASSUME row[m].at = "gone"
                   PROVE  /\ ~row[m].body /\ \A v \in tasks' : v.id = m => v.at \in {"record", "unlink"}
                          /\ \A f \in Shelves : disk'[Eml(f, m)] # 0 =>
                                \E v \in tasks' : v.at = "unlink" /\ v.id = m /\ v.of = f
        BY <1>2 DEF GoneAgrees, Exists
      <3>1. /\ ~row[m].body /\ \A v \in tasks' : v.id = m => v.at \in {"record", "unlink"}
        BY <1>2, <2>1 DEF GoneAgrees
      <3>2. ASSUME NEW f \in Shelves, disk'[Eml(f, m)] # 0
            PROVE  \E v \in tasks' : v.at = "unlink" /\ v.id = m /\ v.of = f
        <4>1. disk[Eml(f, m)] # 0
          BY <2>3, <3>2
        <4>2. PICK v \in tasks : v.at = "unlink" /\ v.id = m /\ v.of = f
          BY <2>1, <4>1 DEF GoneAgrees, Exists
        <4>3. v # t
          BY <1>1, <1>5, <3>2, <4>2
        <4> QED
          BY <1>2, <4>2, <4>3
      <3> QED
        BY <3>1, <3>2
    <2> QED
      BY <2>4, <2>5, <2>6
  <1> QED
    BY <1>6, <1>9, <1>10, <1>11, <1>12 DEF FilesInv

LEMMA PruneKeeps ==
    ASSUME BodiesInv, NEW m \in Messages, Prune(m)
    PROVE  BodiesInv'
  <1> USE BodiesAssumption DEF BodiesInv
  <1>1. PICK f \in Shelves : f = row[m].at
    BY DEF Prune
  <1>2. PICK u : u = Task(0, m, f, "unlink")
    OBVIOUS
  <1>3. /\ row' = [row EXCEPT ![m] = [at |-> "gone", body |-> FALSE]] /\ tasks' = tasks \cup {u}
        /\ strayed' = IF Coming(m) = {} THEN strayed ELSE strayed \cup {m}
        /\ UNCHANGED <<disk, inodes, overlapped>>
    BY <1>1, <1>2 DEF Prune
  <1>4. /\ u = [n |-> 0, id |-> m, of |-> f, at |-> "unlink", inode |-> 0, left |-> Halves]
        /\ u.id = m /\ u.of = f /\ u.at = "unlink"
    BY <1>2 DEF Task
  <1>5. /\ row' = [k \in Messages |-> row'[k]] /\ row'[m] = [at |-> "gone", body |-> FALSE]
        /\ \A k \in Messages \ {m} : row'[k] = row[k]
    BY <1>3 DEF BodiesTypeOK
  <1>6. BodiesTypeOK'
    <2>1. TaskOK(u)
      BY <1>4 DEF TaskOK, Stages
    <2> QED
      BY <1>3, <1>5, <2>1 DEF BodiesTypeOK
  <1>7. FilesInv'
    <2>1. \A v \in tasks' : Writing(v) => v \in tasks
      BY <1>3, <1>4 DEF Writing
    <2> QED
      BY <1>3, <2>1, FilesStay
  <1>8. RowsAgree'
    <2> SUFFICES ASSUME NEW k \in Messages \ strayed'
                 PROVE  UnreadAgrees(k)' /\ ShelvedAgrees(k)' /\ GoneAgrees(k)'
      BY DEF RowsAgree
    <2>0. k \in Messages \ strayed
      BY <1>3
    <2>1. UnreadAgrees(k) /\ ShelvedAgrees(k) /\ GoneAgrees(k)
      BY <2>0 DEF RowsAgree
    <2>2. CASE k # m
      BY <1>3, <1>4, <1>5, <2>1, <2>2 DEF UnreadAgrees, ShelvedAgrees, GoneAgrees, Exists
    <2>3. CASE k = m
      <3>1. Coming(m) = {}
        BY <1>3, <2>3
      <3>2. \A v \in tasks : v.id = m => v.at \notin OnItsWay
        BY <3>1 DEF Coming, OnItsWay
      <3>3. \A v \in tasks : v.at \in Stages
        BY DEF BodiesTypeOK, TaskOK
      <3>4. \A v \in tasks' : v.id = m => v.at \in {"record", "unlink"}
        BY <1>3, <1>4, <3>2, <3>3 DEF Stages, OnItsWay
      <3>5. \A g \in Shelves : Exists(Eml(g, m)) => g = f
        BY <1>1, <2>1, <2>3 DEF ShelvedAgrees
      <3>6. GoneAgrees(m)'
        BY <1>3, <1>4, <1>5, <3>4, <3>5 DEF GoneAgrees, Exists
      <3>7. UnreadAgrees(m)' /\ ShelvedAgrees(m)'
        BY <1>5 DEF UnreadAgrees, ShelvedAgrees
      <3> QED
        BY <2>3, <3>6, <3>7
    <2> QED
      BY <2>2, <2>3
  <1> QED
    BY <1>6, <1>7, <1>8

LEMMA ArriveKeeps ==
    ASSUME BodiesInv, NEW m \in Messages, NEW f \in Shelves, Arrive(m, f)
    PROVE  BodiesInv'
  <1> USE BodiesAssumption DEF BodiesInv
  <1>1. PICK u : u = Task(0, m, f, "fetch")
    OBVIOUS
  <1>2. /\ row[m].at = "new" /\ row' = [row EXCEPT ![m].at = f]
        /\ tasks' = tasks \cup {u} \/ tasks' = tasks
        /\ UNCHANGED <<disk, inodes, strayed, overlapped>>
    BY <1>1 DEF Arrive, history
  <1>3. /\ u = [n |-> 0, id |-> m, of |-> f, at |-> "fetch", inode |-> 0, left |-> Halves]
        /\ u.id = m /\ u.of = f /\ u.at = "fetch"
    BY <1>1 DEF Task
  <1>4. /\ row' = [k \in Messages |-> row'[k]] /\ row'[m] = [at |-> f, body |-> row[m].body]
        /\ \A k \in Messages \ {m} : row'[k] = row[k]
    BY <1>2 DEF BodiesTypeOK
  <1>5. BodiesTypeOK'
    <2>1. TaskOK(u)
      BY <1>3 DEF TaskOK, Stages
    <2> QED
      BY <1>2, <1>4, <2>1 DEF BodiesTypeOK
  <1>6. FilesInv'
    <2>1. \A v \in tasks' : Writing(v) => v \in tasks
      BY <1>2, <1>3 DEF Writing
    <2> QED
      BY <1>2, <2>1, FilesStay
  <1>7. RowsAgree'
    <2> SUFFICES ASSUME NEW k \in Messages \ strayed
                 PROVE  UnreadAgrees(k)' /\ ShelvedAgrees(k)' /\ GoneAgrees(k)'
      BY <1>2 DEF RowsAgree
    <2>1. UnreadAgrees(k) /\ ShelvedAgrees(k) /\ GoneAgrees(k)
      BY DEF RowsAgree
    <2>2. CASE k # m
      <3>1. \A v \in tasks' : v.id = k => v \in tasks
        BY <1>2, <1>3, <2>2
      <3>2. tasks \subseteq tasks' /\ row'[k] = row[k]
        BY <1>2, <1>4, <2>2
      <3> QED
        BY <1>2, <2>1, <3>1, <3>2 DEF UnreadAgrees, ShelvedAgrees, GoneAgrees, Exists
    <2>3. CASE k = m
      <3>1. /\ ~row[m].body /\ \A v \in tasks : v.id # m
            /\ \A g \in Shelves : ~Exists(Eml(g, m))
        BY <1>2, <2>1, <2>3 DEF UnreadAgrees
      <3>2. ShelvedAgrees(m)'
        BY <1>2, <1>3, <1>4, <3>1 DEF ShelvedAgrees, Exists
      <3>3. UnreadAgrees(m)' /\ GoneAgrees(m)'
        BY <1>4 DEF UnreadAgrees, GoneAgrees
      <3> QED
        BY <2>3, <3>2, <3>3
    <2> QED
      BY <2>2, <2>3
  <1> QED
    BY <1>5, <1>6, <1>7

LEMMA BodiesStep ==
    ASSUME BodiesInv, [BodiesNext]_bodiesVars
    PROVE  BodiesInv'
  <1> USE BodiesAssumption DEF BodiesInv
  <1>1. ASSUME NEW m \in Messages, Render(m) PROVE BodiesInv'
    <2>1. PICK u : u = Task(taken.opens + 1, m, row[m].at, "fetch")
      OBVIOUS
    <2>2. /\ row[m].at \in Shelves /\ tasks' = tasks \cup {u}
          /\ UNCHANGED <<row, disk, inodes, strayed, overlapped>>
      BY <1>1, <2>1 DEF Render, history
    <2>3. /\ u = [n |-> u.n, id |-> m, of |-> row[m].at, at |-> "fetch", inode |-> 0, left |-> Halves]
          /\ u.id = m /\ u.of = row[m].at /\ u.at = "fetch" /\ u.inode = 0 /\ u.left = Halves
      BY <2>1 DEF Task
    <2>4. BodiesTypeOK'
      <3>1. TaskOK(u)
        BY <2>2, <2>3 DEF TaskOK, Stages
      <3> QED
        BY <2>2, <3>1 DEF BodiesTypeOK
    <2>5. FilesInv'
      <3>1. \A v \in tasks' : Writing(v) => v \in tasks
        BY <2>2, <2>3 DEF Writing
      <3> QED
        BY <2>2, <3>1, FilesStay
    <2>6. RowsAgree'
      <3> SUFFICES ASSUME NEW k \in Messages \ strayed
                   PROVE  UnreadAgrees(k)' /\ ShelvedAgrees(k)' /\ GoneAgrees(k)'
        BY <2>2 DEF RowsAgree
      <3>1. UnreadAgrees(k) /\ ShelvedAgrees(k) /\ GoneAgrees(k)
        BY DEF RowsAgree
      <3>2. UnreadAgrees(k)'
        BY <2>2, <2>3, <3>1 DEF UnreadAgrees, Exists
      <3>3. ShelvedAgrees(k)'
        BY <2>2, <2>3, <3>1 DEF ShelvedAgrees, Exists
      <3>4. GoneAgrees(k)'
        BY <2>2, <2>3, <3>1 DEF GoneAgrees, Exists
      <3> QED
        BY <3>2, <3>3, <3>4
    <2> QED
      BY <2>4, <2>5, <2>6
  <1>2. ASSUME NEW m \in Messages, NEW f \in Shelves, Move(m, f) PROVE BodiesInv'
    <2>1. /\ row' = [row EXCEPT ![m].at = f] /\ strayed' = strayed \cup {m}
          /\ UNCHANGED <<disk, inodes, tasks, overlapped>>
      BY <1>2 DEF Move
    <2>0. PICK at, body : row[m] = [at |-> at, body |-> body]
      BY DEF BodiesTypeOK
    <2>2. /\ row' = [k \in Messages |-> row'[k]] /\ row'[m] = [at |-> f, body |-> row[m].body]
          /\ \A k \in Messages \ {m} : row'[k] = row[k]
      BY <2>0, <2>1 DEF BodiesTypeOK
    <2>3. BodiesTypeOK'
      BY <2>1, <2>2 DEF BodiesTypeOK
    <2>4. FilesInv'
      BY <2>1, FilesStay
    <2>5. RowsAgree'
      <3> SUFFICES ASSUME NEW k \in Messages \ strayed'
                   PROVE  UnreadAgrees(k)' /\ ShelvedAgrees(k)' /\ GoneAgrees(k)'
        BY DEF RowsAgree
      <3>1. k \in Messages \ strayed /\ row'[k] = row[k]
        BY <2>1, <2>2
      <3> QED
        BY <2>1, <3>1 DEF RowsAgree, UnreadAgrees, ShelvedAgrees, GoneAgrees, Exists
    <2> QED
      BY <2>3, <2>4, <2>5
  <1>3. ASSUME NEW t \in tasks, FetchBody(t) \/ FetchFails(t) PROVE BodiesInv'
    <2>1. PICK u : u = [t EXCEPT !.at = "create"]
      OBVIOUS
    <2>2. /\ t.at = "fetch"
          /\ tasks' = (tasks \ {t}) \cup {u} \/ tasks' = tasks \ {t}
          /\ UNCHANGED <<row, disk, inodes, strayed, overlapped>>
      BY <1>3, <2>1 DEF FetchBody, FetchFails, Become, Finish, history
    <2>3. TaskOK(t)
      BY DEF BodiesTypeOK
    <2>4. /\ u = [n |-> t.n, id |-> t.id, of |-> t.of, at |-> "create", inode |-> t.inode, left |-> t.left]
          /\ u.id = t.id /\ u.of = t.of /\ u.at = "create"
      BY <2>1, <2>3 DEF TaskOK
    <2>5. BodiesTypeOK'
      <3>1. TaskOK(u)
        BY <2>2, <2>3, <2>4 DEF TaskOK, Stages
      <3> QED
        BY <2>2, <3>1 DEF BodiesTypeOK
    <2>6. FilesInv'
      <3>1. \A v \in tasks' : Writing(v) => v \in tasks
        BY <2>2, <2>4 DEF Writing
      <3> QED
        BY <2>2, <3>1, FilesStay
    <2>7. RowsAgree'
      <3>1. t.at \in OnItsWay /\ u.at \in OnItsWay /\ Together(t, u)
        BY <2>2, <2>4 DEF OnItsWay, Together
      <3>2. \A v \in tasks' : \E w \in tasks :
               Together(w, v) /\ (w.at = v.at \/ (w.at \in OnItsWay /\ v.at \in OnItsWay))
        BY <2>2, <3>1 DEF Together
      <3>3. \A w \in tasks : w.at = "unlink" => w \in tasks'
        BY <2>2
      <3> QED
        BY <2>2, <3>2, <3>3, RowsStay
    <2> QED
      BY <2>5, <2>6, <2>7
  <1>4. CASE ProcessEnds
    <2>1. /\ tasks' = {} /\ strayed' = strayed \cup {t.id : t \in {u \in tasks : u.at = "unlink"}}
          /\ UNCHANGED <<row, disk, inodes, overlapped>>
      BY <1>4 DEF ProcessEnds
    <2>2. BodiesTypeOK'
      BY <2>1 DEF BodiesTypeOK
    <2>3. FilesInv'
      BY <2>1, FilesStay
    <2>4. RowsAgree'
      <3> SUFFICES ASSUME NEW k \in Messages \ strayed'
                   PROVE  UnreadAgrees(k)' /\ ShelvedAgrees(k)' /\ GoneAgrees(k)'
        BY DEF RowsAgree
      <3>1. k \in Messages \ strayed /\ \A t \in tasks : t.at = "unlink" => t.id # k
        BY <2>1
      <3>2. UnreadAgrees(k) /\ ShelvedAgrees(k) /\ GoneAgrees(k)
        BY <3>1 DEF RowsAgree
      <3>3. UnreadAgrees(k)'
        BY <2>1, <3>2 DEF UnreadAgrees, Exists
      <3>4. ShelvedAgrees(k)'
        BY <2>1, <3>2 DEF ShelvedAgrees, Exists
      <3>5. GoneAgrees(k)'
        BY <2>1, <3>1, <3>2 DEF GoneAgrees, Exists
      <3> QED
        BY <3>3, <3>4, <3>5
    <2> QED
      BY <2>2, <2>3, <2>4
  <1>5. CASE UNCHANGED bodiesVars
    <2>1. BodiesTypeOK' /\ RowsAgree'
      BY <1>5 DEF bodiesVars, BodiesTypeOK, RowsAgree, UnreadAgrees, ShelvedAgrees, GoneAgrees, Exists
    <2>2. FilesInv'
      BY <1>5, FilesStay DEF bodiesVars
    <2> QED
      BY <2>1, <2>2
  <1>6. ASSUME NEW t \in tasks, Steps(t) PROVE BodiesInv'
    BY <1>3, <1>6, CreateKeeps, WriteKeeps, RenameKeeps, RecordKeeps, UnlinkKeeps DEF Steps
  <1>7. ASSUME NEW m \in Messages,
               Render(m) \/ Prune(m) \/ (\E f \in Shelves : Arrive(m, f) \/ Move(m, f))
        PROVE  BodiesInv'
    BY <1>1, <1>2, <1>7, PruneKeeps, ArriveKeeps
  <1> QED
    BY <1>4, <1>5, <1>6, <1>7 DEF BodiesNext

(* The bodies on disk and the rows agree (blobs.rs, lazy_fetch_body and    *)
(* the sync), however renders, syncs, moves and the ends of the process    *)
(* fall: a file is whole unless two puts of it overlapped, a body that is  *)
(* recorded is there, and none is left of a message that is gone, unless   *)
(* the message was moved, or its body was on its way or its unlink lost.   *)
THEOREM BodiesHold == BodiesSpec => []BodiesAreSound
  <1>1. BodiesInv => BodiesAreSound
    <2> SUFFICES ASSUME BodiesInv PROVE WholeUnlessOverlapped /\ RecordedIsStored /\ NothingIsLeft
      BY DEF BodiesAreSound
    <2>1. WholeUnlessOverlapped
      BY DEF BodiesInv, FilesInv
    <2>2. RecordedIsStored
      BY DEF BodiesInv, BodiesTypeOK, RowsAgree, UnreadAgrees, ShelvedAgrees, GoneAgrees, RecordedIsStored
    <2>3. NothingIsLeft
      BY DEF BodiesInv, RowsAgree, GoneAgrees, NothingIsLeft
    <2> QED
      BY <2>1, <2>2, <2>3
  <1> QED
    BY BodiesInitially, BodiesStep, <1>1, PTL DEF BodiesSpec

-----------------------------------------------------------------------------
(* Compose: each click on Send has one future, and that of a click which   *)
(* is not held any more, but was not submitted, ends.                      *)

FutureOK(f) ==
    /\ f = [of |-> f.of, kind |-> f.kind, click |-> f.click, at |-> f.at, draft |-> f.draft, text |-> f.text]
    /\ f.kind = "send" => f.at \in {"setting", "hold", "save", "submit"}
    /\ f.kind # "send" => f.at \in {"sleep", "save"}
IsSend(f) == f.kind = "send"
SendClicks == 1 .. used.clicks
Over == undone \cup {pending}     \* clicks that may not go on unless they tick

ComposeTypeOK ==
    /\ used = [text |-> used.text, clicks |-> used.clicks, panes |-> used.panes, whims |-> used.whims,
               ids |-> used.ids, mishaps |-> used.mishaps]
    /\ used.clicks \in Nat /\ pending \in SendClicks \cup {0} /\ undone \subseteq SendClicks
    /\ \A f \in futures : FutureOK(f) /\ (IsSend(f) => f.click \in SendClicks)
    /\ \A s \in sent : s[1] \in SendClicks

OneFuturePerClick ==
    /\ \A f, g \in futures : IsSend(f) /\ IsSend(g) /\ f.click = g.click => f = g
    /\ \A f \in futures, s \in sent : IsSend(f) => f.click # s[1]

GoOnInTime ==
    /\ pending \notin undone
    /\ \A f \in futures : IsSend(f) /\ f.at # "hold" => f.click \notin Over
    /\ \A s \in sent : s[1] \notin Over

ComposeInv == ComposeTypeOK /\ OneFuturePerClick /\ GoOnInTime

LEMMA ComposeInitially == ComposeInit => ComposeInv
  <1> SUFFICES ASSUME ComposeInit PROVE ComposeInv
    OBVIOUS
  <1>1. ComposeTypeOK
    BY DEF ComposeInit, ComposeTypeOK, FutureOK, IsSend, SendClicks
  <1>2. OneFuturePerClick /\ GoOnInTime
    BY DEF ComposeInit, OneFuturePerClick, GoOnInTime, IsSend, Over
  <1> QED
    BY <1>1, <1>2 DEF ComposeInv

(* Counting keeps the numbers of the clicks.                               *)
LEMMA MoreKeeps ==
    ASSUME ComposeTypeOK,
           More("text") \/ More("panes") \/ More("whims") \/ More("mishaps") \/ used' = used
    PROVE  /\ used' = [text |-> used'.text, clicks |-> used'.clicks, panes |-> used'.panes,
                       whims |-> used'.whims, ids |-> used'.ids, mishaps |-> used'.mishaps]
           /\ used'.clicks = used.clicks
  BY DEF ComposeTypeOK, More

(* What only takes futures away, or adds some that send nothing.           *)
LEMMA SendsStay ==
    ASSUME ComposeInv, UNCHANGED <<pending, undone, sent>>,
           \A f \in futures' : f \in futures \/ (FutureOK(f) /\ ~IsSend(f)),
           used' = [text |-> used'.text, clicks |-> used'.clicks, panes |-> used'.panes,
                    whims |-> used'.whims, ids |-> used'.ids, mishaps |-> used'.mishaps],
           used'.clicks = used.clicks
    PROVE  ComposeInv'
  <1> USE DEF ComposeInv
  <1>1. ComposeTypeOK'
    BY DEF ComposeTypeOK, SendClicks, IsSend, FutureOK
  <1>2. OneFuturePerClick'
    BY DEF OneFuturePerClick, IsSend
  <1>3. GoOnInTime'
    BY DEF GoOnInTime, IsSend, Over
  <1> QED
    BY <1>1, <1>2, <1>3

(* A click whose future f goes on as g, or ends.                           *)
LEMMA SendMoves ==
    ASSUME ComposeInv, NEW f \in futures, IsSend(f), NEW g, FutureOK(g), IsSend(g), g.click = f.click,
           \A h \in futures' : h \in futures \ {f} \/ h = g \/ (FutureOK(h) /\ ~IsSend(h)),
           UNCHANGED sent,
           used' = [text |-> used'.text, clicks |-> used'.clicks, panes |-> used'.panes,
                    whims |-> used'.whims, ids |-> used'.ids, mishaps |-> used'.mishaps],
           used'.clicks = used.clicks,
           pending' \in {0, pending, f.click}, undone' \subseteq undone \cup ({pending} \ {0}),
           pending' = f.click => f.click \notin Over /\ g.at = "hold",
           pending' = pending => undone' \subseteq undone,
           g.at # "hold" => f.click \notin undone' /\ pending' # f.click
    PROVE  ComposeInv'
  <1> USE DEF ComposeInv
  <1>1. /\ used.clicks \in Nat /\ pending \in SendClicks \cup {0} /\ undone \subseteq SendClicks
        /\ f.click \in SendClicks /\ 0 \notin SendClicks /\ SendClicks' = SendClicks
    BY DEF ComposeTypeOK, SendClicks
  <1>2. pending' \in SendClicks \cup {0} /\ undone' \subseteq SendClicks
    BY <1>1
  <1>3. ComposeTypeOK'
    <2>1. \A h \in futures' : FutureOK(h) /\ (IsSend(h) => h.click \in SendClicks)
      BY <1>1 DEF ComposeTypeOK
    <2>2. \A s \in sent' : s[1] \in SendClicks
      BY DEF ComposeTypeOK
    <2> QED
      BY <1>1, <1>2, <2>1, <2>2 DEF ComposeTypeOK, FutureOK, IsSend
  <1>4. \A h \in futures' : IsSend(h) => h = g \/ (h \in futures /\ h.click # f.click)
    BY DEF OneFuturePerClick
  <1>5. OneFuturePerClick'
    <2>1. \A h, k \in futures' : IsSend(h) /\ IsSend(k) /\ h.click = k.click => h = k
      BY <1>4 DEF OneFuturePerClick
    <2>2. \A h \in futures', s \in sent : IsSend(h) => h.click # s[1]
      BY <1>4 DEF OneFuturePerClick
    <2> QED
      BY <2>1, <2>2 DEF OneFuturePerClick, IsSend
  <1>6. GoOnInTime'
    <2>1. \A c \in SendClicks : c \notin Over /\ c # f.click => c \notin undone' \cup {pending'}
      BY <1>1 DEF Over
    <2>2. pending' \notin undone'
      BY <1>1 DEF GoOnInTime, Over
    <2>3. \A s \in sent : s[1] \notin undone' \cup {pending'}
      <3> SUFFICES ASSUME NEW s \in sent PROVE s[1] \notin undone' \cup {pending'}
        OBVIOUS
      <3>1. s[1] \in SendClicks /\ s[1] # f.click /\ s[1] \notin Over
        BY DEF ComposeTypeOK, OneFuturePerClick, GoOnInTime
      <3> QED
        BY <2>1, <3>1
    <2>4. ASSUME NEW h \in futures', IsSend(h), h.at # "hold"
          PROVE  h.click \notin undone' \cup {pending'}
      <3>1. CASE h = g
        BY <2>4, <3>1
      <3>2. CASE h \in futures /\ h.click # f.click
        <4>1. h.click \in SendClicks /\ h.click \notin Over
          BY <2>4, <3>2 DEF ComposeTypeOK, GoOnInTime
        <4> QED
          BY <2>1, <3>2, <4>1
      <3> QED
        BY <1>4, <2>4, <3>1, <3>2
    <2> QED
      BY <2>2, <2>3, <2>4 DEF GoOnInTime, IsSend, Over
  <1> QED
    BY <1>3, <1>5, <1>6

LEMMA ClickKeeps ==
    ASSUME ComposeInv, Click
    PROVE  ComposeInv'
  <1> USE DEF ComposeInv
  <1>1. PICK g : g = Snapshot("send", used.clicks + 1, "setting", 0)
    OBVIOUS
  <1>2. /\ futures' = futures \cup {g} /\ UNCHANGED <<pending, sent, undone>>
        /\ used' = [used EXCEPT !.clicks = @ + 1]
    BY <1>1 DEF Click, More
  <1>3. FutureOK(g) /\ IsSend(g) /\ g.click = used.clicks + 1
    BY <1>1 DEF Snapshot, FutureOK, IsSend
  <1>4. /\ used' = [text |-> used'.text, clicks |-> used'.clicks, panes |-> used'.panes,
                    whims |-> used'.whims, ids |-> used'.ids, mishaps |-> used'.mishaps]
        /\ used'.clicks = used.clicks + 1 /\ used.clicks \in Nat
    BY <1>2 DEF ComposeTypeOK
  <1>5. g.click \in SendClicks' /\ g.click \notin SendClicks /\ SendClicks \subseteq SendClicks' /\ g.click # 0
    BY <1>3, <1>4 DEF SendClicks
  <1>6. ComposeTypeOK'
    <2>1. \A f \in futures' : FutureOK(f) /\ (IsSend(f) => f.click \in SendClicks')
      BY <1>2, <1>3, <1>5 DEF ComposeTypeOK
    <2>2. \A s \in sent' : s[1] \in SendClicks'
      BY <1>2, <1>5 DEF ComposeTypeOK
    <2>3. used'.clicks \in Nat /\ pending' \in SendClicks' \cup {0} /\ undone' \subseteq SendClicks'
      BY <1>2, <1>4, <1>5 DEF ComposeTypeOK
    <2> QED
      BY <1>4, <2>1, <2>2, <2>3 DEF ComposeTypeOK, FutureOK, IsSend
  <1>7. OneFuturePerClick'
    <2>1. \A f \in futures : IsSend(f) => f.click # g.click
      BY <1>5 DEF ComposeTypeOK
    <2>2. \A s \in sent : s[1] # g.click
      BY <1>5 DEF ComposeTypeOK
    <2> QED
      BY <1>2, <2>1, <2>2 DEF OneFuturePerClick, IsSend
  <1>8. GoOnInTime'
    <2>1. g.click \notin Over
      BY <1>5 DEF ComposeTypeOK, Over
    <2> QED
      BY <1>2, <2>1 DEF GoOnInTime, IsSend, Over
  <1> QED
    BY <1>6, <1>7, <1>8

LEMMA UndoKeeps ==
    ASSUME ComposeInv, Undo
    PROVE  ComposeInv'
  <1> USE DEF ComposeInv
  <1>1. /\ pending # 0 /\ pending' = 0 /\ undone' = undone \cup {pending}
        /\ UNCHANGED <<futures, sent, used>>
    BY DEF Undo
  <1>2. SendClicks' = SendClicks /\ 0 \notin SendClicks
    BY <1>1 DEF SendClicks, ComposeTypeOK
  <1>3. ComposeTypeOK'
    BY <1>1, <1>2 DEF ComposeTypeOK, FutureOK, IsSend
  <1>4. OneFuturePerClick'
    BY <1>1 DEF OneFuturePerClick, IsSend
  <1>5. GoOnInTime'
    BY <1>1, <1>2 DEF GoOnInTime, IsSend, Over, ComposeTypeOK
  <1> QED
    BY <1>3, <1>4, <1>5

LEMMA UserKeepsSends ==
    ASSUME ComposeInv, User
    PROVE  ComposeInv'
  <1> USE DEF ComposeInv
  <1>1. CASE Open
    <2>1. /\ UNCHANGED <<pending, futures, sent, undone>> /\ More("panes")
      BY <1>1 DEF Open
    <2>2. /\ used' = [text |-> used'.text, clicks |-> used'.clicks, panes |-> used'.panes,
                      whims |-> used'.whims, ids |-> used'.ids, mishaps |-> used'.mishaps]
          /\ used'.clicks = used.clicks
      BY <2>1, MoreKeeps
    <2> QED
      BY <2>1, <2>2, SendsStay
  <1>2. CASE Edit
    <2>1. PICK g : g = [Snapshot("auto", 0, "sleep", draft) EXCEPT !.text = text']
      OBVIOUS
    <2>2. /\ futures' = {f \in futures : f.at # "sleep"} \cup {g} /\ More("text")
          /\ UNCHANGED <<pending, sent, undone>>
      BY <1>2, <2>1 DEF Edit
    <2>3. FutureOK(g) /\ ~IsSend(g)
      BY <2>1 DEF Snapshot, FutureOK, IsSend
    <2>4. /\ used' = [text |-> used'.text, clicks |-> used'.clicks, panes |-> used'.panes,
                      whims |-> used'.whims, ids |-> used'.ids, mishaps |-> used'.mishaps]
          /\ used'.clicks = used.clicks
      BY <2>2, MoreKeeps
    <2>5. \A f \in futures' : f \in futures \/ (FutureOK(f) /\ ~IsSend(f))
      BY <2>2, <2>3
    <2> QED
      BY <2>2, <2>4, <2>5, SendsStay
  <1>3. CASE ManualSave \/ Close \/ Discard
    <2>1. PICK g, h : g = Snapshot("manual", 0, "save", draft) /\ h = Snapshot("delete", 0, "save", draft)
      OBVIOUS
    <2>2. /\ futures' \subseteq futures \cup {g, h} /\ More("whims")
          /\ UNCHANGED <<pending, sent, undone>>
      BY <1>3, <2>1 DEF ManualSave, Close, Discard, Whim, Left
    <2>3. FutureOK(g) /\ ~IsSend(g) /\ FutureOK(h) /\ ~IsSend(h)
      BY <2>1 DEF Snapshot, FutureOK, IsSend
    <2>4. /\ used' = [text |-> used'.text, clicks |-> used'.clicks, panes |-> used'.panes,
                      whims |-> used'.whims, ids |-> used'.ids, mishaps |-> used'.mishaps]
          /\ used'.clicks = used.clicks
      BY <2>2, MoreKeeps
    <2>5. \A f \in futures' : f \in futures \/ (FutureOK(f) /\ ~IsSend(f))
      BY <2>2, <2>3
    <2> QED
      BY <2>2, <2>4, <2>5, SendsStay
  <1> QED
    BY <1>1, <1>2, <1>3, ClickKeeps, UndoKeeps DEF User

(* A future that has ended, or went on with a save of its own.             *)
LEMMA SettingKeeps ==
    ASSUME ComposeInv, NEW f \in futures, Setting(f)
    PROVE  ComposeInv'
  <1> USE DEF ComposeInv
  <1>1. f.at = "setting" /\ UNCHANGED <<sent, used>>
    BY DEF Setting
  <1>2. FutureOK(f) /\ IsSend(f) /\ f.click \in SendClicks /\ f.click \notin Over
    BY <1>1 DEF ComposeTypeOK, FutureOK, IsSend, GoOnInTime
  <1>3. /\ used' = [text |-> used'.text, clicks |-> used'.clicks, panes |-> used'.panes,
                    whims |-> used'.whims, ids |-> used'.ids, mishaps |-> used'.mishaps]
        /\ used'.clicks = used.clicks
    BY <1>1, MoreKeeps
  <1>4. f.click # 0
    BY <1>2 DEF SendClicks
  <1>5. CASE pending' = f.click
    <2>1. PICK g : g = [f EXCEPT !.at = "hold"]
      OBVIOUS
    <2>2. /\ undone' = undone \cup ({pending} \ {0})
          /\ futures' \subseteq (futures \ {f}) \cup {g}
      BY <1>1, <1>2, <1>5, <2>1 DEF Setting, Replace, End, Left, Over
    <2>3. g = [of |-> f.of, kind |-> f.kind, click |-> f.click, at |-> "hold", draft |-> f.draft, text |-> f.text]
      BY <1>2, <2>1 DEF FutureOK
    <2>4. FutureOK(g) /\ IsSend(g) /\ g.click = f.click /\ g.at = "hold"
      BY <1>2, <2>3 DEF FutureOK, IsSend
    <2>5. pending' # pending
      BY <1>2, <1>5 DEF Over
    <2>6. \A h \in futures' : h \in futures \ {f} \/ h = g
      BY <2>2
    <2> QED
      BY <1>1, <1>2, <1>3, <1>5, <2>2, <2>4, <2>5, <2>6, SendMoves
  <1>6. CASE pending' # f.click
    <2>1. PICK g : g = [f EXCEPT !.at = "save", !.draft = draft, !.text = text]
      OBVIOUS
    <2>2. UNCHANGED <<pending, undone>> /\ futures' \subseteq (futures \ {f}) \cup {g}
      BY <1>6, <2>1 DEF Setting, Replace, End, Left, Goes
    <2>3. g = [of |-> f.of, kind |-> f.kind, click |-> f.click, at |-> "save", draft |-> draft, text |-> text]
      BY <1>2, <2>1 DEF FutureOK
    <2>4. FutureOK(g) /\ IsSend(g) /\ g.click = f.click /\ g.at = "save"
      BY <1>2, <2>3 DEF FutureOK, IsSend
    <2>5. f.click \notin undone /\ pending' # f.click
      BY <1>2, <1>6 DEF Over
    <2>6. \A h \in futures' : h \in futures \ {f} \/ h = g
      BY <2>2
    <2> QED
      BY <1>1, <1>2, <1>3, <1>6, <2>2, <2>4, <2>5, <2>6, SendMoves
  <1> QED
    BY <1>5, <1>6

LEMMA TickKeeps ==
    ASSUME ComposeInv, NEW f \in futures, Tick(f)
    PROVE  ComposeInv'
  <1> USE DEF ComposeInv
  <1>1. f.at = "hold" /\ UNCHANGED <<sent, used, undone>>
    BY DEF Tick
  <1>2. FutureOK(f) /\ IsSend(f) /\ f.click \in SendClicks
    BY <1>1 DEF ComposeTypeOK, FutureOK, IsSend
  <1>3. /\ used' = [text |-> used'.text, clicks |-> used'.clicks, panes |-> used'.panes,
                    whims |-> used'.whims, ids |-> used'.ids, mishaps |-> used'.mishaps]
        /\ used'.clicks = used.clicks
    BY <1>1, MoreKeeps
  <1>4. f.click # 0
    BY <1>2 DEF SendClicks
  <1>5. CASE ~Holding(f)
    <2>1. futures' = futures \ {f} /\ pending' = pending
      BY <1>5 DEF Tick, End
    <2> QED
      BY <1>1, <1>3, <2>1, SendsStay
  <1>6. CASE Holding(f)
    <2>1. PICK g : g = [f EXCEPT !.at = "save", !.draft = draft, !.text = text]
      OBVIOUS
    <2>2. pending = f.click /\ pending' = 0 /\ futures' \subseteq (futures \ {f}) \cup {g}
      BY <1>6, <2>1 DEF Tick, Replace, Left, Goes, Holding
    <2>3. g = [of |-> f.of, kind |-> f.kind, click |-> f.click, at |-> "save", draft |-> draft, text |-> text]
      BY <1>2, <2>1 DEF FutureOK
    <2>4. FutureOK(g) /\ IsSend(g) /\ g.click = f.click /\ g.at = "save"
      BY <1>2, <2>3 DEF FutureOK, IsSend
    <2>5. f.click \notin undone
      BY <2>2 DEF GoOnInTime
    <2>6. \A h \in futures' : h \in futures \ {f} \/ h = g
      BY <2>2
    <2> QED
      BY <1>1, <1>2, <1>3, <1>4, <2>2, <2>4, <2>5, <2>6, SendMoves
  <1> QED
    BY <1>5, <1>6

LEMMA SaveKeeps ==
    ASSUME ComposeInv, NEW f \in futures, Save(f)
    PROVE  ComposeInv'
  <1> USE DEF ComposeInv
  <1>1. PICK d : d = IF f.draft = 0 THEN used.ids + 1 ELSE f.draft
    OBVIOUS
  <1>2. PICK g, a : g = [f EXCEPT !.at = "submit", !.draft = d] /\ a = Snapshot("auto", 0, "sleep", d)
    OBVIOUS
  <1>3. /\ f.at = "save" /\ UNCHANGED <<pending, sent, undone>>
        /\ used' = [used EXCEPT !.ids = IF f.draft = 0 THEN d ELSE @]
        /\ futures' \subseteq (futures \ {f}) \cup (IF f.kind = "send" THEN {g} ELSE {}) \cup {a}
    BY <1>1, <1>2 DEF Save, End, Again
  <1>4. FutureOK(a) /\ ~IsSend(a)
    BY <1>2 DEF Snapshot, FutureOK, IsSend
  <1>5. /\ used' = [text |-> used'.text, clicks |-> used'.clicks, panes |-> used'.panes,
                    whims |-> used'.whims, ids |-> used'.ids, mishaps |-> used'.mishaps]
        /\ used'.clicks = used.clicks
    BY <1>3 DEF ComposeTypeOK
  <1>6. CASE f.kind = "send"
    <2>1. FutureOK(f) /\ IsSend(f) /\ f.click \in SendClicks /\ f.click \notin Over
      BY <1>3, <1>6 DEF ComposeTypeOK, GoOnInTime, IsSend
    <2>2. g = [of |-> f.of, kind |-> f.kind, click |-> f.click, at |-> "submit", draft |-> d, text |-> f.text]
      BY <1>2, <2>1 DEF FutureOK
    <2>3. FutureOK(g) /\ IsSend(g) /\ g.click = f.click /\ g.at = "submit"
      BY <2>1, <2>2 DEF FutureOK, IsSend
    <2>4. f.click \notin undone /\ pending # f.click
      BY <2>1 DEF Over
    <2>5. \A h \in futures' : h \in futures \ {f} \/ h = g \/ (FutureOK(h) /\ ~IsSend(h))
      BY <1>3, <1>4
    <2> QED
      BY <1>3, <1>5, <2>1, <2>3, <2>4, <2>5, SendMoves
  <1>7. CASE f.kind # "send"
    <2>1. \A h \in futures' : h \in futures \/ (FutureOK(h) /\ ~IsSend(h))
      BY <1>3, <1>4, <1>7
    <2> QED
      BY <1>3, <1>5, <2>1, SendsStay
  <1> QED
    BY <1>6, <1>7

LEMMA SubmitKeeps ==
    ASSUME ComposeInv, NEW f \in futures, Submit(f)
    PROVE  ComposeInv'
  <1> USE DEF ComposeInv
  <1>1. f.at = "submit" /\ UNCHANGED <<pending, undone, used>>
    BY DEF Submit
  <1>2. FutureOK(f) /\ IsSend(f) /\ f.click \in SendClicks /\ f.click \notin Over
    BY <1>1 DEF ComposeTypeOK, FutureOK, IsSend, GoOnInTime
  <1>3. futures' \subseteq futures \ {f}
    BY DEF Submit, Left, SaveRefused, End
  <1>4. /\ used' = [text |-> used'.text, clicks |-> used'.clicks, panes |-> used'.panes,
                    whims |-> used'.whims, ids |-> used'.ids, mishaps |-> used'.mishaps]
        /\ used'.clicks = used.clicks
    BY <1>1, MoreKeeps
  <1>5. CASE sent' = sent
    BY <1>1, <1>3, <1>4, <1>5, SendsStay
  <1>6. CASE sent' = sent \cup {<<f.click, drafts[f.draft]>>}
    <2>1. \A s \in sent' : s \in sent \/ s[1] = f.click
      BY <1>6
    <2>2. \A g \in futures' : IsSend(g) => g \in futures /\ g.click # f.click
      BY <1>2, <1>3 DEF OneFuturePerClick
    <2>3. ComposeTypeOK'
      BY <1>1, <1>2, <1>3, <2>1 DEF ComposeTypeOK, SendClicks, FutureOK, IsSend
    <2>4. OneFuturePerClick'
      BY <1>3, <2>1, <2>2 DEF OneFuturePerClick, IsSend
    <2>5. GoOnInTime'
      BY <1>1, <1>2, <1>3, <2>1 DEF GoOnInTime, IsSend, Over
    <2> QED
      BY <2>3, <2>4, <2>5
  <1> QED
    BY <1>5, <1>6 DEF Submit

LEMMA ComposeStep ==
    ASSUME ComposeInv, [ComposeNext]_composeVars
    PROVE  ComposeInv'
  <1> USE DEF ComposeInv
  <1>1. ASSUME NEW f \in futures, Wake(f) PROVE ComposeInv'
    <2>1. PICK g : g = [f EXCEPT !.at = "save"]
      OBVIOUS
    <2>2. f.at = "sleep" /\ futures' \subseteq futures \cup {g} /\ UNCHANGED <<pending, sent, undone, used>>
      BY <1>1, <2>1 DEF Wake, Replace, Left
    <2>3. FutureOK(f) /\ ~IsSend(f)
      BY <2>2 DEF ComposeTypeOK, FutureOK, IsSend
    <2>4. g = [of |-> f.of, kind |-> f.kind, click |-> f.click, at |-> "save", draft |-> f.draft, text |-> f.text]
      BY <2>1, <2>3 DEF FutureOK
    <2>5. FutureOK(g) /\ ~IsSend(g)
      BY <2>3, <2>4 DEF FutureOK, IsSend
    <2>6. /\ used' = [text |-> used'.text, clicks |-> used'.clicks, panes |-> used'.panes,
                      whims |-> used'.whims, ids |-> used'.ids, mishaps |-> used'.mishaps]
          /\ used'.clicks = used.clicks
      BY <2>2, MoreKeeps
    <2>7. \A h \in futures' : h \in futures \/ (FutureOK(h) /\ ~IsSend(h))
      BY <2>2, <2>5
    <2> QED
      BY <2>2, <2>6, <2>7, SendsStay
  <1>2. ASSUME NEW f \in futures, Delete(f) \/ SaveFails(f) PROVE ComposeInv'
    <2>1. /\ futures' \subseteq futures /\ UNCHANGED <<pending, sent, undone>>
          /\ More("mishaps") \/ used' = used
      BY <1>2 DEF Delete, SaveFails, SaveRefused, End
    <2>2. /\ used' = [text |-> used'.text, clicks |-> used'.clicks, panes |-> used'.panes,
                      whims |-> used'.whims, ids |-> used'.ids, mishaps |-> used'.mishaps]
          /\ used'.clicks = used.clicks
      BY <2>1, MoreKeeps
    <2> QED
      BY <2>1, <2>2, SendsStay
  <1>3. ASSUME NEW f \in futures, Runs(f) PROVE ComposeInv'
    BY <1>1, <1>2, <1>3, SettingKeeps, TickKeeps, SaveKeeps, SubmitKeeps DEF Runs
  <1>4. CASE UNCHANGED composeVars
    <2>1. UNCHANGED <<pending, futures, sent, undone, used>>
      BY <1>4 DEF composeVars
    <2>2. /\ used' = [text |-> used'.text, clicks |-> used'.clicks, panes |-> used'.panes,
                      whims |-> used'.whims, ids |-> used'.ids, mishaps |-> used'.mishaps]
          /\ used'.clicks = used.clicks
      BY <2>1, MoreKeeps
    <2> QED
      BY <2>1, <2>2, SendsStay
  <1> QED
    BY <1>2, <1>3, <1>4, UserKeepsSends DEF ComposeNext, Sends, OtherFutures

(* A Send that was undone in its window, or replaced by a later click      *)
(* (send_now and cancel_undo_send), sends nothing, whatever panes are      *)
(* opened and closed, whichever saves are under way, and however the ticks *)
(* of the windows fall.                                                    *)
THEOREM UndoneStaysUnsent == ComposeSpec => []UndoIsFinal
  <1>1. ComposeInv => UndoIsFinal
    BY DEF ComposeInv, GoOnInTime, UndoIsFinal, Over, IsSend
  <1> QED
    BY ComposeInitially, ComposeStep, <1>1, PTL DEF ComposeSpec

-----------------------------------------------------------------------------
(* The panel of the history pulls (module PullPanel).  When it neither     *)
(* shows the table nor is about to read it, a job or a cancel that changed *)
(* a row has yet to send an event: it holds rows it will tell, or it has   *)
(* ended a pull.                                                           *)
Statuses == {"none", "pending", "running", "completed", "canceled", "error"}
PullSteps == {"checked", "claimed", "spawned", "telling early", "telling pending", "queued", "telling running",
              "checking", "opening", "pulling", "pulled", "ending", "last", "telling bail", "gone"}
JobTable == [of : Boxes, at : PullSteps, cancelled : BOOLEAN, saw : [Boxes -> Statuses]]
PullTypeOK == progress \in [Boxes -> Statuses] /\ jobs \in Seq(JobTable)

WillTell(j) == j.at = "ending" \/ (j.at \in DOMAIN After /\ j.saw # Blank)
EventIsDue ==
    \/ \E j \in DOMAIN jobs : WillTell(jobs[j])
    \/ \E f \in Boxes : <<f, "tell">> \in cancels

(* The panel shows the table, but for rows that a resume has completed.    *)
Shown(f) == listing[f] = progress[f] \/ (f \in unheard /\ progress[f] = "completed")
PanelCatchesUp == asking \/ EventIsDue \/ \A f \in Boxes : Shown(f)
PullPanelInv == PullTypeOK /\ PanelCatchesUp

LEMMA PullInitially == PullInit => PullPanelInv
<1> SUFFICES ASSUME PullInit PROVE PullPanelInv
    OBVIOUS
<1>1. \A S : "none" \in S => [f \in Boxes |-> "none"] \in [Boxes -> S]
    OBVIOUS
<1>2. "none" \in Statuses
    BY DEF Statuses
<1>3. Blank \in [Boxes -> Statuses]
    BY <1>1, <1>2, Zenon DEF Blank
<1> QED
    BY <1>3 DEF PullInit, PullPanelInv, PullTypeOK, PanelCatchesUp, Shown

LEMMA TellingAsks ==
    ASSUME NEW rows, EmitRows(rows)
    PROVE  asking' = (asking \/ rows # Blank)
BY DEF EmitRows

(* Records of jobs with another step, and those of cancelled jobs.         *)
LEMMA JobRecords ==
    ASSUME NEW r \in JobTable
    PROVE  /\ \A step : [r EXCEPT !.at = step]
                = [of |-> r.of, at |-> step, cancelled |-> r.cancelled, saw |-> r.saw]
           /\ \A c : [r EXCEPT !.cancelled = c]
                = [of |-> r.of, at |-> r.at, cancelled |-> c, saw |-> r.saw]
<1>1. r = [of |-> r.of, at |-> r.at, cancelled |-> r.cancelled, saw |-> r.saw]
    BY DEF JobTable
<1>2. \A step : [r EXCEPT !.at = step]
                = [of |-> r.of, at |-> step, cancelled |-> r.cancelled, saw |-> r.saw]
    BY <1>1
<1>3. \A c : [r EXCEPT !.cancelled = c]
                = [of |-> r.of, at |-> r.at, cancelled |-> c, saw |-> r.saw]
    BY <1>1
<1> QED
    BY <1>2, <1>3

(* A step of a job leaves the other jobs alone.                            *)
LEMMA JobMovesOn ==
    ASSUME PullTypeOK, NEW j \in DOMAIN jobs, NEW new \in JobTable, jobs' = [jobs EXCEPT ![j] = new]
    PROVE  /\ jobs' \in Seq(JobTable) /\ DOMAIN jobs' = DOMAIN jobs
           /\ jobs'[j] = new
           /\ \A k \in DOMAIN jobs : k # j => jobs'[k] = jobs[k]
BY DEF PullTypeOK

(* A row gets another status, and a job that has read the rows will tell.  *)
LEMMA RowChanges ==
    ASSUME PullTypeOK, NEW f \in Boxes, NEW s \in Statuses, SetStatus(f, s) \/ PutStatus(f, s)
    PROVE  /\ progress' \in [Boxes -> Statuses]
           /\ progress' = progress \/ progress'[f] = s
<1>1. CASE SetStatus(f, s)
    BY <1>1 DEF SetStatus, PullTypeOK
<1>2. CASE PutStatus(f, s)
    BY <1>2 DEF PutStatus, PullTypeOK
<1> QED
    BY <1>1, <1>2

LEMMA BlankHasNone == \A g : (\E f \in Boxes : g[f] # "none") => g # Blank
BY DEF Blank

(* A job has written its row and read them all: either nothing has changed *)
(* or it will tell.                                                        *)
LEMMA WriteAndRead ==
    ASSUME PullTypeOK, PanelCatchesUp, NEW j \in DOMAIN jobs, ~WillTell(jobs[j]),
           NEW s \in Statuses, s # "none", SetStatus(jobs[j].of, s) \/ PutStatus(jobs[j].of, s),
           NEW step \in DOMAIN After, Read(j, step), UNCHANGED <<listing, asking, cancels, unheard>>
    PROVE  PullPanelInv'
<1>0. jobs[j] \in JobTable
    BY DEF PullTypeOK
<1>1. PICK r : r = jobs[j] /\ r \in JobTable /\ r.of \in Boxes
    BY <1>0 DEF JobTable
<1>2. PICK p : p = progress'
    OBVIOUS
<1>3. p \in [Boxes -> Statuses] /\ (p = progress \/ p[r.of] = s)
    BY <1>1, <1>2, RowChanges
<1>4. step \in PullSteps
    BY DEF After, PullSteps
<1>5. PICK new : new = [of |-> r.of, at |-> step, cancelled |-> r.cancelled, saw |-> p]
    OBVIOUS
<1>6. new \in JobTable /\ new.at = step /\ new.saw = p
    BY <1>1, <1>3, <1>4, <1>5 DEF JobTable
<1>7. jobs' = [jobs EXCEPT ![j] = new]
    BY <1>1, <1>2, <1>5 DEF Read, NowAt
<1>8. /\ jobs' \in Seq(JobTable) /\ DOMAIN jobs' = DOMAIN jobs /\ jobs'[j] = new
      /\ \A k \in DOMAIN jobs : k # j => jobs'[k] = jobs[k]
    BY <1>6, <1>7, JobMovesOn
<1>9. PullTypeOK'
    BY <1>2, <1>3, <1>8 DEF PullTypeOK
<1>10. ASSUME p = progress
       PROVE  PanelCatchesUp'
  <2>1. CASE asking \/ \A f \in Boxes : Shown(f)
      BY <1>2, <1>10, <2>1 DEF PanelCatchesUp, Shown
  <2>2. CASE \E k \in DOMAIN jobs : WillTell(jobs[k])
    <3>1. PICK k \in DOMAIN jobs : WillTell(jobs[k])
        BY <2>2
    <3>2. k # j /\ jobs'[k] = jobs[k]
        BY <1>8, <3>1
    <3> QED
        BY <1>8, <3>1, <3>2 DEF PanelCatchesUp, EventIsDue, WillTell
  <2>3. CASE \E f \in Boxes : <<f, "tell">> \in cancels
      BY <2>3 DEF PanelCatchesUp, EventIsDue
  <2> QED
      BY <2>1, <2>2, <2>3 DEF PanelCatchesUp, EventIsDue
<1>11. ASSUME p[r.of] = s
       PROVE  PanelCatchesUp'
  <2>1. new.saw # Blank
      BY <1>1, <1>6, <1>11, BlankHasNone
  <2> QED
      BY <1>6, <1>8, <2>1 DEF PanelCatchesUp, EventIsDue, WillTell
<1>12. PanelCatchesUp'
    BY <1>3, <1>10, <1>11
<1> QED
    BY <1>9, <1>12 DEF PullPanelInv

(* A job goes a step further and an event goes out.                        *)
LEMMA EventGoesOut ==
    ASSUME PullTypeOK, progress' \in [Boxes -> Statuses], jobs' \in Seq(JobTable), asking' = TRUE
    PROVE  PullPanelInv'
BY DEF PullPanelInv, PullTypeOK, PanelCatchesUp

(* Nothing that is due is forgotten, and no row changes.                   *)
LEMMA NothingForgotten ==
    ASSUME PanelCatchesUp, PullTypeOK', UNCHANGED <<progress, listing, unheard>>, asking => asking',
           \A k \in DOMAIN jobs : WillTell(jobs[k]) => k \in DOMAIN jobs' /\ WillTell(jobs'[k]),
           \A f \in Boxes : <<f, "tell">> \in cancels => <<f, "tell">> \in cancels'
    PROVE  PullPanelInv'
<1>1. CASE asking \/ \A f \in Boxes : Shown(f)
    BY <1>1 DEF PanelCatchesUp, PullPanelInv, Shown
<1>2. CASE EventIsDue
    BY <1>2 DEF EventIsDue, PanelCatchesUp, PullPanelInv, WillTell
<1> QED
    BY <1>1, <1>2 DEF PanelCatchesUp

(* A job that had nothing to tell goes on.                                 *)
LEMMA JobGoesOn ==
    ASSUME PullTypeOK, PanelCatchesUp, NEW j \in DOMAIN jobs, ~WillTell(jobs[j]),
           NEW new \in JobTable, jobs' = [jobs EXCEPT ![j] = new],
           UNCHANGED <<progress, listing, unheard, cancels>>, asking => asking'
    PROVE  PullPanelInv'
<1>1. /\ jobs' \in Seq(JobTable) /\ DOMAIN jobs' = DOMAIN jobs
      /\ \A k \in DOMAIN jobs : k # j => jobs'[k] = jobs[k]
    BY JobMovesOn
<1> QED
    BY <1>1, NothingForgotten DEF PullTypeOK

(* A job is begun, by the command or by a resume, or none is.              *)
LEMMA JobBegins ==
    ASSUME PullPanelInv, NEW new \in JobTable, jobs' = jobs \/ jobs' = Append(jobs, new),
           UNCHANGED <<progress, listing, unheard, cancels, asking>>
    PROVE  PullPanelInv'
<1>1. CASE jobs' = jobs
    BY <1>1, NothingForgotten DEF PullPanelInv, PullTypeOK
<1>2. CASE jobs' = Append(jobs, new)
  <2>1. /\ jobs' \in Seq(JobTable)
        /\ \A k \in DOMAIN jobs : k \in DOMAIN jobs' /\ jobs'[k] = jobs[k]
      BY <1>2 DEF PullPanelInv, PullTypeOK
  <2> QED
      BY <2>1, NothingForgotten DEF PullPanelInv, PullTypeOK
<1> QED
    BY <1>1, <1>2

LEMMA BlankIsTyped == Blank \in [Boxes -> Statuses]
BY DEF Blank, Statuses

LEMMA NewJobs ==
    ASSUME NEW f \in Boxes
    PROVE  Job(f) \in JobTable /\ [Job(f) EXCEPT !.at = "claimed"] \in JobTable
<1>1. Job(f) \in JobTable
    BY BlankIsTyped DEF Job, JobTable, PullSteps
<1>2. [Job(f) EXCEPT !.at = "claimed"]
        = [of |-> f, at |-> "claimed", cancelled |-> FALSE, saw |-> Blank]
  <2>1. PICK job \in JobTable : job = Job(f)
      BY <1>1
  <2>2. [job EXCEPT !.at = "claimed"]
          = [of |-> job.of, at |-> "claimed", cancelled |-> job.cancelled, saw |-> job.saw]
      BY JobRecords
  <2> QED
      BY <2>1, <2>2 DEF Job
<1>3. "claimed" \in PullSteps /\ FALSE \in BOOLEAN
    BY DEF PullSteps
<1>4. [of |-> f, at |-> "claimed", cancelled |-> FALSE, saw |-> Blank] \in JobTable
    BY <1>3, BlankIsTyped DEF JobTable
<1> QED
    BY <1>1, <1>2, <1>4

LEMMA StartKeepsPanel == ASSUME PullPanelInv, NEW f \in Boxes, PressStart(f) PROVE PullPanelInv'
<1>1. UNCHANGED <<progress, listing, unheard, cancels, asking>>
    BY DEF PressStart, panel, resume
<1>2. Job(f) \in JobTable /\ (jobs' = jobs \/ jobs' = Append(jobs, Job(f)))
    BY NewJobs DEF PressStart
<1> QED
    BY <1>1, <1>2, JobBegins

(* A resume goes on.  The row that it completes is one of those that may   *)
(* be shown as they were.                                                  *)
LEMMA CompletesKeepsPanel ==
    ASSUME PullPanelInv, NEW held \in resuming, held.of \in Boxes, ResumeCompletes(held)
    PROVE  PullPanelInv'
<1>1. PICK f \in Boxes : f = held.of
    OBVIOUS
<1>2. /\ progress' = [progress EXCEPT ![f] = IF @ = "none" THEN @ ELSE "completed"]
      /\ unheard' = unheard \cup {f} /\ UNCHANGED <<jobs, listing, cancels, asking>>
    BY <1>1 DEF ResumeCompletes, SetStatus, Turn, panel
<1>3. PullTypeOK /\ "completed" \in Statuses
    BY DEF PullPanelInv, Statuses
<1>4. PullTypeOK'
    BY <1>2, <1>3 DEF PullTypeOK
<1>5. ASSUME \A g \in Boxes : Shown(g), NEW g \in Boxes
      PROVE  Shown(g)'
  <2>1. Shown(g)
      BY <1>5
  <2>2. CASE g = f
      BY <1>2, <1>3, <2>1, <2>2 DEF Shown, PullTypeOK
  <2>3. CASE g # f
      BY <1>2, <1>3, <2>1, <2>3 DEF Shown, PullTypeOK
  <2> QED
      BY <2>2, <2>3
<1>6. PanelCatchesUp'
    BY <1>2, <1>5 DEF PullPanelInv, PanelCatchesUp, EventIsDue, WillTell
<1> QED
    BY <1>4, <1>6 DEF PullPanelInv

LEMMA ResumeKeepsPanel ==
    ASSUME PullPanelInv,
           ResumeList \/ (\E held \in resuming : ResumeSkips(held)
                                               \/ (held.of \in Boxes /\ ResumeClaims(held)))
    PROVE  PullPanelInv'
<1>1. UNCHANGED <<progress, listing, unheard, cancels, asking>>
    BY DEF ResumeList, ResumeSkips, ResumeClaims, Turn, panel
<1>2. CASE jobs' = jobs
    BY <1>1, <1>2, NothingForgotten DEF PullPanelInv, PullTypeOK
<1>3. CASE jobs' # jobs
  <2>1. PICK f \in Boxes : jobs' = Append(jobs, [Job(f) EXCEPT !.at = "claimed"])
      BY <1>3 DEF ResumeList, ResumeSkips, ResumeClaims
  <2>2. [Job(f) EXCEPT !.at = "claimed"] \in JobTable
      BY NewJobs
  <2> QED
      BY <1>1, <2>1, <2>2, JobBegins
<1> QED
    BY <1>2, <1>3

LEMMA RestartKeepsPanel == ASSUME PullPanelInv, AppRestarts PROVE PullPanelInv'
<1>1. jobs' = <<>> /\ asking' = TRUE /\ progress' = progress
    BY DEF AppRestarts
<1> QED
    BY <1>1 DEF PullPanelInv, PullTypeOK, PanelCatchesUp

LEMMA CancelKeepsPanel ==
    ASSUME PullPanelInv, NEW f \in Boxes, Cancel(f) \/ CancelGoesOn(f)
    PROVE  PullPanelInv'
<1>0. jobs \in Seq(JobTable) /\ progress \in [Boxes -> Statuses]
    BY DEF PullPanelInv, PullTypeOK
<1>1. CASE Cancel(f)
  <2>1. UNCHANGED <<progress, listing, unheard>> /\ (asking => asking') /\ cancels \subseteq cancels'
      BY <1>1 DEF Cancel, panel, resume
  <2>2. CASE jobs' = jobs
      BY <1>0, <2>1, <2>2, NothingForgotten DEF PullPanelInv, PullTypeOK
  <2>3. CASE jobs' = [jobs EXCEPT ![registered[f]].cancelled = TRUE]
    <3>1. PICK j : j = registered[f]
        OBVIOUS
    <3>2. CASE j \in DOMAIN jobs
      <4>1. PICK r \in JobTable : r = jobs[j]
          BY <1>0, <3>2
      <4>2. PICK new : new = [r EXCEPT !.cancelled = TRUE]
          OBVIOUS
      <4>3. new \in JobTable /\ (WillTell(new) <=> WillTell(r))
        <5>1. new = [of |-> r.of, at |-> r.at, cancelled |-> TRUE, saw |-> r.saw]
            BY <4>2, JobRecords
        <5> QED
            BY <5>1 DEF JobTable, WillTell
      <4>4. jobs' = [jobs EXCEPT ![j] = new]
          BY <2>3, <3>1, <4>1, <4>2
      <4>5. /\ jobs' \in Seq(JobTable) /\ DOMAIN jobs' = DOMAIN jobs /\ jobs'[j] = new
            /\ \A k \in DOMAIN jobs : k # j => jobs'[k] = jobs[k]
          BY <3>2, <4>3, <4>4, JobMovesOn DEF PullPanelInv
      <4>6. \A k \in DOMAIN jobs : WillTell(jobs[k]) => WillTell(jobs'[k])
          BY <4>1, <4>3, <4>5
      <4> QED
          BY <1>0, <2>1, <4>5, <4>6, NothingForgotten DEF PullPanelInv, PullTypeOK
    <3>3. CASE j \notin DOMAIN jobs
      <4>1. jobs' = jobs
          BY <1>0, <2>3, <3>1, <3>3
      <4> QED
          BY <2>2, <4>1
    <3> QED
        BY <3>2, <3>3
  <2> QED
      BY <1>1, <2>2, <2>3 DEF Cancel
<1>2. CASE CancelGoesOn(f)
  <2>1. UNCHANGED jobs
      BY <1>2 DEF CancelGoesOn
  <2>2. ASSUME CancelDeleted(f, "delete", {<<f, "tell">>})
        PROVE  PullPanelInv'
    <3>1. <<f, "tell">> \in cancels' /\ progress' = [progress EXCEPT ![f] = "none"]
        BY <2>2 DEF CancelDeleted, CancelMoves
    <3>2. progress' \in [Boxes -> Statuses]
        BY <1>0, <3>1 DEF Statuses
    <3> QED
        BY <1>0, <2>1, <3>1, <3>2 DEF PullPanelInv, PullTypeOK, PanelCatchesUp, EventIsDue
  <2>3. ASSUME CancelTold(f, "tell", {})
        PROVE  PullPanelInv'
    <3>1. asking' = TRUE /\ UNCHANGED progress
        BY <2>3 DEF CancelTold, Emit
    <3> QED
        BY <1>0, <2>1, <3>1, EventGoesOut DEF PullPanelInv
  <2> QED
      BY <1>2, <2>2, <2>3 DEF CancelGoesOn, CancelSteps, DeleteThenTell
<1> QED
    BY <1>1, <1>2

(* The steps of a job that write its row and read them all.                *)
LEMMA WritersKeepPanel ==
    ASSUME PullPanelInv, NEW j \in DOMAIN jobs,
           NothingLeft(j) \/ MarkPending(j) \/ MarkRunning(j) \/ Bail(j)
    PROVE  PullPanelInv'
<1>1. UNCHANGED <<listing, asking, cancels, unheard>>
    BY DEF NothingLeft, MarkPending, MarkRunning, Bail, Silent, panel, resume
<1>2. ~WillTell(jobs[j])
    BY DEF NothingLeft, MarkPending, MarkRunning, Bail, At, WillTell, After
<1>3. PICK s \in Statuses, step \in DOMAIN After :
          s # "none" /\ (SetStatus(jobs[j].of, s) \/ PutStatus(jobs[j].of, s)) /\ Read(j, step)
  <2>1. {"completed", "pending", "running", "canceled", "error"} \subseteq Statuses \ {"none"}
      BY DEF Statuses
  <2>2. {"telling early", "telling pending", "telling running", "telling bail"} \subseteq DOMAIN After
      BY DEF After
  <2>3. CASE NothingLeft(j)
      BY <2>1, <2>2, <2>3 DEF NothingLeft
  <2>4. CASE MarkPending(j)
      BY <2>1, <2>2, <2>4 DEF MarkPending
  <2>5. CASE MarkRunning(j)
      BY <2>1, <2>2, <2>5 DEF MarkRunning
  <2>6. CASE Bail(j)
      BY <2>1, <2>2, <2>6 DEF Bail
  <2> QED
      BY <2>3, <2>4, <2>5, <2>6
<1> QED
    BY <1>1, <1>2, <1>3, WriteAndRead DEF PullPanelInv

(* A step that only names where the job is.                                *)
LEMMA GoesTo ==
    ASSUME PullTypeOK, NEW j \in DOMAIN jobs, NEW step \in PullSteps, Go(j, step)
    PROVE  \E new \in JobTable : /\ jobs' = [jobs EXCEPT ![j] = new]
                                 /\ new.at = step /\ new.of = jobs[j].of /\ new.saw = jobs[j].saw
<1>1. PICK r \in JobTable : r = jobs[j]
    BY DEF PullTypeOK
<1>2. PICK new : new = [r EXCEPT !.at = step]
    OBVIOUS
<1>3. new = [of |-> r.of, at |-> step, cancelled |-> r.cancelled, saw |-> r.saw]
    BY <1>2, JobRecords
<1>4. new \in JobTable /\ new.at = step /\ new.of = r.of /\ new.saw = r.saw
    BY <1>3 DEF JobTable
<1>5. jobs' = [jobs EXCEPT ![j] = new]
    BY <1>1, <1>2 DEF Go
<1> QED
    BY <1>1, <1>4, <1>5

LEMMA ReadRecords ==
    ASSUME PullTypeOK, NEW j \in DOMAIN jobs, NEW step \in PullSteps, NEW rows \in [Boxes -> Statuses]
    PROVE  NowAt(j, step, rows) \in JobTable
<1>1. jobs[j] \in JobTable
    BY DEF PullTypeOK
<1> QED
    BY <1>1 DEF NowAt, JobTable

(* The steps of a job after which an event goes out.                       *)
LEMMA EventsKeepPanel ==
    ASSUME PullPanelInv, NEW j \in DOMAIN jobs, Queue(j) \/ StartPull(j) \/ Chunk(j) \/ Finished(j)
    PROVE  PullPanelInv'
<1>0. /\ PullTypeOK /\ progress \in [Boxes -> Statuses] /\ jobs \in Seq(JobTable)
      /\ jobs[j] \in JobTable
    BY DEF PullPanelInv, PullTypeOK
<1>b. jobs[j].of \in Boxes
    BY <1>0 DEF JobTable
<1>1. asking' = TRUE
    BY DEF Queue, StartPull, Chunk, Finished, Emit
<1>2. progress' \in [Boxes -> Statuses]
  <2>1. UNCHANGED progress \/ PutStatus(jobs[j].of, "pending") \/ PutStatus(jobs[j].of, "running")
      BY DEF Queue, StartPull, Chunk, Finished
  <2>2. "pending" \in Statuses /\ "running" \in Statuses
      BY DEF Statuses
  <2> QED
      BY <1>0, <1>b, <2>1, <2>2, RowChanges
<1>3. jobs' \in Seq(JobTable)
  <2>1. CASE Finished(j)
    <3>1. jobs' = [jobs EXCEPT ![j] = NowAt(j, "last", progress)]
        BY <2>1 DEF Finished, Read, NowAt
    <3>2. NowAt(j, "last", progress) \in JobTable
        BY <1>0, ReadRecords DEF PullSteps
    <3> QED
        BY <1>0, <3>1, <3>2
  <2>2. CASE ~Finished(j)
    <3>1. Go(j, "spawned") \/ Go(j, "pulling") \/ Go(j, "pulled")
        BY <2>2 DEF Queue, StartPull, Chunk
    <3>2. {"spawned", "pulling", "pulled"} \subseteq PullSteps
        BY DEF PullSteps
    <3>3. \E new \in JobTable : jobs' = [jobs EXCEPT ![j] = new]
        BY <1>0, <3>1, <3>2, GoesTo
    <3> QED
        BY <1>0, <3>3
  <2> QED
      BY <2>1, <2>2
<1> QED
    BY <1>0, <1>1, <1>2, <1>3, EventGoesOut

LEMMA OpeningKeepsPanel ==
    ASSUME PullPanelInv, NEW j \in DOMAIN jobs, StartOpening(j) \/ ResumeRegisters(j)
    PROVE  PullPanelInv'
<1>1. ~WillTell(jobs[j]) /\ UNCHANGED <<progress, listing, unheard, cancels, asking>>
    BY DEF StartOpening, ResumeRegisters, At, WillTell, After, Silent, panel, resume
<1>0. PullTypeOK /\ (Go(j, "opening") \/ Go(j, "spawned")) /\ {"opening", "spawned"} \subseteq PullSteps
    BY DEF StartOpening, ResumeRegisters, PullPanelInv, PullSteps
<1>2. PICK new \in JobTable : jobs' = [jobs EXCEPT ![j] = new]
    BY <1>0, GoesTo
<1> QED
    BY <1>1, <1>2, JobGoesOn DEF PullPanelInv

(* A pull has ended: its row is written, and an event follows.             *)
LEMMA EndKeepsPanel ==
    ASSUME PullPanelInv, NEW j \in DOMAIN jobs, EndPull(j)
    PROVE  PullPanelInv'
<1>0. PullTypeOK /\ jobs[j] \in JobTable
    BY DEF PullPanelInv, PullTypeOK
<1>b. jobs[j].of \in Boxes /\ Go(j, "ending") /\ "ending" \in PullSteps
    BY <1>0 DEF JobTable, EndPull, PullSteps
<1>1. PICK s \in Statuses : SetStatus(jobs[j].of, s)
    BY DEF EndPull, Statuses
<1>2. progress' \in [Boxes -> Statuses]
    BY <1>0, <1>b, <1>1, RowChanges
<1>3. PICK new \in JobTable : jobs' = [jobs EXCEPT ![j] = new] /\ new.at = "ending"
    BY <1>0, <1>b, GoesTo
<1>4. jobs' \in Seq(JobTable) /\ DOMAIN jobs' = DOMAIN jobs /\ jobs'[j] = new
    BY <1>0, <1>3, JobMovesOn
<1>5. EventIsDue'
    BY <1>3, <1>4 DEF EventIsDue, WillTell
<1> QED
    BY <1>2, <1>4, <1>5 DEF PullPanelInv, PullTypeOK, PanelCatchesUp

(* A job tells the rows that it has read, or the end of its own.           *)
LEMMA TellingKeepsPanel ==
    ASSUME PullPanelInv, NEW j \in DOMAIN jobs, TellRows(j) \/ TellFinal(j)
    PROVE  PullPanelInv'
<1>0. PullTypeOK /\ jobs[j] \in JobTable /\ UNCHANGED <<progress, listing, unheard, cancels>>
    BY DEF PullPanelInv, PullTypeOK, TellRows, TellFinal, panel, resume
<1>1. PICK step \in PullSteps : jobs' = [jobs EXCEPT ![j] = NowAt(j, step, Blank)]
    BY DEF TellRows, TellFinal, After, PullSteps
<1>2. NowAt(j, step, Blank) \in JobTable
    BY <1>0, BlankIsTyped, ReadRecords
<1>3. jobs' \in Seq(JobTable)
    BY <1>0, <1>1, <1>2 DEF PullTypeOK
<1>4. (asking' = TRUE) \/ (~WillTell(jobs[j]) /\ (asking => asking'))
  <2>1. CASE TellFinal(j)
      BY <2>1 DEF TellFinal, At, WillTell, After, Silent, Emit
  <2>2. CASE TellRows(j)
    <3>1. jobs[j].at \in DOMAIN After /\ jobs[j].at # "ending"
        BY <2>2 DEF TellRows, After
    <3>2. asking' = (asking \/ jobs[j].saw # Blank)
        BY <2>2, TellingAsks DEF TellRows
    <3>3. WillTell(jobs[j]) <=> jobs[j].saw # Blank
        BY <3>1 DEF WillTell
    <3>4. CASE jobs[j].saw # Blank
        BY <3>2, <3>4
    <3>5. CASE jobs[j].saw = Blank
      <4>1. asking' = (asking \/ FALSE)
          BY <3>2, <3>5
      <4> QED
          BY <3>3, <3>5, <4>1
    <3> QED
        BY <3>4, <3>5
  <2> QED
      BY <2>1, <2>2
<1>5. CASE asking' = TRUE
    BY <1>0, <1>3, <1>5, EventGoesOut DEF PullTypeOK
<1>6. CASE ~WillTell(jobs[j]) /\ (asking => asking')
    BY <1>0, <1>1, <1>2, <1>6, JobGoesOn DEF PullPanelInv
<1> QED
    BY <1>4, <1>5, <1>6

(* resume_running_jobs has listed rows of folders.                         *)
RowsAreOfBoxes == \A held \in resuming : held.of \in Boxes

LEMMA ListedStay == RowsAreOfBoxes /\ [PullNext]_pullVars => RowsAreOfBoxes'
<1> SUFFICES ASSUME RowsAreOfBoxes, [PullNext]_pullVars
             PROVE  RowsAreOfBoxes'
    OBVIOUS
<1>1. CASE resuming' \subseteq resuming
    BY <1>1 DEF RowsAreOfBoxes
<1>2. CASE ResumeList
    BY <1>2 DEF ResumeList, RowsAreOfBoxes
<1>3. CASE UNCHANGED pullVars \/ Pick \/ Paint \/ AppRestarts
    BY <1>1, <1>3 DEF pullVars, resume, Pick, Paint, AppRestarts
<1>4. CASE \E held \in resuming : ResumeCompletes(held) \/ ResumeSkips(held) \/ ResumeClaims(held)
    BY <1>1, <1>4 DEF ResumeCompletes, ResumeSkips, ResumeClaims, Turn
<1>5. CASE \E f \in Boxes : PressStart(f) \/ Cancel(f) \/ CancelGoesOn(f)
    BY <1>1, <1>5 DEF PressStart, Cancel, CancelGoesOn, resume
<1>6. CASE \E j \in DOMAIN jobs : JobSteps(j)
  <2>1. UNCHANGED resuming
      BY <1>6 DEF JobSteps, NothingLeft, Queue, ResumeRegisters, MarkPending, MarkRunning, TellRows,
                  Bail, StartOpening, StartPull, Chunk, EndPull, Finished, TellFinal, resume
  <2> QED
      BY <1>1, <2>1
<1> QED
    BY <1>2, <1>3, <1>4, <1>5, <1>6 DEF PullNext

LEMMA PullStep == PullPanelInv /\ RowsAreOfBoxes /\ [PullNext]_pullVars => PullPanelInv'
<1> SUFFICES ASSUME PullPanelInv, RowsAreOfBoxes, [PullNext]_pullVars
             PROVE  PullPanelInv'
    OBVIOUS
<1>1. CASE UNCHANGED pullVars \/ Pick
  <2>1. UNCHANGED <<progress, jobs, cancels, listing, asking, unheard>>
      BY <1>1 DEF pullVars, Pick, resume
  <2> QED
      BY <2>1, NothingForgotten DEF PullPanelInv, PullTypeOK
<1>2. CASE Paint
    BY <1>2 DEF Paint, HistorySyncList, PullPanelInv, PullTypeOK, PanelCatchesUp, Shown
<1>3. ASSUME NEW j \in DOMAIN jobs, JobSteps(j)
      PROVE  PullPanelInv'
    BY <1>3, WritersKeepPanel, EventsKeepPanel, OpeningKeepsPanel, EndKeepsPanel, TellingKeepsPanel
    DEF JobSteps
<1>4. ASSUME NEW held \in resuming, ResumeCompletes(held) \/ ResumeSkips(held) \/ ResumeClaims(held)
      PROVE  PullPanelInv'
  <2>1. held.of \in Boxes
      BY DEF RowsAreOfBoxes
  <2> QED
      BY <1>4, <2>1, CompletesKeepsPanel, ResumeKeepsPanel
<1> QED
    BY <1>1, <1>2, <1>3, <1>4, StartKeepsPanel, CancelKeepsPanel, ResumeKeepsPanel, RestartKeepsPanel
    DEF PullNext

(* Once no pull runs and no call is on its way, the panel shows the table, *)
(* but for rows that a resume completed without an event (run_driver,      *)
(* history_sync_start, history_sync_cancel, resume_running_jobs and their  *)
(* events), with any folders and any number of clicks, jobs, failures,     *)
(* passes of the engine and restarts.                                      *)
THEOREM PanelKeepsUp == PullSpec => []PanelShowsTheTable
<1>1. PullPanelInv => PanelShowsTheTable
    BY DEF PullPanelInv, PanelCatchesUp, Shown, EventIsDue, PanelShowsTheTable, NothingUnderWay, WillTell,
           After
<1>2. PullInit => RowsAreOfBoxes
    BY DEF PullInit, RowsAreOfBoxes
<1> QED
    BY <1>1, <1>2, PullInitially, ListedStay, PullStep, PTL DEF PullSpec

-----------------------------------------------------------------------------
(* The reader (module Reader).  A render knows the visit and permission    *)
(* it was begun with; the one that the pane awaits is of the message that  *)
(* is selected, and loads what may be loaded now, or the pane will be told *)
(* to fetch again.                                                         *)
Permitted == asked \cup strays
OptedIn(m) == Texts[m].from \in privacy.optins
SameThread(m, n) == Texts[m].thread = Texts[n].thread

PrivacyOK ==
    /\ privacy = [always |-> privacy.always, everAlways |-> privacy.everAlways, optins |-> privacy.optins]
    /\ privacy.always \in BOOLEAN /\ (privacy.always => privacy.everAlways)
TimesOK == visit \in Nat /\ shown.visit \in 0 .. visit /\ \A s \in saves : s.visit \in 0 .. visit
SavesOK ==
    \A s \in saves : s = [card |-> s.card, visit |-> s.visit, at |-> s.at, mounted |-> s.mounted]
ReaderTypeOK ==
    PrivacyOK /\ TimesOK /\ SavesOK /\ IsFiniteSet(renders) /\ reading \in DOMAIN Texts \cup {""}

(* A card that a window may show, of message m.                            *)
Granted(c, m) ==
    Loads(c) => privacy.everAlways \/ OptedIn(m) \/ \E v \in 0 .. visit : <<v, Texts[m].thread>> \in Permitted

RenderIsSound(r) ==
    /\ r = [n |-> r.n, id |-> r.id, to |-> r.to, forced |-> r.forced, visit |-> r.visit,
            todo |-> r.todo, cards |-> r.cards]
    /\ r.n \in Nat \ {0} /\ r.visit \in 0 .. visit /\ r.id \in DOMAIN Texts
    /\ \A m \in r.todo : m \in DOMAIN Texts /\ SameThread(m, r.id) /\ (r.to # "thread" => m = r.id)
    /\ \A c \in r.cards : /\ SameThread(c.id, r.id) /\ (r.to # "thread" => c.id = r.id)
                          /\ Loads(c) => r.forced \/ OptedIn(c.id) \/ privacy.everAlways
    /\ r.to # "thread" /\ r.todo = {} => r.cards # {}
    /\ r.forced => <<r.visit, Texts[r.id].thread>> \in Permitted
RendersAreSound == \A r \in renders : RenderIsSound(r)

AwaitedIsCurrent ==
    /\ awaited # 0 => \E r \in renders : r.n = awaited
    /\ \A r \in renders : r.n = awaited =>
          /\ r.to # "popup" /\ r.id = reading /\ r.visit = visit
          /\ \A c \in r.cards : Loads(c) => r.forced \/ OptedIn(c.id) \/ privacy.always \/ untold

ShownIsAllowed ==
    /\ shown.visit = visit => \A c \in shown.cards : SameThread(c.id, reading)
    /\ awaited = 0 => \A c \in shown.cards :
          Loads(c) => privacy.always \/ untold \/ OptedIn(c.id) \/ Asked(c, Permitted)

NothingIsRead ==
    reading = "" => awaited = 0 /\ shown.cards = {} /\ ~force /\ \A s \in saves : ~s.mounted

ClicksAreKnown ==
    /\ force => <<visit, Texts[reading].thread>> \in Permitted
    /\ \A s \in saves : s.visit = visit => <<visit, Texts[reading].thread>> \in asked

WindowsAreGranted ==
    /\ slot # <<>> => Granted(slot[1], slot[1].id)
    /\ \A m \in DOMAIN popups : Granted(popups[m], m)

ReaderInv ==
    /\ ReaderTypeOK /\ RendersAreSound /\ AwaitedIsCurrent /\ ShownIsAllowed
    /\ NothingIsRead /\ ClicksAreKnown /\ WindowsAreGranted

-----------------------------------------------------------------------------
(* What an untrusted card keeps loads nothing.                             *)
LEMMA BlockedLoadsNothing ==
    ASSUME NEW m \in DOMAIN Texts, NEW trusted, NEW loads
    PROVE  /\ Card(m, trusted, loads).id = m
           /\ Loads(Card(m, trusted, loads)) => trusted
<1>1. Card(m, trusted, loads).id = m
    BY DEF Card
<1>2. ASSUME ~trusted, Loads(Card(m, trusted, loads)) PROVE FALSE
  <2>1. PICK el \in Card(m, trusted, loads).html :
           \E a \in el.attributes : a.name # "href" /\ ~(a.urls \subseteq {"inline"})
      BY <1>2 DEF Loads
  <2>2. Card(m, trusted, loads).html = IF loads THEN Sanitize(Texts[m].html, ~trusted) ELSE {}
      BY DEF Card
  <2>3. el \in Sanitize(Texts[m].html, ~trusted)
      BY <2>1, <2>2
  <2>4. PICK e \in Texts[m].html : el = Cleaned(e, ~trusted)
      BY <2>3 DEF Sanitize
  <2>5. el.attributes = {a \in e.attributes : Stays(a, ~trusted)}
      BY <2>4 DEF Cleaned
  <2>6. PICK a \in e.attributes : Stays(a, ~trusted) /\ a.name # "href" /\ ~(a.urls \subseteq {"inline"})
      BY <2>1, <2>5
  <2>7. IsFiltered(a)
      BY <2>6, ReaderAssumption DEF IsFiltered, SourcesAndStyles
  <2> QED
      BY <1>2, <2>6, <2>7 DEF Stays, UrlIsInlineSafe
<1> QED
    BY <1>1, <1>2

LEMMA NextCallIsNew ==
    ASSUME IsFiniteSet(renders)
    PROVE  NextCall \in Nat \ {0} /\ \A r \in renders : r.n # NextCall
<1> DEFINE numbers == {r.n : r \in renders}
           k == Cardinality(renders)
<1>1. k \in Nat
    BY FS_CardinalityType
<1>2. IsFiniteSet(numbers) /\ Cardinality(numbers) <= k
  <2>1. [r \in renders |-> r.n] \in Surjection(renders, numbers)
      BY DEF Surjection
  <2> QED
      BY <2>1, FS_Surjection
<1>3. IsFiniteSet(1 .. 1 + k) /\ Cardinality(1 .. 1 + k) = 1 + k
    BY <1>1, FS_Interval
<1>4. ~(1 .. 1 + k \subseteq numbers)
  <2>1. ASSUME 1 .. 1 + k \subseteq numbers PROVE FALSE
    <3>1. Cardinality(1 .. 1 + k) <= Cardinality(numbers)
        BY <1>2, <2>1, FS_Subset
    <3>2. Cardinality(numbers) \in Nat
        BY <1>2, FS_CardinalityType
    <3> QED
        BY <1>1, <1>2, <1>3, <3>1, <3>2
  <2> QED
      BY <2>1
<1>5. \E n \in 1 .. 1 + k : \A r \in renders : r.n # n
    BY <1>4
<1>6. NextCall \in 1 .. 1 + k /\ \A r \in renders : r.n # NextCall
    BY <1>5 DEF NextCall
<1> QED
    BY <1>1, <1>6

(* Time goes on and permissions only grow.                                 *)
Grows ==
    /\ visit' \in Nat /\ visit <= visit'
    /\ asked \subseteq asked' /\ strays \subseteq strays'
    /\ privacy.optins \subseteq privacy'.optins /\ (privacy.everAlways => privacy'.everAlways)

LEMMA SoundStays ==
    ASSUME visit \in Nat, Grows
    PROVE  /\ \A r : RenderIsSound(r) => RenderIsSound(r)'
           /\ \A c, m : Granted(c, m) => Granted(c, m)'
<1>1. Permitted \subseteq Permitted' /\ \A m : OptedIn(m) => OptedIn(m)'
    BY DEF Grows, Permitted, OptedIn
<1>2. 0 .. visit \subseteq 0 .. visit'
    BY DEF Grows
<1>3. ASSUME NEW r, RenderIsSound(r) PROVE RenderIsSound(r)'
    BY <1>1, <1>2, <1>3 DEF Grows, RenderIsSound
<1>4. ASSUME NEW c, NEW m, Granted(c, m) PROVE Granted(c, m)'
    BY <1>1, <1>2, <1>4 DEF Grows, Granted
<1> QED
    BY <1>3, <1>4

LEMMA WindowsStay ==
    ASSUME visit \in Nat, Grows, WindowsAreGranted, UNCHANGED <<slot, popups>>
    PROVE  WindowsAreGranted'
BY SoundStays DEF WindowsAreGranted

LEMMA TimeIsCounted == ReaderInv => visit \in Nat
BY DEF ReaderInv, ReaderTypeOK, TimesOK

LEMMA GrowsAtOnce ==
    ASSUME visit \in Nat, UNCHANGED <<visit, privacy>>, asked \subseteq asked', strays \subseteq strays'
    PROVE  Grows
BY DEF Grows

LEMMA FetchKeeps ==
    ASSUME ReaderInv, NEW m \in DOMAIN Texts, NEW forced, NEW thr, FetchCards(m, forced, thr, NextCall),
           Grows, reading' = m, forced => <<visit', Texts[m].thread>> \in Permitted'
    PROVE  RendersAreSound' /\ AwaitedIsCurrent' /\ awaited' # 0 /\ IsFiniteSet(renders')
<1> DEFINE to == IF thr THEN "thread" ELSE "pane"
           todo == IF thr THEN ThreadOf(m) ELSE {m}
<1>1. PICK k : k = NextCall
    OBVIOUS
<1>2. k \in Nat \ {0} /\ \A r \in renders : r.n # k
    BY <1>1, NextCallIsNew DEF ReaderInv, ReaderTypeOK
<1>3. PICK q : q = [n |-> k, id |-> m, to |-> to, forced |-> forced, visit |-> visit', todo |-> todo, cards |-> {}]
    OBVIOUS
<1>4. renders' = renders \cup {q} /\ awaited' = k
    BY <1>1, <1>3 DEF FetchCards, RenderCall
<1>5. /\ q.n = k /\ q.id = m /\ q.to \in {"thread", "pane"} /\ q.forced = forced /\ q.visit = visit'
      /\ q.todo = todo /\ q.cards = {}
      /\ q = [n |-> q.n, id |-> q.id, to |-> q.to, forced |-> q.forced, visit |-> q.visit,
              todo |-> q.todo, cards |-> q.cards]
    BY <1>3
<1>6. \A x \in todo : x \in DOMAIN Texts /\ SameThread(x, m) /\ (to # "thread" => x = m)
    BY DEF ThreadOf, SameThread
<1>7. todo # {}
    BY DEF ThreadOf
<1>8. q.to = to
    BY <1>3
<1> HIDE DEF to, todo
<1>9. RenderIsSound(q)'
    BY <1>2, <1>5, <1>6, <1>7, <1>8 DEF RenderIsSound, Grows
<1>10. RendersAreSound'
    BY <1>4, <1>9, TimeIsCounted, SoundStays DEF ReaderInv, RendersAreSound
<1>11. AwaitedIsCurrent'
    BY <1>2, <1>4, <1>5 DEF AwaitedIsCurrent
<1>12. IsFiniteSet(renders')
    BY <1>4, FS_AddElement DEF ReaderInv, ReaderTypeOK
<1> QED
    BY <1>2, <1>4, <1>10, <1>11, <1>12

LEMMA RefetchKeeps ==
    ASSUME ReaderInv, NEW forced, NEW thr, Refetch(forced, thr), Grows, UNCHANGED reading,
           forced /\ reading # "" => <<visit', Texts[reading].thread>> \in Permitted'
    PROVE  /\ RendersAreSound' /\ AwaitedIsCurrent' /\ IsFiniteSet(renders')
           /\ awaited' = 0 <=> reading = ""
<1>1. CASE reading = ""
  <2>1. awaited = 0 /\ UNCHANGED <<renders, awaited>>
      BY <1>1 DEF Refetch, ReaderInv, NothingIsRead
  <2>2. RendersAreSound'
      BY <2>1, TimeIsCounted, SoundStays DEF ReaderInv, RendersAreSound
  <2>3. \A r \in renders : r.n # 0
      BY DEF ReaderInv, RendersAreSound, RenderIsSound
  <2> QED
      BY <1>1, <2>1, <2>2, <2>3 DEF AwaitedIsCurrent, ReaderInv, ReaderTypeOK
<1>2. CASE reading # ""
  <2>1. PICK m \in DOMAIN Texts : m = reading
      BY <1>2 DEF ReaderInv, ReaderTypeOK
  <2>2. FetchCards(m, forced, thr, NextCall) /\ reading' = m
      BY <1>2, <2>1 DEF Refetch
  <2> QED
      BY <1>2, <2>1, <2>2, FetchKeeps
<1> QED
    BY <1>1, <1>2

LEMMA ReaderInitially == ReaderInit => ReaderInv
<1> SUFFICES ASSUME ReaderInit PROVE ReaderInv
    OBVIOUS
<1>1. /\ privacy = [always |-> FALSE, everAlways |-> FALSE, optins |-> {}]
      /\ slot = <<>> /\ reading = "" /\ visit = 0 /\ force = FALSE /\ renders = {} /\ awaited = 0
      /\ saves = {} /\ popups = <<>> /\ shown.visit = 0 /\ shown.cards = {}
    BY DEF ReaderInit
<1>2. DOMAIN popups = {}
  <2>1. popups = <<>>
      BY <1>1
  <2> QED
      BY <2>1
<1>4. ReaderTypeOK
  <2>1. PrivacyOK
      BY <1>1 DEF PrivacyOK
  <2>2. visit = 0 /\ shown.visit = 0 /\ saves = {}
      BY <1>1
  <2>4. TimesOK /\ SavesOK
      BY <2>2 DEF TimesOK, SavesOK
  <2>3. IsFiniteSet(renders)
      BY <1>1, FS_EmptySet
  <2> QED
      BY <1>1, <2>1, <2>3, <2>4 DEF ReaderTypeOK
<1>5. RendersAreSound /\ AwaitedIsCurrent /\ ShownIsAllowed
    BY <1>1 DEF RendersAreSound, AwaitedIsCurrent, ShownIsAllowed
<1>6. NothingIsRead /\ ClicksAreKnown /\ WindowsAreGranted
    BY <1>1, <1>2 DEF NothingIsRead, ClicksAreKnown, WindowsAreGranted
<1> QED
    BY <1>4, <1>5, <1>6 DEF ReaderInv

LEMMA SelectMessageKeeps == ASSUME ReaderInv, NEW m \in DOMAIN Texts, SelectMessage(m) PROVE ReaderInv'
<1>1. /\ reading' = m /\ visit' = visit + 1 /\ force' = FALSE
      /\ FetchCards(m, FALSE, threaded, NextCall)
      /\ UNCHANGED <<privacy, untold, slot, threaded, shown, saves, popups, asked, strays>>
    BY DEF SelectMessage
<1>2. visit \in Nat /\ Grows
    BY <1>1, TimeIsCounted DEF Grows
<1>3. RendersAreSound' /\ AwaitedIsCurrent' /\ awaited' # 0 /\ IsFiniteSet(renders')
    BY <1>1, <1>2, FetchKeeps
<1>a. shown.visit \in 0 .. visit /\ \A s \in saves : s.visit \in 0 .. visit
    BY DEF ReaderInv, ReaderTypeOK, TimesOK
<1>b. shown'.visit # visit' /\ \A s \in saves' : s.visit # visit'
    BY <1>1, <1>2, <1>a
<1>4. ReaderTypeOK'
  <2>1. PrivacyOK'
      BY <1>1 DEF ReaderInv, ReaderTypeOK, PrivacyOK
  <2>2. visit' = visit + 1 /\ shown' = shown /\ saves' = saves
      BY <1>1
  <2>4. TimesOK'
      BY <1>2, <1>a, <2>2 DEF TimesOK
  <2>3. SavesOK'
      BY <2>2 DEF ReaderInv, ReaderTypeOK, SavesOK
  <2> QED
      BY <1>1, <1>3, <2>1, <2>3, <2>4 DEF ReaderTypeOK
<1>5. ShownIsAllowed'
    BY <1>3, <1>b DEF ShownIsAllowed
<1>6. NothingIsRead'
    BY <1>1, ReaderAssumption DEF NothingIsRead
<1>7. ClicksAreKnown'
    BY <1>1, <1>b DEF ClicksAreKnown
<1>8. WindowsAreGranted'
    BY <1>1, <1>2, WindowsStay DEF ReaderInv
<1> QED
    BY <1>3, <1>4, <1>5, <1>6, <1>7, <1>8 DEF ReaderInv

LEMMA SelectNoneKeeps == ASSUME ReaderInv, SelectNone PROVE ReaderInv'
<1>1. /\ reading' = "" /\ visit' = visit + 1 /\ force' = FALSE /\ awaited' = 0
      /\ shown' = [visit |-> visit + 1, cards |-> {}]
      /\ saves' = {[s EXCEPT !.mounted = FALSE] : s \in saves}
      /\ UNCHANGED <<privacy, untold, slot, threaded, renders, popups, asked, strays>>
    BY DEF SelectNone
<1>2. visit \in Nat /\ Grows
  <2>1. visit' = visit + 1 /\ UNCHANGED <<privacy, asked, strays>> /\ visit \in Nat
      BY <1>1, TimeIsCounted
  <2> QED
      BY <2>1 DEF Grows
<1>3. \A s \in saves' : /\ s = [card |-> s.card, visit |-> s.visit, at |-> s.at, mounted |-> s.mounted]
                        /\ s.visit \in 0 .. visit /\ ~s.mounted
  <2>1. SUFFICES ASSUME NEW s \in saves
                 PROVE  LET t == [s EXCEPT !.mounted = FALSE]
                        IN  /\ t = [card |-> t.card, visit |-> t.visit, at |-> t.at, mounted |-> t.mounted]
                            /\ t.visit \in 0 .. visit /\ ~t.mounted
      BY <1>1
  <2>2. s = [card |-> s.card, visit |-> s.visit, at |-> s.at, mounted |-> s.mounted]
      BY DEF ReaderInv, ReaderTypeOK, SavesOK
  <2>3. \A x : [s EXCEPT !.mounted = x] = [card |-> s.card, visit |-> s.visit, at |-> s.at, mounted |-> x]
      BY <2>2
  <2>4. s.visit \in 0 .. visit
      BY DEF ReaderInv, ReaderTypeOK, TimesOK
  <2> QED
      BY <2>3, <2>4
<1>4. shown'.visit = visit + 1 /\ shown'.cards = {}
    BY <1>1
<1>5. ReaderTypeOK'
  <2>1. PrivacyOK' /\ IsFiniteSet(renders')
      BY <1>1 DEF ReaderInv, ReaderTypeOK, PrivacyOK
  <2>2. visit' = visit + 1 /\ visit \in Nat /\ reading' = ""
      BY <1>1, <1>2
  <2>3. \A s \in saves' : s.visit \in 0 .. visit
      BY <1>3
  <2>4. TimesOK'
    <3>3. visit' = visit + 1 /\ visit \in Nat
        BY <2>2
    <3>4. visit' \in Nat
        BY <3>3
    <3>5. visit' \in 0 .. visit'
        BY <3>4
    <3>6. 0 .. visit \subseteq 0 .. visit'
        BY <3>3
    <3>1. visit' \in 0 .. visit' /\ 0 .. visit \subseteq 0 .. visit' /\ visit' \in Nat
        BY <3>4, <3>5, <3>6
    <3>2. shown'.visit = visit'
        BY <1>4, <2>2
    <3> QED
        BY <2>3, <3>1, <3>2 DEF TimesOK
  <2>5. SavesOK'
      BY <1>3 DEF SavesOK
  <2> QED
      BY <2>1, <2>2, <2>4, <2>5 DEF ReaderTypeOK
<1>6. RendersAreSound'
    BY <1>1, <1>2, SoundStays DEF ReaderInv, RendersAreSound
<1>7. AwaitedIsCurrent'
  <2>1. \A r \in renders : r.n # 0
      BY DEF ReaderInv, RendersAreSound, RenderIsSound
  <2> QED
      BY <1>1, <2>1 DEF AwaitedIsCurrent
<1>8. ShownIsAllowed' /\ NothingIsRead'
    BY <1>1, <1>3, <1>4 DEF ShownIsAllowed, NothingIsRead
<1>9. ClicksAreKnown'
  <2>1. ~force' /\ visit' = visit + 1
      BY <1>1
  <2>3. \A s \in saves' : s.visit \in 0 .. visit
      BY <1>3
  <2>2. \A s \in saves' : s.visit # visit'
      BY <1>2, <2>1, <2>3
  <2> QED
      BY <2>1, <2>2 DEF ClicksAreKnown
<1>10. WindowsAreGranted'
    BY <1>1, <1>2, WindowsStay DEF ReaderInv
<1> QED
    BY <1>5, <1>6, <1>7, <1>8, <1>9, <1>10 DEF ReaderInv

LEMMA RenderOneKeeps ==
    ASSUME ReaderInv, NEW r \in renders, NEW m, NEW loads, RenderOne(r, m, loads)
    PROVE  ReaderInv'
<1>1. PICK c : c = Card(m, SenderIsTrusted(m, r.forced), loads)
    OBVIOUS
<1>2. PICK q : q = [n |-> r.n, id |-> r.id, to |-> r.to, forced |-> r.forced, visit |-> r.visit,
                    todo |-> r.todo \ {m}, cards |-> r.cards \cup {c}]
    OBVIOUS
<1>3. /\ m \in r.todo /\ renders' = (renders \ {r}) \cup {q}
      /\ UNCHANGED <<privacy, untold, slot, reading, visit, force, threaded, awaited, shown, saves,
                     popups, asked, strays>>
    BY <1>1, <1>2 DEF RenderOne, RenderCall
<1>4. /\ q.n = r.n /\ q.id = r.id /\ q.to = r.to /\ q.forced = r.forced /\ q.visit = r.visit
      /\ q.todo = r.todo \ {m} /\ q.cards = r.cards \cup {c}
      /\ q = [n |-> q.n, id |-> q.id, to |-> q.to, forced |-> q.forced, visit |-> q.visit,
              todo |-> q.todo, cards |-> q.cards]
    BY <1>2
<1>5. RenderIsSound(r) /\ m \in DOMAIN Texts
    BY <1>3 DEF ReaderInv, RendersAreSound, RenderIsSound
<1>6. c.id = m /\ (Loads(c) => r.forced \/ OptedIn(m) \/ privacy.always)
    BY <1>1, <1>5, BlockedLoadsNothing DEF SenderIsTrusted, OptedIn
<1>7. privacy.always => privacy.everAlways
    BY DEF ReaderInv, ReaderTypeOK, PrivacyOK
<1>8. RenderIsSound(q)
  <2>1. \A d \in q.cards : /\ SameThread(d.id, q.id) /\ (q.to # "thread" => d.id = q.id)
                           /\ Loads(d) => q.forced \/ OptedIn(d.id) \/ privacy.everAlways
      BY <1>3, <1>4, <1>5, <1>6, <1>7 DEF RenderIsSound
  <2> QED
      BY <1>3, <1>4, <1>5, <2>1 DEF RenderIsSound
<1>9. visit \in Nat /\ Grows
    BY <1>3, TimeIsCounted DEF Grows
<1>10. RendersAreSound'
    BY <1>3, <1>8, <1>9, SoundStays DEF ReaderInv, RendersAreSound
<1>11. AwaitedIsCurrent'
  <2>1. awaited # 0 => \E x \in renders' : x.n = awaited
      BY <1>3, <1>4 DEF ReaderInv, AwaitedIsCurrent
  <2>2. ASSUME q.n = awaited
        PROVE  /\ q.to # "popup" /\ q.id = reading /\ q.visit = visit
               /\ \A d \in q.cards : Loads(d) => q.forced \/ OptedIn(d.id) \/ privacy.always \/ untold
      BY <1>4, <1>6, <2>2 DEF ReaderInv, AwaitedIsCurrent
  <2> QED
      BY <1>3, <2>1, <2>2 DEF ReaderInv, AwaitedIsCurrent, OptedIn
<1>12. ReaderTypeOK'
  <2>1. IsFiniteSet(renders')
      BY <1>3, FS_AddElement, FS_RemoveElement DEF ReaderInv, ReaderTypeOK
  <2> QED
      BY <1>3, <2>1 DEF ReaderInv, ReaderTypeOK, PrivacyOK, TimesOK, SavesOK
<1>13. ShownIsAllowed' /\ NothingIsRead' /\ ClicksAreKnown'
    BY <1>3 DEF ReaderInv, ShownIsAllowed, NothingIsRead, ClicksAreKnown, OptedIn, Asked, Permitted
<1>14. WindowsAreGranted'
    BY <1>3, <1>9, WindowsStay DEF ReaderInv
<1> QED
    BY <1>10, <1>11, <1>12, <1>13, <1>14 DEF ReaderInv

LEMMA RenderedKeeps == ASSUME ReaderInv, NEW r \in renders, Rendered(r) PROVE ReaderInv'
<1>1. PICK card : card = (CHOOSE c \in r.cards : TRUE)
    OBVIOUS
<1>2. /\ r.todo = {} /\ renders' = renders \ {r}
      /\ slot' = IF r.to = "thread" THEN slot ELSE <<card>>
      /\ IF r.n = awaited THEN awaited' = 0 /\ shown' = [visit |-> r.visit, cards |-> r.cards]
                          ELSE UNCHANGED <<awaited, shown>>
      /\ popups' = IF r.to = "popup" /\ r.id \notin DOMAIN popups
                   THEN [m \in DOMAIN popups \cup {r.id} |-> IF m = r.id THEN card ELSE popups[m]]
                   ELSE popups
      /\ UNCHANGED <<privacy, untold, reading, visit, force, threaded, saves, asked, strays>>
    BY <1>1 DEF Rendered
<1>3. RenderIsSound(r)
    BY DEF ReaderInv, RendersAreSound
<1>4. visit \in Nat /\ Grows
    BY <1>2, TimeIsCounted DEF Grows
<1>5. r.to # "thread" => card \in r.cards /\ card.id = r.id /\ Granted(card, r.id)
  <2>1. r.to # "thread" => card \in r.cards
      BY <1>1, <1>2, <1>3 DEF RenderIsSound
  <2>2. r.forced => \E v \in 0 .. visit : <<v, Texts[r.id].thread>> \in Permitted
      BY <1>3 DEF RenderIsSound
  <2> QED
      BY <1>3, <2>1, <2>2 DEF RenderIsSound, Granted
<1>6. RendersAreSound'
    BY <1>2, <1>4, SoundStays DEF ReaderInv, RendersAreSound
<1>7. AwaitedIsCurrent'
  <2>1. CASE r.n = awaited
    <3>1. \A x \in renders : x.n # 0
        BY DEF ReaderInv, RendersAreSound, RenderIsSound
    <3> QED
        BY <1>2, <2>1, <3>1 DEF AwaitedIsCurrent
  <2>2. CASE r.n # awaited
      BY <1>2, <2>2 DEF ReaderInv, AwaitedIsCurrent, OptedIn
  <2> QED
      BY <2>1, <2>2
<1>8. ShownIsAllowed'
  <2>1. CASE r.n = awaited
    <3>1. shown'.visit = r.visit /\ shown'.cards = r.cards
        BY <1>2, <2>1
    <3>2. /\ r.id = reading /\ r.visit = visit
          /\ \A c \in r.cards : Loads(c) => r.forced \/ OptedIn(c.id) \/ privacy.always \/ untold
        BY <2>1 DEF ReaderInv, AwaitedIsCurrent
    <3>3. \A c \in r.cards : SameThread(c.id, r.id) /\ (r.forced => <<r.visit, Texts[c.id].thread>> \in Permitted)
        BY <1>3 DEF RenderIsSound, SameThread
    <3> QED
        BY <1>2, <3>1, <3>2, <3>3 DEF ShownIsAllowed, SameThread, OptedIn, Asked, Permitted
  <2>2. CASE r.n # awaited
      BY <1>2, <2>2 DEF ReaderInv, ShownIsAllowed, OptedIn, Asked, Permitted
  <2> QED
      BY <2>1, <2>2
<1>9. NothingIsRead'
  <2>1. reading = "" => r.n # awaited
      BY <1>3 DEF ReaderInv, NothingIsRead, RenderIsSound
  <2> QED
      BY <1>2, <2>1 DEF ReaderInv, NothingIsRead
<1>10. ClicksAreKnown'
    BY <1>2 DEF ReaderInv, ClicksAreKnown, Permitted
<1>11. ReaderTypeOK'
  <2>1. IsFiniteSet(renders')
      BY <1>2, FS_RemoveElement DEF ReaderInv, ReaderTypeOK
  <2>2. shown'.visit \in 0 .. visit
    <3>1. CASE r.n = awaited
      <4>1. shown'.visit = r.visit
          BY <1>2, <3>1
      <4> QED
          BY <1>3, <1>4, <4>1 DEF RenderIsSound
    <3>2. CASE r.n # awaited
        BY <1>2, <3>2 DEF ReaderInv, ReaderTypeOK, TimesOK
    <3> QED
        BY <3>1, <3>2
  <2>3. PrivacyOK' /\ TimesOK' /\ SavesOK'
      BY <1>2, <1>4, <2>2 DEF ReaderInv, ReaderTypeOK, PrivacyOK, TimesOK, SavesOK
  <2> QED
      BY <1>2, <2>1, <2>3 DEF ReaderInv, ReaderTypeOK
<1>12. WindowsAreGranted'
  <2>1. slot' # <<>> => Granted(slot'[1], slot'[1].id)
      BY <1>2, <1>5 DEF ReaderInv, WindowsAreGranted
  <2>2. \A m \in DOMAIN popups' : Granted(popups'[m], m)
      BY <1>2, <1>5 DEF ReaderInv, WindowsAreGranted
  <2>3. \A c, m : Granted(c, m) => Granted(c, m)'
      BY <1>4, SoundStays
  <2> QED
      BY <2>1, <2>2, <2>3 DEF WindowsAreGranted
<1> QED
    BY <1>6, <1>7, <1>8, <1>9, <1>10, <1>11, <1>12 DEF ReaderInv

LEMMA ForcedKeeps ==
    ASSUME ReaderInv, NEW v, Forced(v), UNCHANGED <<visit, reading>>, reading # "", asked \subseteq asked',
           UNCHANGED privacy, v = visit => <<visit, Texts[reading].thread>> \in asked'
    PROVE  /\ RendersAreSound' /\ AwaitedIsCurrent' /\ IsFiniteSet(renders') /\ awaited' # 0
           /\ <<visit', Texts[reading'].thread>> \in Permitted'
           /\ Grows
<1>1. /\ Refetch(TRUE, threaded)
      /\ strays' = IF v = visit THEN strays ELSE strays \cup {<<visit, Texts[reading].thread>>}
    BY DEF Forced
<1>2. Grows
  <2>1. visit' = visit /\ visit \in Nat /\ privacy' = privacy /\ asked \subseteq asked'
      BY TimeIsCounted
  <2>2. strays \subseteq strays'
      BY <1>1
  <2> QED
      BY <2>1, <2>2, GrowsAtOnce
<1>3. <<visit', Texts[reading'].thread>> \in Permitted'
    BY <1>1 DEF Permitted
<1>4. /\ RendersAreSound' /\ AwaitedIsCurrent' /\ IsFiniteSet(renders')
      /\ awaited' = 0 <=> reading = ""
    BY <1>1, <1>2, <1>3, RefetchKeeps
<1> QED
    BY <1>2, <1>3, <1>4

LEMMA LoadImagesKeeps == ASSUME ReaderInv, NEW c \in shown.cards, LoadImages(c) PROVE ReaderInv'
<1>1. /\ asked' = asked \cup {<<shown.visit, Texts[c.id].thread>>} /\ visit' = visit /\ Forced(shown.visit)
      /\ UNCHANGED <<privacy, untold, slot, reading, threaded, shown, saves, popups>>
    BY DEF LoadImages, Clicked
<1>2. reading # ""
    BY DEF ReaderInv, NothingIsRead
<1>3. shown.visit = visit => <<visit, Texts[reading].thread>> \in asked'
    BY <1>1 DEF ReaderInv, ShownIsAllowed, SameThread
<1>4. /\ RendersAreSound' /\ AwaitedIsCurrent' /\ IsFiniteSet(renders') /\ awaited' # 0
      /\ <<visit', Texts[reading'].thread>> \in Permitted'
      /\ Grows
    BY <1>1, <1>2, <1>3, ForcedKeeps
<1>5. ReaderTypeOK'
    BY <1>1, <1>4 DEF ReaderInv, ReaderTypeOK, PrivacyOK, TimesOK, SavesOK
<1>6. ShownIsAllowed' /\ NothingIsRead'
    BY <1>1, <1>2, <1>4 DEF ReaderInv, ShownIsAllowed, NothingIsRead
<1>7. ClicksAreKnown'
    BY <1>1, <1>4 DEF ReaderInv, ClicksAreKnown
<1>8. WindowsAreGranted'
    BY <1>1, <1>4, TimeIsCounted, WindowsStay DEF ReaderInv
<1> QED
    BY <1>4, <1>5, <1>6, <1>7, <1>8 DEF ReaderInv

LEMMA AlwaysLoadKeeps == ASSUME ReaderInv, NEW c \in shown.cards, AlwaysLoad(c) PROVE ReaderInv'
<1>1. PICK s : s = [card |-> c.id, visit |-> shown.visit, at |-> "save", mounted |-> TRUE]
    OBVIOUS
<1>2. /\ s.visit = shown.visit
      /\ s = [card |-> s.card, visit |-> s.visit, at |-> s.at, mounted |-> s.mounted]
    BY <1>1
<1>3. /\ asked' = asked \cup {<<shown.visit, Texts[c.id].thread>>} /\ saves' = saves \cup {s}
      /\ UNCHANGED <<privacy, untold, slot, reading, visit, force, threaded, renders, awaited, shown,
                     popups, strays>>
    BY <1>1 DEF AlwaysLoad, Clicked
<1>4. reading # ""
    BY DEF ReaderInv, NothingIsRead
<1>5. Grows
    BY <1>3, TimeIsCounted DEF Grows
<1>6. RendersAreSound' /\ AwaitedIsCurrent'
    BY <1>3, <1>5, TimeIsCounted, SoundStays DEF ReaderInv, RendersAreSound, AwaitedIsCurrent, OptedIn
<1>7. ReaderTypeOK'
  <2>1. TimesOK'
      BY <1>2, <1>3 DEF ReaderInv, ReaderTypeOK, TimesOK
  <2>2. SavesOK'
      BY <1>2, <1>3 DEF ReaderInv, ReaderTypeOK, SavesOK
  <2> QED
      BY <1>3, <2>1, <2>2 DEF ReaderInv, ReaderTypeOK, PrivacyOK
<1>8. ShownIsAllowed' /\ NothingIsRead'
    BY <1>3, <1>4 DEF ReaderInv, ShownIsAllowed, NothingIsRead, OptedIn, Asked, Permitted
<1>9. ClicksAreKnown'
  <2>1. shown.visit = visit => <<visit, Texts[reading].thread>> \in asked'
      BY <1>3 DEF ReaderInv, ShownIsAllowed, SameThread
  <2> QED
      BY <1>2, <1>3, <2>1 DEF ReaderInv, ClicksAreKnown, Permitted
<1>10. WindowsAreGranted'
    BY <1>3, <1>5, TimeIsCounted, WindowsStay DEF ReaderInv
<1> QED
    BY <1>6, <1>7, <1>8, <1>9, <1>10 DEF ReaderInv

(* The calls that save an opt-in come and go.                              *)
LEMMA SavesKeep ==
    ASSUME ReaderInv, Grows, NEW s \in saves, NEW t, saves' \subseteq saves \cup {t},
           t = [card |-> t.card, visit |-> t.visit, at |-> t.at, mounted |-> t.mounted],
           t.visit = s.visit, t.mounted => s.mounted,
           privacy'.always = privacy.always, privacy'.everAlways = privacy.everAlways, PrivacyOK',
           UNCHANGED <<untold, slot, reading, visit, force, threaded, renders, awaited, shown, popups,
                       asked, strays>>
    PROVE  ReaderInv'
<1>1. \A m : OptedIn(m) => OptedIn(m)'
    BY DEF Grows, OptedIn
<1>2. RendersAreSound'
    BY TimeIsCounted, SoundStays DEF ReaderInv, RendersAreSound
<1>3. AwaitedIsCurrent' /\ ShownIsAllowed'
    BY <1>1 DEF ReaderInv, AwaitedIsCurrent, ShownIsAllowed, Asked, Permitted
<1>4. ReaderTypeOK'
  <2>1. TimesOK'
      BY DEF ReaderInv, ReaderTypeOK, TimesOK
  <2>2. SavesOK'
      BY DEF ReaderInv, ReaderTypeOK, SavesOK
  <2> QED
      BY <2>1, <2>2 DEF ReaderInv, ReaderTypeOK
<1>5. NothingIsRead' /\ ClicksAreKnown'
    BY DEF ReaderInv, NothingIsRead, ClicksAreKnown, Permitted
<1>6. WindowsAreGranted'
    BY TimeIsCounted, WindowsStay DEF ReaderInv
<1> QED
    BY <1>2, <1>3, <1>4, <1>5, <1>6 DEF ReaderInv

LEMMA TrustSenderKeeps == ASSUME ReaderInv, NEW s \in saves, TrustSender(s) PROVE ReaderInv'
<1>1. PICK t : t = [s EXCEPT !.at = "reply"]
    OBVIOUS
<1>2. /\ privacy' = [privacy EXCEPT !.optins = @ \cup {Texts[s.card].from}]
      /\ saves' \subseteq saves \cup {t}
      /\ UNCHANGED <<untold, slot, reading, visit, force, threaded, renders, awaited, shown, popups,
                     asked, strays>>
    BY <1>1 DEF TrustSender
<1>3. /\ t = [card |-> t.card, visit |-> t.visit, at |-> t.at, mounted |-> t.mounted]
      /\ t.visit = s.visit /\ t.mounted = s.mounted
  <2>1. s = [card |-> s.card, visit |-> s.visit, at |-> s.at, mounted |-> s.mounted]
      BY DEF ReaderInv, ReaderTypeOK, SavesOK
  <2>2. \A x : [s EXCEPT !.at = x] = [card |-> s.card, visit |-> s.visit, at |-> x, mounted |-> s.mounted]
      BY <2>1
  <2>3. t = [card |-> s.card, visit |-> s.visit, at |-> "reply", mounted |-> s.mounted]
      BY <1>1, <2>2
  <2> QED
      BY <2>3
<1>4. /\ PrivacyOK' /\ privacy'.always = privacy.always /\ privacy'.everAlways = privacy.everAlways
      /\ privacy.optins \subseteq privacy'.optins
  <2>1. PrivacyOK
      BY DEF ReaderInv, ReaderTypeOK
  <2>2. \A x : [privacy EXCEPT !.optins = x]
                   = [always |-> privacy.always, everAlways |-> privacy.everAlways, optins |-> x]
      BY <2>1 DEF PrivacyOK
  <2>3. privacy' = [always |-> privacy.always, everAlways |-> privacy.everAlways,
                    optins |-> privacy.optins \cup {Texts[s.card].from}]
      BY <1>2, <2>2
  <2> QED
      BY <2>1, <2>3 DEF PrivacyOK
<1>5. Grows
    BY <1>2, <1>4, TimeIsCounted DEF Grows
<1> QED
    BY <1>2, <1>3, <1>4, <1>5, SavesKeep

LEMMA SaveEnds ==
    ASSUME ReaderInv, NEW s \in saves, saves' = saves \ {s},
           UNCHANGED <<privacy, untold, slot, reading, visit, force, threaded, renders, awaited, shown,
                       popups, asked, strays>>
    PROVE  ReaderInv'
<1>1. s = [card |-> s.card, visit |-> s.visit, at |-> s.at, mounted |-> s.mounted]
    BY DEF ReaderInv, ReaderTypeOK, SavesOK
<1>2. PrivacyOK'
    BY DEF ReaderInv, ReaderTypeOK, PrivacyOK
<1>3. Grows
    BY TimeIsCounted DEF Grows
<1> QED
    BY <1>1, <1>2, <1>3, SavesKeep

LEMMA TrustedKeeps == ASSUME ReaderInv, NEW s \in saves, Trusted(s) PROVE ReaderInv'
<1>1. /\ saves' = saves \ {s} /\ visit' = visit
      /\ IF s.mounted THEN Forced(s.visit) ELSE UNCHANGED <<force, renders, awaited, strays>>
      /\ UNCHANGED <<privacy, untold, slot, reading, threaded, shown, popups, asked>>
    BY DEF Trusted
<1>2. CASE ~s.mounted
    BY <1>1, <1>2, SaveEnds
<1>3. CASE s.mounted
  <2>1. reading # ""
      BY <1>3 DEF ReaderInv, NothingIsRead
  <2>2. s.visit = visit => <<visit, Texts[reading].thread>> \in asked'
      BY <1>1 DEF ReaderInv, ClicksAreKnown
  <2>3. Forced(s.visit)
      BY <1>1, <1>3
  <2>4. /\ RendersAreSound' /\ AwaitedIsCurrent' /\ IsFiniteSet(renders') /\ awaited' # 0
        /\ <<visit', Texts[reading'].thread>> \in Permitted'
        /\ Grows
    <3> DEFINE v == s.visit
    <3>1. Forced(v) /\ (v = visit => <<visit, Texts[reading].thread>> \in asked')
        BY <2>2, <2>3
    <3> HIDE DEF v
    <3> QED
        BY <1>1, <2>1, <3>1, ForcedKeeps
  <2>5. ReaderTypeOK'
      BY <1>1, <2>4 DEF ReaderInv, ReaderTypeOK, PrivacyOK, TimesOK, SavesOK
  <2>6. ShownIsAllowed' /\ NothingIsRead'
      BY <1>1, <2>1, <2>4 DEF ReaderInv, ShownIsAllowed, NothingIsRead
  <2>7. ClicksAreKnown'
      BY <1>1, <2>4 DEF ReaderInv, ClicksAreKnown
  <2>8. WindowsAreGranted'
      BY <1>1, <2>4, TimeIsCounted, WindowsStay DEF ReaderInv
  <2> QED
      BY <2>4, <2>5, <2>6, <2>7, <2>8 DEF ReaderInv
<1> QED
    BY <1>2, <1>3

LEMMA SetAlwaysKeeps == ASSUME ReaderInv, SetAlways PROVE ReaderInv'
<1>1. /\ untold' = TRUE
      /\ privacy' = [always |-> ~privacy.always, everAlways |-> TRUE, optins |-> privacy.optins]
      /\ UNCHANGED <<slot, reading, visit, force, threaded, renders, awaited, shown, saves, popups,
                     asked, strays>>
    BY DEF SetAlways
<1>2. privacy'.everAlways = TRUE /\ privacy'.optins = privacy.optins /\ PrivacyOK'
    BY <1>1 DEF PrivacyOK
<1>3. Grows
    BY <1>1, <1>2, TimeIsCounted DEF Grows
<1>4. RendersAreSound'
    BY <1>1, <1>3, TimeIsCounted, SoundStays DEF ReaderInv, RendersAreSound
<1>5. AwaitedIsCurrent' /\ ShownIsAllowed'
    BY <1>1 DEF ReaderInv, AwaitedIsCurrent, ShownIsAllowed
<1>6. ReaderTypeOK' /\ NothingIsRead' /\ ClicksAreKnown'
    BY <1>1, <1>2 DEF ReaderInv, ReaderTypeOK, TimesOK, SavesOK, NothingIsRead, ClicksAreKnown, Permitted
<1>7. WindowsAreGranted'
    BY <1>1, <1>3, TimeIsCounted, WindowsStay DEF ReaderInv
<1> QED
    BY <1>4, <1>5, <1>6, <1>7 DEF ReaderInv

(* The pane fetches the same thread again.                                 *)
LEMMA FetchedAgainKeeps ==
    ASSUME ReaderInv, NEW thr, Refetch(force, thr),
           UNCHANGED <<privacy, slot, reading, visit, force, shown, saves, popups, asked, strays>>
    PROVE  ReaderInv'
<1>1. Grows
    BY TimeIsCounted DEF Grows
<1>2. force /\ reading # "" => <<visit', Texts[reading].thread>> \in Permitted'
    BY DEF ReaderInv, ClicksAreKnown, Permitted
<1>3. /\ RendersAreSound' /\ AwaitedIsCurrent' /\ IsFiniteSet(renders')
      /\ awaited' = 0 <=> reading = ""
  <2>1. PICK f : f = force
      OBVIOUS
  <2>2. Refetch(f, thr) /\ (f /\ reading # "" => <<visit', Texts[reading].thread>> \in Permitted')
      BY <1>2, <2>1
  <2> QED
      BY <1>1, <2>2, RefetchKeeps
<1>4. ReaderTypeOK'
    BY <1>3 DEF ReaderInv, ReaderTypeOK, PrivacyOK, TimesOK, SavesOK
<1>5. NothingIsRead' /\ ClicksAreKnown'
    BY <1>3 DEF ReaderInv, NothingIsRead, ClicksAreKnown, Permitted
<1>6. ShownIsAllowed'
    BY <1>3 DEF ReaderInv, ShownIsAllowed, NothingIsRead
<1>7. WindowsAreGranted'
    BY <1>1, TimeIsCounted, WindowsStay DEF ReaderInv
<1> QED
    BY <1>3, <1>4, <1>5, <1>6, <1>7 DEF ReaderInv

LEMMA OpenInWindowKeeps == ASSUME ReaderInv, OpenInWindow PROVE ReaderInv'
<1>1. /\ reading # ""
      /\ UNCHANGED <<privacy, untold, slot, reading, visit, force, threaded, awaited, shown, saves,
                     asked, strays>>
    BY DEF OpenInWindow
<1>2. visit \in Nat /\ Grows
    BY <1>1, TimeIsCounted, GrowsAtOnce
<1>3. reading \in DOMAIN Texts
    BY <1>1 DEF ReaderInv, ReaderTypeOK
<1>4. PrivacyOK' /\ TimesOK' /\ SavesOK' /\ ShownIsAllowed' /\ NothingIsRead' /\ ClicksAreKnown'
  <2>1. PrivacyOK' /\ TimesOK' /\ SavesOK'
      BY <1>1 DEF ReaderInv, ReaderTypeOK, PrivacyOK, TimesOK, SavesOK
  <2>2. ShownIsAllowed'
      BY <1>1 DEF ReaderInv, ShownIsAllowed, OptedIn, Asked, Permitted
  <2>3. NothingIsRead' /\ ClicksAreKnown'
      BY <1>1 DEF ReaderInv, NothingIsRead, ClicksAreKnown, Permitted
  <2> QED
      BY <2>1, <2>2, <2>3
<1>5. CASE slot # <<>> /\ slot[1].id = reading
  <2>1. /\ popups' = [m \in DOMAIN popups \cup {reading} |-> IF m = reading THEN slot[1] ELSE popups[m]]
        /\ renders' = renders
      BY <1>5 DEF OpenInWindow
  <2>2. \A m \in DOMAIN popups' : Granted(popups'[m], m)
      BY <1>5, <2>1 DEF ReaderInv, WindowsAreGranted
  <2>3. WindowsAreGranted'
      BY <1>1, <1>2, <2>2, SoundStays DEF ReaderInv, WindowsAreGranted
  <2>4. RendersAreSound' /\ AwaitedIsCurrent'
      BY <1>1, <1>2, <2>1, SoundStays DEF ReaderInv, RendersAreSound, AwaitedIsCurrent, OptedIn
  <2>5. ReaderTypeOK'
      BY <1>1, <1>4, <2>1 DEF ReaderInv, ReaderTypeOK
  <2> QED
      BY <1>4, <2>3, <2>4, <2>5 DEF ReaderInv
<1>6. CASE ~(slot # <<>> /\ slot[1].id = reading)
  <2>1. PICK k : k = NextCall
      OBVIOUS
  <2>2. k \in Nat \ {0} /\ \A r \in renders : r.n # k
      BY <2>1, NextCallIsNew DEF ReaderInv, ReaderTypeOK
  <2>3. PICK q : q = [n |-> k, id |-> reading, to |-> "popup", forced |-> FALSE, visit |-> visit,
                      todo |-> {reading}, cards |-> {}]
      OBVIOUS
  <2>4. renders' = renders \cup {q} /\ popups' = popups
      BY <1>6, <2>1, <2>3 DEF OpenInWindow, RenderCall
  <2>5. /\ q.n = k /\ q.id = reading /\ q.to = "popup" /\ q.forced = FALSE /\ q.visit = visit
        /\ q.todo = {reading} /\ q.cards = {}
        /\ q = [n |-> q.n, id |-> q.id, to |-> q.to, forced |-> q.forced, visit |-> q.visit,
                todo |-> q.todo, cards |-> q.cards]
      BY <2>3
  <2>6. visit \in 0 .. visit
      BY <1>2
  <2>7. RenderIsSound(q)
      BY <1>3, <2>2, <2>5, <2>6 DEF RenderIsSound, SameThread
  <2>8. RendersAreSound'
      BY <1>2, <2>4, <2>7, SoundStays DEF ReaderInv, RendersAreSound
  <2>9. AwaitedIsCurrent'
    <3>1. awaited # k
        BY <2>2 DEF ReaderInv, AwaitedIsCurrent
    <3> QED
        BY <1>1, <2>4, <2>5, <3>1 DEF ReaderInv, AwaitedIsCurrent, OptedIn
  <2>10. ReaderTypeOK'
    <3>1. IsFiniteSet(renders')
        BY <2>4, FS_AddElement DEF ReaderInv, ReaderTypeOK
    <3> QED
        BY <1>1, <1>4, <3>1 DEF ReaderInv, ReaderTypeOK
  <2>11. WindowsAreGranted'
      BY <1>1, <1>2, <2>4, WindowsStay DEF ReaderInv
  <2> QED
      BY <1>4, <2>8, <2>9, <2>10, <2>11 DEF ReaderInv
<1> QED
    BY <1>5, <1>6

LEMMA CloseReaderKeeps == ASSUME ReaderInv, NEW m \in DOMAIN popups, CloseReader(m) PROVE ReaderInv'
<1>1. /\ popups' = [n \in DOMAIN popups \ {m} |-> popups[n]]
      /\ UNCHANGED <<privacy, untold, slot, reading, visit, force, threaded, renders, awaited, shown,
                     saves, asked, strays>>
    BY DEF CloseReader
<1>2. visit \in Nat /\ Grows
    BY <1>1, TimeIsCounted DEF Grows
<1>3. ReaderTypeOK' /\ NothingIsRead' /\ ClicksAreKnown'
  <2>1. PrivacyOK' /\ TimesOK' /\ SavesOK'
      BY <1>1 DEF ReaderInv, ReaderTypeOK, PrivacyOK, TimesOK, SavesOK
  <2> QED
      BY <1>1, <2>1 DEF ReaderInv, ReaderTypeOK, NothingIsRead, ClicksAreKnown, Permitted
<1>4. RendersAreSound'
    BY <1>1, <1>2, SoundStays DEF ReaderInv, RendersAreSound
<1>5. AwaitedIsCurrent' /\ ShownIsAllowed'
    BY <1>1 DEF ReaderInv, AwaitedIsCurrent, ShownIsAllowed, OptedIn, Asked, Permitted
<1>6. WindowsAreGranted'
  <2>1. \A n \in DOMAIN popups' : n \in DOMAIN popups /\ popups'[n] = popups[n]
      BY <1>1
  <2> QED
      BY <1>1, <1>2, <2>1, SoundStays DEF ReaderInv, WindowsAreGranted
<1> QED
    BY <1>3, <1>4, <1>5, <1>6 DEF ReaderInv

LEMMA ReaderStep == ReaderInv /\ [ReaderNext]_readerVars => ReaderInv'
<1> SUFFICES ASSUME ReaderInv, [ReaderNext]_readerVars PROVE ReaderInv'
    OBVIOUS
<1>1. CASE UNCHANGED readerVars
  <2>1. UNCHANGED <<privacy, untold, slot, reading, visit, force, threaded, renders, awaited, shown,
                    saves, popups, asked, strays>>
      BY <1>1 DEF readerVars
  <2>2. visit \in Nat /\ Grows
      BY <2>1, TimeIsCounted DEF Grows
  <2>3. RendersAreSound'
      BY <2>1, <2>2, SoundStays DEF ReaderInv, RendersAreSound
  <2>4. PrivacyOK' /\ TimesOK' /\ SavesOK'
      BY <2>1 DEF ReaderInv, ReaderTypeOK, PrivacyOK, TimesOK, SavesOK
  <2>5. ReaderTypeOK' /\ NothingIsRead' /\ ClicksAreKnown'
      BY <2>1, <2>4 DEF ReaderInv, ReaderTypeOK, NothingIsRead, ClicksAreKnown, Permitted
  <2>6. AwaitedIsCurrent' /\ ShownIsAllowed'
      BY <2>1 DEF ReaderInv, AwaitedIsCurrent, ShownIsAllowed, OptedIn, Asked, Permitted
  <2>7. WindowsAreGranted'
      BY <2>1, <2>2, WindowsStay DEF ReaderInv
  <2> QED
      BY <2>3, <2>5, <2>6, <2>7 DEF ReaderInv
<1>2. CASE \E m \in DOMAIN Texts : SelectMessage(m)
    BY <1>2, SelectMessageKeeps
<1>3. CASE SelectNone
    BY <1>3, SelectNoneKeeps
<1>4. CASE SetAlways
    BY <1>4, SetAlwaysKeeps
<1>5. CASE Told
  <2>1. /\ Refetch(force, threaded)
        /\ UNCHANGED <<privacy, slot, reading, visit, force, shown, saves, popups, asked, strays>>
      BY <1>5 DEF Told
  <2> QED
      BY <2>1, FetchedAgainKeeps
<1>6. CASE SetThreading
  <2>1. /\ Refetch(force, ~threaded)
        /\ UNCHANGED <<privacy, slot, reading, visit, force, shown, saves, popups, asked, strays>>
      BY <1>6 DEF SetThreading
  <2> QED
      BY <2>1, FetchedAgainKeeps
<1>7. CASE OpenInWindow
    BY <1>7, OpenInWindowKeeps
<1>8. CASE \E c \in shown.cards : LoadImages(c) \/ AlwaysLoad(c)
    BY <1>8, LoadImagesKeeps, AlwaysLoadKeeps
<1>9. CASE \E r \in renders : RenderWithBody(r) \/ RenderWithoutBody(r) \/ Rendered(r)
    BY <1>9, RenderOneKeeps, RenderedKeeps DEF RenderWithBody, RenderWithoutBody
<1>10. CASE \E s \in saves : TrustSender(s) \/ TrustFails(s) \/ Trusted(s)
  <2>1. PICK s \in saves : TrustSender(s) \/ TrustFails(s) \/ Trusted(s)
      BY <1>10
  <2>2. CASE TrustFails(s)
      BY <2>2, SaveEnds DEF TrustFails
  <2> QED
      BY <2>1, <2>2, TrustSenderKeeps, TrustedKeeps
<1>11. CASE \E m \in DOMAIN popups : CloseReader(m)
    BY <1>11, CloseReaderKeeps
<1> QED
    BY <1>1, <1>2, <1>3, <1>4, <1>5, <1>6, <1>7, <1>8, <1>9, <1>10, <1>11 DEF ReaderNext

(* What is on the screen has loaded from the network only what the user    *)
(* has asked for, whatever is clicked while calls of messages_get and      *)
(* threads_messages are under way.                                         *)
THEOREM NothingLoadsUnasked == ReaderSpec => []RemoteIsAskedFor
<1>1. ReaderInv => RemoteIsAskedFor
  <2> SUFFICES ASSUME ReaderInv PROVE RemoteIsAskedFor
      OBVIOUS
  <2>1. Quiet => \A c \in shown.cards :
           Loads(c) => privacy.always \/ Texts[c.id].from \in privacy.optins \/ Asked(c, asked \cup strays)
      BY DEF ReaderInv, ShownIsAllowed, Quiet, OptedIn, Permitted
  <2>2. \A m \in DOMAIN popups :
           Loads(popups[m]) => \/ privacy.everAlways \/ Texts[m].from \in privacy.optins
                               \/ \E v \in 0 .. visit : <<v, Texts[m].thread>> \in asked \cup strays
      BY DEF ReaderInv, WindowsAreGranted, Granted, OptedIn, Permitted
  <2> QED
      BY <2>1, <2>2 DEF RemoteIsAskedFor
<1> QED
    BY <1>1, ReaderInitially, ReaderStep, PTL DEF ReaderSpec
=============================================================================
