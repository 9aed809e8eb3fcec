--------------------------- MODULE VoiceBridge_proofs ---------------------------
(***************************************************************************)
(* Proofs about VoiceBridge, for any number of utterances, products, page  *)
(* actions and routed events.                                              *)
(*                                                                         *)
(* No property is inductive alone.  BridgeInv joins the types with what    *)
(* a turn that has not begun looks like (NotBegun), that a withdrawn turn  *)
(* is never in charge again (HalvesOut), that the products added are       *)
(* remembered (AddsRemembered), that only the turn in charge can still be  *)
(* silenced by the flag (FlagMeans), which turn a pending call belongs to  *)
(* (CallsAwaited), and where the notes of what was done stand in the       *)
(* history (DoneAfterSaid).                                                *)
(***************************************************************************)
EXTENDS VoiceBridge, TLAPS, WellFoundedInduction

-------------------------------------------------------------------------------
(* Sequences: the greatest and the least index, and what splicing leaves *)

Below == {pair \in Nat \X Nat : pair[1] < pair[2]}

LEMMA BelowWellFounded == IsWellFoundedOn(Below, Nat)
BY NatLessThanWellFounded DEF OpToRel, Below

LEMMA LeastIndex ==
  ASSUME NEW S \in SUBSET Nat, S # {}
  PROVE  Min(S) \in S /\ \A i \in S : Min(S) <= i
<1>1. PICK x \in S : \A y \in S : ~ (<<y, x>> \in Below) BY WFMin, BelowWellFounded
<1>2. \A y \in S : x <= y
  <2>. TAKE y \in S
  <2>1. x \in Nat /\ y \in Nat OBVIOUS
  <2>2. ~ (y < x) BY <2>1, <1>1 DEF Below
  <2>. QED BY <2>1, <2>2
<1>. QED BY <1>2, Zenon DEF Min

LEMMA GreatestIndex ==
  ASSUME NEW n \in Nat, NEW S \in SUBSET (1..n), S # {}
  PROVE  Max(S) \in S
<1>. DEFINE Left == {n - i : i \in S}
<1>1. Left \in SUBSET Nat /\ Left # {}
  <2>1. \A i \in 1..n : n - i \in Nat OBVIOUS
  <2>. QED BY <2>1
<1>2. Min(Left) \in Left /\ \A y \in Left : Min(Left) <= y
  <2>. HIDE DEF Left
  <2>. QED BY <1>1, LeastIndex
<1>3. PICK m \in S : Min(Left) = n - m BY <1>2
<1>4. \A i \in S : m >= i
  <2>. TAKE i \in S
  <2>1. n - m <= n - i BY <1>2, <1>3
  <2>2. m \in 1..n /\ i \in 1..n OBVIOUS
  <2>. QED BY <2>1, <2>2
<1>. QED BY <1>4, Zenon DEF Max

\* Taking one entry out leaves the others, in their order.
LEMMA OneOut ==
  ASSUME NEW h \in Seq(Entries), NEW k \in DOMAIN h
  PROVE  /\ RemoveAt(h, k) \in Seq(Entries)
         /\ Len(RemoveAt(h, k)) = Len(h) - 1
         /\ \A i \in 1..(Len(h) - 1) : RemoveAt(h, k)[i] = IF i < k THEN h[i] ELSE h[i + 1]
<1>1. k \in 1..Len(h) /\ Len(h) \in Nat OBVIOUS
<1>2. /\ SubSeq(h, 1, k - 1) \in Seq(Entries) /\ Len(SubSeq(h, 1, k - 1)) = k - 1
      /\ \A i \in 1..(k - 1) : SubSeq(h, 1, k - 1)[i] = h[i]
  BY <1>1
<1>3. /\ SubSeq(h, k + 1, Len(h)) \in Seq(Entries) /\ Len(SubSeq(h, k + 1, Len(h))) = Len(h) - k
      /\ \A i \in 1..(Len(h) - k) : SubSeq(h, k + 1, Len(h))[i] = h[k + i]
  BY <1>1
<1>4. ASSUME NEW a \in Seq(Entries), NEW b \in Seq(Entries)
      PROVE  /\ a \o b \in Seq(Entries) /\ Len(a \o b) = Len(a) + Len(b)
             /\ \A i \in 1..(Len(a) + Len(b)) :
                  (a \o b)[i] = IF i <= Len(a) THEN a[i] ELSE b[i - Len(a)]
  OBVIOUS
<1>. DEFINE a == SubSeq(h, 1, k - 1)
            b == SubSeq(h, k + 1, Len(h))
<1>5. RemoveAt(h, k) = a \o b BY DEF RemoveAt
<1>. HIDE DEF a, b
<1>9. /\ a \in Seq(Entries) /\ Len(a) = k - 1
      /\ b \in Seq(Entries) /\ Len(b) = Len(h) - k
      /\ \A i \in 1..(k - 1) : a[i] = h[i]
      /\ \A i \in 1..(Len(h) - k) : b[i] = h[k + i]
  BY <1>2, <1>3 DEF a, b
<1>6. /\ a \o b \in Seq(Entries) /\ Len(a \o b) = Len(h) - 1
      /\ \A i \in 1..(Len(h) - 1) :
           (a \o b)[i] = IF i <= k - 1 THEN a[i] ELSE b[i - (k - 1)]
  <2>1. Len(a) + Len(b) = Len(h) - 1 BY <1>1, <1>9
  <2>2. /\ a \o b \in Seq(Entries) /\ Len(a \o b) = Len(a) + Len(b)
        /\ \A i \in 1..(Len(a) + Len(b)) :
             (a \o b)[i] = IF i <= Len(a) THEN a[i] ELSE b[i - Len(a)]
    BY <1>4, <1>9
  <2>. QED BY <2>1, <2>2, <1>9
<1>7. \A i \in 1..(Len(h) - 1) : ~(i <= k - 1) => i - (k - 1) \in 1..(Len(h) - k)
                                  /\ k + (i - (k - 1)) = i + 1
  BY <1>1
<1>8. \A i \in 1..(Len(h) - 1) : i <= k - 1 <=> i < k BY <1>1
<1>10. ASSUME NEW i \in 1..(Len(h) - 1)
       PROVE  (a \o b)[i] = IF i < k THEN h[i] ELSE h[i + 1]
  <2>1. CASE i < k
    <3>1. i \in 1..(k - 1) /\ i <= k - 1 BY <1>1, <2>1
    <3>2. (a \o b)[i] = a[i] BY <1>6, <3>1
    <3>. QED BY <1>9, <2>1, <3>1, <3>2
  <2>2. CASE ~(i < k) BY <1>1, <1>6, <1>7, <1>8, <1>9, <2>2
  <2>. QED BY <2>1, <2>2
<1>. QED BY <1>5, <1>6, <1>10

\* A is followed by B somewhere in h.
Before(a, b, h) == \E i \in DOMAIN h : \E j \in DOMAIN h : i < j /\ h[i] = a /\ h[j] = b

LEMMA Spliced ==
  ASSUME NEW h \in Seq(Entries), NEW half
  PROVE  /\ Splice(h, half) \in Seq(Entries)
         /\ \A e \in Range(h) : e # SaidBy(half) => e \in Range(Splice(h, half))
         /\ \A a, b : a # SaidBy(half) /\ b # SaidBy(half) /\ Before(a, b, h)
                         => Before(a, b, Splice(h, half))
<1>. DEFINE at == {i \in DOMAIN h : h[i] = SaidBy(half)}
<1>1. CASE at = {} BY <1>1 DEF Splice
<1>2. CASE at # {}
  <2>. DEFINE k == Max(at)
              r == RemoveAt(h, k)
  <2>1. Splice(h, half) = r BY <1>2 DEF Splice
  <2>2. k \in at
    <3>1. at \in SUBSET (1..Len(h)) /\ Len(h) \in Nat OBVIOUS
    <3>. HIDE DEF at
    <3>. QED BY <1>2, <3>1, GreatestIndex
  <2>3. k \in 1..Len(h) /\ h[k] = SaidBy(half) BY <2>2
  <2>. HIDE DEF k
  <2>4. /\ r \in Seq(Entries) /\ Len(r) = Len(h) - 1
        /\ \A i \in 1..(Len(h) - 1) : r[i] = IF i < k THEN h[i] ELSE h[i + 1]
    BY <2>3, OneOut
  <2>. HIDE DEF r
  <2>. DEFINE To(i) == IF i < k THEN i ELSE i - 1
  <2>5. \A i \in 1..Len(h) : i # k => To(i) \in 1..(Len(h) - 1) /\ r[To(i)] = h[i]
    BY <2>3, <2>4
  <2>6. \A i, j \in 1..Len(h) : i # k /\ j # k /\ i < j => To(i) < To(j) BY <2>3
  <2>7. DOMAIN r = 1..(Len(h) - 1) /\ DOMAIN h = 1..Len(h) BY <2>4
  <2>. HIDE DEF To
  <2>8. \A e \in Range(h) : e # SaidBy(half) => e \in Range(r)
    BY <2>3, <2>5, <2>7 DEF Range
  <2>9. ASSUME NEW a, NEW b, a # SaidBy(half), b # SaidBy(half), Before(a, b, h)
        PROVE  Before(a, b, r)
    BY <2>3, <2>5, <2>6, <2>7, <2>9 DEF Before
  <2>. QED BY <2>1, <2>4, <2>8, <2>9
<1>. QED BY <1>1, <1>2

\* One more entry leaves those before it.
LEMMA Longer ==
  ASSUME NEW h \in Seq(Entries), NEW e \in Entries
  PROVE  /\ Append(h, e) \in Seq(Entries)
         /\ Range(h) \subseteq Range(Append(h, e)) /\ e \in Range(Append(h, e))
         /\ \A a, b : Before(a, b, h) => Before(a, b, Append(h, e))
         /\ \A a \in Range(h) : Before(a, e, Append(h, e))
<1>1. /\ DOMAIN h = 1..Len(h) /\ DOMAIN Append(h, e) = 1..(Len(h) + 1) /\ Len(h) \in Nat
      /\ \A i \in 1..Len(h) : Append(h, e)[i] = h[i]
      /\ Append(h, e)[Len(h) + 1] = e
  OBVIOUS
<1>2. Append(h, e) \in Seq(Entries) OBVIOUS
<1>. QED BY <1>1, <1>2 DEF Range, Before

\* What runTurn is given: all that follows some words of the visitor is in it.
LEMMA PriorKeeps ==
  ASSUME NEW h \in Seq(Entries)
  PROVE  /\ FromVisitor(h) \in Seq(Entries)
         /\ \A u, b : Before(SaidBy(u), b, h) => b \in Range(FromVisitor(h))
<1>. DEFINE said == {i \in DOMAIN h : h[i].by = "visitor"}
<1>0. DOMAIN h = 1..Len(h) /\ Len(h) \in Nat OBVIOUS
<1>1. CASE said = {}
  <2>1. ASSUME NEW u, NEW b, Before(SaidBy(u), b, h) PROVE FALSE
    BY <1>1, <2>1 DEF Before, SaidBy
  <2>. QED BY <1>1, <2>1 DEF FromVisitor
<1>2. CASE said # {}
  <2>. DEFINE m == Min(said)
              p == SubSeq(h, m, Len(h))
  <2>1. FromVisitor(h) = p BY <1>2 DEF FromVisitor
  <2>2. m \in said /\ \A i \in said : m <= i
    <3>1. said \in SUBSET Nat BY <1>0
    <3>. HIDE DEF said
    <3>. QED BY <1>2, <3>1, LeastIndex
  <2>3. m \in 1..Len(h) BY <1>0, <2>2
  <2>. HIDE DEF m
  <2>4. /\ p \in Seq(Entries) /\ DOMAIN p = 1..(Len(h) - m + 1)
        /\ \A i \in 1..(Len(h) - m + 1) : p[i] = h[m + i - 1]
    BY <2>3
  <2>. HIDE DEF p
  <2>5. ASSUME NEW u, NEW b, Before(SaidBy(u), b, h) PROVE b \in Range(p)
    <3>1. PICK i \in DOMAIN h, j \in DOMAIN h : i < j /\ h[i] = SaidBy(u) /\ h[j] = b
      BY <2>5 DEF Before
    <3>2. i \in said BY <3>1 DEF SaidBy
    <3>3. m <= j /\ j \in 1..Len(h) BY <1>0, <2>2, <2>3, <3>1, <3>2
    <3>4. j - m + 1 \in DOMAIN p /\ p[j - m + 1] = b BY <2>3, <2>4, <3>1, <3>3
    <3>. QED BY <3>4 DEF Range
  <2>. QED BY <2>1, <2>4, <2>5
<1>. QED BY <1>1, <1>2

-------------------------------------------------------------------------------
(* The invariant *)

Begun(u) == turn[u].pc \notin {"new", "waiting"}
Past(u)  == turn[u].pc \in {"running", "acting", "finished"}    \* its loads are done

\* A turn that has not begun has done nothing; utterances are handled in their order.
NotBegun ==
  \A u \in Utterances :
    /\ turn[u].pc = "new" <=> u > arrived
    /\ ~Begun(u) => /\ turn[u].text = <<>> /\ turn[u].half = 0 /\ ~turn[u].woken
                    /\ ~turn[u].acted /\ ~turn[u].noted /\ ~turn[u].silenced

\* A withdrawn turn had done nothing when it was withdrawn, and is never in charge again.
HalvesOut ==
  /\ current # 0 => Begun(current)
  /\ \A u \in Utterances : turn[u].half # 0 =>
       LET half == turn[u].half IN Begun(half) /\ half # current /\ ~turn[half].acted

\* Who added a product is remembered as long as the product.
AddsRemembered ==
  \A sku \in Skus : adds[sku] # <<>> =>
    sku \in recentCartAdds /\ \A i \in DOMAIN adds[sku] : Begun(adds[sku][i])

\* Only an interrupted turn in charge still depends on the flag.
FlagMeans == aborted \/ \A u \in Utterances : turn[u].silenced => u # current

\* A pending call is the last one of the turn that awaits it.
CallsAwaited == \A c \in pending : turn[c[1]].pc = "acting" /\ c[2] = turn[c[1]].calls

\* Who awaits a call has acted.
ActingActed == \A u \in Utterances : turn[u].pc = "acting" => turn[u].acted

\* A turn that did something has its words in the history, and its note after them.
DoneAfterSaid ==
  \A u \in Utterances :
    /\ turn[u].noted => turn[u].acted
    /\ turn[u].acted => Past(u)
    /\ Past(u) => SaidBy(u) \in Range(voiceHistory) \/ u \in Withdrawn
    /\ turn[u].noted /\ turn[u].pc = "finished" => Before(SaidBy(u), DoneBy(u), voiceHistory)

\* A turn that waits knows for whom; it is woken by that turn's end.
WaitsForOne ==
  \A u \in Utterances :
    /\ turn[u].pc = "waiting" => turn[u].follows # 0
    /\ turn[u].woken => turn[u].follows # 0 /\ turn[turn[u].follows].pc = "finished"

Parts ==
  /\ NotBegun /\ HalvesOut /\ AddsRemembered /\ FlagMeans /\ CallsAwaited
  /\ ActingActed /\ DoneAfterSaid /\ WaitsForOne
  /\ NoDoubleAdd /\ WordsKept /\ FollowUpIsTold

BridgeInv == TypeOK /\ Parts

-------------------------------------------------------------------------------
(* What the steps do to a turn *)

LEMMA Limits ==
  /\ LastUtterance \in Nat /\ MaxCalls \in Nat /\ MaxEvents \in Nat
  /\ Utterances = 1..LastUtterance /\ 0..LastUtterance = Utterances \cup {0} /\ 0 \notin Utterances
BY VoiceBridgeAssumption DEF VoiceBridgeAssumption, Utterances

LEMMA EntryTypes ==
  /\ \A u \in Utterances : SaidBy(u) \in Entries /\ DoneBy(u) \in Entries
  /\ VoiceSaid \in Entries
  /\ \A u, v : SaidBy(u) = SaidBy(v) <=> u = v
  /\ \A u, v : DoneBy(u) # SaidBy(v)
BY Limits DEF SaidBy, DoneBy, VoiceSaid, Entries

LEMMA TurnOf ==
  ASSUME turn \in [Utterances -> Turn], NEW u \in Utterances
  PROVE  /\ turn[u] \in Turn /\ turn[u].pc \in Labels /\ turn[u].text \in Seq(Utterances)
         /\ turn[u].half \in 0..LastUtterance /\ turn[u].follows \in 0..LastUtterance
         /\ turn[u].woken \in BOOLEAN /\ turn[u].prior \in Seq(Entries)
         /\ turn[u].acted \in BOOLEAN /\ turn[u].action \in Actions \cup {NoAction}
         /\ turn[u].noted \in BOOLEAN /\ turn[u].calls \in 0..MaxCalls
         /\ turn[u].routed \in 0..MaxEvents /\ turn[u].silenced \in BOOLEAN
<1>1. turn[u] \in Turn OBVIOUS
<1>. QED BY <1>1 DEF Turn

LEMMA Update ==
  ASSUME turn \in [Utterances -> Turn], NEW u \in Utterances, NEW n \in Turn,
         turn' = [turn EXCEPT ![u] = n]
  PROVE  /\ turn' \in [Utterances -> Turn] /\ turn'[u] = n
         /\ \A v \in Utterances : v # u => turn'[v] = turn[v]
OBVIOUS

\* No other turn changes.
Others(u) == \A v \in Utterances : v # u => turn'[v] = turn[v]

LEMMA TakeChargeDoes ==
  ASSUME TypeOK, NEW u \in Utterances, NEW continues \in BOOLEAN, NEW done \in BOOLEAN,
         TakeCharge(u, continues, done)
  PROVE  LET half == HalfOf(continues) IN
         /\ turn' \in [Utterances -> Turn] /\ Others(u)
         /\ half \in 0..LastUtterance
         /\ half # 0 => half = current /\ half \in Utterances /\ ~turn[half].acted
         /\ turn'[u].pc = "loading" /\ turn'[u].half = half /\ turn'[u].woken = done
         /\ u \in Range(turn'[u].text)
         /\ half # 0 => Range(turn[half].text) \subseteq Range(turn'[u].text)
         /\ turn'[u].follows = turn[u].follows /\ turn'[u].acted = turn[u].acted
         /\ turn'[u].noted = turn[u].noted /\ turn'[u].calls = turn[u].calls
         /\ turn'[u].silenced = turn[u].silenced /\ turn'[u].routed = turn[u].routed
         /\ voiceHistory' \in Seq(Entries)
         /\ \A e \in Range(voiceHistory) : half = 0 \/ e # SaidBy(half) => e \in Range(voiceHistory')
         /\ \A a, b : /\ half = 0 \/ (a # SaidBy(half) /\ b # SaidBy(half))
                      /\ Before(a, b, voiceHistory)
                      => Before(a, b, voiceHistory')
         /\ current' = u /\ aborted' = FALSE
<1>. DEFINE half == HalfOf(continues)
            text == MergedText(half, u)
            new == [turn[u] EXCEPT !.pc = "loading", !.text = text, !.half = half, !.woken = done]
<1>0. turn \in [Utterances -> Turn] /\ voiceHistory \in Seq(Entries) /\ current \in 0..LastUtterance
  BY DEF TypeOK
<1>1. half \in 0..LastUtterance /\ (half # 0 => half = current /\ half \in Utterances /\ ~turn[half].acted)
  BY <1>0, Limits DEF HalfOf
<1>2. turn' = [turn EXCEPT ![u] = new] /\ current' = u /\ aborted' = FALSE
      /\ voiceHistory' = IF half = 0 THEN voiceHistory ELSE Splice(voiceHistory, half)
  BY DEF TakeCharge
<1>. HIDE DEF half
<1>3. /\ text \in Seq(Utterances) /\ u \in Range(text)
      /\ half # 0 => Range(turn[half].text) \subseteq Range(text)
  <2>1. CASE half = 0
    <3>1. text = <<u>> BY <2>1 DEF MergedText
    <3>2. <<u>> \in Seq(Utterances) /\ DOMAIN <<u>> = {1} /\ <<u>>[1] = u OBVIOUS
    <3>. HIDE DEF text
    <3>. QED BY <2>1, <3>1, <3>2 DEF Range
  <2>2. CASE half # 0
    <3>1. text = Append(turn[half].text, u) BY <2>2 DEF MergedText
    <3>2. turn[half].text \in Seq(Utterances) BY <1>0, <1>1, <2>2, TurnOf
    <3>. DEFINE first == turn[half].text
    <3>3. /\ DOMAIN first = 1..Len(first) /\ Len(first) \in Nat
          /\ DOMAIN Append(first, u) = 1..(Len(first) + 1)
          /\ \A i \in 1..Len(first) : Append(first, u)[i] = first[i]
          /\ Append(first, u)[Len(first) + 1] = u
          /\ Append(first, u) \in Seq(Utterances)
      BY <3>2
    <3>. HIDE DEF first
    <3>4. Range(first) \subseteq Range(Append(first, u)) /\ u \in Range(Append(first, u))
      BY <3>3 DEF Range
    <3>. QED BY <3>1, <3>3, <3>4 DEF first
  <2>. QED BY <2>1, <2>2
<1>. HIDE DEF text
<1>4. new \in Turn
  <2>1. turn[u] \in Turn BY <1>0
  <2>. QED BY <1>1, <1>3, <2>1 DEF Turn, Labels
<1>5. /\ new.pc = "loading" /\ new.half = half /\ new.woken = done /\ new.text = text
      /\ new.follows = turn[u].follows /\ new.acted = turn[u].acted
      /\ new.noted = turn[u].noted /\ new.calls = turn[u].calls
      /\ new.silenced = turn[u].silenced /\ new.routed = turn[u].routed
  <2>1. turn[u] \in Turn BY <1>0
  <2>. QED BY <2>1 DEF Turn
<1>. HIDE DEF new
<1>6. turn' \in [Utterances -> Turn] /\ turn'[u] = new /\ Others(u)
  BY <1>0, <1>2, <1>4, Update DEF Others
<1>7. /\ voiceHistory' \in Seq(Entries)
      /\ \A e \in Range(voiceHistory) : half = 0 \/ e # SaidBy(half) => e \in Range(voiceHistory')
      /\ \A a, b : /\ half = 0 \/ (a # SaidBy(half) /\ b # SaidBy(half))
                   /\ Before(a, b, voiceHistory)
                   => Before(a, b, voiceHistory')
  <2>1. CASE half = 0 BY <1>0, <1>2, <2>1
  <2>2. CASE half # 0 BY <1>0, <1>2, <2>2, Spliced
  <2>. QED BY <2>1, <2>2
<1>. QED BY <1>1, <1>2, <1>3, <1>5, <1>6, <1>7 DEF half

-------------------------------------------------------------------------------
(* A turn takes charge *)

LEMMA TakeChargeKeeps ==
  ASSUME BridgeInv, NEW u \in Utterances, NEW continues \in BOOLEAN, NEW done \in BOOLEAN,
         TakeCharge(u, continues, done), ~Begun(u),
         arrived' \in 0..LastUtterance,
         \A v \in Utterances : v > arrived' <=> v > arrived /\ v # u,
         done => turn[u].follows # 0 /\ turn[turn[u].follows].pc = "finished",
         UNCHANGED <<pending, recentCartAdds, adds>>
  PROVE  BridgeInv'
<1>0. TypeOK /\ Parts /\ turn \in [Utterances -> Turn] BY DEF BridgeInv, TypeOK
<1>. PICK half \in 0..LastUtterance : half = HalfOf(continues) BY ZenonT(30), <1>0, TakeChargeDoes
<1>1. /\ turn' \in [Utterances -> Turn] /\ Others(u)
      /\ half \in 0..LastUtterance
      /\ half # 0 => half = current /\ half \in Utterances /\ ~turn[half].acted
      /\ turn'[u].pc = "loading" /\ turn'[u].half = half /\ turn'[u].woken = done
      /\ u \in Range(turn'[u].text)
      /\ half # 0 => Range(turn[half].text) \subseteq Range(turn'[u].text)
      /\ turn'[u].follows = turn[u].follows /\ turn'[u].acted = turn[u].acted
      /\ turn'[u].noted = turn[u].noted /\ turn'[u].calls = turn[u].calls
      /\ turn'[u].silenced = turn[u].silenced
      /\ current' = u /\ aborted' = FALSE
  BY ZenonT(30), <1>0, TakeChargeDoes
<1>2. /\ voiceHistory' \in Seq(Entries)
      /\ \A e \in Range(voiceHistory) : half = 0 \/ e # SaidBy(half) => e \in Range(voiceHistory')
      /\ \A a, b : /\ half = 0 \/ (a # SaidBy(half) /\ b # SaidBy(half))
                   /\ Before(a, b, voiceHistory)
                   => Before(a, b, voiceHistory')
  BY ZenonT(30), <1>0, TakeChargeDoes
<1>3. \A v \in Utterances : turn[v].half \in Utterances \cup {0} /\ turn[v].follows \in Utterances \cup {0}
  BY <1>0, Limits, TurnOf
<1>4. half # 0 => Begun(half) /\ half # u BY <1>0, <1>1 DEF Parts, HalvesOut
<1>5. turn[u].text = <<>> /\ turn[u].half = 0 /\ ~turn[u].woken /\ ~turn[u].acted /\ ~turn[u].noted
      /\ ~turn[u].silenced
  BY <1>0 DEF Parts, NotBegun
<1>6. \A v \in Utterances : Begun(v) => v # u /\ turn'[v] = turn[v] /\ Begun(v)'
  BY <1>1 DEF Begun, Others
<1>7. TypeOK' BY <1>0, <1>1, <1>2, Limits DEF TypeOK
<1>8. NotBegun' BY <1>0, <1>1 DEF Parts, NotBegun, Begun, Others
<1>9. HalvesOut'
  <2>1. (current # 0 => Begun(current))' BY <1>1 DEF Begun
  <2>2. ASSUME NEW v \in Utterances, (turn[v].half # 0)'
        PROVE  (LET h == turn[v].half IN Begun(h) /\ h # current /\ ~turn[h].acted)'
    <3>1. CASE v = u BY <1>1, <1>4, <1>6, <2>2, <3>1
    <3>2. CASE v # u
      <4>. PICK h \in Utterances : turn[v].half = h BY <1>1, <1>3, <2>2, <3>2 DEF Others
      <4>1. turn'[v].half = h BY <1>1, <3>2 DEF Others
      <4>2. Begun(h) /\ ~turn[h].acted BY <1>0, <2>2, <4>1, <3>2 DEF Parts, HalvesOut
      <4>3. h # u /\ turn'[h] = turn[h] /\ Begun(h)' BY <1>6, <4>1, <4>2
      <4>. QED BY <1>1, <4>1, <4>2, <4>3
    <3>. QED BY <3>1, <3>2
  <2>. QED BY <2>1, <2>2 DEF HalvesOut
<1>10. \A sku \in Skus : \A i \in DOMAIN adds[sku] : adds[sku][i] \in Utterances
  BY <1>0 DEF TypeOK
<1>11. AddsRemembered' /\ NoDoubleAdd'
  <2>1. ASSUME NEW sku \in Skus, NEW i \in DOMAIN adds[sku]
        PROVE  Begun(adds[sku][i]) /\ Begun(adds[sku][i])' /\ turn'[adds[sku][i]] = turn[adds[sku][i]]
    <3>1. adds[sku] # <<>> BY <1>0, <2>1 DEF TypeOK
    <3>. QED BY <1>0, <1>6, <1>10, <3>1 DEF Parts, AddsRemembered
  <2>2. AddsRemembered' BY <1>0, <2>1 DEF Parts, AddsRemembered
  <2>3. \A sku \in Skus : \A i \in 2..Len(adds[sku]) : i \in DOMAIN adds[sku]
    BY <1>0 DEF TypeOK
  <2>4. NoDoubleAdd' BY <1>0, <2>1, <2>3 DEF Parts, NoDoubleAdd
  <2>. QED BY <2>2, <2>4
<1>12. FlagMeans' BY <1>1, <1>5 DEF FlagMeans
<1>13. CallsAwaited'
  <2>1. \A c \in pending : c[1] \in Utterances BY <1>0 DEF TypeOK
  <2>. QED BY <1>0, <1>6, <2>1 DEF Parts, CallsAwaited, Begun
<1>18. ActingActed' BY <1>0, <1>1 DEF Parts, ActingActed, Others
<1>14. DoneAfterSaid'
  <2>1. \A w \in Withdrawn : (w \in Withdrawn)'
    <3>. TAKE w \in Withdrawn
    <3>1. PICK v \in Utterances : w = turn[v].half /\ w # 0 BY DEF Withdrawn
    <3>2. turn'[v] = turn[v] BY <1>1, <1>5, <3>1 DEF Others
    <3>. QED BY <3>1, <3>2 DEF Withdrawn
  <2>2. half # 0 => (half \in Withdrawn)' BY <1>1 DEF Withdrawn
  <2>3. ASSUME NEW v \in Utterances
        PROVE  /\ (turn[v].noted => turn[v].acted)'
               /\ (turn[v].acted => Past(v))'
               /\ (Past(v) => SaidBy(v) \in Range(voiceHistory) \/ v \in Withdrawn)'
               /\ (turn[v].noted /\ turn[v].pc = "finished"
                     => Before(SaidBy(v), DoneBy(v), voiceHistory))'
    <3>1. CASE v = u BY <1>1, <1>5, <3>1 DEF Past
    <3>2. CASE v # u
      <4>1. turn'[v] = turn[v] BY <1>1, <3>2 DEF Others
      <4>2. /\ turn[v].noted => turn[v].acted
            /\ turn[v].acted => Past(v)
            /\ Past(v) => SaidBy(v) \in Range(voiceHistory) \/ v \in Withdrawn
            /\ turn[v].noted /\ turn[v].pc = "finished" => Before(SaidBy(v), DoneBy(v), voiceHistory)
        BY <1>0 DEF Parts, DoneAfterSaid
      <4>3. SaidBy(v)' = SaidBy(v) /\ DoneBy(v)' = DoneBy(v) BY DEF SaidBy, DoneBy
      <4>4. ASSUME SaidBy(v) \in Range(voiceHistory) PROVE (SaidBy(v) \in Range(voiceHistory) \/ v \in Withdrawn)'
        BY <1>2, <2>2, <4>3, <4>4, EntryTypes
      <4>5. ASSUME turn[v].noted, turn[v].pc = "finished"
            PROVE  Before(SaidBy(v), DoneBy(v), voiceHistory')
        <5>1. half # 0 => v # half BY <1>1, <4>2, <4>5
        <5>. QED BY <1>2, <4>2, <4>5, <5>1, EntryTypes
      <4>. QED BY <2>1, <4>1, <4>2, <4>3, <4>4, <4>5 DEF Past
    <3>. QED BY <3>1, <3>2
  <2>. QED BY <2>3 DEF DoneAfterSaid
<1>15. WaitsForOne'
  <2>1. ASSUME NEW v \in Utterances
        PROVE  /\ (turn[v].pc = "waiting" => turn[v].follows # 0)'
               /\ (turn[v].woken => turn[v].follows # 0 /\ turn[turn[v].follows].pc = "finished")'
    <3>1. \A f \in Utterances : turn[f].pc = "finished" => turn'[f].pc = "finished"
      BY <1>6 DEF Begun
    <3>2. CASE v = u BY <1>1, <1>3, <3>1, <3>2
    <3>3. CASE v # u
      <4>1. turn'[v] = turn[v] BY <1>1, <3>3 DEF Others
      <4>. QED BY <1>0, <1>3, <3>1, <4>1 DEF Parts, WaitsForOne
    <3>. QED BY <3>2, <3>3
  <2>. QED BY <2>1 DEF WaitsForOne
<1>16. WordsKept'
  <2>1. ASSUME NEW v \in Utterances, (turn[v].pc \notin {"new", "waiting"})'
        PROVE  (\E w \in Utterances :
                  /\ v \in Range(turn[w].text)
                  /\ SaidBy(w) \in Range(voiceHistory) \/ turn[w].pc \in {"loading", "failed"})'
    <3>1. CASE v = u BY <1>1, <3>1
    <3>2. CASE v # u
      <4>1. turn'[v] = turn[v] BY <1>1, <3>2 DEF Others
      <4>2. PICK w \in Utterances :
              /\ v \in Range(turn[w].text)
              /\ SaidBy(w) \in Range(voiceHistory) \/ turn[w].pc \in {"loading", "failed"}
        BY <1>0, <2>1, <4>1 DEF Parts, WordsKept
      <4>3. w # u BY <1>5, <4>2 DEF Range
      <4>4. turn'[w] = turn[w] BY <1>1, <4>3 DEF Others
      <4>5. SaidBy(w)' = SaidBy(w) BY DEF SaidBy
      <4>6. CASE half = 0 \/ w # half BY <1>2, <4>2, <4>4, <4>5, <4>6, EntryTypes
      <4>7. CASE half # 0 /\ w = half BY <1>1, <4>2, <4>7
      <4>. QED BY <4>6, <4>7
    <3>. QED BY <3>1, <3>2
  <2>. QED BY <2>1 DEF WordsKept
<1>17. FollowUpIsTold'
  <2>1. \A f \in Utterances : turn[f].pc = "finished" => turn'[f] = turn[f] BY <1>6 DEF Begun
  <2>2. ASSUME NEW v \in Utterances, v # u, turn[v].woken
        PROVE  turn[v].follows \in Utterances /\ turn'[turn[v].follows] = turn[turn[v].follows]
    BY <1>0, <1>3, <2>1, <2>2 DEF Parts, WaitsForOne
  <2>. QED BY <1>0, <1>1, <2>2 DEF Parts, FollowUpIsTold, Others, DoneBy
<1>. QED BY <1>7, <1>8, <1>9, <1>11, <1>12, <1>13, <1>14, <1>15, <1>16, <1>17, <1>18
         DEF BridgeInv, Parts

-------------------------------------------------------------------------------
(* A turn moves on *)

\* What a step of a turn that has begun may do; all but Utter and WakeUp are of this kind.
Move(u) ==
  /\ turn' \in [Utterances -> Turn] /\ Others(u)
  /\ turn'[u].text = turn[u].text /\ turn'[u].half = turn[u].half
  /\ turn'[u].woken = turn[u].woken /\ turn'[u].follows = turn[u].follows
  /\ turn'[u].silenced = turn[u].silenced
  /\ turn[u].pc \in {"loading", "running", "acting"}
  /\ turn'[u].pc \in {"running", "acting", "finished", "failed"}
  /\ UNCHANGED <<arrived, current, aborted>>

\* The history only grows.
Grows ==
  /\ voiceHistory' \in Seq(Entries)
  /\ Range(voiceHistory) \subseteq Range(voiceHistory')
  /\ \A a, b : Before(a, b, voiceHistory) => Before(a, b, voiceHistory')

\* What the step has to see to: what was done is noted, and words go into the history.
Orderly(u) ==
  /\ turn'[u].acted => turn[u].acted \/ u = current
  /\ turn'[u].noted => turn'[u].acted
  /\ turn'[u].acted => Past(u)'
  /\ turn[u].pc = "loading" /\ turn'[u].pc # "failed"
       => SaidBy(u) \in Range(voiceHistory') /\ turn'[u].prior = FromVisitor(voiceHistory)
  /\ turn[u].pc # "loading" => turn'[u].prior = turn[u].prior
  /\ turn'[u].noted /\ turn'[u].pc = "finished" => Before(SaidBy(u), DoneBy(u), voiceHistory')

LEMMA MoveKeeps ==
  ASSUME BridgeInv, NEW u \in Utterances, Move(u), Grows, Orderly(u)
  PROVE  NotBegun' /\ HalvesOut' /\ FlagMeans' /\ DoneAfterSaid' /\ WaitsForOne'
         /\ WordsKept' /\ FollowUpIsTold'
<1>0. TypeOK /\ Parts /\ turn \in [Utterances -> Turn] /\ voiceHistory \in Seq(Entries)
  BY DEF BridgeInv, TypeOK
<1>1. \A v \in Utterances :
        /\ turn'[v].text = turn[v].text /\ turn'[v].half = turn[v].half
        /\ turn'[v].woken = turn[v].woken /\ turn'[v].follows = turn[v].follows
        /\ turn'[v].silenced = turn[v].silenced
        /\ Begun(v)' <=> Begun(v)
        /\ turn'[v].pc = "new" <=> turn[v].pc = "new"
        /\ turn'[v].pc = "waiting" <=> turn[v].pc = "waiting"
        /\ turn[v].pc = "finished" => turn'[v] = turn[v]
  BY DEF Move, Others, Begun
<1>2. \A v \in Utterances : turn[v].half \in Utterances \cup {0} /\ turn[v].follows \in Utterances \cup {0}
  BY <1>0, Limits, TurnOf
<1>3. Begun(u) /\ UNCHANGED <<arrived, current, aborted>> /\ Others(u) BY DEF Move, Begun
<1>4. \A v \in Utterances : (SaidBy(v))' = SaidBy(v) /\ (DoneBy(v))' = DoneBy(v) BY DEF SaidBy, DoneBy
<1>5. NotBegun'
  <2>1. \A v \in Utterances : ~Begun(v) => turn'[v] = turn[v] BY <1>3 DEF Others
  <2>. QED BY <1>0, <1>1, <1>3, <2>1 DEF Parts, NotBegun
<1>6. HalvesOut'
  <2>1. (current # 0 => Begun(current))'
    <3>1. current \in Utterances \cup {0} BY <1>0, Limits DEF TypeOK
    <3>. QED BY <1>0, <1>1, <1>3, <3>1 DEF Parts, HalvesOut
  <2>2. ASSUME NEW v \in Utterances, turn'[v].half # 0
        PROVE  (LET h == turn[v].half IN Begun(h) /\ h # current /\ ~turn[h].acted)'
    <3>. PICK h \in Utterances : turn[v].half = h BY <1>1, <1>2, <2>2
    <3>1. turn'[v].half = h /\ turn[v].half # 0 BY <1>1, <2>2
    <3>2. Begun(h) /\ h # current /\ ~turn[h].acted BY <1>0, <3>1 DEF Parts, HalvesOut
    <3>3. ~turn'[h].acted
      <4>1. CASE h = u BY <3>2, <4>1 DEF Orderly
      <4>2. CASE h # u BY <1>3, <3>2, <4>2 DEF Others
      <4>. QED BY <4>1, <4>2
    <3>. QED BY <1>1, <1>3, <3>1, <3>2, <3>3
  <2>. QED BY <2>1, <2>2 DEF HalvesOut
<1>7. FlagMeans' BY <1>0, <1>1, <1>3 DEF Parts, FlagMeans
<1>8. Withdrawn' = Withdrawn BY <1>1 DEF Withdrawn
<1>9. DoneAfterSaid'
  <2>1. ASSUME NEW v \in Utterances
        PROVE  /\ (turn[v].noted => turn[v].acted)'
               /\ (turn[v].acted => Past(v))'
               /\ (Past(v) => SaidBy(v) \in Range(voiceHistory) \/ v \in Withdrawn)'
               /\ (turn[v].noted /\ turn[v].pc = "finished"
                     => Before(SaidBy(v), DoneBy(v), voiceHistory))'
    <3>1. CASE v = u
      <4>1. Past(v) => SaidBy(v) \in Range(voiceHistory) \/ v \in Withdrawn
        BY <1>0 DEF Parts, DoneAfterSaid
      <4>2. Past(v)' => Past(v) \/ SaidBy(v) \in Range(voiceHistory')
        BY <3>1 DEF Move, Orderly, Past
      <4>. QED BY <1>4, <1>8, <3>1, <4>1, <4>2 DEF Orderly, Grows
    <3>2. CASE v # u
      <4>1. turn'[v] = turn[v] BY <1>3, <3>2 DEF Others
      <4>2. Past(v)' <=> Past(v) BY <4>1 DEF Past
      <4>3. /\ turn[v].noted => turn[v].acted
            /\ turn[v].acted => Past(v)
            /\ Past(v) => SaidBy(v) \in Range(voiceHistory) \/ v \in Withdrawn
            /\ turn[v].noted /\ turn[v].pc = "finished" => Before(SaidBy(v), DoneBy(v), voiceHistory)
        BY <1>0 DEF Parts, DoneAfterSaid
      <4>4. turn[v].noted /\ turn[v].pc = "finished" => Before(SaidBy(v), DoneBy(v), voiceHistory')
        BY <4>3 DEF Grows
      <4>. QED BY <1>4, <1>8, <4>1, <4>2, <4>3, <4>4 DEF Grows
    <3>. QED BY <3>1, <3>2
  <2>. QED BY <2>1 DEF DoneAfterSaid
<1>10. WaitsForOne' BY <1>0, <1>1, <1>2 DEF Parts, WaitsForOne
<1>11. WordsKept'
  <2>1. ASSUME NEW v \in Utterances, turn'[v].pc \notin {"new", "waiting"}
        PROVE  (\E w \in Utterances :
                  /\ v \in Range(turn[w].text)
                  /\ SaidBy(w) \in Range(voiceHistory) \/ turn[w].pc \in {"loading", "failed"})'
    <3>1. turn[v].pc \notin {"new", "waiting"} BY <1>1, <2>1
    <3>2. PICK w \in Utterances :
            /\ v \in Range(turn[w].text)
            /\ SaidBy(w) \in Range(voiceHistory) \/ turn[w].pc \in {"loading", "failed"}
      BY <1>0, <3>1 DEF Parts, WordsKept
    <3>3. SaidBy(w) \in Range(voiceHistory') \/ turn'[w].pc \in {"loading", "failed"}
      <4>1. CASE w = u BY <3>2, <4>1 DEF Move, Orderly, Grows
      <4>2. CASE w # u BY <1>3, <3>2, <4>2 DEF Others, Grows
      <4>. QED BY <4>1, <4>2
    <3>. QED BY <1>1, <1>4, <3>2, <3>3
  <2>. QED BY <2>1 DEF WordsKept
<1>12. FollowUpIsTold'
  <2>1. ASSUME NEW v \in Utterances, turn'[v].woken,
               turn'[v].pc \notin {"waiting", "loading", "failed"}
        PROVE  (turn[turn[v].follows].noted => DoneBy(turn[v].follows) \in Range(turn[v].prior))'
    <3>. PICK f \in Utterances : turn[v].follows = f /\ turn[f].pc = "finished"
      BY <1>0, <1>1, <1>2, <2>1 DEF Parts, WaitsForOne
    <3>1. turn'[v].follows = f /\ turn'[f] = turn[f] BY <1>1
    <3>2. ASSUME turn[f].noted PROVE DoneBy(f) \in Range(turn'[v].prior)
      <4>1. CASE v = u /\ turn[u].pc = "loading"
        <5>1. Before(SaidBy(f), DoneBy(f), voiceHistory) BY <1>0, <3>2 DEF Parts, DoneAfterSaid
        <5>2. turn'[v].prior = FromVisitor(voiceHistory) BY <2>1, <4>1 DEF Orderly
        <5>. QED BY <1>0, <5>1, <5>2, PriorKeeps
      <4>2. CASE ~(v = u /\ turn[u].pc = "loading")
        <5>1. turn'[v].prior = turn[v].prior BY <1>3, <4>2 DEF Orderly, Others
        <5>2. turn[v].pc \notin {"waiting", "loading", "failed"}
          BY <1>3, <2>1, <4>2 DEF Others, Move
        <5>3. turn[v].woken BY <1>1, <2>1
        <5>. QED BY <1>0, <3>2, <5>1, <5>2, <5>3 DEF Parts, FollowUpIsTold
      <4>. QED BY <4>1, <4>2
    <3>. QED BY <1>4, <3>1, <3>2
  <2>. QED BY <2>1 DEF FollowUpIsTold
<1>. QED BY <1>5, <1>6, <1>7, <1>9, <1>10, <1>11, <1>12

\* Adds stay accounted for while nothing is added.
LEMMA AddsStay ==
  ASSUME TypeOK, AddsRemembered, NoDoubleAdd, UNCHANGED <<recentCartAdds, adds>>,
         \A v \in Utterances : Begun(v) => Begun(v)' /\ turn'[v].text = turn[v].text
  PROVE  AddsRemembered' /\ NoDoubleAdd'
<1>1. \A sku \in Skus : DOMAIN adds[sku] = 1..Len(adds[sku]) /\ \A i \in DOMAIN adds[sku] : adds[sku][i] \in Utterances
  BY DEF TypeOK
<1>2. ASSUME NEW sku \in Skus, NEW i \in DOMAIN adds[sku]
      PROVE  Begun(adds[sku][i])' /\ turn'[adds[sku][i]].text = turn[adds[sku][i]].text
  <2>1. adds[sku] # <<>> BY <1>1, <1>2
  <2>. QED BY <1>1, <2>1 DEF AddsRemembered
<1>3. AddsRemembered' BY <1>2 DEF AddsRemembered
<1>4. \A sku \in Skus : \A i \in 2..Len(adds[sku]) : i \in DOMAIN adds[sku] BY <1>1
<1>5. NoDoubleAdd' BY <1>2, <1>4 DEF NoDoubleAdd
<1>. QED BY <1>3, <1>5

\* Calls stay awaited while nobody who awaits one moves.
LEMMA CallsStay ==
  ASSUME TypeOK, CallsAwaited, UNCHANGED pending,
         \A v \in Utterances : turn[v].pc = "acting" => turn'[v].pc = "acting" /\ turn'[v].calls = turn[v].calls
  PROVE  CallsAwaited'
<1>1. \A c \in pending : c[1] \in Utterances BY DEF TypeOK
<1>. QED BY <1>1 DEF CallsAwaited

-------------------------------------------------------------------------------
(* The steps of a turn *)

LEMMA Same ==
  ASSUME voiceHistory \in Seq(Entries), UNCHANGED voiceHistory
  PROVE  Grows
BY DEF Grows

\* A step that only moves a turn on: pages and adds are left alone.
LEMMA QuietMove ==
  ASSUME BridgeInv, NEW u \in Utterances, Move(u), Grows, Orderly(u), turn[u].pc # "acting", turn'[u].pc # "acting",
         UNCHANGED <<pending, recentCartAdds, adds>>
  PROVE  BridgeInv'
<1>0. TypeOK /\ Parts BY DEF BridgeInv
<1>1. TypeOK' BY <1>0 DEF TypeOK, Move, Grows
<1>2. AddsRemembered' /\ NoDoubleAdd'
  <2>1. \A v \in Utterances : Begun(v) => Begun(v)' /\ turn'[v].text = turn[v].text
    BY DEF Move, Others, Begun
  <2>. QED BY <1>0, <2>1, AddsStay DEF Parts
<1>3. CallsAwaited'
  <2>1. \A v \in Utterances : turn[v].pc = "acting" => turn'[v] = turn[v] BY DEF Move, Others
  <2>. QED BY <1>0, <2>1, CallsStay DEF Parts
<1>4. ActingActed' BY <1>0 DEF Parts, ActingActed, Move, Others
<1>. QED BY <1>1, <1>2, <1>3, <1>4, MoveKeeps DEF BridgeInv, Parts

\* What is known of a turn that is loading or running.
LEMMA Busy ==
  ASSUME BridgeInv, NEW u \in Utterances
  PROVE  /\ turn[u] \in Turn /\ turn \in [Utterances -> Turn] /\ voiceHistory \in Seq(Entries)
         /\ turn[u].noted => turn[u].acted
         /\ turn[u].acted => Past(u)
         /\ Past(u) => SaidBy(u) \in Range(voiceHistory) \/ u \in Withdrawn
         /\ u \in Withdrawn => ~turn[u].acted
<1>0. TypeOK /\ Parts BY DEF BridgeInv
<1>1. u \in Withdrawn => ~turn[u].acted BY <1>0 DEF Parts, HalvesOut, Withdrawn
<1>. QED BY <1>0, <1>1 DEF TypeOK, Parts, DoneAfterSaid

LEMMA LoadedKeeps == ASSUME BridgeInv, NEW u \in Utterances, Loaded(u) PROVE BridgeInv'
<1>. DEFINE prior == FromVisitor(voiceHistory)
            new == [turn[u] EXCEPT !.pc = "running", !.prior = prior]
<1>0. turn[u] \in Turn /\ turn \in [Utterances -> Turn] /\ voiceHistory \in Seq(Entries)
      /\ (turn[u].noted => turn[u].acted) /\ (turn[u].acted => Past(u))
  BY Busy
<1>1. /\ turn[u].pc = "loading" /\ turn' = [turn EXCEPT ![u] = new]
      /\ voiceHistory' = Append(voiceHistory, SaidBy(u))
      /\ UNCHANGED <<arrived, current, aborted, pending, recentCartAdds, adds>>
  BY DEF Loaded
<1>2. prior \in Seq(Entries) BY <1>0, PriorKeeps
<1>. HIDE DEF prior
<1>3. /\ new \in Turn /\ new.pc = "running" /\ new.prior = prior /\ new.text = turn[u].text
      /\ new.half = turn[u].half /\ new.woken = turn[u].woken /\ new.follows = turn[u].follows
      /\ new.silenced = turn[u].silenced /\ new.acted = turn[u].acted /\ new.noted = turn[u].noted
  BY <1>0, <1>2 DEF Turn, Labels
<1>. HIDE DEF new
<1>4. turn' \in [Utterances -> Turn] /\ turn'[u] = new /\ Others(u)
  BY <1>0, <1>1, <1>3, Update DEF Others
<1>5. Move(u) BY <1>1, <1>3, <1>4 DEF Move
<1>6. Grows /\ SaidBy(u) \in Range(voiceHistory') BY <1>0, <1>1, EntryTypes, Longer DEF Grows
<1>7. Orderly(u) BY <1>0, <1>1, <1>3, <1>4, <1>6 DEF Orderly, Past, prior
<1>. QED BY <1>1, <1>3, <1>4, <1>5, <1>6, <1>7, QuietMove

LEMMA LoadFailsKeeps == ASSUME BridgeInv, NEW u \in Utterances, LoadFails(u) PROVE BridgeInv'
<1>. DEFINE new == [turn[u] EXCEPT !.pc = "failed"]
<1>0. turn[u] \in Turn /\ turn \in [Utterances -> Turn] /\ voiceHistory \in Seq(Entries)
      /\ (turn[u].noted => turn[u].acted) /\ (turn[u].acted => Past(u))
  BY Busy
<1>1. /\ turn[u].pc = "loading" /\ turn' = [turn EXCEPT ![u] = new] /\ UNCHANGED voiceHistory
      /\ UNCHANGED <<arrived, current, aborted, pending, recentCartAdds, adds>>
  BY DEF LoadFails
<1>2. /\ new \in Turn /\ new.pc = "failed" /\ new.prior = turn[u].prior /\ new.text = turn[u].text
      /\ new.half = turn[u].half /\ new.woken = turn[u].woken /\ new.follows = turn[u].follows
      /\ new.silenced = turn[u].silenced /\ new.acted = turn[u].acted /\ new.noted = turn[u].noted
  BY <1>0 DEF Turn, Labels
<1>. HIDE DEF new
<1>3. turn' \in [Utterances -> Turn] /\ turn'[u] = new /\ Others(u)
  BY <1>0, <1>1, <1>2, Update DEF Others
<1>4. Move(u) BY <1>1, <1>2, <1>3 DEF Move
<1>5. Orderly(u) BY <1>0, <1>1, <1>2, <1>3 DEF Orderly, Past
<1>. QED BY <1>0, <1>1, <1>2, <1>3, <1>4, <1>5, Same, QuietMove

LEMMA RouteEventKeeps == ASSUME BridgeInv, NEW u \in Utterances, RouteEvent(u) PROVE BridgeInv'
<1>. DEFINE new == [turn[u] EXCEPT !.routed = @ + 1]
<1>0. turn[u] \in Turn /\ turn \in [Utterances -> Turn] /\ voiceHistory \in Seq(Entries)
      /\ (turn[u].noted => turn[u].acted)
  BY Busy
<1>1. /\ turn[u].pc = "running" /\ turn[u].routed < MaxEvents
      /\ turn' = [turn EXCEPT ![u] = new] /\ UNCHANGED voiceHistory
      /\ UNCHANGED <<arrived, current, aborted, pending, recentCartAdds, adds>>
  BY DEF RouteEvent
<1>2. turn[u].routed + 1 \in 0..MaxEvents BY <1>0, <1>1, TurnOf, Limits
<1>3. /\ new \in Turn /\ new.pc = "running" /\ new.prior = turn[u].prior /\ new.text = turn[u].text
      /\ new.half = turn[u].half /\ new.woken = turn[u].woken /\ new.follows = turn[u].follows
      /\ new.silenced = turn[u].silenced /\ new.acted = turn[u].acted /\ new.noted = turn[u].noted
  BY <1>0, <1>1, <1>2 DEF Turn, Labels
<1>. HIDE DEF new
<1>4. turn' \in [Utterances -> Turn] /\ turn'[u] = new /\ Others(u)
  BY <1>0, <1>1, <1>3, Update DEF Others
<1>5. Move(u) BY <1>1, <1>3, <1>4 DEF Move
<1>6. Orderly(u) BY <1>0, <1>1, <1>3, <1>4 DEF Orderly, Past
<1>. QED BY <1>0, <1>1, <1>3, <1>4, <1>5, <1>6, Same, QuietMove

LEMMA TurnOverKeeps == ASSUME BridgeInv, NEW u \in Utterances, TurnOver(u) PROVE BridgeInv'
<1>. DEFINE new == [turn[u] EXCEPT !.pc = "finished"]
<1>0. /\ turn[u] \in Turn /\ turn \in [Utterances -> Turn] /\ voiceHistory \in Seq(Entries)
      /\ turn[u].noted => turn[u].acted
      /\ Past(u) => SaidBy(u) \in Range(voiceHistory) \/ u \in Withdrawn
      /\ u \in Withdrawn => ~turn[u].acted
  BY Busy
<1>1. /\ turn[u].pc = "running" /\ turn' = [turn EXCEPT ![u] = new]
      /\ voiceHistory' = IF turn[u].noted THEN Append(voiceHistory, DoneBy(u)) ELSE voiceHistory
      /\ UNCHANGED <<arrived, current, aborted, pending, recentCartAdds, adds>>
  BY DEF TurnOver
<1>2. /\ new \in Turn /\ new.pc = "finished" /\ new.prior = turn[u].prior /\ new.text = turn[u].text
      /\ new.half = turn[u].half /\ new.woken = turn[u].woken /\ new.follows = turn[u].follows
      /\ new.silenced = turn[u].silenced /\ new.acted = turn[u].acted /\ new.noted = turn[u].noted
  BY <1>0 DEF Turn, Labels
<1>. HIDE DEF new
<1>3. turn' \in [Utterances -> Turn] /\ turn'[u] = new /\ Others(u)
  BY <1>0, <1>1, <1>2, Update DEF Others
<1>4. Move(u) BY <1>1, <1>2, <1>3 DEF Move
<1>5. Grows /\ (turn[u].noted => Before(SaidBy(u), DoneBy(u), voiceHistory'))
  <2>1. CASE turn[u].noted
    <3>1. SaidBy(u) \in Range(voiceHistory) BY <1>0, <1>1, <2>1 DEF Past
    <3>. QED BY <1>0, <1>1, <2>1, <3>1, EntryTypes, Longer DEF Grows
  <2>2. CASE ~turn[u].noted BY <1>0, <1>1, <2>2, Same
  <2>. QED BY <2>1, <2>2
<1>6. Orderly(u) BY <1>0, <1>1, <1>2, <1>3, <1>5 DEF Orderly, Past
<1>. QED BY <1>1, <1>2, <1>3, <1>4, <1>5, <1>6, QuietMove

\* A result or the timer: the call leaves the table and its turn goes on.
LEMMA ResolveDoes ==
  ASSUME BridgeInv, NEW u \in Utterances, Resolve(u),
         UNCHANGED <<arrived, current, aborted, voiceHistory, recentCartAdds, adds>>
  PROVE  /\ BridgeInv'
         /\ turn[u].pc = "acting" /\ turn'[u].calls = turn[u].calls /\ Others(u)
         /\ turn'[u].routed = turn[u].routed
<1>. DEFINE noted == turn[u].noted \/ turn[u].action \notin Reads
            new == [turn[u] EXCEPT !.pc = "running", !.action = NoAction, !.noted = noted]
<1>0. /\ turn[u] \in Turn /\ turn \in [Utterances -> Turn] /\ voiceHistory \in Seq(Entries)
      /\ turn[u].noted => turn[u].acted
      /\ TypeOK /\ Parts
  BY Busy DEF BridgeInv
<1>1. /\ <<u, turn[u].calls>> \in pending /\ pending' = pending \ {<<u, turn[u].calls>>}
      /\ turn' = [turn EXCEPT ![u] = new]
  BY DEF Resolve
<1>2. turn[u].pc = "acting" BY <1>0, <1>1 DEF Parts, CallsAwaited
<1>3. noted \in BOOLEAN OBVIOUS
<1>. HIDE DEF noted
<1>4. /\ new \in Turn /\ new.pc = "running" /\ new.prior = turn[u].prior /\ new.text = turn[u].text
      /\ new.half = turn[u].half /\ new.woken = turn[u].woken /\ new.follows = turn[u].follows
      /\ new.silenced = turn[u].silenced /\ new.acted = turn[u].acted
      /\ new.calls = turn[u].calls /\ new.routed = turn[u].routed
  BY <1>0, <1>3 DEF Turn, Labels
<1>. HIDE DEF new
<1>5. turn' \in [Utterances -> Turn] /\ turn'[u] = new /\ Others(u)
  BY <1>0, <1>1, <1>4, Update DEF Others
<1>6. Move(u) BY <1>2, <1>4, <1>5 DEF Move
<1>7. turn[u].acted
  <2>1. turn[u].acted \in BOOLEAN BY <1>0, TurnOf
  <2>. QED BY <1>0, <1>2, <2>1 DEF Parts, ActingActed
<1>8. Orderly(u) BY <1>2, <1>4, <1>5, <1>7 DEF Orderly, Past
<1>9. Grows BY <1>0, Same
<1>10. TypeOK' BY <1>0, <1>1, <1>5 DEF TypeOK
<1>11. AddsRemembered' /\ NoDoubleAdd'
  <2>1. \A v \in Utterances : Begun(v) => Begun(v)' /\ turn'[v].text = turn[v].text
    BY <1>6 DEF Move, Others, Begun
  <2>. QED BY <1>0, <2>1, AddsStay DEF Parts
<1>12. CallsAwaited'
  <2>1. ASSUME NEW c \in pending' PROVE (turn[c[1]].pc = "acting" /\ c[2] = turn[c[1]].calls)'
    <3>1. c \in pending /\ c # <<u, turn[u].calls>> /\ c \in Utterances \X (1..MaxCalls)
      BY <1>0, <1>1 DEF TypeOK
    <3>2. turn[c[1]].pc = "acting" /\ c[2] = turn[c[1]].calls BY <1>0, <3>1 DEF Parts, CallsAwaited
    <3>3. c[1] \in Utterances /\ c = <<c[1], c[2]>> BY <3>1
    <3>4. c[1] # u BY <3>1, <3>2, <3>3
    <3>. QED BY <1>5, <3>2, <3>3, <3>4 DEF Others
  <2>. QED BY <2>1 DEF CallsAwaited
<1>13. ActingActed' BY <1>0, <1>4, <1>5 DEF Parts, ActingActed, Others
<1>. QED BY <1>2, <1>4, <1>5, <1>6, <1>8, <1>9, <1>10, <1>11, <1>12, <1>13, MoveKeeps DEF BridgeInv, Parts

\* A page action: the call enters the table, an added product is remembered.
LEMMA DispatchDoes ==
  ASSUME BridgeInv, NEW u \in Utterances, DispatchHostAction(u)
  PROVE  /\ BridgeInv'
         /\ turn[u].calls + 1 \in 1..MaxCalls /\ turn'[u].calls = turn[u].calls + 1 /\ Others(u)
         /\ turn'[u].routed = turn[u].routed /\ turn[u].pc = "running"
         /\ pending' = pending \cup {<<u, turn[u].calls + 1>>}
<1>. PICK a \in Actions : ~(a \in Skus /\ IsDuplicate(u, a)) /\ Act(u, a) BY DEF DispatchHostAction
<1>. DEFINE new == [turn[u] EXCEPT !.pc = "acting", !.action = a, !.acted = TRUE, !.calls = @ + 1]
<1>0. /\ turn[u] \in Turn /\ turn \in [Utterances -> Turn] /\ voiceHistory \in Seq(Entries)
      /\ TypeOK /\ Parts
  BY Busy DEF BridgeInv
<1>1. /\ turn[u].pc = "running" /\ u = current /\ turn[u].calls < MaxCalls
      /\ turn' = [turn EXCEPT ![u] = new]
      /\ pending' = pending \cup {<<u, turn[u].calls + 1>>}
      /\ UNCHANGED <<arrived, current, aborted, voiceHistory>>
  BY ZenonT(30) DEF DispatchHostAction, Superseded, Act
<1>2. turn[u].calls + 1 \in 0..MaxCalls /\ turn[u].calls + 1 \in 1..MaxCalls
  BY <1>0, <1>1, TurnOf, Limits
<1>3. /\ new \in Turn /\ new.pc = "acting" /\ new.prior = turn[u].prior /\ new.text = turn[u].text
      /\ new.half = turn[u].half /\ new.woken = turn[u].woken /\ new.follows = turn[u].follows
      /\ new.silenced = turn[u].silenced /\ new.acted = TRUE /\ new.noted = turn[u].noted
      /\ new.calls = turn[u].calls + 1 /\ new.routed = turn[u].routed
  BY <1>0, <1>2 DEF Turn, Labels
<1>. HIDE DEF new
<1>4. turn' \in [Utterances -> Turn] /\ turn'[u] = new /\ Others(u)
  BY <1>0, <1>1, <1>3, Update DEF Others
<1>5. Move(u) BY <1>1, <1>3, <1>4 DEF Move
<1>6. Orderly(u) BY <1>1, <1>3, <1>4 DEF Orderly, Past
<1>7. Grows BY <1>0, <1>1, Same
<1>. DEFINE Goes(v) == turn'[v].pc \notin {"new", "waiting"}
<1>8. \A v \in Utterances : Begun(v) => Begun(v)' /\ Goes(v) /\ turn'[v].text = turn[v].text
  BY <1>5 DEF Move, Others, Begun
<1>9. adds' \in [Skus -> Seq(Utterances)] /\ recentCartAdds' \in SUBSET Skus
      /\ AddsRemembered' /\ NoDoubleAdd'
  <2>1. CASE a \notin Skus
    <3>1. UNCHANGED <<recentCartAdds, adds>> BY <2>1 DEF Act
    <3>2. AddsRemembered' /\ NoDoubleAdd' BY <1>0, <1>8, <3>1, AddsStay DEF Parts
    <3>. QED BY <1>0, <3>1, <3>2 DEF TypeOK
  <2>2. CASE a \in Skus
    <3>1. recentCartAdds' = recentCartAdds \cup {a} /\ adds' = [adds EXCEPT ![a] = Append(adds[a], u)]
      BY <2>2 DEF Act
    <3>2. adds \in [Skus -> Seq(Utterances)] /\ recentCartAdds \in SUBSET Skus BY <1>0 DEF TypeOK
    <3>. DEFINE old == adds[a]
    <3>3. old \in Seq(Utterances) BY <2>2, <3>2
    <3>4. adds'[a] = Append(old, u) /\ \A sku \in Skus : sku # a => adds'[sku] = adds[sku]
      BY <2>2, <3>1, <3>2
    <3>5. adds' \in [Skus -> Seq(Utterances)] /\ recentCartAdds' \in SUBSET Skus
      BY <2>2, <3>1, <3>2
    <3>6. /\ DOMAIN old = 1..Len(old) /\ Len(old) \in Nat /\ old \in [1..Len(old) -> Utterances]
          /\ Len(Append(old, u)) = Len(old) + 1 /\ DOMAIN Append(old, u) = 1..(Len(old) + 1)
          /\ \A i \in 1..Len(old) : Append(old, u)[i] = old[i]
          /\ Append(old, u)[Len(old) + 1] = u
          /\ Len(old) # 0 => old # <<>>
      BY <3>3
    <3>7. old # <<>> => a \in recentCartAdds /\ \A i \in DOMAIN old : Begun(old[i])
      BY <1>0, <2>2 DEF Parts, AddsRemembered
    <3>8. ASSUME NEW sku \in Skus, sku # a, NEW i \in DOMAIN adds[sku]
          PROVE  Goes(adds[sku][i]) /\ turn'[adds[sku][i]].text = turn[adds[sku][i]].text
                 /\ sku \in recentCartAdds
      <4>1. adds[sku] # <<>> /\ adds[sku][i] \in Utterances BY <3>2, <3>8
      <4>. QED BY <1>0, <1>8, <4>1 DEF Parts, AddsRemembered
    <3>9. \A i \in 1..Len(old) : Goes(old[i]) /\ turn'[old[i]].text = turn[old[i]].text
      BY <1>8, <3>6, <3>7
    <3>10. Goes(u) /\ turn'[u].text = turn[u].text BY <1>3, <1>4
    <3>. HIDE DEF Goes
    <3>. HIDE DEF old
    <3>11. ASSUME NEW sku \in Skus, adds'[sku] # <<>>
           PROVE  (sku \in recentCartAdds /\ \A i \in DOMAIN adds[sku] : Begun(adds[sku][i]))'
      <4>1. CASE sku = a
        <5>1. ASSUME NEW i \in DOMAIN adds'[a] PROVE Goes(adds'[a][i])
          <6>1. adds'[a][i] = IF i = Len(old) + 1 THEN u ELSE old[i] BY <3>4, <3>6, <5>1
          <6>2. i = Len(old) + 1 \/ i \in 1..Len(old) BY <3>4, <3>6, <5>1
          <6>3. CASE i = Len(old) + 1
            <7>1. adds'[a][i] = u BY <6>1, <6>3
            <7>. QED BY <3>10, <7>1
          <6>4. CASE i \in 1..Len(old)
            <7>1. adds'[a][i] = old[i] BY <3>6, <6>1, <6>4
            <7>. QED BY <3>9, <6>4, <7>1
          <6>. QED BY <6>2, <6>3, <6>4
        <5>2. (\A i \in DOMAIN adds[a] : Begun(adds[a][i]))' BY <5>1 DEF Begun, Goes
        <5>. QED BY <3>1, <4>1, <5>2
      <4>2. CASE sku # a
        <5>1. adds'[sku] = adds[sku] BY <3>4, <4>2
        <5>2. sku \in recentCartAdds BY <1>0, <3>11, <5>1 DEF Parts, AddsRemembered
        <5>3. (\A i \in DOMAIN adds[sku] : Begun(adds[sku][i]))' BY <3>8, <4>2, <5>1 DEF Begun, Goes
        <5>. QED BY <3>1, <5>2, <5>3
      <4>. QED BY <4>1, <4>2
    <3>12. ASSUME NEW sku \in Skus, NEW i \in 2..Len(adds'[sku])
           PROVE  Range(turn'[adds'[sku][i]].text) \cap AsksForMore # {}
      <4>1. CASE sku = a
        <5>1. CASE i = Len(old) + 1
          <6>1. old # <<>> BY <3>4, <3>6, <3>12, <4>1, <5>1
          <6>2. Range(turn[u].text) \cap AsksForMore # {} BY <2>2, <3>7, <6>1 DEF IsDuplicate
          <6>3. adds'[sku][i] = u BY <3>4, <3>6, <4>1, <5>1
          <6>. QED BY <3>10, <6>2, <6>3
        <5>2. CASE i # Len(old) + 1
          <6>1. i \in 1..Len(old) /\ i \in 2..Len(old) BY <3>4, <3>6, <3>12, <4>1, <5>2
          <6>2. Range(turn[old[i]].text) \cap AsksForMore # {}
            BY <1>0, <2>2, <6>1 DEF Parts, NoDoubleAdd, old
          <6>3. adds'[sku][i] = old[i] BY <3>4, <3>6, <4>1, <6>1
          <6>. QED BY <3>9, <6>1, <6>2, <6>3
        <5>. QED BY <5>1, <5>2
      <4>2. CASE sku # a
        <5>1. adds'[sku] = adds[sku] BY <3>4, <4>2
        <5>2. i \in DOMAIN adds[sku] BY <3>2, <3>12, <5>1
        <5>3. Range(turn[adds[sku][i]].text) \cap AsksForMore # {}
          BY <1>0, <3>12, <5>1 DEF Parts, NoDoubleAdd
        <5>. QED BY <3>8, <4>2, <5>1, <5>2, <5>3
      <4>. QED BY <4>1, <4>2
    <3>13. AddsRemembered' BY <3>11 DEF AddsRemembered
    <3>14. NoDoubleAdd' BY <3>12 DEF NoDoubleAdd
    <3>. QED BY <3>5, <3>13, <3>14
  <2>. QED BY <2>1, <2>2
<1>10. CallsAwaited'
  <2>1. ASSUME NEW c \in pending' PROVE (turn[c[1]].pc = "acting" /\ c[2] = turn[c[1]].calls)'
    <3>1. CASE c = <<u, turn[u].calls + 1>> BY <1>3, <1>4, <3>1
    <3>2. CASE c # <<u, turn[u].calls + 1>>
      <4>1. c \in pending /\ c[1] \in Utterances BY <1>0, <1>1, <2>1, <3>2 DEF TypeOK
      <4>2. turn[c[1]].pc = "acting" /\ c[2] = turn[c[1]].calls BY <1>0, <4>1 DEF Parts, CallsAwaited
      <4>. QED BY <1>1, <1>4, <4>1, <4>2 DEF Others
    <3>. QED BY <3>1, <3>2
  <2>. QED BY <2>1 DEF CallsAwaited
<1>11. ActingActed' BY <1>0, <1>3, <1>4 DEF Parts, ActingActed, Others
<1>12. TypeOK' BY <1>0, <1>1, <1>2, <1>4, <1>9 DEF TypeOK
<1>. QED BY <1>1, <1>2, <1>3, <1>4, <1>5, <1>6, <1>7, <1>9, <1>10, <1>11, <1>12, MoveKeeps
         DEF BridgeInv, Parts

-------------------------------------------------------------------------------
(* An utterance arrives *)

\* It continues a turn that already acted: it waits.
LEMMA WaitKeeps ==
  ASSUME BridgeInv, NEW u \in Utterances, u = arrived + 1, arrived' = u,
         current # 0, turn' = [turn EXCEPT ![u].pc = "waiting", ![u].follows = current],
         UNCHANGED <<voiceHistory, current, aborted, pending, recentCartAdds, adds>>
  PROVE  BridgeInv' /\ Others(u) /\ turn[u].pc = "new" /\ turn'[u].calls = turn[u].calls
         /\ turn'[u].routed = turn[u].routed
<1>. DEFINE new == [turn[u] EXCEPT !.pc = "waiting", !.follows = current]
<1>0. TypeOK /\ Parts /\ turn \in [Utterances -> Turn] /\ current \in Utterances /\ arrived \in Nat
      /\ turn[u] \in Turn
  BY Limits DEF BridgeInv, TypeOK
<1>1. current \in 0..LastUtterance BY <1>0, Limits
<1>2. /\ new \in Turn /\ new.pc = "waiting" /\ new.text = turn[u].text
      /\ new.half = turn[u].half /\ new.woken = turn[u].woken /\ new.follows = current
      /\ new.silenced = turn[u].silenced /\ new.acted = turn[u].acted /\ new.noted = turn[u].noted
      /\ new.calls = turn[u].calls /\ new.routed = turn[u].routed
  BY <1>0, <1>1 DEF Turn, Labels
<1>3. turn' = [turn EXCEPT ![u] = new] OBVIOUS
<1>. HIDE DEF new
<1>4. turn' \in [Utterances -> Turn] /\ turn'[u] = new /\ Others(u)
  BY <1>0, <1>2, <1>3, Update DEF Others
<1>5. turn[u].pc = "new" BY <1>0, Limits DEF Parts, NotBegun
<1>6. turn[u].text = <<>> /\ turn[u].half = 0 /\ ~turn[u].woken /\ ~turn[u].acted /\ ~turn[u].noted
      /\ ~turn[u].silenced
  BY <1>0, <1>5 DEF Parts, NotBegun, Begun
<1>7. \A v \in Utterances : Begun(v) => v # u /\ turn'[v] = turn[v] /\ Begun(v)'
  BY <1>4, <1>5 DEF Begun, Others
<1>8. \A v \in Utterances : turn[v].half \in Utterances \cup {0} /\ turn[v].follows \in Utterances \cup {0}
  BY <1>0, Limits, TurnOf
<1>9. Begun(current) BY <1>0, Limits DEF Parts, HalvesOut
<1>10. TypeOK' BY <1>0, <1>4, Limits DEF TypeOK
<1>11. NotBegun'
  <2>1. ASSUME NEW v \in Utterances
        PROVE  /\ (turn[v].pc = "new" <=> v > arrived)'
               /\ (~Begun(v) => /\ turn[v].text = <<>> /\ turn[v].half = 0 /\ ~turn[v].woken
                                /\ ~turn[v].acted /\ ~turn[v].noted /\ ~turn[v].silenced)'
    <3>1. CASE v = u BY <1>2, <1>4, <1>6, <3>1, Limits
    <3>2. CASE v # u
      <4>1. turn'[v] = turn[v] /\ (Begun(v)' <=> Begun(v)) BY <1>4, <3>2 DEF Others, Begun
      <4>2. v > arrived' <=> v > arrived BY <1>0, <3>2, Limits
      <4>. QED BY <1>0, <4>1, <4>2 DEF Parts, NotBegun
    <3>. QED BY <3>1, <3>2
  <2>. QED BY <2>1 DEF NotBegun
<1>12. HalvesOut'
  <2>1. ASSUME NEW v \in Utterances, turn'[v].half # 0
        PROVE  (LET h == turn[v].half IN Begun(h) /\ h # current /\ ~turn[h].acted)'
    <3>1. turn'[v].half = turn[v].half BY <1>2, <1>4 DEF Others
    <3>. PICK h \in Utterances : turn[v].half = h BY <1>8, <2>1, <3>1
    <3>2. Begun(h) /\ h # current /\ ~turn[h].acted BY <1>0, <2>1, <3>1 DEF Parts, HalvesOut
    <3>. QED BY <1>7, <3>1, <3>2
  <2>. QED BY <1>7, <1>9, <1>0, <2>1 DEF HalvesOut
<1>13. AddsRemembered' /\ NoDoubleAdd' BY <1>0, <1>7, AddsStay DEF Parts
<1>14. CallsAwaited' BY <1>0, <1>7, CallsStay DEF Parts, Begun
<1>15. ActingActed' BY <1>0, <1>2, <1>4 DEF Parts, ActingActed, Others
<1>16. FlagMeans' BY <1>0, <1>2, <1>4 DEF Parts, FlagMeans, Others
<1>17. DoneAfterSaid'
  <2>1. Withdrawn' = Withdrawn
    <3>1. \A v \in Utterances : turn'[v].half = turn[v].half BY <1>2, <1>4 DEF Others
    <3>. QED BY <3>1 DEF Withdrawn
  <2>2. \A v \in Utterances : (SaidBy(v))' = SaidBy(v) /\ (DoneBy(v))' = DoneBy(v) BY DEF SaidBy, DoneBy
  <2>3. \A v \in Utterances : turn'[v].noted = turn[v].noted /\ turn'[v].acted = turn[v].acted
        /\ (Past(v)' <=> Past(v)) /\ (turn'[v].pc = "finished" <=> turn[v].pc = "finished")
    BY <1>2, <1>4, <1>5 DEF Others, Past
  <2>. QED BY <1>0, <2>1, <2>2, <2>3 DEF Parts, DoneAfterSaid
<1>18. WaitsForOne' BY <1>0, <1>2, <1>4, <1>6, <1>7, <1>8 DEF Parts, WaitsForOne, Others, Begun
<1>19. WordsKept'
  <2>1. ASSUME NEW v \in Utterances, turn'[v].pc \notin {"new", "waiting"}
        PROVE  (\E w \in Utterances :
                  /\ v \in Range(turn[w].text)
                  /\ SaidBy(w) \in Range(voiceHistory) \/ turn[w].pc \in {"loading", "failed"})'
    <3>1. v # u BY <1>2, <1>4, <2>1
    <3>2. PICK w \in Utterances :
            /\ v \in Range(turn[w].text)
            /\ SaidBy(w) \in Range(voiceHistory) \/ turn[w].pc \in {"loading", "failed"}
      BY <1>0, <1>4, <2>1, <3>1 DEF Parts, WordsKept, Others
    <3>3. w # u BY <1>6, <3>2 DEF Range
    <3>4. turn'[w] = turn[w] /\ (SaidBy(w))' = SaidBy(w) BY <1>4, <3>3 DEF Others, SaidBy
    <3>. QED BY <3>2, <3>4
  <2>. QED BY <2>1 DEF WordsKept
<1>20. FollowUpIsTold'
  <2>1. \A f \in Utterances : turn[f].pc = "finished" => turn'[f] = turn[f] BY <1>7 DEF Begun
  <2>2. ASSUME NEW v \in Utterances, v # u, turn[v].woken
        PROVE  turn[v].follows \in Utterances /\ turn'[turn[v].follows] = turn[turn[v].follows]
    BY <1>0, <1>8, <2>1, <2>2 DEF Parts, WaitsForOne
  <2>. QED BY <1>0, <1>2, <1>4, <1>6, <2>2 DEF Parts, FollowUpIsTold, Others, DoneBy
<1>. QED BY <1>2, <1>4, <1>5, <1>10, <1>11, <1>12, <1>13, <1>14, <1>15, <1>16, <1>17, <1>18, <1>19, <1>20
         DEF BridgeInv, Parts

LEMMA UtterDoes ==
  ASSUME BridgeInv, NEW u \in Utterances, Utter(u)
  PROVE  BridgeInv' /\ Others(u) /\ turn'[u].calls = turn[u].calls /\ turn'[u].routed = turn[u].routed
<1>. PICK continues \in BOOLEAN :
       IF continues /\ current # 0 /\ turn[current].acted
       THEN /\ turn' = [turn EXCEPT ![u].pc = "waiting", ![u].follows = current]
            /\ UNCHANGED <<voiceHistory, current, aborted>>
       ELSE TakeCharge(u, continues, FALSE)
  BY DEF Utter
<1>0. u = arrived + 1 /\ arrived' = u /\ UNCHANGED <<pending, recentCartAdds, adds>> BY DEF Utter
<1>1. CASE continues /\ current # 0 /\ turn[current].acted BY <1>0, <1>1, WaitKeeps
<1>2. CASE ~(continues /\ current # 0 /\ turn[current].acted)
  <2>1. TakeCharge(u, continues, FALSE) BY <1>2
  <2>2. TypeOK /\ arrived \in Nat BY Limits DEF BridgeInv, TypeOK
  <2>3. turn[u].pc = "new" BY <1>0, <2>2, Limits DEF BridgeInv, Parts, NotBegun
  <2>4. ~Begun(u) BY <2>3 DEF Begun
  <2>5. arrived' \in 0..LastUtterance /\ \A v \in Utterances : v > arrived' <=> v > arrived /\ v # u
    BY <1>0, <2>2, Limits
  <2>6. Others(u) /\ turn'[u].calls = turn[u].calls /\ turn'[u].routed = turn[u].routed
    BY <2>1, <2>2, TakeChargeDoes
  <2>. QED BY <1>0, <2>1, <2>4, <2>5, <2>6, TakeChargeKeeps
<1>. QED BY <1>1, <1>2

LEMMA WakeUpDoes ==
  ASSUME BridgeInv, NEW u \in Utterances, WakeUp(u)
  PROVE  BridgeInv' /\ Others(u) /\ turn'[u].calls = turn[u].calls /\ turn'[u].routed = turn[u].routed
<1>. DEFINE done == turn[turn[u].follows].pc = "finished"
<1>1. /\ turn[u].pc = "waiting" /\ TakeCharge(u, TRUE, done)
      /\ UNCHANGED <<arrived, pending, recentCartAdds, adds>>
  BY DEF WakeUp
<1>2. TypeOK /\ Parts /\ arrived \in 0..LastUtterance BY DEF BridgeInv, TypeOK
<1>3. ~Begun(u) BY <1>1 DEF Begun
<1>4. \A v \in Utterances : v > arrived' <=> v > arrived /\ v # u
  BY <1>1, <1>2 DEF Parts, NotBegun
<1>5. done \in BOOLEAN /\ (done => turn[u].follows # 0 /\ turn[turn[u].follows].pc = "finished")
  BY <1>1, <1>2 DEF Parts, WaitsForOne
<1>. HIDE DEF done
<1>6. Others(u) /\ turn'[u].calls = turn[u].calls /\ turn'[u].routed = turn[u].routed
  BY <1>1, <1>2, <1>5, TakeChargeDoes
<1>. QED BY <1>1, <1>2, <1>3, <1>4, <1>5, <1>6, TakeChargeKeeps

-------------------------------------------------------------------------------
(* The rest of the call *)

LEMMA BargeInDoes ==
  ASSUME BridgeInv, BargeIn
  PROVE  BridgeInv' /\ \A v \in Utterances : turn'[v].calls = turn[v].calls
                                             /\ turn'[v].routed = turn[v].routed
<1>0. TypeOK /\ Parts /\ turn \in [Utterances -> Turn] BY DEF BridgeInv, TypeOK
<1>1. aborted' = TRUE /\ UNCHANGED <<arrived, current, voiceHistory, pending, recentCartAdds, adds>>
  BY DEF BargeIn
<1>2. ASSUME NEW v \in Utterances
      PROVE  /\ turn'[v] \in Turn /\ turn'[v].pc = turn[v].pc /\ turn'[v].text = turn[v].text
             /\ turn'[v].half = turn[v].half /\ turn'[v].follows = turn[v].follows
             /\ turn'[v].woken = turn[v].woken /\ turn'[v].prior = turn[v].prior
             /\ turn'[v].acted = turn[v].acted /\ turn'[v].noted = turn[v].noted
             /\ turn'[v].calls = turn[v].calls /\ turn'[v].routed = turn[v].routed
             /\ ~Begun(v) => turn'[v] = turn[v]
  <2>1. turn[v] \in Turn BY <1>0
  <2>2. CASE turn[v].pc \in {"loading", "running", "acting"}
    <3>1. turn'[v] = [turn[v] EXCEPT !.silenced = TRUE] BY <2>2 DEF BargeIn
    <3>. QED BY <2>1, <2>2, <3>1 DEF Turn, Begun
  <2>3. CASE turn[v].pc \notin {"loading", "running", "acting"}
    <3>1. turn'[v] = turn[v] BY <2>3 DEF BargeIn
    <3>. QED BY <2>1, <3>1
  <2>. QED BY <2>2, <2>3
<1>3. turn' \in [Utterances -> Turn]
  <2>1. turn' = [v \in Utterances |-> turn'[v]] BY DEF BargeIn
  <2>. QED BY <1>2, <2>1
<1>4. \A v \in Utterances : turn[v].half \in Utterances \cup {0} /\ turn[v].follows \in Utterances \cup {0}
  BY <1>0, Limits, TurnOf
<1>5. \A v \in Utterances : (Begun(v)' <=> Begun(v)) /\ (Past(v)' <=> Past(v)) BY <1>2 DEF Begun, Past
<1>6. \A v \in Utterances : (SaidBy(v))' = SaidBy(v) /\ (DoneBy(v))' = DoneBy(v) BY DEF SaidBy, DoneBy
<1>7. TypeOK' BY <1>0, <1>1, <1>3 DEF TypeOK
<1>8. NotBegun' BY <1>0, <1>1, <1>2, <1>5 DEF Parts, NotBegun
<1>9. HalvesOut'
  <2>1. current \in Utterances \cup {0} BY <1>0, Limits DEF TypeOK
  <2>2. (current # 0 => Begun(current))' BY <1>0, <1>1, <1>5, <2>1 DEF Parts, HalvesOut
  <2>3. ASSUME NEW v \in Utterances, turn'[v].half # 0
        PROVE  (LET h == turn[v].half IN Begun(h) /\ h # current /\ ~turn[h].acted)'
    <3>. PICK h \in Utterances : turn[v].half = h BY <1>2, <1>4, <2>3
    <3>1. turn'[v].half = h /\ turn[v].half # 0 BY <1>2, <2>3
    <3>2. Begun(h) /\ h # current /\ ~turn[h].acted BY <1>0, <3>1 DEF Parts, HalvesOut
    <3>. QED BY <1>1, <1>2, <1>5, <3>1, <3>2
  <2>. QED BY <2>2, <2>3 DEF HalvesOut
<1>10. AddsRemembered' /\ NoDoubleAdd' BY <1>0, <1>1, <1>2, <1>5, AddsStay DEF Parts
<1>11. FlagMeans' BY <1>1 DEF FlagMeans
<1>12. CallsAwaited' BY <1>0, <1>1, <1>2, CallsStay DEF Parts
<1>13. ActingActed' BY <1>0, <1>2 DEF Parts, ActingActed
<1>14. Withdrawn' = Withdrawn BY <1>2 DEF Withdrawn
<1>15. DoneAfterSaid' BY <1>0, <1>1, <1>2, <1>5, <1>6, <1>14 DEF Parts, DoneAfterSaid
<1>16. WaitsForOne' BY <1>0, <1>2, <1>4 DEF Parts, WaitsForOne
<1>17. WordsKept'
  <2>1. ASSUME NEW v \in Utterances, turn'[v].pc \notin {"new", "waiting"}
        PROVE  (\E w \in Utterances :
                  /\ v \in Range(turn[w].text)
                  /\ SaidBy(w) \in Range(voiceHistory) \/ turn[w].pc \in {"loading", "failed"})'
    <3>1. PICK w \in Utterances :
            /\ v \in Range(turn[w].text)
            /\ SaidBy(w) \in Range(voiceHistory) \/ turn[w].pc \in {"loading", "failed"}
      BY <1>0, <1>2, <2>1 DEF Parts, WordsKept
    <3>. QED BY <1>1, <1>2, <1>6, <3>1
  <2>. QED BY <2>1 DEF WordsKept
<1>18. FollowUpIsTold'
  <2>1. \A v \in Utterances : turn[v].woken => turn[v].follows \in Utterances
    BY <1>0, <1>4 DEF Parts, WaitsForOne
  <2>. QED BY <1>0, <1>2, <1>6, <2>1 DEF Parts, FollowUpIsTold
<1>. QED BY <1>2, <1>7, <1>8, <1>9, <1>10, <1>11, <1>12, <1>13, <1>15, <1>16, <1>17, <1>18
         DEF BridgeInv, Parts

\* What the voice model says joins the history; nothing else changes.
LEMMA OnlyGrows ==
  ASSUME BridgeInv, Grows, UNCHANGED <<arrived, current, aborted, turn, pending, recentCartAdds, adds>>
  PROVE  BridgeInv'
<1>0. TypeOK /\ Parts BY DEF BridgeInv
<1>1. TypeOK' BY <1>0 DEF TypeOK, Grows
<1>2. NotBegun' /\ HalvesOut' /\ AddsRemembered' /\ FlagMeans' /\ CallsAwaited' /\ ActingActed'
      /\ WaitsForOne' /\ NoDoubleAdd'
  BY <1>0 DEF Parts, NotBegun, HalvesOut, AddsRemembered, FlagMeans, CallsAwaited, ActingActed,
              WaitsForOne, NoDoubleAdd, Begun
<1>3. DoneAfterSaid' BY <1>0 DEF Parts, DoneAfterSaid, Past, Withdrawn, Grows, SaidBy, DoneBy
<1>4. WordsKept' BY <1>0 DEF Parts, WordsKept, Grows, SaidBy
<1>5. FollowUpIsTold' BY <1>0 DEF Parts, FollowUpIsTold, DoneBy
<1>. QED BY <1>1, <1>2, <1>3, <1>4, <1>5 DEF BridgeInv, Parts

LEMMA NoteKeeps == ASSUME BridgeInv, NoteAssistantTurn PROVE BridgeInv'
<1>1. voiceHistory \in Seq(Entries) BY DEF BridgeInv, TypeOK
<1>2. voiceHistory' = Append(voiceHistory, VoiceSaid)
      /\ UNCHANGED <<arrived, current, aborted, turn, pending, recentCartAdds, adds>>
  BY DEF NoteAssistantTurn
<1>3. Grows BY <1>1, <1>2, EntryTypes, Longer DEF Grows
<1>. QED BY <1>2, <1>3, OnlyGrows

\* A window closes: the product's adds are forgotten with it.
LEMMA WindowKeeps == ASSUME BridgeInv, WindowCloses PROVE BridgeInv'
<1>0. TypeOK /\ Parts BY DEF BridgeInv
<1>. PICK sku \in recentCartAdds :
       recentCartAdds' = recentCartAdds \ {sku} /\ adds' = [adds EXCEPT ![sku] = <<>>]
  BY DEF WindowCloses
<1>1. UNCHANGED <<arrived, current, aborted, turn, voiceHistory, pending>> BY DEF WindowCloses
<1>2. sku \in Skus /\ adds \in [Skus -> Seq(Utterances)] /\ recentCartAdds \in SUBSET Skus
  BY <1>0 DEF TypeOK
<1>3. <<>> \in Seq(Utterances) OBVIOUS
<1>4. adds' \in [Skus -> Seq(Utterances)] /\ recentCartAdds' \in SUBSET Skus BY <1>2, <1>3
<1>5. adds'[sku] = <<>> /\ \A other \in Skus : other # sku => adds'[other] = adds[other] BY <1>2
<1>6. TypeOK' BY <1>0, <1>1, <1>4 DEF TypeOK
<1>7. AddsRemembered' BY <1>0, <1>1, <1>2, <1>5 DEF Parts, AddsRemembered, Begun
<1>8. NoDoubleAdd'
  <2>1. Len(<<>>) = 0 /\ 2..0 = {} OBVIOUS
  <2>. QED BY <1>0, <1>1, <1>5, <2>1 DEF Parts, NoDoubleAdd
<1>9. NotBegun' /\ HalvesOut' /\ FlagMeans' /\ CallsAwaited' /\ ActingActed' /\ WaitsForOne'
  BY <1>0, <1>1 DEF Parts, NotBegun, HalvesOut, FlagMeans, CallsAwaited, ActingActed, WaitsForOne, Begun
<1>10. DoneAfterSaid' BY <1>0, <1>1 DEF Parts, DoneAfterSaid, Past, Withdrawn, SaidBy, DoneBy
<1>11. WordsKept' /\ FollowUpIsTold' BY <1>0, <1>1 DEF Parts, WordsKept, FollowUpIsTold, SaidBy, DoneBy
<1>. QED BY <1>6, <1>7, <1>8, <1>9, <1>10, <1>11 DEF BridgeInv, Parts

LEMMA StutterKeeps == ASSUME BridgeInv, UNCHANGED vars PROVE BridgeInv'
<1>1. voiceHistory \in Seq(Entries) BY DEF BridgeInv, TypeOK
<1>. QED BY <1>1, Same, OnlyGrows DEF vars

-------------------------------------------------------------------------------
(* The theorems *)

LEMMA InvariantBegins == Init => BridgeInv
<1>. SUFFICES ASSUME Init PROVE BridgeInv OBVIOUS
<1>. DEFINE fresh == [pc |-> "new", text |-> <<>>, half |-> 0, follows |-> 0, woken |-> FALSE,
        prior |-> <<>>, acted |-> FALSE, action |-> NoAction, noted |-> FALSE, calls |-> 0,
        routed |-> 0, silenced |-> FALSE]
<1>1. fresh \in Turn
  <2>1. <<>> \in Seq(Utterances) /\ <<>> \in Seq(Entries) OBVIOUS
  <2>2. 0 \in 0..LastUtterance /\ 0 \in 0..MaxCalls /\ 0 \in 0..MaxEvents BY Limits
  <2>. QED BY <2>1, <2>2 DEF Turn, Labels
<1>2. \A u \in Utterances : turn[u] = fresh BY DEF Init
<1>3. TypeOK
  <2>1. <<>> \in Seq(Utterances) /\ <<>> \in Seq(Entries) OBVIOUS
  <2>2. turn \in [Utterances -> Turn]
    <3>1. turn = [u \in Utterances |-> fresh] BY DEF Init
    <3>. HIDE DEF fresh
    <3>. QED BY <1>1, <3>1
  <2>3. 0 \in 0..LastUtterance BY Limits
  <2>. QED BY <2>1, <2>2, <2>3 DEF Init, TypeOK
<1>4. \A u \in Utterances :
        /\ turn[u].pc = "new" /\ turn[u].text = <<>> /\ turn[u].half = 0 /\ ~turn[u].woken
        /\ ~turn[u].acted /\ ~turn[u].noted /\ ~turn[u].silenced
  BY <1>2
<1>5. NotBegun BY <1>4, Limits DEF Init, NotBegun, Begun
<1>6. HalvesOut /\ FlagMeans /\ ActingActed /\ WaitsForOne /\ DoneAfterSaid /\ WordsKept /\ FollowUpIsTold
  BY <1>4 DEF Init, HalvesOut, FlagMeans, ActingActed, WaitsForOne, DoneAfterSaid, WordsKept,
              FollowUpIsTold, Past
<1>7. CallsAwaited BY DEF Init, CallsAwaited
<1>8. AddsRemembered /\ NoDoubleAdd
  <2>1. \A sku \in Skus : adds[sku] = <<>> BY DEF Init
  <2>2. Len(<<>>) = 0 /\ 2..0 = {} OBVIOUS
  <2>. QED BY <2>1, <2>2 DEF AddsRemembered, NoDoubleAdd
<1>. QED BY <1>3, <1>5, <1>6, <1>7, <1>8 DEF BridgeInv, Parts

LEMMA InvariantStep == BridgeInv /\ [Next]_vars => BridgeInv'
BY UtterDoes, WakeUpDoes, LoadedKeeps, LoadFailsKeeps, DispatchDoes, ResolveDoes, RouteEventKeeps,
   TurnOverKeeps, BargeInDoes, NoteKeeps, WindowKeeps, StutterKeeps
   DEF Next, TurnStep, HostActionResult, HostActionTimeout

LEMMA BridgeInvariant == Spec => []BridgeInv
BY InvariantBegins, InvariantStep, PTL DEF Spec

\* The bridge's variables keep their types.
THEOREM TypeCorrect == Spec => []TypeOK
<1>1. BridgeInv => TypeOK BY DEF BridgeInv
<1>. QED BY <1>1, BridgeInvariant, PTL

\* A half-sentence that a continuation withdrew has done nothing on the page and never
\* will: `acted` is read when it is withdrawn, turnSeq when it acts, and no turn comes back.
THEOREM HalvesNeverAct == Spec => []WithdrawnNeverActs
<1>1. BridgeInv => WithdrawnNeverActs
  BY DEF BridgeInv, Parts, HalvesOut, WithdrawnNeverActs, Withdrawn
<1>. QED BY <1>1, BridgeInvariant, PTL

\* Whatever is merged, withdrawn, superseded or silenced, the executor is told all words.
THEOREM NoWordsLost == Spec => []WordsKept
<1>1. BridgeInv => WordsKept BY DEF BridgeInv, Parts
<1>. QED BY <1>1, BridgeInvariant, PTL

\* A follow-up that waited for a turn's end is given that turn's note: it is written before
\* done is resolved, stays in the history, and stands after words of the visitor.
THEOREM FollowUpsAreTold == Spec => []FollowUpIsTold
<1>1. BridgeInv => FollowUpIsTold BY DEF BridgeInv, Parts
<1>. QED BY <1>1, BridgeInvariant, PTL

\* A product is not added a second time within the window unless the visitor asked.
THEOREM AddedOnce == Spec => []NoDoubleAdd
<1>1. BridgeInv => NoDoubleAdd BY DEF BridgeInv, Parts
<1>. QED BY <1>1, BridgeInvariant, PTL

\* Steps that leave the calls and the routed events of every turn alone.
LEMMA LoadsAndEnds ==
  ASSUME TypeOK, NEW u \in Utterances, Loaded(u) \/ LoadFails(u) \/ TurnOver(u)
  PROVE  /\ \A v \in Utterances : turn'[v].calls = turn[v].calls /\ turn'[v].routed = turn[v].routed
         /\ UNCHANGED pending
<1>0. turn \in [Utterances -> Turn] BY DEF TypeOK
<1>1. ASSUME NEW new, new.calls = turn[u].calls, new.routed = turn[u].routed,
             turn' = [turn EXCEPT ![u] = new]
      PROVE  \A v \in Utterances : turn'[v].calls = turn[v].calls /\ turn'[v].routed = turn[v].routed
  BY <1>0, <1>1
<1>2. CASE Loaded(u)
  <2>. DEFINE prior == FromVisitor(voiceHistory)
              new == [turn[u] EXCEPT !.pc = "running", !.prior = prior]
  <2>1. turn' = [turn EXCEPT ![u] = new] /\ UNCHANGED pending BY <1>2 DEF Loaded
  <2>. HIDE DEF prior
  <2>2. new.calls = turn[u].calls /\ new.routed = turn[u].routed BY <1>0 DEF Turn
  <2>. HIDE DEF new
  <2>. QED BY <1>1, <2>1, <2>2
<1>3. ASSUME NEW pc, turn' = [turn EXCEPT ![u].pc = pc], UNCHANGED pending
      PROVE  /\ \A v \in Utterances : turn'[v].calls = turn[v].calls /\ turn'[v].routed = turn[v].routed
             /\ UNCHANGED pending
  <2>. DEFINE new == [turn[u] EXCEPT !.pc = pc]
  <2>1. turn' = [turn EXCEPT ![u] = new] BY <1>3
  <2>2. new.calls = turn[u].calls /\ new.routed = turn[u].routed BY <1>0 DEF Turn
  <2>. HIDE DEF new
  <2>. QED BY <1>1, <1>3, <2>1, <2>2
<1>. QED BY <1>2, <1>3 DEF LoadFails, TurnOver

\* An event is routed by the turn in charge, while the flag is down.
LEMMA RouteDoes ==
  ASSUME BridgeInv, NEW u \in Utterances, RouteEvent(u)
  PROVE  ~turn[u].silenced /\ turn'[u].calls = turn[u].calls /\ Others(u) /\ UNCHANGED pending
<1>0. turn \in [Utterances -> Turn] BY DEF BridgeInv, TypeOK
<1>1. ~turn[u].silenced BY DEF BridgeInv, Parts, FlagMeans, RouteEvent, Superseded
<1>. DEFINE new == [turn[u] EXCEPT !.routed = @ + 1]
<1>2. turn' = [turn EXCEPT ![u] = new] /\ UNCHANGED pending BY DEF RouteEvent
<1>3. new.calls = turn[u].calls BY <1>0 DEF Turn
<1>. HIDE DEF new
<1>. QED BY <1>0, <1>1, <1>2, <1>3 DEF Others

\* A turn that was interrupted routes no further event, though the next utterance clears
\* the flag: by then the turn is superseded.
THEOREM SilentAfterBargeIn == Spec => SilencedStaysSilent
<1>. DEFINE Quiet == \A v \in Utterances : turn[v].silenced => turn'[v].routed = turn[v].routed
<1>1. ASSUME BridgeInv, [Next]_vars PROVE Quiet
  <2>0. TypeOK BY <1>1 DEF BridgeInv
  <2>1. ASSUME NEW u \in Utterances, Others(u), turn'[u].routed = turn[u].routed PROVE Quiet
    BY <2>1 DEF Others
  <2>2. ASSUME NEW u \in Utterances, RouteEvent(u) PROVE Quiet
    BY <1>1, <2>2, RouteDoes DEF Others
  <2>3. ASSUME NEW u \in Utterances, TurnStep(u) \/ HostActionResult(u) PROVE Quiet
    BY <1>1, <2>0, <2>1, <2>3, WakeUpDoes, ResolveDoes, LoadsAndEnds
       DEF TurnStep, HostActionResult, HostActionTimeout
  <2>4. ASSUME NoteAssistantTurn \/ WindowCloses \/ UNCHANGED vars PROVE Quiet
    BY <2>4 DEF NoteAssistantTurn, WindowCloses, vars
  <2>5. ASSUME NEW u \in Utterances, Utter(u) \/ DispatchHostAction(u) PROVE Quiet
    BY <1>1, <2>1, <2>5, UtterDoes, DispatchDoes
  <2>6. ASSUME BargeIn PROVE Quiet BY <1>1, <2>6, BargeInDoes
  <2>. HIDE DEF Quiet
  <2>. QED BY <1>1, <2>2, <2>3, <2>4, <2>5, <2>6 DEF Next
<1>2. BridgeInv /\ [Next]_vars
        => [\A u \in Utterances : turn[u].silenced => turn'[u].routed = turn[u].routed]_vars
  BY <1>1
<1>. QED BY <1>2, BridgeInvariant, PTL DEF Spec, SilencedStaysSilent

-------------------------------------------------------------------------------
(* The table of calls implements PendingCalls *)

CallIds == Utterances \X (1..MaxCalls)
Made    == {c \in CallIds : c[2] <= turn[c[1]].calls}

LEMMA SameCalls ==
  ASSUME \A v \in Utterances : turn'[v].calls = turn[v].calls
  PROVE  Made' = Made
<1>1. \A c \in CallIds : turn'[c[1]].calls = turn[c[1]].calls BY DEF CallIds
<1>. QED BY <1>1 DEF Made, CallIds

LEMMA DispatchIssues ==
  ASSUME BridgeInv, NEW u \in Utterances, DispatchHostAction(u)
  PROVE  Calls!CallsNext
<1>. PICK c \in CallIds : c = <<u, turn[u].calls + 1>> BY DispatchDoes DEF CallIds
<1>0. TypeOK /\ Parts /\ turn[u].calls \in Nat BY Limits, TurnOf DEF BridgeInv, TypeOK
<1>1. /\ turn'[u].calls = turn[u].calls + 1 /\ Others(u) /\ turn[u].pc = "running"
      /\ pending' = pending \cup {c}
  BY DispatchDoes
<1>2. c \notin pending BY <1>0, <1>1 DEF Parts, CallsAwaited
<1>3. c \notin Made BY <1>0 DEF Made
<1>4. Made' = Made \cup {c}
  <2>1. ASSUME NEW d \in CallIds PROVE d \in Made' <=> d \in Made \/ d = c
    <3>1. d = <<d[1], d[2]>> /\ d[1] \in Utterances /\ d[2] \in Nat BY Limits DEF CallIds
    <3>2. CASE d[1] = u
      <4>1. d[2] <= turn[u].calls + 1 <=> d[2] <= turn[u].calls \/ d[2] = turn[u].calls + 1
        BY <1>0, <3>1
      <4>. QED BY <1>1, <3>1, <3>2, <4>1 DEF Made, CallIds
    <3>3. CASE d[1] # u
      <4>1. turn'[d[1]] = turn[d[1]] BY <1>1, <3>1, <3>3 DEF Others
      <4>. QED BY <3>1, <3>3, <4>1 DEF Made, CallIds
    <3>. QED BY <3>2, <3>3
  <2>. QED BY <2>1 DEF Made, CallIds
<1>5. Calls!Issue(c) BY <1>1, <1>2, <1>3, <1>4 DEF Calls!Issue, Made, CallIds
<1>. QED BY <1>5 DEF Calls!CallsNext, CallIds

LEMMA ResolveSettles ==
  ASSUME BridgeInv, NEW u \in Utterances, HostActionResult(u) \/ HostActionTimeout(u)
  PROVE  Calls!CallsNext
<1>1. Resolve(u) /\ UNCHANGED <<arrived, current, aborted, voiceHistory, recentCartAdds, adds>>
  BY DEF HostActionResult, HostActionTimeout
<1>2. \A v \in Utterances : turn'[v].calls = turn[v].calls BY <1>1, ResolveDoes DEF Others
<1>. PICK c \in pending : c = <<u, turn[u].calls>> /\ pending' = pending \ {c}
  BY <1>1 DEF Resolve
<1>3. c \in CallIds BY DEF BridgeInv, TypeOK, CallIds
<1>4. c \in Made
  <2>1. turn[u].calls \in Nat BY Limits, TurnOf DEF BridgeInv, TypeOK
  <2>. QED BY <1>3, <2>1 DEF Made
<1>5. Made' = Made BY <1>2, SameCalls
<1>6. Calls!Settle(c) BY <1>3, <1>4, <1>5 DEF Calls!Settle, Made, CallIds
<1>. QED BY <1>3, <1>6 DEF Calls!CallsNext, CallIds

\* The bridge's table of page actions keeps the promise of PendingCalls: each call is
\* opened once and settled once, by its result or by its timer, and none is dropped.
THEOREM CallsImplement == Spec => CallsKeptOnce
<1>1. Init => Calls!CallsInit
  <2>. SUFFICES ASSUME Init PROVE Calls!CallsInit OBVIOUS
  <2>1. \A u \in Utterances : turn[u].calls = 0 BY DEF Init
  <2>2. ASSUME NEW c \in Utterances \X (1..MaxCalls) PROVE ~(c[2] <= turn[c[1]].calls)
    <3>1. c[1] \in Utterances /\ c[2] \in 1..MaxCalls OBVIOUS
    <3>2. c[2] >= 1 /\ c[2] \in Nat BY <3>1, Limits
    <3>. QED BY <2>1, <3>1, <3>2
  <2>. QED BY <2>2 DEF Init, Calls!CallsInit
<1>2. ASSUME BridgeInv, [Next]_vars PROVE [Calls!CallsNext]_(Calls!callVars)
  <2>0. TypeOK BY <1>2 DEF BridgeInv
  <2>1. ASSUME UNCHANGED pending, \A v \in Utterances : turn'[v].calls = turn[v].calls
        PROVE  UNCHANGED Calls!callVars
    <3>1. Made' = Made BY <2>1, SameCalls
    <3>. QED BY <2>1, <3>1 DEF Calls!callVars, Made, CallIds
  <2>2. ASSUME NEW u \in Utterances, Others(u), turn'[u].calls = turn[u].calls, UNCHANGED pending
        PROVE  UNCHANGED Calls!callVars
    BY <2>1, <2>2 DEF Others
  <2>3. ASSUME NEW u \in Utterances, Utter(u) \/ WakeUp(u) PROVE UNCHANGED Calls!callVars
    <3>1. UNCHANGED pending BY <2>3 DEF Utter, WakeUp
    <3>. QED BY <1>2, <2>2, <2>3, <3>1, UtterDoes, WakeUpDoes
  <2>4. ASSUME NEW u \in Utterances, Loaded(u) \/ LoadFails(u) \/ TurnOver(u)
        PROVE  UNCHANGED Calls!callVars
    BY <2>0, <2>1, <2>4, LoadsAndEnds
  <2>5. ASSUME NEW u \in Utterances, RouteEvent(u) PROVE UNCHANGED Calls!callVars
    BY <1>2, <2>2, <2>5, RouteDoes
  <2>6. ASSUME BargeIn PROVE UNCHANGED Calls!callVars
    <3>1. UNCHANGED pending BY <2>6 DEF BargeIn
    <3>. QED BY <1>2, <2>1, <2>6, <3>1, BargeInDoes
  <2>7. ASSUME NoteAssistantTurn \/ WindowCloses \/ UNCHANGED vars PROVE UNCHANGED Calls!callVars
    <3>1. UNCHANGED <<turn, pending>> BY <2>7 DEF NoteAssistantTurn, WindowCloses, vars
    <3>. QED BY <2>1, <3>1
  <2>. QED BY <1>2, <2>3, <2>4, <2>5, <2>6, <2>7, DispatchIssues, ResolveSettles DEF Next, TurnStep
<1>. QED BY <1>1, <1>2, BridgeInvariant, PTL DEF Spec, CallsKeptOnce, Calls!CallsSpec

===============================================================================
