--------------------------- MODULE RepliesProofs ---------------------------
(***************************************************************************)
(* The safety properties of Replies for every number of deliveries and of  *)
(* humans, every window, every signal and every threshold.  Two things     *)
(* carry them: what a delivery has computed is a function of the row it    *)
(* read (Computed), and what it has recalled is a part of what was ever    *)
(* written, in that order (Drawn, Ordered).                                *)
(***************************************************************************)
EXTENDS Replies, TLAPS

\* Every entry of s is one of w, and the entries of s stand in w in their order.
Drawn(s, w) == \A i \in 1 .. Len(s) : \E k \in 1 .. Len(w) : s[i] = w[k]
Ordered(s, w) ==
  \A i, j \in 1 .. Len(s) :
     i < j => \E k, l \in 1 .. Len(w) : k < l /\ s[i] = w[k] /\ s[j] = w[l]
WrittenOnce(w) == \A i, j \in 1 .. Len(w) : w[i] = w[j] => i = j

EntriesInv ==
  /\ WrittenOnce(written)
  /\ \A d \in Delivery : at[d] \in {"new", "recall", "extend"} =>
       \A k \in 1 .. Len(written) : written[k] # d
  /\ Drawn(memory, written) /\ Ordered(memory, written)
  /\ \A d \in Delivery : /\ Drawn(held[d].recalled, written)
                         /\ Ordered(held[d].recalled, written)

Computed ==
  /\ \A d \in Delivery : at[d] \in {"scored", "loaded"} =>
       held[d].target = Scored(Clamp(held[d].row.score + Change[d]))
  /\ \A h \in Human : at[h] = "loaded" =>
       held[h].target = [held[h].loaded EXCEPT !.stage = held[h].target.stage]

IInv == TypeOK /\ EntriesInv /\ Computed /\ MemoryIsRecent /\ LeadIsLedger

-----------------------------------------------------------------------------
LEMMA RecentFacts ==
  ASSUME NEW D, NEW s \in Seq(D)
  PROVE  /\ Recent(s) \in Seq(D)
         /\ Len(s) < Window => Len(Recent(s)) = Len(s)
         /\ Len(s) >= Window => Len(Recent(s)) = Window
         /\ \A i \in 1 .. Len(Recent(s)) : Recent(s)[i] = s[Len(s) - Len(Recent(s)) + i]
<1>1. CASE Len(s) > Window
  <2> DEFINE m == Len(s) - Window + 1
  <2>1. Recent(s) = SubSeq(s, m, Len(s))
    BY <1>1 DEF Recent
  <2>2. m \in 1 .. Len(s) /\ Len(s) \in Nat
    BY <1>1, WindowAssumption
  <2>3. /\ SubSeq(s, m, Len(s)) \in Seq(D)
        /\ Len(SubSeq(s, m, Len(s))) = Window
        /\ \A i \in 1 .. Window : SubSeq(s, m, Len(s))[i] = s[m + i - 1]
    BY <2>2, WindowAssumption
  <2>4. /\ Len(Recent(s)) = Window /\ Len(s) - Window \in Nat
        /\ \A i \in 1 .. Window : m + i - 1 = Len(s) - Window + i
    BY <2>1, <2>2, <2>3, <1>1, WindowAssumption
  <2> HIDE DEF m
  <2>5. ~ (Len(s) < Window) /\ Window \in Nat /\ Len(s) \in Nat
    BY <1>1, WindowAssumption
  <2>6. Len(Recent(s)) = Window
    BY <2>4
  <2>7. \A i \in 1 .. Len(Recent(s)) : Recent(s)[i] = s[Len(s) - Len(Recent(s)) + i]
    <3> TAKE i \in 1 .. Len(Recent(s))
    <3>1. i \in 1 .. Window
      BY <2>4
    <3>2. Recent(s)[i] = s[m + i - 1]
      BY <3>1, <2>1, <2>3
    <3> QED
      BY <3>1, <3>2, <2>4
  <2>8. Recent(s) \in Seq(D)
    BY <2>1, <2>3
  <2>9. /\ Len(s) < Window => Len(Recent(s)) = Len(s)
        /\ Len(s) >= Window => Len(Recent(s)) = Window
    BY <2>5, <2>6
  <2> QED
    BY <2>7, <2>8, <2>9, Zenon
<1>2. CASE ~ (Len(s) > Window)
  <2>1. Recent(s) = SubSeq(s, 1, Len(s)) /\ Len(s) \in Nat
    BY <1>2 DEF Recent
  <2>2. SubSeq(s, 1, Len(s)) = s
    OBVIOUS
  <2>3. Recent(s) = s
    BY <2>1, <2>2, Zenon
  <2>4. /\ Len(s) >= Window => Len(s) = Window
        /\ \A i \in 1 .. Len(s) : Len(s) - Len(s) + i = i
    BY <2>1, <1>2, WindowAssumption
  <2> QED
    BY <2>3, <2>4
<1> QED
  BY <1>1, <1>2

LEMMA RecentOrdered ==
  ASSUME NEW D, NEW s \in Seq(D), NEW w \in Seq(D), Drawn(s, w), Ordered(s, w)
  PROVE  Drawn(Recent(s), w) /\ Ordered(Recent(s), w)
<1> DEFINE r == Recent(s)
           o == Len(s) - Len(r)
<1>1. /\ r \in Seq(D) /\ Len(r) \in Nat /\ Len(s) \in Nat /\ o \in Nat
      /\ \A i \in 1 .. Len(r) : r[i] = s[o + i]
  BY RecentFacts, WindowAssumption
<1>2. \A i \in 1 .. Len(r) : o + i \in 1 .. Len(s)
  BY <1>1
<1> HIDE DEF r, o
<1>3. Drawn(r, w)
  BY <1>1, <1>2 DEF Drawn
<1>4. Ordered(r, w)
  <2> SUFFICES ASSUME NEW i \in 1 .. Len(r), NEW j \in 1 .. Len(r), i < j
               PROVE  \E k, l \in 1 .. Len(w) : k < l /\ r[i] = w[k] /\ r[j] = w[l]
    BY DEF Ordered
  <2>1. o + i < o + j
    BY <1>1
  <2> QED
    BY <1>1, <1>2, <2>1 DEF Ordered
<1> QED
  BY <1>3, <1>4 DEF r

\* What is drawn from w is drawn from whatever w grows into.
LEMMA StillOrdered ==
  ASSUME NEW D, NEW s \in Seq(D), NEW w \in Seq(D), NEW d \in D,
         Drawn(s, w), Ordered(s, w)
  PROVE  Drawn(s, Append(w, d)) /\ Ordered(s, Append(w, d))
<1>1. /\ Len(Append(w, d)) = Len(w) + 1 /\ Len(w) \in Nat
      /\ \A k \in 1 .. Len(w) : Append(w, d)[k] = w[k]
  OBVIOUS
<1>2. \A k \in 1 .. Len(w) : k \in 1 .. Len(Append(w, d))
  BY <1>1
<1>3. Drawn(s, Append(w, d))
  BY <1>1, <1>2 DEF Drawn
<1>4. Ordered(s, Append(w, d))
  <2> SUFFICES ASSUME NEW i \in 1 .. Len(s), NEW j \in 1 .. Len(s), i < j
               PROVE  \E k, l \in 1 .. Len(Append(w, d)) :
                        k < l /\ s[i] = Append(w, d)[k] /\ s[j] = Append(w, d)[l]
    BY DEF Ordered
  <2>1. PICK k, l \in 1 .. Len(w) : k < l /\ s[i] = w[k] /\ s[j] = w[l]
    BY DEF Ordered
  <2> QED
    BY <2>1, <1>1, <1>2
<1> QED
  BY <1>3, <1>4

LEMMA AppendOrdered ==
  ASSUME NEW D, NEW s \in Seq(D), NEW w \in Seq(D), NEW d \in D,
         Drawn(s, w), Ordered(s, w)
  PROVE  Drawn(Append(s, d), Append(w, d)) /\ Ordered(Append(s, d), Append(w, d))
<1> DEFINE t == Append(s, d)
           v == Append(w, d)
<1>1. /\ Len(t) = Len(s) + 1 /\ Len(s) \in Nat /\ Len(v) = Len(w) + 1 /\ Len(w) \in Nat
      /\ \A i \in 1 .. Len(s) : t[i] = s[i]
      /\ \A k \in 1 .. Len(w) : v[k] = w[k]
      /\ t[Len(s) + 1] = d /\ v[Len(w) + 1] = d
  OBVIOUS
<1>2. /\ \A k \in 1 .. Len(w) : k \in 1 .. Len(v) /\ k < Len(w) + 1
      /\ Len(w) + 1 \in 1 .. Len(v)
      /\ \A i \in 1 .. Len(t) : i \in 1 .. Len(s) \/ i = Len(s) + 1
  BY <1>1
<1> HIDE DEF t, v
<1>3. Drawn(t, v)
  BY <1>1, <1>2 DEF Drawn
<1>4. Ordered(t, v)
  <2> SUFFICES ASSUME NEW i \in 1 .. Len(t), NEW j \in 1 .. Len(t), i < j
               PROVE  \E k, l \in 1 .. Len(v) : k < l /\ t[i] = v[k] /\ t[j] = v[l]
    BY DEF Ordered
  <2>1. i \in 1 .. Len(s)
    BY <1>1
  <2>2. CASE j \in 1 .. Len(s)
    <3>1. PICK k, l \in 1 .. Len(w) : k < l /\ s[i] = w[k] /\ s[j] = w[l]
      BY <2>1, <2>2 DEF Ordered
    <3> QED
      BY <2>1, <2>2, <3>1, <1>1, <1>2
  <2>3. CASE j = Len(s) + 1
    <3>1. PICK k \in 1 .. Len(w) : s[i] = w[k]
      BY <2>1 DEF Drawn
    <3> QED
      BY <2>1, <2>3, <3>1, <1>1, <1>2
  <2> QED
    BY <1>2, <2>2, <2>3
<1> QED
  BY <1>3, <1>4 DEF t, v

LEMMA EmptyOrdered ==
  ASSUME NEW w
  PROVE  Drawn(<<>>, w) /\ Ordered(<<>>, w)
BY DEF Drawn, Ordered

-----------------------------------------------------------------------------
LEMMA ClampFacts ==
  ASSUME NEW n \in Int
  PROVE  Clamp(n) \in 0 .. 100
BY DEF Clamp

LEMMA ConfidenceFacts ==
  ASSUME NEW h \in Nat
  PROVE  Confidence(h) \in 0 .. 100
BY DEF Confidence

(* The walk through STAGE_MAP (lead_scorer.py) gives the documented band of  *)
(* every score.                                                              *)
THEOREM StageIsBand ==
  ASSUME NEW n \in 0 .. 100
  PROVE  StageOf(n) = DocumentedStage(n) /\ StageOf(n) \in Stage
<1> DEFINE First(i) == /\ n >= StageMap[i].floor
                       /\ \A j \in 1 .. i - 1 : n < StageMap[j].floor
<1>1. /\ StageMap[1] = [floor |-> 86, stage |-> "qualified"]
      /\ StageMap[2] = [floor |-> 61, stage |-> "hot"]
      /\ StageMap[3] = [floor |-> 31, stage |-> "warm"]
      /\ StageMap[4] = [floor |-> 0, stage |-> "cold"]
  BY DEF StageMap
<1>2. /\ StageMap[1].floor = 86 /\ StageMap[2].floor = 61
      /\ StageMap[3].floor = 31 /\ StageMap[4].floor = 0
      /\ StageMap[1].stage = "qualified" /\ StageMap[2].stage = "hot"
      /\ StageMap[3].stage = "warm" /\ StageMap[4].stage = "cold"
  BY <1>1
<1>3. StageOf(n) = StageMap[CHOOSE i \in 1 .. 4 : First(i)].stage
  BY DEF StageOf
<1>4. /\ First(1) <=> n >= 86
      /\ First(2) <=> n >= 61 /\ n < 86
      /\ First(3) <=> n >= 31 /\ n < 61
      /\ First(4) <=> n < 31
  <2>1. 1 .. 1 - 1 = {} /\ 1 .. 2 - 1 = {1} /\ 1 .. 3 - 1 = {1, 2} /\ 1 .. 4 - 1 = {1, 2, 3}
    OBVIOUS
  <2> QED
    BY <2>1, <1>2
<1>5. 1 .. 4 = {1, 2, 3, 4}
  OBVIOUS
<1> HIDE DEF First
<1>6. CASE n \in 0 .. 30
  <2>1. (CHOOSE i \in 1 .. 4 : First(i)) = 4
    BY <1>4, <1>5, <1>6
  <2>2. DocumentedStage(n) = "cold"
    BY <1>6 DEF DocumentedStage
  <2> QED
    BY <1>3, <1>2, <2>1, <2>2 DEF Stage
<1>7. CASE n \in 31 .. 60
  <2>1. (CHOOSE i \in 1 .. 4 : First(i)) = 3
    BY <1>4, <1>5, <1>7
  <2>2. DocumentedStage(n) = "warm"
    BY <1>7 DEF DocumentedStage
  <2> QED
    BY <1>3, <1>2, <2>1, <2>2 DEF Stage
<1>8. CASE n \in 61 .. 85
  <2>1. (CHOOSE i \in 1 .. 4 : First(i)) = 2
    BY <1>4, <1>5, <1>8
  <2>2. DocumentedStage(n) = "hot"
    BY <1>8 DEF DocumentedStage
  <2> QED
    BY <1>3, <1>2, <2>1, <2>2 DEF Stage
<1>9. CASE n \in 86 .. 100
  <2>1. (CHOOSE i \in 1 .. 4 : First(i)) = 1
    BY <1>4, <1>5, <1>9
  <2>2. DocumentedStage(n) = "qualified"
    BY <1>9 DEF DocumentedStage
  <2> QED
    BY <1>3, <1>2, <2>1, <2>2 DEF Stage
<1> QED
  BY <1>6, <1>7, <1>8, <1>9

LEMMA ScoredFacts ==
  ASSUME NEW n \in Int
  PROVE  /\ Scored(Clamp(n)) \in Row
         /\ Scored(Clamp(n)) = [score |-> Clamp(n), stage |-> DocumentedStage(Clamp(n))]
BY ClampFacts, StageIsBand DEF Scored, Row

LEMMA ChangedScore ==
  ASSUME NEW r \in Row, NEW d \in Delivery
  PROVE  r.score + Change[d] \in Int
<1>1. r.score \in Int /\ Change[d] \in Int
  BY ChangeAssumption DEF Row
<1> QED
  BY <1>1

\* Committed onto the row that was loaded, an update is the whole target.
LEMMA CommittedFacts ==
  ASSUME NEW current \in Row, NEW old \in Row, NEW new \in Row
  PROVE  /\ Committed(current, old, new) \in Row
         /\ old = current => Committed(current, old, new) = new
BY DEF Committed, Row

-----------------------------------------------------------------------------
LEMMA InitInv == Init => IInv
<1> SUFFICES ASSUME Init
             PROVE  IInv
  OBVIOUS
<1>1. NewLead \in Row /\ NoLocal \in Local
  BY DEF NewLead, Row, Stage, NoLocal, Local
<1>2. TypeOK
  <2>1. at \in [Delivery \union Human -> Phase]
    BY DEF Init, Phase
  <2>2. held \in [Delivery \union Human -> Local]
    BY <1>1 DEF Init
  <2>3. memory \in Seq(Delivery) /\ Len(memory) <= Window
    BY WindowAssumption DEF Init
  <2>4. written \in Seq(Delivery) /\ expired \in 0 .. Len(written)
    BY DEF Init
  <2> QED
    BY <1>1, <2>1, <2>2, <2>3, <2>4 DEF Init, TypeOK
<1>3. EntriesInv
  BY DEF Init, EntriesInv, WrittenOnce, Drawn, Ordered, NoLocal
<1>4. Computed
  BY DEF Init, Computed
<1>5. MemoryIsRecent /\ LeadIsLedger
  BY WindowAssumption DEF Init, MemoryIsRecent, LeadIsLedger
<1> QED
  BY <1>2, <1>3, <1>4, <1>5 DEF IInv

LEMMA LocalUpdated ==
  ASSUME NEW l \in Local
  PROVE  /\ \A c \in 0 .. 100 : [l EXCEPT !.confidence = c] \in Local
         /\ \A s \in Seq(Delivery) : [l EXCEPT !.recalled = s] \in Local
         /\ \A r \in Row : [l EXCEPT !.loaded = r] \in Local
         /\ \A r, u \in Row : [l EXCEPT !.row = r, !.target = u] \in Local
         /\ \A r, u \in Row : [l EXCEPT !.loaded = r, !.target = u] \in Local
<1> DEFINE S == Seq(Delivery)
           I == 0 .. 100
<1>1. Local = [confidence: I, recalled: S, row: Row, loaded: Row, target: Row]
  BY DEF Local
<1> HIDE DEF S, I
<1>2. /\ \A c \in I : [l EXCEPT !.confidence = c] \in Local
      /\ \A s \in S : [l EXCEPT !.recalled = s] \in Local
      /\ \A r \in Row : [l EXCEPT !.loaded = r] \in Local
  BY <1>1
<1>3. /\ \A r, u \in Row : [l EXCEPT !.row = r, !.target = u] \in Local
      /\ \A r, u \in Row : [l EXCEPT !.loaded = r, !.target = u] \in Local
  BY <1>1
<1> QED
  BY <1>2, <1>3 DEF S, I

\* What an entry that is written does to the types.
LEMMA WriteType ==
  ASSUME TypeOK, NEW d \in Delivery, WriteEntry(d)
  PROVE  /\ memory' \in Seq(Delivery) /\ Len(memory') <= Window
         /\ written' \in Seq(Delivery) /\ expired' \in 0 .. Len(written')
         /\ torn' \in BOOLEAN
<1>1. held[d].recalled \in Seq(Delivery)
  BY DEF TypeOK, Local
<1> DEFINE s == Append(held[d].recalled, d)
<1>2. s \in Seq(Delivery)
  BY <1>1
<1> HIDE DEF s
<1>3. Recent(s) \in Seq(Delivery) /\ Len(Recent(s)) <= Window
  BY <1>2, RecentFacts, WindowAssumption
<1>4. memory' = Recent(s)
  BY DEF WriteEntry, s
<1>5. written' = Append(written, d) /\ written \in Seq(Delivery)
  BY DEF WriteEntry, TypeOK
<1>6. written' \in Seq(Delivery) /\ Len(written') = Len(written) + 1
  BY <1>5
<1>7. expired' \in 0 .. Len(written')
  BY <1>5, <1>6 DEF WriteEntry, TypeOK
<1>8. torn' \in BOOLEAN
  BY DEF WriteEntry
<1> QED
  BY <1>3, <1>4, <1>6, <1>7, <1>8

\* What an update does to the types.
LEMMA EnterType ==
  ASSUME NEW entry \in Row, NEW overlapped \in BOOLEAN, Enter(entry, overlapped)
  PROVE  ledger' \in Row /\ raced' \in BOOLEAN
BY DEF Enter, NewLead, Row, Stage

LEMMA TypeStep == TypeOK /\ [Next]_vars => TypeOK'
<1> SUFFICES ASSUME TypeOK, [Next]_vars
             PROVE  TypeOK'
  OBVIOUS
<1> DEFINE A == Delivery \union Human
<1>a. /\ at \in [A -> Phase] /\ held \in [A -> Local]
      /\ lead \in Row /\ replica \in Row \union {NoRow} /\ ledger \in Row
      /\ torn \in BOOLEAN /\ raced \in BOOLEAN
      /\ memory \in Seq(Delivery) /\ Len(memory) <= Window
      /\ written \in Seq(Delivery) /\ expired \in 0 .. Len(written)
  BY DEF TypeOK
<1>b. \A a \in A : /\ held[a].confidence \in 0 .. 100
                   /\ held[a].recalled \in Seq(Delivery)
                   /\ held[a].row \in Row /\ held[a].loaded \in Row
                   /\ held[a].target \in Row
  BY <1>a DEF Local
<1>c. NoLocal \in Local /\ NewLead \in Row
  BY DEF NewLead, Row, Stage, NoLocal, Local
<1>d. ASSUME NEW a \in A, End(a)
      PROVE  at' \in [A -> Phase] /\ held' \in [A -> Local]
  BY <1>a, <1>c, <1>d DEF End, Goto, Phase
<1>e. ASSUME UNCHANGED memoryVars
      PROVE  /\ memory' \in Seq(Delivery) /\ Len(memory') <= Window
             /\ written' \in Seq(Delivery) /\ expired' \in 0 .. Len(written')
             /\ torn' \in BOOLEAN
  BY <1>a, <1>e DEF memoryVars
<1>f. ASSUME UNCHANGED leadVars
      PROVE  /\ lead' \in Row /\ replica' \in Row \union {NoRow} /\ ledger' \in Row
             /\ raced' \in BOOLEAN
  BY <1>a, <1>f DEF leadVars
<1>1. ASSUME NEW d \in Delivery, Answer(d)
      PROVE  TypeOK'
  <2>1. PICK h \in Hits : held' = [held EXCEPT ![d].confidence = Confidence(h)]
    BY <1>1 DEF Answer
  <2>2. Confidence(h) \in 0 .. 100
    BY ConfidenceFacts, HitsAssumption
  <2>3. held' \in [A -> Local]
    <3>1. held' = [held EXCEPT ![d] = [held[d] EXCEPT !.confidence = Confidence(h)]]
      BY <2>1
    <3> QED
      BY <3>1, <1>a, <2>2, LocalUpdated
  <2>4. at' \in [A -> Phase]
    BY <1>1, <1>a DEF Answer, Goto, Phase
  <2> QED
    BY <1>1, <1>e, <1>f, <2>3, <2>4 DEF Answer, TypeOK
<1>2. ASSUME NEW d \in Delivery, Recall(d)
      PROVE  TypeOK'
  <2>1. PICK found \in {memory, <<>>} : held' = [held EXCEPT ![d].recalled = found]
    BY <1>2 DEF Recall
  <2>2. found \in Seq(Delivery)
    <3>1. <<>> \in Seq(Delivery)
      OBVIOUS
    <3> QED
      BY <1>a, <2>1, <3>1
  <2>3. held' \in [A -> Local]
    <3>1. held' = [held EXCEPT ![d] = [held[d] EXCEPT !.recalled = found]]
      BY <2>1
    <3> QED
      BY <3>1, <1>a, <2>2, LocalUpdated
  <2>4. at' \in [A -> Phase]
    BY <1>2, <1>a DEF Recall, Goto, Phase
  <2> QED
    BY <1>2, <1>e, <1>f, <2>3, <2>4 DEF Recall, TypeOK
<1>3. ASSUME NEW d \in Delivery, Remember(d)
      PROVE  TypeOK'
  <2>1. held' \in [A -> Local]
    <3>1. held' = [held EXCEPT ![d] = [held[d] EXCEPT !.recalled = <<>>]]
      BY <1>3 DEF Remember
    <3>2. <<>> \in Seq(Delivery)
      OBVIOUS
    <3> QED
      BY <3>1, <3>2, <1>a, LocalUpdated
  <2>2. at' \in [A -> Phase]
    BY <1>3, <1>a DEF Remember, Goto, Phase
  <2>3. WriteEntry(d)
    BY <1>3 DEF Remember
  <2> QED
    BY <1>3, <1>f, <2>1, <2>2, <2>3, WriteType DEF Remember, TypeOK
<1>4. ASSUME NEW d \in Delivery, RememberFails(d)
      PROVE  TypeOK'
  <2>1. at' \in [A -> Phase] /\ held' \in [A -> Local]
    BY <1>4, <1>d DEF RememberFails
  <2>2. WriteEntry(d) \/ UNCHANGED memoryVars
    BY <1>4 DEF RememberFails
  <2> QED
    BY <1>4, <1>e, <1>f, <2>1, <2>2, WriteType DEF RememberFails, TypeOK
<1>5. ASSUME NEW d \in Delivery, HandOver(d)
      PROVE  TypeOK'
  BY <1>5, <1>d, <1>e, <1>f DEF HandOver, TypeOK
<1>6. ASSUME NEW d \in Delivery, ReadLead(d)
      PROVE  TypeOK'
  <2>1. CASE End(d)
    BY <1>6, <1>d, <1>e, <1>f, <2>1 DEF ReadLead, TypeOK
  <2>2. CASE /\ replica # NoRow
             /\ held' = [held EXCEPT ![d].row = replica,
                                     ![d].target = Scored(Clamp(replica.score + Change[d]))]
             /\ Goto(d, "scored")
    <3>1. replica \in Row /\ replica.score + Change[d] \in Int
      BY <1>a, <2>2, ChangedScore
    <3>2. Scored(Clamp(replica.score + Change[d])) \in Row
      BY <3>1, ScoredFacts
    <3>3. held' \in [A -> Local]
      <4>1. held' = [held EXCEPT ![d] =
              [held[d] EXCEPT !.row = replica,
                              !.target = Scored(Clamp(replica.score + Change[d]))]]
        BY <2>2
      <4> QED
        BY <4>1, <1>a, <3>1, <3>2, LocalUpdated
    <3>4. at' \in [A -> Phase]
      BY <1>a, <2>2 DEF Goto, Phase
    <3> QED
      BY <1>6, <1>e, <1>f, <3>3, <3>4 DEF ReadLead, TypeOK
  <2> QED
    BY <1>6, <2>1, <2>2 DEF ReadLead
<1>7. ASSUME NEW d \in Delivery, LoadLead(d)
      PROVE  TypeOK'
  <2>1. held' \in [A -> Local]
    <3>1. held' = [held EXCEPT ![d] = [held[d] EXCEPT !.loaded = lead]]
      BY <1>7 DEF LoadLead
    <3> QED
      BY <3>1, <1>a, LocalUpdated
  <2>2. at' \in [A -> Phase]
    BY <1>7, <1>a DEF LoadLead, Goto, Phase
  <2> QED
    BY <1>7, <1>e, <1>f, <2>1, <2>2 DEF LoadLead, TypeOK
<1>8. ASSUME NEW d \in Delivery, UpdateLead(d)
      PROVE  TypeOK'
  <2>1. lead' \in Row
    BY <1>8, <1>a, <1>b, CommittedFacts DEF UpdateLead
  <2> DEFINE n == Clamp(ledger.score + Change[d])
             entry == [score |-> n, stage |-> DocumentedStage(n)]
             over == held[d].row # lead \/ held[d].loaded # lead
  <2>2. ledger.score + Change[d] \in Int
    BY <1>a, ChangedScore
  <2>3. entry \in Row
    BY <2>2, ScoredFacts
  <2>4. Enter(entry, over)
    BY <1>8 DEF UpdateLead
  <2>5. ledger' \in Row /\ raced' \in BOOLEAN
    BY <2>3, <2>4, EnterType
  <2> QED
    BY <1>8, <1>a, <1>d, <1>e, <2>1, <2>5 DEF UpdateLead, TypeOK
<1>9. ASSUME NEW h \in Human, NEW s \in HumanStage, LoadForStage(h, s)
      PROVE  TypeOK'
  <2>1. [lead EXCEPT !.stage = s] \in Row
    BY <1>a, HumanStageAssumption DEF Row
  <2>2. held' \in [A -> Local]
    <3>1. held' = [held EXCEPT ![h] = [held[h] EXCEPT !.loaded = lead,
                                                    !.target = [lead EXCEPT !.stage = s]]]
      BY <1>9 DEF LoadForStage
    <3> QED
      BY <3>1, <1>a, <2>1, LocalUpdated
  <2>3. at' \in [A -> Phase]
    BY <1>9, <1>a DEF LoadForStage, Goto, Phase
  <2> QED
    BY <1>9, <1>e, <1>f, <2>2, <2>3 DEF LoadForStage, TypeOK
<1>10. ASSUME NEW h \in Human, UpdateStage(h)
       PROVE  TypeOK'
  <2>1. lead' \in Row
    BY <1>10, <1>a, <1>b, CommittedFacts DEF UpdateStage
  <2> DEFINE entry == [ledger EXCEPT !.stage = held[h].target.stage]
  <2>2. entry \in Row
    BY <1>a, <1>b DEF Row
  <2>3. Enter(entry, held[h].loaded # lead)
    BY <1>10 DEF UpdateStage
  <2>4. ledger' \in Row /\ raced' \in BOOLEAN
    BY <2>2, <2>3, EnterType
  <2> QED
    BY <1>10, <1>a, <1>d, <1>e, <2>1, <2>4 DEF UpdateStage, TypeOK
<1>11. ASSUME NEW a \in A, Fail(a)
       PROVE  TypeOK'
  BY <1>11, <1>d, <1>e, <1>f DEF Fail, TypeOK
<1>12. CASE Expire
  <2>1. memory' = <<>> /\ written' = written /\ expired' = Len(written)
    BY <1>12 DEF Expire
  <2>2. memory' \in Seq(Delivery) /\ Len(memory') <= Window /\ expired' \in 0 .. Len(written')
    BY <2>1, <1>a, WindowAssumption
  <2> QED
    BY <1>12, <1>a, <1>f, <2>2 DEF Expire, TypeOK
<1>13. CASE Replicate
  BY <1>13, <1>a, <1>e DEF Replicate, TypeOK
<1>14. CASE UNCHANGED vars
  BY <1>14, <1>a, <1>e, <1>f DEF vars, TypeOK
<1> QED
  BY <1>1, <1>2, <1>3, <1>4, <1>5, <1>6, <1>7, <1>8, <1>9, <1>10, <1>11, <1>12, <1>13, <1>14
     DEF Next, Process, UpdateLeadStage

-----------------------------------------------------------------------------
\* Which deliveries may still write, after a step that writes nothing, and what
\* they hold.
LEMMA EntriesKept ==
  ASSUME TypeOK, EntriesInv,
         written' = written, memory' = memory \/ memory' = <<>>,
         \A d \in Delivery : /\ at'[d] \in {"new", "recall", "extend"} =>
                                 at[d] \in {"new", "recall", "extend"}
                             /\ held'[d].recalled \in {held[d].recalled, memory, <<>>}
  PROVE  EntriesInv'
<1>1. WrittenOnce(written)'
  BY DEF EntriesInv, WrittenOnce
<1>2. (\A d \in Delivery : at[d] \in {"new", "recall", "extend"} =>
         \A k \in 1 .. Len(written) : written[k] # d)'
  BY DEF EntriesInv
<1>3. Drawn(memory', written) /\ Ordered(memory', written)
  BY EmptyOrdered DEF EntriesInv
<1>4. \A d \in Delivery : /\ Drawn(held'[d].recalled, written)
                          /\ Ordered(held'[d].recalled, written)
  BY EmptyOrdered DEF EntriesInv
<1> QED
  BY <1>1, <1>2, <1>3, <1>4 DEF EntriesInv

\* Writing an entry, by a delivery that then has written.
LEMMA EntriesWritten ==
  ASSUME TypeOK, EntriesInv,
         NEW d \in Delivery, at[d] = "extend", WriteEntry(d),
         \A e \in Delivery : /\ at'[e] \in {"new", "recall", "extend"} =>
                                 e # d /\ at[e] \in {"new", "recall", "extend"}
                             /\ held'[e].recalled \in {held[e].recalled, <<>>}
  PROVE  EntriesInv'
<1> DEFINE w == Append(written, d)
           s == Append(held[d].recalled, d)
<1>1. /\ written \in Seq(Delivery) /\ memory \in Seq(Delivery)
      /\ \A e \in Delivery : held[e].recalled \in Seq(Delivery)
  BY DEF TypeOK, Local
<1>2. written' = w /\ memory' = Recent(s)
  BY DEF WriteEntry
<1>3. /\ w \in Seq(Delivery) /\ s \in Seq(Delivery)
      /\ Len(w) = Len(written) + 1 /\ Len(written) \in Nat
      /\ \A k \in 1 .. Len(written) : w[k] = written[k]
      /\ w[Len(written) + 1] = d
      /\ \A k \in 1 .. Len(w) : k \in 1 .. Len(written) \/ k = Len(written) + 1
  BY <1>1
<1>4. Drawn(s, w) /\ Ordered(s, w)
  BY <1>1, AppendOrdered DEF EntriesInv
<1>5. \A e \in Delivery : Drawn(held[e].recalled, w) /\ Ordered(held[e].recalled, w)
  BY <1>1, StillOrdered DEF EntriesInv
<1>6. \A k \in 1 .. Len(written) : written[k] # d
  BY DEF EntriesInv
<1> HIDE DEF w, s
<1>7. WrittenOnce(w)
  BY <1>3, <1>6 DEF EntriesInv, WrittenOnce
<1>8. (\A e \in Delivery : at[e] \in {"new", "recall", "extend"} =>
         \A k \in 1 .. Len(written) : written[k] # e)'
  <2> SUFFICES ASSUME NEW e \in Delivery, at'[e] \in {"new", "recall", "extend"},
                      NEW k \in 1 .. Len(w)
               PROVE  w[k] # e
    BY <1>2
  <2>1. e # d /\ at[e] \in {"new", "recall", "extend"}
    OBVIOUS
  <2>2. \A j \in 1 .. Len(written) : written[j] # e
    BY <2>1 DEF EntriesInv
  <2> QED
    BY <2>1, <2>2, <1>3
<1>9. Drawn(Recent(s), w) /\ Ordered(Recent(s), w)
  BY <1>3, <1>4, RecentOrdered
<1>10. \A e \in Delivery : Drawn(held'[e].recalled, w) /\ Ordered(held'[e].recalled, w)
  BY <1>5, EmptyOrdered
<1> QED
  BY <1>2, <1>7, <1>8, <1>9, <1>10 DEF EntriesInv

LEMMA EntriesStep == TypeOK /\ EntriesInv /\ [Next]_vars => EntriesInv'
<1> SUFFICES ASSUME TypeOK, EntriesInv, [Next]_vars
             PROVE  EntriesInv'
  OBVIOUS
<1> DEFINE A == Delivery \union Human
           Early == {"new", "recall", "extend"}
<1>a. at \in [A -> Phase] /\ held \in [A -> Local]
  BY DEF TypeOK
<1>b. ASSUME NEW a \in A, End(a)
      PROVE  \A e \in Delivery : /\ at'[e] \in Early => e # a /\ at[e] \in Early
                                 /\ held'[e].recalled \in {held[e].recalled, <<>>}
  BY <1>a, <1>b DEF End, Goto, NoLocal
<1>1. ASSUME NEW d \in Delivery, Answer(d)
      PROVE  EntriesInv'
  <2>1. PICK h \in Hits : held' = [held EXCEPT ![d].confidence = Confidence(h)]
    BY <1>1 DEF Answer
  <2>2. \A e \in Delivery : held'[e].recalled = held[e].recalled
    BY <2>1, <1>a DEF Local
  <2> QED
    BY <1>1, <1>a, <2>2, EntriesKept DEF Answer, Goto, memoryVars
<1>2. ASSUME NEW d \in Delivery, Recall(d)
      PROVE  EntriesInv'
  <2>1. PICK found \in {memory, <<>>} : held' = [held EXCEPT ![d].recalled = found]
    BY <1>2 DEF Recall
  <2>2. \A e \in Delivery : held'[e].recalled \in {held[e].recalled, memory, <<>>}
    BY <2>1, <1>a DEF Local
  <2> QED
    BY <1>2, <1>a, <2>2, EntriesKept DEF Recall, Goto, memoryVars
<1>3. ASSUME NEW d \in Delivery, Remember(d)
      PROVE  EntriesInv'
  <2>1. \A e \in Delivery : held'[e].recalled \in {held[e].recalled, <<>>}
    BY <1>3, <1>a DEF Remember, Local
  <2>2. \A e \in Delivery : at'[e] \in Early => e # d /\ at[e] \in Early
    BY <1>3, <1>a DEF Remember, Goto
  <2> QED
    BY <1>3, <2>1, <2>2, EntriesWritten DEF Remember
<1>4. ASSUME NEW d \in Delivery, RememberFails(d)
      PROVE  EntriesInv'
  <2>1. \A e \in Delivery : /\ at'[e] \in Early => e # d /\ at[e] \in Early
                            /\ held'[e].recalled \in {held[e].recalled, <<>>}
    BY <1>4, <1>b DEF RememberFails
  <2>2. CASE WriteEntry(d)
    BY <1>4, <2>1, <2>2, EntriesWritten DEF RememberFails
  <2>3. CASE UNCHANGED memoryVars
    BY <1>4, <2>1, <2>3, EntriesKept DEF RememberFails, memoryVars
  <2> QED
    BY <1>4, <2>2, <2>3 DEF RememberFails
<1>5. ASSUME NEW a \in A, End(a), UNCHANGED memoryVars
      PROVE  EntriesInv'
  BY <1>5, <1>b, EntriesKept DEF memoryVars
<1>6. ASSUME NEW d \in Delivery, ReadLead(d)
      PROVE  EntriesInv'
  <2>1. CASE End(d)
    BY <1>6, <1>5, <2>1 DEF ReadLead
  <2>2. CASE /\ held' = [held EXCEPT ![d].row = replica,
                                     ![d].target = Scored(Clamp(replica.score + Change[d]))]
             /\ Goto(d, "scored")
    <3>1. \A e \in Delivery : held'[e].recalled = held[e].recalled
      BY <2>2, <1>a DEF Local
    <3> QED
      BY <1>6, <1>a, <2>2, <3>1, EntriesKept DEF ReadLead, Goto, memoryVars
  <2> QED
    BY <1>6, <2>1, <2>2 DEF ReadLead
<1>7. ASSUME NEW d \in Delivery, LoadLead(d)
      PROVE  EntriesInv'
  <2>1. \A e \in Delivery : held'[e].recalled = held[e].recalled
    BY <1>7, <1>a DEF LoadLead, Local
  <2> QED
    BY <1>7, <1>a, <2>1, EntriesKept DEF LoadLead, Goto, memoryVars
<1>8. ASSUME NEW h \in Human, NEW s \in HumanStage, LoadForStage(h, s)
      PROVE  EntriesInv'
  <2>1. held' = [held EXCEPT ![h] = [held[h] EXCEPT !.loaded = lead,
                                                  !.target = [lead EXCEPT !.stage = s]]]
    BY <1>8 DEF LoadForStage
  <2>2. \A e \in Delivery : held'[e].recalled = held[e].recalled
    BY <2>1, <1>a DEF Local
  <2>3. \A e \in Delivery : at'[e] = at[e]
    BY <1>8, <1>a, DeliveryAssumption DEF LoadForStage, Goto
  <2> QED
    BY <1>8, <2>2, <2>3, EntriesKept DEF LoadForStage, memoryVars
<1>9. CASE Expire
  BY <1>9, EntriesKept DEF Expire
<1>10. CASE Replicate
  BY <1>10, EntriesKept DEF Replicate, memoryVars
<1>11. CASE UNCHANGED vars
  BY <1>11, EntriesKept DEF vars, memoryVars
<1>12. ASSUME NEW d \in Delivery, HandOver(d) \/ UpdateLead(d) \/ Fail(d)
       PROVE  EntriesInv'
  BY <1>12, <1>5 DEF HandOver, UpdateLead, Fail
<1>13. ASSUME NEW h \in Human, UpdateStage(h) \/ Fail(h)
       PROVE  EntriesInv'
  BY <1>13, <1>5 DEF UpdateStage, Fail
<1> QED
  BY <1>1, <1>2, <1>3, <1>4, <1>6, <1>7, <1>8, <1>9, <1>10, <1>11, <1>12, <1>13
     DEF Next, Process, UpdateLeadStage

-----------------------------------------------------------------------------
LEMMA ComputedStep == TypeOK /\ Computed /\ [Next]_vars => Computed'
<1> SUFFICES ASSUME TypeOK, Computed, [Next]_vars
             PROVE  Computed'
  OBVIOUS
<1> DEFINE A == Delivery \union Human
<1>a. at \in [A -> Phase] /\ held \in [A -> Local] /\ lead \in Row
  BY DEF TypeOK
\* A caller that is not about to write, and all the others as they were.
<1>b. ASSUME NEW a \in A, \A b \in A : b # a => at'[b] = at[b] /\ held'[b] = held[b],
             at'[a] \notin {"scored", "loaded"}
      PROVE  Computed'
  BY <1>b DEF Computed
<1>c. ASSUME NEW a \in A, End(a)
      PROVE  Computed'
  BY <1>a, <1>b, <1>c DEF End, Goto
<1>1. ASSUME NEW d \in Delivery, Answer(d) \/ Recall(d) \/ Remember(d)
      PROVE  Computed'
  BY <1>1, <1>a, <1>b DEF Answer, Recall, Remember, Goto
<1>2. ASSUME NEW d \in Delivery,
             RememberFails(d) \/ HandOver(d) \/ UpdateLead(d) \/ Fail(d)
      PROVE  Computed'
  BY <1>2, <1>c DEF RememberFails, HandOver, UpdateLead, Fail
<1>3. ASSUME NEW d \in Delivery, ReadLead(d)
      PROVE  Computed'
  <2>1. CASE End(d)
    BY <1>c, <2>1
  <2>2. CASE /\ held' = [held EXCEPT ![d].row = replica,
                                     ![d].target = Scored(Clamp(replica.score + Change[d]))]
             /\ Goto(d, "scored")
    <3>1. /\ held'[d].row = replica
          /\ held'[d].target = Scored(Clamp(replica.score + Change[d]))
      BY <1>a, <2>2 DEF Local
    <3>2. \A b \in A : b # d => at'[b] = at[b] /\ held'[b] = held[b]
      BY <1>a, <2>2 DEF Goto
    <3>3. d \notin Human
      BY DeliveryAssumption
    <3> QED
      BY <3>1, <3>2, <3>3 DEF Computed
  <2> QED
    BY <1>3, <2>1, <2>2 DEF ReadLead
<1>4. ASSUME NEW d \in Delivery, LoadLead(d)
      PROVE  Computed'
  <2>1. held'[d].row = held[d].row /\ held'[d].target = held[d].target /\ at[d] = "scored"
    BY <1>4, <1>a DEF LoadLead, Local
  <2>2. \A b \in A : b # d => at'[b] = at[b] /\ held'[b] = held[b]
    BY <1>4, <1>a DEF LoadLead, Goto
  <2>3. d \notin Human
    BY DeliveryAssumption
  <2> QED
    BY <2>1, <2>2, <2>3 DEF Computed
<1>5. ASSUME NEW h \in Human, NEW s \in HumanStage, LoadForStage(h, s)
      PROVE  Computed'
  <2>1. held' = [held EXCEPT ![h] = [held[h] EXCEPT !.loaded = lead,
                                                  !.target = [lead EXCEPT !.stage = s]]]
    BY <1>5 DEF LoadForStage
  <2>2. held'[h].loaded = lead /\ held'[h].target = [lead EXCEPT !.stage = s]
    BY <2>1, <1>a DEF Local
  <2>3. held'[h].target.stage = s
    BY <2>2, <1>a DEF Row
  <2>4. \A b \in A : b # h => at'[b] = at[b] /\ held'[b] = held[b]
    BY <1>5, <1>a DEF LoadForStage, Goto
  <2>5. h \notin Delivery
    BY DeliveryAssumption
  <2> QED
    BY <2>2, <2>3, <2>4, <2>5 DEF Computed
<1>6. ASSUME NEW h \in Human, UpdateStage(h) \/ Fail(h)
      PROVE  Computed'
  BY <1>6, <1>c DEF UpdateStage, Fail
<1>7. CASE Expire \/ Replicate \/ UNCHANGED vars
  BY <1>7 DEF Expire, Replicate, vars, Computed
<1> QED
  BY <1>1, <1>2, <1>3, <1>4, <1>5, <1>6, <1>7 DEF Next, Process, UpdateLeadStage

-----------------------------------------------------------------------------
LEMMA RecentWritten ==
  ASSUME TypeOK, MemoryIsRecent, NEW d \in Delivery, WriteEntry(d)
  PROVE  MemoryIsRecent'
<1> DEFINE w == Append(written, d)
           s == Append(memory, d)
<1>1. CASE torn \/ held[d].recalled # memory
  BY <1>1 DEF WriteEntry, MemoryIsRecent
<1>2. CASE ~ torn /\ held[d].recalled = memory
  <2>1. /\ written \in Seq(Delivery) /\ memory \in Seq(Delivery) /\ Len(memory) \in Nat
        /\ Len(written) \in Nat /\ expired \in 0 .. Len(written)
    BY DEF TypeOK
  <2>2. /\ w \in Seq(Delivery) /\ Len(w) = Len(written) + 1
        /\ s \in Seq(Delivery) /\ Len(s) = Len(memory) + 1
        /\ \A k \in 1 .. Len(written) : w[k] = written[k]
        /\ \A k \in 1 .. Len(memory) : s[k] = memory[k]
        /\ w[Len(written) + 1] = d /\ s[Len(memory) + 1] = d
    BY <2>1
  <2>3. written' = w /\ memory' = Recent(s) /\ expired' = expired
    BY <1>2 DEF WriteEntry
  <2>4. /\ Len(memory) = IF Len(written) - expired < Window
                         THEN Len(written) - expired ELSE Window
        /\ \A i \in 1 .. Len(memory) :
             memory[i] = written[Len(written) - Len(memory) + i]
    BY <1>2 DEF MemoryIsRecent
  <2> HIDE DEF w, s
  <2> DEFINE r == Recent(s)
             o == Len(s) - Len(r)
  <2>5. /\ Len(s) < Window => Len(r) = Len(s)
        /\ Len(s) >= Window => Len(r) = Window
        /\ Len(r) \in Nat
        /\ \A i \in 1 .. Len(r) : r[i] = s[o + i]
    <3>1. r \in Seq(Delivery) /\ \A i \in 1 .. Len(r) : r[i] = s[o + i]
      BY <2>2, RecentFacts
    <3>2. /\ Len(s) < Window => Len(r) = Len(s)
          /\ Len(s) >= Window => Len(r) = Window
      BY <2>2, RecentFacts
    <3> QED
      BY <3>1, <3>2
  <2> HIDE DEF r
  <2>6. Len(r) = IF Len(w) - expired < Window THEN Len(w) - expired ELSE Window
    BY <2>1, <2>2, <2>4, <2>5, WindowAssumption
  <2>7. ASSUME NEW i \in 1 .. Len(r)
        PROVE  r[i] = w[Len(w) - Len(r) + i]
    <3>1. o + i \in 1 .. Len(s) /\ r[i] = s[o + i]
      BY <2>1, <2>2, <2>5, WindowAssumption
    <3>2. Len(w) - Len(r) + i = Len(written) - Len(memory) + (o + i)
      BY <2>1, <2>2, <2>5
    <3>3. CASE o + i \in 1 .. Len(memory)
      <4>1. Len(written) - Len(memory) + (o + i) \in 1 .. Len(written)
        <5>1. Len(memory) <= Len(written)
          BY <2>1, <2>4, WindowAssumption
        <5> QED
          BY <2>1, <3>3, <5>1
      <4> QED
        BY <2>2, <2>4, <3>1, <3>2, <3>3, <4>1
    <3>4. CASE o + i = Len(memory) + 1
      <4>1. Len(written) - Len(memory) + (o + i) = Len(written) + 1
        BY <2>1, <3>4
      <4> QED
        BY <2>2, <3>1, <3>2, <3>4, <4>1
    <3> QED
      BY <3>1, <3>3, <3>4, <2>1, <2>2
  <2> QED
    BY <2>3, <2>6, <2>7 DEF MemoryIsRecent, r
<1> QED
  BY <1>1, <1>2 DEF TypeOK

LEMMA RecentStep == TypeOK /\ MemoryIsRecent /\ [Next]_vars => MemoryIsRecent'
<1> SUFFICES ASSUME TypeOK, MemoryIsRecent, [Next]_vars
             PROVE  MemoryIsRecent'
  OBVIOUS
<1>1. CASE UNCHANGED memoryVars
  BY <1>1 DEF memoryVars, MemoryIsRecent
<1>2. ASSUME NEW d \in Delivery, Remember(d) \/ RememberFails(d)
      PROVE  MemoryIsRecent'
  BY <1>1, <1>2, RecentWritten DEF Remember, RememberFails
<1>3. CASE Expire
  <2>1. memory' = <<>> /\ written' = written /\ expired' = Len(written)
    BY <1>3 DEF Expire
  <2>2. Len(memory') = 0 /\ Len(written) - Len(written) = 0
    BY <2>1 DEF TypeOK
  <2> QED
    BY <2>1, <2>2, WindowAssumption DEF MemoryIsRecent
<1>4. ASSUME NEW d \in Delivery,
             \/ Answer(d) \/ Recall(d) \/ HandOver(d) \/ ReadLead(d)
             \/ LoadLead(d) \/ UpdateLead(d) \/ Fail(d)
      PROVE  MemoryIsRecent'
  BY <1>1, <1>4 DEF Answer, Recall, HandOver, ReadLead, LoadLead, UpdateLead, Fail
<1>5. ASSUME NEW h \in Human, UpdateLeadStage(h)
      PROVE  MemoryIsRecent'
  BY <1>1, <1>5 DEF UpdateLeadStage, LoadForStage, UpdateStage, Fail
<1>6. CASE Replicate \/ UNCHANGED vars
  BY <1>1, <1>6 DEF Replicate, vars
<1> QED
  BY <1>2, <1>3, <1>4, <1>5, <1>6 DEF Next, Process

-----------------------------------------------------------------------------
LEMMA LedgerStep ==
  TypeOK /\ Computed /\ LeadIsLedger /\ [Next]_vars => LeadIsLedger'
<1> SUFFICES ASSUME TypeOK, Computed, LeadIsLedger, [Next]_vars
             PROVE  LeadIsLedger'
  OBVIOUS
<1>a. /\ lead \in Row /\ ledger \in Row
      /\ \A a \in Delivery \union Human :
           /\ held[a].row \in Row /\ held[a].loaded \in Row /\ held[a].target \in Row
  BY DEF TypeOK, Local
<1>1. CASE lead' = lead /\ ledger' = ledger /\ raced' = raced
  BY <1>1 DEF LeadIsLedger
<1>2. ASSUME NEW d \in Delivery, UpdateLead(d)
      PROVE  LeadIsLedger'
  <2> DEFINE n == Clamp(ledger.score + Change[d])
             entry == [score |-> n, stage |-> DocumentedStage(n)]
             over == held[d].row # lead \/ held[d].loaded # lead
  <2>1. Enter(entry, over) /\ lead' = Committed(lead, held[d].loaded, held[d].target)
    BY <1>2 DEF UpdateLead
  <2>2. CASE raced \/ over
    BY <2>1, <2>2 DEF Enter, LeadIsLedger
  <2>3. CASE ~ raced /\ ~ over
    <3>1. held[d].row = lead /\ held[d].loaded = lead /\ lead = ledger
      BY <2>3 DEF LeadIsLedger
    <3>2. lead' = held[d].target
      BY <2>1, <3>1, <1>a, CommittedFacts
    <3>3. held[d].target = Scored(n)
      BY <1>2, <3>1 DEF UpdateLead, Computed
    <3>4. Scored(n) = entry
      BY <1>a, ChangedScore, ScoredFacts
    <3>5. ledger' = entry
      BY <2>1, <2>3 DEF Enter
    <3> QED
      BY <3>2, <3>3, <3>4, <3>5 DEF LeadIsLedger
  <2> QED
    BY <2>2, <2>3
<1>3. ASSUME NEW h \in Human, UpdateStage(h)
      PROVE  LeadIsLedger'
  <2> DEFINE entry == [ledger EXCEPT !.stage = held[h].target.stage]
  <2>1. /\ Enter(entry, held[h].loaded # lead)
        /\ lead' = Committed(lead, held[h].loaded, held[h].target)
    BY <1>3 DEF UpdateStage
  <2>2. CASE raced \/ held[h].loaded # lead
    BY <2>1, <2>2 DEF Enter, LeadIsLedger
  <2>3. CASE ~ raced /\ held[h].loaded = lead
    <3>1. lead = ledger
      BY <2>3 DEF LeadIsLedger
    <3>2. lead' = held[h].target
      BY <2>1, <2>3, <1>a, CommittedFacts
    <3>3. held[h].target = entry
      BY <1>3, <2>3, <3>1 DEF UpdateStage, Computed
    <3>4. ledger' = entry
      BY <2>1, <2>3 DEF Enter
    <3> QED
      BY <3>2, <3>3, <3>4 DEF LeadIsLedger
  <2> QED
    BY <2>2, <2>3
<1>4. ASSUME NEW d \in Delivery,
             \/ Answer(d) \/ Recall(d) \/ Remember(d) \/ RememberFails(d)
             \/ HandOver(d) \/ ReadLead(d) \/ LoadLead(d) \/ Fail(d)
      PROVE  LeadIsLedger'
  BY <1>1, <1>4 DEF Answer, Recall, Remember, RememberFails, HandOver, ReadLead, LoadLead,
                    Fail, leadVars
<1>5. ASSUME NEW h \in Human, (\E s \in HumanStage : LoadForStage(h, s)) \/ Fail(h)
      PROVE  LeadIsLedger'
  BY <1>1, <1>5 DEF LoadForStage, Fail, leadVars
<1>6. CASE Expire \/ Replicate \/ UNCHANGED vars
  BY <1>1, <1>6 DEF Expire, Replicate, vars, leadVars
<1> QED
  BY <1>2, <1>3, <1>4, <1>5, <1>6 DEF Next, Process, UpdateLeadStage

-----------------------------------------------------------------------------
(* The inductive invariant holds of every behaviour of the deliveries and    *)
(* the humans.                                                               *)
THEOREM Invariance == Spec => []IInv
<1>1. IInv /\ [Next]_vars => IInv'
  BY TypeStep, EntriesStep, ComputedStep, RecentStep, LedgerStep DEF IInv
<1> QED
  BY InitInv, <1>1, PTL DEF Spec

(* Type correctness: the score stays in 0..100, the stage one of the five,   *)
(* the memory within its window.                                             *)
THEOREM TypeCorrect == Spec => []TypeOK
<1>1. IInv => TypeOK
  BY DEF IInv
<1> QED
  BY Invariance, <1>1, PTL

(* As long as no update overlapped another, the lead is what the updates     *)
(* give one after the other (LeadScorer.update_from_message).                *)
THEOREM LeadFollowsLedger == Spec => []LeadIsLedger
<1>1. IInv => LeadIsLedger
  BY DEF IInv
<1> QED
  BY Invariance, <1>1, PTL

(* As long as no append overlapped another, the memory is the last entries   *)
(* written since it expired (MemoryService.append).                          *)
THEOREM MemoryRecent == Spec => []MemoryIsRecent
<1>1. IInv => MemoryIsRecent
  BY DEF IInv
<1> QED
  BY Invariance, <1>1, PTL

(* Whatever overlaps, the memory is never out of order and repeats nothing.  *)
THEOREM MemoryOrdered == Spec => []MemoryInOrder
<1>1. IInv => MemoryInOrder
  <2> SUFFICES ASSUME IInv, NEW i \in 1 .. Len(memory), NEW j \in 1 .. Len(memory), i < j
               PROVE  Earlier(memory[i], memory[j]) /\ ~ Earlier(memory[j], memory[i])
    BY DEF MemoryInOrder
  <2>1. PICK k, l \in 1 .. Len(written) :
          k < l /\ memory[i] = written[k] /\ memory[j] = written[l]
    BY DEF IInv, EntriesInv, Ordered
  <2>2. Earlier(memory[i], memory[j])
    BY <2>1 DEF Earlier
  <2>3. ASSUME NEW m \in 1 .. Len(written), NEW n \in 1 .. Len(written), m < n,
               written[m] = memory[j], written[n] = memory[i]
        PROVE  FALSE
    <3>1. m = l /\ n = k
      BY <2>1, <2>3 DEF IInv, EntriesInv, WrittenOnce
    <3> QED
      BY <2>1, <2>3, <3>1
  <2> QED
    BY <2>2, <2>3 DEF Earlier
<1> QED
  BY Invariance, <1>1, PTL
=============================================================================
