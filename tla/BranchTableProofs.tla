------------------------- MODULE BranchTableProofs -------------------------
(***************************************************************************)
(* Proofs about BranchTable, for every scroll, every set of histories and  *)
(* every order of arrivals, updates, commits and restarts.                 *)
(***************************************************************************)
EXTENDS BranchTable, WellFoundedInduction, TLAPS

\* What holds of the table, of the rows and of every table in between.
Good(secs) == secs \subseteq Section /\ Runs(secs) /\ Exact(secs)

Types ==
  /\ bseq \in Histories
  /\ known \subseteq Seqs
  /\ queue \in [mod : SUBSET Seqs, rm : SUBSET Seqs]
  /\ top \in Seqs \cup {-1} /\ saved \in Seqs \cup {-1}
  /\ qdecl \subseteq Seqs /\ dbq \in Seq(Update)
  /\ rowTop \in Seqs \cup {-1} /\ stored \subseteq Seqs

CoversKnown == \A s \in Seqs : Covers(table, s) <=> s \in known

\* What is scheduled is what tells table and flushed apart.
Scheduled ==
  /\ \A q \in queue.mod : \E o \in table : o.seq = q
  /\ \A o \in table : o.seq \in queue.mod \/ o \in flushed
  /\ \A o \in table : o.seq \notin queue.rm
  /\ \A o \in flushed : o \in table \/ o.seq \in queue.mod \cup queue.rm

\* The tables that the database held, holds or will hold.
Snaps == {flushed, rows} \cup {dbq[i].snap : i \in DOMAIN dbq}

Disk ==
  /\ \A secs \in Snaps : Good(secs)
  /\ Chain /\ LastSnap = flushed
  /\ rowTop = -1 => rows = {}

TableInv == Types /\ Good(table) /\ CoversKnown
IInv == TableInv /\ Scheduled /\ Disk

-----------------------------------------------------------------------------
(* The neighbours of a declaration that is not covered.                    *)

LEMMA SectionType ==
  ASSUME NEW o \in Section
  PROVE  o.seq \in Seqs /\ o.size \in Nat /\ o.size > 0 /\ o.seq \in Int
         /\ o.bseq \in Bseq /\ o.bseq.i \in Nat /\ o.seq >= 0
  BY BranchTableAssumption DEF Section, Bseq, Seqs

LEMMA SeqType == ASSUME NEW s \in Seqs PROVE s \in Int /\ s >= 0 /\ s <= N
  BY BranchTableAssumption DEF Seqs

LEMMA PrevEnds ==
  ASSUME TableInv, NEW s \in Seqs, ~Covers(table, s), NEW o \in Prev(s)
  PROVE  /\ o \in table /\ o \in Section
         /\ o.seq + o.size = s /\ s - 1 \in Seqs
         /\ o.bseq.b = bseq[s].b
         /\ bseq[s].i = o.bseq.i + o.size
  <1>1. /\ o \in table /\ o \in Section /\ Has(o, s - 1) /\ ~Has(o, s)
        /\ o.bseq.b = bseq[s].b
    BY DEF Prev, Covers, TableInv, Good
  <1>2. /\ o.seq \in Int /\ o.seq >= 0 /\ o.size \in Nat
        /\ s \in Int /\ s <= N /\ o.bseq.i \in Nat
    BY <1>1, SectionType, SeqType
  <1>3. o.seq + o.size = s
    BY <1>1, <1>2 DEF Has
  <1>4. s - 1 \in Seqs /\ s > 0
    BY <1>1, <1>2, BranchTableAssumption DEF Has, Seqs
  <1>5. bseq[s - 1] = [b |-> o.bseq.b, i |-> o.bseq.i + (s - 1) - o.seq]
    BY <1>1, <1>4 DEF TableInv, Good, Exact
  <1>6. bseq[s].i = bseq[s - 1].i + 1
    BY <1>1, <1>4, <1>5, BranchTableAssumption
       DEF HistoryAssumption, TableInv, Types
  <1> QED
    BY <1>1, <1>2, <1>3, <1>4, <1>5, <1>6

LEMMA SuccBegins ==
  ASSUME TableInv, NEW s \in Seqs, ~Covers(table, s), NEW n \in Succ(s)
  PROVE  /\ n \in table /\ n \in Section
         /\ n.seq = s + 1 /\ s + 1 \in Seqs
         /\ n.bseq.b = bseq[s].b
         /\ n.bseq.i = bseq[s].i + 1
  <1>1. /\ n \in table /\ n \in Section /\ Has(n, s + 1) /\ ~Has(n, s)
        /\ n.bseq.b = bseq[s].b
    BY DEF Succ, Covers, TableInv, Good
  <1>2. /\ n.seq \in Int /\ n.seq >= 0 /\ n.size \in Nat /\ n.size > 0
        /\ s \in Int /\ s >= 0 /\ n.seq \in Seqs /\ n.bseq.i \in Nat
    BY <1>1, SectionType, SeqType
  <1>3. n.seq = s + 1
    BY <1>1, <1>2 DEF Has
  <1>4. bseq[s + 1] = [b |-> n.bseq.b, i |-> n.bseq.i + (s + 1) - n.seq]
    BY <1>1, <1>2, <1>3 DEF TableInv, Good, Exact
  <1>5. bseq[s + 1].i = bseq[s].i + 1
    <2>1. bseq[s + 1].b = bseq[s].b
      BY <1>1, <1>4
    <2>2. s + 1 \in Seqs /\ s + 1 > 0 /\ (s + 1) - 1 = s
      BY <1>2, <1>3
    <2> QED
      BY <2>1, <2>2, BranchTableAssumption DEF HistoryAssumption, TableInv, Types
  <1> QED
    BY <1>1, <1>2, <1>3, <1>4, <1>5

-----------------------------------------------------------------------------
(* One section x takes the place of its neighbours R and of s.             *)

Spans(R, x, s) ==
  /\ R \subseteq table /\ x \in Section /\ x.seq + x.size - 1 <= N
  /\ \A t \in Seqs : Has(x, t) <=> (t = s \/ \E o \in R : Has(o, t))
  /\ \A t \in Seqs : Has(x, t) =>
        bseq[t] = [b |-> x.bseq.b, i |-> x.bseq.i + t - x.seq]
  /\ \A p \in table \ R : p.seq + p.size = x.seq => p.bseq.b # x.bseq.b
  /\ \A p \in table \ R : x.seq + x.size = p.seq => x.bseq.b # p.bseq.b

Replaced(R, x) == (table \ R) \cup {x}

LEMMA Replace ==
  ASSUME TableInv, NEW s \in Seqs, ~Covers(table, s),
         NEW R, NEW x, Spans(R, x, s)
  PROVE  /\ Good(Replaced(R, x))
         /\ \A t \in Seqs : Covers(Replaced(R, x), t) <=> (t \in known \/ t = s)
  <1> DEFINE new == (table \ R) \cup {x}
  <1> USE DEF TableInv, Spans
  <1>1. new \subseteq Section
    BY DEF Good
  <1>2. x.seq \in Seqs /\ x.seq \in Int /\ x.size \in Nat /\ x.size > 0
        /\ x.bseq \in Bseq
    BY SectionType
  <1>3. Sound(new)
    <2>1. Has(x, x.seq)
      BY <1>2 DEF Has
    <2>2. x.bseq = bseq[x.seq]
      <3>1. bseq[x.seq] = [b |-> x.bseq.b, i |-> x.bseq.i + x.seq - x.seq]
        BY <1>2, <2>1
      <3>2. x.bseq = [b |-> x.bseq.b, i |-> x.bseq.i] /\ x.bseq.i \in Nat
        BY <1>2 DEF Bseq
      <3> QED
        BY <1>2, <3>1, <3>2
    <2>3. ASSUME NEW t \in Seqs, Has(x, t) PROVE bseq[t].b = x.bseq.b
      <3>1. bseq[t] = [b |-> x.bseq.b, i |-> x.bseq.i + t - x.seq]
        BY <2>3
      <3> QED
        BY <3>1
    <2> QED
      BY <2>2, <2>3 DEF Good, Runs, Sound
  <1>4. Disjoint(new)
    <2> SUFFICES ASSUME NEW o \in new, NEW p \in new, NEW t \in Seqs,
                        Has(o, t), Has(p, t)
                 PROVE  o = p
      BY DEF Disjoint
    <2>1. CASE o \in table \ R /\ p \in table \ R
      BY <2>1 DEF Good, Runs, Disjoint
    <2>2. \A q \in table \ R : ~(Has(q, t) /\ Has(x, t))
      <3> SUFFICES ASSUME NEW q \in table \ R, Has(q, t), Has(x, t)
                   PROVE  FALSE
        OBVIOUS
      <3>1. t # s
        BY DEF Covers
      <3>2. PICK r \in R : Has(r, t)
        BY <3>1
      <3> QED
        BY <3>2 DEF Good, Runs, Disjoint
    <2> QED
      BY <2>1, <2>2
  <1>5. Maximal(new)
    <2>1. \A o, p \in table : o.seq + o.size = p.seq => o.bseq.b # p.bseq.b
      BY DEF Good, Runs, Maximal
    <2>2. x.seq + x.size # x.seq
      BY <1>2
    <2> QED
      BY <2>1, <2>2 DEF Maximal
  <1>6. Exact(new)
    BY DEF Good, Exact
  <1>7. \A t \in Seqs : Covers(new, t) <=> (t \in known \/ t = s)
    BY DEF Covers, CoversKnown
  <1> QED
    BY <1>1, <1>3, <1>4, <1>5, <1>6, <1>7 DEF Good, Runs, Replaced

\* A declaration covered by two sections is covered by one of them.
LEMMA SameSection ==
  ASSUME Good(table), NEW o \in table, NEW p \in table, o.seq = p.seq
  PROVE  o = p
  <1>1. o \in Section /\ p \in Section
    BY DEF Good
  <1>2. o.seq \in Seqs /\ Has(o, o.seq) /\ Has(p, o.seq)
    BY <1>1, SectionType DEF Has
  <1> QED
    BY <1>2 DEF Good, Runs, Disjoint

AddedTable(s) ==
  /\ Good(table)'
  /\ \A t \in Seqs : Covers(table', t) <=> (t \in known \/ t = s)

LEMMA GoodPrime == ASSUME UNCHANGED bseq, Good(table') PROVE Good(table)'
  BY DEF Good, Runs, Sound, Disjoint, Maximal, Exact, Section, Bseq, Has, Seqs

\* _merge and the two merges of add, one by one: table and schedule after each.
LEMMA ExtendGood ==
  ASSUME TableInv, UNCHANGED bseq, NEW s \in Seqs, ~Covers(table, s),
         NEW o \in Prev(s), Extend(s, o)
  PROVE  AddedTable(s)
  <1> DEFINE x == [o EXCEPT !.size = @ + 1]
  <1>1. /\ o \in table /\ o \in Section /\ o.seq + o.size = s /\ s - 1 \in Seqs
        /\ o.bseq.b = bseq[s].b /\ bseq[s].i = o.bseq.i + o.size
    BY PrevEnds
  <1>2. /\ o.seq \in Seqs /\ o.seq \in Int /\ o.size \in Nat /\ o.size > 0
        /\ o.bseq \in Bseq /\ o.bseq.i \in Nat /\ s \in Int /\ s <= N
    BY <1>1, SectionType, SeqType
  <1>3. /\ x \in Section /\ x.seq = o.seq /\ x.size = o.size + 1
        /\ x.bseq = o.bseq
    BY <1>1, <1>2 DEF Section
  <1>4. x.seq + x.size = s + 1
    BY <1>1, <1>2, <1>3
  <1>5. \A t \in Seqs : Has(x, t) <=> (t = s \/ \E r \in {o} : Has(r, t))
    BY <1>1, <1>2, <1>3, SeqType DEF Has
  <1>6. ASSUME NEW t \in Seqs, Has(x, t)
        PROVE  bseq[t] = [b |-> x.bseq.b, i |-> x.bseq.i + t - x.seq]
    <2>1. CASE t = s
      <3>1. bseq[s] \in Bseq
        BY BranchTableAssumption DEF HistoryAssumption, TableInv, Types
      <3>2. x.bseq.i + t - x.seq = bseq[s].i
        BY <2>1, <1>1, <1>2, <1>3
      <3> QED
        BY <2>1, <3>1, <3>2, <1>1, <1>3 DEF Bseq
    <2>2. CASE t # s
      BY <1>1, <1>3, <1>5, <1>6, <2>2 DEF TableInv, Good, Exact
    <2> QED
      BY <2>1, <2>2
  <1>7. \A p \in table \ {o} : p.seq + p.size = x.seq => p.bseq.b # x.bseq.b
    BY <1>1, <1>3 DEF TableInv, Good, Runs, Maximal
  <1>8. ASSUME NEW p \in table \ {o}, x.seq + x.size = p.seq
        PROVE  x.bseq.b # p.bseq.b
    <2>1. p \in Section /\ p.seq = s + 1 /\ Has(p, s + 1)
      <3>1. p \in Section
        BY DEF TableInv, Good
      <3> QED
        BY <3>1, <1>4, <1>8, SectionType, <1>2 DEF Has
    <2>2. p \notin Succ(s)
      BY DEF Extend
    <2> QED
      BY <2>1, <2>2, <1>1, <1>3 DEF Succ
  <1>9. table' = Replaced({o}, x)
    BY DEF Extend, Replaced
  <1>10. Good(table') /\ \A t \in Seqs : Covers(table', t) <=> (t \in known \/ t = s)
    <2>1. x.seq + x.size - 1 <= N
      BY <1>2, <1>4
    <2> HIDE DEF x
    <2>2. Spans({o}, x, s)
      BY <2>1, <1>1, <1>3, <1>5, <1>6, <1>7, <1>8 DEF Spans
    <2> QED
      BY <2>2, <1>9, Replace
  <1> QED
    BY <1>10, GoodPrime DEF AddedTable

LEMMA JoinGood ==
  ASSUME TableInv, UNCHANGED bseq, NEW s \in Seqs, ~Covers(table, s),
         NEW o \in Prev(s), NEW n \in Succ(s),
         table' = (table \ {o, n}) \cup {[o EXCEPT !.size = @ + 1 + n.size]}
  PROVE  AddedTable(s)
  <1> DEFINE x == [o EXCEPT !.size = @ + 1 + n.size]
  <1>1. /\ o \in table /\ o \in Section /\ o.seq + o.size = s /\ s - 1 \in Seqs
        /\ o.bseq.b = bseq[s].b /\ bseq[s].i = o.bseq.i + o.size
    BY PrevEnds
  <1>2. /\ n \in table /\ n \in Section /\ n.seq = s + 1 /\ s + 1 \in Seqs
        /\ n.bseq.b = bseq[s].b /\ n.bseq.i = bseq[s].i + 1
    BY SuccBegins
  <1>3. /\ o.seq \in Seqs /\ o.seq \in Int /\ o.size \in Nat /\ o.size > 0
        /\ o.bseq \in Bseq /\ o.bseq.i \in Nat /\ s \in Int
        /\ n.seq \in Int /\ n.size \in Nat /\ n.size > 0 /\ n.bseq.i \in Nat
        /\ n.seq + n.size - 1 <= N
    BY <1>1, <1>2, SectionType, SeqType DEF TableInv, Good, Runs, Sound
  <1>4. /\ x \in Section /\ x.seq = o.seq /\ x.size = o.size + 1 + n.size
        /\ x.bseq = o.bseq
    BY <1>1, <1>3 DEF Section
  <1>5. x.seq + x.size = n.seq + n.size
    BY <1>1, <1>2, <1>3, <1>4
  <1>6. ASSUME NEW t \in Seqs
        PROVE  Has(x, t) <=> (t = s \/ \E r \in {o, n} : Has(r, t))
    <2>1. t \in Int
      BY SeqType
    <2>2. Has(x, t) <=> (t = s \/ Has(o, t) \/ Has(n, t))
      BY <2>1, <1>1, <1>2, <1>3, <1>4 DEF Has
    <2> QED
      BY <2>2
  <1>7. ASSUME NEW t \in Seqs, Has(x, t)
        PROVE  bseq[t] = [b |-> x.bseq.b, i |-> x.bseq.i + t - x.seq]
    <2>0. t \in Int
      BY SeqType
    <2>1. CASE t = s
      <3>1. bseq[s] \in Bseq
        BY BranchTableAssumption DEF HistoryAssumption, TableInv, Types
      <3>2. x.bseq.i + t - x.seq = bseq[s].i
        BY <2>1, <1>1, <1>3, <1>4
      <3> QED
        BY <2>1, <3>1, <3>2, <1>1, <1>4 DEF Bseq
    <2>2. CASE Has(o, t)
      BY <1>1, <1>4, <2>2 DEF TableInv, Good, Exact
    <2>3. CASE Has(n, t)
      <3>1. bseq[t] = [b |-> n.bseq.b, i |-> n.bseq.i + t - n.seq]
        BY <1>2, <2>3 DEF TableInv, Good, Exact
      <3>2. n.bseq.i + t - n.seq = x.bseq.i + t - x.seq
        BY <1>1, <1>2, <1>3, <1>4, <2>0
      <3> QED
        BY <3>1, <3>2, <1>1, <1>2, <1>4
    <2> QED
      BY <1>6, <1>7, <2>1, <2>2, <2>3
  <1>8. \A p \in table \ {o, n} : p.seq + p.size = x.seq => p.bseq.b # x.bseq.b
    BY <1>1, <1>4 DEF TableInv, Good, Runs, Maximal
  <1>9. \A p \in table \ {o, n} : x.seq + x.size = p.seq => x.bseq.b # p.bseq.b
    BY <1>1, <1>2, <1>4, <1>5 DEF TableInv, Good, Runs, Maximal
  <1>10. table' = Replaced({o, n}, x)
    BY DEF Replaced
  <1>11. x.seq + x.size - 1 <= N
    BY <1>3, <1>5
  <1>12. Spans({o, n}, x, s)
    <2> HIDE DEF x
    <2> QED
      BY <1>1, <1>2, <1>4, <1>6, <1>7, <1>8, <1>9, <1>11 DEF Spans
  <1>13. /\ Good(table')
         /\ \A t \in Seqs : Covers(table', t) <=> (t \in known \/ t = s)
    <2> HIDE DEF x
    <2> QED
      BY <1>10, <1>12, Replace
  <1> QED
    BY <1>13, GoodPrime DEF AddedTable

LEMMA AddToNextGood ==
  ASSUME TableInv, UNCHANGED bseq, NEW s \in Seqs, ~Covers(table, s),
         Prev(s) = {}, NEW n \in Succ(s),
         table' = (table \ {n})
                    \cup {[seq |-> s, bseq |-> bseq[s], size |-> n.size + 1]}
  PROVE  AddedTable(s)
  <1> DEFINE x == [seq |-> s, bseq |-> bseq[s], size |-> n.size + 1]
  <1>1. /\ n \in table /\ n \in Section /\ n.seq = s + 1 /\ s + 1 \in Seqs
        /\ n.bseq.b = bseq[s].b /\ n.bseq.i = bseq[s].i + 1
    BY SuccBegins
  <1>2. /\ s \in Int /\ n.seq \in Int /\ n.size \in Nat /\ n.size > 0
        /\ n.bseq.i \in Nat /\ n.seq + n.size - 1 <= N
    BY <1>1, SectionType, SeqType DEF TableInv, Good, Runs, Sound
  <1>3. bseq[s] \in Bseq /\ bseq[s].i \in Nat
    BY BranchTableAssumption DEF HistoryAssumption, TableInv, Types, Bseq
  <1>4. /\ x \in Section /\ x.seq = s /\ x.size = n.size + 1 /\ x.bseq = bseq[s]
        /\ x.seq + x.size = n.seq + n.size
    BY <1>1, <1>2, <1>3 DEF Section
  <1>5. \A t \in Seqs : Has(x, t) <=> (t = s \/ \E r \in {n} : Has(r, t))
    BY <1>1, <1>2, <1>4, SeqType DEF Has
  <1>6. ASSUME NEW t \in Seqs, Has(x, t)
        PROVE  bseq[t] = [b |-> x.bseq.b, i |-> x.bseq.i + t - x.seq]
    <2>1. CASE t = s
      BY <2>1, <1>2, <1>3, <1>4 DEF Bseq
    <2>2. CASE Has(n, t)
      <3>1. bseq[t] = [b |-> n.bseq.b, i |-> n.bseq.i + t - n.seq]
        BY <1>1, <2>2 DEF TableInv, Good, Exact
      <3>2. n.bseq.i + t - n.seq = x.bseq.i + t - x.seq
        <4>1. t \in Int
          BY SeqType
        <4> QED
          BY <4>1, <1>1, <1>2, <1>3, <1>4
      <3> QED
        BY <3>1, <3>2, <1>1, <1>4
    <2> QED
      BY <1>5, <1>6, <2>1, <2>2
  <1>7. ASSUME NEW p \in table \ {n}, p.seq + p.size = x.seq
        PROVE  p.bseq.b # x.bseq.b
    <2>1. p \in Section
      BY DEF TableInv, Good
    <2>2. Has(p, s - 1)
      BY <2>1, <1>2, <1>4, <1>7, SectionType DEF Has
    <2> QED
      BY <2>2, <1>4 DEF Prev
  <1>8. \A p \in table \ {n} : x.seq + x.size = p.seq => x.bseq.b # p.bseq.b
    BY <1>1, <1>4 DEF TableInv, Good, Runs, Maximal
  <1>9. table' = Replaced({n}, x) /\ x.seq + x.size - 1 <= N
    BY <1>2, <1>4 DEF Replaced
  <1>10. Spans({n}, x, s)
    <2> HIDE DEF x
    <2> QED
      BY <1>1, <1>4, <1>5, <1>6, <1>7, <1>8, <1>9 DEF Spans
  <1>11. /\ Good(table')
         /\ \A t \in Seqs : Covers(table', t) <=> (t \in known \/ t = s)
    <2> HIDE DEF x
    <2> QED
      BY <1>9, <1>10, Replace
  <1> QED
    BY <1>11, GoodPrime DEF AddedTable

LEMMA AddSectionGood ==
  ASSUME TableInv, UNCHANGED bseq, NEW s \in Seqs, ~Covers(table, s),
         AddSection(s)
  PROVE  AddedTable(s)
  <1> DEFINE x == [seq |-> s, bseq |-> bseq[s], size |-> 1]
  <1>1. s \in Int /\ s <= N /\ N \in Int
    BY SeqType, BranchTableAssumption
  <1>2. bseq[s] \in Bseq /\ bseq[s].i \in Nat
    BY BranchTableAssumption DEF HistoryAssumption, TableInv, Types, Bseq
  <1>3. /\ x \in Section /\ x.seq = s /\ x.size = 1 /\ x.bseq = bseq[s]
        /\ x.seq + x.size = s + 1
    BY <1>1, <1>2 DEF Section
  <1>4. \A t \in Seqs : Has(x, t) <=> (t = s \/ \E r \in {} : Has(r, t))
    BY <1>1, <1>3, SeqType DEF Has
  <1>5. ASSUME NEW t \in Seqs, Has(x, t)
        PROVE  bseq[t] = [b |-> x.bseq.b, i |-> x.bseq.i + t - x.seq]
    <2>1. t = s
      BY <1>4, <1>5
    <2>2. x.bseq.i + t - x.seq = bseq[s].i
      BY <2>1, <1>1, <1>2, <1>3
    <2> QED
      BY <2>1, <2>2, <1>2, <1>3 DEF Bseq
  <1>6. ASSUME NEW p \in table \ {}
        PROVE  /\ p.seq + p.size = x.seq => p.bseq.b # x.bseq.b
               /\ x.seq + x.size = p.seq => x.bseq.b # p.bseq.b
    <2>1. p \in Section
      BY DEF TableInv, Good
    <2>2. p.seq + p.size = s => Has(p, s - 1)
      BY <2>1, <1>1, SectionType DEF Has
    <2>3. p.seq = s + 1 => Has(p, s + 1)
      BY <2>1, <1>1, SectionType DEF Has
    <2> QED
      BY <2>2, <2>3, <1>3 DEF Prev, Succ, AddSection
  <1>7. table' = Replaced({}, x)
    BY DEF Replaced, AddSection
  <1>8. Spans({}, x, s)
    <2> HIDE DEF x
    <2> QED
      BY <1>1, <1>3, <1>4, <1>5, <1>6 DEF Spans
  <1>9. /\ Good(table')
        /\ \A t \in Seqs : Covers(table', t) <=> (t \in known \/ t = s)
    <2> HIDE DEF x
    <2> QED
      BY <1>7, <1>8, Replace
  <1> QED
    BY <1>9, GoodPrime DEF AddedTable

\* Branch_table.add keeps the table good and adds s to it.
LEMMA AddGood ==
  ASSUME TableInv, UNCHANGED bseq, NEW s \in Seqs, Add(s)
  PROVE  Good(table)' /\ CoversKnown'
  <1>1. AddedTable(s)
    <2>1. CASE Covers(table, s) /\ UNCHANGED <<table, tops, queue>>
      <3>1. Good(table') /\ s \in known
        BY <2>1 DEF TableInv, CoversKnown
      <3>2. \A t \in Seqs : Covers(table', t) <=> (t \in known \/ t = s)
        BY <2>1, <3>1 DEF TableInv, CoversKnown
      <3> QED
        BY <3>1, <3>2, GoodPrime DEF AddedTable
    <2>2. CASE ~Covers(table, s) /\ AddToPrev(s)
      <3>1. PICK o \in Prev(s) : Extend(s, o) \/ Join(s, o)
        BY <2>2 DEF AddToPrev
      <3> QED
        BY <2>2, <3>1, ExtendGood, JoinGood DEF Join
    <2>3. CASE ~Covers(table, s) /\ AddToNext(s)
      BY <2>3, AddToNextGood DEF AddToNext
    <2>4. CASE ~Covers(table, s) /\ AddSection(s)
      BY <2>4, AddSectionGood
    <2> QED
      BY <2>1, <2>2, <2>3, <2>4 DEF Add
  <1>2. known' = known \cup {s}
    BY DEF Add
  <1>3. \A t \in Seqs : Covers(table', t) <=> t \in known'
    BY <1>1, <1>2 DEF AddedTable
  <1> QED
    BY <1>1, <1>3 DEF AddedTable, CoversKnown, Covers, Has, Seqs

-----------------------------------------------------------------------------
(* The schedule.                                                           *)

LEMMA ExtendScheduled ==
  ASSUME Good(table), Scheduled, UNCHANGED flushed, NEW s \in Seqs,
         NEW o \in table, Extend(s, o)
  PROVE  Scheduled'
  <1>1. table' = (table \ {o}) \cup {[o EXCEPT !.size = @ + 1]}
    BY DEF Extend
  <1>2. queue'.mod = queue.mod \cup {o.seq} /\ queue'.rm = queue.rm \ {o.seq}
    BY DEF Extend, Schedule
  <1>3. [o EXCEPT !.size = @ + 1].seq = o.seq
    BY DEF Good, Section
  <1> QED
    BY <1>1, <1>2, <1>3 DEF Scheduled

LEMMA JoinScheduled ==
  ASSUME Good(table), Scheduled, UNCHANGED flushed, NEW s \in Seqs,
         NEW o \in table, NEW n \in table, o.seq # n.seq,
         table' = (table \ {o, n}) \cup {[o EXCEPT !.size = @ + 1 + n.size]},
         Schedule({o.seq}, {n.seq})
  PROVE  Scheduled'
  <1> DEFINE x == [o EXCEPT !.size = @ + 1 + n.size]
  <1>1. /\ queue'.mod = (queue.mod \ {n.seq}) \cup {o.seq}
        /\ queue'.rm = (queue.rm \ {o.seq}) \cup {n.seq}
    BY DEF Schedule
  <1>2. x.seq = o.seq
    BY DEF Good, Section
  <1>3. \A p \in table \ {n} : p.seq # n.seq
    BY SameSection
  <1> HIDE DEF x
  <1>4. \A q \in queue'.mod : \E p \in table' : p.seq = q
    BY <1>1, <1>2 DEF Scheduled, x
  <1>5. \A p \in table' : p.seq \in queue'.mod \/ p \in flushed
    BY <1>1, <1>2, <1>3 DEF Scheduled, x
  <1>6. \A p \in table' : p.seq \notin queue'.rm
    BY <1>1, <1>2, <1>3 DEF Scheduled, x
  <1>7. \A p \in flushed : p \in table' \/ p.seq \in queue'.mod \cup queue'.rm
    BY <1>1, <1>2 DEF Scheduled, x
  <1> QED
    BY <1>4, <1>5, <1>6, <1>7 DEF Scheduled

LEMMA NewScheduled ==
  ASSUME Good(table), Scheduled, UNCHANGED flushed, NEW s, NEW x, x.seq = s,
         NEW R, R \subseteq table,
         \A p \in table : p.seq # s,
         table' = (table \ R) \cup {x},
         Schedule({s}, {p.seq : p \in R})
  PROVE  Scheduled'
  <1>1. /\ queue'.mod = (queue.mod \ {p.seq : p \in R}) \cup {s}
        /\ queue'.rm = (queue.rm \ {s}) \cup {p.seq : p \in R}
    BY DEF Schedule
  <1>2. \A p \in table \ R : p.seq \notin {r.seq : r \in R}
    BY SameSection
  <1>3. \A q \in queue'.mod : \E p \in table' : p.seq = q
    BY <1>1 DEF Scheduled
  <1>4. \A p \in table' : p.seq \in queue'.mod \/ p \in flushed
    BY <1>1, <1>2 DEF Scheduled
  <1>5. \A p \in table' : p.seq \notin queue'.rm
    BY <1>1, <1>2 DEF Scheduled
  <1>6. \A p \in flushed : p \in table' \/ p.seq \in queue'.mod \cup queue'.rm
    BY <1>1 DEF Scheduled
  <1> QED
    BY <1>3, <1>4, <1>5, <1>6 DEF Scheduled

LEMMA AddScheduled ==
  ASSUME TableInv, Scheduled, UNCHANGED <<bseq, flushed>>, NEW s \in Seqs, Add(s)
  PROVE  Scheduled'
  <1>0. Good(table)
    BY DEF TableInv
  <1>1. CASE Covers(table, s) /\ UNCHANGED <<table, tops, queue>>
    BY <1>1 DEF Scheduled
  <1>2. CASE ~Covers(table, s) /\ AddToPrev(s)
    <2>1. PICK o \in Prev(s) : Extend(s, o) \/ Join(s, o)
      BY <1>2 DEF AddToPrev
    <2>2. o \in table
      BY DEF Prev
    <2>3. CASE Extend(s, o)
      BY <1>0, <2>2, <2>3, ExtendScheduled
    <2>4. CASE Join(s, o)
      <3>1. PICK n \in Succ(s) :
              /\ table' = (table \ {o, n}) \cup {[o EXCEPT !.size = @ + 1 + n.size]}
              /\ Schedule({o.seq}, {n.seq})
        BY <2>4 DEF Join
      <3>2. o \in Section /\ o.seq + o.size = s
        BY <1>2, PrevEnds
      <3>3. n \in table /\ n.seq = s + 1
        BY <1>2, SuccBegins
      <3>4. o.seq # n.seq
        BY <3>2, <3>3, SectionType
      <3> QED
        BY <1>0, <2>2, <3>1, <3>3, <3>4, JoinScheduled
    <2> QED
      BY <2>1, <2>3, <2>4
  <1>3. ASSUME ~Covers(table, s), NEW p \in table
        PROVE  p.seq # s
    <2>1. p \in Section
      BY <1>0 DEF Good
    <2> QED
      BY <1>3, <2>1, SectionType DEF Covers, Has
  <1>4. CASE ~Covers(table, s) /\ AddToNext(s)
    <2>1. PICK n \in Succ(s) :
            /\ table' = (table \ {n})
                 \cup {[seq |-> s, bseq |-> bseq[s], size |-> n.size + 1]}
            /\ Schedule({s}, {n.seq})
      BY <1>4 DEF AddToNext
    <2>2. n \in table
      BY DEF Succ
    <2>3. {p.seq : p \in {n}} = {n.seq}
      OBVIOUS
    <2> DEFINE x == [seq |-> s, bseq |-> bseq[s], size |-> n.size + 1]
    <2>4. x.seq = s /\ table' = (table \ {n}) \cup {x}
      BY <2>1
    <2>5. Schedule({s}, {p.seq : p \in {n}}) /\ {n} \subseteq table
      BY <2>1, <2>2, <2>3
    <2>6. \A p \in table : p.seq # s
      BY <1>3, <1>4
    <2> HIDE DEF x
    <2> QED
      BY <1>0, <2>4, <2>5, <2>6, NewScheduled
  <1>5. CASE ~Covers(table, s) /\ AddSection(s)
    <2> DEFINE x == [seq |-> s, bseq |-> bseq[s], size |-> 1]
    <2>1. x.seq = s /\ table' = (table \ {}) \cup {x} /\ Schedule({s}, {})
      BY <1>5 DEF AddSection
    <2>2. {p.seq : p \in {}} = {}
      OBVIOUS
    <2> HIDE DEF x
    <2> QED
      BY <1>0, <1>3, <1>5, <2>1, <2>2, NewScheduled
  <1> QED
    BY <1>1, <1>2, <1>4, <1>5 DEF Add

\* Writing what is scheduled to the rows of flushed gives the table.
LEMMA ScheduledWritten ==
  ASSUME Good(table), Scheduled
  PROVE  Written(flushed, [mod |-> ModRows, rm |-> queue.rm]) = table
  <1>1. ModRows = {o \in table : o.seq \in queue.mod}
    <2>1. ASSUME NEW o \in table, NEW q \in queue.mod, Has(o, q)
          PROVE  o.seq \in queue.mod
      <3>1. PICK p \in table : p.seq = q
        BY DEF Scheduled
      <3>2. p \in Section /\ p.seq \in Seqs /\ Has(p, q)
        BY <3>1, SectionType DEF Good, Has
      <3>3. o = p
        BY <2>1, <3>1, <3>2 DEF Good, Runs, Disjoint
      <3> QED
        BY <3>1, <3>3
    <2>2. ASSUME NEW o \in table PROVE Has(o, o.seq)
      BY SectionType DEF Good, Has
    <2> QED
      BY <2>1, <2>2 DEF ModRows
  <1> DEFINE u == [mod |-> ModRows, rm |-> queue.rm]
  <1>2. ASSUME NEW o \in Written(flushed, u) PROVE o \in table
    BY <1>1, <1>2 DEF Scheduled, Written
  <1>3. ASSUME NEW o \in table PROVE o \in Written(flushed, u)
    <2>1. CASE o.seq \in queue.mod
      BY <1>1, <2>1 DEF Written
    <2>2. CASE o.seq \notin queue.mod
      BY <1>1, <2>2 DEF Scheduled, Written
    <2> QED
      BY <2>1, <2>2
  <1> QED
    BY <1>2, <1>3

-----------------------------------------------------------------------------
(* Steps that change neither table nor schedule.                           *)

LEMMA GoodStep == ASSUME UNCHANGED bseq, NEW secs, Good(secs) PROVE Good(secs)'
  BY DEF Good, Runs, Sound, Disjoint, Maximal, Exact

LEMMA SnapsStep ==
  ASSUME Disk, UNCHANGED bseq, Good(table), Snaps' \subseteq Snaps \cup {{}, table}
  PROVE  (\A secs \in Snaps : Good(secs))'
  <1>1. ASSUME NEW secs \in Snaps' PROVE Good(secs)'
    <2>1. CASE secs \in Snaps \cup {table}
      <3>1. Good(secs)
        BY <2>1 DEF Disk
      <3> QED
        BY <3>1, GoodStep
    <2>2. CASE secs = {}
      BY <2>2 DEF Good, Runs, Sound, Disjoint, Maximal, Exact
    <2> QED
      BY <1>1, <2>1, <2>2
  <1> QED
    BY <1>1

LEMMA DiskStep ==
  ASSUME Disk, Good(table), UNCHANGED <<bseq, flushed, dbq, rows, rowTop>>
  PROVE  Disk'
  <1>1. (\A secs \in Snaps : Good(secs))'
    <2>1. Snaps' = Snaps
      BY DEF Snaps
    <2> QED
      BY <2>1, SnapsStep
  <1>2. Chain' /\ LastSnap' = flushed' /\ (rowTop' = -1 => rows' = {})
    BY DEF Disk, Chain, LastSnap
  <1> QED
    BY <1>1, <1>2 DEF Disk

LEMMA FirstTable ==
  ASSUME NEW h \in Histories
  PROVE  LET x == FirstSection(h)
         IN  /\ x \in Section /\ x.seq = 0 /\ x.size = 1 /\ x.bseq = h[0]
             /\ 0 \in Seqs /\ x.seq + x.size = 1 /\ x.seq + x.size - 1 <= N
             /\ \A t \in Seqs : Has(x, t) <=> t = 0
             /\ h[0] = [b |-> x.bseq.b, i |-> x.bseq.i + 0 - x.seq]
  <1> DEFINE x == FirstSection(h)
  <1>1. h \in [Seqs -> Bseq] /\ 0 \in Seqs /\ N \in Int /\ 0 <= N
    BY BranchTableAssumption DEF HistoryAssumption, Seqs
  <1>2. x \in Section /\ x.seq = 0 /\ x.size = 1 /\ x.bseq = h[0] /\ h[0] \in Bseq
    BY <1>1 DEF FirstSection, Section
  <1>3. ASSUME NEW t \in Seqs PROVE Has(x, t) <=> t = 0
    BY <1>2, SeqType DEF Has
  <1>4. h[0] = [b |-> x.bseq.b, i |-> x.bseq.i + 0 - x.seq]
    BY <1>2 DEF Bseq
  <1> QED
    BY <1>1, <1>2, <1>3, <1>4

LEMMA FirstGood ==
  ASSUME bseq \in Histories
  PROVE  Good({FirstSection(bseq)})
  <1> DEFINE x == FirstSection(bseq)
  <1>1. /\ x \in Section /\ x.seq = 0 /\ x.size = 1 /\ x.bseq = bseq[0]
        /\ x.seq + x.size = 1 /\ x.seq + x.size - 1 <= N
        /\ \A t \in Seqs : Has(x, t) <=> t = 0
        /\ bseq[0] = [b |-> x.bseq.b, i |-> x.bseq.i + 0 - x.seq]
    BY FirstTable
  <1> HIDE DEF x
  <1>2. Sound({x})
    BY <1>1 DEF Sound
  <1>3. Disjoint({x}) /\ Maximal({x})
    BY <1>1 DEF Disjoint, Maximal
  <1>4. Exact({x})
    BY <1>1 DEF Exact
  <1>5. Good({x})
    BY <1>1, <1>2, <1>3, <1>4 DEF Good, Runs
  <1> QED
    BY <1>5 DEF x

LEMMA InitIInv == Init => IInv
  <1> SUFFICES ASSUME Init PROVE IInv
    OBVIOUS
  <1> DEFINE x == FirstSection(bseq)
  <1>1. table = {x} /\ known = {0} /\ queue = [mod |-> {0}, rm |-> {}]
        /\ flushed = {} /\ rows = {} /\ dbq = <<>> /\ bseq \in Histories
    BY DEF Init
  <1>2. /\ x \in Section /\ x.seq = 0 /\ x.size = 1 /\ x.bseq = bseq[0]
        /\ 0 \in Seqs /\ x.seq + x.size = 1 /\ x.seq + x.size - 1 <= N
        /\ \A t \in Seqs : Has(x, t) <=> t = 0
        /\ bseq[0] = [b |-> x.bseq.b, i |-> x.bseq.i + 0 - x.seq]
    BY <1>1, FirstTable
  <1>3. Good(table)
    BY <1>1, FirstGood
  <1> HIDE DEF x
  <1>4. CoversKnown /\ Scheduled
    BY <1>1, <1>2 DEF CoversKnown, Covers, Scheduled
  <1>5. Disk
    <2>1. Snaps = {{}}
      BY <1>1 DEF Snaps
    <2>2. Chain /\ LastSnap = flushed
      BY <1>1 DEF Chain, LastSnap
    <2>3. Good({})
      BY DEF Good, Runs, Sound, Disjoint, Maximal, Exact
    <2> QED
      BY <1>1, <2>1, <2>2, <2>3 DEF Disk
  <1>6. Types
    BY <1>1, <1>2 DEF Init, Types
  <1> QED
    BY <1>3, <1>4, <1>5, <1>6 DEF IInv, TableInv

LEMMA AddQueueType ==
  ASSUME TableInv, NEW s \in Seqs, Add(s)
  PROVE  queue' \in [mod : SUBSET Seqs, rm : SUBSET Seqs]
  <1>1. ASSUME NEW m \in SUBSET Seqs, NEW r \in SUBSET Seqs, Schedule(m, r)
        PROVE  queue' \in [mod : SUBSET Seqs, rm : SUBSET Seqs]
    BY <1>1 DEF Schedule, TableInv, Types
  <1>2. \A o \in table : o.seq \in Seqs
    BY DEF TableInv, Good, Section
  <1>3. CASE Covers(table, s) /\ UNCHANGED <<table, tops, queue>>
    BY <1>3 DEF TableInv, Types
  <1>4. CASE AddToPrev(s)
    <2>1. PICK o \in Prev(s) : Extend(s, o) \/ Join(s, o)
      BY <1>4 DEF AddToPrev
    <2>2. o \in table /\ {o.seq} \in SUBSET Seqs
      BY <1>2 DEF Prev
    <2>3. CASE Extend(s, o)
      BY <2>2, <2>3, <1>1 DEF Extend
    <2>4. CASE Join(s, o)
      <3>1. PICK n \in Succ(s) : Schedule({o.seq}, {n.seq})
        BY <2>4 DEF Join
      <3>2. {n.seq} \in SUBSET Seqs
        BY <1>2 DEF Succ
      <3> QED
        BY <2>2, <3>1, <3>2, <1>1
    <2> QED
      BY <2>1, <2>3, <2>4
  <1>5. CASE AddToNext(s)
    BY <1>5, <1>1, <1>2 DEF AddToNext, Succ
  <1>6. CASE AddSection(s)
    BY <1>6, <1>1 DEF AddSection
  <1> QED
    BY <1>3, <1>4, <1>5, <1>6 DEF Add

LEMMA PutStep ==
  ASSUME IInv, NEW s \in Seqs, Put(s)
  PROVE  IInv'
  <1>1. TableInv /\ Scheduled /\ Disk /\ Add(s)
        /\ UNCHANGED <<bseq, flushed, dbq, rows, rowTop, saved, stored>>
    BY DEF IInv, Put, dbVars
  <1>2. Good(table)' /\ CoversKnown'
    BY <1>1, AddGood
  <1>3. Scheduled'
    BY <1>1, AddScheduled
  <1>4. Disk'
    BY <1>1, DiskStep DEF TableInv
  <1>5. queue' \in [mod : SUBSET Seqs, rm : SUBSET Seqs]
    BY <1>1, AddQueueType
  <1>6. Types'
    BY <1>1, <1>5 DEF TableInv, Types, Put, Add
  <1> QED
    BY <1>2, <1>3, <1>4, <1>6 DEF IInv, TableInv

LEMMA LoadStep ==
  ASSUME IInv, NEW s \in Seqs, Load(s)
  PROVE  IInv'
  <1>1. TableInv /\ Scheduled /\ Disk /\ Add(s)
        /\ UNCHANGED <<bseq, flushed, dbq, rows, rowTop, saved, stored>>
    BY DEF IInv, Load, dbVars
  <1>2. Good(table)' /\ CoversKnown'
    BY <1>1, AddGood
  <1>3. Scheduled'
    BY <1>1, AddScheduled
  <1>4. Disk'
    BY <1>1, DiskStep DEF TableInv
  <1>5. queue' \in [mod : SUBSET Seqs, rm : SUBSET Seqs]
    BY <1>1, AddQueueType
  <1>6. Types'
    BY <1>1, <1>5 DEF TableInv, Types, Load, Add
  <1> QED
    BY <1>2, <1>3, <1>4, <1>6 DEF IInv, TableInv

LEMMA CommitStep ==
  ASSUME IInv, Commit
  PROVE  IInv'
  <1> DEFINE u == Head(dbq)
  <1>1. /\ TableInv /\ Scheduled /\ Disk /\ dbq \in Seq(Update) /\ dbq # <<>>
        /\ UNCHANGED <<bseq, known, table, tops, queue, top, saved, qdecl, flushed>>
    BY DEF IInv, TableInv, Types, Commit, memVars
  <1>2. /\ u \in Update /\ u = dbq[1] /\ dbq' = Tail(dbq) /\ dbq' \in Seq(Update)
        /\ Len(dbq) \in Nat /\ Len(dbq) > 0 /\ Len(dbq') = Len(dbq) - 1
        /\ \A i \in DOMAIN dbq' : i \in Nat /\ i > 0 /\ dbq'[i] = dbq[i + 1] /\ i + 1 \in DOMAIN dbq
    BY <1>1 DEF Commit
  <1> HIDE DEF u
  <1>3. rows' = u.snap /\ rowTop' = u.top /\ u.top # -1 /\ u.snap \in Snaps
    <2>1. rows' = Written(rows, u) /\ rowTop' = u.top
      BY DEF Commit, u
    <2>2. 1 \in DOMAIN dbq
      BY <1>1, <1>2
    <2>3. Written(rows, u) = u.snap
      BY <1>1, <1>2, <2>2 DEF Disk, Chain
    <2>4. u.top \in Seqs
      BY <1>2 DEF Update
    <2> QED
      BY <1>2, <2>1, <2>2, <2>3, <2>4, SeqType DEF Snaps
  <1>4. Snaps' \subseteq Snaps
    BY <1>1, <1>2, <1>3 DEF Snaps
  <1>5. Chain'
    <2> SUFFICES ASSUME NEW i \in DOMAIN dbq'
                 PROVE  Written(IF i = 1 THEN rows' ELSE dbq'[i - 1].snap, dbq'[i])
                          = dbq'[i].snap
      BY DEF Chain, Written
    <2>1. Written(dbq[i].snap, dbq[i + 1]) = dbq[i + 1].snap
      <3>1. i + 1 # 1 /\ (i + 1) - 1 = i /\ i + 1 \in DOMAIN dbq
        BY <1>2
      <3>2. Written(IF i + 1 = 1 THEN rows ELSE dbq[(i + 1) - 1].snap, dbq[i + 1])
              = dbq[i + 1].snap
        BY <1>1, <3>1 DEF Disk, Chain
      <3> QED
        BY <3>1, <3>2
    <2>2. CASE i = 1
      BY <1>2, <1>3, <2>1, <2>2
    <2>3. CASE i # 1
      <3>1. i - 1 \in DOMAIN dbq' /\ (i - 1) + 1 = i
        BY <1>2, <2>3
      <3>2. dbq'[i - 1] = dbq[i]
        BY <1>2, <3>1
      <3> QED
        BY <1>2, <2>1, <2>3, <3>2
    <2> QED
      BY <2>2, <2>3
  <1>6. LastSnap' = flushed'
    <2>1. LastSnap = dbq[Len(dbq)].snap
      BY <1>1 DEF LastSnap
    <2>2. CASE Len(dbq) = 1
      <3>1. dbq' = <<>>
        BY <1>2, <2>2
      <3> QED
        BY <1>1, <1>2, <1>3, <2>1, <2>2, <3>1 DEF Disk, LastSnap
    <2>3. CASE Len(dbq) # 1
      <3>1. dbq' # <<>> /\ Len(dbq') \in DOMAIN dbq'
        <4>1. Len(dbq') \in Nat /\ Len(dbq') > 0 /\ DOMAIN dbq' = 1 .. Len(dbq')
          BY <1>2, <2>3
        <4> QED
          BY <4>1
      <3>2. dbq'[Len(dbq')] = dbq[Len(dbq)]
        BY <1>2, <3>1
      <3> QED
        BY <1>1, <2>1, <3>1, <3>2 DEF Disk, LastSnap
    <2> QED
      BY <2>2, <2>3
  <1>7. Disk'
    BY <1>1, <1>3, <1>4, <1>5, <1>6, SnapsStep DEF Disk, TableInv
  <1>8. Types'
    <2>1. u.top \in Seqs /\ u.decl \subseteq Seqs
      BY <1>2 DEF Update
    <2>2. rowTop' \in Seqs \cup {-1} /\ stored' \subseteq Seqs
      BY <1>1, <1>3, <2>1 DEF Commit, TableInv, Types, u
    <2> QED
      BY <1>1, <1>2, <2>2 DEF TableInv, Types
  <1>9. Good(table)' /\ CoversKnown' /\ Scheduled'
    BY <1>1, GoodPrime DEF TableInv, CoversKnown, Scheduled, Covers, Has
  <1> QED
    BY <1>7, <1>8, <1>9 DEF IInv, TableInv

LEMMA EndUpdateStep ==
  ASSUME IInv, EndUpdate
  PROVE  IInv'
  <1>1. /\ TableInv /\ Scheduled /\ Disk /\ Good(table) /\ dbq \in Seq(Update)
        /\ UNCHANGED <<bseq, known, table, tops, top, rows, rowTop, stored>>
        /\ top \in Seqs /\ qdecl \subseteq Seqs /\ Good(flushed)
        /\ queue.rm \subseteq Seqs
    BY DEF IInv, TableInv, Types, EndUpdate, dbVars, Disk, Snaps
  <1>2. PICK u \in Update :
          /\ dbq' = Append(dbq, u)
          /\ Written(flushed, u) = u.snap
          /\ u.snap = flushed'
          /\ flushed' \in {flushed, table}
    <2>1. CASE UNCHANGED <<queue, flushed>> /\ dbq' = Append(dbq, Gathered({}, {}, flushed))
      <3>1. Gathered({}, {}, flushed) \in Update
        BY <1>1 DEF Gathered, Update, Good
      <3>2. Written(flushed, Gathered({}, {}, flushed)) = flushed
        BY DEF Written, Gathered
      <3> QED
        BY <2>1, <3>1, <3>2 DEF Gathered
    <2>2. CASE /\ dbq' = Append(dbq, Gathered(ModRows, queue.rm, table))
               /\ queue' = NoQueue /\ flushed' = table
      <3>1. Gathered(ModRows, queue.rm, table) \in Update
        BY <1>1 DEF Gathered, Update, Good, ModRows
      <3>2. Written(flushed, Gathered(ModRows, queue.rm, table)) = table
        BY <1>1, ScheduledWritten DEF Written, Gathered
      <3> QED
        BY <2>2, <3>1, <3>2 DEF Gathered
    <2> QED
      BY <2>1, <2>2 DEF EndUpdate, TakeQueue
  <1>3. /\ dbq' \in Seq(Update) /\ Len(dbq) \in Nat /\ Len(dbq') = Len(dbq) + 1
        /\ DOMAIN dbq = 1 .. Len(dbq)
        /\ DOMAIN dbq' = 1 .. Len(dbq) + 1
        /\ \A i \in 1 .. Len(dbq) : dbq'[i] = dbq[i]
        /\ dbq'[Len(dbq) + 1] = u
    BY <1>1, <1>2
  <1>4. Snaps' \subseteq Snaps \cup {{}, table}
    BY <1>1, <1>2, <1>3 DEF Snaps
  <1>5. Chain'
    <2> SUFFICES ASSUME NEW i \in DOMAIN dbq'
                 PROVE  Written(IF i = 1 THEN rows ELSE dbq'[i - 1].snap, dbq'[i])
                          = dbq'[i].snap
      BY <1>1 DEF Chain, Written
    <2>1. CASE i \in 1 .. Len(dbq)
      <3>1. i = 1 \/ i - 1 \in 1 .. Len(dbq)
        BY <1>3, <2>1
      <3> QED
        BY <1>1, <1>3, <2>1, <3>1 DEF Disk, Chain
    <2>2. CASE i = Len(dbq) + 1
      <3>1. LastSnap = flushed
        BY <1>1 DEF Disk
      <3>2. CASE dbq = <<>>
        BY <1>2, <1>3, <2>2, <3>1, <3>2 DEF LastSnap
      <3>3. CASE dbq # <<>>
        <4>1. i # 1 /\ i - 1 = Len(dbq) /\ Len(dbq) \in 1 .. Len(dbq)
          BY <1>1, <1>3, <2>2, <3>3
        <4>2. dbq'[i - 1].snap = flushed
          BY <1>3, <3>1, <3>3, <4>1 DEF LastSnap
        <4> QED
          BY <1>2, <1>3, <2>2, <4>1, <4>2
      <3> QED
        BY <3>2, <3>3
    <2> QED
      BY <1>3, <2>1, <2>2
  <1>6. LastSnap' = flushed'
    <2>1. dbq' # <<>>
      BY <1>3
    <2> QED
      BY <1>2, <1>3, <2>1 DEF LastSnap
  <1>7. Disk'
    BY <1>1, <1>4, <1>5, <1>6, SnapsStep DEF Disk
  <1>8. Good(table)' /\ CoversKnown'
    BY <1>1, GoodPrime DEF TableInv, CoversKnown, Covers, Has
  <1>9. Scheduled' /\ queue' \in [mod : SUBSET Seqs, rm : SUBSET Seqs]
    BY <1>1 DEF EndUpdate, TakeQueue, Scheduled, NoQueue, TableInv, Types
  <1>10. Types'
    BY <1>1, <1>3, <1>9 DEF EndUpdate, TableInv, Types
  <1> QED
    BY <1>7, <1>8, <1>9, <1>10 DEF IInv, TableInv

LEMMA RestartStep ==
  ASSUME IInv, Restart
  PROVE  IInv'
  <1>1. /\ TableInv /\ Disk /\ Good(rows) /\ Good(table)
        /\ UNCHANGED <<bseq, rows, rowTop, stored>> /\ dbq' = <<>> /\ qdecl' = {}
    BY DEF IInv, TableInv, Disk, Snaps, Restart, dbVars
  <1>2. CASE rowTop = -1 /\ EmptyScroll(bseq)
    <2>1. rows = {}
      BY <1>1, <1>2 DEF Disk
    <2> DEFINE x == FirstSection(bseq)
    <2>2. table' = {x} /\ known' = {0} /\ queue' = [mod |-> {0}, rm |-> {}]
          /\ flushed' = {} /\ rows' = {} /\ bseq \in Histories
      BY <1>1, <1>2, <2>1 DEF EmptyScroll, TableInv, Types
    <2>3. /\ x \in Section /\ x.seq = 0 /\ x.size = 1 /\ x.bseq = bseq[0]
          /\ 0 \in Seqs /\ x.seq + x.size = 1 /\ x.seq + x.size - 1 <= N
          /\ \A t \in Seqs : Has(x, t) <=> t = 0
          /\ bseq[0] = [b |-> x.bseq.b, i |-> x.bseq.i + 0 - x.seq]
      BY <2>2, FirstTable
    <2>4. Good(table')
      BY <2>2, FirstGood
    <2> HIDE DEF x
    <2>5. Good(table)' /\ CoversKnown' /\ Scheduled'
      BY <1>1, <2>2, <2>3, <2>4, GoodPrime
      DEF CoversKnown, Covers, Has, Scheduled
    <2>6. Snaps' \subseteq Snaps \cup {{}, table}
      BY <1>1, <2>2 DEF Snaps
    <2>7. Chain' /\ LastSnap' = flushed' /\ (rowTop' = -1 => rows' = {})
      BY <1>1, <2>2 DEF Chain, LastSnap
    <2>8. Disk'
      BY <1>1, <2>6, <2>7, SnapsStep DEF Disk
    <2>9. Types'
      BY <1>1, <1>2, <2>2, <2>3 DEF EmptyScroll, Types, TableInv
    <2> QED
      BY <2>5, <2>8, <2>9 DEF IInv, TableInv
  <1>3. CASE /\ rowTop # -1
             /\ known' = {s \in Seqs : Covers(rows, s)}
             /\ table' = rows /\ tops' = TopsOf(rows)
             /\ queue' = NoQueue /\ flushed' = rows
             /\ top' = rowTop /\ saved' = rowTop
    <2>1. Good(table)' /\ CoversKnown'
      BY <1>1, <1>3, GoodPrime DEF CoversKnown, Covers, Has
    <2>2. Scheduled'
      BY <1>3 DEF Scheduled, NoQueue
    <2>3. Snaps' \subseteq Snaps
      BY <1>1, <1>3 DEF Snaps
    <2>4. Chain' /\ LastSnap' = flushed' /\ (rowTop' = -1 => rows' = {})
      BY <1>1, <1>3 DEF Chain, LastSnap
    <2>5. Disk'
      BY <1>1, <2>3, <2>4, SnapsStep DEF Disk
    <2>6. Types'
      BY <1>1, <1>3 DEF Types, TableInv, NoQueue
    <2> QED
      BY <2>1, <2>2, <2>5, <2>6 DEF IInv, TableInv
  <1> QED
    BY <1>2, <1>3 DEF Restart

-----------------------------------------------------------------------------
(* The theorems.                                                           *)

\* IInv is inductive, whatever arrives, is written or is lost by an exit.
THEOREM Invariance == Spec => []IInv
  <1>1. IInv /\ [Next]_vars => IInv'
    <2> SUFFICES ASSUME IInv, [Next]_vars PROVE IInv'
      OBVIOUS
    <2>1. ASSUME NEW s \in Seqs, Put(s) PROVE IInv'
      BY <2>1, PutStep
    <2>2. ASSUME NEW s \in Seqs, Load(s) PROVE IInv'
      BY <2>2, LoadStep
    <2>3. CASE EndUpdate
      BY <2>3, EndUpdateStep
    <2>4. CASE Commit
      BY <2>4, CommitStep
    <2>5. CASE Restart
      BY <2>5, RestartStep
    <2>6. CASE UNCHANGED vars
      BY <2>6, GoodPrime, DiskStep
      DEF IInv, TableInv, Types, CoversKnown, Covers, Has, Scheduled, vars,
          memVars, dbVars
    <2> QED
      BY <2>1, <2>2, <2>3, <2>4, <2>5, <2>6 DEF Next
  <1> QED
    BY <1>1, InitIInv, PTL DEF Spec

\* Branch_table.add loses no declaration and leaves no overlapping or
\* unmerged sections, whatever the order of arrivals and whatever is lost.
THEOREM SectionsTheorem == Spec => []SectionsAreRuns
  <1>1. IInv => SectionsAreRuns
    BY DEF IInv, TableInv, Good, CoversKnown, SectionsAreRuns
  <1> QED
    BY <1>1, Invariance, PTL

\* get_bseq answers the own number of every declaration the table covers.
THEOREM LookupTheorem == Spec => []LookupRight
  <1>1. IInv => LookupRight
    BY DEF IInv, TableInv, Good, LookupRight
  <1> QED
    BY <1>1, Invariance, PTL

\* The assertions of add and _merge never fail.
THEOREM AssertsTheorem == Spec => []AddAsserts
  <1>1. IInv => AddAsserts
    <2> SUFFICES ASSUME IInv, NEW s \in Seqs, ~Covers(table, s)
                 PROVE  /\ \A o \in Prev(s) : o.seq + o.size = s
                        /\ \A n \in Succ(s) : n.seq = s + 1
                        /\ \A o \in Prev(s), n \in Succ(s) :
                             o.bseq.i + o.size + 1 = n.bseq.i
      BY DEF AddAsserts
    <2>1. TableInv
      BY DEF IInv
    <2>2. \A o \in Prev(s) : o.seq + o.size = s /\ bseq[s].i = o.bseq.i + o.size
      BY <2>1, PrevEnds
    <2>3. \A n \in Succ(s) : n.seq = s + 1 /\ n.bseq.i = bseq[s].i + 1
      BY <2>1, SuccBegins
    <2> QED
      BY <2>2, <2>3
  <1> QED
    BY <1>1, Invariance, PTL

\* Rows, waiting updates and schedule add up to the table: what is scheduled
\* is always enough to bring the database to the table in memory.
THEOREM RowsTheorem == Spec => []RowsFollow
  <1>1. IInv => RowsFollow
    BY ScheduledWritten DEF IInv, TableInv, Disk, RowsFollow
  <1> QED
    BY <1>1, Invariance, PTL
-----------------------------------------------------------------------------
(* The tops of the branches.                                               *)

\* Of the declarations of branch b that c covers, t is the last one.
Last(c, b, t) ==
  /\ (\A s \in Seqs : s \in c => bseq[s].b # b) => t = -1
  /\ (\E s \in Seqs : s \in c /\ bseq[s].b = b) =>
       t \in Seqs /\ t \in c /\ bseq[t].b = b
  /\ \A s \in Seqs : (s \in c /\ bseq[s].b = b) => s <= t

TopsInv ==
  /\ restarts \in Nat
  /\ tops \in [Branch -> Seqs \cup {-1}]
  /\ \A b \in Branch : Last(known, b, tops[b])

\* A set of natural numbers has a least element: the descent that stands for
\* induction here.
LEMMA LeastNat ==
  ASSUME NEW T, T \subseteq Nat, T # {}
  PROVE  \E n \in T : \A m \in T : n <= m
  <1> DEFINE R == {ss \in Nat \X Nat : ss[1] < ss[2]}
  <1>1. IsWellFoundedOn(R, Nat)
    BY NatLessThanWellFounded DEF OpToRel
  <1>2. PICK n \in T : \A m \in T : <<m, n>> \notin R
    <2> HIDE DEF R
    <2> QED BY <1>1, WFMin
  <1>3. ASSUME NEW m \in T, m < n PROVE FALSE
    <2>1. <<m, n>> \in Nat \X Nat /\ <<m, n>>[1] = m /\ <<m, n>>[2] = n
      OBVIOUS
    <2> QED BY <2>1, <1>2, <1>3
  <1> QED
    BY <1>3

LEMMA LastSeq ==
  ASSUME NEW E, E \subseteq Seqs, E # {}
  PROVE  \E e \in E : \A f \in E : f <= e
  <1> DEFINE T == {N - e : e \in E}
  <1>1. \A e \in E : e \in Int /\ e <= N /\ N - e \in Nat
    BY SeqType, BranchTableAssumption DEF Seqs
  <1>2. T \subseteq Nat /\ T # {}
    BY <1>1
  <1>3. PICK n \in T : \A m \in T : n <= m
    <2> HIDE DEF T
    <2> QED
      BY <1>2, LeastNat
  <1>4. PICK e \in E : n = N - e
    OBVIOUS
  <1>5. ASSUME NEW f \in E PROVE f <= e
    <2>1. N - e <= N - f
      BY <1>3, <1>4
    <2> QED
      BY <1>1, <2>1, BranchTableAssumption
  <1> QED
    BY <1>5

\* The tops read from the rows are those of what the rows cover.
LEMMA TopsOfLast ==
  ASSUME Good(table), NEW secs, Good(secs), NEW c,
         \A s \in Seqs : Covers(secs, s) <=> s \in c
  PROVE  /\ TopsOf(secs) \in [Branch -> Seqs \cup {-1}]
         /\ \A b \in Branch : Last(c, b, TopsOf(secs)[b])
  <1> SUFFICES ASSUME NEW b \in Branch
               PROVE  /\ TopsOf(secs)[b] \in Seqs \cup {-1}
                      /\ Last(c, b, TopsOf(secs)[b])
    BY DEF TopsOf
  <1> DEFINE mine == {p \in secs : p.bseq.b = b}
             ends == {o.seq + o.size - 1 : o \in mine}
             t == IF ends = {} THEN -1
                  ELSE CHOOSE e \in ends : \A f \in ends : f <= e
  <1>1. TopsOf(secs)[b] = t
    BY DEF TopsOf
  <1>2. ASSUME NEW o \in mine
        PROVE  /\ o.seq + o.size - 1 \in Seqs /\ Has(o, o.seq + o.size - 1)
               /\ o.seq + o.size - 1 \in c /\ bseq[o.seq + o.size - 1].b = b
    <2>1. o \in secs /\ o \in Section /\ o.bseq.b = b /\ o.seq + o.size - 1 <= N
      BY DEF Good, Runs, Sound
    <2>2. o.seq \in Int /\ o.seq >= 0 /\ o.size \in Nat /\ o.size > 0
      BY <2>1, SectionType
    <2>3. o.seq + o.size - 1 \in Seqs /\ Has(o, o.seq + o.size - 1)
      BY <2>1, <2>2, BranchTableAssumption DEF Has, Seqs
    <2>4. Covers(secs, o.seq + o.size - 1)
      BY <2>1, <2>3 DEF Covers
    <2>5. bseq[o.seq + o.size - 1].b = o.bseq.b
      BY <2>1, <2>3 DEF Good, Runs, Sound
    <2> QED
      BY <2>1, <2>3, <2>4, <2>5
  <1>3. ASSUME NEW s \in Seqs, s \in c, bseq[s].b = b
        PROVE  \E e \in ends : s <= e
    <2>1. PICK o \in secs : Has(o, s)
      BY <1>3 DEF Covers
    <2>2. o \in Section /\ bseq[s].b = o.bseq.b
      BY <2>1 DEF Good, Runs, Sound
    <2>3. o.seq \in Int /\ o.size \in Nat /\ s \in Int
      BY <2>2, SectionType, SeqType
    <2>4. o \in mine /\ s <= o.seq + o.size - 1
      BY <1>3, <2>1, <2>2, <2>3 DEF Has
    <2> QED
      BY <2>4
  <1>4. \A e \in ends : e \in Seqs /\ e \in c /\ bseq[e].b = b
    BY <1>2
  <1>5. CASE ends = {}
    BY <1>1, <1>3, <1>5 DEF Last
  <1>6. CASE ends # {}
    <2>1. ends \subseteq Seqs
      BY <1>4
    <2> HIDE DEF ends
    <2>2. t \in ends /\ \A f \in ends : f <= t
      BY <1>6, <2>1, LastSeq
    <2> HIDE DEF t
    <2>3. t \in Seqs /\ t \in c /\ bseq[t].b = b
      BY <1>4, <2>2
    <2>4. ASSUME NEW s \in Seqs, s \in c, bseq[s].b = b PROVE s <= t
      <3>1. PICK e \in ends : s <= e
        BY <1>3, <2>4
      <3>2. e <= t /\ e \in Int /\ t \in Int /\ s \in Int
        BY <2>1, <2>2, SeqType
      <3> QED
        BY <3>1, <3>2
    <2> QED
      BY <1>1, <2>3, <2>4 DEF Last
  <1> QED
    BY <1>5, <1>6

\* A declaration that joins a section below a known one leaves the top alone.
LEMMA AddTops ==
  ASSUME TableInv, TopsInv, UNCHANGED <<bseq, restarts>>, NEW s \in Seqs, Add(s)
  PROVE  TopsInv'
  <1>1. known' = known \cup {s} /\ known \subseteq Seqs
    BY DEF Add, TableInv, Types
  <1>2. bseq[s].b \in Branch
    BY BranchTableAssumption DEF HistoryAssumption, TableInv, Types, Bseq
  <1>3. CASE tops' = tops /\ \E t \in known : t >= s /\ bseq[t].b = bseq[s].b
    <2>1. PICK t \in known : t >= s /\ bseq[t].b = bseq[s].b
      BY <1>3
    <2>2. ASSUME NEW b \in Branch PROVE Last(known', b, tops[b])
      <3>1. Last(known, b, tops[b]) /\ tops[b] \in Seqs \cup {-1}
        BY DEF TopsInv
      <3>2. t \in Int /\ s \in Int /\ t \in Seqs /\ tops[b] \in Int
        BY <1>1, <3>1, SeqType
      <3> QED
        BY <1>1, <2>1, <3>1, <3>2 DEF Last
    <2> QED
      BY <1>3, <2>2 DEF TopsInv, Last
  <1>4. CASE UpdateTop(s)
    <2> DEFINE old == tops[bseq[s].b]
               new == IF old >= s THEN old ELSE s
    <2>1. tops' = [tops EXCEPT ![bseq[s].b] = new]
      BY <1>4 DEF UpdateTop
    <2>2. old \in Seqs \cup {-1} /\ old \in Int /\ s \in Int
          /\ Last(known, bseq[s].b, old)
      BY <1>2, SeqType DEF TopsInv
    <2> HIDE DEF old
    <2>3. Last(known', bseq[s].b, new) /\ new \in Seqs \cup {-1}
      <3>1. CASE old >= s
        BY <1>1, <2>2, <3>1, SeqType DEF Last
      <3>2. CASE ~(old >= s)
        <4>1. \A x \in Seqs : (x \in known /\ bseq[x].b = bseq[s].b) => x <= old
          BY <2>2 DEF Last
        <4>2. \A x \in Seqs : x \in Int
          BY SeqType
        <4> QED
          BY <1>1, <2>2, <3>2, <4>1, <4>2 DEF Last
      <3> QED
        BY <3>1, <3>2
    <2> HIDE DEF new
    <2>4. tops' \in [Branch -> Seqs \cup {-1}]
      BY <2>1, <2>3 DEF TopsInv
    <2>5. ASSUME NEW b \in Branch PROVE Last(known', b, tops'[b])
      <3>1. CASE b = bseq[s].b
        <4>1. tops'[b] = new
          BY <2>1, <3>1 DEF TopsInv
        <4> QED
          BY <2>3, <3>1, <4>1
      <3>2. CASE b # bseq[s].b
        <4>1. tops'[b] = tops[b] /\ Last(known, b, tops[b])
          BY <2>1, <3>2 DEF TopsInv
        <4> QED
          BY <1>1, <3>2, <4>1 DEF Last
      <3> QED
        BY <3>1, <3>2
    <2> QED
      BY <2>4, <2>5 DEF TopsInv, Last
  <1>5. CASE Covers(table, s) /\ UNCHANGED <<table, tops, queue>>
    <2>1. s \in known /\ s >= s
      BY <1>5, SeqType DEF TableInv, CoversKnown
    <2> QED
      BY <1>3, <1>5, <2>1
  <1>6. CASE ~Covers(table, s) /\ AddToNext(s)
    <2>1. PICK n \in Succ(s) : TRUE
      BY <1>6 DEF AddToNext
    <2>2. n \in table /\ s + 1 \in Seqs /\ Has(n, s + 1) /\ n.bseq.b = bseq[s].b
      BY <1>6, <2>1, SuccBegins DEF Succ
    <2>3. s + 1 \in known /\ s + 1 >= s
      BY <2>2, SeqType DEF TableInv, CoversKnown, Covers
    <2>4. bseq[s + 1].b = n.bseq.b
      BY <2>2 DEF TableInv, Good, Runs, Sound
    <2> QED
      BY <1>3, <1>6, <2>2, <2>3, <2>4 DEF AddToNext
  <1> QED
    BY <1>4, <1>5, <1>6 DEF Add, AddToPrev, AddSection

LEMMA TopsStep == IInv /\ TopsInv /\ [Next]_vars => TopsInv'
  <1> SUFFICES ASSUME IInv, TopsInv, [Next]_vars PROVE TopsInv'
    OBVIOUS
  <1>1. TableInv /\ bseq \in Histories
    BY DEF IInv, TableInv, Types
  <1>2. ASSUME NEW s \in Seqs, Put(s) PROVE TopsInv'
    <2>1. UNCHANGED <<bseq, restarts>> /\ Add(s)
      BY <1>2 DEF Put
    <2> QED
      BY <1>1, <2>1, AddTops
  <1>3. ASSUME NEW s \in Seqs, Load(s) PROVE TopsInv'
    <2>1. UNCHANGED <<bseq, restarts>> /\ Add(s)
      BY <1>3 DEF Load
    <2> QED
      BY <1>1, <2>1, AddTops
  <1>4. CASE UNCHANGED <<bseq, known, tops, restarts>>
    BY <1>4 DEF TopsInv, Last
  <1>5. CASE Restart
    <2>1. PICK secs : /\ Good(secs)
                      /\ tops' = TopsOf(secs)
                      /\ \A s \in Seqs : Covers(secs, s) <=> s \in known'
      <3>1. CASE EmptyScroll(bseq)
        <4> DEFINE x == FirstSection(bseq)
        <4>1. /\ known' = {0} /\ tops' = TopsOf({x})
              /\ \A t \in Seqs : Has(x, t) <=> t = 0
          BY <1>1, <3>1, FirstTable DEF EmptyScroll
        <4>2. Good({x})
          BY <1>1, FirstGood
        <4> HIDE DEF x
        <4> QED
          BY <4>1, <4>2 DEF Covers
      <3>2. CASE known' = {s \in Seqs : Covers(rows, s)} /\ tops' = TopsOf(rows)
        <4>1. Good(rows)
          BY DEF IInv, Disk, Snaps
        <4> QED
          BY <3>2, <4>1
      <3> QED
        BY <1>5, <3>1, <3>2 DEF Restart
    <2>2. /\ tops' \in [Branch -> Seqs \cup {-1}]
          /\ \A b \in Branch : Last(known', b, tops'[b])
      BY <1>1, <2>1, TopsOfLast DEF TableInv
    <2>3. bseq' = bseq /\ restarts' \in Nat
      BY <1>5 DEF Restart, TopsInv
    <2> QED
      BY <2>2, <2>3 DEF TopsInv, Last
  <1>6. CASE EndUpdate
    BY <1>4, <1>6 DEF EndUpdate
  <1>7. CASE Commit
    BY <1>4, <1>7 DEF Commit, memVars
  <1>8. CASE UNCHANGED vars
    BY <1>4, <1>8 DEF vars, memVars
  <1> QED
    BY <1>2, <1>3, <1>5, <1>6, <1>7, <1>8 DEF Next

\* get_bseq_top answers the last known declaration of each branch, whatever the
\* order of arrivals and whatever the rows it was rebuilt from.
THEOREM TopsTheorem == Spec => []TopsRight
  <1>1. Init => TopsInv
    <2> SUFFICES ASSUME Init PROVE TopsInv
      OBVIOUS
    <2>1. IInv /\ Good(table) /\ restarts = 0 /\ tops = TopsOf(table)
      BY InitIInv DEF IInv, TableInv, Init
    <2>2. \A s \in Seqs : Covers(table, s) <=> s \in known
      BY <2>1 DEF IInv, TableInv, CoversKnown
    <2> QED
      BY <2>1, <2>2, TopsOfLast DEF TopsInv
  <1>2. IInv /\ TopsInv => TopsRight
    <2> SUFFICES ASSUME IInv, TopsInv PROVE TopsRight
      OBVIOUS
    <2>1. Good(table) /\ Good(rows) /\ Good(flushed)
      BY DEF IInv, TableInv, Disk, Snaps
    <2>2. TypeOK
      BY <2>1 DEF IInv, TableInv, Types, TopsInv, Good, TypeOK
    <2>3. ASSUME NEW b \in Branch
          PROVE  LET mine == {s \in known : bseq[s].b = b}
                 IN  IF mine = {} THEN tops[b] = -1
                     ELSE tops[b] \in mine /\ \A s \in mine : s <= tops[b]
      <3>1. Last(known, b, tops[b]) /\ known \subseteq Seqs
        BY DEF TopsInv, IInv, TableInv, Types
      <3> QED
        BY <3>1 DEF Last
    <2> QED
      BY <2>2, <2>3 DEF TopsRight
  <1> QED
    BY <1>1, <1>2, TopsStep, Invariance, InitIInv, PTL DEF Spec
=============================================================================
