------------------------ MODULE ScrollKnownProofs --------------------------
(***************************************************************************)
(* The frames in the data store of a scroll, and that it forgets nothing:  *)
(* proofs about ScrollStorage, on top of those of ScrollStorageProofs.     *)
(***************************************************************************)
EXTENDS ScrollStorageProofs, FiniteSetTheorems

USE DEF live

-----------------------------------------------------------------------------
(* A blob is named by its declaration and its history.  The row of a        *)
(* conflict, each row queued for it and the conflict in memory are of one   *)
(* history, as far as each of them goes: the fourth invariant.              *)

\* b goes on from a.
Grows(a, b) ==
  /\ a.top <= b.top
  /\ \A s \in Seqs : s <= a.top => HistAt(a.hist, s) = HistAt(b.hist, s)

\* The declarations of c, and those that a merge has copied to it above its top.
Within(c, s) ==
  \/ s <= conf[c].top
  \/ merge.on /\ c = merge.dst /\ s <= conf[merge.src].top /\ s < merge.seq

MergeAgrees ==
  merge.on => /\ conf[merge.src].parent = merge.dst
              /\ Agree(merge.dst, merge.src, merge.cseq)
ForksBelow == \A c \in live : conf[c].pseq <= conf[conf[c].parent].top
MemBelow == \A m \in mem : Within(m[1], m[2])
QueueBelow == \A p \in qdecl : p[1] \in live => Within(p[1], p[2])
DeclsBelow == \A d \in decls : d[1] \in DOMAIN rows /\ d[2] <= rows[d[1]].top

GrowTo(snap) ==
  \A i \in 0 .. Len(dbq) : \A c \in DOMAIN snap[i] :
    /\ c \in live => Grows(snap[i][c], conf[c])
    /\ i >= 1 /\ c \in DOMAIN snap[i - 1] => Grows(snap[i - 1][c], snap[i][c])
    /\ i >= 1 => \A p \in dbq[i].decl : p[1] = c => p[2] <= snap[i][c].top
RowsGrow == \A snap : Chained(snap) => GrowTo(snap)

OneLine ==
  /\ MergeAgrees /\ ForksBelow /\ MemBelow /\ QueueBelow /\ DeclsBelow /\ RowsGrow

LEMMA GrowsTypes ==
  ASSUME NEW a, NEW b, NEW c, a.top \in Int, b.top \in Int, c.top \in Int
  PROVE  /\ Grows(a, a)
         /\ Grows(a, b) /\ Grows(b, c) => Grows(a, c)
  <1>1. \A s \in Seqs : s \in Int
    BY SeqType
  <1> QED
    BY <1>1 DEF Grows

\* Climbing from a declaration that c has ends at a conflict that has it.
LEMMA ToCBelow ==
  ASSUME NEW cf, Forest(cf), \A c \in DOMAIN cf : cf[c].pseq <= cf[cf[c].parent].top,
         NEW s \in Seqs, NEW c0 \in DOMAIN cf, ToC(cf, c0, s) # c0 \/ s <= cf[c0].top
  PROVE  s <= cf[ToC(cf, c0, s)].top
  <1> DEFINE Good(d) == ToC(cf, d, s) # d \/ s <= cf[d].top => s <= cf[ToC(cf, d, s)].top
             Bad == {d \in DOMAIN cf : ~Good(d)}
  <1>1. SUFFICES ASSUME Bad # {} PROVE FALSE
    BY <1>1
  <1>2. PICK n \in Bad : \A m \in Bad : n <= m
    <2> HIDE DEF Bad
    <2>1. Bad \subseteq Nat
      BY ForestType DEF Bad
    <2> QED
      BY <1>1, <2>1, LeastNat
  <1>3. n \in DOMAIN cf /\ ~Good(n) /\ n \in Nat
    BY ForestType
  <1>4. ToC(cf, n, s) = IF s <= cf[n].pseq THEN ToC(cf, cf[n].parent, s) ELSE n
    BY <1>3, ToCUnfold
  <1>5. cf[n].pseq \in Int /\ s \in Int /\ s >= 0 /\ cf[cf[n].parent].top \in Int
        /\ cf[n].parent \in DOMAIN cf
    BY <1>3, ForestType, SeqType
  <1>6. s <= cf[n].pseq
    BY <1>3, <1>4
  <1>7. n # 0 /\ cf[n].parent < n /\ cf[n].parent \in Nat
    BY <1>3, <1>5, <1>6, ForestType
  <1>8. cf[n].parent \notin Bad
    BY <1>2, <1>3, <1>7
  <1>9. s <= cf[cf[n].parent].top
    BY <1>3, <1>5, <1>6
  <1>10. s <= cf[ToC(cf, n, s)].top
    BY <1>4, <1>5, <1>6, <1>8, <1>9
  <1> QED
    BY <1>3, <1>10

LEMMA MergeOn ==
  ASSUME BaseInv, merge.on
  PROVE  /\ merge \in Merge /\ merge # NoMerge
         /\ merge.src \in live /\ merge.dst \in live /\ merge.dst # merge.src
         /\ merge.src \in Nat /\ merge.dst \in Nat /\ merge.dst < merge.src
         /\ merge.cseq \in Seqs /\ merge.cseq \in Int /\ merge.seq \in Int
         /\ merge.cseq <= conf[merge.src].top /\ merge.cseq <= conf[merge.dst].top
  <1>1. merge # NoMerge
    BY DEF NoMerge
  <1>2. /\ merge \in Merge /\ merge.src \in live /\ merge.dst \in live /\ merge.dst < merge.src
        /\ merge.cseq <= conf[merge.src].top /\ merge.cseq <= conf[merge.dst].top
    BY <1>1 DEF BaseInv, MergeRight
  <1>3. merge.src \in Nat /\ merge.dst \in Nat
    BY <1>2, BaseTypes
  <1>4. merge.cseq \in Seqs /\ merge.seq \in Nat
    BY <1>2 DEF Merge
  <1> QED
    BY <1>1, <1>2, <1>3, <1>4, SeqType

\* A conflict keeps to its history.
ConfGrows == \A c \in live : c \in live' => Grows(conf[c], conf'[c])

\* Steps that leave the database and the queue alone.
LEMMA LineStable ==
  ASSUME BaseInv, BaseInv', OneLine, ConfGrows, UNCHANGED <<dbq, rows, decls>>, alive,
         live' \subseteq live \cup {nextc},
         MergeAgrees', ForksBelow', MemBelow', QueueBelow'
  PROVE  OneLine'
  <1>1. DeclsBelow'
    BY DEF OneLine, DeclsBelow
  <1>2. RowsGrow'
    <2> SUFFICES ASSUME NEW snap, Chained(snap)' PROVE GrowTo(snap)'
      BY DEF RowsGrow
    <2>1. Chained(snap)
      BY DEF Chained, ChainFrom
    <2>2. Snaps(snap) /\ GrowTo(snap)
      BY <2>1, ChainedSnaps DEF OneLine, RowsGrow
    <2>3. ASSUME NEW i \in 0 .. Len(dbq), NEW c \in DOMAIN snap[i], c \in live'
          PROVE  Grows(snap[i][c], conf'[c])
      <3>1. snap[i] \in ConfSet /\ c < nextc
        BY <2>2, <2>3 DEF Snaps
      <3>2. c \in Cfid /\ snap[i][c] \in Conflict
        BY <3>1, ConfType
      <3>3. c \in live
        BY <2>3, <3>1, <3>2, BaseTypes
      <3>4. Grows(snap[i][c], conf[c]) /\ Grows(conf[c], conf'[c])
        BY <2>2, <2>3, <3>3 DEF GrowTo, ConfGrows
      <3>5. Forest(conf) /\ Forest(conf')
        BY DEF BaseInv, MemTypes
      <3>6. conf[c].top \in Int /\ conf'[c].top \in Int
        BY <2>3, <3>3, <3>5, ConfTops
      <3>7. snap[i][c].top \in Int
        BY <3>2, SeqType DEF Conflict
      <3> QED
        BY <3>4, <3>6, <3>7, GrowsTypes
    <2> QED
      BY <2>2, <2>3 DEF GrowTo
  <1> QED
    BY <1>1, <1>2 DEF OneLine

LEMMA LineSame ==
  ASSUME BaseInv, BaseInv', OneLine, alive, UNCHANGED <<conf, merge, dbq, rows, decls>>,
         MemBelow', QueueBelow'
  PROVE  OneLine'
  <1>1. ConfGrows
    <2>1. \A c \in live : conf[c].top \in Int
      BY BaseTypes, ConfTops
    <2> QED
      BY <2>1, GrowsTypes DEF ConfGrows
  <1>2. MergeAgrees' /\ ForksBelow'
    BY DEF OneLine, MergeAgrees, ForksBelow, Agree
  <1> QED
    BY <1>1, <1>2, LineStable

LEMMA LockLine ==
  ASSUME BaseInv, BaseInv', OneLine, Lock
  PROVE  OneLine'
  <1>1. UNCHANGED <<conf, merge, dbq, rows, decls, mem, qdecl>> /\ alive
    BY DEF Lock, scrollVars, queueVars, updaterVars, dbVars, lifeVars
  <1>2. MemBelow' /\ QueueBelow'
    BY <1>1 DEF OneLine, MemBelow, QueueBelow, Within
  <1> QED
    BY <1>1, <1>2, LineSame

LEMMA BeginLoadLine ==
  ASSUME BaseInv, BaseInv', OneLine, NEW d \in live, NEW t \in Seqs, BeginLoad(d, t)
  PROVE  OneLine'
  <1>1. UNCHANGED <<conf, merge, dbq, rows, decls, mem, qdecl>> /\ alive
    BY DEF BeginLoad, scrollVars, queueVars, updaterVars, dbVars, lifeVars
  <1>2. MemBelow' /\ QueueBelow'
    BY <1>1 DEF OneLine, MemBelow, QueueBelow, Within
  <1> QED
    BY <1>1, <1>2, LineSame

\* What a row has the conflict has too.
LEMMA RowToConf ==
  ASSUME BaseInv, OneLine, alive, NEW c \in live, c \in DOMAIN rows
  PROVE  Grows(rows[c], conf[c])
  <1>1. PICK snap : Snaps(snap)
    BY DEF BaseInv, Chain
  <1>2. Chained(snap)
    BY <1>1 DEF Snaps, Chained, ChainFrom
  <1>3. GrowTo(snap) /\ snap[0] = rows
    BY <1>1, <1>2 DEF OneLine, RowsGrow, Snaps
  <1>4. 0 \in 0 .. Len(dbq)
    BY BaseTypes
  <1> QED
    BY <1>3, <1>4 DEF GrowTo

LEMMA EndLoadLine ==
  ASSUME BaseInv, BaseInv', OneLine, NEW c \in Cfid, NEW s \in Seqs, EndLoad(c, s), alive'
  PROVE  OneLine'
  <1>0. /\ alive
        /\ Stored(c, s) # {} => c \in live
        /\ mem' = mem \cup {<<c, s, f>> : f \in Stored(c, s) \ InMem(c, s)}
        /\ UNCHANGED <<conf, nextc, merge, lockVars, queueVars, updaterVars, dbVars,
                       lifeVars, dropped>>
    BY DEF EndLoad, Exit
  <1>1. UNCHANGED <<conf, merge, dbq, rows, decls, qdecl>>
    BY <1>0 DEF queueVars, updaterVars, dbVars
  <1>2. ASSUME NEW f \in Stored(c, s)
        PROVE  Within(c, s)
    <2>1. c \in live /\ <<c, s, f>> \in decls
      BY <1>0, <1>2 DEF Stored
    <2>2. c \in DOMAIN rows /\ s <= rows[c].top
      BY <2>1 DEF OneLine, DeclsBelow
    <2>3. rows[c].top <= conf[c].top
      BY <1>0, <2>1, <2>2, RowToConf DEF Grows
    <2>4. rows[c].top \in Int /\ conf[c].top \in Int /\ s \in Int
      <3>1. rows[c] \in Conflict
        BY <2>2, ConfType DEF BaseInv, DbTypes, Loadable, Forest
      <3>2. conf[c].top \in Int
        BY <2>1, BaseTypes, ConfTops
      <3> QED
        BY <3>1, <3>2, SeqType DEF Conflict
    <2> QED
      BY <2>2, <2>3, <2>4 DEF Within
  <1>3. \A m \in mem' : Within(m[1], m[2])
    BY <1>0, <1>2 DEF OneLine, MemBelow
  <1>4. MemBelow' /\ QueueBelow'
    BY <1>1, <1>3 DEF OneLine, MemBelow, QueueBelow, Within
  <1> QED
    BY <1>0, <1>1, <1>4, LineSame

LEMMA SetDataLine ==
  ASSUME BaseInv, BaseInv', OneLine, NEW c \in live, NEW s \in Seqs, SetData(c, s)
  PROVE  OneLine'
  <1>1. /\ alive /\ <<c, s, "hash">> \in mem
        /\ mem' \subseteq mem \cup {<<c, s, "data">>, <<c, s, "buf">>}
        /\ qdecl' = qdecl \cup {<<c, s>>}
        /\ UNCHANGED <<conf, merge, dbq, rows, decls>>
    BY DEF SetData, Putting, lockVars, updaterVars, dbVars, lifeVars
  <1>2. Within(c, s)
    BY <1>1 DEF OneLine, MemBelow
  <1>3. /\ \A m \in mem' : Within(m[1], m[2])
        /\ \A p \in qdecl' : p[1] \in live => Within(p[1], p[2])
    BY <1>1, <1>2 DEF OneLine, MemBelow, QueueBelow
  <1>4. MemBelow' /\ QueueBelow'
    BY <1>1, <1>3 DEF MemBelow, QueueBelow, Within
  <1> QED
    BY <1>1, <1>4, LineSame

\* What an update adds is within the conflict it is added to.
WithinKept == \A c \in live', s \in Seqs : c \in live /\ Within(c, s) => Within(c, s)'

LEMMA BelowKept ==
  ASSUME BaseInv, BaseInv', OneLine, WithinKept, live' \subseteq live \cup {nextc},
         \A m \in mem' : m \in mem \/ Within(m[1], m[2])',
         \A p \in qdecl' : p[1] \in live' => p \in qdecl \/ Within(p[1], p[2])'
  PROVE  MemBelow' /\ QueueBelow'
  <1>1. /\ \A m \in mem : m[1] \in live /\ m[2] \in Seqs
        /\ \A m \in mem' : m[1] \in live' /\ m[2] \in Seqs
    <2>1. mem \subseteq Cfid \X Seqs \X (Facts \cup Frames) /\ \A m \in mem : m[1] \in live
      BY BaseTypes
    <2>2. \A m \in mem' : m[1] \in live'
      BY DEF BaseInv, Fresh
    <2>3. mem' \subseteq Cfid \X Seqs \X (Facts \cup Frames)
      BY DEF BaseInv, MemTypes
    <2> QED
      BY <2>1, <2>2, <2>3
  <1>2. \A p \in qdecl : p[1] # nextc /\ p[2] \in Seqs
    <2>1. qdecl \subseteq Cfid \X Seqs /\ Cfid \subseteq Nat /\ nextc \in Nat
      BY BaseTypes
    <2>2. \A p \in qdecl : p[1] < nextc
      BY DEF BaseInv, Fresh
    <2> QED
      BY <2>1, <2>2
  <1>3. ASSUME NEW m \in mem' PROVE Within(m[1], m[2])'
    <2>1. CASE m \in mem
      BY <1>1, <1>3, <2>1 DEF OneLine, MemBelow, WithinKept
    <2> QED
      BY <1>3, <2>1
  <1>4. ASSUME NEW p \in qdecl', p[1] \in live' PROVE Within(p[1], p[2])'
    <2>1. CASE p \in qdecl
      <3>1. p[1] \in live
        BY <1>2, <1>4, <2>1
      <3> QED
        BY <1>2, <1>4, <2>1, <3>1 DEF OneLine, QueueBelow, WithinKept
    <2> QED
      BY <1>4, <2>1
  <1> QED
    BY <1>3, <1>4 DEF MemBelow, QueueBelow

LEMMA SetHashLine ==
  ASSUME BaseInv, BaseInv', OneLine, NEW d \in live, NEW t \in Seqs, NEW h \in History,
         SetHash(d, t, h)
  PROVE  OneLine' /\ ConfGrows
  <1>1. /\ alive /\ ~merge.on /\ t > conf[d].pseq
        /\ mem' = mem \cup {<<d, t, "hash">>}
        /\ qdecl' = qdecl \cup {<<d, t>>}
        /\ t <= conf[d].top \/ (t > conf[d].top /\ h = HistOf(d, t, h))
        /\ conf' = IF t <= conf[d].top THEN conf
                   ELSE [conf EXCEPT ![d].top = t, ![d].hist = h]
    BY DEF SetHash, Putting
  <1>2. UNCHANGED <<merge, dbq, rows, decls>>
    BY DEF SetHash, lockVars, updaterVars, dbVars, lifeVars
  <1>3. /\ Forest(conf) /\ \A c \in live : conf[c] \in Conflict /\ conf[c].top \in Int
        /\ t \in Int
    BY BaseTypes, ForestType, SeqType
  <1>4. /\ live' = live
        /\ \A c \in live : /\ conf'[c].pseq = conf[c].pseq
                           /\ conf'[c].parent = conf[c].parent
                           /\ c # d \/ t <= conf[d].top => conf'[c] = conf[c]
        /\ t > conf[d].top => conf'[d].top = t /\ conf'[d].hist = h
    BY <1>1, <1>3 DEF Conflict
  <1>5. Grows(conf[d], conf'[d]) /\ t <= conf'[d].top
    <2>1. CASE t <= conf[d].top
      <3>1. conf'[d] = conf[d]
        BY <1>4, <2>1
      <3> QED
        BY <1>3, <2>1, <3>1, GrowsTypes
    <2>2. CASE t > conf[d].top
      <3>1. ASSUME NEW s \in Seqs, s <= conf[d].top
            PROVE  HistAt(conf[d].hist, s) = HistAt(h, s)
        <4>1. CASE conf[d].top > Div
          BY <1>1, <1>3, <2>2, <4>1 DEF HistOf
        <4>2. CASE ~(conf[d].top > Div)
          <5>1. s <= Div
            BY <1>3, <3>1, <4>2, SeqType, BoundsAssumption
          <5> QED
            BY <5>1 DEF HistAt
        <4> QED
          BY <4>1, <4>2
      <3> QED
        BY <1>3, <1>4, <2>2, <3>1 DEF Grows
    <2> QED
      BY <1>3, <2>1, <2>2
  <1>6. ConfGrows
    <2>1. ASSUME NEW c \in live PROVE Grows(conf[c], conf'[c])
      <3>1. CASE c = d
        BY <1>5, <3>1
      <3>2. CASE c # d
        BY <1>3, <1>4, <3>2, GrowsTypes
      <3> QED
        BY <3>1, <3>2
    <2> QED
      BY <2>1 DEF ConfGrows
  <1>7. \A c \in live : conf[c].top <= conf'[c].top
    BY <1>4, <1>6 DEF ConfGrows, Grows
  <1>8. \A c \in live : conf'[c].top \in Int /\ conf[c].pseq \in Int
    BY <1>1, <1>3, <1>4, ForestType
  <1>9. ForksBelow'
    <2>1. ASSUME NEW c \in live
          PROVE  conf'[c].pseq <= conf'[conf'[c].parent].top
      <3>1. conf[c].parent \in live
        BY <1>3, ForestType
      <3>2. conf[c].pseq <= conf[conf[c].parent].top
        BY DEF OneLine, ForksBelow
      <3> QED
        BY <1>3, <1>4, <1>7, <1>8, <3>1, <3>2
    <2> QED
      BY <1>4, <2>1 DEF ForksBelow
  <1>10. MergeAgrees'
    BY <1>1, <1>2 DEF MergeAgrees
  <1>11. WithinKept
    <2>1. ASSUME NEW c \in live, NEW s \in Seqs, Within(c, s) PROVE Within(c, s)'
      <3>1. s <= conf[c].top /\ s \in Int
        BY <1>1, <2>1, SeqType DEF Within
      <3>2. s <= conf'[c].top
        BY <1>3, <1>7, <1>8, <3>1
      <3> QED
        BY <3>2 DEF Within
    <2> QED
      BY <2>1 DEF WithinKept
  <1>12. Within(d, t)'
    BY <1>5 DEF Within
  <1>13. /\ \A m \in mem' : m \in mem \/ Within(m[1], m[2])'
         /\ \A p \in qdecl' : p[1] \in live' => p \in qdecl \/ Within(p[1], p[2])'
    BY <1>1, <1>12
  <1>14. MemBelow' /\ QueueBelow'
    BY <1>4, <1>11, <1>13, BelowKept
  <1> QED
    BY <1>1, <1>2, <1>4, <1>6, <1>9, <1>10, <1>14, LineStable

LEMMA ForkLine ==
  ASSUME BaseInv, BaseInv', OneLine, NEW d \in live, NEW p \in Seqs, NEW t \in Seqs,
         NEW h \in History, Fork(d, p, t, h)
  PROVE  OneLine'
  <1> DEFINE e == [k \in {nextc} |-> [parent |-> d, pseq |-> p, top |-> t,
                                       hist |-> HistAt(h, t)]]
  <1>1. /\ alive /\ ~merge.on /\ p <= conf[d].top
        /\ \/ /\ conf' = Over(conf, e)
              /\ mem' = mem \cup {<<nextc, t, "hash">>}
              /\ qdecl' = qdecl \cup {<<nextc, t>>}
           \/ UNCHANGED <<conf, mem, qdecl>>
    BY DEF Fork, Putting
  <1>2. UNCHANGED <<merge, dbq, rows, decls>>
    BY DEF Fork, lockVars, updaterVars, dbVars, lifeVars
  <1>3. CASE UNCHANGED <<conf, mem, qdecl>>
    <2>1. MemBelow' /\ QueueBelow'
      BY <1>2, <1>3 DEF OneLine, MemBelow, QueueBelow, Within
    <2> QED
      BY <1>1, <1>2, <1>3, <2>1, LineSame
  <1>4. CASE /\ conf' = Over(conf, e)
             /\ mem' = mem \cup {<<nextc, t, "hash">>}
             /\ qdecl' = qdecl \cup {<<nextc, t>>}
    <2>1. nextc \notin live /\ Forest(conf) /\ \A c \in live : conf[c].top \in Int
      <3>1. live \subseteq Nat /\ nextc \in Nat
        BY BaseTypes
      <3> QED
        BY <3>1, BaseTypes, ForestType DEF BaseInv, Fresh
    <2>2. /\ live' = live \cup {nextc} /\ \A c \in live : conf'[c] = conf[c]
          /\ conf'[nextc].top = t /\ conf'[nextc].pseq = p /\ conf'[nextc].parent = d
      BY <1>4, <2>1 DEF Over
    <2>3. ConfGrows
      BY <2>1, <2>2, GrowsTypes DEF ConfGrows
    <2>4. MergeAgrees'
      BY <1>1, <1>2 DEF MergeAgrees
    <2>5. ForksBelow'
      <3>1. \A c \in live : conf[c].parent \in live
        BY <2>1, ForestType
      <3> QED
        BY <1>1, <2>1, <2>2, <3>1 DEF OneLine, ForksBelow
    <2>6. WithinKept
      BY <1>1, <1>2, <2>2 DEF WithinKept, Within
    <2>7. PICK k : k = nextc
      OBVIOUS
    <2>8. Within(k, t)'
      <3>1. conf'[k].top = t /\ t \in Int
        BY <2>2, <2>7, SeqType
      <3> QED
        BY <3>1 DEF Within
    <2>10. /\ \A m \in mem' : m \in mem \/ Within(m[1], m[2])'
          /\ \A q \in qdecl' : q[1] \in live' => q \in qdecl \/ Within(q[1], q[2])'
      BY <1>4, <2>7, <2>8
    <2>9. MemBelow' /\ QueueBelow'
      BY <2>2, <2>6, <2>10, BelowKept
    <2> QED
      BY <1>1, <1>2, <2>2, <2>3, <2>4, <2>5, <2>9, LineStable
  <1> QED
    BY <1>1, <1>3, <1>4

LEMMA BeginMergeLine ==
  ASSUME BaseInv, BaseInv', OneLine, NEW i1 \in live, NEW i2 \in live, NEW t \in Seqs,
         BeginMerge(i1, i2, t)
  PROVE  OneLine'
  <1>1. /\ alive /\ ~merge.on /\ conf' = [conf EXCEPT ![i2].parent = i1] /\ i1 < i2
        /\ t > conf[i2].pseq /\ t <= conf[i1].top /\ t <= conf[i2].top /\ Agree(i1, i2, t)
        /\ merge' = [on |-> TRUE, dst |-> i1, src |-> i2, cseq |-> t,
                     seq |-> conf[i2].pseq + 1]
    BY DEF BeginMerge, Putting
  <1>2. UNCHANGED <<mem, qdecl, dbq, rows, decls>>
    BY DEF BeginMerge, lockVars, queueVars, updaterVars, dbVars, lifeVars
  <1>3. /\ \A c \in live : /\ conf[c] \in Conflict /\ conf[c].top \in Int
                           /\ conf[c].pseq \in Int /\ conf[c].parent \in live
        /\ i1 \in Nat /\ i2 \in Nat /\ i1 # i2 /\ t \in Int
    <2>1. Forest(conf) /\ i1 \in Nat /\ i2 \in Nat
      BY BaseTypes
    <2>2. i1 # i2
      BY <1>1, <2>1
    <2>3. t \in Int
      BY SeqType
    <2> QED
      BY <2>1, <2>2, <2>3, ForestType
  <1>4. /\ live' = live
        /\ \A c \in live : /\ conf'[c].pseq = conf[c].pseq /\ conf'[c].top = conf[c].top
                           /\ conf'[c].hist = conf[c].hist
                           /\ c # i2 => conf'[c].parent = conf[c].parent
        /\ conf'[i2].parent = i1
    BY <1>1, <1>3 DEF Conflict
  <1>5. ConfGrows
    BY <1>3, <1>4 DEF ConfGrows, Grows
  <1>6. MergeAgrees'
    BY <1>1, <1>4 DEF MergeAgrees, Agree
  <1>7. ForksBelow'
    <2>1. ASSUME NEW c \in live
          PROVE  conf'[c].pseq <= conf'[conf'[c].parent].top
      <3>1. CASE c = i2
        <4>1. conf[i2].pseq <= conf[i1].top
          BY <1>1, <1>3
        <4> QED
          BY <1>4, <3>1, <4>1
      <3>2. CASE c # i2
        <4>1. conf[c].pseq <= conf[conf[c].parent].top
          BY <1>3 DEF OneLine, ForksBelow
        <4>2. conf[c].parent \in live
          BY <1>3
        <4>3. conf'[c].pseq = conf[c].pseq /\ conf'[c].parent = conf[c].parent
          BY <1>4, <3>2
        <4>4. conf'[conf[c].parent].top = conf[conf[c].parent].top
          BY <1>4, <4>2
        <4> QED
          BY <4>1, <4>3, <4>4
      <3> QED
        BY <3>1, <3>2
    <2> QED
      BY <1>4, <2>1 DEF ForksBelow
  <1>8. WithinKept
    BY <1>1, <1>4 DEF WithinKept, Within
  <1>9. MemBelow' /\ QueueBelow'
    BY <1>2, <1>4, <1>8, BelowKept
  <1> QED
    BY <1>1, <1>2, <1>4, <1>5, <1>6, <1>7, <1>9, LineStable

\* A merge copies what the source has.
LEMMA CopyRange ==
  ASSUME BaseInv, merge.on
  PROVE  LastCopied <= conf[merge.src].top /\ LastCopied \in Int
  <1>1. merge.cseq <= conf[merge.src].top /\ merge.cseq \in Int /\ merge.src \in live
    BY MergeOn
  <1>2. conf[merge.src].top \in Int
    BY <1>1, BaseTypes, ConfTops
  <1> QED
    BY <1>1, <1>2 DEF LastCopied

LEMMA CopyDeclLine ==
  ASSUME BaseInv, BaseInv', OneLine, CopyDecl
  PROVE  OneLine'
  <1> DEFINE src == merge.src
             dst == merge.dst
             t == merge.seq
             k == ToC(conf, dst, t)
  <1>1. /\ Forest(conf) /\ live' = live /\ merge.on /\ alive
        /\ src \in live /\ dst \in live /\ t \in Seqs /\ t <= LastCopied
        /\ \A c \in live \ {src} : conf'[c] = conf[c]
        /\ conf'[src].top = conf[src].top /\ conf'[src].hist = conf[src].hist
        /\ conf'[src].pseq = IF t = merge.cseq THEN merge.cseq ELSE conf[src].pseq
        /\ merge' = [merge EXCEPT !.seq = merge.seq + 1] /\ merge \in Merge
    BY CopyConf
  <1>2. UNCHANGED <<dbq, rows, decls>>
    BY DEF CopyDecl, updaterVars, dbVars
  <1>3. conf'[src].parent = conf[src].parent
    <2>1. conf' = IF t = merge.cseq THEN [conf EXCEPT ![src].pseq = t] ELSE conf
      BY DEF CopyDecl
    <2>2. conf[src] \in Conflict
      BY <1>1, ForestType
    <2> QED
      BY <1>1, <2>1, <2>2 DEF Conflict
  <1>4. merge'.on /\ merge'.src = src /\ merge'.dst = dst /\ merge'.seq = t + 1
        /\ merge'.cseq = merge.cseq
    BY <1>1 DEF Merge
  <1>5. /\ \A c \in live : conf'[c].top = conf[c].top /\ conf'[c].hist = conf[c].hist
        /\ \A c \in live : conf'[c].parent = conf[c].parent /\ conf[c].parent \in live
        /\ \A c \in live : conf[c].top \in Int /\ conf[c].pseq \in Int
        /\ t \in Int /\ dst # src /\ merge.cseq <= conf[dst].top
    <2>1. dst # src /\ merge.cseq <= conf[dst].top
      BY <1>1, MergeOn
    <2> QED
      BY <1>1, <1>3, <2>1, ForestType, SeqType
  <1>6. CopyFacts(k, t) /\ k \in live
    BY CopyTypes
  <1>7. /\ mem' = (mem \ MovedFrames(t))
                    \cup {<<k, t, f>> : f \in (InMem(src, t) \ Frames) \ InMem(k, t)}
                    \cup {<<dst, t, f>> : f \in InMem(src, t) \cap Frames}
        /\ qdecl' = qdecl \cup {<<k, t>> : f \in (InMem(src, t) \ Frames) \ InMem(k, t)}
                          \cup {<<dst, t>> : f \in InMem(src, t) \cap Frames}
    BY <1>6 DEF CopyFacts
  <1>8. t <= conf[src].top
    <2>1. LastCopied <= conf[src].top /\ LastCopied \in Int
      BY <1>1, CopyRange
    <2> QED
      BY <1>1, <1>5, <2>1
  <1>9. k = dst \/ t <= conf[k].top
    <2>1. \A c \in live : conf[c].pseq <= conf[conf[c].parent].top
      BY DEF OneLine, ForksBelow
    <2> QED
      BY <1>1, <2>1, ToCBelow
  <1> HIDE DEF k
  <1>10. PICK x, y, z : x = src /\ y = dst /\ z = t
    OBVIOUS
  <1> HIDE DEF src, dst, t
  <1>11. /\ \A c \in live \ {x} : conf'[c].pseq = conf[c].pseq
         /\ conf'[x].pseq = IF z = merge.cseq THEN merge.cseq ELSE conf[x].pseq
    BY <1>1, <1>10
  <1>12. ConfGrows
    BY <1>5 DEF ConfGrows, Grows
  <1>13. ForksBelow'
    <2>1. ASSUME NEW c \in live
          PROVE  conf'[c].pseq <= conf[conf[c].parent].top
      <3>1. conf[c].pseq <= conf[conf[c].parent].top
        BY DEF OneLine, ForksBelow
      <3>2. CASE c = x /\ z = merge.cseq
        <4>1. conf[x].parent = y
          BY <1>1, <1>10 DEF OneLine, MergeAgrees, src, dst
        <4> QED
          BY <1>5, <1>10, <1>11, <3>2, <4>1
      <3> QED
        BY <1>11, <3>1, <3>2
    <2> QED
      BY <1>1, <1>5, <2>1 DEF ForksBelow
  <1>14. MergeAgrees'
    <2>1. conf[x].parent = y /\ Agree(y, x, merge.cseq)
      BY <1>1, <1>10 DEF OneLine, MergeAgrees, src, dst
    <2>2. conf'[x].parent = y /\ Agree(y, x, merge.cseq)'
      BY <1>1, <1>4, <1>5, <1>10, <2>1 DEF Agree
    <2>3. merge'.src = x /\ merge'.dst = y
      BY <1>4, <1>10
    <2> QED
      BY <2>2, <2>3 DEF MergeAgrees, Agree
  <1>15. WithinKept
    <2>1. ASSUME NEW c \in live, NEW s \in Seqs, Within(c, s) PROVE Within(c, s)'
      BY <1>1, <1>4, <1>5, <2>1, SeqType DEF Within, src, dst, t
    <2> QED
      BY <1>1, <2>1 DEF WithinKept
  <1>16. Within(y, z)'
    BY <1>1, <1>4, <1>5, <1>8, <1>10 DEF Within
  <1>17. ASSUME NEW q, q = k PROVE Within(q, z)'
    <2>1. CASE q = dst
      BY <1>10, <1>16, <1>17, <2>1
    <2>2. CASE t <= conf[k].top
      BY <1>5, <1>6, <1>10, <1>17, <2>2 DEF Within
    <2> QED
      BY <1>9, <1>17, <2>1, <2>2
  <1>18. /\ \A m \in mem' : m \in mem \/ Within(m[1], m[2])'
         /\ \A q \in qdecl' : q[1] \in live' => q \in qdecl \/ Within(q[1], q[2])'
    <2>1. PICK q : q = k
      OBVIOUS
    <2>2. Within(q, z)'
      BY <1>17, <2>1
    <2> QED
      BY <1>7, <1>10, <1>16, <2>1, <2>2
  <1>19. MemBelow' /\ QueueBelow'
    BY <1>1, <1>15, <1>18, BelowKept
  <1> QED
    BY <1>1, <1>2, <1>12, <1>13, <1>14, <1>19, LineStable

LEMMA PutStopsLine ==
  ASSUME BaseInv, BaseInv', OneLine, PutStops
  PROVE  OneLine'
  <1>1. UNCHANGED <<conf, merge, dbq, rows, decls, mem, qdecl>> /\ alive
    BY DEF PutStops
  <1>2. MemBelow' /\ QueueBelow'
    BY <1>1 DEF OneLine, MemBelow, QueueBelow, Within
  <1> QED
    BY <1>1, <1>2, LineSame

\* A copy that fails has found frames of that declaration at the destination.
LEMMA CopyStuckLine ==
  ASSUME BaseInv, BaseInv', OneLine, CopyStuck
  PROVE  OneLine'
  <1> DEFINE src == merge.src
             dst == merge.dst
             t == merge.seq
             k == ToC(conf, dst, t)
  <1>1. /\ Forest(conf) /\ alive /\ merge.on /\ src \in live /\ dst \in live
        /\ t \in Seqs /\ t <= LastCopied
        /\ mem' = mem \cup {<<k, t, f>> : f \in (InMem(src, t) \ Frames) \ InMem(k, t)}
        /\ qdecl' = qdecl \cup {<<k, t>> : f \in (InMem(src, t) \ Frames) \ InMem(k, t)}
        /\ UNCHANGED <<conf, merge, dbq, rows, decls>>
    BY CopyStops
  <1>2. Within(dst, t)
    <2>1. <<dst, t, "data">> \in mem
      BY DEF CopyStuck, Occupied, InMem
    <2>2. PICK m : m = <<dst, t, "data">>
      OBVIOUS
    <2>3. m[1] = dst /\ m[2] = t /\ m \in mem
      BY <2>1, <2>2
    <2> QED
      BY <2>3 DEF OneLine, MemBelow
  <1>3. k = dst \/ t <= conf[k].top
    <2>1. \A c \in live : conf[c].pseq <= conf[conf[c].parent].top
      BY DEF OneLine, ForksBelow
    <2> QED
      BY <1>1, <2>1, ToCBelow
  <1> HIDE DEF k, t, src, dst
  <1>4. Within(k, t)
    BY <1>2, <1>3 DEF Within
  <1>5. /\ \A m \in mem' : Within(m[1], m[2])
        /\ \A p \in qdecl' : p[1] \in live => Within(p[1], p[2])
    BY <1>1, <1>4 DEF OneLine, MemBelow, QueueBelow
  <1>6. MemBelow' /\ QueueBelow'
    BY <1>1, <1>5 DEF MemBelow, QueueBelow, Within
  <1> QED
    BY <1>1, <1>6, LineSame

WithTop(f, y, t, h) == [f EXCEPT ![y].top = t, ![y].hist = h]
LEMMA NewTop ==
  ASSUME NEW f, NEW y \in DOMAIN f, f[y] \in Conflict, NEW t, NEW h
  PROVE  WithTop(f, y, t, h)[y].top = t /\ WithTop(f, y, t, h)[y].hist = h
  BY DEF Conflict, WithTop

\* The destination of a merge goes on along the history of the source.
LEMMA TopAfterLine ==
  ASSUME BaseInv, OneLine, merge.on, FullMerge,
         NEW x, x = merge.src, NEW y, y = merge.dst, NEW T, T = TopAfterMerge
  PROVE  /\ x \in live /\ y \in live /\ x # y /\ DOMAIN T = live
         /\ \A c \in live : /\ T[c].pseq = conf[c].pseq /\ T[c].parent = conf[c].parent
                            /\ T[c] \in Conflict /\ conf[c] \in Conflict
                            /\ Grows(conf[c], T[c])
                            /\ conf[c].parent \in live
                            /\ T[c].top \in Int /\ conf[c].top \in Int /\ conf[c].pseq \in Int
         /\ T[y].top >= conf[x].top
         /\ conf[x].top > conf[y].top => T[y].hist = conf[x].hist
  <1>1. /\ x \in live /\ y \in live /\ x # y /\ merge.cseq \in Int
        /\ merge.cseq <= conf[x].top /\ merge.cseq <= conf[y].top
    BY MergeOn
  <1>2. /\ Forest(T) /\ DOMAIN T = live
        /\ \A c \in live \ {y} : T[c] = conf[c]
        /\ T[y].parent = conf[y].parent /\ T[y].pseq = conf[y].pseq
        /\ T[y].top >= conf[x].top
    BY TopAfterForest
  <1>3. Forest(conf)
    BY BaseTypes
  <1>4. \A c \in live : /\ T[c].pseq = conf[c].pseq /\ T[c].parent = conf[c].parent
                        /\ T[c] \in Conflict /\ conf[c] \in Conflict
                        /\ conf[c].parent \in live
                        /\ T[c].top \in Int /\ conf[c].top \in Int /\ conf[c].pseq \in Int
    BY <1>2, <1>3, ForestType
  <1>5. conf[x].top > conf[y].top => T[y].top = conf[x].top /\ T[y].hist = conf[x].hist
    <2> SUFFICES ASSUME conf[x].top > conf[y].top
                 PROVE  T[y].top = conf[x].top /\ T[y].hist = conf[x].hist
      OBVIOUS
    <2>1. T = [conf EXCEPT ![y].top = conf[x].top, ![y].hist = conf[x].hist]
      BY DEF TopAfterMerge
    <2>2. PICK t, h : t = conf[x].top /\ h = conf[x].hist
      OBVIOUS
    <2>3. T = [conf EXCEPT ![y].top = t, ![y].hist = h]
      BY <2>1, <2>2
    <2>4. /\ y \in live /\ conf \in [live -> Conflict] /\ conf[y] \in Conflict
          /\ t \in Seqs \cup {-1} /\ h \in History
      BY <1>1, <1>3, <2>2, ForestType
    <2>5. T[y].top = t /\ T[y].hist = h
      <3>1. T = WithTop(conf, y, t, h)
        BY <2>3 DEF WithTop
      <3>2. WithTop(conf, y, t, h)[y].top = t /\ WithTop(conf, y, t, h)[y].hist = h
        BY <2>4, NewTop
      <3> QED
        BY <3>1, <3>2
    <2> QED
      BY <2>2, <2>5
  <1>6. Grows(conf[y], T[y])
    <2>1. CASE conf[x].top > conf[y].top
      <3>1. T[y].top = conf[x].top /\ T[y].hist = conf[x].hist
        BY <1>5, <2>1
      <3>2. HistAt(conf[y].hist, conf[y].top) = HistAt(conf[x].hist, conf[y].top)
        <4>1. merge.cseq = conf[y].top
          BY <1>1, <1>4, <2>1 DEF FullMerge
        <4> QED
          BY <4>1 DEF OneLine, MergeAgrees, Agree
      <3>3. \A s \in Seqs : s <= conf[y].top
                            => HistAt(conf[y].hist, s) = HistAt(conf[x].hist, s)
        <4>1. \A s \in Seqs : s \in Int
          BY SeqType
        <4>2. Div \in Int
          BY BoundsAssumption, SeqType
        <4> QED
          BY <1>1, <1>4, <3>2, <4>1, <4>2 DEF HistAt
      <3> QED
        BY <1>1, <1>4, <2>1, <3>1, <3>3 DEF Grows
    <2>2. CASE ~(conf[x].top > conf[y].top)
      <3>1. T = conf
        BY <2>2 DEF TopAfterMerge
      <3> QED
        BY <1>1, <1>4, <3>1, GrowsTypes
    <2> QED
      BY <2>1, <2>2
  <1>7. \A c \in live : Grows(conf[c], T[c])
    <2>1. ASSUME NEW c \in live PROVE Grows(conf[c], T[c])
      <3>1. CASE c = y
        BY <1>6, <3>1
      <3>2. CASE c # y
        BY <1>2, <1>4, <3>2, GrowsTypes
      <3> QED
        BY <3>1, <3>2
    <2> QED
      BY <2>1
  <1> QED
    BY <1>1, <1>2, <1>4, <1>5, <1>7

\* A merge of all of the source leaves its children to the destination.
LEMMA EndMergeNew ==
  ASSUME BaseInv, OneLine, EndMerge, FullMerge,
         NEW x, x = merge.src, NEW y, y = merge.dst, NEW T, T = TopAfterMerge
  PROVE  /\ live' \subseteq live /\ y \in live'
         /\ \A c \in live' : /\ conf'[c].pseq = conf[c].pseq /\ conf'[c].top = T[c].top
                             /\ conf'[c].hist = T[c].hist
                             /\ \/ conf'[c].parent = conf[c].parent
                                   /\ conf[c].parent \in live'
                                \/ conf[c].parent = x /\ conf'[c].parent = y
         /\ \/ merge' = NoMerge
            \/ conf' = TopAfterMerge /\ UNCHANGED merge
  <1>1. /\ merge.on
        /\ \/ merge' = NoMerge /\ conf' = Heirs(TopAfterMerge)
           \/ conf' = TopAfterMerge /\ UNCHANGED merge
    BY DEF EndMerge
  <1>2. /\ x \in live /\ y \in live /\ x # y /\ DOMAIN T = live
        /\ \A c \in live : /\ T[c].pseq = conf[c].pseq /\ T[c].parent = conf[c].parent
                           /\ T[c] \in Conflict /\ conf[c].parent \in live
    BY <1>1, TopAfterLine
  <1>3. CASE merge' = NoMerge /\ conf' = Heirs(TopAfterMerge)
    <2>1. live' = live \ {x}
      BY <1>2, <1>3 DEF Heirs
    <2>2. ASSUME NEW c \in live'
          PROVE  conf'[c] = IF T[c].parent = x THEN [T[c] EXCEPT !.parent = y] ELSE T[c]
      BY <1>2, <1>3, <2>1, <2>2 DEF Heirs
    <2>3. ASSUME NEW c \in live'
          PROVE  /\ conf'[c].pseq = conf[c].pseq /\ conf'[c].top = T[c].top
                 /\ conf'[c].hist = T[c].hist
                 /\ \/ conf'[c].parent = conf[c].parent /\ conf[c].parent \in live'
                    \/ conf[c].parent = x /\ conf'[c].parent = y
      <3>1. T[c] \in Conflict /\ T[c].pseq = conf[c].pseq /\ T[c].parent = conf[c].parent
            /\ conf[c].parent \in live
        BY <1>2, <2>1, <2>3
      <3>2. CASE T[c].parent = x
        <4>1. conf'[c] = [T[c] EXCEPT !.parent = y]
          BY <2>2, <2>3, <3>2
        <4> QED
          BY <3>1, <3>2, <4>1 DEF Conflict
      <3>3. CASE T[c].parent # x
        <4>1. conf'[c] = T[c]
          BY <2>2, <2>3, <3>3
        <4> QED
          BY <2>1, <3>1, <3>3, <4>1
      <3> QED
        BY <3>2, <3>3
    <2> QED
      BY <1>2, <1>3, <2>1, <2>3
  <1>4. CASE conf' = TopAfterMerge /\ UNCHANGED merge
    <2>1. conf' = T /\ live' = live
      BY <1>2, <1>4
    <2> QED
      BY <1>2, <1>4, <2>1
  <1> QED
    BY <1>1, <1>3, <1>4

LEMMA EndMergeLine ==
  ASSUME BaseInv, BaseInv', DataInv, OneLine, EndMerge
  PROVE  OneLine'
  <1>1. /\ alive /\ hold = "put" /\ merge.on /\ merge.seq > LastCopied
        /\ \/ /\ ~FullMerge /\ merge' = NoMerge
              /\ UNCHANGED <<conf, mem>>
           \/ /\ FullMerge /\ merge' = NoMerge
              /\ conf' = Heirs(TopAfterMerge)
           \/ /\ FullMerge /\ conf' = TopAfterMerge
              /\ UNCHANGED merge
    BY DEF EndMerge
  <1>2. UNCHANGED <<qdecl, dbq, rows, decls>>
    BY DEF EndMerge, updaterVars, dbVars
  <1>3. live' \subseteq live /\ mem' \subseteq mem
    BY EndMergeConf
  <1>4. PICK x, y, T : x = merge.src /\ y = merge.dst /\ T = TopAfterMerge
    OBVIOUS
  <1>5. CASE ~FullMerge /\ merge' = NoMerge /\ UNCHANGED <<conf, mem>>
    <2>1. MergeAgrees' /\ ForksBelow'
      BY <1>5 DEF MergeAgrees, NoMerge, OneLine, ForksBelow
    <2>2. ConfGrows
      <3>1. \A c \in live : conf[c].top \in Int
        BY BaseTypes, ConfTops
      <3> QED
        BY <1>5, <3>1, GrowsTypes DEF ConfGrows
    <2>3. WithinKept
      <3>1. merge.seq <= merge.cseq + 1
        BY <1>1, <1>5 DEF DataInv, MergeEnds
      <3>2. /\ merge.cseq \in Int /\ merge.seq \in Int /\ merge.cseq <= conf[y].top
            /\ y \in live
        BY <1>1, <1>4, MergeOn
      <3>3. conf[y].top \in Int
        BY <3>2, BaseTypes, ConfTops
      <3>4. ASSUME NEW c \in live, NEW s \in Seqs, Within(c, s)
            PROVE  s <= conf[c].top
        <4>1. s \in Int
          BY SeqType
        <4> QED
          BY <1>4, <3>1, <3>2, <3>3, <3>4, <4>1 DEF Within
      <3> QED
        BY <1>5, <3>4 DEF WithinKept, Within
    <2>4. MemBelow' /\ QueueBelow'
      BY <1>2, <1>3, <1>5, <2>3, BelowKept
    <2> QED
      BY <1>1, <1>2, <1>3, <2>1, <2>2, <2>4, LineStable
  <1>6. CASE /\ FullMerge
             /\ \/ merge' = NoMerge /\ conf' = Heirs(TopAfterMerge)
                \/ conf' = TopAfterMerge /\ UNCHANGED merge
    <2>1. /\ x \in live /\ y \in live /\ x # y /\ DOMAIN T = live
          /\ \A c \in live : /\ T[c].pseq = conf[c].pseq /\ T[c].parent = conf[c].parent
                             /\ T[c] \in Conflict /\ conf[c] \in Conflict
                             /\ Grows(conf[c], T[c])
                             /\ conf[c].parent \in live
                             /\ T[c].top \in Int /\ conf[c].top \in Int
                             /\ conf[c].pseq \in Int
          /\ T[y].top >= conf[x].top
      BY <1>1, <1>4, <1>6, TopAfterLine
    <2>2. /\ \A c \in live' : /\ conf'[c].pseq = conf[c].pseq /\ conf'[c].top = T[c].top
                              /\ conf'[c].hist = T[c].hist
                              /\ \/ conf'[c].parent = conf[c].parent
                                    /\ conf[c].parent \in live'
                                 \/ conf[c].parent = x /\ conf'[c].parent = y
          /\ y \in live'
      BY <1>1, <1>4, <1>6, EndMergeNew
    <2>3. ConfGrows
      BY <1>3, <2>1, <2>2 DEF ConfGrows, Grows
    <2>4. ForksBelow'
      <3>1. ASSUME NEW c \in live'
            PROVE  conf'[c].pseq <= conf'[conf'[c].parent].top
        <4>1. c \in live /\ conf[c].pseq <= conf[conf[c].parent].top
          BY <1>3 DEF OneLine, ForksBelow
        <4>2. \A d \in live : conf[d].top <= T[d].top
          BY <2>1 DEF Grows
        <4> QED
          BY <2>1, <2>2, <4>1, <4>2
      <3> QED
        BY <3>1 DEF ForksBelow
    <2>5. MergeAgrees'
      <3>1. CASE merge' = NoMerge
        BY <3>1 DEF MergeAgrees, NoMerge
      <3>2. CASE UNCHANGED merge /\ conf' = TopAfterMerge
        <4>1. conf[x].parent = y /\ T[x].hist = conf[x].hist
          <5>1. T[x] = conf[x]
            BY <1>1, <1>4, <2>1, TopAfterForest
          <5> QED
            BY <1>1, <1>4, <5>1 DEF OneLine, MergeAgrees
        <4>2. HistAt(T[y].hist, merge.cseq) = HistAt(T[x].hist, merge.cseq)
          <5>1. merge.cseq \in Seqs /\ merge.cseq <= conf[y].top
            BY <1>1, <1>4, MergeOn
          <5>2. HistAt(conf[y].hist, merge.cseq) = HistAt(T[y].hist, merge.cseq)
            BY <2>1, <5>1 DEF Grows
          <5> QED
            BY <1>1, <1>4, <4>1, <5>2 DEF OneLine, MergeAgrees, Agree
        <4> QED
          BY <1>4, <2>1, <3>2, <4>1, <4>2 DEF MergeAgrees, Agree
      <3> QED
        BY <1>6, <3>1, <3>2
    <2>6. WithinKept
      <3>1. ASSUME NEW c \in live, c \in live', NEW s \in Seqs, Within(c, s)
            PROVE  s <= conf'[c].top
        <4>1. s \in Int /\ conf[c].top <= T[c].top
          BY <2>1, SeqType DEF Grows
        <4>2. conf'[c].top = T[c].top
          BY <2>2, <3>1
        <4>3. s <= conf[c].top \/ (c = y /\ s <= conf[x].top)
          BY <1>4, <3>1 DEF Within
        <4> QED
          BY <2>1, <4>1, <4>2, <4>3
      <3> QED
        BY <3>1 DEF WithinKept, Within
    <2>7. MemBelow' /\ QueueBelow'
      BY <1>2, <1>3, <2>6, BelowKept
    <2> QED
      BY <1>1, <1>2, <1>3, <2>3, <2>4, <2>5, <2>7, LineStable
  <1> QED
    BY <1>1, <1>5, <1>6

\* What end_update queues goes on from what was queued before.
\* The rows an update leads to, before and after a step on the queue.
LEMMA UnlockChain ==
  ASSUME BaseInv, Unlock, conf[0].top # -1, NEW n \in Nat, n = Len(dbq),
         NEW new, Chained(new)'
  PROVE  /\ new[n + 1] = conf
         /\ \E snap : Chained(snap) /\ \A i \in 0 .. n : new[i] = snap[i]
  <1>1. /\ alive /\ hold \in {"put", "load"} /\ merge = NoMerge /\ EndUpdate
        /\ UNCHANGED <<conf, mem, merge, rows, decls>>
    BY MergeOff DEF Unlock, Putting, BaseInv, IdleRight, scrollVars, dbVars
  <1>2. PICK e : e = [cf |-> ChangedRows, rm |-> qrm, decl |-> qdecl]
    OBVIOUS
  <1>3. dbq' = Append(dbq, e)
    BY <1>1, <1>2 DEF EndUpdate, ScheduleDbUpdate
  <1>4. /\ DOMAIN dbq = 1 .. n /\ Len(dbq') = n + 1
        /\ \A i \in DOMAIN dbq : dbq'[i] = dbq[i]
        /\ dbq'[n + 1] = e
    BY <1>2, <1>3, BaseTypes
  <1>5. /\ new \in [0 .. n + 1 -> ConfSet] /\ new[0] = rows
        /\ \A i \in 1 .. n + 1 : new[i] = RowsAfter(dbq'[i], new[i - 1])
    BY <1>1, <1>4 DEF Chained, ChainFrom
  <1>6. PICK snap : snap = [i \in 0 .. n |-> new[i]]
    OBVIOUS
  <1>7. 0 .. n \subseteq 0 .. n + 1 /\ 1 .. n \subseteq 1 .. n + 1
        /\ \A i \in 1 .. n : i - 1 \in 0 .. n /\ i \in 0 .. n
        /\ n + 1 \in 1 .. n + 1 /\ n \in 0 .. n /\ (n + 1) - 1 = n /\ 0 \in 0 .. n
    OBVIOUS
  <1>8. Chained(snap)
    <2>1. snap \in [0 .. n -> ConfSet] /\ snap[0] = rows
      BY <1>5, <1>6, <1>7
    <2>2. \A i \in 1 .. n : snap[i] = RowsAfter(dbq[i], snap[i - 1])
      BY <1>4, <1>5, <1>6, <1>7
    <2> QED
      BY <2>1, <2>2 DEF Chained, ChainFrom
  <1>9. new[n + 1] = conf
    <2>1. snap[n] \in ConfSet /\ saved = Restrict(snap[n], DOMAIN snap[n] \ qrm)
      <3>1. Snaps(snap)
        BY <1>1, <1>8, ChainedSnaps
      <3> QED
        BY <1>7, <3>1 DEF Snaps
    <2>2. new[n + 1] = RowsAfter(e, snap[n])
      BY <1>4, <1>5, <1>6, <1>7
    <2> QED
      BY <1>2, <2>1, <2>2, NewRows
  <1> QED
    BY <1>6, <1>8, <1>9

LEMMA TxCommitChain ==
  ASSUME BaseInv, TxCommit, NEW n \in Nat, n = Len(dbq), NEW snap, Chained(snap),
         NEW new, Chained(new)'
  PROVE  \A i \in 0 .. n : new[i] = IF i = 0 THEN snap[1] ELSE snap[i]
  <1>1. /\ rows' = RowsAfter(Head(dbq), rows) /\ UNCHANGED dbq
        /\ tx.stage = "read"
    BY DEF TxCommit, CommitRows, RowsAfter
  <1>2. n >= 1 /\ 1 \in 1 .. n /\ 1 \in 0 .. n /\ 1 - 1 = 0 /\ 0 \in 0 .. n
        /\ Head(dbq) = dbq[1] /\ Head(dbq) \in DbUpdate
    BY <1>1, TxStage, BaseTypes
  <1>3. /\ snap \in [0 .. n -> ConfSet] /\ snap[0] = rows
        /\ \A i \in 1 .. n : snap[i] = RowsAfter(dbq[i], snap[i - 1])
    BY DEF Chained, ChainFrom
  <1>4. /\ rows' = snap[1] /\ RowsAfter(dbq[1], snap[1]) = snap[1]
    <2>1. rows' = snap[1] /\ snap[1] \in ConfSet /\ rows \in ConfSet
      BY <1>1, <1>2, <1>3
    <2> QED
      BY <1>1, <1>2, <2>1, RowsTwice
  <1>5. PICK old : old = [i \in 0 .. n |-> IF i = 0 THEN snap[1] ELSE snap[i]]
    OBVIOUS
  <1>6. Chained(old)'
    <2>1. old \in [0 .. n -> ConfSet] /\ old[0] = rows'
      BY <1>2, <1>3, <1>4, <1>5
    <2>2. ASSUME NEW i \in 1 .. n
          PROVE  old[i] = RowsAfter(dbq[i], old[i - 1])
      <3>1. i \in 0 .. n /\ i # 0 /\ i - 1 \in 0 .. n
        OBVIOUS
      <3>2. old[i] = snap[i] /\ snap[i] = RowsAfter(dbq[i], snap[i - 1])
        BY <1>3, <1>5, <3>1
      <3>3. CASE i = 1
        BY <1>2, <1>4, <1>5, <3>2, <3>3
      <3>4. CASE i # 1
        <4>1. i - 1 # 0
          BY <3>4
        <4> QED
          BY <1>5, <3>1, <3>2, <4>1
      <3> QED
        BY <3>3, <3>4
    <2> QED
      BY <1>1, <2>1, <2>2 DEF Chained, ChainFrom
  <1>7. new = old
    <2>1. Len(dbq') \in Nat
      BY <1>1
    <2> QED
      BY <1>6, <2>1, SameChain DEF Chained
  <1> QED
    BY <1>5, <1>7

LEMMA TxEndChain ==
  ASSUME BaseInv, TxEnd, NEW n \in Nat, n = Len(dbq), NEW new, Chained(new)'
  PROVE  \E snap : Chained(snap) /\ \A i \in 0 .. n - 1 : new[i] = snap[i + 1]
  <1>1. alive /\ tx.stage = "blobs" /\ dbq' = Tail(dbq) /\ UNCHANGED rows
    BY DEF TxEnd, dbVars
  <1>2. dbq # <<>> /\ rows = RowsAfter(Head(dbq), rows)
    BY <1>1, TxStage DEF BaseInv, Chain
  <1>3. /\ n >= 1 /\ 1 \in 1 .. n /\ Head(dbq) = dbq[1] /\ Len(dbq') = n - 1
        /\ \A i \in 1 .. n - 1 : dbq'[i] = dbq[i + 1]
    BY <1>1, <1>2, BaseTypes
  <1>4. /\ new \in [0 .. n - 1 -> ConfSet] /\ new[0] = rows
        /\ \A i \in 1 .. n - 1 : new[i] = RowsAfter(dbq[i + 1], new[i - 1])
    BY <1>1, <1>3 DEF Chained, ChainFrom
  <1>5. PICK snap : snap = [i \in 0 .. n |-> IF i = 0 THEN rows ELSE new[i - 1]]
    OBVIOUS
  <1>6. Chained(snap)
    <2>1. snap \in [0 .. n -> ConfSet] /\ snap[0] = rows
      <3>1. 0 \in 0 .. n - 1 /\ 0 \in 0 .. n
        BY <1>3
      <3>2. rows \in ConfSet
        BY <1>4, <3>1
      <3>3. \A i \in 0 .. n : i # 0 => i - 1 \in 0 .. n - 1
        OBVIOUS
      <3> QED
        BY <1>4, <1>5, <3>1, <3>2, <3>3
    <2>2. ASSUME NEW i \in 1 .. n
          PROVE  snap[i] = RowsAfter(dbq[i], snap[i - 1])
      <3>1. i \in 0 .. n /\ i # 0 /\ i - 1 \in 0 .. n
        OBVIOUS
      <3>2. CASE i = 1
        BY <1>2, <1>3, <1>4, <1>5, <3>1, <3>2
      <3>3. CASE i # 1
        <4>1. i - 1 \in 1 .. n - 1 /\ (i - 1) + 1 = i /\ i - 1 # 0
          BY <3>3
        <4>2. new[i - 1] = RowsAfter(dbq[i], new[(i - 1) - 1])
          BY <1>4, <4>1
        <4> QED
          BY <1>5, <3>1, <4>1, <4>2
      <3> QED
        BY <3>2, <3>3
    <2> QED
      BY <2>1, <2>2 DEF Chained, ChainFrom
  <1>7. ASSUME NEW i \in 0 .. n - 1 PROVE new[i] = snap[i + 1]
    <2>1. i + 1 \in 0 .. n /\ i + 1 # 0 /\ (i + 1) - 1 = i
      OBVIOUS
    <2> QED
      BY <1>5, <2>1
  <1> QED
    BY <1>6, <1>7

LEMMA UnlockLine ==
  ASSUME BaseInv, BaseInv', OneLine, Unlock
  PROVE  OneLine'
  <1>1. /\ alive /\ hold \in {"put", "load"} /\ merge = NoMerge /\ EndUpdate
        /\ UNCHANGED <<conf, mem, merge, rows, decls>>
    BY MergeOff DEF Unlock, Putting, BaseInv, IdleRight, scrollVars, dbVars
  <1>2. CASE conf[0].top = -1
    <2>1. UNCHANGED <<qdecl, dbq>>
      BY <1>1, <1>2 DEF EndUpdate, queueVars
    <2>2. MemBelow' /\ QueueBelow'
      BY <1>1, <2>1 DEF OneLine, MemBelow, QueueBelow, Within
    <2> QED
      BY <1>1, <2>1, <2>2, LineSame
  <1>3. CASE conf[0].top # -1
    <2>1. PICK e : e = [cf |-> ChangedRows, rm |-> qrm, decl |-> qdecl]
      OBVIOUS
    <2>2. PICK n \in Nat : n = Len(dbq)
      BY BaseTypes
    <2>3. dbq' = Append(dbq, e) /\ qdecl' = {}
      BY <1>1, <1>3, <2>1 DEF EndUpdate, ScheduleDbUpdate
    <2>4. /\ DOMAIN dbq = 1 .. n /\ Len(dbq') = n + 1
          /\ \A i \in DOMAIN dbq : dbq'[i] = dbq[i]
          /\ dbq'[n + 1] = e /\ n + 1 \in Nat /\ e.decl = qdecl
      BY <2>1, <2>2, <2>3, BaseTypes
    <2>5. \A c \in live : conf[c].top \in Int
      BY BaseTypes, ConfTops
    <2>6. MergeAgrees' /\ ForksBelow' /\ MemBelow' /\ QueueBelow' /\ DeclsBelow'
      BY <1>1, <2>3 DEF OneLine, MergeAgrees, ForksBelow, MemBelow, QueueBelow, DeclsBelow,
                        Within, Agree
    <2>7. \A p \in qdecl : p[1] \in live => p[2] <= conf[p[1]].top
      BY <1>1 DEF OneLine, QueueBelow, Within, NoMerge
    <2>8. RowsGrow'
      <3> SUFFICES ASSUME NEW new, Chained(new)' PROVE GrowTo(new)'
        BY DEF RowsGrow
      <3>1. new[n + 1] = conf
        BY <1>3, <2>2, UnlockChain
      <3>2. PICK snap : Chained(snap) /\ \A i \in 0 .. n : new[i] = snap[i]
        BY <1>3, <2>2, UnlockChain
      <3>3. n \in 0 .. n /\ (n + 1) - 1 = n
        OBVIOUS
      <3>5. Snaps(snap) /\ GrowTo(snap)
        BY <1>1, <3>2, ChainedSnaps DEF OneLine, RowsGrow
      <3>7. ASSUME NEW i \in 0 .. n + 1, NEW c \in DOMAIN new[i]
            PROVE  /\ c \in live => Grows(new[i][c], conf[c])
                   /\ i >= 1 /\ c \in DOMAIN new[i - 1] => Grows(new[i - 1][c], new[i][c])
                   /\ i >= 1 => \A p \in dbq'[i].decl : p[1] = c => p[2] <= new[i][c].top
        <4>1. CASE i = n + 1
          <5>1. c \in live /\ new[i] = conf /\ new[i - 1] = snap[n]
            BY <3>1, <3>2, <3>3, <3>7, <4>1
          <5>2. Grows(conf[c], conf[c])
            BY <2>5, <5>1, GrowsTypes
          <5>3. c \in DOMAIN snap[n] => Grows(snap[n][c], conf[c])
            BY <2>2, <3>3, <3>5, <5>1 DEF GrowTo
          <5>4. dbq'[i].decl = qdecl
            BY <2>4, <4>1
          <5> QED
            BY <2>7, <5>1, <5>2, <5>3, <5>4
        <4>2. CASE i # n + 1
          <5>1. i \in 0 .. n /\ new[i] = snap[i]
                /\ (i >= 1 => i \in 1 .. n /\ new[i - 1] = snap[i - 1] /\ dbq'[i] = dbq[i])
            BY <2>4, <3>2, <3>7, <4>2
          <5> QED
            BY <2>2, <3>5, <3>7, <5>1 DEF GrowTo
        <4> QED
          BY <4>1, <4>2
      <3> QED
        BY <1>1, <2>4, <3>7 DEF GrowTo
    <2> QED
      BY <2>6, <2>8 DEF OneLine
  <1> QED
    BY <1>2, <1>3

LEMMA TxBeginLine ==
  ASSUME BaseInv, BaseInv', OneLine, TxBegin \/ TxRead \/ TxBlob
  PROVE  OneLine'
  <1>1. UNCHANGED <<conf, merge, dbq, rows, decls, mem, qdecl>> /\ alive
    BY DEF TxBegin, TxRead, TxBlob, scrollVars, queueVars, dbVars
  <1>2. MemBelow' /\ QueueBelow'
    BY <1>1 DEF OneLine, MemBelow, QueueBelow, Within
  <1> QED
    BY <1>1, <1>2, LineSame

LEMMA TxCommitLine ==
  ASSUME BaseInv, BaseInv', DataInv, OneLine, TxCommit
  PROVE  OneLine'
  <1>1. /\ alive /\ tx.stage = "read"
        /\ rows' = RowsAfter(Head(dbq), rows)
        /\ decls' = {d \in decls : d[1] \notin Head(dbq).rm /\ <<d[1], d[2]>> \notin tx.done}
                      \cup tx.facts
    BY DEF TxCommit, CommitRows, CommitDecls, RowsAfter
  <1>2. UNCHANGED <<conf, merge, mem, qdecl, dbq>>
    BY DEF TxCommit, scrollVars, queueVars
  <1>3. tx \in Tx /\ dbq # <<>>
    BY <1>1, TxStage
  <1>4. PICK n \in Nat : n = Len(dbq)
    BY BaseTypes
  <1>5. n >= 1 /\ 1 \in 1 .. n /\ 1 \in 0 .. n /\ 1 - 1 = 0 /\ 0 \in 0 .. n
        /\ 1 \in DOMAIN dbq /\ Head(dbq) = dbq[1] /\ Head(dbq) \in DbUpdate
    BY <1>3, <1>4, BaseTypes
  <1>6. MergeAgrees' /\ ForksBelow' /\ MemBelow' /\ QueueBelow'
    BY <1>2 DEF OneLine, MergeAgrees, ForksBelow, MemBelow, QueueBelow, Within, Agree
  <1>7. PICK snap : Snaps(snap)
    BY <1>1 DEF BaseInv, Chain
  <1>8. /\ snap \in [0 .. n -> ConfSet] /\ snap[0] = rows
        /\ \A i \in 1 .. n : snap[i] = RowsAfter(dbq[i], snap[i - 1])
    BY <1>4, <1>7 DEF Snaps
  <1>9. GrowTo(snap)
    <2>1. Chained(snap)
      BY <1>4, <1>8 DEF Chained, ChainFrom
    <2> QED
      BY <1>1, <2>1 DEF OneLine, RowsGrow
  <1>10. /\ rows' = snap[1] /\ RowsAfter(dbq[1], snap[1]) = snap[1]
    <2>1. rows' = snap[1] /\ snap[1] \in ConfSet /\ rows \in ConfSet
      BY <1>1, <1>5, <1>8
    <2> QED
      BY <1>1, <1>5, <2>1, RowsTwice
  <1>11. \A i \in 0 .. n : \A c \in DOMAIN snap[i] : snap[i][c].top \in Int
    <2>1. ASSUME NEW i \in 0 .. n, NEW c \in DOMAIN snap[i] PROVE snap[i][c].top \in Int
      <3>1. snap[i][c] \in Conflict
        BY <1>8, ConfType
      <3> QED
        BY <3>1, SeqType DEF Conflict
    <2> QED
      BY <2>1
  <1>12. DeclsBelow'
    <2>1. ASSUME NEW d \in decls, d[1] \notin Head(dbq).rm
          PROVE  d[1] \in DOMAIN snap[1] /\ d[2] <= snap[1][d[1]].top
      <3>1. d[1] \in DOMAIN rows /\ d[2] <= rows[d[1]].top
        BY DEF OneLine, DeclsBelow
      <3>2. d[1] \in DOMAIN snap[1]
        <4>1. rows \in ConfSet
          BY <1>5, <1>8
        <4>2. DOMAIN RowsAfter(Head(dbq), rows)
                  = DOMAIN Head(dbq).cf \cup (DOMAIN rows \ Head(dbq).rm)
          BY <1>5, <4>1, RowsAfterType
        <4> QED
          BY <1>1, <1>10, <2>1, <3>1, <4>2
      <3>3. rows[d[1]].top <= snap[1][d[1]].top
        BY <1>4, <1>5, <1>8, <1>9, <3>1, <3>2 DEF GrowTo, Grows
      <3>4. d[2] \in Int
        BY BaseTypes, SeqType
      <3> QED
        BY <1>5, <1>8, <1>11, <3>1, <3>2, <3>3, <3>4
    <2>2. ASSUME NEW d \in tx.facts
          PROVE  d[1] \in DOMAIN snap[1] /\ d[2] <= snap[1][d[1]].top
      <3>1. PICK p \in tx.done : p = <<d[1], d[2]>>
        BY <1>1 DEF DataInv, TxRight
      <3>2. p \in Head(dbq).decl /\ p[1] \in DOMAIN RowsAfter(Head(dbq), rows)
        BY <1>1 DEF DataInv, TxRight
      <3>3. p[2] <= snap[1][p[1]].top
        BY <1>1, <1>4, <1>5, <1>9, <1>10, <3>2 DEF GrowTo
      <3> QED
        BY <1>1, <1>10, <3>1, <3>2, <3>3
    <2> QED
      BY <1>1, <1>10, <2>1, <2>2 DEF DeclsBelow
  <1>13. RowsGrow'
    <2> SUFFICES ASSUME NEW new, Chained(new)' PROVE GrowTo(new)'
      BY DEF RowsGrow
    <2>1. Chained(snap)
      BY <1>4, <1>8 DEF Chained, ChainFrom
    <2>2. \A i \in 0 .. n : new[i] = IF i = 0 THEN snap[1] ELSE snap[i]
      BY <1>4, <2>1, TxCommitChain
    <2>4. ASSUME NEW i \in 0 .. n, NEW c \in DOMAIN new[i]
          PROVE  /\ c \in live => Grows(new[i][c], conf[c])
                 /\ i >= 1 /\ c \in DOMAIN new[i - 1] => Grows(new[i - 1][c], new[i][c])
                 /\ i >= 1 => \A p \in dbq[i].decl : p[1] = c => p[2] <= new[i][c].top
      <3>1. CASE i = 0
        BY <1>4, <1>5, <1>9, <2>2, <2>4, <3>1 DEF GrowTo
      <3>2. CASE i = 1
        <4>1. new[i] = snap[1] /\ new[i - 1] = snap[1]
          BY <1>5, <2>2, <3>2
        <4>2. Grows(snap[1][c], snap[1][c])
          BY <1>5, <1>11, <2>4, <4>1, GrowsTypes
        <4> QED
          BY <1>4, <1>5, <1>9, <2>4, <3>2, <4>1, <4>2 DEF GrowTo
      <3>3. CASE i # 0 /\ i # 1
        <4>1. new[i] = snap[i] /\ new[i - 1] = snap[i - 1]
          BY <2>2, <3>3
        <4> QED
          BY <1>4, <1>9, <2>4, <4>1 DEF GrowTo
      <3> QED
        BY <3>1, <3>2, <3>3
    <2> QED
      BY <1>2, <1>4, <2>4 DEF GrowTo
  <1> QED
    BY <1>6, <1>12, <1>13 DEF OneLine

LEMMA TxEndLine ==
  ASSUME BaseInv, OneLine, TxEnd
  PROVE  OneLine'
  <1>1. alive /\ tx.stage = "blobs" /\ dbq' = Tail(dbq)
    BY DEF TxEnd
  <1>2. UNCHANGED <<conf, merge, mem, qdecl, rows, decls>>
    BY DEF TxEnd, scrollVars, queueVars, dbVars
  <1>3. dbq # <<>> /\ rows = RowsAfter(Head(dbq), rows)
    BY <1>1, TxStage DEF BaseInv, Chain
  <1>4. PICK n \in Nat : n = Len(dbq)
    BY BaseTypes
  <1>5. /\ n >= 1 /\ 1 \in 1 .. n /\ Head(dbq) = dbq[1] /\ Len(dbq') = n - 1
        /\ \A i \in 1 .. n - 1 : dbq'[i] = dbq[i + 1]
    BY <1>1, <1>3, <1>4, BaseTypes
  <1>6. MergeAgrees' /\ ForksBelow' /\ MemBelow' /\ QueueBelow' /\ DeclsBelow'
    BY <1>2 DEF OneLine, MergeAgrees, ForksBelow, MemBelow, QueueBelow, DeclsBelow,
                Within, Agree
  <1>7. RowsGrow'
    <2> SUFFICES ASSUME NEW new, Chained(new)' PROVE GrowTo(new)'
      BY DEF RowsGrow
    <2>2. PICK snap : Chained(snap) /\ \A i \in 0 .. n - 1 : new[i] = snap[i + 1]
      BY <1>4, TxEndChain
    <2>4. GrowTo(snap)
      BY <1>1, <2>2 DEF OneLine, RowsGrow
    <2>5. ASSUME NEW i \in 0 .. n - 1, NEW c \in DOMAIN new[i]
          PROVE  /\ c \in live => Grows(new[i][c], conf[c])
                 /\ i >= 1 /\ c \in DOMAIN new[i - 1] => Grows(new[i - 1][c], new[i][c])
                 /\ i >= 1 => \A p \in dbq'[i].decl : p[1] = c => p[2] <= new[i][c].top
      <3>1. PICK k \in 1 .. n : k = i + 1
        OBVIOUS
      <3>2. new[i] = snap[k] /\ k \in 0 .. n /\ k >= 1
        BY <2>2, <3>1
      <3>3. i >= 1 => new[i - 1] = snap[k - 1] /\ dbq'[i] = dbq[k]
        BY <1>5, <2>2, <3>1
      <3> QED
        BY <1>4, <2>4, <2>5, <3>2, <3>3 DEF GrowTo
    <2> QED
      BY <1>2, <1>5, <2>5 DEF GrowTo
  <1> QED
    BY <1>6, <1>7 DEF OneLine

LEMMA InitLine == Init => OneLine
  <1> SUFFICES ASSUME Init PROVE OneLine
    OBVIOUS
  <1>1. /\ merge = NoMerge /\ conf = NewScroll /\ mem = {} /\ qdecl = {} /\ decls = {}
        /\ rows = <<>> /\ dbq = <<>> /\ alive = TRUE /\ crashes = 0
    BY DEF Init
  <1>2. DOMAIN rows = {}
    <2>1. DOMAIN <<>> = {}
      OBVIOUS
    <2> QED
      BY <1>1, <2>1
  <1>3. DOMAIN conf = {0} /\ conf[0].parent = 0 /\ conf[0].pseq = -1 /\ conf[0].top = -1
    BY <1>1 DEF NewScroll, Root
  <1>4. MergeAgrees /\ MemBelow /\ QueueBelow /\ DeclsBelow
    BY <1>1 DEF MergeAgrees, MemBelow, QueueBelow, DeclsBelow, NoMerge
  <1>5. ForksBelow
    BY <1>3 DEF ForksBelow
  <1>6. RowsGrow
    <2> SUFFICES ASSUME NEW snap, Chained(snap) PROVE GrowTo(snap)
      BY DEF RowsGrow
    <2>1. Len(dbq) = 0 /\ snap[0] = rows
      BY <1>1 DEF Chained, ChainFrom
    <2>2. \A i \in 0 .. Len(dbq) : DOMAIN snap[i] = {}
      BY <1>2, <2>1
    <2> QED
      BY <2>2 DEF GrowTo
  <1> QED
    BY <1>1, <1>4, <1>5, <1>6 DEF OneLine

\* The steps but exits and restarts.
Working ==
  \/ Lock \/ Unlock \/ Update \/ MergeStep \/ Load \/ Loaded \/ Updater
  \/ UNCHANGED vars

\* The steps of a process that lives on.
Lives ==
  alive /\ alive' /\ crashes' = crashes /\ Working

LEMMA StepKinds ==
  ASSUME [Next]_<<vars, bound>>
  PROVE  Exit \/ Restart \/ (UNCHANGED <<alive, crashes>> /\ Working)
  <1>1. Lock \/ Unlock => UNCHANGED <<alive, crashes>>
    BY DEF Lock, Unlock, lifeVars
  <1>2. Update => UNCHANGED <<alive, crashes>>
    <2>1. ASSUME NEW c \in live, NEW s \in Seqs, NEW h \in History, SetHash(c, s, h)
          PROVE  UNCHANGED <<alive, crashes>>
      BY <2>1 DEF SetHash, lifeVars
    <2>2. ASSUME NEW c \in live, NEW s \in Seqs, SetData(c, s)
          PROVE  UNCHANGED <<alive, crashes>>
      BY <2>2 DEF SetData, lifeVars
    <2>3. ASSUME NEW c \in live, NEW p \in Seqs, NEW s \in Seqs, NEW h \in History,
                 Fork(c, p, s, h)
          PROVE  UNCHANGED <<alive, crashes>>
      BY <2>3 DEF Fork, lifeVars
    <2>4. ASSUME NEW i1 \in live, NEW i2 \in live, NEW s \in Seqs, BeginMerge(i1, i2, s)
          PROVE  UNCHANGED <<alive, crashes>>
      BY <2>4 DEF BeginMerge, lifeVars
    <2> QED
      BY <2>1, <2>2, <2>3, <2>4 DEF Update, PutFails
  <1>3. MergeStep => UNCHANGED <<alive, crashes>>
    BY DEF MergeStep, CopyDecl, CopyStuck, TypeStuck, EndMerge, lifeVars
  <1>4. Load => UNCHANGED <<alive, crashes>>
    BY DEF Load, BeginLoad, lifeVars
  <1>5. Loaded => Exit \/ UNCHANGED <<alive, crashes>>
    BY DEF Loaded, EndLoad, lifeVars
  <1>6. Updater => UNCHANGED <<alive, crashes>>
    BY DEF Updater, TxBegin, TxRead, TxCommit, TxBlob, TxEnd, lifeVars
  <1>7. Crash => Exit
    BY DEF Crash
  <1>8. UNCHANGED <<vars, bound>> => UNCHANGED <<alive, crashes>> /\ UNCHANGED vars
    BY DEF vars, lifeVars
  <1> QED
    BY <1>1, <1>2, <1>3, <1>4, <1>5, <1>6, <1>7, <1>8 DEF Next, Working

LEMMA LivesLine ==
  ASSUME BaseInv, BaseInv', DataInv, OneLine, Lives
  PROVE  OneLine'
  <1>1. CASE Lock \/ Unlock
    BY <1>1, LockLine, UnlockLine
  <1>2. CASE Update
    BY <1>2, SetHashLine, SetDataLine, ForkLine, BeginMergeLine, PutStopping,
       PutStopsLine DEF Update
  <1>3. CASE MergeStep
    BY <1>3, CopyDeclLine, CopyStuckLine, EndMergeLine, PutStopping, PutStopsLine
       DEF MergeStep
  <1>4. CASE Load
    BY <1>4, BeginLoadLine DEF Load
  <1>5. CASE Loaded
    BY <1>5, EndLoadLine DEF Loaded, Lives
  <1>6. CASE Updater
    BY <1>6, TxBeginLine, TxCommitLine, TxEndLine DEF Updater
  <1>7. CASE UNCHANGED vars
    <2>1. UNCHANGED <<conf, merge, dbq, rows, decls, mem, qdecl>>
      BY <1>7 DEF vars, scrollVars, queueVars, updaterVars, dbVars
    <2>2. MemBelow' /\ QueueBelow'
      BY <2>1 DEF OneLine, MemBelow, QueueBelow, Within
    <2> QED
      BY <2>1, <2>2, LineSame DEF Lives
  <1> QED
    BY <1>1, <1>2, <1>3, <1>4, <1>5, <1>6, <1>7 DEF Lives, Working

-----------------------------------------------------------------------------
(* Big frames known without having them in memory are in the data store:    *)
(* the fifth invariant.                                                      *)

\* The history of declaration s of c, which a merge may have copied from src.
HistOn(c, s) ==
  IF merge.on /\ c = merge.dst /\ s > conf[c].top
  THEN HistAt(conf[merge.src].hist, s) ELSE HistAt(conf[c].hist, s)

\* The blob is in the data store, or the updater is about to write it, or it
\* was when the process exited.
Kept(b) == \/ \E i \in Cfid : <<b, i>> \in blobs
           \/ tx.stage = "blobs" /\ \E i \in Cfid : <<b, i>> \in tx.blob
           \/ b \in unwritten

InStore(c, s) == \A b : b = <<HistOn(c, s), s>> => Kept(b)

Light(c, s) == /\ s \in bound.big
               /\ <<c, s, "data">> \in mem /\ <<c, s, "buf">> \notin mem
MemBlob == \A c \in Cfid, s \in Seqs : Light(c, s) => InStore(c, s)

RowBlob ==
  \A c \in Cfid, s \in Seqs : \A b :
    s \in bound.big /\ <<c, s, "data">> \in decls /\ b = Blob(rows[c].hist, s)
      => Kept(b)

\* The rows that the update being written leaves.
NewRow(c) == RowsAfter(Head(dbq), rows)[c]
TxBlobs ==
  tx.stage = "read" =>
    \A c \in Cfid, s \in Seqs : \A b :
      s \in bound.big /\ <<c, s, "data">> \in tx.facts /\ b = Blob(NewRow(c).hist, s)
        => Kept(b) \/ \E i \in Cfid : <<b, i>> \in tx.blob

BlobInv == MemBlob /\ RowBlob /\ TxBlobs

\* Steps of memory: what a conflict has stays of the same history.
SameHist ==
  \A c \in live', s \in Seqs : c \in live /\ Within(c, s) => HistOn(c, s)' = HistOn(c, s)
SameMem ==
  \A c \in Cfid, s \in Seqs : Light(c, s)' => Light(c, s) \/ InStore(c, s)'

LEMMA MemBlobKept ==
  ASSUME BaseInv, BaseInv', OneLine, BlobInv, SameHist, SameMem,
         \A b : Kept(b) => Kept(b)'
  PROVE  MemBlob'
  <1> SUFFICES ASSUME NEW c \in Cfid, NEW s \in Seqs, Light(c, s)'
               PROVE  InStore(c, s)'
    BY DEF MemBlob
  <1>1. CASE Light(c, s)
    <2>1. <<c, s, "data">> \in mem /\ <<c, s, "data">> \in mem'
      BY <1>1 DEF Light
    <2>2. PICK m : m = <<c, s, "data">>
      OBVIOUS
    <2>3. m[1] = c /\ m[2] = s /\ m \in mem /\ m \in mem'
      BY <2>1, <2>2
    <2>4. c \in live /\ c \in live' /\ Within(c, s)
      BY <2>3 DEF BaseInv, Fresh, OneLine, MemBelow
    <2>5. HistOn(c, s)' = HistOn(c, s)
      BY <2>4 DEF SameHist
    <2>6. InStore(c, s)
      BY <1>1 DEF BlobInv, MemBlob
    <2> QED
      BY <2>5, <2>6 DEF InStore
  <1> QED
    BY <1>1 DEF SameMem

LEMMA BlobStable ==
  ASSUME BaseInv, BaseInv', OneLine, BlobInv, SameHist, SameMem,
         UNCHANGED <<bound, tx, rows, decls, blobs, unwritten>>,
         dbq # <<>> => Head(dbq') = Head(dbq)
  PROVE  BlobInv'
  <1>1. \A b : Kept(b)' <=> Kept(b)
    BY DEF Kept
  <1>2. MemBlob'
    BY <1>1, MemBlobKept
  <1>3. RowBlob'
    BY <1>1 DEF BlobInv, RowBlob
  <1>4. TxBlobs'
    <2>1. tx.stage = "read" => dbq # <<>>
      BY TxStage
    <2> QED
      BY <1>1, <2>1 DEF BlobInv, TxBlobs, NewRow
  <1> QED
    BY <1>2, <1>3, <1>4 DEF BlobInv

LEMMA QueueOnly ==
  ASSUME BaseInv, BaseInv', OneLine, BlobInv, UNCHANGED <<conf, merge, mem>>,
         UNCHANGED <<bound, tx, rows, decls, blobs, unwritten>>,
         dbq # <<>> => Head(dbq') = Head(dbq)
  PROVE  BlobInv'
  <1>1. SameHist /\ SameMem
    BY DEF SameHist, SameMem, HistOn, Light
  <1> QED
    BY <1>1, BlobStable

LEMMA LockBlob ==
  ASSUME BaseInv, BaseInv', OneLine, BlobInv, UNCHANGED bound,
         Lock \/ Load \/ UNCHANGED vars
  PROVE  BlobInv'
  <1>1. UNCHANGED <<conf, merge, mem, dbq, tx, rows, decls, blobs, unwritten>>
    BY DEF Lock, Load, BeginLoad, vars, scrollVars, updaterVars, dbVars, lifeVars
  <1> QED
    BY <1>1, QueueOnly

LEMMA UnlockBlob ==
  ASSUME BaseInv, BaseInv', OneLine, BlobInv, UNCHANGED bound, Unlock
  PROVE  BlobInv'
  <1>1. EndUpdate /\ UNCHANGED <<conf, merge, mem, tx, rows, decls, blobs, unwritten>>
    BY DEF Unlock, scrollVars, dbVars, lifeVars
  <1>2. dbq' = dbq \/ \E e : dbq' = Append(dbq, e)
    BY <1>1 DEF EndUpdate, ScheduleDbUpdate
  <1>3. dbq # <<>> => Head(dbq') = Head(dbq)
    BY <1>2, BaseTypes
  <1> QED
    BY <1>1, <1>3, QueueOnly

LEMMA OffHist ==
  ASSUME OneLine, ~merge.on, NEW c, NEW s
  PROVE  HistOn(c, s) = HistAt(conf[c].hist, s) /\ (Within(c, s) => s <= conf[c].top)
  BY DEF HistOn, Within

\* Each step leaves a conflict its history.
LEMMA SetHashHist ==
  ASSUME BaseInv, BaseInv', OneLine,
         NEW d \in live, NEW t \in Seqs, NEW h \in History, SetHash(d, t, h)
  PROVE  SameHist
  <1>1. ~merge.on /\ UNCHANGED merge
    BY DEF SetHash, Putting
  <1>2. ConfGrows
    BY SetHashLine
  <1>3. ASSUME NEW c \in live', NEW s \in Seqs, c \in live, Within(c, s)
        PROVE  HistOn(c, s)' = HistOn(c, s)
    <2>1. HistOn(c, s) = HistAt(conf[c].hist, s) /\ s <= conf[c].top
      BY <1>1, <1>3, OffHist
    <2>2. HistAt(conf[c].hist, s) = HistAt(conf'[c].hist, s)
      BY <1>2, <1>3, <2>1 DEF ConfGrows, Grows
    <2> QED
      BY <1>1, <2>1, <2>2 DEF HistOn
  <1> QED
    BY <1>3 DEF SameHist

LEMMA SetHashBlob ==
  ASSUME BaseInv, BaseInv', OneLine, BlobInv, UNCHANGED bound,
         NEW d \in live, NEW t \in Seqs, NEW h \in History, SetHash(d, t, h)
  PROVE  BlobInv'
  <1>1. /\ mem' = mem \cup {<<d, t, "hash">>}
        /\ UNCHANGED <<merge, dbq, tx, rows, decls, blobs, unwritten>>
    BY DEF SetHash, updaterVars, dbVars, lifeVars
  <1>2. SameHist
    BY SetHashHist
  <1>3. SameMem
    BY <1>1 DEF SameMem, Light
  <1> QED
    BY <1>1, <1>2, <1>3, BlobStable

LEMMA SetDataBlob ==
  ASSUME BaseInv, BaseInv', OneLine, BlobInv, UNCHANGED bound,
         NEW d \in live, NEW t \in Seqs, SetData(d, t)
  PROVE  BlobInv'
  <1>1. /\ mem' = mem \cup {<<d, t, "data">>}
                    \cup IF t \in bound.big THEN {<<d, t, "buf">>} ELSE {}
        /\ UNCHANGED <<conf, merge, dbq, tx, rows, decls, blobs, unwritten>>
    BY DEF SetData, updaterVars, dbVars, lifeVars
  <1>2. SameHist
    BY <1>1 DEF SameHist, HistOn
  <1>3. SameMem
    BY <1>1 DEF SameMem, Light
  <1> QED
    BY <1>1, <1>2, <1>3, BlobStable

LEMMA ForkHist ==
  ASSUME NEW d \in live, NEW p \in Seqs, NEW t \in Seqs, NEW h \in History,
         Fork(d, p, t, h)
  PROVE  SameHist
  <1>1. /\ ~merge.on /\ UNCHANGED merge
        /\ conf' = conf \/ \E e : conf' = Over(conf, e)
    BY DEF Fork, Putting
  <1>2. \A c \in live : conf'[c] = conf[c]
    BY <1>1 DEF Over
  <1> QED
    BY <1>1, <1>2 DEF SameHist, HistOn

LEMMA ForkBlob ==
  ASSUME BaseInv, BaseInv', OneLine, BlobInv, UNCHANGED bound, NEW d \in live,
         NEW p \in Seqs, NEW t \in Seqs, NEW h \in History, Fork(d, p, t, h)
  PROVE  BlobInv'
  <1>1. /\ mem' = mem \/ mem' = mem \cup {<<nextc, t, "hash">>}
        /\ UNCHANGED <<merge, dbq, tx, rows, decls, blobs, unwritten>>
    BY DEF Fork, updaterVars, dbVars, lifeVars
  <1>2. SameHist
    BY ForkHist
  <1>3. SameMem
    BY <1>1 DEF SameMem, Light
  <1> QED
    BY <1>1, <1>2, <1>3, BlobStable

LEMMA BeginMergeHist ==
  ASSUME BaseInv, OneLine, NEW i1 \in live, NEW i2 \in live, NEW t \in Seqs,
         BeginMerge(i1, i2, t)
  PROVE  SameHist
  <1>1. ~merge.on /\ conf' = [conf EXCEPT ![i2].parent = i1]
    BY DEF BeginMerge, Putting
  <1>2. \A c \in live : conf[c] \in Conflict /\ conf[c].top \in Int
    BY BaseTypes, ForestType
  <1>3. \A c \in live : conf'[c].top = conf[c].top /\ conf'[c].hist = conf[c].hist
    BY <1>1, <1>2 DEF Conflict
  <1>4. ASSUME NEW c \in live', NEW s \in Seqs, c \in live, Within(c, s)
        PROVE  HistOn(c, s)' = HistOn(c, s)
    <2>1. HistOn(c, s) = HistAt(conf[c].hist, s) /\ s <= conf[c].top
      BY <1>1, <1>4, OffHist
    <2>2. s \in Int
      BY SeqType
    <2> QED
      BY <1>2, <1>3, <1>4, <2>1, <2>2 DEF HistOn
  <1> QED
    BY <1>4 DEF SameHist

LEMMA BeginMergeBlob ==
  ASSUME BaseInv, BaseInv', OneLine, BlobInv, UNCHANGED bound, NEW i1 \in live,
         NEW i2 \in live, NEW t \in Seqs, BeginMerge(i1, i2, t)
  PROVE  BlobInv'
  <1>1. UNCHANGED <<mem, dbq, tx, rows, decls, blobs, unwritten>>
    BY DEF BeginMerge, queueVars, updaterVars, dbVars, lifeVars
  <1>2. SameHist
    BY BeginMergeHist
  <1>3. SameMem
    BY <1>1 DEF SameMem, Light
  <1> QED
    BY <1>1, <1>2, <1>3, BlobStable

LEMMA EndLoadBlob ==
  ASSUME BaseInv, BaseInv', OneLine, BlobInv, UNCHANGED bound,
         NEW d \in Cfid, NEW t \in Seqs, EndLoad(d, t), alive'
  PROVE  BlobInv'
  <1>0. /\ alive
        /\ Stored(d, t) # {} => d \in live
        /\ mem' = mem \cup {<<d, t, f>> : f \in Stored(d, t) \ InMem(d, t)}
        /\ UNCHANGED <<conf, nextc, merge, lockVars, queueVars, updaterVars, dbVars,
                       lifeVars, dropped>>
    BY DEF EndLoad, Exit
  <1>1. UNCHANGED <<conf, merge, dbq, tx, rows, decls, blobs, unwritten>>
    BY <1>0 DEF updaterVars, dbVars, lifeVars
  <1>2. SameHist
    BY <1>1 DEF SameHist, HistOn
  <1>3. ASSUME NEW c \in Cfid, NEW s \in Seqs, Light(c, s)', ~Light(c, s)
        PROVE  InStore(c, s)'
    <2>1. c = d /\ s = t /\ <<c, s, "data">> \in decls
      BY <1>0, <1>3 DEF Light, Stored
    <2>2. c \in live
      BY <1>0, <2>1 DEF Stored, Facts
    <2>3. c \in DOMAIN rows /\ s <= rows[c].top
      <3>1. PICK m : m = <<c, s, "data">>
        OBVIOUS
      <3> QED
        BY <2>1, <3>1 DEF OneLine, DeclsBelow
    <2>4. Grows(rows[c], conf[c])
      BY <1>0, <2>2, <2>3, RowToConf
    <2>5. HistAt(rows[c].hist, s) = HistAt(conf[c].hist, s)
      BY <2>3, <2>4 DEF Grows
    <2>6. s <= conf[c].top /\ ~(s > conf[c].top)
      <3>1. rows[c] \in Conflict
        BY <2>3, ConfType DEF BaseInv, DbTypes, Loadable, Forest
      <3>2. rows[c].top \in Int /\ conf[c].top \in Int /\ s \in Int
        BY <2>2, <3>1, BaseTypes, ConfTops, SeqType DEF Conflict
      <3> QED
        BY <2>3, <2>4, <3>2 DEF Grows
    <2>7. HistOn(c, s)' = HistAt(rows[c].hist, s)
      BY <1>1, <2>5, <2>6 DEF HistOn
    <2>8. s \in bound.big
      BY <1>3 DEF Light
    <2>9. \A b : b = Blob(rows[c].hist, s) => Kept(b)
      BY <2>1, <2>8 DEF BlobInv, RowBlob
    <2> QED
      BY <1>1, <2>7, <2>9 DEF InStore, Kept, Blob
  <1>4. SameMem
    BY <1>3 DEF SameMem
  <1> QED
    BY <1>1, <1>2, <1>4, BlobStable

\* What the destination gets is of the history that the source has it in.
LEMMA MergedHist ==
  ASSUME BaseInv, OneLine, merge.on, NEW t \in Seqs, t <= LastCopied
  PROVE  HistOn(merge.src, t) = HistOn(merge.dst, t)
  <1> DEFINE src == merge.src
             dst == merge.dst
  <1>1. dst # src /\ merge.cseq \in Seqs /\ merge.cseq \in Int /\ merge.cseq <= conf[src].top
        /\ merge.cseq <= conf[dst].top /\ src \in live /\ dst \in live
    BY MergeOn
  <1>2. conf[src].top \in Int /\ conf[dst].top \in Int /\ t \in Int /\ Div \in Int
    BY <1>1, BaseTypes, ConfTops, SeqType, BoundsAssumption
  <1>3. HistOn(src, t) = HistAt(conf[src].hist, t)
    BY <1>1 DEF HistOn
  <1>4. CASE t > conf[dst].top
    BY <1>3, <1>4 DEF HistOn
  <1>5. CASE ~(t > conf[dst].top)
    <2>1. t <= merge.cseq
      <3>1. LastCopied <= conf[src].top /\ LastCopied \in Int
        BY CopyRange
      <3>2. CASE FullMerge
        <4>1. merge.cseq = conf[src].top \/ merge.cseq = conf[dst].top
          BY <3>2 DEF FullMerge
        <4> QED
          BY <1>1, <1>2, <1>5, <3>1, <4>1
      <3>3. CASE ~FullMerge
        BY <3>3 DEF LastCopied
      <3> QED
        BY <3>2, <3>3
    <2>2. HistAt(conf[dst].hist, merge.cseq) = HistAt(conf[src].hist, merge.cseq)
      BY DEF OneLine, MergeAgrees, Agree
    <2>3. HistAt(conf[dst].hist, t) = HistAt(conf[src].hist, t)
      BY <1>1, <1>2, <2>1, <2>2 DEF HistAt
    <2> QED
      BY <1>3, <1>5, <2>3 DEF HistOn
  <1> QED
    BY <1>4, <1>5

LEMMA CopyHist ==
  ASSUME BaseInv, CopyDecl
  PROVE  SameHist
  <1>1. /\ merge.on /\ merge \in Merge
        /\ \A c \in live \ {merge.src} : conf'[c] = conf[c]
        /\ conf'[merge.src].top = conf[merge.src].top
        /\ conf'[merge.src].hist = conf[merge.src].hist
        /\ merge' = [merge EXCEPT !.seq = merge.seq + 1]
    BY CopyConf
  <1>2. merge'.on /\ merge'.src = merge.src /\ merge'.dst = merge.dst
    BY <1>1 DEF Merge
  <1>3. \A c \in live : conf'[c].top = conf[c].top /\ conf'[c].hist = conf[c].hist
    BY <1>1
  <1> QED
    BY <1>1, <1>2, <1>3 DEF SameHist, HistOn

LEMMA CopyDeclBlob ==
  ASSUME BaseInv, BaseInv', OneLine, BlobInv, UNCHANGED bound, CopyDecl
  PROVE  BlobInv'
  <1> DEFINE src == merge.src
             dst == merge.dst
             t == merge.seq
             k == ToC(conf, dst, t)
  <1>1. /\ Forest(conf) /\ merge.on /\ alive
        /\ src \in live /\ dst \in live /\ t \in Seqs /\ t <= LastCopied
        /\ \A c \in live \ {src} : conf'[c] = conf[c]
        /\ conf'[src].top = conf[src].top /\ conf'[src].hist = conf[src].hist
        /\ merge' = [merge EXCEPT !.seq = merge.seq + 1] /\ merge \in Merge
    BY CopyConf
  <1>2. UNCHANGED <<dbq, tx, rows, decls, blobs, unwritten>>
    BY DEF CopyDecl, updaterVars, dbVars, lifeVars
  <1>3. merge'.on /\ merge'.src = src /\ merge'.dst = dst
    BY <1>1 DEF Merge
  <1>4. \A c \in live : conf'[c].top = conf[c].top /\ conf'[c].hist = conf[c].hist
    BY <1>1
  <1>5. mem' = (mem \ MovedFrames(t))
                  \cup {<<k, t, f>> : f \in (InMem(src, t) \ Frames) \ InMem(k, t)}
                  \cup {<<dst, t, f>> : f \in InMem(src, t) \cap Frames}
    <2>1. CopyFacts(k, t)
      BY CopyTypes
    <2> QED
      BY <2>1 DEF CopyFacts
  <1>6. SameHist
    BY CopyHist
  <1>7. HistOn(src, t) = HistOn(dst, t)
    BY <1>1, MergedHist
  <1> HIDE DEF k
  <1>8. PICK x, y, z : x = src /\ y = dst /\ z = t
    OBVIOUS
  <1>9. ASSUME NEW c \in Cfid, NEW s \in Seqs, Light(c, s)', ~Light(c, s)
        PROVE  InStore(c, s)'
    <2>1. <<c, s, "data">> \in mem' /\ <<c, s, "buf">> \notin mem' /\ s \in bound.big
      BY <1>9 DEF Light
    <2>2. CASE <<c, s, "data">> \in mem \ MovedFrames(t)
      <3>1. <<c, s, "buf">> \notin mem
        BY <1>5, <2>1, <2>2 DEF MovedFrames, Frames
      <3> QED
        BY <1>9, <2>1, <2>2, <3>1 DEF Light
    <2>3. CASE \E f \in InMem(src, t) \cap Frames : <<c, s, "data">> = <<dst, t, f>>
      <3>1. c = y /\ s = z /\ <<x, z, "data">> \in mem
        BY <1>8, <2>3 DEF InMem
      <3>2. <<x, z, "buf">> \notin mem
        <4>1. SUFFICES ASSUME <<x, z, "buf">> \in mem PROVE FALSE
          OBVIOUS
        <4>2. "buf" \in InMem(src, t) \cap Frames
          BY <1>8, <4>1 DEF InMem, Frames
        <4> QED
          BY <1>5, <1>8, <2>1, <3>1, <4>2
      <3>3. x \in Cfid /\ z \in Seqs
        BY <1>1, <1>8, BaseTypes
      <3>4. InStore(x, z)
        BY <2>1, <3>1, <3>2, <3>3 DEF BlobInv, MemBlob, Light
      <3>5. HistOn(y, z)' = HistOn(x, z)
        <4>1. HistOn(y, z)' = HistOn(y, z)
          BY <1>1, <1>3, <1>4, <1>8 DEF HistOn
        <4> QED
          BY <1>7, <1>8, <4>1
      <3> QED
        BY <1>2, <3>1, <3>4, <3>5 DEF InStore, Kept
    <2>4. ~\E f \in (InMem(src, t) \ Frames) \ InMem(k, t) : <<c, s, "data">> = <<k, t, f>>
      BY DEF Frames
    <2> QED
      BY <1>5, <2>1, <2>2, <2>3, <2>4
  <1>10. SameMem
    BY <1>9 DEF SameMem
  <1> QED
    BY <1>2, <1>6, <1>10, BlobStable

LEMMA PutStopsBlob ==
  ASSUME BaseInv, BaseInv', OneLine, BlobInv, UNCHANGED bound, PutStops
  PROVE  BlobInv'
  BY QueueOnly DEF PutStops

LEMMA CopyStuckBlob ==
  ASSUME BaseInv, BaseInv', OneLine, BlobInv, UNCHANGED bound, CopyStuck
  PROVE  BlobInv'
  <1>1. UNCHANGED <<conf, merge, dbq, tx, rows, decls, blobs, unwritten>>
    BY CopyStops
  <1>2. SameHist
    BY <1>1 DEF SameHist, HistOn
  <1>3. SameMem
    <2>1. PICK t, k : mem' = mem \cup {<<k, t, f>> :
                               f \in (InMem(merge.src, t) \ Frames) \ InMem(k, t)}
      BY CopyStops
    <2> QED
      BY <2>1 DEF SameMem, Light, Frames
  <1> QED
    BY <1>1, <1>2, <1>3, BlobStable

LEMMA EndMergeHist ==
  ASSUME BaseInv, DataInv, OneLine, EndMerge
  PROVE  SameHist
  <1>1. /\ hold = "put" /\ merge.on
        /\ ~FullMerge => merge' = NoMerge /\ UNCHANGED conf
    BY DEF EndMerge
  <1>2. PICK x, y, T : x = merge.src /\ y = merge.dst /\ T = TopAfterMerge
    OBVIOUS
  <1>3. ASSUME NEW c \in live', NEW s \in Seqs, c \in live, Within(c, s)
        PROVE  HistOn(c, s)' = HistOn(c, s)
    <2>1. CASE ~FullMerge
      <3>1. s <= conf[c].top /\ ~(s > conf[c].top)
        <4>1. merge.seq <= merge.cseq + 1
          BY <1>1, <2>1 DEF DataInv, MergeEnds
        <4>2. /\ merge.cseq \in Int /\ merge.seq \in Int /\ merge.cseq <= conf[y].top
              /\ y \in live
          BY <1>1, <1>2, MergeOn
        <4>3. conf[y].top \in Int /\ conf[c].top \in Int /\ s \in Int
          BY <1>3, <4>2, BaseTypes, ConfTops, SeqType
        <4> QED
          BY <1>2, <1>3, <4>1, <4>2, <4>3 DEF Within
      <3> QED
        BY <1>1, <2>1, <3>1 DEF HistOn, NoMerge
    <2>2. CASE FullMerge
      <3>1. /\ y \in live /\ c \in live
            /\ Grows(conf[c], T[c]) /\ T[c].top \in Int /\ conf[c].top \in Int
            /\ T[y].top >= conf[x].top /\ T[y].top \in Int
            /\ conf[x].top \in Int /\ conf[y].top \in Int
            /\ conf[x].top > conf[y].top => T[y].hist = conf[x].hist
        BY <1>1, <1>2, <1>3, <2>2, TopAfterLine
      <3>2. /\ conf'[c].top = T[c].top /\ conf'[c].hist = T[c].hist
            /\ merge' = NoMerge \/ (conf' = TopAfterMerge /\ UNCHANGED merge)
        BY <1>2, <1>3, <2>2, EndMergeNew
      <3>3. s \in Int
        BY SeqType
      <3>4. s <= T[c].top /\ ~(s > conf'[c].top)
        <4>1. s <= conf[c].top \/ (c = y /\ s <= conf[x].top)
          BY <1>2, <1>3 DEF Within
        <4>2. conf[c].top <= T[c].top
          BY <3>1 DEF Grows
        <4> QED
          BY <3>1, <3>2, <3>3, <4>1, <4>2
      <3>5. HistOn(c, s)' = HistAt(T[c].hist, s)
        BY <3>2, <3>4 DEF HistOn
      <3>6. CASE s <= conf[c].top
        <4>1. HistAt(conf[c].hist, s) = HistAt(T[c].hist, s)
          BY <3>1, <3>6 DEF Grows
        <4>2. ~(s > conf[c].top)
          BY <3>1, <3>3, <3>6
        <4> QED
          BY <3>5, <4>1, <4>2 DEF HistOn
      <3>7. CASE ~(s <= conf[c].top)
        <4>1. c = y /\ s <= conf[x].top /\ s > conf[y].top
          BY <1>2, <1>3, <3>1, <3>3, <3>7 DEF Within
        <4>2. T[y].hist = conf[x].hist
          BY <3>1, <3>3, <4>1
        <4> QED
          BY <1>1, <1>2, <3>5, <4>1, <4>2 DEF HistOn
      <3> QED
        BY <3>6, <3>7
    <2> QED
      BY <2>1, <2>2
  <1> QED
    BY <1>3 DEF SameHist

LEMMA EndMergeBlob ==
  ASSUME BaseInv, BaseInv', DataInv, OneLine, BlobInv, UNCHANGED bound, EndMerge
  PROVE  BlobInv'
  <1>1. UNCHANGED <<dbq, tx, rows, decls, blobs, unwritten>>
    BY DEF EndMerge, updaterVars, dbVars
  <1>2. SameMem
    <2>1. ASSUME NEW c \in Cfid, NEW s \in Seqs, Light(c, s)' PROVE Light(c, s)
      <3>1. PICK m, n : m = <<c, s, "data">> /\ n = <<c, s, "buf">>
        OBVIOUS
      <3>2. m[1] = c /\ n[1] = c /\ m \in mem' /\ n \notin mem' /\ s \in bound.big
        BY <2>1, <3>1 DEF Light
      <3>3. c \in live' /\ m \in mem
        BY <3>2, EndMergeConf DEF BaseInv, Fresh
      <3>4. n \notin mem
        BY <3>2, <3>3, EndMergeConf
      <3> QED
        BY <3>1, <3>2, <3>3, <3>4 DEF Light
    <2> QED
      BY <2>1 DEF SameMem
  <1>3. SameHist
    BY EndMergeHist
  <1> QED
    BY <1>1, <1>2, <1>3, BlobStable

LEMMA MemBlobSame ==
  ASSUME BlobInv, UNCHANGED <<bound, conf, merge, mem>>, \A b : Kept(b) => Kept(b)'
  PROVE  MemBlob'
  <1>1. ASSUME NEW c \in Cfid, NEW s \in Seqs, Light(c, s)' PROVE InStore(c, s)'
    <2>1. InStore(c, s)
      BY <1>1 DEF BlobInv, MemBlob, Light
    <2>2. HistOn(c, s)' = HistOn(c, s)
      BY DEF HistOn
    <2> QED
      BY <2>1, <2>2 DEF InStore
  <1> QED
    BY <1>1 DEF MemBlob

LEMMA TxBeginBlob ==
  ASSUME BlobInv, UNCHANGED bound, TxBegin
  PROVE  BlobInv'
  <1>1. /\ UNCHANGED <<conf, merge, mem, rows, decls, blobs, unwritten>>
        /\ tx.stage = "idle" /\ tx'.stage = "read" /\ tx'.facts = {}
    BY DEF TxBegin, scrollVars, dbVars, lifeVars
  <1>2. \A b : Kept(b)' <=> Kept(b)
    BY <1>1 DEF Kept
  <1>3. MemBlob'
    BY <1>1, <1>2, MemBlobSame
  <1>4. RowBlob' /\ TxBlobs'
    BY <1>1, <1>2 DEF BlobInv, RowBlob, TxBlobs
  <1> QED
    BY <1>3, <1>4 DEF BlobInv

LEMMA TxEndBlob ==
  ASSUME BlobInv, UNCHANGED bound, TxEnd
  PROVE  BlobInv'
  <1>1. /\ UNCHANGED <<conf, merge, mem, rows, decls, blobs, unwritten>>
        /\ tx.blob = {} /\ tx'.stage = "idle"
    BY DEF TxEnd, NoTx, scrollVars, dbVars, lifeVars
  <1>2. \A b : Kept(b)' <=> Kept(b)
    BY <1>1 DEF Kept
  <1>3. MemBlob'
    BY <1>1, <1>2, MemBlobSame
  <1>4. RowBlob' /\ TxBlobs'
    BY <1>1, <1>2 DEF BlobInv, RowBlob, TxBlobs
  <1> QED
    BY <1>3, <1>4 DEF BlobInv

\* A declaration queued in the first update is in the row of its conflict.
LEMMA FirstRow ==
  ASSUME BaseInv, OneLine, alive, dbq # <<>>, NEW c \in live, NEW s,
         <<c, s>> \in Head(dbq).decl
  PROVE  /\ Grows(NewRow(c), conf[c]) /\ s <= NewRow(c).top
         /\ NewRow(c).top \in Int
  <1>1. PICK snap : Snaps(snap)
    BY DEF BaseInv, Chain
  <1>2. Chained(snap)
    BY <1>1 DEF Snaps, Chained, ChainFrom
  <1>3. GrowTo(snap)
    BY <1>2 DEF OneLine, RowsGrow
  <1>4. /\ 1 \in 1 .. Len(dbq) /\ 1 \in 0 .. Len(dbq) /\ 0 \in 0 .. Len(dbq)
        /\ Head(dbq) = dbq[1]
    BY BaseTypes
  <1>5. snap[1] = RowsAfter(Head(dbq), rows)
    BY <1>1, <1>4 DEF Snaps
  <1>6. PICK p : p = <<c, s>>
    OBVIOUS
  <1>7. p[1] = c /\ p[2] = s /\ p \in dbq[1].decl
    BY <1>4, <1>6
  <1>8. c \in DOMAIN snap[1]
    BY <1>1, <1>4, <1>7 DEF Snaps
  <1>9. snap[1][c].top \in Int
    <2>1. snap[1] \in ConfSet
      BY <1>1, <1>4 DEF Snaps
    <2>2. snap[1][c] \in Conflict
      BY <1>8, <2>1, ConfType
    <2> QED
      BY <2>2, SeqType DEF Conflict
  <1>10. Grows(snap[1][c], conf[c]) /\ s <= snap[1][c].top
    BY <1>3, <1>4, <1>7, <1>8 DEF GrowTo
  <1> QED
    BY <1>5, <1>9, <1>10 DEF NewRow

LEMMA TxReadBlob ==
  ASSUME BaseInv, DataInv, OneLine, BlobInv, UNCHANGED bound, TxRead
  PROVE  BlobInv'
  <1>1. alive /\ tx.stage = "read" /\ UNCHANGED <<conf, merge, mem, dbq, rows, decls, blobs, unwritten>>
    BY DEF TxRead, scrollVars, dbVars, lifeVars
  <1>2. tx \in Tx /\ dbq # <<>>
    BY <1>1, TxStage
  <1>3. PICK p \in tx.todo :
          IF p[1] \in live /\ ToC(conf, p[1], p[2]) = p[1]
          THEN tx' = [tx EXCEPT
                 !.todo = @ \ {p}, !.done = @ \cup {p},
                 !.facts = @ \cup {<<p[1], p[2], f>> :
                                     f \in InMem(p[1], p[2]) \cap Facts},
                 !.blob = @ \cup IF "buf" \in InMem(p[1], p[2])
                                 THEN {<<Blob(conf[p[1]].hist, p[2]), p[1]>>} ELSE {}]
          ELSE tx' = [tx EXCEPT !.todo = @ \ {p}]
    BY DEF TxRead
  <1>4. PICK d \in Cfid, t \in Seqs : p = <<d, t>>
    BY <1>2 DEF Tx
  <1>5. p[1] = d /\ p[2] = t /\ <<d, t>> \in Head(dbq).decl
    BY <1>1, <1>4 DEF DataInv, TxRight
  <1>6. /\ tx'.stage = "read" /\ tx.blob \subseteq tx'.blob
        /\ \/ tx'.facts = tx.facts
           \/ /\ d \in live
              /\ tx'.facts = tx.facts \cup {<<d, t, f>> : f \in InMem(d, t) \cap Facts}
              /\ <<d, t, "buf">> \in mem => <<Blob(conf[d].hist, t), d>> \in tx'.blob
    <2>1. ASSUME NEW F, NEW B,
                 tx' = [tx EXCEPT !.todo = @ \ {p}, !.done = @ \cup {p},
                                  !.facts = @ \cup F, !.blob = @ \cup B]
          PROVE  /\ tx'.stage = "read" /\ tx'.facts = tx.facts \cup F
                 /\ tx'.blob = tx.blob \cup B
      BY <1>1, <1>2, <2>1 DEF Tx
    <2>2. ASSUME tx' = [tx EXCEPT !.todo = @ \ {p}]
          PROVE  tx'.stage = "read" /\ tx'.facts = tx.facts /\ tx'.blob = tx.blob
      BY <1>1, <1>2, <2>2 DEF Tx
    <2>3. CASE d \in live /\ ToC(conf, d, t) = d
      <3>1. PICK F, B :
              /\ F = {<<d, t, f>> : f \in InMem(d, t) \cap Facts}
              /\ B = IF "buf" \in InMem(d, t) THEN {<<Blob(conf[d].hist, t), d>>} ELSE {}
        OBVIOUS
      <3>2. tx' = [tx EXCEPT !.todo = @ \ {p}, !.done = @ \cup {p},
                             !.facts = @ \cup F, !.blob = @ \cup B]
        BY <1>3, <1>5, <2>3, <3>1
      <3>3. <<d, t, "buf">> \in mem => "buf" \in InMem(d, t)
        BY DEF InMem, Frames
      <3>4. tx'.stage = "read" /\ tx'.facts = tx.facts \cup F /\ tx'.blob = tx.blob \cup B
        BY <2>1, <3>2
      <3>5. <<d, t, "buf">> \in mem => <<Blob(conf[d].hist, t), d>> \in B
        BY <3>1, <3>3
      <3> QED
        BY <2>3, <3>1, <3>4, <3>5
    <2>4. CASE ~(d \in live /\ ToC(conf, d, t) = d)
      BY <1>3, <1>5, <2>2, <2>4
    <2> QED
      BY <2>3, <2>4
  <1>7. \A b : Kept(b)' <=> Kept(b)
    BY <1>1, <1>6 DEF Kept
  <1>8. MemBlob'
    BY <1>1, <1>7, MemBlobSame
  <1>9. RowBlob'
    BY <1>1, <1>7 DEF BlobInv, RowBlob
  <1>10. TxBlobs'
    <2>1. ASSUME NEW c \in Cfid, NEW s \in Seqs, NEW b, s \in bound.big,
                 <<c, s, "data">> \in tx'.facts, b = Blob(NewRow(c).hist, s)
          PROVE  Kept(b) \/ \E i \in Cfid : <<b, i>> \in tx'.blob
      <3>1. CASE <<c, s, "data">> \in tx.facts
        BY <1>1, <1>6, <2>1, <3>1 DEF BlobInv, TxBlobs
      <3>2. CASE /\ d \in live /\ c = d /\ s = t /\ <<d, t, "data">> \in mem
                 /\ <<d, t, "buf">> \in mem => <<Blob(conf[d].hist, t), d>> \in tx'.blob
        <4>1. Grows(NewRow(d), conf[d]) /\ t <= NewRow(d).top /\ NewRow(d).top \in Int
          BY <1>1, <1>2, <1>5, <3>2, FirstRow
        <4>2. HistAt(NewRow(d).hist, t) = HistAt(conf[d].hist, t)
          BY <4>1 DEF Grows
        <4>3. b = Blob(conf[d].hist, t)
          BY <2>1, <3>2, <4>2 DEF Blob
        <4>4. CASE <<d, t, "buf">> \in mem
          BY <3>2, <4>3, <4>4
        <4>5. CASE <<d, t, "buf">> \notin mem
          <5>1. InStore(d, t)
            BY <2>1, <3>2, <4>5 DEF BlobInv, MemBlob, Light
          <5>2. ~(t > conf[d].top)
            <6>1. conf[d].top \in Int /\ t \in Int
              BY <3>2, BaseTypes, ConfTops, SeqType
            <6> QED
              BY <4>1, <6>1 DEF Grows
          <5>3. b = <<HistOn(d, t), t>>
            BY <4>3, <5>2 DEF HistOn, Blob
          <5> QED
            BY <5>1, <5>3 DEF InStore
        <4> QED
          BY <4>4, <4>5
      <3> QED
        BY <1>6, <2>1, <3>1, <3>2 DEF InMem
    <2> QED
      BY <1>1, <1>7, <2>1 DEF TxBlobs, NewRow
  <1> QED
    BY <1>8, <1>9, <1>10 DEF BlobInv

LEMMA TxCommitBlob ==
  ASSUME BaseInv, DataInv, OneLine, BlobInv, UNCHANGED bound, TxCommit
  PROVE  BlobInv'
  <1>1. /\ alive /\ tx.stage = "read"
        /\ rows' = RowsAfter(Head(dbq), rows)
        /\ decls' = {d \in decls : d[1] \notin Head(dbq).rm /\ <<d[1], d[2]>> \notin tx.done}
                      \cup tx.facts
        /\ tx' = [tx EXCEPT !.stage = "blobs"]
        /\ UNCHANGED <<conf, merge, mem, dbq, blobs, unwritten>>
    BY DEF TxCommit, CommitRows, CommitDecls, RowsAfter, scrollVars, lifeVars
  <1>2. tx \in Tx /\ dbq # <<>>
    BY <1>1, TxStage
  <1>3. tx'.stage = "blobs" /\ tx'.blob = tx.blob
    BY <1>1, <1>2 DEF Tx
  <1>4. \A b : Kept(b)' <=> Kept(b) \/ \E i \in Cfid : <<b, i>> \in tx.blob
    BY <1>1, <1>3 DEF Kept
  <1>5. MemBlob'
    BY <1>1, <1>4, MemBlobSame
  <1>6. TxBlobs'
    BY <1>3 DEF TxBlobs
  <1>7. RowBlob'
    <2>1. ASSUME NEW c \in Cfid, NEW s \in Seqs, NEW b, s \in bound.big,
                 <<c, s, "data">> \in decls', b = Blob(rows'[c].hist, s)
          PROVE  Kept(b) \/ \E i \in Cfid : <<b, i>> \in tx.blob
      <3>1. rows'[c] = NewRow(c)
        BY <1>1 DEF NewRow
      <3>2. CASE <<c, s, "data">> \in tx.facts
        BY <1>1, <2>1, <3>1, <3>2 DEF BlobInv, TxBlobs
      <3>3. CASE <<c, s, "data">> \in decls /\ c \notin Head(dbq).rm
        <4>1. c \in DOMAIN rows /\ s <= rows[c].top
          <5>1. PICK d : d = <<c, s, "data">>
            OBVIOUS
          <5> QED
            BY <3>3, <5>1 DEF OneLine, DeclsBelow
        <4>2. Grows(rows[c], NewRow(c))
          <5>1. PICK snap : Snaps(snap)
            BY <1>1 DEF BaseInv, Chain
          <5>2. Chained(snap)
            BY <5>1 DEF Snaps, Chained, ChainFrom
          <5>3. GrowTo(snap)
            BY <1>1, <5>2 DEF OneLine, RowsGrow
          <5>4. /\ 1 \in 1 .. Len(dbq) /\ 1 \in 0 .. Len(dbq) /\ 0 \in 0 .. Len(dbq)
                /\ Head(dbq) = dbq[1] /\ 1 - 1 = 0 /\ Head(dbq) \in DbUpdate
            BY <1>2, BaseTypes
          <5>5. snap[1] = RowsAfter(Head(dbq), rows) /\ snap[0] = rows /\ rows \in ConfSet
            BY <5>1, <5>4 DEF Snaps
          <5>6. c \in DOMAIN RowsAfter(Head(dbq), rows)
            <6>1. DOMAIN RowsAfter(Head(dbq), rows)
                    = DOMAIN Head(dbq).cf \cup (DOMAIN rows \ Head(dbq).rm)
              BY <5>4, <5>5, RowsAfterType
            <6> QED
              BY <3>3, <4>1, <6>1
          <5> QED
            BY <4>1, <5>3, <5>4, <5>5, <5>6 DEF GrowTo, NewRow
        <4>3. b = Blob(rows[c].hist, s)
          BY <2>1, <3>1, <4>1, <4>2 DEF Grows, Blob
        <4> QED
          BY <2>1, <3>3, <4>3 DEF BlobInv, RowBlob
      <3> QED
        BY <1>1, <2>1, <3>2, <3>3
    <2> QED
      BY <1>4, <2>1 DEF RowBlob
  <1> QED
    BY <1>5, <1>6, <1>7 DEF BlobInv

\* The blob is recorded for conflict 0 at least.
LEMMA TxBlobBlob ==
  ASSUME BaseInv, BlobInv, UNCHANGED bound, TxBlob
  PROVE  BlobInv'
  <1>1. /\ tx.stage = "blobs"
        /\ UNCHANGED <<conf, merge, mem, dbq, rows, decls, unwritten>>
    BY DEF TxBlob, scrollVars, lifeVars
  <1>2. tx \in Tx
    BY <1>1, TxStage
  <1>3. PICK a \in {p[1] : p \in tx.blob} :
          LET owners == {p \in tx.blob : p[1] = a} IN
          /\ blobs' = blobs \cup
               {<<a, i>> : i \in (0 .. Cardinality(owners) - 1) \cap live}
          /\ tx' = [tx EXCEPT !.blob = @ \ owners]
    BY DEF TxBlob
  <1>4. PICK q \in tx.blob : a = q[1]
    OBVIOUS
  <1>5. PICK w : w = {p \in tx.blob : p[1] = a}
    OBVIOUS
  <1>6. /\ blobs' = blobs \cup {<<a, i>> : i \in (0 .. Cardinality(w) - 1) \cap live}
        /\ tx' = [tx EXCEPT !.blob = @ \ w]
    BY <1>3, <1>5
  <1>7. tx'.stage = "blobs" /\ tx'.blob = tx.blob \ w
    BY <1>1, <1>2, <1>6 DEF Tx
  <1>8. Cardinality(w) \in Nat \ {0}
    <2>1. IsFiniteSet(History) /\ IsFiniteSet(Seqs) /\ IsFiniteSet(Cfid)
      <3>1. MaxSeq \in Int /\ MaxCfid \in Int /\ 0 \in Int /\ 1 \in Int
        BY BoundsAssumption
      <3>2. \A m \in Int : IsFiniteSet(0 .. m)
        <4>1. ASSUME NEW n \in Int, NEW m \in Int PROVE IsFiniteSet(n .. m)
          BY FS_Interval
        <4>2. 0 \in Int
          OBVIOUS
        <4> QED
          BY <4>1, <4>2
      <3>3. History \subseteq 0 .. 1
        BY DEF History
      <3> QED
        BY <3>1, <3>2, <3>3, FS_Subset DEF Seqs, Cfid
    <2>2. IsFiniteSet((History \X Seqs) \X Cfid)
      BY <2>1, FS_Product
    <2>3. w \subseteq (History \X Seqs) \X Cfid /\ q \in w
      BY <1>2, <1>4, <1>5 DEF Tx
    <2>4. IsFiniteSet(w)
      BY <2>2, <2>3, FS_Subset
    <2> QED
      BY <2>3, <2>4, FS_CardinalityType, FS_EmptySet
  <1>9. <<a, 0>> \in blobs' /\ blobs \subseteq blobs' /\ 0 \in Cfid
    <2>1. 0 \in 0 .. Cardinality(w) - 1
      BY <1>8
    <2>2. 0 \in live /\ live \subseteq Cfid
      BY BaseTypes, ForestType
    <2> QED
      BY <1>6, <2>1, <2>2
  <1>10. ASSUME NEW b, Kept(b) PROVE Kept(b)'
    <2>1. CASE b = a
      BY <1>9, <2>1 DEF Kept
    <2>2. CASE b # a
      <3>1. \A i : <<b, i>> \in tx.blob => <<b, i>> \in tx'.blob
        BY <1>5, <1>7, <2>2
      <3> QED
        BY <1>1, <1>7, <1>9, <1>10, <3>1 DEF Kept
    <2> QED
      BY <2>1, <2>2
  <1>11. MemBlob'
    BY <1>1, <1>10, MemBlobSame
  <1>12. RowBlob' /\ TxBlobs'
    BY <1>1, <1>7, <1>10 DEF BlobInv, RowBlob, TxBlobs
  <1> QED
    BY <1>11, <1>12 DEF BlobInv

-----------------------------------------------------------------------------
(* A conflict has the history of its parent up to where it forks off: the   *)
(* sixth invariant.                                                         *)

Tree(cf) ==
  \A c \in DOMAIN cf :
    /\ cf[c].pseq <= cf[cf[c].parent].top
    /\ \A s \in Seqs : s <= cf[c].pseq
                         => HistAt(cf[c].hist, s) = HistAt(cf[cf[c].parent].hist, s)

ConfTree == Tree(conf)
RowsTree == Tree(rows)
SnapTrees == \A snap : Chained(snap) => \A i \in 0 .. Len(dbq) : Tree(snap[i])

FamilyInv ==
  /\ ConfTree /\ RowsTree /\ DeclsBelow
  /\ alive => SnapTrees /\ OneLine

LEMMA HistBelow ==
  ASSUME NEW a, NEW b, NEW s \in Int, NEW t \in Int, s <= t, HistAt(a, t) = HistAt(b, t)
  PROVE  HistAt(a, s) = HistAt(b, s)
  <1>1. Div \in Int
    BY BoundsAssumption, SeqType
  <1> QED
    BY <1>1 DEF HistAt

\* The conflict that keeps a declaration of c has it as c has it.
LEMMA ToCHist ==
  ASSUME NEW cf, Forest(cf), Tree(cf), NEW s \in Seqs, NEW c0 \in DOMAIN cf
  PROVE  HistAt(cf[c0].hist, s) = HistAt(cf[ToC(cf, c0, s)].hist, s)
  <1> DEFINE Good(d) == HistAt(cf[d].hist, s) = HistAt(cf[ToC(cf, d, s)].hist, s)
             Bad == {d \in DOMAIN cf : ~Good(d)}
  <1>1. SUFFICES ASSUME Bad # {} PROVE FALSE
    BY <1>1
  <1>2. PICK n \in Bad : \A m \in Bad : n <= m
    <2> HIDE DEF Bad
    <2>1. Bad \subseteq Nat
      BY ForestType DEF Bad
    <2> QED
      BY <1>1, <2>1, LeastNat
  <1>3. n \in DOMAIN cf /\ ~Good(n) /\ n \in Nat
    BY ForestType
  <1>4. ToC(cf, n, s) = IF s <= cf[n].pseq THEN ToC(cf, cf[n].parent, s) ELSE n
    BY <1>3, ToCUnfold
  <1>5. cf[n].pseq \in Int /\ s \in Int /\ s >= 0 /\ cf[n].parent \in DOMAIN cf
    BY <1>3, ForestType, SeqType
  <1>6. s <= cf[n].pseq
    BY <1>3, <1>4
  <1>7. n # 0 /\ cf[n].parent < n /\ cf[n].parent \in Nat
    BY <1>3, <1>5, <1>6, ForestType
  <1>8. Good(cf[n].parent)
    <2>1. cf[n].parent \notin Bad
      BY <1>2, <1>3, <1>7
    <2> QED
      BY <1>5, <2>1
  <1>9. HistAt(cf[n].hist, s) = HistAt(cf[cf[n].parent].hist, s)
    BY <1>3, <1>6 DEF Tree
  <1> QED
    BY <1>3, <1>4, <1>6, <1>8, <1>9

LEMMA ForkBelowTop ==
  ASSUME BaseInv, TopInv, NEW c \in live
  PROVE  conf[c].pseq <= conf[c].top /\ conf[c].pseq \in Int /\ conf[c].top \in Int
  <1>1. Forest(conf) /\ conf[c].pseq \in Int /\ conf[c].top \in Int /\ conf[c].pseq >= -1
    BY BaseTypes, ConfTops
  <1>2. CASE Merging(c)
    <2>1. merge.on /\ merge.src = c
      BY <1>2 DEF Merging
    <2>2. merge # NoMerge /\ merge.cseq <= conf[c].top /\ merge.cseq \in Int /\ merge.seq \in Int
      BY <2>1, MergeOn
    <2>3. conf[c].pseq < merge.seq /\ (merge.seq > merge.cseq => conf[c].pseq = merge.cseq)
      BY <2>1, <2>2 DEF BaseInv, MergeRight
    <2> QED
      BY <1>1, <2>2, <2>3
  <1>3. CASE c = 0 /\ conf[0].top = -1
    BY <1>1, <1>3 DEF Forest
  <1> QED
    BY <1>1, <1>2, <1>3 DEF TopInv, ConfAbove

\* Conflicts that go on along their histories stay a tree.
LEMMA TreeGrows ==
  ASSUME BaseInv, BaseInv', TopInv, ConfTree, ConfGrows, live' = live,
         \A c \in live : conf'[c].pseq = conf[c].pseq /\ conf'[c].parent = conf[c].parent
  PROVE  ConfTree'
  <1>1. ASSUME NEW c \in live, NEW p \in live, conf[c].parent = p
        PROVE  /\ conf[c].pseq <= conf'[p].top
               /\ \A s \in Seqs : s <= conf[c].pseq
                                    => HistAt(conf'[c].hist, s) = HistAt(conf'[p].hist, s)
    <2>1. conf[c].pseq <= conf[p].top /\ conf[c].pseq <= conf[c].top
          /\ conf[c].pseq \in Int /\ conf[c].top \in Int /\ conf[p].top \in Int
      BY <1>1, ForkBelowTop DEF ConfTree, Tree
    <2>2. Grows(conf[c], conf'[c]) /\ Grows(conf[p], conf'[p])
      BY DEF ConfGrows
    <2>3. conf'[p].top \in Int
      <3>1. Forest(conf') /\ p \in DOMAIN conf'
        BY DEF BaseInv, MemTypes
      <3> QED
        BY <3>1, ConfTops
    <2>4. ASSUME NEW s \in Seqs, s <= conf[c].pseq
          PROVE  HistAt(conf'[c].hist, s) = HistAt(conf'[p].hist, s)
      <3>1. s <= conf[c].top /\ s <= conf[p].top
        BY <2>1, <2>4, SeqType
      <3>2. HistAt(conf[c].hist, s) = HistAt(conf[p].hist, s)
        BY <1>1, <2>4 DEF ConfTree, Tree
      <3> QED
        BY <2>2, <3>1, <3>2 DEF Grows
    <2> QED
      BY <2>1, <2>2, <2>3, <2>4 DEF Grows
  <1>2. \A c \in live : conf[c].parent \in live
    BY BaseTypes, ForestType
  <1> QED
    BY <1>1, <1>2 DEF ConfTree, Tree

LEMMA SetHashTree ==
  ASSUME BaseInv, BaseInv', TopInv, ConfTree, OneLine,
         NEW d \in live, NEW t \in Seqs, NEW h \in History, SetHash(d, t, h)
  PROVE  ConfTree'
  <1>1. conf' = IF t <= conf[d].top THEN conf
                ELSE [conf EXCEPT ![d].top = t, ![d].hist = h]
    BY DEF SetHash
  <1>2. \A c \in live : conf[c] \in Conflict
    BY BaseTypes, ForestType
  <1>3. /\ live' = live
        /\ \A c \in live : conf'[c].pseq = conf[c].pseq /\ conf'[c].parent = conf[c].parent
    BY <1>1, <1>2 DEF Conflict
  <1>4. ConfGrows
    BY SetHashLine
  <1> QED
    BY <1>3, <1>4, TreeGrows

LEMMA ForkTree ==
  ASSUME BaseInv, ConfTree, NEW d \in live, NEW p \in Seqs, NEW t \in Seqs,
         NEW h \in History, Fork(d, p, t, h)
  PROVE  ConfTree'
  <1> DEFINE e == [k \in {nextc} |-> [parent |-> d, pseq |-> p, top |-> t,
                                       hist |-> HistAt(h, t)]]
  <1>1. /\ p <= conf[d].top /\ p < t /\ HistAt(h, p) = HistAt(conf[d].hist, p)
        /\ conf' = Over(conf, e) \/ UNCHANGED conf
    BY DEF Fork
  <1>2. CASE UNCHANGED conf
    BY <1>2 DEF ConfTree, Tree
  <1>3. CASE conf' = Over(conf, e)
    <2>1. nextc \notin live /\ \A c \in live : conf[c].parent \in live
      <3>1. live \subseteq Nat /\ nextc \in Nat /\ Forest(conf)
        BY BaseTypes
      <3>2. \A c \in live : c < nextc
        BY DEF BaseInv, Fresh
      <3>3. nextc \notin live
        BY <3>1, <3>2
      <3> QED
        BY <3>1, <3>3, ForestType
    <2>2. /\ live' = live \cup {nextc} /\ \A c \in live : conf'[c] = conf[c]
          /\ conf'[nextc].pseq = p /\ conf'[nextc].parent = d
          /\ conf'[nextc].hist = HistAt(h, t)
      BY <1>3, <2>1 DEF Over
    <2>3. ASSUME NEW s \in Seqs, s <= p
          PROVE  HistAt(HistAt(h, t), s) = HistAt(conf[d].hist, s)
      <3>1. s \in Int /\ p \in Int /\ t \in Int /\ Div \in Int
        BY SeqType, BoundsAssumption
      <3>2. HistAt(h, s) = HistAt(conf[d].hist, s)
        BY <1>1, <2>3, <3>1, HistBelow
      <3>3. s <= t
        BY <1>1, <2>3, <3>1
      <3>4. HistAt(HistAt(h, t), s) = HistAt(h, s)
        <4>1. CASE s <= Div
          BY <4>1 DEF HistAt
        <4>2. CASE ~(s <= Div)
          <5>1. ~(t <= Div)
            BY <3>1, <3>3, <4>2
          <5> QED
            BY <4>2, <5>1 DEF HistAt
        <4> QED
          BY <4>1, <4>2
      <3> QED
        BY <3>2, <3>4
    <2>4. PICK k : k = nextc
      OBVIOUS
    <2>5. \A c \in live : /\ conf'[c].pseq <= conf'[conf'[c].parent].top
                          /\ \A s \in Seqs : s <= conf'[c].pseq =>
                               HistAt(conf'[c].hist, s) = HistAt(conf'[conf'[c].parent].hist, s)
      BY <2>1, <2>2 DEF ConfTree, Tree
    <2>6. /\ conf'[k].pseq <= conf'[conf'[k].parent].top
          /\ \A s \in Seqs : s <= conf'[k].pseq =>
               HistAt(conf'[k].hist, s) = HistAt(conf'[conf'[k].parent].hist, s)
      <3>1. conf'[k].pseq = p /\ conf'[k].hist = HistAt(h, t)
            /\ conf'[conf'[k].parent] = conf[d]
        BY <2>2, <2>4
      <3> QED
        BY <1>1, <2>3, <3>1
    <2> QED
      BY <2>2, <2>4, <2>5, <2>6 DEF ConfTree, Tree
  <1> QED
    BY <1>1, <1>2, <1>3

LEMMA BeginMergeTree ==
  ASSUME BaseInv, ConfTree, NEW i1 \in live, NEW i2 \in live, NEW t \in Seqs,
         BeginMerge(i1, i2, t)
  PROVE  ConfTree'
  <1>1. /\ conf' = [conf EXCEPT ![i2].parent = i1] /\ i1 < i2
        /\ t > conf[i2].pseq /\ t <= conf[i1].top /\ Agree(i1, i2, t)
    BY DEF BeginMerge
  <1>2. /\ \A c \in live : /\ conf[c] \in Conflict /\ conf[c].top \in Int
                           /\ conf[c].pseq \in Int /\ conf[c].parent \in live
        /\ i1 \in Nat /\ i2 \in Nat /\ i1 # i2 /\ t \in Int
    <2>1. Forest(conf) /\ i1 \in Nat /\ i2 \in Nat
      BY BaseTypes
    <2>2. i1 # i2
      BY <1>1, <2>1
    <2> QED
      BY <2>1, <2>2, ForestType, SeqType
  <1>3. /\ live' = live
        /\ \A c \in live : /\ conf'[c].pseq = conf[c].pseq /\ conf'[c].top = conf[c].top
                           /\ conf'[c].hist = conf[c].hist
                           /\ c # i2 => conf'[c].parent = conf[c].parent
        /\ conf'[i2].parent = i1
    BY <1>1, <1>2 DEF Conflict
  <1>4. ASSUME NEW c \in live, NEW q \in live, conf'[c].parent = q
        PROVE  /\ conf[c].pseq <= conf[q].top
               /\ \A s \in Seqs : s <= conf[c].pseq
                                    => HistAt(conf[c].hist, s) = HistAt(conf[q].hist, s)
    <2>1. CASE c = i2
      <3>1. q = i1 /\ conf[c].pseq <= conf[q].top
        BY <1>1, <1>2, <1>3, <1>4, <2>1
      <3>2. ASSUME NEW s \in Seqs, s <= conf[c].pseq
            PROVE  HistAt(conf[c].hist, s) = HistAt(conf[q].hist, s)
        <4>1. s \in Int /\ s <= t
          BY <1>1, <1>2, <2>1, <3>2, SeqType
        <4>2. HistAt(conf[c].hist, t) = HistAt(conf[q].hist, t)
          BY <1>1, <2>1, <3>1 DEF Agree
        <4> QED
          BY <1>2, <4>1, <4>2, HistBelow
      <3> QED
        BY <3>1, <3>2
    <2>2. CASE c # i2
      BY <1>3, <1>4, <2>2 DEF ConfTree, Tree
    <2> QED
      BY <2>1, <2>2
  <1>5. ASSUME NEW c \in live
        PROVE  /\ conf'[c].pseq <= conf'[conf'[c].parent].top
               /\ \A s \in Seqs : s <= conf'[c].pseq =>
                    HistAt(conf'[c].hist, s) = HistAt(conf'[conf'[c].parent].hist, s)
    <2>1. PICK q \in live : conf'[c].parent = q
      BY <1>2, <1>3
    <2> QED
      BY <1>3, <1>4, <2>1
  <1> QED
    BY <1>3, <1>5 DEF ConfTree, Tree

LEMMA CopyDeclTree ==
  ASSUME BaseInv, ConfTree, OneLine, CopyDecl
  PROVE  ConfTree'
  <1>1. /\ Forest(conf) /\ live' = live /\ merge.on
        /\ \A c \in live \ {merge.src} : conf'[c] = conf[c]
        /\ conf'[merge.src].top = conf[merge.src].top
        /\ conf'[merge.src].hist = conf[merge.src].hist
        /\ conf'[merge.src].pseq = IF merge.seq = merge.cseq THEN merge.cseq
                                   ELSE conf[merge.src].pseq
    BY CopyConf
  <1>2. PICK x, y, z : x = merge.src /\ y = merge.dst /\ z = merge.cseq
    OBVIOUS
  <1>3. /\ x \in live /\ y \in live /\ x # y /\ z \in Int /\ z \in Seqs /\ z <= conf[y].top
        /\ conf[x].parent = y /\ HistAt(conf[y].hist, z) = HistAt(conf[x].hist, z)
    BY <1>1, <1>2, MergeOn DEF OneLine, MergeAgrees, Agree
  <1>4. conf'[x].parent = conf[x].parent
    <2>1. conf' = IF merge.seq = z THEN [conf EXCEPT ![x].pseq = merge.seq] ELSE conf
      BY <1>2 DEF CopyDecl
    <2>2. conf[x] \in Conflict
      BY <1>1, <1>3, ForestType
    <2> QED
      BY <1>3, <2>1, <2>2 DEF Conflict
  <1>5. /\ \A c \in live : /\ conf'[c].top = conf[c].top /\ conf'[c].hist = conf[c].hist
                           /\ conf'[c].parent = conf[c].parent /\ conf[c].parent \in live
                           /\ c # x => conf'[c].pseq = conf[c].pseq
        /\ conf'[x].pseq = z \/ conf'[x].pseq = conf[x].pseq
    BY <1>1, <1>2, <1>4, ForestType
  <1>6. ASSUME NEW c \in live, NEW q \in live, conf[c].parent = q
        PROVE  /\ conf'[c].pseq <= conf[q].top
               /\ \A s \in Seqs : s <= conf'[c].pseq
                                    => HistAt(conf[c].hist, s) = HistAt(conf[q].hist, s)
    <2>1. CASE c = x /\ conf'[x].pseq = z
      <3>1. \A s \in Seqs : s \in Int
        BY SeqType
      <3>2. \A s \in Seqs : s <= z => HistAt(conf[y].hist, s) = HistAt(conf[x].hist, s)
        BY <1>3, <3>1, HistBelow
      <3> QED
        BY <1>3, <1>6, <2>1, <3>2
    <2>2. CASE ~(c = x /\ conf'[x].pseq = z)
      BY <1>5, <1>6, <2>2 DEF ConfTree, Tree
    <2> QED
      BY <2>1, <2>2
  <1> QED
    BY <1>1, <1>5, <1>6 DEF ConfTree, Tree

LEMMA EndMergeTree ==
  ASSUME BaseInv, BaseInv', TopInv, ConfTree, OneLine, EndMerge
  PROVE  ConfTree'
  <1>1. CASE ~FullMerge
    <2>1. UNCHANGED conf
      BY <1>1 DEF EndMerge
    <2> QED
      BY <2>1 DEF ConfTree, Tree
  <1>2. CASE FullMerge
    <2>1. merge.on
      BY DEF EndMerge
    <2>2. PICK x, y, T : x = merge.src /\ y = merge.dst /\ T = TopAfterMerge
      OBVIOUS
    <2>3. /\ x \in live /\ y \in live /\ DOMAIN T = live
          /\ \A c \in live : /\ Grows(conf[c], T[c]) /\ T[c].top \in Int
                             /\ conf[c].top \in Int /\ conf[c].pseq \in Int
                             /\ conf[c].parent \in live
          /\ T[y].top >= conf[x].top
          /\ conf[x].top > conf[y].top => T[y].hist = conf[x].hist
      BY <1>2, <2>1, <2>2, TopAfterLine
    <2>4. /\ live' \subseteq live /\ y \in live'
          /\ \A c \in live' : /\ conf'[c].pseq = conf[c].pseq /\ conf'[c].top = T[c].top
                              /\ conf'[c].hist = T[c].hist
                              /\ \/ conf'[c].parent = conf[c].parent
                                    /\ conf[c].parent \in live'
                                 \/ conf[c].parent = x /\ conf'[c].parent = y
      BY <1>2, <2>2, EndMergeNew
    \* What the source has the destination has after it.
    <2>5. ASSUME NEW s \in Seqs, s <= conf[x].top
          PROVE  HistAt(conf[x].hist, s) = HistAt(T[y].hist, s)
      <3>1. CASE conf[x].top > conf[y].top
        BY <2>3, <3>1
      <3>2. CASE ~(conf[x].top > conf[y].top)
        <4>1. merge.cseq \in Int /\ merge.cseq <= conf[x].top /\ merge.cseq <= conf[y].top
          BY <2>1, <2>2, MergeOn
        <4>2. merge.cseq = conf[x].top
          <5>1. merge.cseq = conf[x].top \/ merge.cseq = conf[y].top
            BY <1>2, <2>2 DEF FullMerge
          <5>2. conf[x].top \in Int /\ conf[y].top \in Int
            BY <2>3
          <5> QED
            BY <3>2, <4>1, <5>1, <5>2
        <4>3. HistAt(conf[y].hist, merge.cseq) = HistAt(conf[x].hist, merge.cseq)
          BY <2>1, <2>2 DEF OneLine, MergeAgrees, Agree
        <4>4. HistAt(conf[y].hist, s) = HistAt(conf[x].hist, s)
          BY <2>5, <4>1, <4>2, <4>3, SeqType, HistBelow
        <4>5. T = conf
          BY <2>2, <3>2 DEF TopAfterMerge
        <4> QED
          BY <4>4, <4>5
      <3> QED
        BY <3>1, <3>2
    <2>6. ASSUME NEW c \in live', NEW p, conf[c].parent = p, p \in live
          PROVE  /\ conf[c].pseq <= conf[p].top /\ conf[c].pseq \in Int /\ conf[p].top \in Int
                 /\ \A s \in Seqs : s <= conf[c].pseq
                       => s <= conf[p].top /\ HistAt(T[c].hist, s) = HistAt(conf[p].hist, s)
      <3>1. c \in live
        BY <2>4
      <3>2. /\ conf[c].pseq <= conf[c].top /\ conf[c].pseq <= conf[p].top
            /\ conf[c].pseq \in Int /\ conf[p].top \in Int /\ conf[c].top \in Int
        BY <2>3, <2>6, <3>1, ForkBelowTop DEF ConfTree, Tree
      <3>3. ASSUME NEW s \in Seqs, s <= conf[c].pseq
            PROVE  s <= conf[p].top /\ HistAt(T[c].hist, s) = HistAt(conf[p].hist, s)
        <4>1. s <= conf[c].top /\ s <= conf[p].top
          BY <3>2, <3>3, SeqType
        <4>2. HistAt(conf[c].hist, s) = HistAt(T[c].hist, s)
          BY <2>3, <3>1, <4>1 DEF Grows
        <4>3. HistAt(conf[c].hist, s) = HistAt(conf[p].hist, s)
          BY <2>6, <3>1, <3>3 DEF ConfTree, Tree
        <4> QED
          BY <4>1, <4>2, <4>3
      <3> QED
        BY <3>2, <3>3
    <2>7. ASSUME NEW c \in live', NEW q, conf'[c].parent = q
          PROVE  /\ conf[c].pseq <= T[q].top /\ q \in live'
                 /\ \A s \in Seqs : s <= conf[c].pseq
                       => HistAt(T[c].hist, s) = HistAt(T[q].hist, s)
      <3>1. PICK p \in live : conf[c].parent = p
        BY <2>3, <2>4
      <3>2. (q = p /\ p \in live') \/ (q = y /\ p = x)
        BY <2>4, <2>7, <3>1
      <3>3. q \in live' /\ q \in live
        BY <2>4, <3>2
      <3>4. /\ conf[c].pseq <= conf[p].top /\ conf[c].pseq \in Int /\ conf[p].top \in Int
            /\ \A s \in Seqs : s <= conf[c].pseq
                  => s <= conf[p].top /\ HistAt(T[c].hist, s) = HistAt(conf[p].hist, s)
        BY <2>6, <3>1
      <3>5. T[q].top >= conf[p].top
        BY <2>3, <3>2, <3>3 DEF Grows
      <3>6. ASSUME NEW s \in Seqs, s <= conf[p].top
            PROVE  HistAt(conf[p].hist, s) = HistAt(T[q].hist, s)
        <4>1. CASE q = p
          BY <2>3, <3>1, <3>6, <4>1 DEF Grows
        <4>2. CASE q = y /\ p = x
          BY <2>5, <3>6, <4>2
        <4> QED
          BY <3>2, <4>1, <4>2
      <3>7. T[q].top \in Int
        BY <2>3, <3>3
      <3>8. conf[c].pseq <= T[q].top
        BY <3>4, <3>5, <3>7
      <3>9. \A s \in Seqs : s <= conf[c].pseq => HistAt(T[c].hist, s) = HistAt(T[q].hist, s)
        BY <3>4, <3>6
      <3> QED
        BY <3>3, <3>8, <3>9
    <2> QED
      BY <2>4, <2>7 DEF ConfTree, Tree
  <1> QED
    BY <1>1, <1>2

LEMMA LivesTree ==
  ASSUME BaseInv, BaseInv', TopInv, ConfTree, OneLine, Lives
  PROVE  ConfTree'
  <1>1. CASE UNCHANGED conf
    BY <1>1 DEF ConfTree, Tree
  <1>2. Lock \/ Unlock \/ Load \/ Updater \/ UNCHANGED vars => UNCHANGED conf
    BY DEF Lock, Unlock, Load, BeginLoad, Updater, TxBegin, TxRead, TxCommit, TxBlob,
           TxEnd, vars, scrollVars
  <1>3. Loaded /\ alive' => UNCHANGED conf
    BY DEF Loaded, EndLoad, Exit
  <1>4. CASE Update
    <2>1. ASSUME NEW c \in live, NEW s \in Seqs, SetData(c, s)
          PROVE  UNCHANGED conf
      BY <2>1 DEF SetData
    <2>2. PutFails => UNCHANGED conf
      BY DEF PutFails
    <2> QED
      BY <1>1, <1>4, <2>1, <2>2, SetHashTree, ForkTree, BeginMergeTree DEF Update
  <1>5. CASE MergeStep
    <2>1. CopyStuck \/ TypeStuck => UNCHANGED conf
      BY DEF CopyStuck, TypeStuck, scrollVars
    <2> QED
      BY <1>1, <1>5, <2>1, CopyDeclTree, EndMergeTree DEF MergeStep
  <1> QED
    BY <1>1, <1>2, <1>3, <1>4, <1>5 DEF Lives, Working

LEMMA UnlockSnaps ==
  ASSUME BaseInv, ConfTree, SnapTrees, Unlock
  PROVE  SnapTrees'
  <1>1. UNCHANGED rows /\ EndUpdate
    BY DEF Unlock, dbVars
  <1>2. CASE conf[0].top = -1
    <2>1. UNCHANGED dbq
      BY <1>1, <1>2 DEF EndUpdate, queueVars
    <2> QED
      BY <1>1, <2>1 DEF SnapTrees, Chained
  <1>3. CASE conf[0].top # -1
    <2> SUFFICES ASSUME NEW new, Chained(new)', NEW i \in 0 .. Len(dbq')
                 PROVE  Tree(new[i])
      BY DEF SnapTrees
    <2>1. PICK n \in Nat : n = Len(dbq)
      BY BaseTypes
    <2>2. Len(dbq') = n + 1
      <3>1. PICK e : dbq' = Append(dbq, e)
        BY <1>1, <1>3 DEF EndUpdate, ScheduleDbUpdate
      <3> QED
        BY <2>1, <3>1, BaseTypes
    <2>3. new[n + 1] = conf
      BY <1>3, <2>1, UnlockChain
    <2>4. PICK snap : Chained(snap) /\ \A j \in 0 .. n : new[j] = snap[j]
      BY <1>3, <2>1, UnlockChain
    <2>5. CASE i = n + 1
      BY <2>3, <2>5 DEF ConfTree
    <2>6. CASE i # n + 1
      <3>1. i \in 0 .. n
        BY <2>2, <2>6
      <3> QED
        BY <2>1, <2>4, <3>1 DEF SnapTrees
    <2> QED
      BY <2>5, <2>6
  <1> QED
    BY <1>2, <1>3

LEMMA TxCommitSnaps ==
  ASSUME BaseInv, SnapTrees, TxCommit
  PROVE  SnapTrees' /\ RowsTree'
  <1>1. /\ alive /\ tx.stage = "read" /\ UNCHANGED dbq
        /\ rows' = RowsAfter(Head(dbq), rows)
    BY DEF TxCommit, CommitRows, RowsAfter
  <1>2. PICK n \in Nat : n = Len(dbq)
    BY BaseTypes
  <1>3. 1 \in 0 .. n /\ 1 \in 1 .. n /\ Head(dbq) = dbq[1] /\ 1 - 1 = 0
    BY <1>1, <1>2, TxStage, BaseTypes
  <1>4. PICK snap : Snaps(snap)
    BY <1>1 DEF BaseInv, Chain
  <1>5. Chained(snap)
    BY <1>4 DEF Snaps, Chained, ChainFrom
  <1>6. \A i \in 0 .. n : Tree(snap[i])
    BY <1>2, <1>5 DEF SnapTrees
  <1>7. rows' = snap[1]
    <2>1. snap[1] = RowsAfter(dbq[1], snap[0]) /\ snap[0] = rows
      BY <1>2, <1>3, <1>4 DEF Snaps
    <2> QED
      BY <1>1, <1>3, <2>1
  <1>8. RowsTree'
    BY <1>3, <1>6, <1>7 DEF RowsTree
  <1>9. ASSUME NEW new, Chained(new)', NEW i \in 0 .. n
        PROVE  Tree(new[i])
    <2>1. new[i] = IF i = 0 THEN snap[1] ELSE snap[i]
      BY <1>2, <1>5, <1>9, TxCommitChain
    <2> QED
      BY <1>3, <1>6, <2>1
  <1>10. SnapTrees'
    BY <1>1, <1>2, <1>9 DEF SnapTrees
  <1> QED
    BY <1>8, <1>10

LEMMA TxEndSnaps ==
  ASSUME BaseInv, SnapTrees, TxEnd
  PROVE  SnapTrees'
  <1>1. alive /\ tx.stage = "blobs" /\ dbq' = Tail(dbq)
    BY DEF TxEnd
  <1>2. PICK n \in Nat : n = Len(dbq)
    BY BaseTypes
  <1>3. Len(dbq') = n - 1
    BY <1>1, <1>2, TxStage, BaseTypes
  <1>4. ASSUME NEW new, Chained(new)', NEW i \in 0 .. n - 1
        PROVE  Tree(new[i])
    <2>1. PICK snap : Chained(snap) /\ \A j \in 0 .. n - 1 : new[j] = snap[j + 1]
      BY <1>2, <1>4, TxEndChain
    <2>2. i + 1 \in 0 .. n
      OBVIOUS
    <2> QED
      BY <1>2, <2>1, <2>2 DEF SnapTrees
  <1> QED
    BY <1>3, <1>4 DEF SnapTrees

LEMMA LivesSnaps ==
  ASSUME BaseInv, ConfTree, RowsTree, SnapTrees, Lives
  PROVE  SnapTrees' /\ RowsTree'
  <1>1. CASE UNCHANGED <<dbq, rows>>
    BY <1>1 DEF RowsTree, SnapTrees, Chained
  <1>2. Lock \/ Load \/ MergeStep \/ UNCHANGED vars => UNCHANGED <<dbq, rows>>
    BY DEF Lock, Load, BeginLoad, MergeStep, CopyDecl, CopyStuck, TypeStuck, EndMerge,
           vars, updaterVars, dbVars
  <1>3. Loaded /\ alive' => UNCHANGED <<dbq, rows>>
    BY DEF Loaded, EndLoad, Exit, updaterVars, dbVars
  <1>4. Update => UNCHANGED <<dbq, rows>>
    <2>1. ASSUME NEW c \in live, NEW s \in Seqs, NEW h \in History, SetHash(c, s, h)
          PROVE  UNCHANGED <<dbq, rows>>
      BY <2>1 DEF SetHash, updaterVars, dbVars
    <2>2. ASSUME NEW c \in live, NEW s \in Seqs, SetData(c, s)
          PROVE  UNCHANGED <<dbq, rows>>
      BY <2>2 DEF SetData, updaterVars, dbVars
    <2>3. ASSUME NEW c \in live, NEW p \in Seqs, NEW s \in Seqs, NEW h \in History,
                 Fork(c, p, s, h)
          PROVE  UNCHANGED <<dbq, rows>>
      BY <2>3 DEF Fork, updaterVars, dbVars
    <2>4. ASSUME NEW i1 \in live, NEW i2 \in live, NEW s \in Seqs, BeginMerge(i1, i2, s)
          PROVE  UNCHANGED <<dbq, rows>>
      BY <2>4 DEF BeginMerge, updaterVars, dbVars
    <2>5. PutFails => UNCHANGED <<dbq, rows>>
      BY DEF PutFails, updaterVars, dbVars
    <2> QED
      BY <2>1, <2>2, <2>3, <2>4, <2>5 DEF Update
  <1>5. TxBegin \/ TxRead \/ TxBlob => UNCHANGED <<dbq, rows>>
    BY DEF TxBegin, TxRead, TxBlob, dbVars
  <1>6. Unlock \/ TxEnd => UNCHANGED rows
    BY DEF Unlock, TxEnd, dbVars
  <1>7. CASE Unlock \/ TxEnd
    BY <1>6, <1>7, UnlockSnaps, TxEndSnaps DEF RowsTree
  <1> QED
    BY <1>1, <1>2, <1>3, <1>4, <1>5, <1>7, TxCommitSnaps DEF Lives, Working, Updater

LEMMA RestartFamily ==
  ASSUME BaseInv, FamilyInv, Restart
  PROVE  FamilyInv'
  <1>1. UNCHANGED <<rows, decls>>
    BY DEF Restart, dbVars
  <1>2. PICK cf : /\ cf = IF DOMAIN rows = {} THEN NewScroll ELSE rows
                  /\ conf' = cf
    BY DEF Restart, EmptyMemory
  <1>3. merge' = NoMerge /\ mem' = {} /\ qdecl' = {} /\ dbq' = <<>>
    BY DEF Restart, EmptyMemory
  <1>4. RowsTree' /\ DeclsBelow'
    BY <1>1 DEF FamilyInv, RowsTree, DeclsBelow
  <1>5. ConfTree'
    <2>1. Tree(NewScroll)
      BY SeqType DEF Tree, NewScroll, Root
    <2>2. Tree(cf)
      BY <1>2, <2>1 DEF FamilyInv, RowsTree
    <2> QED
      BY <1>2, <2>2 DEF ConfTree
  <1>6. MergeAgrees' /\ MemBelow' /\ QueueBelow'
    BY <1>3 DEF MergeAgrees, MemBelow, QueueBelow, NoMerge
  <1>7. ForksBelow'
    BY <1>5 DEF ConfTree, Tree, ForksBelow
  <1>8. ASSUME NEW snap, Chained(snap)'
        PROVE  Len(dbq') = 0 /\ snap[0] = rows
    BY <1>1, <1>3, <1>8 DEF Chained, ChainFrom
  <1>9. SnapTrees'
    BY <1>8 DEF SnapTrees, FamilyInv, RowsTree
  <1>10. RowsGrow'
    <2>1. ASSUME NEW c \in DOMAIN rows, c \in DOMAIN cf PROVE Grows(rows[c], cf[c])
      <3>1. cf = rows /\ rows[c].top \in Int
        BY <1>2, <2>1, ConfTops DEF BaseInv, DbTypes, Loadable
      <3> QED
        BY <3>1, GrowsTypes
    <2>2. ASSUME NEW snap, Chained(snap)'
          PROVE  GrowTo(snap)'
      BY <1>2, <1>8, <2>1, <2>2 DEF GrowTo
    <2> QED
      BY <2>2 DEF RowsGrow
  <1> QED
    BY <1>4, <1>5, <1>6, <1>7, <1>9, <1>10 DEF FamilyInv, OneLine

\* Only a process that is alive works.
LEMMA NotAlive ==
  ASSUME Working, ~alive
  PROVE  UNCHANGED vars
  <1>1. Lock \/ Unlock \/ MergeStep \/ Load \/ Loaded \/ Updater => alive
    BY DEF Lock, Unlock, MergeStep, CopyDecl, CopyStuck, TypeStuck, EndMerge, Load,
           BeginLoad, Loaded, EndLoad, Updater, TxBegin, TxRead, TxCommit, TxBlob, TxEnd
  <1>2. Update => alive
    BY ZenonT(40) DEF Update, SetHash, SetData, Fork, BeginMerge, PutFails, Putting
  <1> QED
    BY <1>1, <1>2 DEF Working

LEMMA NextFamily ==
  ASSUME BaseInv, BaseInv', DataInv, TopInv, FamilyInv, [Next]_<<vars, bound>>
  PROVE  FamilyInv'
  <1>1. CASE Exit
    <2>1. UNCHANGED <<rows, decls>> /\ conf' = NewScroll /\ ~alive'
      BY <1>1 DEF Exit, EmptyMemory, dbVars
    <2>2. Tree(NewScroll)
      BY SeqType DEF Tree, NewScroll, Root
    <2> QED
      BY <2>1, <2>2 DEF FamilyInv, ConfTree, RowsTree, DeclsBelow
  <1>2. CASE UNCHANGED <<alive, crashes>> /\ Working
    <2>1. CASE alive
      <3>1. Lives
        BY <1>2, <2>1 DEF Lives
      <3>2. OneLine'
        BY <2>1, <3>1, LivesLine DEF FamilyInv
      <3>3. ConfTree' /\ RowsTree' /\ SnapTrees'
        BY <2>1, <3>1, LivesTree, LivesSnaps DEF FamilyInv
      <3> QED
        BY <3>2, <3>3 DEF FamilyInv, OneLine
    <2>2. CASE ~alive
      <3>1. UNCHANGED vars
        BY <1>2, <2>2, NotAlive
      <3>2. UNCHANGED <<conf, rows, decls, alive>>
        BY <3>1 DEF vars, scrollVars, dbVars, lifeVars
      <3> QED
        BY <2>2, <3>2 DEF FamilyInv, ConfTree, RowsTree, DeclsBelow
    <2> QED
      BY <2>1, <2>2
  <1> QED
    BY <1>1, <1>2, StepKinds, RestartFamily

LEMMA InitFamily == Init => FamilyInv
  <1> SUFFICES ASSUME Init PROVE FamilyInv
    OBVIOUS
  <1>1. conf = NewScroll /\ rows = <<>> /\ decls = {} /\ dbq = <<>> /\ crashes = 0
    BY DEF Init
  <1>2. DOMAIN rows = {}
    BY <1>1
  <1>3. ConfTree /\ RowsTree /\ DeclsBelow
    BY <1>1, <1>2, SeqType DEF ConfTree, RowsTree, DeclsBelow, Tree, NewScroll, Root
  <1>4. SnapTrees
    <2>1. ASSUME NEW snap, Chained(snap)
          PROVE  Len(dbq) = 0 /\ snap[0] = rows
      BY <1>1, <2>1 DEF Chained, ChainFrom
    <2> QED
      BY <1>3, <2>1 DEF SnapTrees, RowsTree
  <1> QED
    BY <1>1, <1>3, <1>4, InitLine DEF FamilyInv

\* At every moment, and through exits and restarts, a conflict has the history
\* of its parent up to where it forks off: in memory, in the rows and in every
\* update on its way to them (Scroll.to_c may then climb to any ancestor).
THEOREM FamilyHolds == Spec => [](BaseInv /\ DataInv /\ TopInv /\ FamilyInv)
  <1>1. BaseInv /\ BaseInv' /\ DataInv /\ TopInv /\ FamilyInv /\ [Next]_<<vars, bound>>
          => FamilyInv'
    BY NextFamily
  <1> QED
    BY <1>1, InitFamily, TopsHold, PTL DEF Spec

-----------------------------------------------------------------------------
(* The fifth invariant holds.                                                *)

LEMMA InitBlob == Init => BlobInv
  BY DEF Init, NoTx, BlobInv, MemBlob, RowBlob, TxBlobs, Light

LEMMA LivesBlob ==
  ASSUME BaseInv, BaseInv', DataInv, OneLine, BlobInv, UNCHANGED bound, Lives
  PROVE  BlobInv'
  <1>1. CASE Lock \/ Load \/ UNCHANGED vars
    BY <1>1, LockBlob
  <1>2. CASE Unlock
    BY <1>2, UnlockBlob
  <1>3. CASE Update
    BY <1>3, SetHashBlob, SetDataBlob, ForkBlob, BeginMergeBlob, PutStopping, PutStopsBlob
       DEF Update
  <1>4. CASE MergeStep
    BY <1>4, CopyDeclBlob, CopyStuckBlob, EndMergeBlob, PutStopping, PutStopsBlob
       DEF MergeStep
  <1>5. CASE Loaded
    BY <1>5, EndLoadBlob DEF Loaded, Lives
  <1>6. CASE Updater
    BY <1>6, TxBeginBlob, TxReadBlob, TxCommitBlob, TxBlobBlob, TxEndBlob DEF Updater
  <1> QED
    BY <1>1, <1>2, <1>3, <1>4, <1>5, <1>6 DEF Lives, Working

\* An exit or a restart empties memory; the blobs under way at an exit are
\* counted as unwritten.
LEMMA BlankBlob ==
  ASSUME BlobInv, UNCHANGED bound, NEW cf, EmptyMemory(cf), UNCHANGED <<rows, decls, blobs>>,
         \A b : Kept(b) => Kept(b)'
  PROVE  BlobInv'
  <1>1. mem' = {} /\ tx' = NoTx
    BY DEF EmptyMemory
  <1>2. MemBlob' /\ TxBlobs'
    BY <1>1 DEF MemBlob, Light, TxBlobs, NoTx
  <1>3. RowBlob'
    BY DEF BlobInv, RowBlob
  <1> QED
    BY <1>2, <1>3 DEF BlobInv

LEMMA NextBlob ==
  ASSUME BaseInv, BaseInv', DataInv, FamilyInv, BlobInv, [Next]_<<vars, bound>>
  PROVE  BlobInv'
  <1>1. UNCHANGED bound
    BY DEF Next
  <1>2. CASE Exit
    <2>1. PICK cf : EmptyMemory(cf)
      BY <1>2 DEF Exit
    <2>2. UNCHANGED <<rows, decls, blobs>> /\ unwritten' = unwritten \cup Pending
      BY <1>2 DEF Exit, dbVars
    <2>3. ASSUME NEW b, Kept(b) PROVE Kept(b)'
      <3>1. ASSUME tx.stage = "blobs", NEW i \in Cfid, <<b, i>> \in tx.blob
            PROVE  b \in Pending
        <4>1. PICK p : p = <<b, i>>
          OBVIOUS
        <4>2. p[1] = b /\ p \in tx.blob
          BY <3>1, <4>1
        <4> QED
          BY <3>1, <4>2 DEF Pending
      <3> QED
        BY <2>2, <2>3, <3>1 DEF Kept
    <2> QED
      BY <1>1, <2>1, <2>2, <2>3, BlankBlob
  <1>3. CASE Restart
    <2>1. PICK cf : EmptyMemory(cf)
      BY <1>3 DEF Restart
    <2>2. ~alive /\ UNCHANGED <<rows, decls, blobs, unwritten>>
      BY <1>3 DEF Restart, dbVars
    <2>3. tx = NoTx
      BY <2>2 DEF BaseInv, DeadRight
    <2>4. \A b : Kept(b) => Kept(b)'
      BY <2>2, <2>3 DEF Kept, NoTx
    <2> QED
      BY <1>1, <2>1, <2>2, <2>4, BlankBlob
  <1>4. CASE UNCHANGED <<alive, crashes>> /\ Working
    <2>1. CASE alive
      BY <1>1, <1>4, <2>1, LivesBlob DEF Lives, FamilyInv
    <2>2. CASE ~alive
      <3>1. UNCHANGED <<conf, merge, mem, tx, dbq, rows, decls, blobs, unwritten>>
        BY <1>4, <2>2, NotAlive DEF vars, scrollVars, updaterVars, dbVars, lifeVars
      <3>2. \A b : Kept(b)' <=> Kept(b)
        BY <3>1 DEF Kept
      <3>3. MemBlob'
        BY <1>1, <3>1, <3>2, MemBlobSame
      <3>4. RowBlob' /\ TxBlobs'
        BY <1>1, <3>1, <3>2 DEF BlobInv, RowBlob, TxBlobs, NewRow
      <3> QED
        BY <3>3, <3>4 DEF BlobInv
    <2> QED
      BY <2>1, <2>2
  <1> QED
    BY <1>2, <1>3, <1>4, StepKinds

\* Memory, the queue, the rows and the frames in the data store are of one
\* history (storage.js:99-180), through exits and restarts: BlobInv, with the
\* invariants that it rests on.
THEOREM BlobsHold == Spec => [](BaseInv /\ DataInv /\ TopInv /\ FamilyInv /\ BlobInv)
  <1>1. BaseInv /\ BaseInv' /\ DataInv /\ FamilyInv /\ BlobInv /\ [Next]_<<vars, bound>>
          => BlobInv'
    BY NextBlob
  <1> QED
    BY <1>1, InitBlob, FamilyHolds, PTL DEF Spec

\* What the database needs to be loaded again is there at every moment, before
\* an exit and after one: each conflict with its parent, its top and its frames,
\* but for those whose write to the data store that exit cut off.
THEOREM WholeStored == Spec => []StoredWhole
  <1>1. BaseInv /\ BlobInv => BlobStored
    <2> SUFFICES ASSUME BaseInv, BlobInv, NEW c \in DOMAIN rows, NEW s \in bound.big,
                        <<c, s, "data">> \in decls, NEW b, b = Blob(rows[c].hist, s)
                 PROVE  \/ \E i \in Cfid : <<b, i>> \in blobs
                        \/ b \in Pending \cup unwritten
      BY DEF BlobStored
    <2>1. c \in Cfid /\ s \in Seqs
      BY BaseTypes
    <2>2. Kept(b)
      BY <2>1 DEF BlobInv, RowBlob
    <2>3. ASSUME tx.stage = "blobs", NEW i \in Cfid, <<b, i>> \in tx.blob
          PROVE  b \in Pending
      <3>1. PICK p : p = <<b, i>>
        OBVIOUS
      <3>2. p[1] = b /\ p \in tx.blob
        BY <2>3, <3>1
      <3> QED
        BY <2>3, <3>2 DEF Pending
    <2> QED
      BY <2>2, <2>3 DEF Kept
  <1> QED
    BY <1>1, BlobsHold, TypesHold, ParentsStored, TopsStored, PTL DEF StoredWhole

-----------------------------------------------------------------------------
(* What is stored of a declaration and is not in memory is lost when its    *)
(* row is written anew; a merge that leads to that notes it in dropped: the *)
(* seventh invariant.                                                       *)

Lost(c, s) == <<HistOn(c, s), s, "data">> \in dropped

LeftQueued ==
  \A c \in Cfid, s \in Seqs :
    Queued(c, s) /\ Own(c, s) /\ <<c, s, "data">> \in decls
      => <<c, s, "data">> \in mem \/ Lost(c, s)
LeftTx ==
  tx.stage = "read" =>
    \A c \in Cfid, s \in Seqs :
      <<c, s>> \in tx.done /\ Own(c, s) /\ <<c, s, "data">> \in decls
        => <<c, s, "data">> \in tx.facts \/ Lost(c, s)
LeftLoaded ==
  \A c \in Cfid, s \in Seqs :
    loaded[c, s] = "yes" /\ Own(c, s) /\ <<c, s, "data">> \in decls
      => <<c, s, "data">> \in mem

\* What the source of a merge had the destination has, or it was dropped.
HasMoved(s) == merge.on /\ conf[merge.src].pseq < s /\ s < merge.seq
InSome(m) == m \in mem \/ m \in decls \/ InTx(m)
CopiedWithin ==
  \A s \in Seqs, y \in live, g \in History :
    HasMoved(s) /\ y = merge.dst /\ g = conf[merge.src].hist
      => Within(y, s) /\ HistOn(y, s) = HistAt(g, s)
LeftCopied ==
  \A y, cf : \A s \in Seqs, f \in Facts, x \in live, d \in live, g \in History :
    HasMoved(s) /\ x = merge.src /\ InSome(<<x, s, f>>)
    /\ cf = conf /\ y = merge.dst /\ d = ToC(cf, y, s) /\ g = conf[x].hist
      => f \in Known(d, s) \/ <<HistAt(g, s), s, f>> \in dropped

LeftInv == LeftQueued /\ LeftTx /\ LeftLoaded /\ CopiedWithin /\ LeftCopied

LEMMA StoredWithin ==
  ASSUME BaseInv, OneLine, alive, NEW c \in live, NEW s \in Seqs, NEW f,
         <<c, s, f>> \in decls
  PROVE  Within(c, s) /\ s <= conf[c].top
  <1>1. c \in DOMAIN rows /\ s <= rows[c].top
    <2>1. PICK d : d = <<c, s, f>>
      OBVIOUS
    <2> QED
      BY <2>1 DEF OneLine, DeclsBelow
  <1>2. rows[c].top <= conf[c].top
    BY <1>1, RowToConf DEF Grows
  <1>3. rows[c].top \in Int /\ conf[c].top \in Int /\ s \in Int
    <2>1. rows[c] \in Conflict
      BY <1>1, ConfType DEF BaseInv, DbTypes, Loadable, Forest
    <2> QED
      BY <2>1, BaseTypes, ConfTops, SeqType DEF Conflict
  <1> QED
    BY <1>1, <1>2, <1>3 DEF Within

LEMMA KnownWithin ==
  ASSUME BaseInv, OneLine, alive, NEW c \in live, NEW s \in Seqs, NEW f \in Facts,
         InSome(<<c, s, f>>), ~InTx(<<c, s, f>>)
  PROVE  Within(c, s)
  <1>1. CASE <<c, s, f>> \in mem
    <2>1. PICK m : m = <<c, s, f>>
      OBVIOUS
    <2> QED
      BY <1>1, <2>1 DEF OneLine, MemBelow
  <1> QED
    BY <1>1, StoredWithin DEF InSome

\* The conflict that keeps a declaration of c has it of the same history.
LEMMA KeeperHist ==
  ASSUME BaseInv, TopInv, ConfTree, NEW s \in Seqs, NEW c \in live, NEW k,
         k = ToC(conf, c, s)
  PROVE  /\ k \in live /\ Keeps(k, s) /\ HistOn(k, s) = HistOn(c, s)
         /\ k \in Nat /\ c \in Nat /\ k <= c
         /\ k # c => s <= conf[c].pseq
  <1>1. /\ Forest(conf) /\ live \subseteq Nat /\ s \in Int
        /\ conf[c].pseq \in Int /\ conf[c].top \in Int /\ conf[c].pseq <= conf[c].top
    BY BaseTypes, SeqType, ForkBelowTop
  <1>2. /\ k \in live /\ k <= c /\ s > conf[k].pseq /\ conf[k].top \in Int
        /\ k # c => ~(s > conf[c].pseq)
    BY <1>1, ToCKeeper, ToCSelf, ConfTops
  <1>3. CASE k # c
    <2>1. s <= conf[k].top
      BY <1>1, <1>3, ToCBelow DEF ConfTree, Tree
    <2>2. HistAt(conf[c].hist, s) = HistAt(conf[k].hist, s)
      BY <1>1, ToCHist DEF ConfTree
    <2>3. ~(s > conf[c].top) /\ ~(s > conf[k].top)
      BY <1>1, <1>2, <1>3, <2>1
    <2> QED
      BY <1>1, <1>2, <2>2, <2>3 DEF HistOn, Keeps
  <1> QED
    BY <1>1, <1>2, <1>3 DEF Keeps

LEMMA HistOnType ==
  ASSUME BaseInv, NEW c \in live, NEW s \in Seqs
  PROVE  HistOn(c, s) \in History
  <1>1. \A d \in live : conf[d].hist \in History
    <2>1. \A d \in live : conf[d] \in Conflict
      BY BaseTypes, ForestType
    <2> QED
      BY <2>1 DEF Conflict
  <1>2. \A h \in History : HistAt(h, s) \in History
    BY DEF HistAt, History
  <1>3. merge.on => merge.src \in live
    BY MergeOn
  <1> QED
    BY <1>1, <1>2, <1>3 DEF HistOn

LEMMA LostKept ==
  ASSUME BaseInv, OneLine, alive, SameHist, dropped \subseteq dropped',
         NEW c \in live, c \in live', NEW s \in Seqs, <<c, s, "data">> \in decls, Lost(c, s)
  PROVE  Lost(c, s)'
  <1>1. Within(c, s)
    BY StoredWithin
  <1>2. HistOn(c, s)' = HistOn(c, s)
    BY <1>1 DEF SameHist
  <1> QED
    BY <1>2 DEF Lost

\* A declaration just made is not stored.
LEMMA NewNotStored ==
  ASSUME BaseInv, DataInv, alive, live' \subseteq live \cup {nextc},
         NEW c \in live', NEW s, NEW f, <<c, s, f>> \in decls
  PROVE  c \in live
  <1>1. PICK d : d = <<c, s, f>>
    OBVIOUS
  <1>2. d[1] # nextc
    BY <1>1, NothingYet DEF DataInv
  <1> QED
    BY <1>1, <1>2

\* Steps that leave the database alone.
LEMMA LeftStable ==
  ASSUME BaseInv, DataInv, OneLine, alive, LeftInv,
         UNCHANGED <<dbq, tx, decls>>, live' \subseteq live \cup {nextc},
         SameHist, dropped \subseteq dropped',
         \A c \in live, s \in Seqs : Own(c, s)' =>
           Own(c, s) /\ (<<c, s, "data">> \in mem => <<c, s, "data">> \in mem'),
         \A c \in live, s \in Seqs :
           <<c, s>> \in qdecl' /\ Own(c, s)' /\ <<c, s, "data">> \in decls
             => <<c, s>> \in qdecl \/ <<c, s, "data">> \in mem' \/ Lost(c, s)',
         \A c \in live, s \in Seqs :
           loaded[c, s]' = "yes" /\ Own(c, s)' /\ <<c, s, "data">> \in decls
             => loaded[c, s] = "yes" \/ <<c, s, "data">> \in mem'
  PROVE  LeftQueued' /\ LeftTx' /\ LeftLoaded'
  <1>1. ASSUME NEW c \in Cfid, NEW s \in Seqs, Own(c, s)', <<c, s, "data">> \in decls'
        PROVE  /\ c \in live /\ c \in live' /\ Own(c, s) /\ <<c, s, "data">> \in decls
               /\ <<c, s, "data">> \in mem => <<c, s, "data">> \in mem'
               /\ Lost(c, s) => Lost(c, s)'
    <2>1. c \in live'
      BY <1>1 DEF Own, Keeps
    <2>2. c \in live
      BY <1>1, <2>1, NewNotStored
    <2> QED
      BY <1>1, <2>1, <2>2, LostKept
  <1>2. LeftQueued'
    <2> SUFFICES ASSUME NEW c \in Cfid, NEW s \in Seqs, Queued(c, s)', Own(c, s)',
                        <<c, s, "data">> \in decls'
                 PROVE  <<c, s, "data">> \in mem' \/ Lost(c, s)'
      BY DEF LeftQueued
    <2>1. Queued(c, s) \/ <<c, s>> \in qdecl'
      BY DEF Queued
    <2>2. Queued(c, s) => <<c, s, "data">> \in mem \/ Lost(c, s)
      BY <1>1 DEF LeftInv, LeftQueued
    <2>3. <<c, s>> \in qdecl => Queued(c, s)
      BY DEF Queued
    <2> QED
      BY <1>1, <2>1, <2>2, <2>3
  <1>3. LeftTx'
    <2> SUFFICES ASSUME NEW c \in Cfid, NEW s \in Seqs, tx.stage = "read", <<c, s>> \in tx.done,
                        Own(c, s)', <<c, s, "data">> \in decls'
                 PROVE  <<c, s, "data">> \in tx.facts \/ Lost(c, s)'
      BY DEF LeftTx
    <2> QED
      BY <1>1 DEF LeftInv, LeftTx
  <1>4. LeftLoaded'
    <2> SUFFICES ASSUME NEW c \in Cfid, NEW s \in Seqs, loaded[c, s]' = "yes", Own(c, s)',
                        <<c, s, "data">> \in decls'
                 PROVE  <<c, s, "data">> \in mem'
      BY DEF LeftLoaded
    <2> QED
      BY <1>1 DEF LeftInv, LeftLoaded
  <1> QED
    BY <1>2, <1>3, <1>4

\* Steps that lead to no other conflict, and to nothing new at the source.
KnownKept ==
  \A c \in live, s \in Seqs, f \in Facts :
    Own(c, s) /\ f \in Known(c, s)
      => c \in live' /\ Keeps(c, s)' /\ (f \in Known(c, s)' \/ (f = "data" /\ Lost(c, s)))

LEMMA MergeTypes ==
  ASSUME BaseInv, merge.on
  PROVE  /\ merge.src \in live /\ merge.dst \in live /\ conf[merge.src].hist \in History
         /\ merge.src \in Nat /\ merge.dst \in Nat /\ merge.dst < merge.src
  <1>1. merge.src \in live /\ merge.dst \in live /\ merge.dst < merge.src
        /\ merge.src \in Nat /\ merge.dst \in Nat
    BY MergeOn, BaseTypes
  <1>2. conf[merge.src] \in Conflict
    BY <1>1, BaseTypes, ForestType
  <1> QED
    BY <1>1, <1>2 DEF Conflict

\* What the source has below the copy, the keeper has or it was dropped.
LEMMA MovedTo ==
  ASSUME BaseInv, TopInv, ConfTree, CopiedWithin, LeftCopied,
         NEW s \in Seqs, NEW f \in Facts, NEW x, NEW y, NEW d, NEW g,
         HasMoved(s), InSome(<<x, s, f>>),
         x = merge.src, y = merge.dst, d = ToC(conf, y, s), g = conf[x].hist
  PROVE  /\ x \in live /\ y \in live /\ d \in live /\ g \in History
         /\ HistOn(d, s) = HistAt(g, s) /\ HistOn(y, s) = HistAt(g, s) /\ Within(y, s)
         /\ Own(d, s)
         /\ f \in Known(d, s) \/ <<HistAt(g, s), s, f>> \in dropped
  <1>1. /\ merge.on /\ x \in live /\ y \in live /\ g \in History
        /\ x \in Nat /\ y \in Nat /\ y < x
    BY MergeTypes DEF HasMoved
  <1>2. /\ d \in live /\ d <= y /\ Keeps(d, s) /\ HistOn(d, s) = HistOn(y, s)
        /\ d \in Nat
    BY <1>1, KeeperHist
  <1>3. Within(y, s) /\ HistOn(y, s) = HistAt(g, s)
    BY <1>1 DEF CopiedWithin
  <1>4. Own(d, s)
    BY <1>1, <1>2 DEF Own, Copied, Merging
  <1>5. f \in Known(d, s) \/ <<HistAt(g, s), s, f>> \in dropped
    BY <1>1, <1>2 DEF LeftCopied
  <1> QED
    BY <1>1, <1>2, <1>3, <1>4, <1>5

LEMMA CopiedStable ==
  ASSUME BaseInv, TopInv, ConfTree, CopiedWithin, LeftCopied, UNCHANGED <<conf, merge>>,
         dropped \subseteq dropped', KnownKept,
         \A x \in live, s \in Seqs, f \in Facts :
           merge.on /\ x = merge.src /\ InSome(<<x, s, f>>)' => InSome(<<x, s, f>>)
  PROVE  CopiedWithin' /\ LeftCopied'
  <1>1. conf' = conf /\ merge' = merge /\ \A s : HasMoved(s)' <=> HasMoved(s)
    BY DEF HasMoved
  <1>2. CopiedWithin'
    <2>1. \A s, y : HistOn(y, s)' = HistOn(y, s) /\ (Within(y, s)' <=> Within(y, s))
      BY DEF HistOn, Within
    <2> QED
      BY <1>1, <2>1 DEF CopiedWithin
  <1>3. LeftCopied'
    <2> SUFFICES ASSUME NEW s \in Seqs, NEW f \in Facts, NEW x \in live, NEW d \in live,
                        NEW g \in History, NEW y, NEW cf,
                        HasMoved(s), x = merge.src, InSome(<<x, s, f>>)',
                        cf = conf, y = merge.dst, d = ToC(cf, y, s), g = conf[x].hist
                 PROVE  f \in Known(d, s)' \/ <<HistAt(g, s), s, f>> \in dropped'
      BY <1>1 DEF LeftCopied
    <2>1. InSome(<<x, s, f>>)
      BY DEF HasMoved
    <2>2. /\ HistOn(d, s) = HistAt(g, s) /\ Own(d, s)
          /\ f \in Known(d, s) \/ <<HistAt(g, s), s, f>> \in dropped
      BY <2>1, MovedTo
    <2> QED
      BY <2>2 DEF KnownKept, Lost
  <1> QED
    BY <1>2, <1>3

\* Without a merge, or when it has just begun, nothing is copied.
LEMMA NotMoved ==
  ASSUME \A s \in Seqs : ~HasMoved(s)'
  PROVE  CopiedWithin' /\ LeftCopied'
  BY DEF CopiedWithin, LeftCopied

\* Steps that take nothing from memory, and load only what they put there.
LEMMA KnownGrows ==
  ASSUME live \subseteq live', mem \subseteq mem', UNCHANGED decls,
         \A c \in live, s \in Seqs : Own(c, s) => Keeps(c, s)',
         \A c \in live, s \in Seqs, f \in Facts :
           loaded[c, s]' = "yes" /\ <<c, s, f>> \in decls
             => loaded[c, s] = "yes" \/ <<c, s, f>> \in mem'
  PROVE  KnownKept
  <1>1. ASSUME NEW c \in live, NEW s \in Seqs, NEW f \in Facts, Own(c, s), f \in Known(c, s)
        PROVE  f \in Known(c, s)'
    <2>1. CASE <<c, s, f>> \in mem
      <3>1. <<c, s, f>> \in mem'
        BY <2>1
      <3> QED
        BY <3>1 DEF Known, InMem
    <2>2. CASE loaded[c, s] # "yes" /\ <<c, s, f>> \in decls
      BY <2>2 DEF Known, InMem, Stored
    <2> QED
      BY <1>1, <2>1, <2>2 DEF Known, InMem, Stored
  <1> QED
    BY <1>1 DEF KnownKept

\* A declaration that is ready has its stored frames in memory.
LEMMA ReadyData ==
  ASSUME DataInv, LeftInv, alive, NEW c \in live, c \in Cfid, NEW s \in Seqs, Ready(c, s),
         Own(c, s), <<c, s, "data">> \in decls
  PROVE  <<c, s, "data">> \in mem
  <1>1. CASE c \notin DOMAIN saved
    <2>1. PICK d : d = <<c, s, "data">>
      OBVIOUS
    <2> QED
      BY <1>1, <2>1 DEF DataInv, RowsRight
  <1>2. CASE loaded[c, s] = "yes"
    BY <1>2 DEF LeftInv, LeftLoaded
  <1> QED
    BY <1>1, <1>2 DEF Ready

LEMMA SetHashLeft ==
  ASSUME BaseInv, BaseInv', DataInv, OneLine, LeftInv,
         NEW d \in live, NEW t \in Seqs, NEW h \in History, SetHash(d, t, h)
  PROVE  LeftInv' /\ KnownKept /\ SameHist
  <1>1. /\ alive /\ ~merge.on /\ t > conf[d].pseq /\ Ready(d, t)
        /\ mem' = mem \cup {<<d, t, "hash">>}
        /\ qdecl' = qdecl \cup {<<d, t>>}
        /\ conf' = IF t <= conf[d].top THEN conf
                   ELSE [conf EXCEPT ![d].top = t, ![d].hist = h]
    BY DEF SetHash, Putting
  <1>2. UNCHANGED <<merge, loaded, dbq, tx, decls, dropped>>
    BY DEF SetHash, lockVars, updaterVars, dbVars, lifeVars
  <1>3. Forest(conf) /\ live \subseteq Cfid
    BY BaseTypes
  <1>4. live' = live /\ \A c \in live : conf'[c].pseq = conf[c].pseq
    <2>1. \A c \in live : conf[c] \in Conflict
      BY <1>3, ForestType
    <2> QED
      BY <1>1, <2>1 DEF Conflict
  <1>5. \A c, s : (Keeps(c, s)' <=> Keeps(c, s)) /\ (Own(c, s)' <=> Own(c, s))
    BY <1>2, <1>4 DEF Own, Keeps, Copied, Merging
  <1>6. SameHist
    BY SetHashHist
  <1>7. CopiedWithin' /\ LeftCopied'
    <2>1. \A s : ~HasMoved(s)'
      BY <1>1, <1>2 DEF HasMoved
    <2> QED
      BY <2>1, NotMoved
  <1>8. \A c \in live, s \in Seqs :
          <<c, s>> \in qdecl' /\ Own(c, s)' /\ <<c, s, "data">> \in decls
            => <<c, s>> \in qdecl \/ <<c, s, "data">> \in mem' \/ Lost(c, s)'
    <2>1. Own(d, t) /\ <<d, t, "data">> \in decls => <<d, t, "data">> \in mem
      BY <1>1, <1>3, ReadyData
    <2> QED
      BY <1>1, <1>5, <2>1
  <1>9. LeftQueued' /\ LeftTx' /\ LeftLoaded'
    <2>1. live' \subseteq live \cup {nextc} /\ dropped \subseteq dropped' /\ mem \subseteq mem'
      BY <1>1, <1>2, <1>4
    <2> QED
      BY <1>1, <1>2, <1>5, <1>6, <1>8, <2>1, LeftStable
  <1>10. KnownKept
    <2>1. live \subseteq live' /\ mem \subseteq mem'
      BY <1>1, <1>4
    <2>2. \A c \in live, s \in Seqs : Own(c, s) => Keeps(c, s)'
      BY <1>5 DEF Own
    <2> QED
      BY <1>2, <2>1, <2>2, KnownGrows
  <1> QED
    BY <1>6, <1>7, <1>9, <1>10 DEF LeftInv

LEMMA SetDataLeft ==
  ASSUME BaseInv, BaseInv', DataInv, OneLine, LeftInv,
         NEW d \in live, NEW t \in Seqs, SetData(d, t)
  PROVE  LeftInv' /\ KnownKept /\ SameHist
  <1>1. /\ alive /\ ~merge.on /\ Ready(d, t)
        /\ mem \subseteq mem'
        /\ qdecl' = qdecl \cup {<<d, t>>}
    BY DEF SetData, Putting
  <1>2. UNCHANGED <<conf, merge, loaded, dbq, tx, decls, dropped>>
    BY DEF SetData, lockVars, updaterVars, dbVars, lifeVars
  <1>3. live \subseteq Cfid /\ live' = live
    BY <1>2, BaseTypes
  <1>4. \A c, s : (Keeps(c, s)' <=> Keeps(c, s)) /\ (Own(c, s)' <=> Own(c, s))
    BY <1>2 DEF Own, Keeps, Copied, Merging
  <1>5. SameHist
    BY <1>2 DEF SameHist, HistOn
  <1>6. CopiedWithin' /\ LeftCopied'
    <2>1. \A s : ~HasMoved(s)'
      BY <1>1, <1>2 DEF HasMoved
    <2> QED
      BY <2>1, NotMoved
  <1>7. \A c \in live, s \in Seqs :
          <<c, s>> \in qdecl' /\ Own(c, s)' /\ <<c, s, "data">> \in decls
            => <<c, s>> \in qdecl \/ <<c, s, "data">> \in mem' \/ Lost(c, s)'
    <2>1. Own(d, t) /\ <<d, t, "data">> \in decls => <<d, t, "data">> \in mem
      BY <1>1, <1>3, ReadyData
    <2> QED
      BY <1>1, <1>4, <2>1
  <1>8. LeftQueued' /\ LeftTx' /\ LeftLoaded'
    <2>1. live' \subseteq live \cup {nextc} /\ dropped \subseteq dropped'
      BY <1>2, <1>3
    <2> QED
      BY <1>1, <1>2, <1>4, <1>5, <1>7, <2>1, LeftStable
  <1>9. KnownKept
    <2>1. \A c \in live, s \in Seqs : Own(c, s) => Keeps(c, s)'
      BY <1>4 DEF Own
    <2> QED
      BY <1>1, <1>2, <1>3, <2>1, KnownGrows
  <1> QED
    BY <1>5, <1>6, <1>8, <1>9 DEF LeftInv

LEMMA ForkLeft ==
  ASSUME BaseInv, BaseInv', DataInv, OneLine, LeftInv, NEW d \in live, NEW p \in Seqs,
         NEW t \in Seqs, NEW h \in History, Fork(d, p, t, h)
  PROVE  LeftInv' /\ KnownKept /\ SameHist
  <1>1. /\ alive /\ ~merge.on /\ mem \subseteq mem'
        /\ qdecl' \subseteq qdecl \cup {<<nextc, t>>}
        /\ \/ UNCHANGED conf
           \/ conf' = Over(conf, [k \in {nextc} |-> [parent |-> d, pseq |-> p, top |-> t,
                                                      hist |-> HistAt(h, t)]])
    BY DEF Fork, Putting
  <1>2. UNCHANGED <<merge, loaded, dbq, tx, decls, dropped>>
    BY DEF Fork, lockVars, updaterVars, dbVars, lifeVars
  <1>3. /\ live \subseteq live' /\ live' \subseteq live \cup {nextc}
        /\ \A c \in live : conf'[c] = conf[c]
    BY <1>1 DEF Over
  <1>4. nextc \notin live
    BY <1>1, NothingYet DEF DataInv
  <1>5. \A c \in live : \A s : (Keeps(c, s)' <=> Keeps(c, s)) /\ (Own(c, s)' <=> Own(c, s))
    BY <1>2, <1>3 DEF Own, Keeps, Copied, Merging
  <1>6. SameHist
    BY ForkHist
  <1>7. CopiedWithin' /\ LeftCopied'
    <2>1. \A s : ~HasMoved(s)'
      BY <1>1, <1>2 DEF HasMoved
    <2> QED
      BY <2>1, NotMoved
  <1>8. LeftQueued' /\ LeftTx' /\ LeftLoaded'
    <2>1. \A c \in live, s \in Seqs : <<c, s>> \in qdecl' => <<c, s>> \in qdecl
      BY <1>1, <1>4
    <2>2. dropped \subseteq dropped'
      BY <1>2
    <2> QED
      BY <1>1, <1>2, <1>3, <1>5, <1>6, <2>1, <2>2, LeftStable
  <1>9. KnownKept
    <2>1. \A c \in live, s \in Seqs : Own(c, s) => Keeps(c, s)'
      BY <1>5 DEF Own
    <2> QED
      BY <1>1, <1>2, <1>3, <2>1, KnownGrows
  <1> QED
    BY <1>6, <1>7, <1>8, <1>9 DEF LeftInv

LEMMA BeginMergeLeft ==
  ASSUME BaseInv, BaseInv', DataInv, OneLine, LeftInv, NEW i1 \in live, NEW i2 \in live,
         NEW t \in Seqs, BeginMerge(i1, i2, t)
  PROVE  LeftInv' /\ KnownKept /\ SameHist
  <1>1. /\ alive /\ ~merge.on
        /\ conf' = [conf EXCEPT ![i2].parent = i1]
        /\ merge' = [on |-> TRUE, dst |-> i1, src |-> i2, cseq |-> t,
                     seq |-> conf[i2].pseq + 1]
    BY DEF BeginMerge, Putting
  <1>2. UNCHANGED <<mem, qdecl, loaded, dbq, tx, decls, dropped>>
    BY DEF BeginMerge, lockVars, queueVars, updaterVars, dbVars, lifeVars
  <1>3. \A c \in live : conf[c] \in Conflict /\ conf[c].pseq \in Int
    BY BaseTypes, ForestType
  <1>4. live' = live /\ \A c \in live : conf'[c].pseq = conf[c].pseq
    BY <1>1, <1>3 DEF Conflict
  <1>5. \A c, s : (Keeps(c, s)' <=> Keeps(c, s)) /\ (Own(c, s)' => Own(c, s))
    BY <1>1, <1>4 DEF Own, Keeps, Copied, Merging
  <1>6. SameHist
    BY BeginMergeHist
  <1>7. CopiedWithin' /\ LeftCopied'
    <2>1. ASSUME NEW s \in Seqs, HasMoved(s)' PROVE FALSE
      <3>1. conf[i2].pseq < s /\ s < conf[i2].pseq + 1
        BY <1>1, <1>4, <2>1 DEF HasMoved
      <3>2. conf[i2].pseq \in Int /\ s \in Int
        BY <1>3, SeqType
      <3> QED
        BY <3>1, <3>2
    <2> QED
      BY <2>1, NotMoved
  <1>8. LeftQueued' /\ LeftTx' /\ LeftLoaded'
    <2>1. live' \subseteq live \cup {nextc} /\ dropped \subseteq dropped'
      BY <1>2, <1>4
    <2> QED
      BY <1>1, <1>2, <1>5, <1>6, <2>1, LeftStable
  <1>9. KnownKept
    <2>1. live \subseteq live' /\ mem \subseteq mem'
      BY <1>2, <1>4
    <2>2. \A c \in live, s \in Seqs : Own(c, s) => Keeps(c, s)'
      BY <1>5 DEF Own
    <2> QED
      BY <1>2, <2>1, <2>2, KnownGrows
  <1> QED
    BY <1>6, <1>7, <1>8, <1>9 DEF LeftInv

\* Steps that leave the conflicts and the merge alone.
LEMMA CopiedSame ==
  ASSUME BaseInv, TopInv, ConfTree, LeftInv, UNCHANGED <<conf, merge, dropped>>, KnownKept,
         \A c \in live, s \in Seqs, f \in Facts :
           InSome(<<c, s, f>>)' => InSome(<<c, s, f>>)
  PROVE  CopiedWithin' /\ LeftCopied' /\ SameHist
  <1>1. SameHist
    BY DEF SameHist, HistOn
  <1>2. CopiedWithin /\ LeftCopied /\ dropped \subseteq dropped'
    BY DEF LeftInv
  <1>3. \A x \in live, s \in Seqs, f \in Facts :
           merge.on /\ x = merge.src /\ InSome(<<x, s, f>>)' => InSome(<<x, s, f>>)
    OBVIOUS
  <1> QED
    BY <1>1, <1>2, <1>3, CopiedStable

LEMMA EndLoadLeft ==
  ASSUME BaseInv, BaseInv', DataInv, TopInv, ConfTree, OneLine, LeftInv, NEW d \in Cfid,
         NEW t \in Seqs, EndLoad(d, t), alive'
  PROVE  LeftInv' /\ KnownKept /\ SameHist
  <1>1. /\ alive
        /\ mem' = mem \cup {<<d, t, f>> : f \in Stored(d, t) \ InMem(d, t)}
        /\ loaded' = [loaded EXCEPT ![<<d, t>>] = "yes"]
        /\ UNCHANGED <<conf, nextc, merge, lockVars, queueVars, updaterVars, dbVars,
                       lifeVars, dropped>>
    BY DEF EndLoad, Exit
  <1>2. UNCHANGED <<conf, merge, dbq, qdecl, tx, decls, dropped>>
    BY <1>1 DEF queueVars, updaterVars, dbVars
  <1>3. \A c, s : (Keeps(c, s)' <=> Keeps(c, s)) /\ (Own(c, s)' <=> Own(c, s))
    BY <1>2 DEF Own, Keeps, Copied, Merging
  <1>4. \A f \in Facts : <<d, t, f>> \in decls => <<d, t, f>> \in mem'
    BY <1>1 DEF Stored, InMem
  <1>5. ASSUME NEW c \in live, NEW s \in Seqs, loaded[c, s]' = "yes"
        PROVE  loaded[c, s] = "yes" \/ (c = d /\ s = t)
    <2>1. loaded \in [Cfid \X Seqs -> {"no", "busy", "yes"}] /\ <<c, s>> \in Cfid \X Seqs
      BY BaseTypes DEF BaseInv, MemTypes
    <2>2. loaded'[<<c, s>>] = "yes"
      BY <1>5
    <2>3. <<c, s>> # <<d, t>> => loaded[<<c, s>>] = "yes"
      BY <1>1, <2>1, <2>2
    <2> QED
      BY <2>3
  <1>6. \A c \in live, s \in Seqs, f \in Facts :
          loaded[c, s]' = "yes" /\ <<c, s, f>> \in decls
            => loaded[c, s] = "yes" \/ <<c, s, f>> \in mem'
    BY <1>4, <1>5
  <1>7. KnownKept
    <2>1. live \subseteq live' /\ mem \subseteq mem'
      BY <1>1, <1>2
    <2>2. \A c \in live, s \in Seqs : Own(c, s) => Keeps(c, s)'
      BY <1>3 DEF Own
    <2> QED
      BY <1>2, <1>6, <2>1, <2>2, KnownGrows
  <1>8. CopiedWithin' /\ LeftCopied' /\ SameHist
    <2>1. \A c \in live, s \in Seqs, f \in Facts :
            InSome(<<c, s, f>>)' => InSome(<<c, s, f>>)
      BY <1>1, <1>2 DEF InSome, InTx, Stored
    <2> QED
      BY <1>2, <1>7, <2>1, CopiedSame
  <1>9. LeftQueued' /\ LeftTx' /\ LeftLoaded'
    <2>1. /\ live' \subseteq live \cup {nextc} /\ dropped \subseteq dropped'
          /\ mem \subseteq mem' /\ "data" \in Facts
      BY <1>1, <1>2 DEF Facts
    <2>2. \A c \in live, s \in Seqs :
            loaded[c, s]' = "yes" /\ Own(c, s)' /\ <<c, s, "data">> \in decls
              => loaded[c, s] = "yes" \/ <<c, s, "data">> \in mem'
      BY <1>6, <2>1
    <2> QED
      BY <1>1, <1>2, <1>3, <1>8, <2>1, <2>2, LeftStable
  <1> QED
    BY <1>7, <1>8, <1>9 DEF LeftInv

\* What a transaction has of a declaration memory has too.
LEMMA TxInMem ==
  ASSUME DataInv, NEW c, NEW s, NEW f, InTx(<<c, s, f>>), Own(c, s)
  PROVE  <<c, s, f>> \in mem
  <1>1. PICK d : d = <<c, s, f>>
    OBVIOUS
  <1>2. d[1] = c /\ d[2] = s /\ d \in tx.facts /\ tx.stage = "read"
    BY <1>1 DEF InTx
  <1> QED
    BY <1>1, <1>2 DEF DataInv, TxRight

\* Steps that leave memory alone.
LEMMA QueueLeft ==
  ASSUME BaseInv, DataInv, TopInv, ConfTree, LeftInv,
         UNCHANGED <<conf, merge, mem, dropped>>,
         \A c \in Cfid, s \in Seqs : loaded[c, s]' = "yes" => loaded[c, s] = "yes",
         \A c \in Cfid, s \in Seqs : Queued(c, s)' => Queued(c, s),
         \A c \in Cfid, s \in Seqs, f \in Facts :
           <<c, s, f>> \in decls' => <<c, s, f>> \in decls \/ InTx(<<c, s, f>>),
         \A c \in Cfid, s \in Seqs, f \in Facts :
           InTx(<<c, s, f>>)' => InTx(<<c, s, f>>) \/ <<c, s, f>> \in mem,
         LeftTx', KnownKept
  PROVE  LeftInv' /\ SameHist
  <1>1. \A c, s : (Own(c, s)' <=> Own(c, s)) /\ (Lost(c, s)' <=> Lost(c, s))
    BY DEF Own, Keeps, Copied, Merging, Lost, HistOn
  <1>2. CopiedWithin' /\ LeftCopied' /\ SameHist
    <2>1. \A c \in live, s \in Seqs, f \in Facts :
            InSome(<<c, s, f>>)' => InSome(<<c, s, f>>)
      BY BaseTypes DEF InSome
    <2> QED
      BY <2>1, CopiedSame
  <1>3. ASSUME NEW c \in Cfid, NEW s \in Seqs, Own(c, s)', <<c, s, "data">> \in decls'
        PROVE  Own(c, s) /\ (<<c, s, "data">> \in decls \/ <<c, s, "data">> \in mem)
    BY <1>1, <1>3, TxInMem DEF Facts
  <1>4. LeftQueued'
    BY <1>1, <1>3 DEF LeftInv, LeftQueued
  <1>5. LeftLoaded'
    BY <1>1, <1>3 DEF LeftInv, LeftLoaded
  <1> QED
    BY <1>2, <1>4, <1>5 DEF LeftInv

\* ... and the database.
LEMMA IdleLeft ==
  ASSUME BaseInv, DataInv, TopInv, ConfTree, LeftInv,
         UNCHANGED <<conf, merge, mem, dropped, decls>>,
         \A c \in Cfid, s \in Seqs : loaded[c, s]' = "yes" => loaded[c, s] = "yes",
         \A c \in Cfid, s \in Seqs : Queued(c, s)' => Queued(c, s),
         \A c \in Cfid, s \in Seqs, f \in Facts :
           InTx(<<c, s, f>>)' => InTx(<<c, s, f>>) \/ <<c, s, f>> \in mem,
         LeftTx'
  PROVE  LeftInv' /\ KnownKept /\ SameHist
  <1>1. KnownKept
    <2>1. \A c \in live, s \in Seqs : Own(c, s) => Keeps(c, s)'
      BY DEF Own, Keeps
    <2>2. live \subseteq live' /\ mem \subseteq mem' /\ live \subseteq Cfid
      BY BaseTypes
    <2> QED
      BY <2>1, <2>2, KnownGrows
  <1> QED
    BY <1>1, QueueLeft

LEMMA LockLeft ==
  ASSUME BaseInv, DataInv, TopInv, ConfTree, LeftInv, Lock \/ Load \/ UNCHANGED vars
  PROVE  LeftInv' /\ KnownKept /\ SameHist
  <1>1. UNCHANGED <<conf, merge, mem, dropped, decls, qdecl, dbq, tx>>
    BY DEF Lock, Load, BeginLoad, vars, scrollVars, queueVars, updaterVars, dbVars
  <1>2. \A c \in Cfid, s \in Seqs : loaded[c, s]' = "yes" => loaded[c, s] = "yes"
    <2>1. CASE UNCHANGED loaded
      BY <2>1
    <2>2. CASE Load
      <3>1. PICK d \in live, t \in Seqs : loaded' = [loaded EXCEPT ![<<d, t>>] = "busy"]
        BY <2>2 DEF Load, BeginLoad
      <3>2. ASSUME NEW c \in Cfid, NEW s \in Seqs, loaded[c, s]' = "yes"
            PROVE  loaded[c, s] = "yes"
        <4>1. loaded \in [Cfid \X Seqs -> {"no", "busy", "yes"}] /\ <<c, s>> \in Cfid \X Seqs
          BY DEF BaseInv, MemTypes
        <4>2. loaded'[<<c, s>>] = "yes"
          BY <3>2
        <4>3. loaded[<<c, s>>] = "yes"
          BY <3>1, <4>1, <4>2
        <4> QED
          BY <4>3
      <3> QED
        BY <3>2
    <2> QED
      BY <2>1, <2>2 DEF Lock, vars
  <1>3. LeftTx'
    BY <1>1 DEF LeftInv, LeftTx, Own, Keeps, Copied, Merging, Lost, HistOn
  <1>4. /\ \A c, s : Queued(c, s)' => Queued(c, s)
        /\ \A m : InTx(m)' => InTx(m)
    BY <1>1 DEF Queued, InTx
  <1> QED
    BY <1>1, <1>2, <1>3, <1>4, IdleLeft

LEMMA PutStopsLeft ==
  ASSUME BaseInv, DataInv, TopInv, ConfTree, LeftInv, PutStops
  PROVE  LeftInv' /\ KnownKept /\ SameHist
  <1>1. UNCHANGED <<conf, merge, mem, dropped, decls, qdecl, dbq, tx, loaded>>
    BY DEF PutStops
  <1>2. LeftTx'
    BY <1>1 DEF LeftInv, LeftTx, Own, Keeps, Copied, Merging, Lost, HistOn
  <1>3. /\ \A c, s : Queued(c, s)' => Queued(c, s)
        /\ \A m : InTx(m)' => InTx(m)
    BY <1>1 DEF Queued, InTx
  <1> QED
    BY <1>1, <1>2, <1>3, IdleLeft

LEMMA UnlockLeft ==
  ASSUME BaseInv, DataInv, TopInv, ConfTree, LeftInv, Unlock
  PROVE  LeftInv' /\ KnownKept /\ SameHist
  <1>1. EndUpdate /\ UNCHANGED <<conf, merge, mem, dropped, decls, tx, loaded>>
    BY DEF Unlock, scrollVars, dbVars
  <1>2. ASSUME NEW c \in Cfid, NEW s \in Seqs, Queued(c, s)' PROVE Queued(c, s)
    <2>1. CASE conf[0].top = -1
      <3>1. UNCHANGED <<qdecl, dbq>>
        BY <1>1, <2>1 DEF EndUpdate, queueVars
      <3> QED
        BY <1>2, <3>1 DEF Queued
    <2>2. CASE conf[0].top # -1
      <3>1. PICK e : dbq' = Append(dbq, e) /\ e.decl = qdecl /\ qdecl' = {}
        BY <1>1, <2>2 DEF EndUpdate, ScheduleDbUpdate
      <3>2. /\ Len(dbq) \in Nat /\ DOMAIN dbq = 1 .. Len(dbq)
            /\ DOMAIN dbq' = 1 .. Len(dbq) + 1
            /\ \A i \in DOMAIN dbq : dbq'[i] = dbq[i]
            /\ dbq'[Len(dbq) + 1] = e
        BY <3>1, BaseTypes
      <3>3. \A i \in DOMAIN dbq' : i \in DOMAIN dbq \/ i = Len(dbq) + 1
        BY <3>2
      <3> QED
        BY <1>2, <3>1, <3>2, <3>3 DEF Queued
    <2> QED
      BY <2>1, <2>2
  <1>3. LeftTx'
    BY <1>1 DEF LeftInv, LeftTx, Own, Keeps, Copied, Merging, Lost, HistOn
  <1>4. \A m : InTx(m)' => InTx(m)
    BY <1>1 DEF InTx
  <1> QED
    BY <1>1, <1>2, <1>3, <1>4, IdleLeft

LEMMA TxIdleLeft ==
  ASSUME BaseInv, DataInv, TopInv, ConfTree, LeftInv, TxBegin \/ TxBlob \/ TxEnd
  PROVE  LeftInv' /\ KnownKept /\ SameHist
  <1>1. /\ UNCHANGED <<conf, merge, mem, dropped, decls, qdecl, loaded>>
        /\ UNCHANGED dbq \/ (dbq # <<>> /\ dbq' = Tail(dbq))
        /\ tx'.stage = "read" => tx'.done = {} /\ tx'.facts = {}
    <2>1. CASE TxBegin
      BY <2>1 DEF TxBegin, scrollVars, queueVars, dbVars
    <2>2. CASE TxBlob
      <3>1. tx.stage = "blobs" /\ \E b : tx' = [tx EXCEPT !.blob = b]
        BY <2>2 DEF TxBlob
      <3>2. tx \in Tx
        BY <3>1, TxStage
      <3>3. tx'.stage = "blobs"
        BY <3>1, <3>2 DEF Tx
      <3> QED
        BY <2>2, <3>3 DEF TxBlob, scrollVars, queueVars
    <2>3. CASE TxEnd
      <3>1. tx'.stage = "idle" /\ dbq # <<>>
        BY <2>3, TxStage DEF TxEnd, NoTx
      <3> QED
        BY <2>3, <3>1 DEF TxEnd, scrollVars, queueVars, dbVars
    <2> QED
      BY <2>1, <2>2, <2>3
  <1>2. ASSUME NEW c \in Cfid, NEW s \in Seqs, Queued(c, s)' PROVE Queued(c, s)
    <2>1. CASE UNCHANGED dbq
      BY <1>1, <1>2, <2>1 DEF Queued
    <2>2. CASE dbq # <<>> /\ dbq' = Tail(dbq)
      <3>1. \A i \in DOMAIN dbq' : i + 1 \in DOMAIN dbq /\ dbq'[i] = dbq[i + 1]
        BY <2>2, BaseTypes
      <3> QED
        BY <1>1, <1>2, <3>1 DEF Queued
    <2> QED
      BY <1>1, <2>1, <2>2
  <1>3. LeftTx'
    BY <1>1 DEF LeftTx
  <1>4. \A m : InTx(m)' => InTx(m)
    BY <1>1 DEF InTx
  <1> QED
    BY <1>1, <1>2, <1>3, <1>4, IdleLeft

LEMMA TxReadLeft ==
  ASSUME BaseInv, DataInv, TopInv, ConfTree, LeftInv, TxRead
  PROVE  LeftInv' /\ KnownKept /\ SameHist
  <1>1. /\ alive /\ tx.stage = "read"
        /\ UNCHANGED <<conf, merge, mem, dropped, decls, qdecl, loaded, dbq>>
    BY DEF TxRead, scrollVars, queueVars, dbVars
  <1>2. tx \in Tx /\ dbq # <<>>
    BY <1>1, TxStage
  <1>3. PICK p \in tx.todo :
          \/ /\ tx'.stage = "read" /\ tx'.done = tx.done \cup {p}
             /\ tx'.facts = tx.facts \cup {<<p[1], p[2], f>> : f \in InMem(p[1], p[2]) \cap Facts}
          \/ tx'.stage = "read" /\ tx'.done = tx.done /\ tx'.facts = tx.facts
    <2>1. PICK p \in tx.todo :
            \E blob :
              \/ tx' = [tx EXCEPT
                   !.todo = @ \ {p}, !.done = @ \cup {p},
                   !.facts = @ \cup {<<p[1], p[2], f>> :
                                       f \in InMem(p[1], p[2]) \cap Facts},
                   !.blob = blob]
              \/ tx' = [tx EXCEPT !.todo = @ \ {p}]
      BY DEF TxRead
    <2> QED
      BY <1>1, <1>2, <2>1 DEF Tx
  <1>4. PICK d \in Cfid, t \in Seqs : p = <<d, t>>
    BY <1>1, Parts
  <1>5. /\ tx.facts \subseteq tx'.facts
        /\ \A c \in Cfid, s \in Seqs : <<c, s>> \in tx'.done =>
             \/ <<c, s>> \in tx.done
             \/ /\ c = d /\ s = t
                /\ <<d, t, "data">> \in mem => <<d, t, "data">> \in tx'.facts
        /\ \A c \in Cfid, s \in Seqs, f \in Facts :
             <<c, s, f>> \in tx'.facts => <<c, s, f>> \in tx.facts \/ <<c, s, f>> \in mem
    BY <1>3, <1>4 DEF InMem, Facts
  <1>6. Queued(d, t)
    <2>1. p \in Head(dbq).decl
      BY <1>1, <1>3 DEF DataInv, TxRight
    <2> QED
      BY <1>2, <1>4, <2>1, BaseTypes DEF Queued
  <1>7. \A c, s : (Own(c, s)' <=> Own(c, s)) /\ (Lost(c, s)' <=> Lost(c, s))
    BY <1>1 DEF Own, Keeps, Copied, Merging, Lost, HistOn
  <1>8. LeftTx'
    <2> SUFFICES ASSUME NEW c \in Cfid, NEW s \in Seqs, <<c, s>> \in tx'.done, Own(c, s),
                        <<c, s, "data">> \in decls
                 PROVE  <<c, s, "data">> \in tx'.facts \/ Lost(c, s)
      BY <1>1, <1>7 DEF LeftTx
    <2>1. CASE <<c, s>> \in tx.done
      BY <1>1, <1>5, <2>1 DEF LeftInv, LeftTx
    <2>2. CASE <<c, s>> \notin tx.done
      BY <1>5, <1>6, <2>2 DEF LeftInv, LeftQueued
    <2> QED
      BY <2>1, <2>2
  <1>9. /\ \A c, s : Queued(c, s)' => Queued(c, s)
        /\ \A c \in Cfid, s \in Seqs, f \in Facts :
             InTx(<<c, s, f>>)' => InTx(<<c, s, f>>) \/ <<c, s, f>> \in mem
    BY <1>1, <1>5 DEF Queued, InTx
  <1> QED
    BY <1>1, <1>8, <1>9, IdleLeft

\* A row written anew has the facts that its declaration had, or they are lost.
LEMMA TxCommitLeft ==
  ASSUME BaseInv, DataInv, TopInv, ConfTree, LeftInv, TxCommit
  PROVE  LeftInv' /\ KnownKept /\ SameHist
  <1>1. /\ alive /\ tx.stage = "read"
        /\ UNCHANGED <<conf, merge, mem, dropped, qdecl, loaded, dbq>>
        /\ decls' = {d \in decls : d[1] \notin Head(dbq).rm /\ <<d[1], d[2]>> \notin tx.done}
                      \cup tx.facts
        /\ tx' = [tx EXCEPT !.stage = "blobs"]
    BY DEF TxCommit, CommitDecls, scrollVars, queueVars
  <1>2. tx \in Tx /\ dbq # <<>> /\ tx'.stage = "blobs"
    <2>1. tx \in Tx /\ dbq # <<>>
      BY <1>1, TxStage
    <2> QED
      BY <1>1, <2>1 DEF Tx
  <1>3. LeftTx'
    BY <1>2 DEF LeftTx
  <1>4. \A c \in Cfid, s \in Seqs, f \in Facts :
          <<c, s, f>> \in decls' => <<c, s, f>> \in decls \/ InTx(<<c, s, f>>)
    BY <1>1 DEF InTx
  <1>5. \A c \in live : c \notin Head(dbq).rm
    BY <1>2, BaseTypes DEF BaseInv, Fresh
  <1>6. ASSUME NEW c \in live, NEW s \in Seqs, NEW f \in Facts, Own(c, s), f \in Known(c, s)
        PROVE  c \in live' /\ Keeps(c, s)' /\ (f \in Known(c, s)' \/ (f = "data" /\ Lost(c, s)))
    <2>1. c \in live' /\ Keeps(c, s)' /\ c \in Cfid
      BY <1>1, <1>6, BaseTypes DEF Own, Keeps
    <2>2. CASE <<c, s, f>> \in mem
      BY <1>1, <2>1, <2>2 DEF Known, InMem
    <2>3. CASE loaded[c, s] # "yes" /\ <<c, s, f>> \in decls
      <3>1. <<c, s, f>> \in decls' => f \in Known(c, s)'
        BY <1>1, <2>3 DEF Known, Stored
      <3>2. CASE <<c, s>> \notin tx.done
        <4>1. PICK m : m = <<c, s, f>>
          OBVIOUS
        <4>2. m[1] = c /\ <<m[1], m[2]>> = <<c, s>> /\ m \in decls
          BY <2>3, <4>1
        <4>3. m \in decls'
          BY <1>1, <1>5, <3>2, <4>2
        <4> QED
          BY <2>1, <3>1, <4>1, <4>3
      <3>3. CASE <<c, s>> \in tx.done
        <4>1. <<c, s, "hash">> \in tx.facts
          <5>1. PICK p \in tx.done : p = <<c, s>>
            BY <3>3
          <5>2. p[1] = c /\ p[2] = s
            BY <5>1
          <5> QED
            BY <1>1, <1>6, <5>2 DEF DataInv, TxRight
        <4>2. f = "data" => <<c, s, "data">> \in tx.facts \/ Lost(c, s)
          BY <1>1, <1>6, <2>1, <2>3, <3>3 DEF LeftInv, LeftTx
        <4> QED
          BY <1>1, <2>1, <3>1, <4>1, <4>2 DEF Facts
      <3> QED
        BY <3>2, <3>3
    <2> QED
      BY <1>6, <2>2, <2>3 DEF Known, InMem, Stored
  <1>7. KnownKept
    BY <1>6 DEF KnownKept
  <1>8. /\ \A c, s : Queued(c, s)' => Queued(c, s)
        /\ \A m : ~InTx(m)'
    BY <1>1, <1>2 DEF Queued, InTx
  <1> QED
    BY <1>1, <1>3, <1>4, <1>7, <1>8, QueueLeft

\* The copy of declaration z from x to y, where k keeps it.
Copying(x, y, z, k) ==
  x = merge.src /\ y = merge.dst /\ z = merge.seq /\ k = ToC(conf, y, z)

LEMMA CopyPlaces ==
  ASSUME BaseInv, CopyDecl, NEW x, NEW y, NEW z, NEW k, Copying(x, y, z, k)
  PROVE  /\ merge.on /\ alive /\ z \in Seqs /\ z <= LastCopied
         /\ x \in live /\ y \in live /\ k \in live /\ x # y /\ x # k
         /\ live \subseteq Cfid
         /\ Own(x, z) /\ Own(k, z) /\ (k # y => ~Keeps(y, z))
         /\ UNCHANGED <<loaded, dbq, tx, decls>>
         /\ live' = live /\ \A c \in live : c # x => conf'[c] = conf[c]
         /\ conf'[x].pseq = IF z = merge.cseq THEN z ELSE conf[x].pseq
         /\ z # merge.cseq => conf' = conf
         /\ merge'.on /\ merge'.src = x /\ merge'.dst = y /\ merge'.seq = z + 1
         /\ \A c \in live : \A s : HistOn(c, s)' = HistOn(c, s)
  <1>1. /\ Forest(conf) /\ live' = live /\ merge.on /\ alive
        /\ x \in live /\ y \in live /\ y < x /\ z \in Seqs /\ z <= LastCopied
        /\ \A c \in live : c # x => conf'[c] = conf[c]
        /\ conf'[x].top = conf[x].top /\ conf'[x].hist = conf[x].hist
        /\ conf'[x].pseq = IF z = merge.cseq THEN z ELSE conf[x].pseq
        /\ merge' = [merge EXCEPT !.seq = merge.seq + 1] /\ merge \in Merge
    BY CopyConf DEF Copying
  <1>2. UNCHANGED <<loaded, dbq, tx, decls>> /\ (z # merge.cseq => conf' = conf)
    BY DEF CopyDecl, Copying, updaterVars, dbVars
  <1>3. merge'.on /\ merge'.src = x /\ merge'.dst = y /\ merge'.seq = z + 1
    BY <1>1 DEF Merge, Copying
  <1>4. live \subseteq Nat /\ live \subseteq Cfid
    BY BaseTypes
  <1>5. k \in live /\ k <= y /\ z > conf[k].pseq /\ (k # y => ~(z > conf[y].pseq))
    BY <1>1, ToCKeeper, ToCSelf DEF Copying
  <1>6. x # y /\ x # k
    BY <1>1, <1>4, <1>5
  <1>7. z > conf[x].pseq
    <2>1. merge # NoMerge
      BY <1>1 DEF NoMerge
    <2>2. conf[x].pseq < z
      BY <2>1 DEF BaseInv, MergeRight, Copying
    <2>3. conf[x].pseq \in Int /\ z \in Int
      BY <1>1, ForestType, SeqType
    <2> QED
      BY <2>2, <2>3
  <1>8. Own(x, z) /\ Own(k, z) /\ (k # y => ~Keeps(y, z))
    <2>1. z \in Int
      BY <1>1, SeqType
    <2> QED
      BY <1>1, <1>5, <1>6, <1>7, <2>1 DEF Own, Keeps, Copied, Merging, Copying
  <1>9. \A c \in live : \A s : HistOn(c, s)' = HistOn(c, s)
    <2>1. y \in live /\ x \in live /\ conf'[y] = conf[y]
      BY <1>1, <1>6
    <2>2. ASSUME NEW c \in live, NEW s PROVE HistOn(c, s)' = HistOn(c, s)
      <3>1. CASE c = y
        BY <1>1, <1>3, <2>1, <3>1 DEF HistOn, Copying
      <3>2. CASE c # y
        <4>1. HistOn(c, s) = HistAt(conf[c].hist, s) /\ HistOn(c, s)' = HistAt(conf'[c].hist, s)
          BY <1>3, <3>2 DEF HistOn, Copying
        <4>2. conf'[c].hist = conf[c].hist
          <5>1. CASE c = x
            BY <1>1, <5>1
          <5>2. CASE c # x
            BY <1>1, <5>2
          <5> QED
            BY <5>1, <5>2
        <4> QED
          BY <4>1, <4>2
      <3> QED
        BY <3>1, <3>2
    <2> QED
      BY <2>2
  <1> QED
    BY <1>1, <1>2, <1>3, <1>4, <1>5, <1>6, <1>8, <1>9

MemAfterCopy(x, y, z, k) ==
  \A c \in Cfid, s \in Seqs, f \in Facts \cup Frames :
    <<c, s, f>> \in mem' <=>
      \/ <<c, s, f>> \in mem /\ ~(c = x /\ s = z /\ f \in Frames)
      \/ c = k /\ s = z /\ f = "hash" /\ <<x, z, f>> \in mem /\ <<k, z, f>> \notin mem
      \/ c = y /\ s = z /\ f \in Frames /\ <<x, z, f>> \in mem
QueuedByCopy(x, y, z, k) ==
  \A c \in Cfid, s \in Seqs :
    <<c, s>> \in qdecl' /\ <<c, s>> \notin qdecl =>
      /\ s = z
      /\ \/ c = k /\ <<x, z, "hash">> \in mem /\ <<k, z, "hash">> \notin mem
         \/ c = y /\ \E f \in Frames : <<x, z, f>> \in mem

LEMMA CopyMem ==
  ASSUME BaseInv, CopyDecl, NEW x, NEW y, NEW z, NEW k, Copying(x, y, z, k)
  PROVE  /\ MemAfterCopy(x, y, z, k)
         /\ QueuedByCopy(x, y, z, k)
         /\ dropped' = dropped \cup LeftBehind(k, z)
  <1>1. CopyFacts(k, z) /\ dropped' = dropped \cup LeftBehind(k, z)
    BY CopyTypes DEF Copying
  <1>2. /\ mem' = (mem \ MovedFrames(z))
                    \cup {<<k, z, f>> : f \in (InMem(x, z) \ Frames) \ InMem(k, z)}
                    \cup {<<y, z, f>> : f \in InMem(x, z) \cap Frames}
        /\ qdecl' = qdecl \cup {<<k, z>> : f \in (InMem(x, z) \ Frames) \ InMem(k, z)}
                          \cup {<<y, z>> : f \in InMem(x, z) \cap Frames}
    BY <1>1 DEF CopyFacts, Copying
  <1>3. MovedFrames(z) = {<<x, z, f>> : f \in Frames}
    BY DEF MovedFrames, Copying
  <1>4. \A c \in Cfid, s \in Seqs, f \in Facts \cup Frames :
          <<c, s, f>> \in mem' <=>
            \/ <<c, s, f>> \in mem /\ ~(c = x /\ s = z /\ f \in Frames)
            \/ c = k /\ s = z /\ f = "hash" /\ <<x, z, f>> \in mem /\ <<k, z, f>> \notin mem
            \/ c = y /\ s = z /\ f \in Frames /\ <<x, z, f>> \in mem
    BY <1>2, <1>3, ZenonT(40) DEF InMem, Facts, Frames
  <1>5. \A c \in Cfid, s \in Seqs :
          <<c, s>> \in qdecl' /\ <<c, s>> \notin qdecl =>
            /\ s = z
            /\ \/ c = k /\ <<x, z, "hash">> \in mem /\ <<k, z, "hash">> \notin mem
               \/ c = y /\ \E f \in Frames : <<x, z, f>> \in mem
    BY <1>2 DEF InMem, Facts, Frames
  <1>6. MemAfterCopy(x, y, z, k) /\ QueuedByCopy(x, y, z, k)
    BY <1>4, <1>5 DEF MemAfterCopy, QueuedByCopy
  <1> QED
    BY <1>1, <1>6

\* A fact that the source has goes to the conflict that keeps the declaration,
\* or it is left behind.
LEMMA CopyNew ==
  ASSUME BaseInv, DataInv, LeftInv, CopyDecl, NEW x, NEW y, NEW z, NEW k,
         Copying(x, y, z, k), NEW f \in Facts, InSome(<<x, z, f>>)
  PROVE  f \in Known(k, z)' \/ <<HistAt(conf[x].hist, z), z, f>> \in dropped'
  <1>1. /\ x \in Cfid /\ k \in Cfid /\ y \in Cfid /\ z \in Seqs /\ Own(x, z) /\ x # k
    BY CopyPlaces
  <1>2. dropped' = dropped \cup LeftBehind(k, z)
    BY CopyMem
  <1>0. /\ <<x, z, "hash">> \in mem => <<k, z, "hash">> \in mem'
        /\ <<x, z, "data">> \in mem => <<y, z, "data">> \in mem'
    <2>1. /\ "hash" \in Facts \cup Frames /\ "hash" \notin Frames
          /\ "data" \in Facts \cup Frames /\ "data" \in Frames
      BY DEF Facts, Frames
    <2>2. \A c \in Cfid, s \in Seqs, e \in Facts \cup Frames :
            <<c, s, e>> \in mem' <=>
              \/ <<c, s, e>> \in mem /\ ~(c = x /\ s = z /\ e \in Frames)
              \/ c = k /\ s = z /\ e = "hash" /\ <<x, z, e>> \in mem /\ <<k, z, e>> \notin mem
              \/ c = y /\ s = z /\ e \in Frames /\ <<x, z, e>> \in mem
      <3>1. MemAfterCopy(x, y, z, k)
        BY CopyMem
      <3> QED
        BY <3>1 DEF MemAfterCopy
    <2>3. <<k, z, "hash">> \in mem' <=>
            \/ <<k, z, "hash">> \in mem
            \/ <<x, z, "hash">> \in mem /\ <<k, z, "hash">> \notin mem
      BY <1>1, <2>1, <2>2
    <2>4. <<x, z, "data">> \in mem => <<y, z, "data">> \in mem'
      BY <1>1, <2>1, <2>2
    <2> QED
      BY <2>3, <2>4
  <1>3. CASE <<x, z, f>> \in mem
    <2>1. CASE f = "hash"
      <3>1. <<k, z, "hash">> \in mem'
        BY <1>0, <1>3, <2>1
      <3> QED
        BY <2>1, <3>1 DEF Known, InMem, Facts
    <2>2. CASE f = "data" /\ k = y
      <3>1. <<k, z, "data">> \in mem'
        BY <1>0, <1>3, <2>2
      <3> QED
        BY <2>2, <3>1 DEF Known, InMem, Facts
    <2>3. CASE f = "data" /\ k # y
      <3>1. f \in IF k = merge.dst THEN {} ELSE InMem(merge.src, z) \cap {"data"}
        BY <1>3, <2>3 DEF InMem, Facts, Copying
      <3>2. <<HistAt(conf[merge.src].hist, z), z, f>> \in LeftBehind(k, z)
        BY <3>1 DEF LeftBehind
      <3> QED
        BY <1>2, <3>2 DEF Copying
    <2> QED
      BY <2>1, <2>2, <2>3 DEF Facts
  <1>4. CASE <<x, z, f>> \notin mem
    <2>1. ~InTx(<<x, z, f>>)
      BY <1>1, <1>4, TxInMem
    <2>2. <<x, z, f>> \in decls
      BY <1>4, <2>1 DEF InSome
    <2>3. loaded[x, z] # "yes"
      <3>1. SUFFICES ASSUME loaded[x, z] = "yes" PROVE FALSE
        OBVIOUS
      <3>2. Whole(x, z)
        BY <1>1, <3>1 DEF DataInv, LoadedRight
      <3>3. f = "data"
        BY <1>4, <2>2, <3>2 DEF Whole, LeftOut
      <3> QED
        BY <1>1, <1>4, <2>2, <3>1, <3>3 DEF LeftInv, LeftLoaded
    <2>4. f \in Known(merge.src, z) \ InMem(merge.src, z)
      BY <1>4, <2>2, <2>3 DEF Known, Stored, InMem, Copying
    <2>5. <<HistAt(conf[merge.src].hist, z), z, f>> \in LeftBehind(k, z)
      BY <2>4 DEF LeftBehind
    <2> QED
      BY <1>2, <2>5 DEF Copying
  <1> QED
    BY <1>3, <1>4

\* Both sides of a copy are of one history.
LEMMA CopyOneHist ==
  ASSUME BaseInv, TopInv, ConfTree, OneLine, CopyDecl, NEW x, NEW y, NEW z, NEW k,
         Copying(x, y, z, k), NEW s \in Seqs, s <= LastCopied
  PROVE  /\ HistOn(y, s) = HistAt(conf[x].hist, s)
         /\ s = z => HistOn(k, s) = HistAt(conf[x].hist, s)
  <1>1. merge.on /\ x = merge.src /\ y = merge.dst /\ k = ToC(conf, y, z) /\ y \in live /\ x # y
    BY CopyPlaces DEF Copying
  <1>2. HistOn(x, s) = HistOn(y, s)
    BY <1>1, MergedHist
  <1>3. HistOn(x, s) = HistAt(conf[x].hist, s)
    BY <1>1 DEF HistOn
  <1>4. s = z => HistOn(k, s) = HistOn(y, s)
    BY <1>1, KeeperHist
  <1> QED
    BY <1>2, <1>3, <1>4

\* But for the frames of the source, a copy takes nothing from memory.
LEMMA CopyKeeps ==
  ASSUME BaseInv, CopyDecl, NEW x, NEW y, NEW z, NEW k, Copying(x, y, z, k),
         NEW c \in live, NEW s \in Seqs, NEW f \in Facts, c # x \/ s # z
  PROVE  /\ <<c, s, f>> \in mem => <<c, s, f>> \in mem'
         /\ f \in Known(c, s) => f \in Known(c, s)'
  <1>1. c \in Cfid /\ UNCHANGED <<loaded, decls>> /\ MemAfterCopy(x, y, z, k)
    BY CopyPlaces, CopyMem
  <1>2. <<c, s, f>> \in mem => <<c, s, f>> \in mem'
    <2>1. f \in Facts \cup Frames
      OBVIOUS
    <2> QED
      BY <1>1, <2>1 DEF MemAfterCopy
  <1>3. f \in Known(c, s) => f \in Known(c, s)'
    <2>1. CASE <<c, s, f>> \in mem
      BY <1>2, <2>1 DEF Known, InMem
    <2>2. CASE <<c, s, f>> \notin mem
      <3>1. f \in Known(c, s) => loaded[c, s] # "yes" /\ <<c, s, f>> \in decls
        BY <2>2 DEF Known, InMem, Stored
      <3>2. loaded[c, s] # "yes" /\ <<c, s, f>> \in decls => f \in Known(c, s)'
        BY <1>1 DEF Known, InMem, Stored
      <3> QED
        BY <3>1, <3>2
    <2> QED
      BY <2>1, <2>2
  <1> QED
    BY <1>2, <1>3

LEMMA CopyDeclRows ==
  ASSUME BaseInv, DataInv, TopInv, ConfTree, OneLine, LeftInv, CopyDecl,
         NEW x, NEW y, NEW z, NEW k, Copying(x, y, z, k)
  PROVE  LeftQueued' /\ LeftTx' /\ LeftLoaded'
  <1>1. /\ alive /\ z \in Seqs /\ z <= LastCopied /\ live \subseteq Cfid /\ live' = live
        /\ k \in live /\ Own(k, z) /\ x # k /\ x \in live /\ y \in live
        /\ UNCHANGED <<loaded, dbq, tx, decls>>
        /\ \A c \in live : \A s : HistOn(c, s)' = HistOn(c, s)
    BY CopyPlaces
  <1>2. /\ dropped' = dropped \cup LeftBehind(k, z)
        /\ MemAfterCopy(x, y, z, k) /\ QueuedByCopy(x, y, z, k)
    BY CopyMem
  <1>3. \A c \in live, s \in Seqs : Own(c, s)' =>
          Own(c, s) /\ (<<c, s, "data">> \in mem => <<c, s, "data">> \in mem')
    <2> SUFFICES ASSUME NEW c \in live, NEW s \in Seqs, Own(c, s)'
                 PROVE  Own(c, s) /\ (<<c, s, "data">> \in mem => <<c, s, "data">> \in mem')
      OBVIOUS
    <2>1. Own(c, s) /\ (c # x \/ s # z)
      BY <1>1, CopyOwn DEF Copying
    <2>2. "data" \in Facts
      BY DEF Facts
    <2> QED
      BY <2>1, <2>2, CopyKeeps
  <1>4. ASSUME NEW c \in live, NEW s \in Seqs, <<c, s>> \in qdecl', <<c, s>> \notin qdecl,
               <<c, s, "data">> \in decls
        PROVE  <<c, s, "data">> \in mem' \/ Lost(c, s)'
    <2>0. /\ s = z
          /\ \/ c = k /\ <<x, z, "hash">> \in mem /\ <<k, z, "hash">> \notin mem
             \/ c = y /\ \E f \in Frames : <<x, z, f>> \in mem
      BY <1>1, <1>2, <1>4 DEF QueuedByCopy
    <2>1. CASE c = y /\ \E f \in Frames : <<x, z, f>> \in mem
      <3>1. <<x, z, "data">> \in mem
        BY <1>1, <2>1 DEF DataInv, HashInMem, Frames
      <3>2. "data" \in Facts \cup Frames /\ "data" \in Frames
        BY DEF Frames
      <3>3. <<y, z, "data">> \in mem'
        BY <1>1, <1>2, <3>1, <3>2 DEF MemAfterCopy
      <3> QED
        BY <2>0, <2>1, <3>3
    <2>2. CASE c = k /\ <<x, z, "hash">> \in mem /\ <<k, z, "hash">> \notin mem
      <3>1. <<k, z, "data">> \notin mem
        BY <1>1, <2>2 DEF DataInv, HashInMem, Own
      <3>2. loaded[k, z] # "yes"
        BY <1>1, <1>4, <2>0, <2>2, <3>1 DEF LeftInv, LeftLoaded
      <3>3. "data" \in Known(k, z) \ InMem(k, z)
        BY <1>4, <2>0, <2>2, <3>1, <3>2 DEF Known, InMem, Stored, Facts
      <3>4. ~(InMem(merge.src, z) \subseteq InMem(k, z))
        <4>1. "hash" \in InMem(merge.src, z) /\ "hash" \notin InMem(k, z)
          BY <2>2 DEF InMem, Facts, Copying
        <4> QED
          BY <4>1
      <3>5. <<HistAt(conf[x].hist, z), z, "data">> \in LeftBehind(k, z)
        BY <3>3, <3>4 DEF LeftBehind, Copying
      <3>6. HistOn(k, z)' = HistAt(conf[x].hist, z)
        BY <1>1, CopyOneHist
      <3>7. Lost(k, z)'
        BY <1>2, <3>5, <3>6 DEF Lost
      <3> QED
        BY <2>0, <2>2, <3>7
    <2> QED
      BY <2>0, <2>1, <2>2
  <1>5. SameHist
    BY CopyHist
  <1>6. live' \subseteq live \cup {nextc} /\ dropped \subseteq dropped'
    BY <1>1, <1>2
  <1>7. \A c \in live, s \in Seqs :
          <<c, s>> \in qdecl' /\ Own(c, s)' /\ <<c, s, "data">> \in decls
            => <<c, s>> \in qdecl \/ <<c, s, "data">> \in mem' \/ Lost(c, s)'
    BY <1>4
  <1>8. \A c \in live, s \in Seqs :
          loaded[c, s]' = "yes" /\ Own(c, s)' /\ <<c, s, "data">> \in decls
            => loaded[c, s] = "yes" \/ <<c, s, "data">> \in mem'
    BY <1>1
  <1> QED
    BY <1>1, <1>3, <1>5, <1>6, <1>7, <1>8, LeftStable

LEMMA CopyDeclMoved ==
  ASSUME BaseInv, DataInv, TopInv, ConfTree, OneLine, LeftInv, CopyDecl,
         NEW x, NEW y, NEW z, NEW k, Copying(x, y, z, k)
  PROVE  CopiedWithin' /\ LeftCopied'
  <1>1. /\ merge.on /\ z \in Seqs /\ z <= LastCopied /\ live \subseteq Cfid /\ live' = live
        /\ k \in live /\ x # k /\ x \in live /\ y \in live /\ x # y
        /\ UNCHANGED <<loaded, dbq, tx, decls>>
        /\ conf'[x].pseq = IF z = merge.cseq THEN z ELSE conf[x].pseq
        /\ z # merge.cseq => conf' = conf
        /\ merge'.on /\ merge'.src = x /\ merge'.dst = y /\ merge'.seq = z + 1
        /\ \A c \in live : \A s : HistOn(c, s)' = HistOn(c, s)
    BY CopyPlaces
  <1>2. x = merge.src /\ y = merge.dst /\ z = merge.seq /\ k = ToC(conf, y, z)
    BY DEF Copying
  <1>3. \A s \in Seqs : HasMoved(s)' => z # merge.cseq /\ conf' = conf /\ s <= z
                                         /\ (s = z \/ HasMoved(s))
    <2> SUFFICES ASSUME NEW s \in Seqs, HasMoved(s)'
                 PROVE  z # merge.cseq /\ s <= z /\ (s = z \/ HasMoved(s))
      BY <1>1
    <2>1. s \in Int /\ z \in Int /\ conf'[x].pseq < s /\ s < z + 1
      BY <1>1, SeqType DEF HasMoved
    <2>2. s <= z /\ z # merge.cseq
      BY <1>1, <2>1
    <2>3. conf[merge.src].pseq < s
      BY <1>1, <1>2, <2>1, <2>2
    <2>4. s = z \/ s < merge.seq
      BY <1>2, <2>1, <2>2
    <2> QED
      BY <1>1, <2>2, <2>3, <2>4 DEF HasMoved
  <1>4. CopiedWithin'
    <2> SUFFICES ASSUME NEW s \in Seqs, HasMoved(s)', NEW g, g = conf'[x].hist
                 PROVE  Within(y, s)' /\ HistOn(y, s)' = HistAt(g, s)
      BY <1>1 DEF CopiedWithin
    <2>1. conf' = conf /\ s <= z
      BY <1>3
    <2>2. LastCopied <= conf[x].top /\ LastCopied \in Int /\ conf[x].top \in Int
      BY <1>1, <1>2, CopyRange, BaseTypes, ConfTops
    <2>3. s \in Int /\ z \in Int
      BY <1>1, SeqType
    <2>4. s <= LastCopied /\ s <= conf[x].top /\ s < z + 1
      BY <1>1, <2>1, <2>2, <2>3
    <2>5. Within(y, s)'
      BY <1>1, <2>1, <2>4 DEF Within
    <2>6. HistOn(y, s) = HistAt(conf[x].hist, s)
      BY <2>4, CopyOneHist
    <2> QED
      BY <1>1, <2>1, <2>5, <2>6
  <1>5. LeftCopied'
    <2> SUFFICES ASSUME NEW s \in Seqs, NEW f \in Facts, NEW d \in live, NEW cf, NEW g \in History,
                        HasMoved(s)', InSome(<<x, s, f>>)', cf = conf', d = ToC(cf, y, s),
                        g = conf'[x].hist
                 PROVE  f \in Known(d, s)' \/ <<HistAt(g, s), s, f>> \in dropped'
      BY <1>1 DEF LeftCopied
    <2>1. cf = conf /\ g = conf[x].hist /\ (s = z \/ HasMoved(s))
      BY <1>3
    <2>2. InSome(<<x, s, f>>)
      <3>1. MemAfterCopy(x, y, z, k)
        BY CopyMem
      <3>2. x \in Cfid /\ f \in Facts \cup Frames
        BY <1>1
      <3>3. <<x, s, f>> \in mem' => <<x, s, f>> \in mem
        BY <1>1, <3>1, <3>2 DEF MemAfterCopy
      <3> QED
        BY <1>1, <3>3 DEF InSome, InTx
    <2>3. CASE s = z
      <3>1. d = k
        BY <1>2, <2>1, <2>3
      <3> QED
        BY <2>1, <2>2, <2>3, <3>1, CopyNew
    <2>4. CASE s # z /\ HasMoved(s)
      <3>1. f \in Known(d, s) \/ <<HistAt(g, s), s, f>> \in dropped
        BY <1>2, <2>1, <2>2, <2>4, MovedTo DEF LeftInv
      <3>2. f \in Known(d, s) => f \in Known(d, s)'
        BY <2>4, CopyKeeps
      <3>3. dropped \subseteq dropped'
        BY CopyMem
      <3> QED
        BY <3>1, <3>2, <3>3
    <2> QED
      BY <2>1, <2>3, <2>4
  <1> QED
    BY <1>4, <1>5

\* A copy takes away only what it copies.
LEMMA CopyDeclLeft ==
  ASSUME BaseInv, DataInv, TopInv, ConfTree, OneLine, LeftInv, CopyDecl
  PROVE  /\ LeftInv' /\ SameHist /\ dropped \subseteq dropped'
         /\ \A c \in live, s \in Seqs, f \in Facts :
              Own(c, s) /\ f \in Known(c, s) =>
                \/ c = merge.src /\ s = merge.seq
                \/ c \in live' /\ Keeps(c, s)' /\ f \in Known(c, s)'
  <1>1. PICK x, y, z : x = merge.src /\ y = merge.dst /\ z = merge.seq
    OBVIOUS
  <1>2. PICK k : k = ToC(conf, y, z)
    OBVIOUS
  <1>3. Copying(x, y, z, k)
    BY <1>1, <1>2 DEF Copying
  <1>4. LeftInv'
    BY <1>3, CopyDeclRows, CopyDeclMoved DEF LeftInv
  <1>5. dropped \subseteq dropped'
    BY <1>3, CopyMem
  <1>6. ASSUME NEW c \in live, NEW s \in Seqs, NEW f \in Facts, Own(c, s), f \in Known(c, s),
               c # x \/ s # z
        PROVE  c \in live' /\ Keeps(c, s)' /\ f \in Known(c, s)'
    <2>1. f \in Known(c, s)'
      BY <1>3, <1>6, CopyKeeps
    <2>2. /\ live' = live /\ \A e \in live : e # x => conf'[e] = conf[e]
          /\ conf'[x].pseq = IF z = merge.cseq THEN z ELSE conf[x].pseq
      BY <1>3, CopyPlaces
    <2>3. s > conf'[c].pseq
      <3>1. CASE c # x
        BY <1>6, <2>2, <3>1 DEF Own, Keeps
      <3>2. CASE c = x
        <4>1. ~(s < z)
          <5>1. merge.on
            BY <1>3, CopyPlaces
          <5> QED
            BY <1>1, <1>6, <3>2, <5>1 DEF Own, Copied, Merging
        <4>2. s \in Int /\ z \in Int
          BY <1>3, CopyPlaces, SeqType
        <4>3. s > conf[x].pseq
          BY <1>6, <3>2 DEF Own, Keeps
        <4> QED
          BY <1>6, <2>2, <3>2, <4>1, <4>2, <4>3
      <3> QED
        BY <3>1, <3>2
    <2> QED
      BY <2>1, <2>2, <2>3 DEF Keeps
  <1> QED
    BY <1>1, <1>4, <1>5, <1>6, CopyHist

\* A copy that fails takes nothing away, and what it queues has what is stored
\* of it, or leaves it behind.
LEMMA CopyStuckLeft ==
  ASSUME BaseInv, DataInv, TopInv, ConfTree, OneLine, LeftInv, CopyStuck
  PROVE  LeftInv' /\ KnownKept /\ SameHist /\ dropped \subseteq dropped'
  <1>0. PICK x, z, k : x = merge.src /\ z = merge.seq /\ k = ToC(conf, merge.dst, z)
    OBVIOUS
  <1>1. /\ alive /\ merge.on /\ x \in live /\ merge.dst \in live /\ k \in live /\ k # x
        /\ live \subseteq Cfid
        /\ z \in Seqs /\ z <= LastCopied /\ z > conf[k].pseq
        /\ \A c \in Cfid, s \in Seqs, f \in Facts \cup Frames :
             <<c, s, f>> \in mem' <=>
               \/ <<c, s, f>> \in mem
               \/ c = k /\ s = z /\ f = "hash" /\ <<x, z, f>> \in mem
        /\ \A c \in Cfid, s \in Seqs :
             <<c, s>> \in qdecl' \ qdecl =>
               c = k /\ s = z /\ <<x, z, "hash">> \in mem /\ <<k, z, "hash">> \notin mem
        /\ dropped' = dropped \cup LeftBehind(k, z)
        /\ UNCHANGED <<conf, merge, dbq, tx, decls, loaded>>
        /\ mem \subseteq mem'
    BY <1>0, CopyStops
  <1>2. HistOn(k, z) = HistAt(conf[x].hist, z)
    <2>1. HistOn(x, z) = HistOn(merge.dst, z)
      BY <1>0, <1>1, MergedHist
    <2>2. HistOn(k, z) = HistOn(merge.dst, z)
      BY <1>0, <1>1, KeeperHist
    <2>3. HistOn(x, z) = HistAt(conf[x].hist, z)
      BY <1>0, <1>1, MergeOn DEF HistOn
    <2> QED
      BY <2>1, <2>2, <2>3
  <1>3. Own(k, z)
    BY <1>0, <1>1 DEF Own, Keeps, Copied, Merging
  <1>4. SameHist /\ dropped \subseteq dropped'
    BY <1>1 DEF SameHist, HistOn
  <1>5. \A c, s : (Own(c, s)' <=> Own(c, s)) /\ HistOn(c, s)' = HistOn(c, s)
    BY <1>1 DEF Own, Keeps, Copied, Merging, HistOn
  <1>6. ASSUME <<x, z, "hash">> \in mem, <<k, z, "hash">> \notin mem, <<k, z, "data">> \in decls
        PROVE  Lost(k, z)'
    <2>1. <<k, z, "data">> \notin mem
      BY <1>1, <1>3, <1>6 DEF DataInv, HashInMem, Own
    <2>2. loaded[k, z] # "yes"
      BY <1>1, <1>3, <1>6, <2>1 DEF LeftInv, LeftLoaded
    <2>3. "data" \in Known(k, z) \ InMem(k, z)
      BY <1>6, <2>1, <2>2 DEF Known, InMem, Stored, Facts
    <2>4. ~(InMem(merge.src, z) \subseteq InMem(k, z))
      <3>1. "hash" \in InMem(merge.src, z) /\ "hash" \notin InMem(k, z)
        BY <1>0, <1>6 DEF InMem, Facts
      <3> QED
        BY <3>1
    <2>5. <<HistAt(conf[x].hist, z), z, "data">> \in LeftBehind(k, z)
      BY <1>0, <2>3, <2>4 DEF LeftBehind
    <2> QED
      BY <1>1, <1>2, <1>5, <2>5 DEF Lost
  <1>7. LeftQueued' /\ LeftTx' /\ LeftLoaded'
    <2>1. \A c \in live, s \in Seqs : Own(c, s)' =>
            Own(c, s) /\ (<<c, s, "data">> \in mem => <<c, s, "data">> \in mem')
      BY <1>1, <1>5
    <2>2. \A c \in live, s \in Seqs :
            <<c, s>> \in qdecl' /\ Own(c, s)' /\ <<c, s, "data">> \in decls
              => <<c, s>> \in qdecl \/ <<c, s, "data">> \in mem' \/ Lost(c, s)'
      BY <1>1, <1>6
    <2>3. \A c \in live, s \in Seqs :
            loaded[c, s]' = "yes" /\ Own(c, s)' /\ <<c, s, "data">> \in decls
              => loaded[c, s] = "yes" \/ <<c, s, "data">> \in mem'
      BY <1>1
    <2>4. live' \subseteq live \cup {nextc} /\ UNCHANGED <<dbq, tx, decls>>
      BY <1>1
    <2> QED
      BY <1>1, <1>4, <2>1, <2>2, <2>3, <2>4, LeftStable
  <1>8. KnownKept
    <2>1. \A c \in live, s \in Seqs : Own(c, s) => Keeps(c, s)'
      BY <1>5 DEF Own
    <2>2. live \subseteq live' /\ UNCHANGED decls
      BY <1>1
    <2>3. \A c \in live, s \in Seqs, f \in Facts :
            loaded[c, s]' = "yes" /\ <<c, s, f>> \in decls
              => loaded[c, s] = "yes" \/ <<c, s, f>> \in mem'
      BY <1>1
    <2> QED
      BY <1>1, <2>1, <2>2, <2>3, KnownGrows
  <1>9. CopiedWithin' /\ LeftCopied'
    <2>1. ASSUME NEW s \in Seqs, NEW f \in Facts, InSome(<<x, s, f>>)'
          PROVE  InSome(<<x, s, f>>)
      <3>1. x \in Cfid /\ f \in Facts \cup Frames
        BY <1>1
      <3>2. <<x, s, f>> \in mem' => <<x, s, f>> \in mem
        BY <1>1, <3>1
      <3> QED
        BY <1>1, <2>1, <3>2 DEF InSome, InTx
    <2>2. \A d \in live, s \in Seqs, f \in Facts :
            merge.on /\ d = merge.src /\ InSome(<<d, s, f>>)' => InSome(<<d, s, f>>)
      BY <1>0, <2>1
    <2> QED
      BY <1>1, <1>4, <1>8, <2>2, CopiedStable DEF LeftInv
  <1> QED
    BY <1>4, <1>7, <1>8, <1>9 DEF LeftInv

\* Where declarations are kept depends on the forks alone.
LEMMA ToCSame ==
  ASSUME NEW a, NEW b, Forest(a), Forest(b), DOMAIN a = DOMAIN b,
         \A c \in DOMAIN a : a[c].pseq = b[c].pseq /\ a[c].parent = b[c].parent,
         NEW s \in Seqs, NEW c0 \in DOMAIN a
  PROVE  ToC(a, c0, s) = ToC(b, c0, s)
  <1> DEFINE Bad == {d \in DOMAIN a : ToC(a, d, s) # ToC(b, d, s)}
  <1>1. SUFFICES ASSUME Bad # {} PROVE FALSE
    BY <1>1
  <1>2. PICK n \in Bad : \A m \in Bad : n <= m
    <2> HIDE DEF Bad
    <2>1. Bad \subseteq Nat
      BY ForestType DEF Bad
    <2> QED
      BY <1>1, <2>1, LeastNat
  <1>3. n \in DOMAIN a /\ n \in DOMAIN b /\ ToC(a, n, s) # ToC(b, n, s) /\ n \in Nat
    BY ForestType
  <1>4. /\ ToC(a, n, s) = IF s <= a[n].pseq THEN ToC(a, a[n].parent, s) ELSE n
        /\ ToC(b, n, s) = IF s <= b[n].pseq THEN ToC(b, b[n].parent, s) ELSE n
    BY <1>3, ToCUnfold
  <1>5. a[n].pseq \in Int /\ s \in Int /\ s >= 0 /\ a[n].parent \in DOMAIN a
    BY <1>3, ForestType, SeqType
  <1>6. s <= a[n].pseq /\ ToC(a, a[n].parent, s) # ToC(b, a[n].parent, s)
    BY <1>3, <1>4
  <1>7. n # 0 /\ a[n].parent < n /\ a[n].parent \in Nat
    BY <1>3, <1>5, <1>6, ForestType
  <1>8. a[n].parent \in Bad
    BY <1>5, <1>6
  <1> QED
    BY <1>2, <1>3, <1>7, <1>8

\* The end of a merge takes with the source what it has copied, no more.
LEMMA EndMergeKept ==
  ASSUME BaseInv, DataInv, OneLine, EndMerge
  PROVE  /\ KnownKept
         /\ \A c \in live', s \in Seqs, f \in Facts : f \in Known(c, s) => f \in Known(c, s)'
  <1>1. /\ alive /\ merge.on /\ merge.seq > LastCopied /\ UNCHANGED <<loaded, decls>>
        /\ \/ UNCHANGED conf
           \/ FullMerge /\ conf' = Heirs(TopAfterMerge)
           \/ FullMerge /\ conf' = TopAfterMerge
    BY DEF EndMerge, dbVars
  <1>2. /\ live' \subseteq live
        /\ \A c \in live' : conf'[c].pseq = conf[c].pseq /\ \A m \in mem : m[1] = c => m \in mem'
    BY EndMergeConf
  <1>3. PICK x, y, T : x = merge.src /\ y = merge.dst /\ T = TopAfterMerge
    OBVIOUS
  <1>4. ASSUME NEW c \in live, NEW s \in Seqs, NEW f \in Facts, c \in live', f \in Known(c, s)
        PROVE  f \in Known(c, s)'
    <2>1. CASE <<c, s, f>> \in mem
      <3>1. PICK m : m = <<c, s, f>>
        OBVIOUS
      <3>2. m[1] = c /\ m \in mem
        BY <2>1, <3>1
      <3>3. <<c, s, f>> \in mem'
        BY <1>2, <1>4, <3>1, <3>2
      <3> QED
        BY <3>3 DEF Known, InMem
    <2>2. CASE <<c, s, f>> \notin mem
      <3>1. loaded[c, s] # "yes" /\ <<c, s, f>> \in decls
        BY <1>4, <2>2 DEF Known, InMem, Stored
      <3> QED
        BY <1>1, <3>1 DEF Known, InMem, Stored
    <2> QED
      BY <2>1, <2>2
  <1>5. ASSUME NEW c \in live, NEW s \in Seqs, NEW f \in Facts, Own(c, s), f \in Known(c, s)
        PROVE  c \in live'
    <2> SUFFICES ASSUME c \notin live' PROVE FALSE
      OBVIOUS
    <2>1. FullMerge /\ c = x
      <3>1. FullMerge => x \in live /\ DOMAIN T = live
        BY <1>1, <1>3, TopAfterLine
      <3> QED
        BY <1>1, <1>3, <1>5, <3>1 DEF Heirs
    <2>2. LastCopied = conf[x].top /\ x # y
      BY <1>1, <1>3, <2>1, MergeOn DEF LastCopied
    <2>3. s >= merge.seq
      <3>1. ~(s < merge.seq)
        BY <1>1, <1>3, <1>5, <2>1 DEF Own, Copied, Merging
      <3>2. merge.seq \in Int /\ s \in Int
        BY <1>1, MergeOn, SeqType
      <3> QED
        BY <3>1, <3>2
    <2>4. Within(c, s)
      <3>1. CASE <<c, s, f>> \in mem
        <4>1. PICK m : m = <<c, s, f>>
          OBVIOUS
        <4> QED
          BY <3>1, <4>1 DEF OneLine, MemBelow
      <3>2. CASE <<c, s, f>> \notin mem
        <4>1. <<c, s, f>> \in decls
          BY <1>5, <3>2 DEF Known, InMem, Stored
        <4> QED
          BY <1>1, <4>1, StoredWithin
      <3> QED
        BY <3>1, <3>2
    <2>5. s <= conf[x].top
      BY <1>3, <2>1, <2>2, <2>4 DEF Within
    <2>6. merge.seq \in Int /\ s \in Int /\ conf[x].top \in Int
      BY <1>1, <1>3, <1>5, <2>1, MergeOn, SeqType, BaseTypes, ConfTops
    <2> QED
      BY <1>1, <2>2, <2>3, <2>5, <2>6
  <1>6. KnownKept
    <2>1. ASSUME NEW c \in live, NEW s \in Seqs, NEW f \in Facts, Own(c, s), f \in Known(c, s)
          PROVE  c \in live' /\ Keeps(c, s)' /\ f \in Known(c, s)'
      <3>1. c \in live' /\ f \in Known(c, s)'
        BY <1>4, <1>5, <2>1
      <3>2. Keeps(c, s)'
        BY <1>2, <2>1, <3>1 DEF Own, Keeps
      <3> QED
        BY <3>1, <3>2
    <2> QED
      BY <2>1 DEF KnownKept
  <1> QED
    BY <1>2, <1>4, <1>6

\* A put that fails in merge_single leaves what it has copied.
LEMMA StuckMoved ==
  ASSUME BaseInv, DataInv, TopInv, ConfTree, OneLine, LeftInv, EndMerge, FullMerge,
         conf' = TopAfterMerge, UNCHANGED <<merge, mem>>
  PROVE  CopiedWithin' /\ LeftCopied'
  <1>1. merge.on /\ UNCHANGED <<dropped, decls, tx>>
    BY DEF EndMerge, updaterVars, dbVars
  <1>2. PICK x, y, T : x = merge.src /\ y = merge.dst /\ T = TopAfterMerge
    OBVIOUS
  <1>3. /\ x \in live /\ y \in live /\ x # y /\ DOMAIN T = live
        /\ \A c \in live : /\ T[c].pseq = conf[c].pseq /\ T[c].parent = conf[c].parent
                           /\ Grows(conf[c], T[c])
                           /\ T[c].top \in Int /\ conf[c].top \in Int
    BY <1>1, <1>2, TopAfterLine
  <1>4. Forest(T) /\ Forest(conf) /\ T[x] = conf[x]
    BY <1>1, <1>2, <1>3, TopAfterForest, BaseTypes
  <1>5. conf' = T /\ live' = live
    BY <1>2, <1>3
  <1>6. \A s : HasMoved(s)' <=> HasMoved(s)
    BY <1>2, <1>4, <1>5 DEF HasMoved
  <1>7. \A s \in Seqs : Within(y, s) => Within(y, s)' /\ HistOn(y, s)' = HistOn(y, s)
    <2> TAKE s \in Seqs
    <2>1. Within(y, s) => HistOn(y, s)' = HistOn(y, s)
      BY <1>3, <1>5, EndMergeHist DEF SameHist
    <2>2. conf[y].top <= T[y].top /\ s \in Int
      BY <1>3, SeqType DEF Grows
    <2>3. s <= conf[y].top => s <= T[y].top
      BY <1>3, <2>2
    <2>4. Within(y, s) => Within(y, s)'
      BY <1>2, <1>4, <1>5, <2>3 DEF Within
    <2> QED
      BY <2>1, <2>4
  <1>8. CopiedWithin'
    <2> SUFFICES ASSUME NEW s \in Seqs, NEW g \in History, HasMoved(s), g = conf[x].hist
                 PROVE  Within(y, s)' /\ HistOn(y, s)' = HistAt(g, s)
      BY <1>2, <1>4, <1>5, <1>6 DEF CopiedWithin
    <2>1. Within(y, s) /\ HistOn(y, s) = HistAt(g, s)
      BY <1>2, <1>3 DEF LeftInv, CopiedWithin
    <2> QED
      BY <1>7, <2>1
  <1>9. LeftCopied'
    <2> SUFFICES ASSUME NEW s \in Seqs, NEW f \in Facts, NEW d \in live, NEW cf, NEW g \in History,
                        HasMoved(s), InSome(<<x, s, f>>)', cf = T, d = ToC(cf, y, s),
                        g = conf[x].hist
                 PROVE  f \in Known(d, s)' \/ <<HistAt(g, s), s, f>> \in dropped
      BY <1>1, <1>2, <1>4, <1>5, <1>6 DEF LeftCopied
    <2>1. d = ToC(conf, y, s)
      BY <1>3, <1>4, ToCSame
    <2>2. InSome(<<x, s, f>>)
      BY <1>1 DEF InSome, InTx
    <2>3. f \in Known(d, s) \/ <<HistAt(g, s), s, f>> \in dropped
      BY <1>2, <2>1, <2>2, MovedTo DEF LeftInv
    <2>4. f \in Known(d, s) => f \in Known(d, s)'
      BY <1>5, EndMergeKept
    <2> QED
      BY <2>3, <2>4
  <1> QED
    BY <1>8, <1>9

LEMMA EndMergeLeft ==
  ASSUME BaseInv, DataInv, TopInv, ConfTree, OneLine, LeftInv, EndMerge
  PROVE  LeftInv' /\ KnownKept /\ SameHist
  <1>1. /\ alive /\ UNCHANGED <<qdecl, dbq, tx, decls, loaded, dropped>>
        /\ \/ merge' = NoMerge
           \/ FullMerge /\ conf' = TopAfterMerge /\ UNCHANGED <<merge, mem>>
    BY DEF EndMerge, updaterVars, dbVars
  <1>2. /\ live' \subseteq live
        /\ \A c \in live' : \A m \in mem : m[1] = c => m \in mem'
    BY EndMergeConf
  <1>3. SameHist
    BY EndMergeHist
  <1>4. LeftQueued' /\ LeftTx' /\ LeftLoaded'
    <2>1. ASSUME NEW c \in live, NEW s \in Seqs, Own(c, s)'
          PROVE  Own(c, s) /\ (<<c, s, "data">> \in mem => <<c, s, "data">> \in mem')
      <3>1. c \in live' /\ c \in Cfid
        BY <2>1, BaseTypes DEF Own, Keeps
      <3>2. Own(c, s)
        BY <2>1, <3>1, EndMergeOwn
      <3>3. PICK m : m = <<c, s, "data">>
        OBVIOUS
      <3>4. m[1] = c
        BY <3>3
      <3>5. m \in mem => m \in mem'
        BY <1>2, <3>1, <3>4
      <3> QED
        BY <3>2, <3>3, <3>5
    <2>2. live' \subseteq live \cup {nextc} /\ dropped \subseteq dropped'
      BY <1>1, <1>2
    <2> QED
      BY <1>1, <1>3, <2>1, <2>2, LeftStable
  <1>5. CopiedWithin' /\ LeftCopied'
    <2>1. CASE merge' = NoMerge
      <3>1. \A s \in Seqs : ~HasMoved(s)'
        BY <2>1 DEF HasMoved, NoMerge
      <3> QED
        BY <3>1, NotMoved
    <2>2. CASE FullMerge /\ conf' = TopAfterMerge /\ UNCHANGED <<merge, mem>>
      BY <2>2, StuckMoved
    <2> QED
      BY <1>1, <2>1, <2>2
  <1> QED
    BY <1>3, <1>4, <1>5, EndMergeKept DEF LeftInv

-----------------------------------------------------------------------------
(* The seventh invariant holds, and every step keeps what is known.         *)

\* An exit, or a restart, leaves nothing under way.
Blank ==
  /\ merge = NoMerge /\ qdecl = {} /\ dbq = <<>> /\ tx = NoTx
  /\ \A c \in Cfid, s \in Seqs : loaded[c, s] = "no"

LEMMA BlankLeft == Blank => LeftInv
  <1> SUFFICES ASSUME Blank PROVE LeftInv
    OBVIOUS
  <1>1. tx.stage = "idle" /\ merge.on = FALSE
    BY DEF Blank, NoTx, NoMerge
  <1>2. DOMAIN dbq = {}
    <2>1. DOMAIN <<>> = {}
      OBVIOUS
    <2> QED
      BY <2>1 DEF Blank
  <1>3. LeftQueued /\ LeftTx /\ LeftLoaded
    BY <1>1, <1>2 DEF Blank, LeftQueued, LeftTx, LeftLoaded, Queued
  <1>4. CopiedWithin /\ LeftCopied
    BY <1>1 DEF CopiedWithin, LeftCopied, HasMoved
  <1> QED
    BY <1>3, <1>4 DEF LeftInv

LEMMA BlankNext == Blank' => LeftInv'
  BY BlankLeft, PTL

LEMMA BlankMemory ==
  ASSUME NEW cf, EmptyMemory(cf)
  PROVE  LeftInv'
  <1>1. /\ merge' = NoMerge /\ qdecl' = {} /\ dbq' = <<>> /\ tx' = NoTx
        /\ loaded' = [p \in Cfid \X Seqs |-> "no"]
    BY DEF EmptyMemory
  <1>2. \A c \in Cfid, s \in Seqs : loaded[c, s]' = "no"
    <2> TAKE c \in Cfid, s \in Seqs
    <2>1. loaded'[<<c, s>>] = "no"
      BY <1>1
    <2> QED
      BY <2>1
  <1> QED
    BY <1>1, <1>2, BlankNext DEF Blank

LEMMA InitLeft == Init => LeftInv
  <1> SUFFICES ASSUME Init PROVE LeftInv
    OBVIOUS
  <1>1. /\ merge = NoMerge /\ qdecl = {} /\ dbq = <<>> /\ tx = NoTx
        /\ loaded = [p \in Cfid \X Seqs |-> "no"]
    BY DEF Init
  <1>2. \A c \in Cfid, s \in Seqs : loaded[c, s] = "no"
    <2> TAKE c \in Cfid, s \in Seqs
    <2>1. loaded[<<c, s>>] = "no"
      BY <1>1
    <2> QED
      BY <2>1
  <1> QED
    BY <1>1, <1>2, BlankLeft DEF Blank

\* What a step of a process that lives on does to what is known.
LEMMA LivesLeft ==
  ASSUME BaseInv, BaseInv', DataInv, TopInv, ConfTree, OneLine, LeftInv, Lives
  PROVE  /\ LeftInv' /\ SameHist /\ dropped \subseteq dropped'
         /\ KnownKept \/ CopyDecl
  <1>1. CASE Lock \/ Load \/ UNCHANGED vars
    <2>1. UNCHANGED dropped
      BY <1>1 DEF Lock, Load, BeginLoad, vars
    <2> QED
      BY <1>1, <2>1, LockLeft
  <1>2. CASE Unlock
    <2>1. UNCHANGED dropped
      BY <1>2 DEF Unlock
    <2> QED
      BY <1>2, <2>1, UnlockLeft
  <1>10. CASE PutFails \/ TypeStuck
    <2>1. PutStops /\ UNCHANGED dropped
      BY <1>10, PutStopping DEF PutStops
    <2> QED
      BY <2>1, PutStopsLeft
  <1>3. CASE Update
    <2>1. ASSUME NEW c \in live, NEW s \in Seqs, NEW h \in History, SetHash(c, s, h)
          PROVE  LeftInv' /\ SameHist /\ dropped \subseteq dropped' /\ KnownKept
      <3>1. UNCHANGED dropped
        BY <2>1 DEF SetHash
      <3> QED
        BY <2>1, <3>1, SetHashLeft
    <2>2. ASSUME NEW c \in live, NEW s \in Seqs, SetData(c, s)
          PROVE  LeftInv' /\ SameHist /\ dropped \subseteq dropped' /\ KnownKept
      <3>1. UNCHANGED dropped
        BY <2>2 DEF SetData
      <3> QED
        BY <2>2, <3>1, SetDataLeft
    <2>3. ASSUME NEW c \in live, NEW p \in Seqs, NEW s \in Seqs, NEW h \in History,
                 Fork(c, p, s, h)
          PROVE  LeftInv' /\ SameHist /\ dropped \subseteq dropped' /\ KnownKept
      <3>1. UNCHANGED dropped
        BY <2>3 DEF Fork
      <3> QED
        BY <2>3, <3>1, ForkLeft
    <2>4. ASSUME NEW i1 \in live, NEW i2 \in live, NEW s \in Seqs, BeginMerge(i1, i2, s)
          PROVE  LeftInv' /\ SameHist /\ dropped \subseteq dropped' /\ KnownKept
      <3>1. UNCHANGED dropped
        BY <2>4 DEF BeginMerge
      <3> QED
        BY <2>4, <3>1, BeginMergeLeft
    <2> QED
      BY <1>3, <1>10, <2>1, <2>2, <2>3, <2>4 DEF Update
  <1>4. CASE CopyDecl
    BY <1>4, CopyDeclLeft
  <1>5. CASE EndMerge
    <2>1. UNCHANGED dropped
      BY <1>5 DEF EndMerge
    <2> QED
      BY <1>5, <2>1, EndMergeLeft
  <1>6. CASE Loaded
    <2>1. PICK c \in Cfid, s \in Seqs : EndLoad(c, s)
      BY <1>6 DEF Loaded
    <2>2. alive' /\ UNCHANGED dropped
      BY <2>1 DEF Lives, EndLoad, Exit
    <2> QED
      BY <2>1, <2>2, EndLoadLeft
  <1>7. CASE TxBegin \/ TxBlob \/ TxEnd
    <2>1. UNCHANGED dropped
      BY <1>7 DEF TxBegin, TxBlob, TxEnd
    <2> QED
      BY <1>7, <2>1, TxIdleLeft
  <1>8. CASE TxRead
    <2>1. UNCHANGED dropped
      BY <1>8 DEF TxRead
    <2> QED
      BY <1>8, <2>1, TxReadLeft
  <1>9. CASE TxCommit
    <2>1. UNCHANGED dropped
      BY <1>9 DEF TxCommit
    <2> QED
      BY <1>9, <2>1, TxCommitLeft
  <1>11. CASE CopyStuck
    BY <1>11, CopyStuckLeft
  <1> QED
    BY <1>1, <1>2, <1>3, <1>4, <1>5, <1>6, <1>7, <1>8, <1>9, <1>10, <1>11
    DEF Lives, Working, MergeStep, Updater

LEMMA NextLeft ==
  ASSUME BaseInv, BaseInv', DataInv, TopInv, FamilyInv, LeftInv, [Next]_<<vars, bound>>
  PROVE  LeftInv'
  <1>1. CASE Exit
    BY <1>1, BlankMemory DEF Exit
  <1>2. CASE Restart
    <2>1. PICK cf : EmptyMemory(cf)
      BY <1>2 DEF Restart
    <2> QED
      BY <2>1, BlankMemory
  <1>3. CASE UNCHANGED <<alive, crashes>> /\ Working
    <2>1. CASE alive
      BY <1>3, <2>1, LivesLeft DEF Lives, FamilyInv
    <2>2. CASE ~alive
      <3>1. UNCHANGED vars
        BY <1>3, <2>2, NotAlive
      <3> QED
        BY <3>1, LockLeft DEF FamilyInv
    <2> QED
      BY <2>1, <2>2
  <1> QED
    BY <1>1, <1>2, <1>3, StepKinds

\* A row is only ever rewritten without the frames stored in it if a merge has
\* noted that it dropped them, and what a merge copied the destination has
\* (Decl.copy, Data.copy and decl.load).
THEOREM LeftHolds == Spec => [](BaseInv /\ DataInv /\ TopInv /\ FamilyInv /\ LeftInv)
  <1>1. BaseInv /\ BaseInv' /\ DataInv /\ TopInv /\ FamilyInv /\ LeftInv
          /\ [Next]_<<vars, bound>> => LeftInv'
    BY NextLeft
  <1> QED
    BY <1>1, InitLeft, FamilyHolds, PTL DEF Spec

\* What is known, conflict by conflict that keeps it.
Witness(x) ==
  \E k \in live, s \in Seqs, f \in Facts :
    Keeps(k, s) /\ f \in Known(k, s) /\ x = <<HistOn(k, s), s, f>>
KnownRight == \A x : x \in WhatIsKnown <=> Witness(x)

LEMMA KnowledgeWithin ==
  ASSUME BaseInv, OneLine, alive, NEW c \in live, NEW s \in Seqs, NEW f \in Facts,
         f \in Known(c, s)
  PROVE  Within(c, s) /\ InSome(<<c, s, f>>)
  <1>1. CASE <<c, s, f>> \in mem
    <2>1. PICK m : m = <<c, s, f>>
      OBVIOUS
    <2> QED
      BY <1>1, <2>1 DEF OneLine, MemBelow, InSome
  <1>2. CASE <<c, s, f>> \notin mem
    <2>1. <<c, s, f>> \in decls
      BY <1>2 DEF Known, InMem, Stored
    <2> QED
      BY <2>1, StoredWithin DEF InSome
  <1> QED
    BY <1>1, <1>2

LEMMA KnownIs ==
  BaseInv /\ TopInv /\ FamilyInv /\ alive => KnownRight
  <1> SUFFICES ASSUME BaseInv, TopInv, FamilyInv, alive, NEW x
               PROVE  x \in WhatIsKnown <=> Witness(x)
    BY DEF KnownRight
  <1> DEFINE seqsOf(c) == (0 .. conf[c].top)
                            \cup IF merge.on /\ c = merge.dst
                                 THEN 0 .. merge.seq - 1 ELSE {}
             histOf(c, s) == IF s <= conf[c].top THEN HistAt(conf[c].hist, s)
                                                 ELSE HistAt(conf[merge.src].hist, s)
  <1>1. x \in WhatIsKnown <=>
          \E p \in {q \in live \X Seqs : q[2] \in seqsOf(q[1])} :
            \E f \in Facts \cap Known(ToC(conf, p[1], p[2]), p[2]) :
              x = <<histOf(p[1], p[2]), p[2], f>>
    BY DEF WhatIsKnown
  <1>2. /\ ConfTree /\ OneLine /\ Forest(conf)
        /\ \A c \in live : conf[c].top \in Int
        /\ merge.on => merge.seq \in Int
    BY BaseTypes, ConfTops, MergeOn DEF FamilyInv
  <1>3. ASSUME NEW c \in live, NEW s \in Seqs, s \in seqsOf(c)
        PROVE  histOf(c, s) = HistOn(c, s)
    <2>1. s \in Int
      BY SeqType
    <2>2. s <= conf[c].top \/ (merge.on /\ c = merge.dst)
      BY <1>2, <1>3, <2>1
    <2> QED
      BY <1>2, <2>1, <2>2 DEF HistOn
  <1>4. ASSUME NEW c \in live, NEW s \in Seqs, Within(c, s)
        PROVE  s \in seqsOf(c)
    <2>1. s \in Int /\ s >= 0
      BY SeqType
    <2> QED
      BY <1>2, <1>4, <2>1 DEF Within
  <1> HIDE DEF seqsOf, histOf
  <1>5. x \in WhatIsKnown => Witness(x)
    <2> SUFFICES ASSUME x \in WhatIsKnown PROVE Witness(x)
      OBVIOUS
    <2>1. PICK p \in {q \in live \X Seqs : q[2] \in seqsOf(q[1])} :
            \E f \in Facts \cap Known(ToC(conf, p[1], p[2]), p[2]) :
              x = <<histOf(p[1], p[2]), p[2], f>>
      BY <1>1
    <2>2. PICK c \in live, s \in Seqs : c = p[1] /\ s = p[2] /\ s \in seqsOf(c)
      BY <2>1
    <2>3. PICK k : k = ToC(conf, c, s)
      OBVIOUS
    <2>4. PICK f \in Facts : f \in Known(k, s) /\ x = <<histOf(c, s), s, f>>
      BY <2>1, <2>2, <2>3
    <2>5. k \in live /\ Keeps(k, s) /\ HistOn(k, s) = HistOn(c, s)
      BY <1>2, <2>3, KeeperHist
    <2> QED
      BY <1>3, <2>2, <2>4, <2>5 DEF Witness
  <1>6. Witness(x) => x \in WhatIsKnown
    <2> SUFFICES ASSUME NEW k \in live, NEW s \in Seqs, NEW f \in Facts, Keeps(k, s),
                        f \in Known(k, s), x = <<HistOn(k, s), s, f>>
                 PROVE  x \in WhatIsKnown
      BY DEF Witness
    <2>1. s \in seqsOf(k)
      BY <1>2, <1>4, KnowledgeWithin
    <2>2. ToC(conf, k, s) = k
      BY <1>2, ToCSelf DEF Keeps
    <2>3. histOf(k, s) = HistOn(k, s)
      BY <1>3, <2>1
    <2>4. PICK p : p = <<k, s>>
      OBVIOUS
    <2>5. p[1] = k /\ p[2] = s /\ p \in {q \in live \X Seqs : q[2] \in seqsOf(q[1])}
      BY <2>1, <2>4
    <2>6. f \in Facts \cap Known(ToC(conf, p[1], p[2]), p[2])
          /\ x = <<histOf(p[1], p[2]), p[2], f>>
      BY <2>2, <2>3, <2>5
    <2> QED
      BY <1>1, <2>5, <2>6
  <1> QED
    BY <1>5, <1>6

LEMMA KnownIsNext == (BaseInv /\ TopInv /\ FamilyInv /\ alive)' => KnownRight'
  BY KnownIs, PTL

\* What a conflict keeps as its own it goes on knowing, or it was dropped.
LEMMA OwnStep ==
  ASSUME BaseInv, BaseInv', DataInv, TopInv, ConfTree, OneLine, LeftInv, Lives,
         NEW c \in live, NEW s \in Seqs, NEW f \in Facts, Own(c, s), f \in Known(c, s),
         NEW x, x = <<HistOn(c, s), s, f>>
  PROVE  Witness(x)' \/ x \in dropped'
  <1>1. /\ SameHist /\ dropped \subseteq dropped' /\ Within(c, s) /\ InSome(<<c, s, f>>)
        /\ KnownKept \/ CopyDecl
    BY LivesLeft, KnowledgeWithin DEF Lives
  <1>2. ASSUME c \in live', Keeps(c, s)', f \in Known(c, s)'
        PROVE  Witness(x)'
    <2>1. HistOn(c, s)' = HistOn(c, s)
      BY <1>1, <1>2 DEF SameHist
    <2> QED
      BY <1>2, <2>1 DEF Witness
  <1>3. CASE KnownKept
    <2>1. f = "data" /\ Lost(c, s) => x \in dropped'
      BY <1>1 DEF Lost
    <2> QED
      BY <1>2, <1>3, <2>1 DEF KnownKept
  <1>4. CASE CopyDecl
    <2>1. CASE c = merge.src /\ s = merge.seq
      <3>1. PICK y, k : y = merge.dst /\ k = ToC(conf, y, s)
        OBVIOUS
      <3>2. Copying(c, y, s, k)
        BY <2>1, <3>1 DEF Copying
      <3>3. /\ k \in live /\ live' = live /\ Own(k, s) /\ c # k /\ s <= LastCopied
            /\ \A e \in live : e # c => conf'[e] = conf[e]
            /\ \A e \in live : \A t : HistOn(e, t)' = HistOn(e, t)
            /\ c # y /\ y \in live
        BY <1>4, <3>2, CopyPlaces
      <3>4. HistOn(k, s)' = HistAt(conf[c].hist, s)
        BY <1>4, <3>2, <3>3, CopyOneHist
      <3>5. HistOn(c, s) = HistAt(conf[c].hist, s)
        BY <2>1, <3>1, <3>3 DEF HistOn
      <3>6. f \in Known(k, s)' \/ <<HistAt(conf[c].hist, s), s, f>> \in dropped'
        BY <1>1, <1>4, <3>2, CopyNew
      <3>7. Keeps(k, s)'
        BY <3>3 DEF Own, Keeps
      <3> QED
        BY <3>3, <3>4, <3>5, <3>6, <3>7 DEF Witness
    <2>2. CASE ~(c = merge.src /\ s = merge.seq)
      BY <1>2, <1>4, <2>2, CopyDeclLeft
    <2> QED
      BY <2>1, <2>2
  <1> QED
    BY <1>1, <1>3, <1>4

LEMMA KnownStep ==
  ASSUME BaseInv, BaseInv', DataInv, TopInv, ConfTree, OneLine, LeftInv, Lives,
         NEW x, Witness(x)
  PROVE  Witness(x)' \/ x \in dropped'
  <1>1. PICK c \in live, s \in Seqs, f \in Facts :
          Keeps(c, s) /\ f \in Known(c, s) /\ x = <<HistOn(c, s), s, f>>
    BY DEF Witness
  <1>2. CASE Own(c, s)
    BY <1>1, <1>2, OwnStep
  <1>3. CASE ~Own(c, s)
    <2>1. PICK y, d, g : y = merge.dst /\ d = ToC(conf, y, s) /\ g = conf[c].hist
      OBVIOUS
    <2>2. merge.on /\ c = merge.src /\ s < merge.seq
      BY <1>1, <1>3 DEF Own, Copied, Merging
    <2>3. HasMoved(s)
      <3>1. s \in Int /\ conf[c].pseq \in Int /\ s > conf[c].pseq
        BY <1>1, SeqType, BaseTypes, ConfTops DEF Keeps
      <3> QED
        BY <2>2, <3>1 DEF HasMoved
    <2>4. InSome(<<c, s, f>>)
      BY <1>1, KnowledgeWithin DEF Lives
    <2>5. /\ d \in live /\ Own(d, s) /\ HistOn(d, s) = HistAt(g, s)
          /\ f \in Known(d, s) \/ <<HistAt(g, s), s, f>> \in dropped
      BY <2>1, <2>2, <2>3, <2>4, MovedTo DEF LeftInv
    <2>6. HistOn(c, s) = HistAt(g, s)
      <3>1. c # y
        BY <2>1, <2>2, MergeOn
      <3> QED
        BY <2>1, <3>1 DEF HistOn
    <2>7. dropped \subseteq dropped'
      BY LivesLeft
    <2> QED
      BY <1>1, <2>5, <2>6, <2>7, OwnStep
  <1> QED
    BY <1>2, <1>3

\* Through any updates, loads, forks and merges the scroll forgets nothing that
\* it ever knew or stored, but for what Decl.copy and Data.copy left behind.
THEOREM NothingIsForgotten == Spec => NothingForgotten
  <1>1. BaseInv /\ BaseInv' /\ DataInv /\ TopInv /\ TopInv' /\ FamilyInv /\ FamilyInv'
          /\ LeftInv /\ [Next]_<<vars, bound>>
          => (alive /\ alive' => WhatIsKnown \subseteq WhatIsKnown' \cup dropped')
    <2> SUFFICES ASSUME BaseInv, BaseInv', DataInv, TopInv, TopInv', FamilyInv, FamilyInv',
                        LeftInv, [Next]_<<vars, bound>>, alive, alive', NEW x \in WhatIsKnown
                 PROVE  x \in WhatIsKnown' \cup dropped'
      OBVIOUS
    <2>1. Lives
      BY StepKinds DEF Lives, Exit, Restart
    <2>2. KnownRight /\ KnownRight'
      BY KnownIs, KnownIsNext
    <2>3. Witness(x)
      BY <2>2 DEF KnownRight
    <2>4. Witness(x)' \/ x \in dropped'
      BY <2>1, <2>3, KnownStep DEF FamilyInv
    <2> QED
      BY <2>2, <2>4 DEF KnownRight
  <1> QED
    BY <1>1, LeftHolds, PTL DEF NothingForgotten, Spec
=============================================================================
