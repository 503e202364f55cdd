------------------------ MODULE ScrollStorageProofs ------------------------
(***************************************************************************)
(* Proofs about ScrollStorage, for every number of declarations, conflicts *)
(* and updates, and every interleaving of updates, merges, loads, writes,  *)
(* exits and restarts.                                                     *)
(***************************************************************************)
EXTENDS ScrollStorage, WellFoundedInduction, TLAPS

USE DEF live

-----------------------------------------------------------------------------
(* The inductive invariant.                                                *)

ConfSet == UNION {[S -> Conflict] : S \in SUBSET Cfid}

\* Conflicts that grow from their parents, as scroll.conflict and its rows.
Forest(cf) ==
  /\ cf \in ConfSet /\ 0 \in DOMAIN cf
  /\ \A c \in DOMAIN cf : cf[c].parent \in DOMAIN cf /\ (c # 0 => cf[c].parent < c)
  /\ cf[0].parent = 0 /\ cf[0].pseq = -1

\* What a scroll that begins to be stored has: the rows of a scroll, or none.
Loadable(cf) == \/ cf \in ConfSet /\ DOMAIN cf = {}
                \/ Forest(cf) /\ cf[0].top # -1

DbUpdate == [cf : ConfSet, rm : SUBSET Cfid, decl : SUBSET (Cfid \X Seqs)]

Tx == [stage : {"read", "blobs"}, todo : SUBSET (Cfid \X Seqs),
       done : SUBSET (Cfid \X Seqs), facts : SUBSET (Cfid \X Seqs \X Facts),
       blob : SUBSET ((History \X Seqs) \X Cfid)]

Merge == [on : {TRUE}, dst : Cfid, src : Cfid, cseq : Seqs, seq : Nat]

MemTypes ==
  /\ bound \in Bounds
  /\ Forest(conf)
  /\ nextc \in 1 .. MaxCfid + 1
  /\ mem \subseteq Cfid \X Seqs \X (Facts \cup Frames)
  /\ hold \in {"free", "put", "load", "stuck"}
  /\ hload \in Cfid \X Seqs
  /\ saved \in ConfSet /\ DOMAIN saved \subseteq live
  /\ loaded \in [Cfid \X Seqs -> {"no", "busy", "yes"}]
  /\ qdecl \subseteq Cfid \X Seqs /\ qrm \subseteq Cfid
  /\ dropped \subseteq History \X Seqs \X Facts

DbTypes ==
  /\ dbq \in Seq(DbUpdate)
  /\ tx = NoTx \/ (tx \in Tx /\ dbq # <<>>)
  /\ Loadable(rows)
  /\ decls \subseteq Cfid \X Seqs \X Facts
  /\ blobs \subseteq (History \X Seqs) \X Cfid
  /\ alive \in BOOLEAN /\ asleep \in BOOLEAN
  /\ torn \subseteq Cfid

\* Numbers of conflicts are not used again, and what is removed stays removed.
Fresh ==
  /\ \A c \in live : c < nextc
  /\ \A m \in mem : m[1] \in live
  /\ \A p \in qdecl : p[1] < nextc
  /\ \A c \in qrm : c < nextc /\ c \notin live
  /\ \A i \in DOMAIN dbq :
       /\ \A p \in dbq[i].decl : p[1] < nextc
       /\ \A c \in dbq[i].rm : c < nextc /\ c \notin live

\* The merge in progress has moved its source up to what it has copied.
MergeRight ==
  \/ merge = NoMerge
  \/ /\ merge \in Merge /\ hold \in {"put", "stuck"}
     /\ merge.src \in live /\ merge.dst \in live /\ merge.dst < merge.src
     /\ merge.cseq <= conf[merge.src].top /\ merge.cseq <= conf[merge.dst].top
     /\ conf[merge.src].pseq < merge.seq
     /\ merge.seq > merge.cseq => conf[merge.src].pseq = merge.cseq

\* A scroll without declarations is empty.
EmptyRight ==
  conf[0].top = -1 =>
    /\ live = {0} /\ mem = {} /\ qdecl = {} /\ qrm = {} /\ DOMAIN saved = {}
    /\ \A p \in DOMAIN loaded : loaded[p] # "busy"

\* Outside of a put all that changed is queued.
IdleRight ==
  hold \in {"free", "load"} =>
    /\ merge = NoMerge /\ qdecl = {} /\ qrm = {}
    /\ conf[0].top # -1 => saved = conf

DeadRight ==
  ~alive => /\ conf = NewScroll /\ mem = {} /\ saved = <<>> /\ hold = "free"
            /\ dbq = <<>> /\ tx = NoTx
            /\ \A p \in DOMAIN loaded : loaded[p] = "no"

\* The rows once an update is written.
RowsAfter(e, r) == Over(e.cf, Restrict(r, DOMAIN r \ e.rm))

\* snap[i] are the rows once i of the queued updates are written: each can be
\* loaded, and the last are those of saved and of what end_update will remove.
Snaps(snap) ==
  /\ snap \in [0 .. Len(dbq) -> ConfSet]
  /\ snap[0] = rows
  /\ \A i \in 1 .. Len(dbq) :
       /\ snap[i] = RowsAfter(dbq[i], snap[i - 1])
       /\ \A p \in dbq[i].decl : p[1] \in live => p[1] \in DOMAIN snap[i]
  /\ \A i \in 0 .. Len(dbq) :
       Loadable(snap[i]) /\ \A c \in DOMAIN snap[i] : c < nextc
  /\ qrm \subseteq DOMAIN snap[Len(dbq)]
  /\ saved = Restrict(snap[Len(dbq)], DOMAIN snap[Len(dbq)] \ qrm)

Chain ==
  /\ alive => \E snap : Snaps(snap)
  /\ tx.stage = "blobs" => rows = RowsAfter(Head(dbq), rows)

BaseInv ==
  /\ MemTypes /\ DbTypes /\ Fresh /\ MergeRight /\ EmptyRight /\ IdleRight
  /\ DeadRight /\ Chain

-----------------------------------------------------------------------------
(* to_c.  Conflicts grow from their parents, so climbing to the conflict    *)
(* that keeps a declaration comes to an end.                                *)

LEMMA ConfType ==
  ASSUME NEW cf \in ConfSet
  PROVE  /\ cf = [c \in DOMAIN cf |-> cf[c]]
         /\ DOMAIN cf \subseteq Cfid
         /\ \A c \in DOMAIN cf : cf[c] \in Conflict
  BY DEF ConfSet

LEMMA ForestType ==
  ASSUME NEW cf, Forest(cf)
  PROVE  /\ cf = [c \in DOMAIN cf |-> cf[c]]
         /\ DOMAIN cf \subseteq Cfid /\ DOMAIN cf \subseteq Nat
         /\ 0 \in DOMAIN cf /\ cf[0].parent = 0 /\ cf[0].pseq = -1
         /\ \A c \in DOMAIN cf :
              /\ c \in Nat /\ c <= MaxCfid
              /\ cf[c] \in Conflict
              /\ cf[c].parent \in DOMAIN cf /\ cf[c].parent \in Nat
              /\ c # 0 => cf[c].parent < c
              /\ cf[c].pseq \in Seqs \cup {-1} /\ cf[c].top \in Seqs \cup {-1}
              /\ cf[c].pseq \in Int /\ cf[c].top \in Int
              /\ cf[c].hist \in History
  <1>1. /\ cf = [c \in DOMAIN cf |-> cf[c]]
        /\ DOMAIN cf \subseteq Cfid
        /\ \A c \in DOMAIN cf : cf[c] \in Conflict
    BY ConfType DEF Forest
  <1>2. Cfid \subseteq Nat /\ \A c \in Cfid : c \in Nat /\ c <= MaxCfid
    BY BoundsAssumption DEF Cfid
  <1>3. Seqs \cup {-1} \subseteq Int
    BY BoundsAssumption DEF Seqs
  <1>4. \A c \in DOMAIN cf : cf[c].parent \in DOMAIN cf /\ (c # 0 => cf[c].parent < c)
    BY DEF Forest
  <1>5. ASSUME NEW c \in DOMAIN cf
        PROVE  /\ cf[c].pseq \in Seqs \cup {-1} /\ cf[c].top \in Seqs \cup {-1}
               /\ cf[c].hist \in History
    BY <1>1 DEF Conflict
  <1> QED
    BY <1>1, <1>2, <1>3, <1>4, <1>5 DEF Forest

LEMMA SeqType == \A s \in Seqs : s \in Nat /\ s \in Int /\ s >= 0 /\ s <= MaxSeq
  BY BoundsAssumption DEF Seqs

\* Every set of numbers has a least one.
LEMMA LeastNat ==
  ASSUME NEW T, T \subseteq Nat, T # {}
  PROVE  \E n \in T : \A m \in T : n <= m
  <1> DEFINE R == {ss \in Nat \X Nat : ss[1] < ss[2]}
  <1>1. IsWellFoundedOn(R, Nat)
    BY NatLessThanWellFounded DEF OpToRel
  <1>2. PICK n \in T : \A m \in T : <<m, n>> \notin R
    <2> HIDE DEF R
    <2> QED BY <1>1, WFMin
  <1>3. ASSUME NEW m \in T, m < n PROVE FALSE
    <2>1. <<m, n>> \in Nat \X Nat /\ <<m, n>>[1] = m /\ <<m, n>>[2] = n
      OBVIOUS
    <2> QED BY <2>1, <1>2, <1>3
  <1> QED
    BY <1>3

\* The climb for declaration s, on a part S of the conflicts that has parents.
Climbs(g, S, cf, s) ==
  g = [d \in S |-> IF s <= cf[d].pseq THEN g[cf[d].parent] ELSE d]

LEMMA ClimbExists ==
  ASSUME NEW cf, Forest(cf), NEW s \in Seqs
  PROVE  \E g : Climbs(g, DOMAIN cf, cf, s)
  <1> DEFINE Low(n) == {d \in DOMAIN cf : d <= n}
             Bad == {n \in Nat : ~ \E g : Climbs(g, Low(n), cf, s)}
  <1>1. SUFFICES ASSUME Bad # {} PROVE FALSE
    <2>1. Low(MaxCfid) = DOMAIN cf /\ MaxCfid \in Nat
      BY ForestType, SeqType, BoundsAssumption
    <2> QED
      BY <1>1, <2>1
  <1>2. PICK n \in Bad : \A m \in Bad : n <= m
    <2> HIDE DEF Bad
    <2>1. Bad \subseteq Nat
      BY DEF Bad
    <2> QED
      BY <1>1, <2>1, LeastNat
  <1>3. n \in Nat /\ ~ \E g : Climbs(g, Low(n), cf, s)
    OBVIOUS
  <1>4. CASE n = 0
    <2> DEFINE g == [d \in Low(0) |-> d]
    <2>1. Low(0) = {0}
      BY ForestType, SeqType, BoundsAssumption
    <2>2. ~(s <= cf[0].pseq)
      BY ForestType, SeqType, BoundsAssumption
    <2>3. Climbs(g, Low(0), cf, s)
      BY <2>1, <2>2 DEF Climbs
    <2> QED
      BY <1>3, <1>4, <2>3
  <1>5. CASE n # 0
    <2>1. n - 1 \in Nat /\ n - 1 \notin Bad
      BY <1>2, <1>3, <1>5
    <2>2. PICK g : Climbs(g, Low(n - 1), cf, s)
      BY <2>1
    <2> DEFINE h == [d \in Low(n) |->
                       IF d \in Low(n - 1) THEN g[d]
                       ELSE IF s <= cf[d].pseq THEN g[cf[d].parent] ELSE d]
    <2>3. \A d \in Low(n) : cf[d].parent \in Low(n - 1) \/ ~(s <= cf[d].pseq)
      BY <1>3, <1>5, ForestType, SeqType, BoundsAssumption
    <2>4. \A d \in Low(n - 1) : d \in Low(n)
      BY <1>3, ForestType, SeqType, BoundsAssumption
    <2>5. ASSUME NEW d \in Low(n)
          PROVE  h[d] = IF s <= cf[d].pseq THEN h[cf[d].parent] ELSE d
      BY <2>2, <2>3, <2>4, <2>5 DEF Climbs
    <2>6. Climbs(h, Low(n), cf, s)
      BY <2>5 DEF Climbs
    <2> QED
      BY <1>3, <2>6
  <1> QED
    BY <1>4, <1>5

LEMMA ToCUnfold ==
  ASSUME NEW cf, Forest(cf), NEW s \in Seqs, NEW c \in DOMAIN cf
  PROVE  ToC(cf, c, s) = IF s <= cf[c].pseq THEN ToC(cf, cf[c].parent, s) ELSE c
  <1> DEFINE up == CHOOSE g : Climbs(g, DOMAIN cf, cf, s)
  <1>1. Climbs(up, DOMAIN cf, cf, s)
    BY ClimbExists
  <1>2. \A d : ToC(cf, d, s) = up[d]
    BY DEF ToC, Climbs
  <1>3. cf[c].parent \in DOMAIN cf
    BY ForestType
  <1> HIDE DEF up
  <1> QED
    BY <1>1, <1>2, <1>3 DEF Climbs

\* It ends at a conflict that keeps s, an ancestor of c or c itself.
LEMMA ToCKeeper ==
  ASSUME NEW cf, Forest(cf), NEW s \in Seqs, NEW c \in DOMAIN cf
  PROVE  /\ ToC(cf, c, s) \in DOMAIN cf /\ ToC(cf, c, s) <= c
         /\ s > cf[ToC(cf, c, s)].pseq
  <1> DEFINE Good(d) == /\ ToC(cf, d, s) \in DOMAIN cf /\ ToC(cf, d, s) <= d
                        /\ s > cf[ToC(cf, d, s)].pseq
             Bad == {d \in DOMAIN cf : ~Good(d)}
  <1>1. SUFFICES ASSUME Bad # {} PROVE FALSE
    BY <1>1
  <1>2. PICK n \in Bad : \A m \in Bad : n <= m
    <2> HIDE DEF Bad
    <2>1. Bad \subseteq Nat
      BY ForestType DEF Bad
    <2> QED
      BY <1>1, <2>1, LeastNat
  <1>3. n \in DOMAIN cf /\ ~Good(n) /\ n \in Nat
    BY ForestType, SeqType, BoundsAssumption
  <1>4. ToC(cf, n, s) = IF s <= cf[n].pseq THEN ToC(cf, cf[n].parent, s) ELSE n
    BY <1>3, ToCUnfold
  <1>5. cf[n].pseq \in Int /\ s \in Int
    BY <1>3, ForestType, SeqType, BoundsAssumption
  <1>6. CASE s <= cf[n].pseq
    <2>1. n # 0 /\ cf[n].parent < n /\ cf[n].parent \in DOMAIN cf
      BY <1>3, <1>6, ForestType, SeqType, BoundsAssumption
    <2>2. cf[n].parent \notin Bad /\ cf[n].parent \in Nat /\ n \in Nat
      BY <1>2, <1>3, <2>1, ForestType, SeqType, BoundsAssumption
    <2>3. Good(cf[n].parent)
      BY <2>1, <2>2
    <2>4. ToC(cf, n, s) \in Nat
      BY <1>4, <1>6, <2>3, ForestType, SeqType, BoundsAssumption
    <2> QED
      BY <1>3, <1>4, <1>6, <2>1, <2>2, <2>3, <2>4
  <1>7. CASE ~(s <= cf[n].pseq)
    BY <1>3, <1>4, <1>5, <1>7
  <1> QED
    BY <1>6, <1>7

LEMMA ToCSelf ==
  ASSUME NEW cf, Forest(cf), NEW s \in Seqs, NEW c \in DOMAIN cf
  PROVE  ToC(cf, c, s) = c <=> s > cf[c].pseq
  <1>1. cf[c].pseq \in Int /\ s \in Int
    BY ForestType, SeqType, BoundsAssumption
  <1>2. ToC(cf, c, s) = c => s > cf[c].pseq
    BY ToCKeeper
  <1>3. ~(s <= cf[c].pseq) => ToC(cf, c, s) = c
    BY ToCUnfold
  <1> QED
    BY <1>1, <1>2, <1>3

LEMMA ConfIntro ==
  ASSUME NEW cf, cf = [c \in DOMAIN cf |-> cf[c]], DOMAIN cf \subseteq Cfid,
         \A c \in DOMAIN cf : cf[c] \in Conflict
  PROVE  cf \in ConfSet
  BY DEF ConfSet

\* What an update does to one conflict leaves the conflicts a forest.
LEMMA ForestChange ==
  ASSUME NEW cf, Forest(cf), NEW c \in DOMAIN cf,
         NEW g \in [DOMAIN cf -> Conflict],
         \A d \in DOMAIN cf \ {c} : g[d] = cf[d],
         g[c].parent \in DOMAIN cf, c # 0 => g[c].parent < c,
         c = 0 => g[c].parent = 0 /\ g[c].pseq = -1
  PROVE  Forest(g) /\ DOMAIN g = DOMAIN cf
  <1>1. DOMAIN g = DOMAIN cf /\ g = [d \in DOMAIN g |-> g[d]]
        /\ \A d \in DOMAIN g : g[d] \in Conflict
    OBVIOUS
  <1>2. /\ DOMAIN cf \subseteq Cfid /\ 0 \in DOMAIN cf
        /\ cf[0].parent = 0 /\ cf[0].pseq = -1
        /\ \A d \in DOMAIN cf :
             /\ cf[d] \in Conflict
             /\ cf[d].parent \in DOMAIN cf /\ (d # 0 => cf[d].parent < d)
    BY ForestType
  <1>4. g \in ConfSet
    BY <1>1, <1>2, ConfIntro
  <1> QED
    BY <1>1, <1>2, <1>4 DEF Forest

LEMMA ForestAdd ==
  ASSUME NEW cf, Forest(cf), NEW n \in Cfid, n \notin DOMAIN cf,
         NEW e, DOMAIN e = {n}, e[n] \in Conflict,
         e[n].parent \in DOMAIN cf, e[n].parent < n
  PROVE  /\ Forest(Over(cf, e)) /\ DOMAIN Over(cf, e) = DOMAIN cf \cup {n}
         /\ \A d \in DOMAIN cf : Over(cf, e)[d] = cf[d]
         /\ Over(cf, e)[n] = e[n]
  <1> DEFINE g == Over(cf, e)
  <1>1. /\ g = [d \in DOMAIN g |-> g[d]] /\ DOMAIN g = DOMAIN cf \cup {n}
        /\ \A d \in DOMAIN cf : g[d] = cf[d]
        /\ g[n] = e[n]
    BY DEF Over
  <1> HIDE DEF g
  <1>2. /\ DOMAIN cf \subseteq Cfid /\ 0 \in DOMAIN cf
        /\ cf[0].parent = 0 /\ cf[0].pseq = -1
        /\ \A d \in DOMAIN cf :
             /\ cf[d] \in Conflict
             /\ cf[d].parent \in DOMAIN cf /\ (d # 0 => cf[d].parent < d)
    BY ForestType
  <1>3. g \in ConfSet
    <2>1. DOMAIN g \subseteq Cfid /\ \A d \in DOMAIN g : g[d] \in Conflict
      BY <1>1, <1>2
    <2> QED
      BY <1>1, <2>1, ConfIntro
  <1>4. Forest(g)
    BY <1>1, <1>2, <1>3 DEF Forest
  <1> QED
    BY <1>1, <1>4 DEF g

\* conflict_remove: r is not the parent of anything, once its children have
\* another one made before it.
LEMMA ForestRemove ==
  ASSUME NEW cf, Forest(cf), NEW r \in DOMAIN cf \ {0}, NEW p \in DOMAIN cf, p < r,
         NEW g \in [DOMAIN cf \ {r} -> Conflict],
         \A c \in DOMAIN cf \ {r} :
           /\ g[c].pseq = cf[c].pseq
           /\ g[c].parent = IF cf[c].parent = r THEN p ELSE cf[c].parent
  PROVE  Forest(g) /\ DOMAIN g = DOMAIN cf \ {r}
  <1>1. /\ DOMAIN g = DOMAIN cf \ {r} /\ g = [d \in DOMAIN g |-> g[d]]
        /\ \A c \in DOMAIN g : g[c] \in Conflict
    OBVIOUS
  <1>2. /\ DOMAIN cf \subseteq Cfid /\ DOMAIN cf \subseteq Nat
        /\ 0 \in DOMAIN cf /\ cf[0].parent = 0 /\ cf[0].pseq = -1
        /\ \A d \in DOMAIN cf :
             cf[d].parent \in DOMAIN cf /\ (d # 0 => cf[d].parent < d)
    BY ForestType
  <1>3. g \in ConfSet
    BY <1>1, <1>2, ConfIntro
  <1>4. ASSUME NEW c \in DOMAIN g
        PROVE  g[c].parent \in DOMAIN g /\ (c # 0 => g[c].parent < c)
    <2>1. /\ c \in Nat /\ cf[c].parent \in Nat /\ p \in Nat /\ r \in Nat
          /\ cf[c].parent \in DOMAIN cf /\ (c # 0 => cf[c].parent < c)
          /\ g[c].parent = IF cf[c].parent = r THEN p ELSE cf[c].parent
      BY <1>1, <1>2
    <2>2. cf[c].parent = r => p < c
      BY <1>2, <2>1
    <2> QED
      BY <1>1, <2>1, <2>2
  <1>5. 0 \in DOMAIN g /\ g[0].parent = 0 /\ g[0].pseq = -1
    BY <1>1, <1>2
  <1> QED
    BY <1>1, <1>3, <1>4, <1>5 DEF Forest

-----------------------------------------------------------------------------
(* The inductive invariant is preserved, one lemma for each action.         *)

LEMMA MergeOff ==
  MergeRight => /\ merge.on \in BOOLEAN /\ (~merge.on => merge = NoMerge)
                /\ merge.on => merge \in Merge
  <1>1. CASE merge = NoMerge
    <2>1. merge.on = FALSE
      BY <1>1 DEF NoMerge
    <2> QED
      BY <1>1, <2>1
  <1>2. CASE merge \in Merge
    <2>1. merge.on = TRUE
      BY <1>2 DEF Merge
    <2> QED
      BY <1>2, <2>1
  <1> QED
    BY <1>1, <1>2 DEF MergeRight

\* Actions that leave alone the queue and what end_update looks at.
LEMMA ChainStable ==
  ASSUME BaseInv, alive, alive', UNCHANGED <<dbq, rows, qrm, saved>>,
         tx'.stage = "blobs" => tx.stage = "blobs",
         nextc' \in Nat, nextc <= nextc', \A c \in live' : c \in live \/ c >= nextc
  PROVE  Chain'
  <1>1. PICK snap : Snaps(snap)
    BY DEF BaseInv, Chain
  <1>2. nextc \in Nat /\ \A c \in Cfid : c \in Nat
    BY BoundsAssumption DEF BaseInv, MemTypes, Cfid
  <1>3. ASSUME NEW i \in DOMAIN dbq, NEW p \in dbq[i].decl, p[1] \in live'
        PROVE  p[1] \in live
    <2>1. dbq[i] \in DbUpdate
      BY DEF BaseInv, DbTypes
    <2>2. p[1] \in Cfid /\ p[1] < nextc
      BY <2>1, <1>3 DEF DbUpdate, BaseInv, Fresh
    <2> QED
      BY <1>2, <1>3, <2>2
  <1>4. DOMAIN dbq = 1 .. Len(dbq) /\ Len(dbq) \in Nat
    BY DEF BaseInv, DbTypes
  <1>5. ASSUME NEW i \in 0 .. Len(dbq), NEW c \in DOMAIN snap[i]
        PROVE  c < nextc'
    <2>1. snap[i] \in ConfSet /\ c < nextc
      BY <1>1 DEF Snaps
    <2>2. c \in Cfid
      BY <2>1 DEF ConfSet
    <2> QED
      BY <1>2, <2>1, <2>2
  <1>6. Snaps(snap)'
    BY <1>1, <1>3, <1>4, <1>5 DEF Snaps
  <1>7. (tx.stage = "blobs" => rows = RowsAfter(Head(dbq), rows))'
    BY DEF BaseInv, Chain
  <1> QED
    BY <1>6, <1>7 DEF Chain

LEMMA LockInv == BaseInv /\ Lock /\ UNCHANGED bound => BaseInv'
  <1> SUFFICES ASSUME BaseInv, Lock, UNCHANGED bound PROVE BaseInv'
    OBVIOUS
  <1> USE DEF Lock, scrollVars, queueVars, updaterVars, dbVars, lifeVars
  <1>1. MemTypes' /\ DbTypes'
    BY DEF BaseInv, MemTypes, DbTypes
  <1>2. Fresh' /\ EmptyRight' /\ DeadRight'
    BY DEF BaseInv, Fresh, EmptyRight, DeadRight
  <1>3. MergeRight' /\ IdleRight'
    BY DEF BaseInv, MergeRight, IdleRight
  <1>4. Chain'
    <2>1. nextc \in Nat
      BY DEF BaseInv, MemTypes
    <2> QED
      BY <2>1, ChainStable
  <1> QED
    BY <1>1, <1>2, <1>3, <1>4 DEF BaseInv

LEMMA SetHashInv ==
  ASSUME BaseInv, UNCHANGED bound,
         NEW c \in live, NEW s \in Seqs, NEW h \in History, SetHash(c, s, h)
  PROVE  BaseInv'
  <1>1. /\ alive /\ hold = "put" /\ ~merge.on
        /\ mem' = mem \cup {<<c, s, "hash">>}
        /\ qdecl' = qdecl \cup {<<c, s>>}
        /\ conf' = IF s <= conf[c].top THEN conf
                   ELSE [conf EXCEPT ![c].top = s, ![c].hist = h]
    BY DEF SetHash, Putting
  <1>2. UNCHANGED <<nextc, merge, hold, hload, saved, loaded, qrm, dbq, tx, asleep,
                    rows, decls, blobs, alive, torn, dropped>>
    BY DEF SetHash, lockVars, updaterVars, dbVars, lifeVars
  <1>3. Forest(conf) /\ live \subseteq Cfid
    BY ForestType DEF BaseInv, MemTypes
  <1>4. /\ Forest(conf') /\ live' = live
        /\ \A d \in live \ {c} : conf'[d] = conf[d]
        /\ conf'[c].top >= s
    <2>1. s \in Int /\ s >= 0 /\ conf[c].top \in Int
      BY <1>3, ForestType, SeqType
    <2>2. CASE s <= conf[c].top
      BY <1>1, <1>3, <2>1, <2>2
    <2>3. CASE ~(s <= conf[c].top)
      <3>1. conf' = [conf EXCEPT ![c].top = s, ![c].hist = h]
        BY <1>1, <2>3
      <3>2. conf \in [live -> Conflict] /\ conf[c] \in Conflict
        BY <1>3, ForestType
      <3>3. /\ conf' \in [live -> Conflict]
            /\ \A d \in live \ {c} : conf'[d] = conf[d]
            /\ conf'[c].parent = conf[c].parent /\ conf'[c].pseq = conf[c].pseq
            /\ conf'[c].top = s
        BY <3>1, <3>2 DEF Conflict
      <3>4. Forest(conf') /\ DOMAIN conf' = live
        BY <1>3, <3>3, ForestType, ForestChange
      <3> QED
        BY <2>1, <3>3, <3>4
    <2> QED
      BY <2>2, <2>3
  <1>5. MemTypes'
    BY <1>1, <1>2, <1>3, <1>4 DEF BaseInv, MemTypes, Facts
  <1>6. DbTypes' /\ DeadRight'
    BY <1>1, <1>2 DEF BaseInv, DbTypes, DeadRight
  <1>7. Fresh'
    BY <1>1, <1>2, <1>3, <1>4 DEF BaseInv, Fresh
  <1>8. MergeRight'
    BY <1>1, <1>2, MergeOff DEF BaseInv, MergeRight
  <1>9. EmptyRight'
    <2>1. s \in Int /\ s >= 0 /\ conf'[c].top \in Int /\ 0 \in live
      BY <1>3, <1>4, ForestType, SeqType
    <2>2. conf'[0].top # -1
      <3>1. conf[0].top = -1 => c = 0
        BY DEF BaseInv, EmptyRight
      <3> QED
        BY <1>4, <2>1, <3>1
    <2> QED
      BY <2>2 DEF EmptyRight
  <1>10. IdleRight'
    BY <1>1, <1>2 DEF IdleRight
  <1>11. Chain'
    <2>1. nextc \in Nat
      BY DEF BaseInv, MemTypes
    <2> QED
      BY <1>1, <1>2, <1>4, <2>1, ChainStable
  <1> QED
    BY <1>5, <1>6, <1>7, <1>8, <1>9, <1>10, <1>11 DEF BaseInv

LEMMA SetDataInv ==
  ASSUME BaseInv, UNCHANGED bound,
         NEW c \in live, NEW s \in Seqs, SetData(c, s)
  PROVE  BaseInv'
  <1>1. /\ alive /\ hold = "put" /\ ~merge.on /\ mem # {}
        /\ mem' = mem \cup {<<c, s, "data">>}
                    \cup IF s \in bound.big THEN {<<c, s, "buf">>} ELSE {}
        /\ qdecl' = qdecl \cup {<<c, s>>}
    BY DEF SetData, Putting
  <1>2. UNCHANGED <<conf, nextc, merge, hold, hload, saved, loaded, qrm, dbq, tx,
                    asleep, rows, decls, blobs, alive, torn, dropped>>
    BY DEF SetData, lockVars, updaterVars, dbVars, lifeVars
  <1>3. live \subseteq Cfid
    BY ForestType DEF BaseInv, MemTypes
  <1>4. MemTypes'
    <2>1. mem' \subseteq Cfid \X Seqs \X (Facts \cup Frames)
      BY <1>1, <1>3 DEF BaseInv, MemTypes, Facts, Frames
    <2> QED
      BY <1>1, <1>2, <1>3, <2>1 DEF BaseInv, MemTypes
  <1>5. DbTypes' /\ DeadRight'
    BY <1>1, <1>2 DEF BaseInv, DbTypes, DeadRight
  <1>6. Fresh'
    <2>1. \A m \in mem' : m[1] \in live
      BY <1>1 DEF BaseInv, Fresh
    <2> QED
      BY <1>1, <1>2, <2>1 DEF BaseInv, Fresh
  <1>7. MergeRight'
    BY <1>1, <1>2, MergeOff DEF BaseInv, MergeRight
  <1>8. EmptyRight' /\ IdleRight'
    BY <1>1, <1>2 DEF BaseInv, EmptyRight, IdleRight
  <1>9. Chain'
    <2>1. nextc \in Nat
      BY DEF BaseInv, MemTypes
    <2> QED
      BY <1>1, <1>2, <2>1, ChainStable
  <1> QED
    BY <1>4, <1>5, <1>6, <1>7, <1>8, <1>9 DEF BaseInv

LEMMA ForkInv ==
  ASSUME BaseInv, UNCHANGED bound,
         NEW c \in live, NEW p \in Seqs, NEW s \in Seqs, NEW h \in History,
         Fork(c, p, s, h)
  PROVE  BaseInv'
  <1> DEFINE e == [d \in {nextc} |-> [parent |-> c, pseq |-> p, top |-> s,
                                       hist |-> HistAt(h, s)]]
  <1>1. /\ alive /\ hold = "put" /\ ~merge.on /\ mem # {}
        /\ nextc <= bound.cfids /\ nextc' = nextc + 1
        /\ \/ /\ conf' = Over(conf, e)
              /\ mem' = mem \cup {<<nextc, s, "hash">>}
              /\ qdecl' = qdecl \cup {<<nextc, s>>}
           \/ UNCHANGED <<conf, mem, qdecl>>
    BY DEF Fork, Putting
  <1>2. UNCHANGED <<merge, hold, hload, saved, loaded, qrm, dbq, tx,
                    asleep, rows, decls, blobs, alive, torn, dropped>>
    BY DEF Fork, lockVars, updaterVars, dbVars, lifeVars
  <1>3. /\ Forest(conf) /\ live \subseteq Cfid /\ live \subseteq Nat /\ 0 \in live
        /\ \A d \in live : d < nextc
    BY ForestType DEF BaseInv, MemTypes, Fresh
  <1>4. nextc \in Cfid /\ nextc \in Nat /\ nextc' \in 1 .. MaxCfid + 1 /\ nextc \notin live
    <2>1. bound \in Bounds /\ nextc \in 1 .. MaxCfid + 1
      BY DEF BaseInv, MemTypes
    <2>2. bound.cfids <= MaxCfid /\ bound.cfids \in Nat /\ MaxCfid \in Nat
      BY <2>1, BoundsAssumption DEF Bound
    <2>3. nextc \in 1 .. MaxCfid
      BY <1>1, <2>1, <2>2
    <2> QED
      BY <1>1, <1>3, <2>2, <2>3 DEF Cfid
  <1>5. /\ Forest(conf') /\ live' \subseteq live \cup {nextc} /\ live \subseteq live'
        /\ conf'[0] = conf[0]
        /\ \A m \in mem' \ mem : m[1] \in live' /\ m \in Cfid \X Seqs \X Facts
        /\ \A q \in qdecl' \ qdecl : q[1] = nextc /\ q \in Cfid \X Seqs
    <2>1. CASE UNCHANGED <<conf, mem, qdecl>>
      BY <1>3, <2>1
    <2>2. CASE /\ conf' = Over(conf, e)
               /\ mem' = mem \cup {<<nextc, s, "hash">>}
               /\ qdecl' = qdecl \cup {<<nextc, s>>}
      <3>1. DOMAIN e = {nextc} /\ e[nextc] \in Conflict /\ e[nextc].parent = c
        BY <1>3 DEF Conflict, HistAt, History
      <3>2. c < nextc
        BY <1>3
      <3> HIDE DEF e
      <3>3. Forest(conf') /\ live' = live \cup {nextc} /\ conf'[0] = conf[0]
        <4>1. Forest(conf) /\ 0 \in live /\ nextc \in Cfid /\ nextc \notin live
              /\ conf' = Over(conf, e)
          BY <1>3, <1>4, <2>2
        <4>2. e[nextc].parent \in live /\ e[nextc].parent < nextc
          BY <3>1, <3>2
        <4> QED
          BY <3>1, <4>1, <4>2, ForestAdd
      <3> QED
        BY <1>4, <2>2, <3>3 DEF Facts
    <2> QED
      BY <1>1, <2>1, <2>2
  <1>6. MemTypes'
    <2>1. /\ mem' \subseteq Cfid \X Seqs \X (Facts \cup Frames)
          /\ qdecl' \subseteq Cfid \X Seqs
      BY <1>5 DEF BaseInv, MemTypes
    <2> QED
      BY <1>2, <1>4, <1>5, <2>1 DEF BaseInv, MemTypes
  <1>7. DbTypes' /\ DeadRight'
    BY <1>1, <1>2 DEF BaseInv, DbTypes, DeadRight
  <1>8. Fresh'
    <2>1. nextc' = nextc + 1 /\ nextc \in Nat /\ Cfid \subseteq Nat
      BY <1>1, <1>4, BoundsAssumption DEF Cfid
    <2>2. \A d \in Cfid : d < nextc => d < nextc' /\ d # nextc
      BY <2>1
    <2>3. live' \subseteq live \cup {nextc} /\ nextc < nextc'
      BY <1>5, <2>1
    <2>4. /\ \A d \in live' : d < nextc'
          /\ \A q \in qdecl' : q[1] < nextc'
      <3>1. \A q \in qdecl : q[1] \in Cfid /\ q[1] < nextc
        BY DEF BaseInv, MemTypes, Fresh
      <3>2. \A q \in qdecl' \ qdecl : q[1] = nextc
        BY <1>5
      <3> QED
        BY <1>3, <2>2, <2>3, <3>1, <3>2
    <2>5. \A m \in mem' : m[1] \in live'
      BY <1>5 DEF BaseInv, Fresh
    <2>6. \A d \in qrm : d < nextc' /\ d \notin live'
      <3>1. \A d \in qrm : d \in Cfid /\ d < nextc /\ d \notin live
        BY DEF BaseInv, MemTypes, Fresh
      <3> QED
        BY <2>2, <2>3, <3>1
    <2>7. ASSUME NEW i \in DOMAIN dbq
          PROVE  /\ \A q \in dbq[i].decl : q[1] < nextc'
                 /\ \A d \in dbq[i].rm : d < nextc' /\ d \notin live'
      <3>1. dbq[i] \in DbUpdate
        BY DEF BaseInv, DbTypes
      <3>2. /\ \A q \in dbq[i].decl : q[1] \in Cfid /\ q[1] < nextc
            /\ \A d \in dbq[i].rm : d \in Cfid /\ d < nextc /\ d \notin live
        BY <3>1 DEF BaseInv, Fresh, DbUpdate
      <3> QED
        BY <2>2, <2>3, <3>2
    <2> QED
      BY <1>2, <2>4, <2>5, <2>6, <2>7 DEF Fresh
  <1>9. MergeRight'
    BY <1>1, <1>2, MergeOff DEF BaseInv, MergeRight
  <1>10. EmptyRight' /\ IdleRight'
    BY <1>1, <1>2, <1>5 DEF BaseInv, EmptyRight, IdleRight
  <1>11. Chain'
    <2>1. \A d \in live' : d \in live \/ d >= nextc
      BY <1>4, <1>5
    <2>2. nextc' \in Nat /\ nextc <= nextc'
      BY <1>1, <1>4
    <2> QED
      BY <1>1, <1>2, <2>1, <2>2, ChainStable
  <1> QED
    BY <1>6, <1>7, <1>8, <1>9, <1>10, <1>11 DEF BaseInv

LEMMA BeginMergeInv ==
  ASSUME BaseInv, UNCHANGED bound,
         NEW i1 \in live, NEW i2 \in live, NEW cseq \in Seqs, BeginMerge(i1, i2, cseq)
  PROVE  BaseInv'
  <1>1. /\ alive /\ hold = "put" /\ ~merge.on /\ i1 < i2
        /\ cseq > conf[i2].pseq /\ cseq <= conf[i1].top /\ cseq <= conf[i2].top
        /\ conf' = [conf EXCEPT ![i2].parent = i1]
        /\ merge' = [on |-> TRUE, dst |-> i1, src |-> i2, cseq |-> cseq,
                     seq |-> conf[i2].pseq + 1]
    BY DEF BeginMerge, Putting
  <1>2. UNCHANGED <<nextc, mem, hold, hload, saved, loaded, qrm, qdecl, dbq, tx,
                    asleep, rows, decls, blobs, alive, torn, dropped>>
    BY DEF BeginMerge, lockVars, queueVars, updaterVars, dbVars, lifeVars
  <1>3. /\ Forest(conf) /\ live \subseteq Cfid /\ live \subseteq Nat /\ 0 \in live
        /\ conf \in [live -> Conflict] /\ conf[i2] \in Conflict
        /\ conf[i2].pseq \in Seqs \cup {-1}
    BY ForestType DEF BaseInv, MemTypes
  <1>4. /\ conf' \in [live -> Conflict]
        /\ \A d \in live \ {i2} : conf'[d] = conf[d]
        /\ conf'[i2].parent = i1 /\ conf'[i2].pseq = conf[i2].pseq
        /\ conf'[i2].top = conf[i2].top
    BY <1>1, <1>3 DEF Conflict
  <1>5. i2 # 0
    BY <1>1, <1>3
  <1>6. Forest(conf') /\ live' = live
    <2>1. conf'[i2].parent \in live /\ conf'[i2].parent < i2
      BY <1>1, <1>4
    <2> QED
      BY <1>3, <1>4, <1>5, <2>1, ForestChange
  <1>7. MemTypes' /\ DbTypes' /\ DeadRight'
    BY <1>1, <1>2, <1>6 DEF BaseInv, MemTypes, DbTypes, DeadRight
  <1>8. Fresh'
    BY <1>2, <1>6 DEF BaseInv, Fresh
  <1>9. MergeRight'
    <2>1. cseq \in Nat /\ conf[i2].pseq \in Int /\ conf[i2].pseq + 1 \in Nat
      BY <1>3, SeqType
    <2>2. merge' \in Merge
      BY <1>1, <1>3, <2>1 DEF Merge
    <2>3. ~(merge'.seq > merge'.cseq) /\ conf'[merge'.src].pseq < merge'.seq
      BY <1>1, <1>4, <2>1
    <2>4. i1 # i2
      BY <1>1, <1>3
    <2> QED
      BY <1>1, <1>2, <1>4, <1>6, <2>2, <2>3, <2>4 DEF MergeRight
  <1>10. EmptyRight' /\ IdleRight'
    <2>1. conf[0].top # -1 /\ conf'[0].top # -1
      BY <1>3, <1>4, <1>5 DEF BaseInv, EmptyRight
    <2> QED
      BY <1>1, <1>2, <2>1 DEF EmptyRight, IdleRight
  <1>11. Chain'
    <2>1. nextc \in Nat
      BY DEF BaseInv, MemTypes
    <2> QED
      BY <1>1, <1>2, <1>6, <2>1, ChainStable
  <1> QED
    BY <1>7, <1>8, <1>9, <1>10, <1>11 DEF BaseInv

\* What a copy does to the conflicts: at cseq the source gives up to there.
LEMMA CopyConf ==
  ASSUME BaseInv, CopyDecl
  PROVE  /\ Forest(conf) /\ Forest(conf') /\ live' = live
         /\ merge \in Merge /\ merge.on /\ hold = "put" /\ alive
         /\ merge.src \in live \ {0} /\ merge.dst \in live /\ merge.dst < merge.src
         /\ merge.seq \in Seqs /\ merge.seq <= LastCopied
         /\ \A d \in live \ {merge.src} : conf'[d] = conf[d]
         /\ conf'[merge.src].top = conf[merge.src].top
         /\ conf'[merge.src].hist = conf[merge.src].hist
         /\ conf'[merge.src].pseq = IF merge.seq = merge.cseq THEN merge.cseq
                                    ELSE conf[merge.src].pseq
         /\ merge' = [merge EXCEPT !.seq = merge.seq + 1]
  <1>1. /\ alive /\ hold = "put" /\ merge.on /\ merge.seq <= LastCopied
        /\ merge' = [merge EXCEPT !.seq = merge.seq + 1]
        /\ conf' = IF merge.seq = merge.cseq
                   THEN [conf EXCEPT ![merge.src].pseq = merge.seq] ELSE conf
    BY DEF CopyDecl
  <1>2. /\ Forest(conf) /\ live \subseteq Nat /\ 0 \in live
        /\ \A d \in live : conf[d].top \in Seqs \cup {-1}
    BY ForestType DEF BaseInv, MemTypes
  <1>3. merge.on = TRUE /\ merge # NoMerge
    <2>1. NoMerge.on = FALSE
      BY DEF NoMerge
    <2> QED
      BY <1>1, <2>1, MergeOff DEF BaseInv
  <1>4. /\ merge \in Merge /\ merge.src \in live /\ merge.dst \in live
        /\ merge.dst < merge.src
    BY <1>3 DEF BaseInv, MergeRight
  <1>5. merge.src \in live \ {0}
    BY <1>2, <1>4
  <1>6. merge.seq \in Nat /\ merge.cseq \in Seqs
    BY <1>4 DEF Merge
  <1>7. LastCopied \in Seqs \cup {-1}
    BY <1>2, <1>4, <1>6 DEF LastCopied
  <1>8. merge.seq \in Seqs
    <2>1. MaxSeq \in Nat /\ (LastCopied \in 0 .. MaxSeq \/ LastCopied = -1)
      BY <1>7, BoundsAssumption DEF Seqs
    <2> QED
      BY <1>1, <1>6, <2>1 DEF Seqs
  <1>9. /\ conf' \in [live -> Conflict]
        /\ \A d \in live \ {merge.src} : conf'[d] = conf[d]
        /\ conf'[merge.src].top = conf[merge.src].top
        /\ conf'[merge.src].hist = conf[merge.src].hist
        /\ conf'[merge.src].parent = conf[merge.src].parent
        /\ conf'[merge.src].pseq = IF merge.seq = merge.cseq THEN merge.cseq
                                   ELSE conf[merge.src].pseq
    <2>1. conf \in [live -> Conflict] /\ conf[merge.src] \in Conflict
      BY <1>2, <1>4, ForestType
    <2>2. CASE merge.seq = merge.cseq
      <3>1. conf' = [conf EXCEPT ![merge.src].pseq = merge.seq]
        BY <1>1, <2>2
      <3> QED
        BY <1>8, <2>1, <2>2, <3>1, <1>4 DEF Conflict
    <2>3. CASE merge.seq # merge.cseq
      BY <1>1, <2>1, <2>3
    <2> QED
      BY <2>2, <2>3
  <1>10. Forest(conf') /\ live' = live
    <2>1. conf'[merge.src].parent \in live /\ conf'[merge.src].parent < merge.src
      BY <1>2, <1>5, <1>9, ForestType
    <2> QED
      BY <1>2, <1>5, <1>9, <2>1, ForestChange
  <1> QED
    BY <1>1, <1>2, <1>4, <1>5, <1>8, <1>9, <1>10

\* Where the facts of a declaration go, and what is left behind.
LEMMA CopyTypes ==
  ASSUME BaseInv, CopyDecl
  PROVE  LET d == ToC(conf, merge.dst, merge.seq) IN
         /\ d \in live /\ d <= merge.dst /\ merge.seq > conf[d].pseq
         /\ CopyFacts(d, merge.seq)
         /\ dropped' = dropped \cup LeftBehind(d, merge.seq)
         /\ LeftBehind(d, merge.seq) \subseteq History \X Seqs \X Facts
         /\ mem' \subseteq mem \cup {<<c, merge.seq, f>> : c \in live, f \in Facts \cup Frames}
         /\ qdecl' \subseteq qdecl \cup {<<c, merge.seq>> : c \in live}
  <1> DEFINE d == ToC(conf, merge.dst, merge.seq)
  <1>1. /\ Forest(conf) /\ merge.dst \in live /\ merge.src \in live
        /\ merge.seq \in Seqs /\ merge.dst # merge.src
    <2>1. live \subseteq Nat
      BY CopyConf, ForestType
    <2> QED
      BY <2>1, CopyConf
  <1>2. d \in live /\ d <= merge.dst /\ merge.seq > conf[d].pseq
    BY <1>1, ToCKeeper
  <1>3. CopyFacts(d, merge.seq) /\ dropped' = dropped \cup LeftBehind(d, merge.seq)
    BY DEF CopyDecl
  <1>4. HistAt(conf[merge.src].hist, merge.seq) \in History
    BY <1>1, ForestType DEF HistAt, History
  <1>5. LeftBehind(d, merge.seq) \subseteq History \X Seqs \X Facts
    <2>1. /\ Known(merge.src, merge.seq) \ InMem(merge.src, merge.seq) \subseteq Facts
          /\ Known(d, merge.seq) \ InMem(d, merge.seq) \subseteq Facts
          /\ "data" \in Facts
      BY DEF Known, Stored, Facts
    <2> QED
      BY <1>1, <1>4, <2>1 DEF LeftBehind
  <1>6. InMem(merge.src, merge.seq) \subseteq Facts \cup Frames
    BY DEF InMem
  <1>7. /\ mem' \subseteq mem \cup {<<c, merge.seq, f>> : c \in live, f \in Facts \cup Frames}
        /\ qdecl' \subseteq qdecl \cup {<<c, merge.seq>> : c \in live}
    BY <1>1, <1>2, <1>3, <1>6 DEF CopyFacts
  <1> QED
    BY <1>2, <1>3, <1>5, <1>7

LEMMA CopyDeclInv == BaseInv /\ CopyDecl /\ UNCHANGED bound => BaseInv'
  <1> SUFFICES ASSUME BaseInv, CopyDecl, UNCHANGED bound PROVE BaseInv'
    OBVIOUS
  <1>1. UNCHANGED <<nextc, hold, hload, saved, loaded, qrm, dbq, tx,
                    asleep, rows, decls, blobs, alive, torn>>
    BY DEF CopyDecl, lockVars, updaterVars, dbVars, lifeVars
  <1>2. /\ Forest(conf') /\ live' = live /\ live \subseteq Cfid /\ live \subseteq Nat
        /\ conf'[0] = conf[0] /\ alive /\ hold = "put"
    BY CopyConf, ForestType
  <1>3. /\ mem' \subseteq mem \cup {<<c, merge.seq, f>> : c \in live, f \in Facts \cup Frames}
        /\ qdecl' \subseteq qdecl \cup {<<c, merge.seq>> : c \in live}
        /\ dropped' \subseteq History \X Seqs \X Facts
        /\ merge.seq \in Seqs
    BY CopyTypes, CopyConf DEF BaseInv, MemTypes
  <1>4. MemTypes'
    <2>1. /\ mem' \subseteq Cfid \X Seqs \X (Facts \cup Frames)
          /\ qdecl' \subseteq Cfid \X Seqs
      BY <1>2, <1>3 DEF BaseInv, MemTypes
    <2> QED
      BY <1>1, <1>2, <1>3, <2>1 DEF BaseInv, MemTypes
  <1>5. DbTypes' /\ DeadRight'
    BY <1>1, <1>2 DEF BaseInv, DbTypes, DeadRight
  <1>6. Fresh'
    <2>1. (\A m \in mem' : m[1] \in live) /\ \A p \in qdecl' : p[1] < nextc
      BY <1>3 DEF BaseInv, Fresh
    <2> QED
      BY <1>1, <1>2, <2>1 DEF BaseInv, Fresh
  <1>7. MergeRight'
    <2>1. /\ merge'.src = merge.src /\ merge'.dst = merge.dst
          /\ merge'.cseq = merge.cseq /\ merge'.seq = merge.seq + 1 /\ merge' \in Merge
      <3>1. /\ merge \in Merge /\ merge' = [merge EXCEPT !.seq = merge.seq + 1]
            /\ merge.seq \in Nat
        BY CopyConf, SeqType
      <3>2. merge.seq + 1 \in Nat
        BY <3>1
      <3> QED
        BY <3>1, <3>2 DEF Merge
    <2>2. merge # NoMerge
      <3>1. NoMerge.on = FALSE /\ merge.on = TRUE
        BY CopyConf DEF NoMerge, Merge
      <3> QED
        BY <3>1
    <2>3. /\ merge.cseq <= conf[merge.src].top /\ merge.cseq <= conf[merge.dst].top
          /\ conf[merge.src].pseq < merge.seq
          /\ merge.seq > merge.cseq => conf[merge.src].pseq = merge.cseq
      BY <2>2 DEF BaseInv, MergeRight
    <2>4. /\ merge.seq \in Int /\ merge.cseq \in Int /\ conf[merge.src].pseq \in Int
          /\ merge.dst # merge.src
      BY <1>2, CopyConf, ForestType, SeqType DEF Merge
    <2>5. /\ conf'[merge.dst] = conf[merge.dst]
          /\ conf'[merge.src].top = conf[merge.src].top
          /\ conf'[merge.src].pseq = IF merge.seq = merge.cseq THEN merge.cseq
                                     ELSE conf[merge.src].pseq
      BY <2>4, CopyConf
    <2>6. /\ conf'[merge.src].pseq < merge.seq + 1
          /\ merge.seq + 1 > merge.cseq => conf'[merge.src].pseq = merge.cseq
      BY <2>3, <2>4, <2>5
    <2> QED
      BY <1>1, <1>2, <2>1, <2>3, <2>5, <2>6, CopyConf DEF MergeRight
  <1>8. EmptyRight' /\ IdleRight'
    <2>1. conf[0].top # -1
      BY CopyConf DEF BaseInv, EmptyRight
    <2> QED
      BY <1>1, <1>2, <2>1 DEF EmptyRight, IdleRight
  <1>9. Chain'
    <2>1. nextc \in Nat
      BY DEF BaseInv, MemTypes
    <2> QED
      BY <1>1, <1>2, <2>1, ChainStable
  <1> QED
    BY <1>4, <1>5, <1>6, <1>7, <1>8, <1>9 DEF BaseInv

\* merge_single gives the top of src to dst, and conflict_remove its children.
LEMMA TopAfterForest ==
  ASSUME BaseInv, merge.on
  PROVE  /\ Forest(TopAfterMerge) /\ DOMAIN TopAfterMerge = live
         /\ \A c \in live \ {merge.dst} : TopAfterMerge[c] = conf[c]
         /\ TopAfterMerge[merge.dst].parent = conf[merge.dst].parent
         /\ TopAfterMerge[merge.dst].pseq = conf[merge.dst].pseq
         /\ TopAfterMerge[merge.dst].top \in {conf[merge.src].top, conf[merge.dst].top}
         /\ TopAfterMerge[merge.dst].top >= conf[merge.src].top
         /\ TopAfterMerge[merge.dst].top >= conf[merge.dst].top
         /\ TopAfterMerge[0].top # -1
         /\ merge \in Merge /\ hold \in {"put", "stuck"}
         /\ merge.src \in live \ {0} /\ merge.dst \in live /\ merge.dst < merge.src
  <1>1. /\ Forest(conf) /\ live \subseteq Nat /\ 0 \in live
        /\ conf \in [live -> Conflict]
        /\ \A d \in live : conf[d].top \in Seqs \cup {-1} /\ conf[d].top \in Int
    BY ForestType DEF BaseInv, MemTypes
  <1>2. /\ merge \in Merge /\ merge.src \in live \ {0} /\ merge.dst \in live
        /\ merge.dst < merge.src /\ hold \in {"put", "stuck"}
        /\ merge.cseq \in Seqs /\ merge.cseq <= conf[merge.src].top
    <2>1. merge # NoMerge
      <3>1. NoMerge.on = FALSE
        BY DEF NoMerge
      <3> QED
        BY <3>1, MergeOff DEF BaseInv
    <2>2. /\ merge \in Merge /\ merge.src \in live /\ merge.dst \in live
          /\ merge.dst < merge.src /\ hold \in {"put", "stuck"}
          /\ merge.cseq <= conf[merge.src].top
      BY <2>1 DEF BaseInv, MergeRight
    <2>3. merge.src # 0
      BY <1>1, <2>2
    <2>4. merge.cseq \in Seqs
      BY <2>2 DEF Merge
    <2> QED
      BY <2>2, <2>3, <2>4
  <1>3. CASE conf[merge.src].top > conf[merge.dst].top
    <2>1. TopAfterMerge = [conf EXCEPT ![merge.dst].top = conf[merge.src].top,
                                       ![merge.dst].hist = conf[merge.src].hist]
      BY <1>3 DEF TopAfterMerge
    <2>2. conf[merge.dst] \in Conflict /\ conf[merge.src] \in Conflict
      BY <1>1, <1>2
    <2>3. /\ TopAfterMerge \in [live -> Conflict]
          /\ \A c \in live \ {merge.dst} : TopAfterMerge[c] = conf[c]
          /\ TopAfterMerge[merge.dst].parent = conf[merge.dst].parent
          /\ TopAfterMerge[merge.dst].pseq = conf[merge.dst].pseq
          /\ TopAfterMerge[merge.dst].top = conf[merge.src].top
      BY <1>1, <1>2, <2>1, <2>2 DEF Conflict
    <2>4. Forest(TopAfterMerge) /\ DOMAIN TopAfterMerge = live
      <3>1. /\ TopAfterMerge[merge.dst].parent \in live
            /\ merge.dst # 0 => TopAfterMerge[merge.dst].parent < merge.dst
            /\ merge.dst = 0 => /\ TopAfterMerge[merge.dst].parent = 0
                               /\ TopAfterMerge[merge.dst].pseq = -1
        BY <1>1, <1>2, <2>3, ForestType
      <3> QED
        BY <1>1, <1>2, <2>3, <3>1, ForestChange
    <2>5. TopAfterMerge[0].top # -1
      <3>1. conf[0].top # -1
        BY <1>2 DEF BaseInv, EmptyRight
      <3>2. conf[merge.dst].top >= -1
        BY <1>1, <1>2, SeqType
      <3>3. conf[merge.src].top # -1
        BY <1>1, <1>2, <1>3, <3>2
      <3> QED
        BY <1>1, <1>2, <2>3, <3>1, <3>3
    <2> QED
      BY <1>1, <1>2, <1>3, <2>3, <2>4, <2>5
  <1>4. CASE ~(conf[merge.src].top > conf[merge.dst].top)
    <2>1. TopAfterMerge = conf
      BY <1>4 DEF TopAfterMerge
    <2>2. conf[0].top # -1
      BY <1>2 DEF BaseInv, EmptyRight
    <2> QED
      BY <1>1, <1>2, <1>4, <2>1, <2>2
  <1> QED
    BY <1>3, <1>4

LEMMA EndMergeInv == BaseInv /\ EndMerge /\ UNCHANGED bound => BaseInv'
  <1> SUFFICES ASSUME BaseInv, EndMerge, UNCHANGED bound PROVE BaseInv'
    OBVIOUS
  <1>1. /\ alive /\ hold = "put" /\ merge.on /\ merge.seq > LastCopied
        /\ \/ /\ merge' = NoMerge
              /\ UNCHANGED <<conf, mem, hold, saved, qrm>>
           \/ /\ merge' = NoMerge
              /\ conf' = Heirs(TopAfterMerge)
              /\ mem' = {m \in mem : m[1] # merge.src}
              /\ saved' = Restrict(saved, DOMAIN saved \ {merge.src})
              /\ qrm' = qrm \cup ({merge.src} \cap DOMAIN saved)
              /\ hold' = hold
           \/ /\ conf' = TopAfterMerge
              /\ hold' = "stuck"
              /\ UNCHANGED <<merge, mem, saved, qrm>>
    BY DEF EndMerge
  <1>2. UNCHANGED <<nextc, hload, loaded, qdecl, dbq, tx, asleep, rows, decls, blobs,
                    alive, torn, dropped>>
    BY DEF EndMerge, updaterVars, dbVars
  <1>3. /\ Forest(conf) /\ live \subseteq Cfid /\ live \subseteq Nat /\ nextc \in Nat
        /\ conf[0].top \in Int
    BY ForestType DEF BaseInv, MemTypes
  <1>4. conf[0].top # -1
    BY <1>1, TopAfterForest DEF BaseInv, EmptyRight
  <1>5. DbTypes' /\ DeadRight'
    BY <1>1, <1>2 DEF BaseInv, DbTypes, DeadRight
  <1>6. CASE merge' = NoMerge /\ UNCHANGED <<conf, mem, hold, saved, qrm>>
    <2>1. MemTypes' /\ Fresh' /\ MergeRight' /\ EmptyRight'
      BY <1>2, <1>6 DEF BaseInv, MemTypes, Fresh, MergeRight, EmptyRight
    <2>2. IdleRight'
      BY <1>1, <1>6 DEF IdleRight
    <2>3. Chain'
      BY <1>1, <1>2, <1>3, <1>6, ChainStable
    <2> QED
      BY <1>5, <2>1, <2>2, <2>3 DEF BaseInv
  <1>7. CASE conf' = TopAfterMerge /\ hold' = "stuck" /\ UNCHANGED <<merge, mem, saved, qrm>>
    <2>1. Forest(conf') /\ live' = live
      BY <1>1, <1>7, TopAfterForest
    <2>2. MemTypes' /\ Fresh'
      BY <1>2, <1>7, <2>1 DEF BaseInv, MemTypes, Fresh
    <2>3. MergeRight'
      <3>1. /\ merge # NoMerge /\ merge.dst # merge.src
            /\ conf'[merge.src] = conf[merge.src]
            /\ conf'[merge.dst].top >= conf[merge.dst].top
            /\ conf'[merge.dst].top \in Int /\ conf[merge.dst].top \in Int
            /\ merge.cseq \in Int
        <4>1. NoMerge.on = FALSE
          BY DEF NoMerge
        <4>2. merge.dst # merge.src /\ merge.dst \in live /\ merge.src \in live
          BY <1>1, <1>3, TopAfterForest
        <4> QED
          BY <1>1, <1>3, <1>7, <2>1, <4>1, <4>2, TopAfterForest, ForestType, SeqType
             DEF Merge
      <3> QED
        BY <1>2, <1>7, <2>1, <3>1 DEF BaseInv, MergeRight
    <2>4. EmptyRight'
      <3>1. conf'[0].top # -1
        BY <1>1, <1>7, TopAfterForest
      <3> QED
        BY <3>1 DEF EmptyRight
    <2>5. IdleRight'
      BY <1>7 DEF IdleRight
    <2>6. Chain'
      BY <1>1, <1>2, <1>3, <1>7, <2>1, ChainStable
    <2> QED
      BY <1>5, <2>2, <2>3, <2>4, <2>5, <2>6 DEF BaseInv
  <1>8. CASE /\ merge' = NoMerge
             /\ conf' = Heirs(TopAfterMerge)
             /\ mem' = {m \in mem : m[1] # merge.src}
             /\ saved' = Restrict(saved, DOMAIN saved \ {merge.src})
             /\ qrm' = qrm \cup ({merge.src} \cap DOMAIN saved)
             /\ hold' = hold
    <2> DEFINE src == merge.src
    <2>1. /\ Forest(conf') /\ live' = live \ {src} /\ src \in live /\ src # 0
          /\ conf'[0].top = TopAfterMerge[0].top
      <3>1. /\ Forest(TopAfterMerge) /\ DOMAIN TopAfterMerge = live
            /\ src \in live \ {0} /\ merge.dst \in live /\ merge.dst < src
            /\ 0 \in live
        BY <1>1, TopAfterForest, ForestType
      <3>2. merge.dst \in Cfid /\ \A c \in live : TopAfterMerge[c] \in Conflict
        BY <1>3, <3>1, ForestType
      <3>3. /\ conf' \in [live \ {src} -> Conflict]
            /\ \A c \in live \ {src} :
                 /\ conf'[c].pseq = TopAfterMerge[c].pseq
                 /\ conf'[c].top = TopAfterMerge[c].top
                 /\ conf'[c].parent = IF TopAfterMerge[c].parent = src THEN merge.dst
                                      ELSE TopAfterMerge[c].parent
        <4>1. conf' = [c \in live \ {src} |->
                         IF TopAfterMerge[c].parent = src
                         THEN [TopAfterMerge[c] EXCEPT !.parent = merge.dst]
                         ELSE TopAfterMerge[c]]
          BY <1>8, <3>1 DEF Heirs
        <4> QED
          BY <3>2, <4>1 DEF Conflict
      <3> HIDE DEF src
      <3>4. Forest(conf') /\ DOMAIN conf' = live \ {src}
        BY <3>1, <3>3, ForestRemove
      <3> QED
        BY <3>1, <3>3, <3>4
    <2>2. MemTypes'
      <3>1. saved' \in ConfSet /\ DOMAIN saved' = DOMAIN saved \ {src}
        <4>1. /\ DOMAIN saved' = DOMAIN saved \ {src}
              /\ saved' = [c \in DOMAIN saved' |-> saved'[c]]
              /\ \A c \in DOMAIN saved' : saved'[c] = saved[c]
          BY <1>8 DEF Restrict
        <4>2. \A c \in DOMAIN saved : c \in Cfid /\ saved[c] \in Conflict
          BY ConfType DEF BaseInv, MemTypes
        <4> QED
          BY <4>1, <4>2, ConfIntro
      <3> QED
        BY <1>1, <1>2, <1>3, <1>8, <2>1, <3>1 DEF BaseInv, MemTypes
    <2>3. Fresh'
      <3>1. src < nextc /\ \A c \in qrm' : c \in qrm \/ c = src
        BY <1>8, <2>1 DEF BaseInv, Fresh
      <3> QED
        BY <1>2, <1>8, <2>1, <3>1 DEF BaseInv, Fresh
    <2>4. MergeRight' /\ IdleRight'
      BY <1>1, <1>8 DEF MergeRight, IdleRight
    <2>5. EmptyRight'
      <3>1. conf'[0].top # -1
        BY <1>1, <1>3, <2>1, TopAfterForest
      <3> QED
        BY <3>1 DEF EmptyRight
    <2>6. Chain'
      <3>1. PICK snap : Snaps(snap)
        BY <1>1 DEF BaseInv, Chain
      <3> DEFINE last == snap[Len(dbq)]
      <3>2. qrm' \subseteq DOMAIN last /\ saved' = Restrict(last, DOMAIN last \ qrm')
        <4>1. qrm \subseteq DOMAIN last /\ saved = Restrict(last, DOMAIN last \ qrm)
          BY <3>1 DEF Snaps
        <4>2. DOMAIN saved = DOMAIN last \ qrm
          BY <4>1 DEF Restrict
        <4>3. (DOMAIN saved) \ {src} = DOMAIN last \ qrm'
          BY <1>8, <4>2
        <4> HIDE DEF last
        <4> QED
          BY <1>8, <4>1, <4>2, <4>3 DEF Restrict
      <3>3. Snaps(snap)'
        BY <1>2, <2>1, <3>1, <3>2 DEF Snaps
      <3> QED
        BY <1>2, <3>3 DEF BaseInv, Chain
    <2> QED
      BY <1>5, <2>2, <2>3, <2>4, <2>5, <2>6 DEF BaseInv
  <1> QED
    BY <1>1, <1>6, <1>7, <1>8

\* A put that an assertion ends, at a place where nothing else is changed.
PutStops ==
  /\ alive /\ hold = "put" /\ hold' = "stuck"
  /\ nextc' \in {nextc, nextc + 1} /\ nextc' \in 1 .. MaxCfid + 1
  /\ UNCHANGED <<conf, mem, merge, hload, updates, saved, qdecl, qrm, dbq, tx,
                 asleep, rows, decls, blobs, alive, crashes, torn, unwritten,
                 loaded, dropped>>

LEMMA PutStopping ==
  ASSUME BaseInv, PutFails \/ TypeStuck
  PROVE  PutStops
  <1>1. bound \in Bounds /\ nextc \in 1 .. MaxCfid + 1
    BY DEF BaseInv, MemTypes
  <1>2. bound.cfids <= MaxCfid /\ bound.cfids \in Nat /\ MaxCfid \in Nat
    BY <1>1, BoundsAssumption DEF Bound
  <1>3. CASE PutFails
    <2>1. \/ nextc <= bound.cfids /\ nextc' = nextc + 1
          \/ UNCHANGED nextc
      BY <1>3 DEF PutFails
    <2>2. nextc' \in {nextc, nextc + 1} /\ nextc' \in 1 .. MaxCfid + 1
      BY <1>1, <1>2, <2>1
    <2> QED
      BY <1>3, <2>2 DEF PutFails, PutStops, Putting, queueVars, updaterVars, dbVars
  <1>4. CASE TypeStuck
    BY <1>1, <1>4 DEF TypeStuck, PutStops, scrollVars, queueVars, updaterVars, dbVars
  <1> QED
    BY <1>3, <1>4

LEMMA PutStopsInv ==
  ASSUME BaseInv, UNCHANGED bound, PutStops
  PROVE  BaseInv'
  <1> USE DEF PutStops
  <1>1. nextc \in Nat /\ nextc' \in Nat /\ nextc <= nextc'
    BY DEF BaseInv, MemTypes
  <1>2. MemTypes' /\ DbTypes'
    BY DEF BaseInv, MemTypes, DbTypes
  <1>3. Fresh'
    <2>1. /\ live \subseteq Nat /\ \A p \in qdecl : p[1] \in Nat
          /\ qrm \subseteq Nat
          /\ \A i \in DOMAIN dbq : /\ \A p \in dbq[i].decl : p[1] \in Nat
                                   /\ \A c \in dbq[i].rm : c \in Nat
      <3>1. Cfid \subseteq Nat /\ live \subseteq Cfid /\ qdecl \subseteq Cfid \X Seqs
            /\ qrm \subseteq Cfid
        BY BoundsAssumption, ForestType DEF BaseInv, MemTypes, Cfid
      <3>2. \A i \in DOMAIN dbq : dbq[i] \in DbUpdate
        BY DEF BaseInv, DbTypes
      <3>3. \A i \in DOMAIN dbq : dbq[i].decl \subseteq Cfid \X Seqs /\ dbq[i].rm \subseteq Cfid
        BY <3>2 DEF DbUpdate
      <3> QED
        BY <3>1, <3>3
    <2>2. \A x \in Nat : x < nextc => x < nextc'
      BY <1>1
    <2> QED
      BY <2>1, <2>2 DEF BaseInv, Fresh
  <1>4. EmptyRight' /\ DeadRight'
    BY DEF BaseInv, EmptyRight, DeadRight
  <1>5. MergeRight' /\ IdleRight'
    BY DEF BaseInv, MergeRight, IdleRight
  <1>6. Chain'
    BY <1>1, ChainStable
  <1> QED
    BY <1>2, <1>3, <1>4, <1>5, <1>6 DEF BaseInv

\* A copy that finds frames in the way: the hashes have gone to the conflict
\* that keeps the declaration.
LEMMA CopyStops ==
  ASSUME BaseInv, CopyStuck
  PROVE  LET t == merge.seq
             k == ToC(conf, merge.dst, merge.seq) IN
         /\ alive /\ hold = "put" /\ hold' = "stuck" /\ merge.on /\ merge \in Merge
         /\ Forest(conf) /\ live \subseteq Cfid
         /\ merge.src \in live /\ merge.dst \in live /\ merge.dst < merge.src
         /\ merge.dst # merge.src
         /\ t \in Seqs /\ t <= LastCopied /\ t > conf[merge.src].pseq
         /\ k \in live /\ k <= merge.dst /\ t > conf[k].pseq /\ k # merge.src
         /\ mem' = mem \cup {<<k, t, f>> : f \in (InMem(merge.src, t) \ Frames) \ InMem(k, t)}
         /\ qdecl' = qdecl \cup {<<k, t>> : f \in (InMem(merge.src, t) \ Frames) \ InMem(k, t)}
         /\ dropped' = dropped \cup LeftBehind(k, t)
         /\ LeftBehind(k, t) \subseteq History \X Seqs \X Facts
         /\ \A c \in Cfid, s \in Seqs, f \in Facts \cup Frames :
              <<c, s, f>> \in mem' <=>
                \/ <<c, s, f>> \in mem
                \/ c = k /\ s = t /\ f = "hash" /\ <<merge.src, t, f>> \in mem
         /\ \A c \in Cfid, s \in Seqs :
              <<c, s>> \in qdecl' \ qdecl =>
                c = k /\ s = t /\ <<merge.src, t, "hash">> \in mem /\ <<k, t, "hash">> \notin mem
         /\ <<merge.src, t, "hash">> \in mem /\ <<k, t, "hash">> \notin mem => <<k, t>> \in qdecl'
         /\ UNCHANGED <<conf, nextc, merge, hload, updates, saved, qrm, dbq, tx, asleep,
                        rows, decls, blobs, alive, crashes, torn, unwritten, loaded>>
  <1> DEFINE src == merge.src
             dst == merge.dst
             t == merge.seq
             k == ToC(conf, dst, t)
  <1>1. /\ alive /\ hold = "put" /\ hold' = "stuck" /\ merge.on /\ t <= LastCopied
        /\ mem' = mem \cup {<<k, t, f>> : f \in (InMem(src, t) \ Frames) \ InMem(k, t)}
        /\ qdecl' = qdecl \cup {<<k, t>> : f \in (InMem(src, t) \ Frames) \ InMem(k, t)}
        /\ dropped' = dropped \cup LeftBehind(k, t)
        /\ UNCHANGED <<conf, nextc, merge, hload, updates, saved, qrm, dbq, tx, asleep,
                       rows, decls, blobs, alive, crashes, torn, unwritten, loaded>>
    BY DEF CopyStuck, updaterVars, dbVars
  <1>2. /\ Forest(conf) /\ live \subseteq Cfid /\ live \subseteq Nat /\ 0 \in live
        /\ \A d \in live : conf[d].top \in Seqs \cup {-1}
    BY ForestType DEF BaseInv, MemTypes
  <1>3. merge.on = TRUE /\ merge # NoMerge
    <2>1. NoMerge.on = FALSE
      BY DEF NoMerge
    <2> QED
      BY <1>1, <2>1, MergeOff DEF BaseInv
  <1>4. /\ merge \in Merge /\ src \in live /\ dst \in live /\ dst < src
        /\ conf[src].pseq < t
    BY <1>3 DEF BaseInv, MergeRight
  <1>5. t \in Seqs
    <2>1. t \in Nat /\ merge.cseq \in Seqs
      BY <1>4 DEF Merge
    <2>2. LastCopied \in Seqs \cup {-1}
      BY <1>2, <1>4, <2>1 DEF LastCopied
    <2>3. MaxSeq \in Nat /\ (LastCopied \in 0 .. MaxSeq \/ LastCopied = -1)
      BY <2>2, BoundsAssumption DEF Seqs
    <2> QED
      BY <1>1, <2>1, <2>3 DEF Seqs
  <1>6. dst # src /\ t > conf[src].pseq
    <2>1. conf[src].pseq \in Int /\ t \in Int /\ src \in Nat /\ dst \in Nat
      BY <1>2, <1>4, <1>5, ForestType, SeqType
    <2> QED
      BY <1>4, <2>1
  <1>7. k \in live /\ k <= dst /\ t > conf[k].pseq /\ k # src
    <2>1. k \in live /\ k <= dst /\ t > conf[k].pseq
      BY <1>2, <1>4, <1>5, ToCKeeper
    <2> QED
      BY <1>2, <1>4, <2>1
  <1>8. LeftBehind(k, t) \subseteq History \X Seqs \X Facts
    <2>1. /\ Known(src, t) \ InMem(src, t) \subseteq Facts
          /\ Known(k, t) \ InMem(k, t) \subseteq Facts
          /\ "data" \in Facts
      BY DEF Known, Stored, Facts
    <2>2. HistAt(conf[src].hist, t) \in History
      BY <1>2, <1>4, ForestType DEF HistAt, History
    <2> QED
      BY <1>5, <2>1, <2>2 DEF LeftBehind
  <1> HIDE DEF src, dst, t, k
  <1>9. \A c \in Cfid, s \in Seqs, f \in Facts \cup Frames :
          <<c, s, f>> \in mem' <=>
            \/ <<c, s, f>> \in mem
            \/ c = k /\ s = t /\ f = "hash" /\ <<src, t, f>> \in mem
    BY <1>1 DEF InMem, Facts, Frames
  <1>10. \A c \in Cfid, s \in Seqs :
          <<c, s>> \in qdecl' \ qdecl =>
            c = k /\ s = t /\ <<src, t, "hash">> \in mem /\ <<k, t, "hash">> \notin mem
    BY <1>1 DEF InMem, Facts, Frames
  <1>11. ASSUME <<src, t, "hash">> \in mem, <<k, t, "hash">> \notin mem
         PROVE  <<k, t>> \in qdecl'
    <2>1. "hash" \in (InMem(src, t) \ Frames) \ InMem(k, t)
      BY <1>11 DEF InMem, Facts, Frames
    <2> QED
      BY <1>1, <2>1
  <1> QED
    BY <1>1, <1>2, <1>4, <1>5, <1>6, <1>7, <1>8, <1>9, <1>10, <1>11 DEF src, dst, t, k

LEMMA CopyStuckInv ==
  ASSUME BaseInv, UNCHANGED bound, CopyStuck
  PROVE  BaseInv'
  <1> DEFINE t == merge.seq
             k == ToC(conf, merge.dst, t)
  <1>1. /\ alive /\ hold = "put" /\ hold' = "stuck" /\ live \subseteq Cfid /\ k \in live
        /\ t \in Seqs /\ Forest(conf)
        /\ mem' = mem \cup {<<k, t, f>> : f \in (InMem(merge.src, t) \ Frames) \ InMem(k, t)}
        /\ qdecl' = qdecl \cup {<<k, t>> : f \in (InMem(merge.src, t) \ Frames) \ InMem(k, t)}
        /\ dropped' = dropped \cup LeftBehind(k, t)
        /\ LeftBehind(k, t) \subseteq History \X Seqs \X Facts
        /\ merge.on /\ merge \in Merge /\ merge.src \in live /\ merge.src # merge.dst
        /\ merge.dst \in live /\ merge.dst < merge.src
        /\ UNCHANGED <<conf, nextc, merge, hload, updates, saved, qrm, dbq, tx, asleep,
                       rows, decls, blobs, alive, crashes, torn, unwritten, loaded>>
    BY CopyStops
  <1> HIDE DEF k, t
  <1>2. /\ \A m \in mem' \ mem : \E f \in Facts \cup Frames : m = <<k, t, f>>
        /\ \A p \in qdecl' \ qdecl : p = <<k, t>>
    BY <1>1 DEF InMem
  <1>3. MemTypes'
    <2>1. mem' \subseteq Cfid \X Seqs \X (Facts \cup Frames) /\ qdecl' \subseteq Cfid \X Seqs
      BY <1>1, <1>2 DEF BaseInv, MemTypes
    <2> QED
      BY <1>1, <2>1 DEF BaseInv, MemTypes
  <1>4. DbTypes' /\ DeadRight'
    BY <1>1 DEF BaseInv, DbTypes, DeadRight
  <1>5. Fresh'
    <2>1. /\ \A m \in mem : m[1] \in live
          /\ \A p \in qdecl : p[1] < nextc
          /\ \A c \in live : c < nextc
      BY DEF BaseInv, Fresh
    <2>2. \A m \in mem' \ mem : m[1] = k
      BY <1>2
    <2>3. \A p \in qdecl' \ qdecl : p[1] = k
      BY <1>2
    <2>4. (\A m \in mem' : m[1] \in live) /\ \A p \in qdecl' : p[1] < nextc
      BY <1>1, <2>1, <2>2, <2>3
    <2> QED
      BY <1>1, <2>4 DEF BaseInv, Fresh
  <1>6. MergeRight' /\ IdleRight'
    BY <1>1 DEF BaseInv, MergeRight, IdleRight
  <1>7. EmptyRight'
    <2>1. live # {0}
      <3>1. merge.dst \in Nat /\ merge.src \in Nat
        BY <1>1, ForestType
      <3> QED
        BY <1>1, <3>1
    <2> QED
      BY <1>1, <2>1 DEF BaseInv, EmptyRight
  <1>8. Chain'
    <2>1. nextc \in Nat
      BY DEF BaseInv, MemTypes
    <2> QED
      BY <1>1, <2>1, ChainStable
  <1> QED
    BY <1>3, <1>4, <1>5, <1>6, <1>7, <1>8 DEF BaseInv

LEMMA BeginLoadInv ==
  ASSUME BaseInv, UNCHANGED bound,
         NEW c \in live, NEW s \in Seqs, BeginLoad(c, s)
  PROVE  BaseInv'
  <1>1. /\ alive /\ c \in DOMAIN saved /\ c \in Cfid
        /\ loaded' = [loaded EXCEPT ![<<c, s>>] = "busy"]
        /\ hold' = IF hold = "free" THEN "load" ELSE hold
        /\ hload' = IF hold = "free" THEN <<c, s>> ELSE hload
    BY ForestType DEF BeginLoad, BaseInv, MemTypes
  <1>2. UNCHANGED <<conf, nextc, mem, merge, saved, qdecl, qrm, dbq, tx, asleep,
                    rows, decls, blobs, alive, torn, dropped>>
    BY DEF BeginLoad, scrollVars, queueVars, updaterVars, dbVars, lifeVars
  <1>3. MemTypes'
    <2>1. loaded' \in [Cfid \X Seqs -> {"no", "busy", "yes"}]
      BY <1>1 DEF BaseInv, MemTypes
    <2>2. hload' \in Cfid \X Seqs /\ hold' \in {"free", "put", "load", "stuck"}
      BY <1>1 DEF BaseInv, MemTypes
    <2> QED
      BY <1>2, <2>1, <2>2 DEF BaseInv, MemTypes
  <1>4. DbTypes' /\ Fresh' /\ DeadRight'
    BY <1>1, <1>2 DEF BaseInv, DbTypes, Fresh, DeadRight
  <1>5. MergeRight' /\ IdleRight'
    BY <1>1, <1>2 DEF BaseInv, MergeRight, IdleRight
  <1>6. EmptyRight'
    BY <1>1, <1>2 DEF BaseInv, EmptyRight
  <1>7. Chain'
    <2>1. nextc \in Nat
      BY DEF BaseInv, MemTypes
    <2> QED
      BY <1>1, <1>2, <2>1, ChainStable
  <1> QED
    BY <1>3, <1>4, <1>5, <1>6, <1>7 DEF BaseInv

\* An exit leaves an empty scroll in memory, and the database as it is.
LEMMA ExitInv ==
  ASSUME BaseInv, Exit, UNCHANGED bound
  PROVE  BaseInv'
  <1>1. /\ alive' = FALSE /\ ~alive' /\ conf' = NewScroll /\ saved' = <<>> /\ nextc' = 1
        /\ mem' = {} /\ hold' = "free" /\ hload' = <<0, 0>> /\ merge' = NoMerge
        /\ loaded' = [p \in Cfid \X Seqs |-> "no"]
        /\ qdecl' = {} /\ qrm' = {} /\ dbq' = <<>> /\ tx' = NoTx /\ asleep' = TRUE
        /\ dropped' = {}
        /\ torn' \subseteq torn \cup DOMAIN rows /\ UNCHANGED <<rows, decls, blobs>>
    <2>1. DOMAIN NewScroll = {0} /\ NewScroll[0].top = -1
      BY DEF NewScroll, Root
    <2>2. (CHOOSE m \in {0} : \A d \in {0} : d <= m) = 0
      OBVIOUS
    <2> QED
      BY <2>1, <2>2 DEF Exit, EmptyMemory, dbVars
  <1>2. /\ Forest(NewScroll) /\ DOMAIN NewScroll = {0}
        /\ MaxCfid \in Nat /\ 0 \in Cfid /\ 0 \in Seqs
    <2>1. MaxCfid \in Nat /\ 0 \in Cfid /\ 0 \in Seqs
      BY BoundsAssumption DEF Cfid, Seqs
    <2>2. Root \in Conflict /\ Root.parent = 0 /\ Root.pseq = -1
      BY <2>1 DEF Root, Conflict, History
    <2>3. /\ DOMAIN NewScroll = {0} /\ NewScroll = [c \in DOMAIN NewScroll |-> NewScroll[c]]
          /\ NewScroll[0] = Root
      BY DEF NewScroll
    <2>4. NewScroll \in ConfSet
      BY <2>1, <2>2, <2>3, ConfIntro
    <2> QED
      BY <2>1, <2>2, <2>3, <2>4 DEF Forest
  <1>3. MemTypes'
    <2>1. <<>> \in ConfSet
      <3>1. DOMAIN <<>> = {}
        OBVIOUS
      <3> QED
        BY <3>1 DEF ConfSet
    <2> QED
      BY <1>1, <1>2, <2>1 DEF BaseInv, MemTypes
  <1>4. DbTypes'
    <2>1. DOMAIN rows \subseteq Cfid
      BY ConfType, ForestType DEF BaseInv, DbTypes, Loadable
    <2>2. dbq' \in Seq(DbUpdate) /\ tx' = NoTx
      BY <1>1
    <2>3. alive' \in BOOLEAN /\ asleep' \in BOOLEAN
      BY <1>1
    <2>4. torn' \subseteq Cfid
      BY <1>1, <2>1 DEF BaseInv, DbTypes
    <2>5. rows' = rows /\ decls' = decls /\ blobs' = blobs
      BY <1>1
    <2> QED
      BY <2>2, <2>3, <2>4, <2>5 DEF BaseInv, DbTypes
  <1>5. Fresh' /\ MergeRight' /\ EmptyRight' /\ DeadRight'
    BY <1>1, <1>2 DEF Fresh, MergeRight, EmptyRight, DeadRight
  <1>6. IdleRight'
    <2>1. NewScroll[0].top = -1
      BY DEF NewScroll, Root
    <2> QED
      BY <1>1, <2>1 DEF IdleRight
  <1>7. Chain'
    BY <1>1 DEF Chain, NoTx
  <1> QED
    BY <1>3, <1>4, <1>5, <1>6, <1>7 DEF BaseInv

LEMMA EndLoadInv ==
  ASSUME BaseInv, UNCHANGED bound, NEW c \in Cfid, NEW s \in Seqs, EndLoad(c, s)
  PROVE  BaseInv'
  <1>1. CASE Exit
    BY <1>1, ExitInv
  <1>2. CASE ~Exit
    <2> DEFINE new == Stored(c, s) \ InMem(c, s)
    <2>1. /\ alive /\ loaded[c, s] = "busy"
          /\ Stored(c, s) = {} \/ c \in live
          /\ mem' = mem \cup {<<c, s, f>> : f \in new}
          /\ loaded' = [loaded EXCEPT ![<<c, s>>] = "yes"]
      BY <1>2 DEF EndLoad
    <2>2. UNCHANGED <<conf, nextc, merge, hold, hload, saved, qdecl, qrm, dbq, tx,
                      asleep, rows, decls, blobs, alive, torn, dropped>>
      BY <1>2 DEF EndLoad, lockVars, queueVars, updaterVars, dbVars, lifeVars
    <2>3. new \subseteq Facts /\ (c \in live \/ new = {})
      BY <2>1 DEF Stored
    <2> HIDE DEF new
    <2>10. alive /\ alive' /\ mem' = mem \cup {<<c, s, f>> : f \in new}
      BY <2>1, <2>2
    <2>4. MemTypes'
      <3>1. loaded' \in [Cfid \X Seqs -> {"no", "busy", "yes"}]
        BY <2>1 DEF BaseInv, MemTypes
      <3>2. mem' \subseteq Cfid \X Seqs \X (Facts \cup Frames)
        BY <2>10, <2>3 DEF BaseInv, MemTypes
      <3> QED
        BY <2>2, <3>1, <3>2 DEF BaseInv, MemTypes
    <2>5. DbTypes' /\ DeadRight'
      BY <2>1, <2>2 DEF BaseInv, DbTypes, DeadRight
    <2>6. Fresh'
      <3>1. \A m \in mem' : m[1] \in live
        BY <2>10, <2>3 DEF BaseInv, Fresh
      <3> QED
        BY <2>2, <3>1 DEF BaseInv, Fresh
    <2>7. MergeRight' /\ IdleRight'
      BY <2>2 DEF BaseInv, MergeRight, IdleRight
    <2>8. EmptyRight'
      <3>1. <<c, s>> \in DOMAIN loaded
        BY DEF BaseInv, MemTypes
      <3>2. conf[0].top # -1
        BY <2>1, <3>1 DEF BaseInv, EmptyRight
      <3> QED
        BY <2>2, <3>2 DEF EmptyRight
    <2>9. Chain'
      <3>1. nextc \in Nat
        BY DEF BaseInv, MemTypes
      <3> QED
        BY <2>10, <2>2, <3>1, ChainStable
    <2> QED
      BY <2>4, <2>5, <2>6, <2>7, <2>8, <2>9 DEF BaseInv
  <1> QED
    BY <1>1, <1>2

LEMMA TxBeginInv == BaseInv /\ TxBegin /\ UNCHANGED bound => BaseInv'
  <1> SUFFICES ASSUME BaseInv, TxBegin, UNCHANGED bound PROVE BaseInv'
    OBVIOUS
  <1>1. /\ alive /\ dbq # <<>>
        /\ tx' = [stage |-> "read", todo |-> Head(dbq).decl, done |-> {},
                  facts |-> {}, blob |-> {}]
    BY DEF TxBegin
  <1>2. UNCHANGED <<conf, nextc, mem, merge, hold, hload, saved, loaded, qdecl, qrm,
                    dbq, asleep, rows, decls, blobs, alive, torn, dropped>>
    BY DEF TxBegin, scrollVars, lockVars, queueVars, dbVars, lifeVars
  <1>3. DbTypes'
    <2>1. Head(dbq) \in DbUpdate
      BY <1>1 DEF BaseInv, DbTypes
    <2>2. tx' \in Tx
      BY <1>1, <2>1 DEF Tx, DbUpdate
    <2> QED
      BY <1>1, <1>2, <2>2 DEF BaseInv, DbTypes
  <1>4. MemTypes' /\ Fresh' /\ MergeRight' /\ EmptyRight' /\ IdleRight' /\ DeadRight'
    BY <1>1, <1>2
       DEF BaseInv, MemTypes, Fresh, MergeRight, EmptyRight, IdleRight, DeadRight
  <1>5. Chain'
    <2>1. nextc \in Nat
      BY DEF BaseInv, MemTypes
    <2>2. tx'.stage # "blobs"
      BY <1>1
    <2> QED
      BY <1>1, <1>2, <2>1, <2>2, ChainStable
  <1> QED
    BY <1>3, <1>4, <1>5 DEF BaseInv

LEMMA TxStage ==
  BaseInv => /\ tx.stage # "idle" => tx \in Tx /\ dbq # <<>>
             /\ tx.stage \in {"idle", "read", "blobs"}
  BY DEF BaseInv, DbTypes, NoTx, Tx

LEMMA TxReadInv == BaseInv /\ TxRead /\ UNCHANGED bound => BaseInv'
  <1> SUFFICES ASSUME BaseInv, TxRead, UNCHANGED bound PROVE BaseInv'
    OBVIOUS
  <1>1. alive /\ tx.stage = "read"
    BY DEF TxRead
  <1>2. UNCHANGED <<conf, nextc, mem, merge, hold, hload, saved, loaded, qdecl, qrm,
                    dbq, asleep, rows, decls, blobs, alive, torn, dropped>>
    BY DEF TxRead, scrollVars, lockVars, queueVars, dbVars, lifeVars
  <1>3. tx \in Tx /\ dbq # <<>> /\ Forest(conf)
    BY <1>1, TxStage DEF BaseInv, MemTypes
  <1>4. tx' \in Tx /\ tx'.stage = "read"
    <2>1. PICK p \in tx.todo :
            \/ /\ p[1] \in live
               /\ tx' = [tx EXCEPT
                   !.todo = @ \ {p}, !.done = @ \cup {p},
                   !.facts = @ \cup {<<p[1], p[2], f>> :
                                       f \in InMem(p[1], p[2]) \cap Facts},
                   !.blob = @ \cup IF "buf" \in InMem(p[1], p[2])
                                   THEN {<<Blob(conf[p[1]].hist, p[2]), p[1]>>} ELSE {}]
            \/ tx' = [tx EXCEPT !.todo = @ \ {p}]
      BY DEF TxRead
    <2>2. p[1] \in Cfid /\ p[2] \in Seqs /\ p \in Cfid \X Seqs
      BY <1>3 DEF Tx
    <2>3. CASE tx' = [tx EXCEPT !.todo = @ \ {p}]
      BY <1>1, <1>3, <2>3 DEF Tx
    <2>4. ASSUME p[1] \in live,
                 NEW F, F = {<<p[1], p[2], f>> : f \in InMem(p[1], p[2]) \cap Facts},
                 NEW B, B = IF "buf" \in InMem(p[1], p[2])
                            THEN {<<Blob(conf[p[1]].hist, p[2]), p[1]>>} ELSE {},
                 tx' = [tx EXCEPT !.todo = @ \ {p}, !.done = @ \cup {p},
                                  !.facts = @ \cup F, !.blob = @ \cup B]
          PROVE  tx' \in Tx /\ tx'.stage = "read"
      <3>1. F \subseteq Cfid \X Seqs \X Facts
        BY <2>2, <2>4
      <3>2. B \subseteq (History \X Seqs) \X Cfid
        <4>1. conf[p[1]].hist \in History
          BY <1>3, <2>4, ForestType
        <4>2. Blob(conf[p[1]].hist, p[2]) \in History \X Seqs
          BY <2>2, <4>1 DEF Blob, HistAt, History
        <4> QED
          BY <2>2, <2>4, <4>2
      <3> QED
        BY <1>1, <1>3, <2>2, <2>4, <3>1, <3>2 DEF Tx
    <2> QED
      BY <2>1, <2>3, <2>4
  <1>5. DbTypes'
    BY <1>2, <1>3, <1>4 DEF BaseInv, DbTypes
  <1>6. MemTypes' /\ Fresh' /\ MergeRight' /\ EmptyRight' /\ IdleRight' /\ DeadRight'
    BY <1>1, <1>2
       DEF BaseInv, MemTypes, Fresh, MergeRight, EmptyRight, IdleRight, DeadRight
  <1>7. Chain'
    <2>1. nextc \in Nat
      BY DEF BaseInv, MemTypes
    <2> QED
      BY <1>1, <1>2, <1>4, <2>1, ChainStable
  <1> QED
    BY <1>5, <1>6, <1>7 DEF BaseInv

LEMMA TxBlobInv == BaseInv /\ TxBlob /\ UNCHANGED bound => BaseInv'
  <1> SUFFICES ASSUME BaseInv, TxBlob, UNCHANGED bound PROVE BaseInv'
    OBVIOUS
  <1>1. alive /\ tx.stage = "blobs"
    BY DEF TxBlob
  <1>2. UNCHANGED <<conf, nextc, mem, merge, hold, hload, saved, loaded, qdecl, qrm,
                    dbq, asleep, rows, decls, alive, torn, dropped>>
    BY DEF TxBlob, scrollVars, lockVars, queueVars, lifeVars
  <1>3. tx \in Tx /\ dbq # <<>> /\ live \subseteq Cfid
    BY <1>1, TxStage, ForestType DEF BaseInv, MemTypes
  <1>4. PICK b \in {p[1] : p \in tx.blob} :
          LET owners == {p \in tx.blob : p[1] = b} IN
          /\ blobs' = blobs \cup
               {<<b, i>> : i \in (0 .. Cardinality(owners) - 1) \cap live}
          /\ tx' = [tx EXCEPT !.blob = @ \ owners]
    BY DEF TxBlob
  <1>5. tx' \in Tx
    <2> DEFINE owners == {p \in tx.blob : p[1] = b}
    <2>1. tx' = [tx EXCEPT !.blob = @ \ owners]
      BY <1>4
    <2> HIDE DEF owners
    <2> QED
      BY <1>3, <2>1 DEF Tx
  <1>6. blobs' \subseteq (History \X Seqs) \X Cfid
    <2>1. b \in History \X Seqs
      BY <1>3, <1>4 DEF Tx
    <2>2. blobs' \subseteq blobs \cup {<<b, i>> : i \in live}
      BY <1>4
    <2> QED
      BY <1>3, <2>1, <2>2 DEF BaseInv, DbTypes
  <1>7. DbTypes'
    BY <1>2, <1>3, <1>5, <1>6 DEF BaseInv, DbTypes
  <1>8. MemTypes' /\ Fresh' /\ MergeRight' /\ EmptyRight' /\ IdleRight' /\ DeadRight'
    BY <1>1, <1>2
       DEF BaseInv, MemTypes, Fresh, MergeRight, EmptyRight, IdleRight, DeadRight
  <1>9. Chain'
    <2>1. nextc \in Nat
      BY DEF BaseInv, MemTypes
    <2> QED
      BY <1>1, <1>2, <2>1, ChainStable
  <1> QED
    BY <1>7, <1>8, <1>9 DEF BaseInv

LEMMA OverType ==
  ASSUME NEW f \in ConfSet, NEW g \in ConfSet
  PROVE  /\ Over(f, g) \in ConfSet /\ DOMAIN Over(f, g) = DOMAIN f \cup DOMAIN g
         /\ \A c \in DOMAIN f : Over(f, g)[c] = f[c]
         /\ \A c \in DOMAIN g \ DOMAIN f : Over(f, g)[c] = g[c]
  <1> DEFINE h == Over(f, g)
  <1>1. /\ h = [c \in DOMAIN h |-> h[c]] /\ DOMAIN h = DOMAIN f \cup DOMAIN g
        /\ \A c \in DOMAIN f : h[c] = f[c]
        /\ \A c \in DOMAIN g \ DOMAIN f : h[c] = g[c]
    BY DEF Over
  <1> HIDE DEF h
  <1>2. /\ \A c \in DOMAIN f : c \in Cfid /\ f[c] \in Conflict
        /\ \A c \in DOMAIN g : c \in Cfid /\ g[c] \in Conflict
    BY ConfType
  <1>3. DOMAIN h \subseteq Cfid /\ \A c \in DOMAIN h : h[c] \in Conflict
    BY <1>1, <1>2
  <1>4. h \in ConfSet
    BY <1>1, <1>3, ConfIntro
  <1> QED
    BY <1>1, <1>4 DEF h

LEMMA RestrictType ==
  ASSUME NEW g \in ConfSet, NEW S \in SUBSET DOMAIN g
  PROVE  /\ Restrict(g, S) \in ConfSet /\ DOMAIN Restrict(g, S) = S
         /\ \A c \in S : Restrict(g, S)[c] = g[c]
  <1> DEFINE h == Restrict(g, S)
  <1>1. /\ h = [c \in DOMAIN h |-> h[c]] /\ DOMAIN h = S
        /\ \A c \in S : h[c] = g[c]
    BY DEF Restrict
  <1> HIDE DEF h
  <1>2. \A c \in DOMAIN g : c \in Cfid /\ g[c] \in Conflict
    BY ConfType
  <1>3. DOMAIN h \subseteq Cfid /\ \A c \in DOMAIN h : h[c] \in Conflict
    BY <1>1, <1>2
  <1>4. h \in ConfSet
    BY <1>1, <1>3, ConfIntro
  <1> QED
    BY <1>1, <1>4 DEF h

LEMMA ConfEqual ==
  ASSUME NEW f \in ConfSet, NEW g \in ConfSet, DOMAIN f = DOMAIN g,
         \A c \in DOMAIN f : f[c] = g[c]
  PROVE  f = g
  <1>1. f = [c \in DOMAIN f |-> f[c]] /\ g = [c \in DOMAIN g |-> g[c]]
    BY ConfType
  <1> QED
    BY <1>1

LEMMA RowsAfterType ==
  ASSUME NEW e \in DbUpdate, NEW r \in ConfSet
  PROVE  /\ RowsAfter(e, r) \in ConfSet
         /\ DOMAIN RowsAfter(e, r) = DOMAIN e.cf \cup (DOMAIN r \ e.rm)
         /\ \A c \in DOMAIN e.cf : RowsAfter(e, r)[c] = e.cf[c]
         /\ \A c \in (DOMAIN r \ e.rm) \ DOMAIN e.cf : RowsAfter(e, r)[c] = r[c]
  <1> DEFINE f == e.cf
             g == Restrict(r, DOMAIN r \ e.rm)
  <1>1. f \in ConfSet
    BY DEF DbUpdate
  <1>2. /\ g \in ConfSet /\ DOMAIN g = DOMAIN r \ e.rm
        /\ \A c \in DOMAIN r \ e.rm : g[c] = r[c]
    BY RestrictType
  <1>3. RowsAfter(e, r) = Over(f, g) /\ f = e.cf
    BY DEF RowsAfter
  <1> HIDE DEF f, g
  <1>4. /\ Over(f, g) \in ConfSet /\ DOMAIN Over(f, g) = DOMAIN f \cup DOMAIN g
        /\ \A c \in DOMAIN f : Over(f, g)[c] = f[c]
        /\ \A c \in DOMAIN g \ DOMAIN f : Over(f, g)[c] = g[c]
    BY <1>1, <1>2, OverType
  <1> QED
    BY <1>2, <1>3, <1>4

\* An update can be written twice.
LEMMA RowsTwice ==
  ASSUME NEW e \in DbUpdate, NEW r \in ConfSet
  PROVE  RowsAfter(e, RowsAfter(e, r)) = RowsAfter(e, r)
  <1> DEFINE r1 == RowsAfter(e, r)
             r2 == RowsAfter(e, r1)
  <1>1. /\ r1 \in ConfSet
        /\ DOMAIN r1 = DOMAIN e.cf \cup (DOMAIN r \ e.rm)
        /\ \A c \in DOMAIN e.cf : r1[c] = e.cf[c]
    BY RowsAfterType
  <1>2. /\ r2 \in ConfSet
        /\ DOMAIN r2 = DOMAIN e.cf \cup (DOMAIN r1 \ e.rm)
        /\ \A c \in DOMAIN e.cf : r2[c] = e.cf[c]
        /\ \A c \in (DOMAIN r1 \ e.rm) \ DOMAIN e.cf : r2[c] = r1[c]
    BY <1>1, RowsAfterType
  <1> HIDE DEF r1, r2
  <1>3. DOMAIN r2 = DOMAIN r1 /\ \A c \in DOMAIN r2 : r2[c] = r1[c]
    BY <1>1, <1>2
  <1>4. r2 = r1
    BY <1>1, <1>2, <1>3, ConfEqual
  <1> QED
    BY <1>4 DEF r1, r2

\* Once what end_update queues is written, the rows are the conflicts.
LEMMA NewRows ==
  ASSUME BaseInv, NEW r \in ConfSet, saved = Restrict(r, DOMAIN r \ qrm),
         NEW e, e = [cf |-> ChangedRows, rm |-> qrm, decl |-> qdecl]
  PROVE  e \in DbUpdate /\ e.decl = qdecl /\ e.rm = qrm /\ RowsAfter(e, r) = conf
  <1> DEFINE S == {c \in live : c \notin DOMAIN saved \/ saved[c] # conf[c]}
  <1>1. conf \in ConfSet
    BY DEF BaseInv, MemTypes, Forest
  <1>2. S \in SUBSET DOMAIN conf /\ ChangedRows = Restrict(conf, S)
    BY DEF ChangedRows
  <1>3. ChangedRows \in ConfSet /\ DOMAIN ChangedRows = S
        /\ \A c \in S : ChangedRows[c] = conf[c]
    <2> HIDE DEF S
    <2> QED
      BY <1>1, <1>2, RestrictType
  <1>4. e \in DbUpdate /\ e.cf = ChangedRows /\ e.rm = qrm /\ e.decl = qdecl
    BY <1>3 DEF BaseInv, MemTypes, DbUpdate
  <1>5. /\ RowsAfter(e, r) \in ConfSet
        /\ DOMAIN RowsAfter(e, r) = DOMAIN ChangedRows \cup (DOMAIN r \ qrm)
        /\ \A c \in DOMAIN ChangedRows : RowsAfter(e, r)[c] = ChangedRows[c]
        /\ \A c \in (DOMAIN r \ qrm) \ DOMAIN ChangedRows : RowsAfter(e, r)[c] = r[c]
    BY <1>4, RowsAfterType
  <1>6. /\ DOMAIN saved = DOMAIN r \ qrm
        /\ \A c \in DOMAIN saved : saved[c] = r[c]
    BY DEF Restrict
  <1>7. DOMAIN saved \subseteq live
    BY DEF BaseInv, MemTypes
  <1>8. /\ DOMAIN RowsAfter(e, r) = live
        /\ \A c \in live : RowsAfter(e, r)[c] = conf[c]
    BY <1>3, <1>5, <1>6, <1>7
  <1> QED
    BY <1>1, <1>4, <1>5, <1>8, ConfEqual

LEMMA UnlockInv == BaseInv /\ Unlock /\ UNCHANGED bound => BaseInv'
  <1> SUFFICES ASSUME BaseInv, Unlock, UNCHANGED bound PROVE BaseInv'
    OBVIOUS
  <1>1. alive /\ hold \in {"put", "load"} /\ hold' = "free" /\ merge = NoMerge
    BY MergeOff DEF Unlock, Putting, BaseInv, IdleRight
  <1>2. UNCHANGED <<conf, nextc, mem, merge, hload, loaded, tx,
                    rows, decls, blobs, alive, torn, dropped>>
    BY DEF Unlock, scrollVars, dbVars, lifeVars
  <1>3. Forest(conf) /\ live \subseteq Cfid /\ live \subseteq Nat /\ 0 \in live
        /\ conf \in ConfSet
    BY ForestType DEF BaseInv, MemTypes, Forest
  <1>4. CASE conf[0].top = -1
    <2>1. UNCHANGED <<saved, qdecl, qrm, dbq, asleep>>
      BY <1>4 DEF Unlock, EndUpdate, queueVars
    <2>2. MemTypes' /\ DbTypes' /\ Fresh' /\ MergeRight' /\ EmptyRight'
      BY <1>1, <1>2, <2>1
         DEF BaseInv, MemTypes, DbTypes, Fresh, MergeRight, EmptyRight
    <2>3. IdleRight' /\ DeadRight'
      BY <1>1, <1>2, <1>4, <2>1 DEF BaseInv, IdleRight, EmptyRight, DeadRight
    <2>4. Chain'
      <3>1. nextc \in Nat
        BY DEF BaseInv, MemTypes
      <3> QED
        BY <1>1, <1>2, <2>1, <3>1, ChainStable
    <2> QED
      BY <2>2, <2>3, <2>4 DEF BaseInv
  <1>5. CASE conf[0].top # -1
    <2> DEFINE e == [cf |-> ChangedRows, rm |-> qrm, decl |-> qdecl]
               n == Len(dbq)
    <2>1. /\ dbq' = Append(dbq, e) /\ asleep' = FALSE
          /\ saved' = conf /\ qdecl' = {} /\ qrm' = {}
      BY <1>5 DEF Unlock, EndUpdate, ScheduleDbUpdate
    <2>3. e \in DbUpdate
      <3>1. PICK snap : Snaps(snap)
        BY <1>1 DEF BaseInv, Chain
      <3>2. snap[n] \in ConfSet /\ saved = Restrict(snap[n], DOMAIN snap[n] \ qrm)
        <4>1. n \in Nat
          BY DEF BaseInv, DbTypes
        <4> QED
          BY <3>1, <4>1 DEF Snaps
      <3> HIDE DEF n
      <3> QED
        BY <3>2, NewRows
    <2>4. e.rm = qrm /\ e.decl = qdecl
      OBVIOUS
    <2> HIDE DEF e
    <2>5. /\ dbq \in Seq(DbUpdate) /\ dbq' \in Seq(DbUpdate) /\ n \in Nat
          /\ Len(dbq') = n + 1 /\ dbq'[n + 1] = e /\ dbq' # <<>>
          /\ \A i \in 1 .. n : dbq'[i] = dbq[i]
          /\ DOMAIN dbq = 1 .. n /\ DOMAIN dbq' = 1 .. n + 1
      BY <2>1, <2>3 DEF BaseInv, DbTypes
    <2> HIDE DEF n
    <2>6. MemTypes'
      BY <1>1, <1>2, <1>3, <2>1 DEF BaseInv, MemTypes
    <2>7. DbTypes'
      BY <1>2, <2>1, <2>5 DEF BaseInv, DbTypes
    <2>8. Fresh'
      <3>1. ASSUME NEW i \in DOMAIN dbq'
            PROVE  /\ \A p \in dbq'[i].decl : p[1] < nextc
                   /\ \A c \in dbq'[i].rm : c < nextc /\ c \notin live
        <4>1. CASE i = n + 1
          BY <2>4, <2>5, <4>1 DEF BaseInv, Fresh
        <4>2. CASE i # n + 1
          <5>1. i \in DOMAIN dbq /\ dbq'[i] = dbq[i]
            BY <2>5, <3>1, <4>2
          <5> QED
            BY <5>1 DEF BaseInv, Fresh
        <4> QED
          BY <4>1, <4>2
      <3> QED
        BY <1>2, <2>1, <3>1 DEF BaseInv, Fresh
    <2>9. MergeRight' /\ EmptyRight' /\ IdleRight' /\ DeadRight'
      BY <1>1, <1>2, <1>5, <2>1 DEF MergeRight, EmptyRight, IdleRight, DeadRight
    <2>10. Chain'
      <3>1. PICK snap : Snaps(snap)
        BY <1>1 DEF BaseInv, Chain
      <3>2. /\ snap \in [0 .. n -> ConfSet] /\ snap[0] = rows
            /\ \A i \in 1 .. n :
                 /\ snap[i] = RowsAfter(dbq[i], snap[i - 1])
                 /\ \A p \in dbq[i].decl : p[1] \in live => p[1] \in DOMAIN snap[i]
            /\ \A i \in 0 .. n :
                 Loadable(snap[i]) /\ \A c \in DOMAIN snap[i] : c < nextc
            /\ qrm \subseteq DOMAIN snap[n]
            /\ saved = Restrict(snap[n], DOMAIN snap[n] \ qrm)
        BY <3>1 DEF Snaps, n
      <3>11. PICK new : new = [i \in 0 .. n + 1 |-> IF i <= n THEN snap[i] ELSE conf]
        OBVIOUS
      <3>3. RowsAfter(e, snap[n]) = conf
        <4>1. snap[n] \in ConfSet
          BY <2>5, <3>2
        <4> QED
          BY <3>2, <4>1, NewRows DEF e
      <3>4. /\ new \in [0 .. n + 1 -> ConfSet] /\ new[n + 1] = conf
            /\ \A i \in 0 .. n : new[i] = snap[i]
            /\ DOMAIN new[n + 1] = live
        BY <1>3, <2>5, <3>2, <3>11
      <3>5. ASSUME NEW i \in 1 .. n + 1
            PROVE  /\ new[i] = RowsAfter(dbq'[i], new[i - 1])
                   /\ \A p \in dbq'[i].decl : p[1] \in live => p[1] \in DOMAIN new[i]
        <4>1. CASE i = n + 1
          BY <2>5, <3>3, <3>4, <4>1
        <4>2. CASE i # n + 1
          <5>1. i \in 1 .. n /\ i \in 0 .. n /\ i - 1 \in 0 .. n
            BY <2>5, <3>5, <4>2
          <5> QED
            BY <2>5, <3>2, <3>4, <5>1
        <4> QED
          BY <4>1, <4>2
      <3>6. ASSUME NEW i \in 0 .. n + 1
            PROVE  Loadable(new[i]) /\ \A c \in DOMAIN new[i] : c < nextc
        <4>1. CASE i = n + 1
          BY <1>3, <1>5, <3>4, <4>1 DEF Loadable, BaseInv, Fresh
        <4>2. CASE i # n + 1
          <5>1. i \in 0 .. n
            BY <2>5, <3>6, <4>2
          <5> QED
            BY <3>2, <3>4, <5>1
        <4> QED
          BY <4>1, <4>2
      <3>7. Restrict(new[n + 1], DOMAIN new[n + 1] \ {}) = conf
        <4>1. conf = [c \in live |-> conf[c]]
          BY <1>3, ForestType
        <4> QED
          BY <3>4, <4>1 DEF Restrict
      <3>8. new[0] = rows
        BY <2>5, <3>2, <3>4
      <3>9. Snaps(new)'
        <4>1. Len(dbq') = n + 1 /\ rows' = rows /\ live' = live /\ nextc' = nextc
              /\ qrm' = {} /\ saved' = conf
          BY <1>2, <2>1, <2>5
        <4>2. /\ new \in [0 .. Len(dbq') -> ConfSet]
              /\ new[0] = rows'
              /\ \A i \in 1 .. Len(dbq') :
                   /\ new[i] = RowsAfter(dbq'[i], new[i - 1])
                   /\ \A p \in dbq'[i].decl : p[1] \in live' => p[1] \in DOMAIN new[i]
              /\ \A i \in 0 .. Len(dbq') :
                   Loadable(new[i]) /\ \A c \in DOMAIN new[i] : c < nextc'
          BY <3>4, <3>5, <3>6, <3>8, <4>1
        <4>3. /\ qrm' \subseteq DOMAIN new[Len(dbq')]
              /\ saved' = Restrict(new[Len(dbq')], DOMAIN new[Len(dbq')] \ qrm')
          BY <3>7, <4>1
        <4> QED
          BY <4>2, <4>3 DEF Snaps
      <3>10. (tx.stage = "blobs" => rows = RowsAfter(Head(dbq), rows))'
        <4>1. tx.stage = "blobs" => dbq # <<>> /\ rows = RowsAfter(Head(dbq), rows)
          BY TxStage DEF BaseInv, Chain
        <4>2. dbq # <<>> => Head(dbq') = Head(dbq)
          BY <2>1, <2>5
        <4> QED
          BY <1>2, <4>1, <4>2
      <3> QED
        BY <3>9, <3>10 DEF Chain
    <2> QED
      BY <2>6, <2>7, <2>8, <2>9, <2>10 DEF BaseInv
  <1> QED
    BY <1>4, <1>5

LEMMA TxCommitInv == BaseInv /\ TxCommit /\ UNCHANGED bound => BaseInv'
  <1> SUFFICES ASSUME BaseInv, TxCommit, UNCHANGED bound PROVE BaseInv'
    OBVIOUS
  <1> DEFINE e == Head(dbq)
             n == Len(dbq)
  <1>1. /\ alive /\ tx.stage = "read" /\ rows' = RowsAfter(e, rows)
        /\ decls' \subseteq decls \cup tx.facts
        /\ tx' = [tx EXCEPT !.stage = "blobs"]
    BY DEF TxCommit, CommitRows, CommitDecls, RowsAfter
  <1>2. UNCHANGED <<conf, nextc, mem, merge, hold, hload, saved, loaded, qdecl, qrm,
                    dbq, asleep, blobs, alive, torn, dropped>>
    BY DEF TxCommit, scrollVars, lockVars, queueVars, lifeVars
  <1>3. tx \in Tx /\ dbq # <<>> /\ dbq \in Seq(DbUpdate)
    BY <1>1, TxStage DEF BaseInv, DbTypes
  <1>4. /\ e \in DbUpdate /\ n \in Nat /\ n >= 1 /\ e = dbq[1] /\ 1 \in DOMAIN dbq
        /\ DOMAIN dbq = 1 .. n
    BY <1>3
  <1> HIDE DEF e, n
  <1>5. PICK snap : Snaps(snap)
    BY <1>1 DEF BaseInv, Chain
  <1>6. /\ snap \in [0 .. n -> ConfSet] /\ snap[0] = rows
        /\ \A i \in 1 .. n :
             /\ snap[i] = RowsAfter(dbq[i], snap[i - 1])
             /\ \A p \in dbq[i].decl : p[1] \in live => p[1] \in DOMAIN snap[i]
        /\ \A i \in 0 .. n :
             Loadable(snap[i]) /\ \A c \in DOMAIN snap[i] : c < nextc
        /\ qrm \subseteq DOMAIN snap[n]
        /\ saved = Restrict(snap[n], DOMAIN snap[n] \ qrm)
    BY <1>5 DEF Snaps, n
  <1>7. /\ rows' = snap[1] /\ snap[1] \in ConfSet /\ Loadable(rows')
        /\ RowsAfter(e, snap[1]) = snap[1] /\ rows \in ConfSet
    <2>1. 1 \in 1 .. n /\ 1 \in 0 .. n /\ 1 - 1 = 0 /\ 0 \in 0 .. n
      BY <1>4
    <2>2. rows' = snap[1] /\ snap[1] \in ConfSet /\ rows \in ConfSet
      BY <1>1, <1>4, <1>6, <2>1
    <2> QED
      BY <1>1, <1>4, <1>6, <2>1, <2>2, RowsTwice
  <1>8. tx' \in Tx
    BY <1>1, <1>3 DEF Tx
  <1>9. DbTypes'
    <2>1. decls' \subseteq Cfid \X Seqs \X Facts
      BY <1>1, <1>3 DEF BaseInv, DbTypes, Tx
    <2> QED
      BY <1>2, <1>3, <1>7, <1>8, <2>1 DEF BaseInv, DbTypes
  <1>10. MemTypes' /\ Fresh' /\ MergeRight' /\ EmptyRight' /\ IdleRight' /\ DeadRight'
    BY <1>1, <1>2
       DEF BaseInv, MemTypes, Fresh, MergeRight, EmptyRight, IdleRight, DeadRight
  <1>11. Chain'
    <2>7. PICK new : new = [i \in 0 .. n |-> IF i = 0 THEN snap[1] ELSE snap[i]]
      OBVIOUS
    <2>1. /\ new \in [0 .. n -> ConfSet] /\ new[0] = snap[1]
          /\ \A i \in 1 .. n : new[i] = snap[i]
      BY <1>4, <1>6, <1>7, <2>7
    <2>2. ASSUME NEW i \in 1 .. n
          PROVE  /\ new[i] = RowsAfter(dbq[i], new[i - 1])
                 /\ \A p \in dbq[i].decl : p[1] \in live => p[1] \in DOMAIN new[i]
      <3>1. CASE i = 1
        <4>1. 1 \in 1 .. n /\ 1 - 1 = 0
          BY <1>4
        <4> QED
          BY <1>4, <1>6, <1>7, <2>1, <3>1, <4>1
      <3>2. CASE i # 1
        <4>1. i \in 1 .. n /\ i - 1 \in 1 .. n
          BY <1>4, <3>2
        <4> QED
          BY <1>6, <2>1, <4>1
      <3> QED
        BY <3>1, <3>2
    <2>3. ASSUME NEW i \in 0 .. n
          PROVE  Loadable(new[i]) /\ \A c \in DOMAIN new[i] : c < nextc
      <3>1. 1 \in 0 .. n
        BY <1>4
      <3>2. new[i] = IF i = 0 THEN snap[1] ELSE snap[i]
        BY <1>4, <2>1
      <3> QED
        BY <1>6, <3>1, <3>2
    <2>4. new[n] = snap[n]
      BY <1>4, <2>1
    <2>5. Snaps(new)'
      <3>1. Len(dbq') = n /\ rows' = new[0] /\ live' = live /\ nextc' = nextc
            /\ qrm' = qrm /\ saved' = saved /\ dbq' = dbq
        BY <1>2, <1>7, <2>1 DEF n
      <3>2. /\ new \in [0 .. Len(dbq') -> ConfSet]
            /\ new[0] = rows'
            /\ \A i \in 1 .. Len(dbq') :
                 /\ new[i] = RowsAfter(dbq'[i], new[i - 1])
                 /\ \A p \in dbq'[i].decl : p[1] \in live' => p[1] \in DOMAIN new[i]
            /\ \A i \in 0 .. Len(dbq') :
                 Loadable(new[i]) /\ \A c \in DOMAIN new[i] : c < nextc'
        BY <2>1, <2>2, <2>3, <3>1
      <3>3. /\ qrm' \subseteq DOMAIN new[Len(dbq')]
            /\ saved' = Restrict(new[Len(dbq')], DOMAIN new[Len(dbq')] \ qrm')
        BY <1>6, <2>4, <3>1
      <3> QED
        BY <3>2, <3>3 DEF Snaps
    <2>6. (tx.stage = "blobs" => rows = RowsAfter(Head(dbq), rows))'
      BY <1>2, <1>7 DEF e
    <2> QED
      BY <2>5, <2>6 DEF Chain
  <1> QED
    BY <1>9, <1>10, <1>11 DEF BaseInv

LEMMA TxEndInv == BaseInv /\ TxEnd /\ UNCHANGED bound => BaseInv'
  <1> SUFFICES ASSUME BaseInv, TxEnd, UNCHANGED bound PROVE BaseInv'
    OBVIOUS
  <1> DEFINE n == Len(dbq)
  <1>1. /\ alive /\ tx.stage = "blobs" /\ dbq' = Tail(dbq) /\ tx' = NoTx
        /\ asleep' = (Len(dbq) = 1)
    BY DEF TxEnd
  <1>2. UNCHANGED <<conf, nextc, mem, merge, hold, hload, saved, loaded, qdecl, qrm,
                    rows, decls, blobs, alive, torn, dropped>>
    BY DEF TxEnd, scrollVars, lockVars, queueVars, dbVars, lifeVars
  <1>3. dbq # <<>> /\ dbq \in Seq(DbUpdate) /\ rows = RowsAfter(Head(dbq), rows)
    BY <1>1, TxStage DEF BaseInv, DbTypes, Chain
  <1>4. /\ n \in Nat /\ n >= 1 /\ Head(dbq) = dbq[1] /\ DOMAIN dbq = 1 .. n
        /\ dbq' \in Seq(DbUpdate) /\ Len(dbq') = n - 1
        /\ DOMAIN dbq' = 1 .. n - 1 /\ \A i \in 1 .. n - 1 : dbq'[i] = dbq[i + 1]
    BY <1>1, <1>3
  <1> HIDE DEF n
  <1>5. DbTypes'
    <2>1. asleep' \in BOOLEAN
      BY <1>1
    <2> QED
      BY <1>1, <1>2, <1>4, <2>1 DEF BaseInv, DbTypes
  <1>6. MemTypes' /\ MergeRight' /\ EmptyRight' /\ IdleRight' /\ DeadRight'
    BY <1>1, <1>2
       DEF BaseInv, MemTypes, MergeRight, EmptyRight, IdleRight, DeadRight
  <1>7. Fresh'
    <2>1. \A i \in DOMAIN dbq' : i + 1 \in DOMAIN dbq /\ dbq'[i] = dbq[i + 1]
      BY <1>4
    <2> QED
      BY <1>2, <2>1 DEF BaseInv, Fresh
  <1>8. Chain'
    <2>1. PICK snap : Snaps(snap)
      BY <1>1 DEF BaseInv, Chain
    <2>2. /\ snap \in [0 .. n -> ConfSet] /\ snap[0] = rows
          /\ \A i \in 1 .. n :
               /\ snap[i] = RowsAfter(dbq[i], snap[i - 1])
               /\ \A p \in dbq[i].decl : p[1] \in live => p[1] \in DOMAIN snap[i]
          /\ \A i \in 0 .. n :
               Loadable(snap[i]) /\ \A c \in DOMAIN snap[i] : c < nextc
          /\ qrm \subseteq DOMAIN snap[n]
          /\ saved = Restrict(snap[n], DOMAIN snap[n] \ qrm)
      BY <2>1 DEF Snaps, n
    <2>10. PICK new : new = [i \in 0 .. n - 1 |-> snap[i + 1]]
      OBVIOUS
    <2>3. \A i \in 0 .. n - 1 : i + 1 \in 0 .. n /\ i + 1 \in 1 .. n
      BY <1>4
    <2>4. /\ new \in [0 .. n - 1 -> ConfSet]
          /\ \A i \in 0 .. n - 1 : new[i] = snap[i + 1]
      BY <2>2, <2>3, <2>10
    <2>5. new[0] = rows
      <3>1. 1 \in 1 .. n /\ 1 - 1 = 0 /\ 0 \in 0 .. n - 1 /\ 0 + 1 = 1
        BY <1>4
      <3>2. snap[1] = RowsAfter(dbq[1], rows)
        BY <2>2, <3>1
      <3> QED
        BY <1>3, <1>4, <2>4, <3>1, <3>2
    <2>6. ASSUME NEW i \in 1 .. n - 1
          PROVE  /\ new[i] = RowsAfter(dbq'[i], new[i - 1])
                 /\ \A p \in dbq'[i].decl : p[1] \in live => p[1] \in DOMAIN new[i]
      <3>1. /\ i \in 0 .. n - 1 /\ i - 1 \in 0 .. n - 1 /\ (i - 1) + 1 = i
            /\ i + 1 \in 1 .. n /\ (i + 1) - 1 = i
        BY <1>4
      <3>2. dbq'[i] = dbq[i + 1] /\ new[i] = snap[i + 1] /\ new[i - 1] = snap[i]
        BY <1>4, <2>4, <3>1
      <3>3. /\ snap[i + 1] = RowsAfter(dbq[i + 1], snap[i])
            /\ \A p \in dbq[i + 1].decl : p[1] \in live => p[1] \in DOMAIN snap[i + 1]
        BY <2>2, <3>1
      <3> QED
        BY <3>2, <3>3
    <2>7. ASSUME NEW i \in 0 .. n - 1
          PROVE  Loadable(new[i]) /\ \A c \in DOMAIN new[i] : c < nextc
      BY <2>2, <2>3, <2>4
    <2>8. new[n - 1] = snap[n]
      <3>1. n - 1 \in 0 .. n - 1 /\ (n - 1) + 1 = n
        BY <1>4
      <3> QED
        BY <2>4, <3>1
    <2>9. Snaps(new)'
      <3>1. Len(dbq') = n - 1 /\ rows' = rows /\ live' = live /\ nextc' = nextc
            /\ qrm' = qrm /\ saved' = saved
        BY <1>2, <1>4
      <3>2. /\ new \in [0 .. Len(dbq') -> ConfSet]
            /\ new[0] = rows'
            /\ \A i \in 1 .. Len(dbq') :
                 /\ new[i] = RowsAfter(dbq'[i], new[i - 1])
                 /\ \A p \in dbq'[i].decl : p[1] \in live' => p[1] \in DOMAIN new[i]
            /\ \A i \in 0 .. Len(dbq') :
                 Loadable(new[i]) /\ \A c \in DOMAIN new[i] : c < nextc'
        BY <2>4, <2>5, <2>6, <2>7, <3>1
      <3>3. /\ qrm' \subseteq DOMAIN new[Len(dbq')]
            /\ saved' = Restrict(new[Len(dbq')], DOMAIN new[Len(dbq')] \ qrm')
        BY <2>2, <2>8, <3>1
      <3> QED
        BY <3>2, <3>3 DEF Snaps
    <2> QED
      BY <1>1, <2>9 DEF Chain, NoTx
  <1> QED
    BY <1>5, <1>6, <1>7, <1>8 DEF BaseInv

\* load_conflict numbers new conflicts from the largest one stored.
LEMMA LargestConflict ==
  ASSUME NEW cf, Forest(cf)
  PROVE  LET m == CHOOSE m \in DOMAIN cf : \A d \in DOMAIN cf : d <= m
         IN  m \in DOMAIN cf /\ \A d \in DOMAIN cf : d <= m
  <1> DEFINE T == {MaxCfid - d : d \in DOMAIN cf}
  <1>1. /\ MaxCfid \in Nat /\ 0 \in DOMAIN cf
        /\ \A d \in DOMAIN cf : d \in Nat /\ d <= MaxCfid
    BY ForestType, BoundsAssumption
  <1>2. T \subseteq Nat /\ MaxCfid - 0 \in T
    BY <1>1
  <1>3. PICK k \in T : \A i \in T : k <= i
    <2> HIDE DEF T
    <2> QED BY <1>2, LeastNat
  <1>4. PICK m \in DOMAIN cf : k = MaxCfid - m
    BY <1>3
  <1>5. \A d \in DOMAIN cf : d <= m
    <2> TAKE d \in DOMAIN cf
    <2>1. MaxCfid - m <= MaxCfid - d
      BY <1>3, <1>4
    <2> QED
      BY <1>1, <2>1
  <1> QED
    BY <1>4, <1>5

LEMMA RestartInv == BaseInv /\ Restart /\ UNCHANGED bound => BaseInv'
  <1> SUFFICES ASSUME BaseInv, Restart, UNCHANGED bound PROVE BaseInv'
    OBVIOUS
  <1>1. PICK cf : cf = IF DOMAIN rows = {} THEN NewScroll ELSE rows
    OBVIOUS
  <1>2. /\ ~alive /\ alive' = TRUE /\ conf' = cf
        /\ saved' = IF cf[0].top = -1 THEN <<>> ELSE cf
        /\ nextc' = 1 + CHOOSE m \in DOMAIN cf : \A d \in DOMAIN cf : d <= m
        /\ mem' = {} /\ hold' = "free" /\ hload' = <<0, 0>> /\ merge' = NoMerge
        /\ loaded' = [p \in Cfid \X Seqs |-> "no"]
        /\ qdecl' = {} /\ qrm' = {} /\ dbq' = <<>> /\ tx' = NoTx /\ asleep' = TRUE
        /\ UNCHANGED <<rows, decls, blobs, torn, dropped>>
    BY <1>1 DEF Restart, EmptyMemory, dbVars
  <1>3. Forest(cf) /\ cf \in ConfSet /\ 0 \in DOMAIN cf /\ DOMAIN cf \subseteq Nat
    <2>1. MaxCfid \in Nat /\ 0 \in Cfid /\ 0 \in Seqs
      BY BoundsAssumption DEF Cfid, Seqs
    <2>2. NewScroll = conf
      BY <1>2 DEF BaseInv, DeadRight
    <2>3. Forest(NewScroll)
      BY <2>2 DEF BaseInv, MemTypes
    <2>4. DOMAIN rows # {} => Forest(rows)
      BY DEF BaseInv, DbTypes, Loadable
    <2>5. Forest(cf)
      BY <1>1, <2>3, <2>4
    <2> QED
      BY <2>5, ForestType DEF Forest
  <1>4. /\ cf[0].top = -1 => cf = NewScroll /\ DOMAIN cf = {0} /\ DOMAIN rows = {}
        /\ cf[0].top # -1 => cf = rows
    <2>1. DOMAIN NewScroll = {0} /\ NewScroll[0].top = -1
      BY DEF NewScroll, Root
    <2>2. DOMAIN rows # {} => rows[0].top # -1
      BY DEF BaseInv, DbTypes, Loadable
    <2> QED
      BY <1>1, <2>1, <2>2
  <1>5. nextc' \in 1 .. MaxCfid + 1 /\ \A c \in DOMAIN cf : c < nextc'
    <2>1. PICK m : m = CHOOSE k \in DOMAIN cf : \A d \in DOMAIN cf : d <= k
      OBVIOUS
    <2>2. m \in DOMAIN cf /\ \A d \in DOMAIN cf : d <= m
      BY <1>3, <2>1, LargestConflict
    <2>3. nextc' = 1 + m
      BY <1>2, <2>1
    <2>4. m \in Nat /\ m <= MaxCfid /\ MaxCfid \in Nat
      BY <1>3, <2>2, ForestType, BoundsAssumption
    <2> QED
      BY <1>3, <2>2, <2>3, <2>4
  <1>6. saved' \in ConfSet /\ DOMAIN saved' \subseteq live'
    <2>1. DOMAIN <<>> = {} /\ <<>> \in ConfSet
      <3>1. DOMAIN <<>> = {}
        OBVIOUS
      <3> QED
        BY <3>1 DEF ConfSet
    <2> QED
      BY <1>2, <1>3, <2>1
  <1>7. MemTypes'
    <2>1. /\ bound' \in Bounds /\ mem' = {} /\ qdecl' = {} /\ qrm' = {}
          /\ dropped' \subseteq History \X Seqs \X Facts
      BY <1>2 DEF BaseInv, MemTypes
    <2>2. loaded' \in [Cfid \X Seqs -> {"no", "busy", "yes"}]
      BY <1>2
    <2>3. hold' \in {"free", "put", "load", "stuck"} /\ hload' \in Cfid \X Seqs
      BY <1>2, BoundsAssumption DEF Cfid, Seqs
    <2>4. Forest(conf')
      BY <1>2, <1>3
    <2> QED
      BY <1>5, <1>6, <2>1, <2>2, <2>3, <2>4 DEF MemTypes
  <1>8. DbTypes'
    <2>1. dbq' \in Seq(DbUpdate) /\ tx' = NoTx
      BY <1>2
    <2>2. alive' \in BOOLEAN /\ asleep' \in BOOLEAN
      BY <1>2
    <2>3. rows' = rows /\ decls' = decls /\ blobs' = blobs /\ torn' = torn
      BY <1>2
    <2> QED
      BY <2>1, <2>2, <2>3 DEF BaseInv, DbTypes
  <1>9. Fresh' /\ MergeRight' /\ DeadRight' /\ IdleRight' /\ EmptyRight'
    <2>1. Fresh'
      BY <1>2, <1>5 DEF Fresh
    <2>2. EmptyRight'
      BY <1>2, <1>4 DEF EmptyRight
    <2> QED
      BY <1>2, <2>1, <2>2 DEF MergeRight, DeadRight, IdleRight
  <1>10. Chain'
    <2>1. PICK new : new = [i \in 0 .. 0 |-> rows]
      OBVIOUS
    <2>2. rows \in ConfSet /\ Loadable(rows)
      BY DEF BaseInv, DbTypes, Loadable, Forest
    <2>3. saved' = Restrict(rows, DOMAIN rows \ {})
      <3>1. rows = [c \in DOMAIN rows |-> rows[c]]
        BY <2>2, ConfType
      <3>2. Restrict(rows, DOMAIN rows \ {}) = rows
        BY <3>1 DEF Restrict
      <3>3. DOMAIN rows = {} => rows = <<>>
        BY <3>1
      <3> QED
        BY <1>2, <1>4, <3>2, <3>3
    <2>4. \A c \in DOMAIN rows : c < nextc'
      BY <1>1, <1>5
    <2>5. Len(dbq') = 0 /\ rows' = rows /\ qrm' = {} /\ 1 .. 0 = {} /\ 0 .. 0 = {0}
          /\ new[0] = rows
      BY <1>2, <2>1
    <2>6. /\ new \in [0 .. Len(dbq') -> ConfSet]
          /\ \A i \in 0 .. Len(dbq') :
               Loadable(new[i]) /\ \A c \in DOMAIN new[i] : c < nextc'
      BY <2>1, <2>2, <2>4, <2>5
    <2>7. Snaps(new)'
      BY <2>3, <2>5, <2>6 DEF Snaps
    <2> QED
      BY <1>2, <2>7 DEF Chain, NoTx
  <1> QED
    BY <1>7, <1>8, <1>9, <1>10 DEF BaseInv

LEMMA InitInv == Init => BaseInv
  <1> SUFFICES ASSUME Init PROVE BaseInv
    OBVIOUS
  <1>1. MaxCfid \in Nat /\ 0 \in Cfid /\ 0 \in Seqs
    BY BoundsAssumption DEF Cfid, Seqs
  <1>2. /\ DOMAIN NewScroll = {0} /\ NewScroll = [c \in DOMAIN NewScroll |-> NewScroll[c]]
        /\ NewScroll[0] = Root
    BY DEF NewScroll
  <1>3. Root \in Conflict /\ Root.parent = 0 /\ Root.pseq = -1 /\ Root.top = -1
    BY <1>1 DEF Root, Conflict, History
  <1>4. NewScroll \in ConfSet
    BY <1>1, <1>2, <1>3, ConfIntro
  <1>5. Forest(NewScroll)
    BY <1>2, <1>3, <1>4 DEF Forest
  <1>6. DOMAIN <<>> = {} /\ <<>> \in ConfSet
    <2>1. DOMAIN <<>> = {}
      OBVIOUS
    <2> QED
      BY <2>1 DEF ConfSet
  <1>7. MemTypes
    BY <1>1, <1>2, <1>5, <1>6 DEF Init, MemTypes
  <1>8. DbTypes
    <2>1. dbq \in Seq(DbUpdate) /\ tx = NoTx /\ rows = <<>>
      BY DEF Init
    <2>2. alive \in BOOLEAN /\ asleep \in BOOLEAN
      BY DEF Init
    <2> QED
      BY <1>6, <2>1, <2>2 DEF Init, DbTypes, Loadable
  <1>9. Fresh /\ MergeRight /\ EmptyRight /\ IdleRight /\ DeadRight
    BY <1>2, <1>3, <1>6 DEF Init, Fresh, MergeRight, EmptyRight, IdleRight, DeadRight
  <1>10. Chain
    <2>1. PICK new : new = [i \in 0 .. 0 |-> rows]
      OBVIOUS
    <2>2. /\ Len(dbq) = 0 /\ qrm = {} /\ saved = <<>> /\ rows = <<>>
          /\ 1 .. 0 = {} /\ 0 .. 0 = {0} /\ new[0] = rows
      BY <2>1 DEF Init
    <2>3. rows \in ConfSet /\ Loadable(rows) /\ DOMAIN rows = {}
      BY <1>6, <2>2 DEF Loadable
    <2>4. saved = Restrict(rows, DOMAIN rows \ {})
      BY <2>2, <2>3 DEF Restrict
    <2>5. /\ new \in [0 .. Len(dbq) -> ConfSet]
          /\ \A i \in 0 .. Len(dbq) :
               Loadable(new[i]) /\ \A c \in DOMAIN new[i] : c < nextc
      BY <2>1, <2>2, <2>3
    <2>6. Snaps(new)
      BY <2>2, <2>4, <2>5 DEF Snaps
    <2> QED
      BY <2>6 DEF Chain, Init, NoTx
  <1> QED
    BY <1>7, <1>8, <1>9, <1>10 DEF BaseInv

LEMMA StutterInv == BaseInv /\ UNCHANGED <<vars, bound>> => BaseInv'
  <1> SUFFICES ASSUME BaseInv, UNCHANGED <<vars, bound>> PROVE BaseInv'
    OBVIOUS
  <1>1. UNCHANGED <<bound, conf, nextc, mem, merge, hold, hload, saved, loaded, qdecl,
                    qrm, dbq, tx, asleep, rows, decls, blobs, alive, torn, dropped>>
    BY DEF vars, scrollVars, lockVars, queueVars, updaterVars, dbVars, lifeVars
  <1>2. MemTypes' /\ DbTypes' /\ Fresh' /\ MergeRight' /\ EmptyRight' /\ IdleRight'
        /\ DeadRight'
    BY <1>1 DEF BaseInv, MemTypes, DbTypes, Fresh, MergeRight, EmptyRight, IdleRight,
                DeadRight
  <1>3. Chain'
    BY <1>1 DEF BaseInv, Chain, Snaps
  <1> QED
    BY <1>2, <1>3 DEF BaseInv

LEMMA NextInv == BaseInv /\ [Next]_<<vars, bound>> => BaseInv'
  <1> SUFFICES ASSUME BaseInv, [Next]_<<vars, bound>> PROVE BaseInv'
    OBVIOUS
  <1>1. CASE UNCHANGED <<vars, bound>>
    BY <1>1, StutterInv
  <1>2. CASE Next
    <2>1. UNCHANGED bound
      BY <1>2 DEF Next
    <2>2. CASE Lock
      BY <2>1, <2>2, LockInv
    <2>3. CASE Unlock
      BY <2>1, <2>3, UnlockInv
    <2>4. CASE Update
      BY <2>1, <2>4, SetHashInv, SetDataInv, ForkInv, BeginMergeInv, PutStopping,
         PutStopsInv DEF Update
    <2>5. CASE MergeStep
      BY <2>1, <2>5, CopyDeclInv, CopyStuckInv, EndMergeInv, PutStopping, PutStopsInv
         DEF MergeStep
    <2>6. CASE Load \/ Loaded
      BY <2>1, <2>6, BeginLoadInv, EndLoadInv DEF Load, Loaded
    <2>7. CASE Updater
      BY <2>1, <2>7, TxBeginInv, TxReadInv, TxCommitInv, TxBlobInv, TxEndInv DEF Updater
    <2>8. CASE Crash
      BY <2>1, <2>8, ExitInv DEF Crash
    <2>9. CASE Restart
      BY <2>1, <2>9, RestartInv
    <2> QED
      BY <1>2, <2>2, <2>3, <2>4, <2>5, <2>6, <2>7, <2>8, <2>9 DEF Next
  <1> QED
    BY <1>1, <1>2

\* The conflicts in memory and the rows of the database, and what is queued in
\* between, go together at every step of every task.
THEOREM BaseHolds == Spec => []BaseInv
  <1>1. Init => BaseInv
    BY InitInv
  <1>2. BaseInv /\ [Next]_<<vars, bound>> => BaseInv'
    BY NextInv
  <1> QED
    BY <1>1, <1>2, PTL DEF Spec

\* The types of the state, with the parents of the live conflicts.
THEOREM TypesHold == Spec => []TypeOK
  <1>1. BaseInv => TypeOK
    <2> SUFFICES ASSUME BaseInv PROVE TypeOK
      OBVIOUS
    <2>1. /\ live \subseteq Cfid /\ 0 \in live
          /\ \A c \in live :
               /\ conf[c] \in Conflict
               /\ conf[c].parent \in live
               /\ c # 0 => conf[c].parent < c
      BY ForestType DEF BaseInv, MemTypes
    <2>2. \A i \in DOMAIN dbq : dbq[i].rm \subseteq Cfid
      <3> TAKE i \in DOMAIN dbq
      <3>1. dbq[i] \in DbUpdate
        BY DEF BaseInv, DbTypes
      <3> QED
        BY <3>1 DEF DbUpdate
    <2>3. tx.stage \in {"idle", "read", "blobs"}
      BY TxStage
    <2>4. DOMAIN rows \subseteq Cfid
      BY ConfType, ForestType DEF BaseInv, DbTypes, Loadable
    <2> QED
      BY <2>1, <2>2, <2>3, <2>4 DEF BaseInv, MemTypes, DbTypes, TypeOK
  <1> QED
    BY <1>1, BaseHolds, PTL

\* A restart at any point finds the parent of each stored conflict, which
\* load_conflict (storage.js) follows.
THEOREM ParentsStored == Spec => []ParentStored
  <1>1. BaseInv => ParentStored
    BY ForestType DEF BaseInv, DbTypes, Loadable, ParentStored
  <1> QED
    BY <1>1, BaseHolds, PTL

-----------------------------------------------------------------------------
(* What is known of the declarations: the second invariant.                *)

\* c keeps declaration s, and no merge has copied it to another conflict.
Keeps(c, s) == c \in live /\ s > conf[c].pseq
Own(c, s) == Keeps(c, s) /\ ~Copied(c, s)

\* Memory has all that is stored of the declaration: its row can be rewritten.
Whole(c, s) ==
  \A f \in Facts : <<c, s, f>> \in decls => <<c, s, f>> \in mem \/ LeftOut(s, f)

Queued(c, s) ==
  <<c, s>> \in qdecl \/ \E i \in DOMAIN dbq : <<c, s>> \in dbq[i].decl

\* Frames are signed over the hashes: they are not without them.
HashInMem ==
  \A c \in Cfid, s \in Seqs :
    /\ <<c, s, "buf">> \in mem => <<c, s, "data">> \in mem
    /\ Keeps(c, s) /\ <<c, s, "data">> \in mem => <<c, s, "hash">> \in mem
HashInRow ==
  \A c \in Cfid, s \in Seqs :
    /\ <<c, s, "data">> \in decls => <<c, s, "hash">> \in decls
    /\ InTx(<<c, s, "data">>) => InTx(<<c, s, "hash">>)

\* A declaration is stored with its conflict; so that what is not in saved has
\* nothing to load.
RowsRight ==
  /\ \A d \in decls : d[1] \in DOMAIN rows
  /\ alive => \A d \in decls : d[1] \in live => d[1] \in DOMAIN saved
  /\ \A i \in DOMAIN dbq : \A p \in dbq[i].decl : p[1] \in live => p[1] \in DOMAIN saved

LoadedRight ==
  \A c \in Cfid, s \in Seqs : loaded[c, s] = "yes" /\ Own(c, s) => Whole(c, s)

QueuedRight ==
  \A c \in Cfid, s \in Seqs :
    Queued(c, s) /\ Own(c, s) => Whole(c, s) /\ <<c, s, "hash">> \in mem

\* The rows being written are those of the update, as memory has them.
TxRight ==
  tx.stage = "read" =>
    /\ tx.todo \cup tx.done \subseteq Head(dbq).decl
    /\ \A d \in tx.facts : /\ <<d[1], d[2]>> \in tx.done
                           /\ Own(d[1], d[2]) => d \in mem
    /\ \A p \in tx.done :
         /\ p[1] \in DOMAIN RowsAfter(Head(dbq), rows)
         /\ Own(p[1], p[2]) =>
              /\ <<p[1], p[2], "hash">> \in tx.facts
              /\ \A f \in Facts : <<p[1], p[2], f>> \in decls
                   => <<p[1], p[2], f>> \in tx.facts \/ LeftOut(p[2], f)

\* DurableOrScheduled, of the declarations a conflict keeps.
Durable ==
  \A c \in Cfid, s \in Seqs, f \in Facts :
    <<c, s, f>> \in mem /\ Own(c, s) =>
      \/ <<c, s, f>> \in decls \/ InTx(<<c, s, f>>) \/ Scheduled(c, s)
      \/ LeftOut(s, f)

\* The merge of a common prefix goes no further than that.
MergeEnds ==
  merge.on /\ hold = "put" => FullMerge \/ merge.seq <= merge.cseq + 1

DataInv ==
  /\ HashInMem /\ MergeEnds /\ HashInRow /\ RowsRight /\ LoadedRight /\ QueuedRight
  /\ TxRight /\ Durable

LEMMA Parts ==
  ASSUME BaseInv
  PROVE  /\ \A i \in DOMAIN dbq : \A p \in dbq[i].decl : \E c \in Cfid, s \in Seqs : p = <<c, s>>
         /\ tx.stage = "read" =>
              /\ \A p \in tx.done : \E c \in Cfid, s \in Seqs : p = <<c, s>>
              /\ \A p \in tx.todo : \E c \in Cfid, s \in Seqs : p = <<c, s>>
              /\ \A d \in tx.facts : \E c \in Cfid, s \in Seqs, f \in Facts : d = <<c, s, f>>
         /\ \A m \in mem : \E c \in Cfid, s \in Seqs, f \in Facts \cup Frames : m = <<c, s, f>>
         /\ \A d \in decls : \E c \in Cfid, s \in Seqs, f \in Facts : d = <<c, s, f>>
         /\ \A p \in qdecl : \E c \in Cfid, s \in Seqs : p = <<c, s>>
  <1>1. ASSUME NEW i \in DOMAIN dbq, NEW p \in dbq[i].decl
        PROVE  \E c \in Cfid, s \in Seqs : p = <<c, s>>
    <2>1. dbq[i] \in DbUpdate
      BY DEF BaseInv, DbTypes
    <2>2. p \in Cfid \X Seqs
      BY <2>1 DEF DbUpdate
    <2> QED
      BY <2>2
  <1>2. ASSUME tx.stage = "read"
        PROVE  /\ \A p \in tx.done : \E c \in Cfid, s \in Seqs : p = <<c, s>>
               /\ \A p \in tx.todo : \E c \in Cfid, s \in Seqs : p = <<c, s>>
               /\ \A d \in tx.facts : \E c \in Cfid, s \in Seqs, f \in Facts : d = <<c, s, f>>
    <2>1. tx \in Tx
      BY <1>2, TxStage
    <2>2. /\ tx.done \subseteq Cfid \X Seqs /\ tx.todo \subseteq Cfid \X Seqs
          /\ tx.facts \subseteq Cfid \X Seqs \X Facts
      BY <2>1 DEF Tx
    <2> QED
      BY <2>2
  <1>3. /\ mem \subseteq Cfid \X Seqs \X (Facts \cup Frames)
        /\ decls \subseteq Cfid \X Seqs \X Facts
        /\ qdecl \subseteq Cfid \X Seqs
    BY DEF BaseInv, MemTypes, DbTypes
  <1>4. \A m \in mem : \E c \in Cfid, s \in Seqs, f \in Facts \cup Frames : m = <<c, s, f>>
    BY <1>3
  <1>5. \A d \in decls : \E c \in Cfid, s \in Seqs, f \in Facts : d = <<c, s, f>>
    BY <1>3
  <1>6. \A p \in qdecl : \E c \in Cfid, s \in Seqs : p = <<c, s>>
    BY <1>3
  <1> QED
    BY <1>1, <1>2, <1>4, <1>5, <1>6

LEMMA BaseTypes ==
  ASSUME BaseInv
  PROVE  /\ Forest(conf) /\ live \subseteq Cfid /\ Cfid \subseteq Nat /\ nextc \in Nat
         /\ mem \subseteq Cfid \X Seqs \X (Facts \cup Frames)
         /\ decls \subseteq Cfid \X Seqs \X Facts
         /\ qdecl \subseteq Cfid \X Seqs
         /\ \A m \in mem : m[1] \in live
         /\ \A i \in DOMAIN dbq : dbq[i] \in DbUpdate /\ dbq[i].decl \subseteq Cfid \X Seqs
         /\ dbq \in Seq(DbUpdate)
         /\ dbq # <<>> => Head(dbq) \in DbUpdate /\ Head(dbq) = dbq[1] /\ 1 \in DOMAIN dbq
  <1>1. Forest(conf) /\ live \subseteq Cfid /\ Cfid \subseteq Nat /\ nextc \in Nat
    BY ForestType, BoundsAssumption DEF BaseInv, MemTypes, Cfid
  <1>2. /\ mem \subseteq Cfid \X Seqs \X (Facts \cup Frames)
        /\ decls \subseteq Cfid \X Seqs \X Facts
        /\ qdecl \subseteq Cfid \X Seqs
        /\ \A m \in mem : m[1] \in live
        /\ dbq \in Seq(DbUpdate)
    BY DEF BaseInv, MemTypes, DbTypes, Fresh
  <1>3. \A i \in DOMAIN dbq : dbq[i] \in DbUpdate /\ dbq[i].decl \subseteq Cfid \X Seqs
    <2> TAKE i \in DOMAIN dbq
    <2>1. dbq[i] \in DbUpdate
      BY <1>2
    <2> QED
      BY <2>1 DEF DbUpdate
  <1>4. dbq # <<>> => Head(dbq) \in DbUpdate /\ Head(dbq) = dbq[1] /\ 1 \in DOMAIN dbq
    BY <1>2
  <1> QED
    BY <1>1, <1>2, <1>3, <1>4

\* A conflict about to be made has nothing queued or stored.
LEMMA NothingYet ==
  ASSUME BaseInv, alive, RowsRight
  PROVE  /\ \A d \in decls : d[1] # nextc
         /\ \A c \in Cfid, s \in Seqs : Queued(c, s) => c # nextc
         /\ dbq # <<>> => \A p \in Head(dbq).decl : p[1] # nextc
         /\ nextc \notin live
  <1>1. \A c \in DOMAIN rows : c \in Nat /\ c < nextc
    <2>1. PICK snap : Snaps(snap)
      BY DEF BaseInv, Chain
    <2>2. Len(dbq) \in Nat /\ 0 \in 0 .. Len(dbq)
      BY BaseTypes
    <2>3. snap[0] = rows /\ snap[0] \in ConfSet /\ \A c \in DOMAIN snap[0] : c < nextc
      BY <2>1, <2>2 DEF Snaps
    <2> QED
      BY <2>3, ConfType, BaseTypes
  <1>2. \A c \in live : c \in Nat /\ c < nextc
    BY BaseTypes DEF BaseInv, Fresh
  <1>3. \A p \in qdecl : p[1] \in Nat /\ p[1] < nextc
    BY BaseTypes DEF BaseInv, Fresh
  <1>4. \A i \in DOMAIN dbq : \A p \in dbq[i].decl : p[1] \in Nat /\ p[1] < nextc
    <2> TAKE i \in DOMAIN dbq
    <2>1. dbq[i].decl \subseteq Cfid \X Seqs /\ Cfid \subseteq Nat
      BY BaseTypes
    <2> QED
      BY <2>1 DEF BaseInv, Fresh
  <1>5. nextc \in Nat
    BY BaseTypes
  <1>6. \A c \in Cfid, s \in Seqs : Queued(c, s) => c # nextc
    <2> TAKE c \in Cfid, s \in Seqs
    <2>1. <<c, s>>[1] = c
      OBVIOUS
    <2> QED
      BY <1>3, <1>4, <1>5, <2>1 DEF Queued
  <1>7. dbq # <<>> => \A p \in Head(dbq).decl : p[1] # nextc
    BY <1>4, <1>5, BaseTypes
  <1>8. \A d \in decls : d[1] # nextc
    BY <1>1, <1>5 DEF RowsRight
  <1> QED
    BY <1>2, <1>5, <1>6, <1>7, <1>8

\* The steps that leave the database alone.
LEMMA DataStable ==
  ASSUME BaseInv, DataInv, alive, alive', UNCHANGED <<dbq, tx, rows, decls>>,
         live' \subseteq live \cup {nextc},
         DOMAIN saved \cap live' \subseteq DOMAIN saved',
         dropped \subseteq dropped', qdecl \subseteq qdecl',
         \A c \in live, s \in Seqs : Own(c, s)' =>
           Own(c, s) /\ \A f \in Facts : <<c, s, f>> \in mem => <<c, s, f>> \in mem',
         \A c \in Cfid, s \in Seqs :
           <<c, s>> \in qdecl' \ qdecl /\ Own(c, s)' => Whole(c, s)' /\ <<c, s, "hash">> \in mem',
         \A c \in Cfid, s \in Seqs, f \in Facts :
           <<c, s, f>> \in mem' \ mem /\ Own(c, s)'
             => <<c, s, f>> \in decls \/ <<c, s>> \in qdecl',
         \A c \in Cfid, s \in Seqs :
           loaded[c, s]' = "yes" /\ Own(c, s)' => loaded[c, s] = "yes" \/ Whole(c, s)',
         HashInMem', MergeEnds'
  PROVE  DataInv'
  <1>1. /\ \A d \in decls : d[1] # nextc
        /\ \A c \in Cfid, s \in Seqs : Queued(c, s) => c # nextc
        /\ dbq # <<>> => \A p \in Head(dbq).decl : p[1] # nextc
        /\ nextc \notin live
    BY NothingYet DEF DataInv
  <1>2. \A s, f : LeftOut(s, f) => LeftOut(s, f)'
    BY DEF LeftOut
  <1>3. \A c \in Cfid, s \in Seqs : Own(c, s)' => c \in live \/ c = nextc
    BY DEF Own, Keeps
  <1>4. \A c \in Cfid, s \in Seqs : Own(c, s)' /\ c \in live /\ Whole(c, s) => Whole(c, s)'
    BY <1>2 DEF Whole
  <1>5. HashInRow'
    BY DEF DataInv, HashInRow, InTx
  <1>6. RowsRight'
    <2>1. \A d \in decls : d[1] \in live' => d[1] \in DOMAIN saved'
      BY <1>1 DEF DataInv, RowsRight
    <2>2. \A i \in DOMAIN dbq : \A p \in dbq[i].decl : p[1] \in live' => p[1] \in DOMAIN saved'
      <3> TAKE i \in DOMAIN dbq
      <3> TAKE p \in dbq[i].decl
      <3>1. PICK c \in Cfid, s \in Seqs : p = <<c, s>>
        BY Parts
      <3>2. p[1] # nextc
        BY <1>1, <3>1 DEF Queued
      <3> QED
        BY <3>2 DEF DataInv, RowsRight
    <2>3. \A d \in decls : d[1] \in DOMAIN rows
      BY DEF DataInv, RowsRight
    <2> QED
      BY <2>1, <2>2, <2>3 DEF RowsRight
  <1>7. LoadedRight'
    <2> SUFFICES ASSUME NEW c \in Cfid, NEW s \in Seqs, loaded[c, s]' = "yes", Own(c, s)'
                 PROVE  Whole(c, s)'
      BY DEF LoadedRight
    <2>1. CASE c \in live
      <3>1. loaded[c, s] = "yes" /\ Own(c, s) => Whole(c, s)
        BY DEF DataInv, LoadedRight
      <3> QED
        BY <1>4, <2>1, <3>1
    <2>2. CASE c = nextc
      BY <1>1, <2>2 DEF Whole
    <2> QED
      BY <1>3, <2>1, <2>2
  <1>8. QueuedRight'
    <2> SUFFICES ASSUME NEW c \in Cfid, NEW s \in Seqs, Queued(c, s)', Own(c, s)'
                 PROVE  Whole(c, s)' /\ <<c, s, "hash">> \in mem'
      BY DEF QueuedRight
    <2>1. CASE Queued(c, s)
      <3>1. c \in live
        BY <1>1, <1>3, <2>1
      <3>2. Whole(c, s) /\ <<c, s, "hash">> \in mem
        BY <2>1, <3>1 DEF DataInv, QueuedRight
      <3> QED
        BY <1>4, <3>1, <3>2 DEF Facts
    <2>2. CASE ~Queued(c, s)
      <3>1. <<c, s>> \in qdecl' \ qdecl
        BY <2>2 DEF Queued
      <3> QED
        BY <3>1
    <2> QED
      BY <2>1, <2>2
  <1>9. TxRight'
    <2> SUFFICES ASSUME tx.stage = "read" PROVE TxRight'
      BY DEF TxRight
    <2>1. tx \in Tx /\ dbq # <<>>
      BY TxStage
    <2>2. /\ tx.done \subseteq Head(dbq).decl /\ tx.facts \subseteq Cfid \X Seqs \X Facts
          /\ Head(dbq).decl \subseteq Cfid \X Seqs
          /\ \A p \in tx.done : p[1] # nextc
      BY <1>1, <2>1, BaseTypes DEF DataInv, TxRight, Tx
    <2>3. ASSUME NEW d \in tx.facts
          PROVE  <<d[1], d[2]>> \in tx.done /\ (Own(d[1], d[2])' => d \in mem')
      <3>0. PICK c \in Cfid, s \in Seqs, f \in Facts : d = <<c, s, f>>
        BY Parts
      <3>1. <<d[1], d[2]>> \in tx.done /\ (Own(d[1], d[2]) => d \in mem)
        BY DEF DataInv, TxRight
      <3>2. c # nextc /\ <<d[1], d[2]>> = <<c, s>>
        BY <2>2, <3>0, <3>1
      <3> QED
        BY <1>3, <3>0, <3>1, <3>2
    <2>4. ASSUME NEW p \in tx.done, Own(p[1], p[2])'
          PROVE  /\ <<p[1], p[2], "hash">> \in tx.facts
                 /\ \A f \in Facts : <<p[1], p[2], f>> \in decls
                      => <<p[1], p[2], f>> \in tx.facts \/ LeftOut(p[2], f)'
      <3>1. p[1] \in live /\ p[2] \in Seqs
        BY <1>3, <2>2, <2>4
      <3>2. Own(p[1], p[2])
        BY <2>4, <3>1
      <3> QED
        BY <1>2, <3>2 DEF DataInv, TxRight
    <2> QED
      BY <2>3, <2>4 DEF DataInv, TxRight
  <1>10. Durable'
    <2> SUFFICES ASSUME NEW c \in Cfid, NEW s \in Seqs, NEW f \in Facts,
                        <<c, s, f>> \in mem', Own(c, s)'
                 PROVE  \/ <<c, s, f>> \in decls \/ InTx(<<c, s, f>>)'
                        \/ Scheduled(c, s)' \/ LeftOut(s, f)'
      BY DEF Durable
    <2>1. CASE <<c, s, f>> \in mem
      <3>1. c \in live
        BY <2>1, BaseTypes
      <3>2. \/ <<c, s, f>> \in decls \/ InTx(<<c, s, f>>) \/ Scheduled(c, s)
            \/ LeftOut(s, f)
        BY <2>1, <3>1 DEF DataInv, Durable
      <3>3. InTx(<<c, s, f>>) => InTx(<<c, s, f>>)'
        BY DEF InTx
      <3>4. Scheduled(c, s) => Scheduled(c, s)'
        BY DEF Scheduled
      <3> QED
        BY <1>2, <3>2, <3>3, <3>4
    <2>2. CASE <<c, s, f>> \notin mem
      BY <2>2 DEF Scheduled
    <2> QED
      BY <2>1, <2>2
  <1> QED
    BY <1>5, <1>6, <1>7, <1>8, <1>9, <1>10 DEF DataInv

\* The steps that change what memory knows of nothing.
LEMMA DataSame ==
  ASSUME BaseInv, DataInv, alive, alive',
         UNCHANGED <<conf, mem, merge, saved, qdecl, dbq, tx, rows, decls, dropped>>,
         \A c \in Cfid, s \in Seqs : loaded[c, s]' = "yes" => loaded[c, s] = "yes",
         hold' = "put" => hold = "put" \/ ~merge.on
  PROVE  DataInv'
  <1>1. \A c, s : (Own(c, s)' <=> Own(c, s)) /\ (Keeps(c, s)' <=> Keeps(c, s))
    BY DEF Own, Keeps, Copied, Merging
  <1>2. /\ live' \subseteq live \cup {nextc} /\ DOMAIN saved \cap live' \subseteq DOMAIN saved'
        /\ dropped \subseteq dropped' /\ qdecl \subseteq qdecl'
    OBVIOUS
  <1>3. \A c \in live, s \in Seqs : Own(c, s)' =>
           Own(c, s) /\ \A f \in Facts : <<c, s, f>> \in mem => <<c, s, f>> \in mem'
    BY <1>1
  <1>4. \A c \in Cfid, s \in Seqs :
           <<c, s>> \in qdecl' \ qdecl /\ Own(c, s)' => Whole(c, s)' /\ <<c, s, "hash">> \in mem'
    OBVIOUS
  <1>5. \A c \in Cfid, s \in Seqs, f \in Facts :
           <<c, s, f>> \in mem' \ mem /\ Own(c, s)'
             => <<c, s, f>> \in decls \/ <<c, s>> \in qdecl'
    OBVIOUS
  <1>6. \A c \in Cfid, s \in Seqs :
           loaded[c, s]' = "yes" /\ Own(c, s)' => loaded[c, s] = "yes" \/ Whole(c, s)'
    OBVIOUS
  <1>7. HashInMem' /\ MergeEnds'
    BY <1>1 DEF DataInv, HashInMem, MergeEnds, FullMerge
  <1> QED
    BY <1>2, <1>3, <1>4, <1>5, <1>6, <1>7, DataStable

LEMMA LockData == BaseInv /\ DataInv /\ Lock => DataInv'
  <1> SUFFICES ASSUME BaseInv, DataInv, Lock PROVE DataInv'
    OBVIOUS
  <1>1. UNCHANGED <<conf, mem, merge, saved, qdecl, dbq, tx, rows, decls, dropped, loaded>>
    BY DEF Lock, scrollVars, queueVars, updaterVars, dbVars
  <1>2. alive /\ alive'
    BY DEF Lock, lifeVars
  <1>3. \A c \in Cfid, s \in Seqs : loaded[c, s]' = "yes" => loaded[c, s] = "yes"
    BY <1>1
  <1>4. hold' = "put" => hold = "put" \/ ~merge.on
    BY DEF Lock, BaseInv, IdleRight, NoMerge
  <1> QED
    BY <1>1, <1>2, <1>3, <1>4, DataSame

LEMMA BeginLoadData ==
  ASSUME BaseInv, DataInv, NEW d \in live, NEW t \in Seqs, BeginLoad(d, t)
  PROVE  DataInv'
  <1>1. UNCHANGED <<conf, mem, merge, saved, qdecl, dbq, tx, rows, decls, dropped>>
    BY DEF BeginLoad, scrollVars, queueVars, updaterVars, dbVars
  <1>2. alive /\ alive' /\ loaded' = [loaded EXCEPT ![<<d, t>>] = "busy"]
    BY DEF BeginLoad, lifeVars
  <1>3. ASSUME NEW c \in Cfid, NEW s \in Seqs, loaded[c, s]' = "yes"
        PROVE  loaded[c, s] = "yes"
    <2>1. loaded \in [Cfid \X Seqs -> {"no", "busy", "yes"}] /\ <<c, s>> \in Cfid \X Seqs
      BY DEF BaseInv, MemTypes
    <2>2. loaded'[<<c, s>>] = "yes"
      BY <1>3
    <2>3. loaded[<<c, s>>] = "yes"
      BY <1>2, <2>1, <2>2
    <2> QED
      BY <2>3
  <1>4. hold' = "put" => hold = "put"
    BY DEF BeginLoad
  <1> QED
    BY <1>1, <1>2, <1>3, <1>4, DataSame

\* A declaration that is ready has all that is stored of it in memory.
LEMMA ReadyWhole ==
  ASSUME DataInv, alive, NEW c \in live, c \in Cfid, NEW s \in Seqs, Ready(c, s), Own(c, s)
  PROVE  Whole(c, s)
  <1>1. CASE c \notin DOMAIN saved
    <2>1. \A d \in decls : d[1] # c
      BY <1>1 DEF DataInv, RowsRight
    <2> QED
      BY <2>1 DEF Whole
  <1>2. CASE loaded[c, s] = "yes"
    BY <1>2 DEF DataInv, LoadedRight
  <1> QED
    BY <1>1, <1>2 DEF Ready

LEMMA SetHashData ==
  ASSUME BaseInv, DataInv, NEW d \in live, NEW t \in Seqs, NEW h \in History,
         SetHash(d, t, h)
  PROVE  DataInv'
  <1>1. /\ alive /\ ~merge.on /\ t > conf[d].pseq /\ Ready(d, t)
        /\ mem' = mem \cup {<<d, t, "hash">>}
        /\ qdecl' = qdecl \cup {<<d, t>>}
        /\ conf' = IF t <= conf[d].top THEN conf
                   ELSE [conf EXCEPT ![d].top = t, ![d].hist = h]
    BY DEF SetHash, Putting
  <1>2. UNCHANGED <<merge, saved, loaded, dbq, tx, rows, decls, dropped, alive>>
    BY DEF SetHash, lockVars, updaterVars, dbVars, lifeVars
  <1>3. Forest(conf) /\ live \subseteq Cfid
    BY BaseTypes
  <1>4. live' = live /\ \A c \in live : conf'[c].pseq = conf[c].pseq
    <2>1. \A c \in live : conf[c] \in Conflict
      BY <1>3, ForestType
    <2> QED
      BY <1>1, <2>1 DEF Conflict
  <1>5. \A c, s : (Keeps(c, s)' <=> Keeps(c, s)) /\ (Own(c, s)' <=> Own(c, s))
    BY <1>2, <1>4 DEF Own, Keeps, Copied, Merging
  <1>6. /\ live' \subseteq live \cup {nextc} /\ DOMAIN saved \cap live' \subseteq DOMAIN saved'
        /\ dropped \subseteq dropped' /\ qdecl \subseteq qdecl'
    BY <1>1, <1>2, <1>4
  <1>7. \A c \in live, s \in Seqs : Own(c, s)' =>
           Own(c, s) /\ \A f \in Facts : <<c, s, f>> \in mem => <<c, s, f>> \in mem'
    BY <1>1, <1>5
  <1>8. \A c \in Cfid, s \in Seqs :
           <<c, s>> \in qdecl' \ qdecl /\ Own(c, s)' => Whole(c, s)' /\ <<c, s, "hash">> \in mem'
    <2> SUFFICES ASSUME NEW c \in Cfid, NEW s \in Seqs, <<c, s>> \in qdecl' \ qdecl
                 PROVE  Own(c, s)' => Whole(c, s)' /\ <<c, s, "hash">> \in mem'
      OBVIOUS
    <2>1. c = d /\ s = t
      BY <1>1
    <2>2. Own(c, s) => Whole(c, s)
      BY <1>1, <1>3, <2>1, ReadyWhole
    <2>3. Whole(c, s) => Whole(c, s)'
      BY <1>1, <1>2 DEF Whole, LeftOut
    <2>4. <<c, s, "hash">> \in mem'
      BY <1>1, <2>1
    <2> QED
      BY <1>5, <2>2, <2>3, <2>4
  <1>9. \A c \in Cfid, s \in Seqs, f \in Facts :
           <<c, s, f>> \in mem' \ mem /\ Own(c, s)'
             => <<c, s, f>> \in decls \/ <<c, s>> \in qdecl'
    BY <1>1
  <1>10. \A c \in Cfid, s \in Seqs :
           loaded[c, s]' = "yes" /\ Own(c, s)' => loaded[c, s] = "yes" \/ Whole(c, s)'
    BY <1>2
  <1>11. HashInMem' /\ MergeEnds'
    <2>1. HashInMem'
      BY <1>1, <1>5 DEF DataInv, HashInMem
    <2> QED
      BY <1>1, <1>2, <2>1 DEF MergeEnds
  <1> QED
    BY <1>1, <1>2, <1>6, <1>7, <1>8, <1>9, <1>10, <1>11, DataStable

LEMMA SetDataData ==
  ASSUME BaseInv, DataInv, NEW d \in live, NEW t \in Seqs, SetData(d, t)
  PROVE  DataInv'
  <1>1. /\ alive /\ ~merge.on /\ t > conf[d].pseq /\ Ready(d, t)
        /\ <<d, t, "hash">> \in mem
        /\ mem' = mem \cup {<<d, t, "data">>}
                      \cup IF t \in bound.big THEN {<<d, t, "buf">>} ELSE {}
        /\ qdecl' = qdecl \cup {<<d, t>>}
    BY DEF SetData, Putting
  <1>2. UNCHANGED <<conf, merge, saved, loaded, dbq, tx, rows, decls, dropped, alive>>
    BY DEF SetData, lockVars, updaterVars, dbVars, lifeVars
  <1>3. Forest(conf) /\ live \subseteq Cfid
    BY BaseTypes
  <1>5. \A c, s : (Keeps(c, s)' <=> Keeps(c, s)) /\ (Own(c, s)' <=> Own(c, s))
    BY <1>2 DEF Own, Keeps, Copied, Merging
  <1>6. /\ live' \subseteq live \cup {nextc} /\ DOMAIN saved \cap live' \subseteq DOMAIN saved'
        /\ dropped \subseteq dropped' /\ qdecl \subseteq qdecl' /\ mem \subseteq mem'
    BY <1>1, <1>2
  <1>7. \A c \in live, s \in Seqs : Own(c, s)' =>
           Own(c, s) /\ \A f \in Facts : <<c, s, f>> \in mem => <<c, s, f>> \in mem'
    BY <1>6, <1>5
  <1>8. \A c \in Cfid, s \in Seqs :
           <<c, s>> \in qdecl' \ qdecl /\ Own(c, s)' => Whole(c, s)' /\ <<c, s, "hash">> \in mem'
    <2> SUFFICES ASSUME NEW c \in Cfid, NEW s \in Seqs, <<c, s>> \in qdecl' \ qdecl
                 PROVE  Own(c, s)' => Whole(c, s)' /\ <<c, s, "hash">> \in mem'
      OBVIOUS
    <2>1. c = d /\ s = t
      BY <1>1
    <2>2. Own(c, s) => Whole(c, s)
      BY <1>1, <1>3, <2>1, ReadyWhole
    <2>3. Whole(c, s) => Whole(c, s)'
      BY <1>2, <1>6 DEF Whole, LeftOut
    <2>4. <<c, s, "hash">> \in mem'
      BY <1>1, <1>6, <2>1
    <2> QED
      BY <1>5, <2>2, <2>3, <2>4
  <1>9. \A c \in Cfid, s \in Seqs, f \in Facts :
           <<c, s, f>> \in mem' \ mem /\ Own(c, s)'
             => <<c, s, f>> \in decls \/ <<c, s>> \in qdecl'
    BY <1>1 DEF Facts
  <1>10. \A c \in Cfid, s \in Seqs :
           loaded[c, s]' = "yes" /\ Own(c, s)' => loaded[c, s] = "yes" \/ Whole(c, s)'
    BY <1>2
  <1>11. HashInMem' /\ MergeEnds'
    <2>1. \A c \in Cfid, s \in Seqs :
            /\ <<c, s, "buf">> \in mem' \ mem => c = d /\ s = t
            /\ <<c, s, "data">> \in mem' \ mem => c = d /\ s = t
      BY <1>1
    <2>2. <<d, t, "data">> \in mem' /\ <<d, t, "hash">> \in mem'
      BY <1>1
    <2>3. HashInMem'
      BY <1>5, <1>6, <2>1, <2>2 DEF DataInv, HashInMem
    <2> QED
      BY <1>1, <1>2, <2>3 DEF MergeEnds
  <1> QED
    BY <1>1, <1>2, <1>6, <1>7, <1>8, <1>9, <1>10, <1>11, DataStable

LEMMA ForkData ==
  ASSUME BaseInv, DataInv, NEW d \in live, NEW p \in Seqs, NEW t \in Seqs,
         NEW h \in History, Fork(d, p, t, h)
  PROVE  DataInv'
  <1> DEFINE e == [k \in {nextc} |-> [parent |-> d, pseq |-> p, top |-> t,
                                       hist |-> HistAt(h, t)]]
  <1>1. /\ alive /\ ~merge.on
        /\ \/ /\ conf' = Over(conf, e)
              /\ mem' = mem \cup {<<nextc, t, "hash">>}
              /\ qdecl' = qdecl \cup {<<nextc, t>>}
           \/ UNCHANGED <<conf, mem, qdecl>>
    BY DEF Fork, Putting
  <1>2. UNCHANGED <<merge, saved, loaded, dbq, tx, rows, decls, dropped, alive>>
    BY DEF Fork, lockVars, updaterVars, dbVars, lifeVars
  <1>3. CASE UNCHANGED <<conf, mem, qdecl>>
    <2>1. \A c \in Cfid, s \in Seqs : loaded[c, s]' = "yes" => loaded[c, s] = "yes"
      BY <1>2
    <2>2. hold' = "put" => ~merge.on
      BY <1>1
    <2> QED
      BY <1>1, <1>2, <1>3, <2>1, <2>2, DataSame
  <1>4. CASE /\ conf' = Over(conf, e)
             /\ mem' = mem \cup {<<nextc, t, "hash">>}
             /\ qdecl' = qdecl \cup {<<nextc, t>>}
    <2>1. live' = live \cup {nextc} /\ \A c \in live : conf'[c] = conf[c]
      BY <1>4 DEF Over
    <2>2. nextc \notin live /\ \A x \in decls : x[1] # nextc
      BY <1>1, NothingYet DEF DataInv
    <2>3. \A x \in mem : x[1] \in live
      BY BaseTypes
    <2>5. \A c \in live : \A s \in Seqs :
            (Keeps(c, s)' <=> Keeps(c, s)) /\ (Own(c, s)' <=> Own(c, s))
      BY <1>2, <2>1 DEF Own, Keeps, Copied, Merging
    <2>6. /\ live' \subseteq live \cup {nextc}
          /\ DOMAIN saved \cap live' \subseteq DOMAIN saved'
          /\ dropped \subseteq dropped' /\ qdecl \subseteq qdecl' /\ mem \subseteq mem'
      BY <1>2, <1>4, <2>1
    <2>7. \A c \in live, s \in Seqs : Own(c, s)' =>
             Own(c, s) /\ \A f \in Facts : <<c, s, f>> \in mem => <<c, s, f>> \in mem'
      BY <2>5, <2>6
    <2>8. \A c \in Cfid, s \in Seqs :
             <<c, s>> \in qdecl' \ qdecl /\ Own(c, s)'
               => Whole(c, s)' /\ <<c, s, "hash">> \in mem'
      <3> SUFFICES ASSUME NEW c \in Cfid, NEW s \in Seqs, <<c, s>> \in qdecl' \ qdecl
                   PROVE  Whole(c, s)' /\ <<c, s, "hash">> \in mem'
        OBVIOUS
      <3>1. c = nextc /\ s = t
        BY <1>4
      <3>2. Whole(c, s)'
        BY <1>2, <2>2, <3>1 DEF Whole
      <3>3. <<c, s, "hash">> \in mem'
        BY <1>4, <3>1
      <3> QED
        BY <3>2, <3>3
    <2>9. \A c \in Cfid, s \in Seqs, f \in Facts :
             <<c, s, f>> \in mem' \ mem /\ Own(c, s)'
               => <<c, s, f>> \in decls \/ <<c, s>> \in qdecl'
      BY <1>4
    <2>10. \A c \in Cfid, s \in Seqs :
             loaded[c, s]' = "yes" /\ Own(c, s)' => loaded[c, s] = "yes" \/ Whole(c, s)'
      BY <1>2
    <2>11. HashInMem'
      <3>1. ASSUME NEW c \in Cfid, NEW s \in Seqs
            PROVE  /\ <<c, s, "buf">> \in mem' => <<c, s, "data">> \in mem'
                   /\ Keeps(c, s)' /\ <<c, s, "data">> \in mem' => <<c, s, "hash">> \in mem'
        <4>1. /\ <<c, s, "buf">> \in mem' => <<c, s, "buf">> \in mem
              /\ <<c, s, "data">> \in mem' => <<c, s, "data">> \in mem
          BY <1>4
        <4>2. <<c, s, "data">> \in mem => c \in live
          BY <2>3
        <4> QED
          BY <2>5, <2>6, <4>1, <4>2 DEF DataInv, HashInMem
      <3> QED
        BY <3>1 DEF HashInMem
    <2>12. MergeEnds'
      BY <1>1, <1>2 DEF MergeEnds
    <2> QED
      BY <1>1, <1>2, <2>6, <2>7, <2>8, <2>9, <2>10, <2>11, <2>12, DataStable
  <1> QED
    BY <1>1, <1>3, <1>4

LEMMA BeginMergeData ==
  ASSUME BaseInv, DataInv, NEW i1 \in live, NEW i2 \in live, NEW t \in Seqs,
         BeginMerge(i1, i2, t)
  PROVE  DataInv'
  <1>1. /\ alive /\ ~merge.on /\ t > conf[i2].pseq
        /\ conf' = [conf EXCEPT ![i2].parent = i1]
        /\ merge' = [on |-> TRUE, dst |-> i1, src |-> i2, cseq |-> t,
                     seq |-> conf[i2].pseq + 1]
    BY DEF BeginMerge, Putting
  <1>2. UNCHANGED <<mem, saved, loaded, qdecl, dbq, tx, rows, decls, dropped, alive>>
    BY DEF BeginMerge, lockVars, queueVars, updaterVars, dbVars, lifeVars
  <1>3. Forest(conf) /\ live \subseteq Cfid
    BY BaseTypes
  <1>4. live' = live /\ \A c \in live : conf'[c].pseq = conf[c].pseq
    <2>1. \A c \in live : conf[c] \in Conflict
      BY <1>3, ForestType
    <2> QED
      BY <1>1, <2>1 DEF Conflict
  <1>5. \A c, s : (Keeps(c, s)' <=> Keeps(c, s)) /\ (Own(c, s)' => Own(c, s))
    BY <1>1, <1>4 DEF Own, Keeps, Copied, Merging
  <1>6. /\ live' \subseteq live \cup {nextc} /\ DOMAIN saved \cap live' \subseteq DOMAIN saved'
        /\ dropped \subseteq dropped' /\ qdecl \subseteq qdecl'
    BY <1>2, <1>4
  <1>7. \A c \in live, s \in Seqs : Own(c, s)' =>
           Own(c, s) /\ \A f \in Facts : <<c, s, f>> \in mem => <<c, s, f>> \in mem'
    BY <1>2, <1>5
  <1>8. \A c \in Cfid, s \in Seqs :
           <<c, s>> \in qdecl' \ qdecl /\ Own(c, s)' => Whole(c, s)' /\ <<c, s, "hash">> \in mem'
    BY <1>2
  <1>9. \A c \in Cfid, s \in Seqs, f \in Facts :
           <<c, s, f>> \in mem' \ mem /\ Own(c, s)'
             => <<c, s, f>> \in decls \/ <<c, s>> \in qdecl'
    BY <1>2
  <1>10. \A c \in Cfid, s \in Seqs :
           loaded[c, s]' = "yes" /\ Own(c, s)' => loaded[c, s] = "yes" \/ Whole(c, s)'
    BY <1>2
  <1>11. HashInMem'
    BY <1>2, <1>5 DEF DataInv, HashInMem
  <1>12. MergeEnds'
    <2>1. merge'.seq <= merge'.cseq + 1
      <3>1. conf[i2].pseq \in Int /\ t \in Int
        BY <1>3, ForestType, SeqType
      <3> QED
        BY <1>1, <3>1
    <2> QED
      BY <2>1 DEF MergeEnds
  <1> QED
    BY <1>1, <1>2, <1>6, <1>7, <1>8, <1>9, <1>10, <1>11, <1>12, DataStable

\* What a load brings to memory is stored.
LEMMA EndLoadData ==
  ASSUME BaseInv, DataInv, NEW d \in Cfid, NEW t \in Seqs, EndLoad(d, t), alive'
  PROVE  DataInv'
  <1>1. /\ alive
        /\ mem' = mem \cup {<<d, t, f>> : f \in Stored(d, t) \ InMem(d, t)}
        /\ loaded' = [loaded EXCEPT ![<<d, t>>] = "yes"]
        /\ UNCHANGED <<conf, nextc, merge, lockVars, queueVars, updaterVars, dbVars,
                       lifeVars, dropped>>
    BY DEF EndLoad, Exit
  <1>2. UNCHANGED <<conf, merge, saved, qdecl, dbq, tx, rows, decls, dropped, alive>>
    BY <1>1 DEF queueVars, updaterVars, dbVars, lifeVars
  <1>3. \A c \in Cfid, s \in Seqs, f \in Facts \cup Frames :
          <<c, s, f>> \in mem' <=> \/ <<c, s, f>> \in mem
                                   \/ c = d /\ s = t /\ f \in Facts /\ <<c, s, f>> \in decls
    BY <1>1 DEF Stored, InMem
  <1>5. \A c, s : (Keeps(c, s)' <=> Keeps(c, s)) /\ (Own(c, s)' <=> Own(c, s))
    BY <1>2 DEF Own, Keeps, Copied, Merging
  <1>6. /\ live' \subseteq live \cup {nextc} /\ DOMAIN saved \cap live' \subseteq DOMAIN saved'
        /\ dropped \subseteq dropped' /\ qdecl \subseteq qdecl' /\ mem \subseteq mem'
    BY <1>1, <1>2
  <1>7. \A c \in live, s \in Seqs : Own(c, s)' =>
           Own(c, s) /\ \A f \in Facts : <<c, s, f>> \in mem => <<c, s, f>> \in mem'
    BY <1>5, <1>6
  <1>8. \A c \in Cfid, s \in Seqs :
           <<c, s>> \in qdecl' \ qdecl /\ Own(c, s)' => Whole(c, s)' /\ <<c, s, "hash">> \in mem'
    BY <1>2
  <1>9. \A c \in Cfid, s \in Seqs, f \in Facts :
           <<c, s, f>> \in mem' \ mem /\ Own(c, s)'
             => <<c, s, f>> \in decls \/ <<c, s>> \in qdecl'
    BY <1>3
  <1>10. \A c \in Cfid, s \in Seqs :
           loaded[c, s]' = "yes" /\ Own(c, s)' => loaded[c, s] = "yes" \/ Whole(c, s)'
    <2> SUFFICES ASSUME NEW c \in Cfid, NEW s \in Seqs, loaded[c, s]' = "yes"
                 PROVE  loaded[c, s] = "yes" \/ Whole(c, s)'
      OBVIOUS
    <2>1. CASE c = d /\ s = t
      BY <1>2, <1>3, <2>1 DEF Whole
    <2>2. CASE ~(c = d /\ s = t)
      <3>1. loaded \in [Cfid \X Seqs -> {"no", "busy", "yes"}] /\ <<c, s>> \in Cfid \X Seqs
        BY DEF BaseInv, MemTypes
      <3>2. loaded'[<<c, s>>] = loaded[<<c, s>>]
        BY <1>1, <2>2, <3>1
      <3> QED
        BY <3>2
    <2> QED
      BY <2>1, <2>2
  <1>11. HashInMem' /\ MergeEnds'
    <2>1. HashInMem'
      <3>1. ASSUME NEW c \in Cfid, NEW s \in Seqs
            PROVE  /\ <<c, s, "buf">> \in mem' => <<c, s, "data">> \in mem'
                   /\ Keeps(c, s)' /\ <<c, s, "data">> \in mem' => <<c, s, "hash">> \in mem'
        <4>1. /\ <<c, s, "buf">> \in mem => <<c, s, "data">> \in mem
              /\ Keeps(c, s) /\ <<c, s, "data">> \in mem => <<c, s, "hash">> \in mem
              /\ <<c, s, "data">> \in decls => <<c, s, "hash">> \in decls
          BY DEF DataInv, HashInMem, HashInRow
        <4>2. "buf" \notin Facts /\ {"buf", "data", "hash"} \subseteq Facts \cup Frames
              /\ {"hash", "data"} \subseteq Facts
          BY DEF Facts, Frames
        <4> QED
          BY <1>3, <1>5, <4>1, <4>2
      <3> QED
        BY <3>1 DEF HashInMem
    <2>2. MergeEnds'
      BY <1>1, <1>2 DEF DataInv, MergeEnds, FullMerge, lockVars
    <2> QED
      BY <2>1, <2>2
  <1> QED
    BY <1>1, <1>2, <1>6, <1>7, <1>8, <1>9, <1>10, <1>11, DataStable

\* What a merge copies its source gives up, and nobody takes over.
LEMMA CopyOwn ==
  ASSUME BaseInv, CopyDecl
  PROVE  \A c \in Cfid, s \in Seqs :
           /\ Keeps(c, s)' => Keeps(c, s)
           /\ Own(c, s)' => Own(c, s) /\ ~(c = merge.src /\ s = merge.seq)
  <1> DEFINE src == merge.src
             dst == merge.dst
             t == merge.seq
  <1>1. /\ Forest(conf) /\ live' = live /\ merge.on /\ alive
        /\ src \in live /\ dst \in live /\ dst < src /\ t \in Seqs /\ t <= LastCopied
        /\ \A c \in live \ {src} : conf'[c] = conf[c]
        /\ conf'[src].top = conf[src].top
        /\ merge' = [merge EXCEPT !.seq = merge.seq + 1] /\ merge \in Merge
    BY CopyConf
  <1>3. /\ conf'[src].pseq \in Int /\ conf[src].pseq \in Int
        /\ conf'[src].pseq >= conf[src].pseq /\ t > conf[src].pseq
        /\ t \in Int
    <2>1. merge # NoMerge
      BY <1>1 DEF NoMerge
    <2>2. conf[src].pseq < t
      BY <2>1 DEF BaseInv, MergeRight
    <2>3. /\ conf'[src].pseq = IF merge.seq = merge.cseq THEN merge.cseq ELSE conf[src].pseq
      BY CopyConf
    <2>4. conf[src].pseq \in Int /\ t \in Int
      BY <1>1, ForestType, SeqType
    <2> QED
      BY <2>2, <2>3, <2>4
  <1>4. merge'.on /\ merge'.src = src /\ merge'.dst = dst /\ merge'.seq = t + 1
        /\ merge'.cseq = merge.cseq
    BY <1>1 DEF Merge
  <1>6. \A c \in Cfid, s \in Seqs : Keeps(c, s)' => Keeps(c, s)
    <2> SUFFICES ASSUME NEW c \in Cfid, NEW s \in Seqs, c \in live, s > conf'[c].pseq
                 PROVE  s > conf[c].pseq
      BY <1>1 DEF Keeps
    <2>1. s \in Int
      BY SeqType
    <2> QED
      BY <1>1, <1>3, <2>1
  <1>7. \A c \in Cfid, s \in Seqs : Own(c, s)' => Own(c, s) /\ ~(c = src /\ s = t)
    <2> TAKE c \in Cfid, s \in Seqs
    <2>1. Copied(c, s) => Copied(c, s)'
      <3>1. s < t => s < t + 1
        BY <1>3, SeqType
      <3> QED
        BY <1>4, <3>1 DEF Copied, Merging
    <2>2. c = src /\ s = t => Copied(c, s)'
      BY <1>3, <1>4 DEF Copied, Merging
    <2> QED
      BY <1>6, <2>1, <2>2 DEF Own
  <1> QED
    BY <1>6, <1>7

LEMMA PutStopsData ==
  ASSUME BaseInv, DataInv, PutStops
  PROVE  DataInv'
  <1>1. UNCHANGED <<conf, mem, merge, saved, qdecl, dbq, tx, rows, decls, dropped, loaded>>
        /\ alive /\ alive' /\ hold' = "stuck"
    BY DEF PutStops
  <1> QED
    BY <1>1, DataSame

\* What a copy that stops has brought, the next row would be made of.
LEMMA CopyStuckData ==
  ASSUME BaseInv, DataInv, CopyStuck
  PROVE  DataInv'
  <1> DEFINE src == merge.src
             dst == merge.dst
             t == merge.seq
             k == ToC(conf, dst, t)
  <1>1. /\ alive /\ alive' /\ hold = "put" /\ hold' = "stuck" /\ merge.on
        /\ live \subseteq Cfid /\ Forest(conf) /\ src \in live /\ k \in live
        /\ t \in Seqs /\ t > conf[src].pseq /\ t > conf[k].pseq /\ k # src
        /\ dropped' = dropped \cup LeftBehind(k, t) /\ qdecl \subseteq qdecl'
        /\ UNCHANGED <<conf, merge, saved, dbq, tx, rows, decls, loaded>>
    BY CopyStops
  <1>2. /\ \A c \in Cfid, s \in Seqs, f \in Facts \cup Frames :
              <<c, s, f>> \in mem' <=>
                \/ <<c, s, f>> \in mem
                \/ c = k /\ s = t /\ f = "hash" /\ <<src, t, f>> \in mem
        /\ \A c \in Cfid, s \in Seqs :
              <<c, s>> \in qdecl' \ qdecl =>
                c = k /\ s = t /\ <<src, t, "hash">> \in mem /\ <<k, t, "hash">> \notin mem
        /\ <<src, t, "hash">> \in mem /\ <<k, t, "hash">> \notin mem => <<k, t>> \in qdecl'
    BY CopyStops
  <1> HIDE DEF src, dst, t, k
  <1>3. \A c \in Cfid, s \in Seqs : (Keeps(c, s)' <=> Keeps(c, s)) /\ (Own(c, s)' <=> Own(c, s))
    BY <1>1 DEF Own, Keeps, Copied, Merging
  <1>4. /\ live' \subseteq live \cup {nextc} /\ DOMAIN saved \cap live' \subseteq DOMAIN saved'
        /\ dropped \subseteq dropped'
    BY <1>1
  <1>5. \A c \in live, s \in Seqs : Own(c, s)' =>
           Own(c, s) /\ \A f \in Facts : <<c, s, f>> \in mem => <<c, s, f>> \in mem'
    BY <1>1, <1>2, <1>3
  <1>6. ASSUME NEW c \in Cfid, NEW s \in Seqs, <<c, s>> \in qdecl' \ qdecl, Own(c, s)
        PROVE  Whole(c, s)' /\ <<c, s, "hash">> \in mem'
    <2>1. c = k /\ s = t /\ <<src, t, "hash">> \in mem /\ <<k, t, "hash">> \notin mem
      BY <1>2, <1>6
    <2>2. <<k, t, "hash">> \in mem'
      BY <1>2, <1>6, <2>1 DEF Facts
    <2>3. CASE <<k, t, "data">> \in mem'
      BY <2>1, <2>2, <2>3 DEF Whole, Facts
    <2>4. CASE <<k, t, "data">> \notin decls
      BY <1>1, <2>1, <2>2, <2>4 DEF Whole, Facts
    <2>5. CASE <<k, t, "data">> \notin mem' /\ <<k, t, "data">> \in decls
      <3>1. <<k, t, "data">> \notin mem
        BY <1>2, <1>6, <2>1, <2>5 DEF Facts, Frames
      <3>2. CASE loaded[k, t] = "yes"
        <4>1. Whole(k, t)
          BY <1>6, <2>1, <3>2 DEF DataInv, LoadedRight
        <4>2. LeftOut(t, "data")
          BY <2>5, <3>1, <4>1 DEF Whole, Facts
        <4>3. LeftOut(s, "data")'
          BY <1>4, <2>1, <4>2 DEF LeftOut
        <4> QED
          BY <2>1, <2>2, <4>3 DEF Whole, Facts
      <3>3. CASE loaded[k, t] # "yes"
        <4>1. "data" \in Known(k, t) \ InMem(k, t)
          BY <2>5, <3>1, <3>3 DEF Known, Stored, InMem, Facts
        <4>2. ~(InMem(src, t) \subseteq InMem(k, t))
          BY <2>1 DEF InMem, Facts
        <4>3. <<HistAt(conf[src].hist, t), t, "data">> \in LeftBehind(k, t)
          BY <4>1, <4>2 DEF LeftBehind, src
        <4>4. HistAt(conf[src].hist, t) \in History
          BY <1>1, ForestType DEF HistAt, History
        <4>5. LeftOut(s, "data")'
          BY <1>1, <2>1, <4>3, <4>4 DEF LeftOut
        <4> QED
          BY <2>1, <2>2, <4>5 DEF Whole, Facts
      <3> QED
        BY <3>2, <3>3
    <2> QED
      BY <2>3, <2>4, <2>5
  <1>7. \A c \in Cfid, s \in Seqs :
           <<c, s>> \in qdecl' \ qdecl /\ Own(c, s)' => Whole(c, s)' /\ <<c, s, "hash">> \in mem'
    BY <1>3, <1>6
  <1>8. \A c \in Cfid, s \in Seqs, f \in Facts :
           <<c, s, f>> \in mem' \ mem /\ Own(c, s)'
             => <<c, s, f>> \in decls \/ <<c, s>> \in qdecl'
    BY <1>2
  <1>9. \A c \in Cfid, s \in Seqs :
           loaded[c, s]' = "yes" /\ Own(c, s)' => loaded[c, s] = "yes" \/ Whole(c, s)'
    BY <1>1
  <1>10. HashInMem' /\ MergeEnds'
    <2>1. ASSUME NEW c \in Cfid, NEW s \in Seqs
          PROVE  /\ <<c, s, "buf">> \in mem' => <<c, s, "data">> \in mem'
                 /\ Keeps(c, s) /\ <<c, s, "data">> \in mem' => <<c, s, "hash">> \in mem'
      <3>1. /\ <<c, s, "buf">> \in mem' => <<c, s, "buf">> \in mem
            /\ <<c, s, "data">> \in mem' <=> <<c, s, "data">> \in mem
            /\ <<c, s, "hash">> \in mem => <<c, s, "hash">> \in mem'
        BY <1>2 DEF Facts, Frames
      <3> QED
        BY <3>1 DEF DataInv, HashInMem
    <2>2. HashInMem'
      BY <1>3, <2>1 DEF HashInMem
    <2> QED
      BY <1>1, <2>2 DEF MergeEnds
  <1> QED
    BY <1>1, <1>4, <1>5, <1>7, <1>8, <1>9, <1>10, DataStable

\* What a copy of a declaration brings to the conflict that keeps it has its
\* row rewritten with all that is stored there, but for what is left behind.
LEMMA CopyDeclData == BaseInv /\ DataInv /\ CopyDecl => DataInv'
  <1> SUFFICES ASSUME BaseInv, DataInv, CopyDecl PROVE DataInv'
    OBVIOUS
  <1> DEFINE src == merge.src
             dst == merge.dst
             t == merge.seq
             k == ToC(conf, dst, t)
  <1>1. /\ Forest(conf) /\ live' = live /\ merge.on /\ alive
        /\ src \in live /\ dst \in live /\ dst < src /\ t \in Seqs /\ t <= LastCopied
        /\ \A c \in live \ {src} : conf'[c] = conf[c]
        /\ conf'[src].top = conf[src].top
        /\ merge' = [merge EXCEPT !.seq = merge.seq + 1] /\ merge \in Merge
    BY CopyConf
  <1>2. UNCHANGED <<saved, loaded, dbq, tx, rows, decls, alive>>
    BY DEF CopyDecl, lockVars, updaterVars, dbVars, lifeVars
  <1>3. /\ conf'[src].pseq \in Int /\ conf[src].pseq \in Int
        /\ conf'[src].pseq >= conf[src].pseq /\ t > conf[src].pseq
        /\ t \in Int
    <2>1. merge # NoMerge
      BY <1>1 DEF NoMerge
    <2>2. conf[src].pseq < t
      BY <2>1 DEF BaseInv, MergeRight
    <2>3. /\ conf'[src].pseq = IF merge.seq = merge.cseq THEN merge.cseq ELSE conf[src].pseq
      BY CopyConf
    <2>4. conf[src].pseq \in Int /\ t \in Int
      BY <1>1, ForestType, SeqType
    <2> QED
      BY <2>2, <2>3, <2>4
  <1>4. merge'.on /\ merge'.src = src /\ merge'.dst = dst /\ merge'.seq = t + 1
        /\ merge'.cseq = merge.cseq
    BY <1>1 DEF Merge
  <1>5. /\ k \in live /\ k <= dst /\ t > conf[k].pseq /\ k # src /\ dst # src
        /\ CopyFacts(k, t) /\ dropped' = dropped \cup LeftBehind(k, t)
        /\ live \subseteq Cfid
    <2>1. live \subseteq Nat /\ live \subseteq Cfid
      BY BaseTypes
    <2> QED
      BY <1>1, <2>1, CopyTypes
  <1>6. \A c \in Cfid, s \in Seqs :
          /\ Keeps(c, s)' => Keeps(c, s)
          /\ Own(c, s)' => Own(c, s) /\ ~(c = src /\ s = t)
    BY CopyOwn
  <1>8. /\ mem' = (mem \ MovedFrames(t))
                    \cup {<<k, t, f>> : f \in (InMem(src, t) \ Frames) \ InMem(k, t)}
                    \cup {<<dst, t, f>> : f \in InMem(src, t) \cap Frames}
        /\ qdecl' = qdecl \cup {<<k, t>> : f \in (InMem(src, t) \ Frames) \ InMem(k, t)}
                          \cup {<<dst, t>> : f \in InMem(src, t) \cap Frames}
    BY <1>5 DEF CopyFacts
  <1> HIDE DEF src, dst, t, k
  <1>9. \A c \in Cfid, s \in Seqs, f \in Facts \cup Frames :
          <<c, s, f>> \in mem' <=>
            \/ <<c, s, f>> \in mem /\ ~(c = src /\ s = t /\ f \in Frames)
            \/ c = k /\ s = t /\ f = "hash" /\ <<src, t, f>> \in mem /\ <<k, t, f>> \notin mem
            \/ c = dst /\ s = t /\ f \in Frames /\ <<src, t, f>> \in mem
    <2>1. MovedFrames(t) = {<<src, t, f>> : f \in Frames}
      BY DEF MovedFrames, src
    <2> QED
      BY <1>8, <2>1 DEF InMem, Facts, Frames
  <1>10. \A c \in Cfid, s \in Seqs :
          <<c, s>> \in qdecl' \ qdecl =>
            /\ s = t
            /\ \/ c = k /\ <<src, t, "hash">> \in mem /\ <<k, t, "hash">> \notin mem
               \/ c = dst /\ \E f \in Frames : <<src, t, f>> \in mem
    BY <1>8 DEF InMem, Facts, Frames
  <1>11. /\ <<src, t, "hash">> \in mem /\ <<k, t, "hash">> \notin mem => <<k, t>> \in qdecl'
         /\ \A f \in Frames : <<src, t, f>> \in mem => <<dst, t>> \in qdecl'
    <2>1. ASSUME <<src, t, "hash">> \in mem, <<k, t, "hash">> \notin mem
          PROVE  <<k, t>> \in qdecl'
      <3>1. "hash" \in (InMem(src, t) \ Frames) \ InMem(k, t)
        BY <2>1 DEF InMem, Facts, Frames
      <3> QED
        BY <1>8, <3>1
    <2>2. ASSUME NEW f \in Frames, <<src, t, f>> \in mem
          PROVE  <<dst, t>> \in qdecl'
      <3>1. f \in InMem(src, t) \cap Frames
        BY <2>2 DEF InMem
      <3> QED
        BY <1>8, <3>1
    <2> QED
      BY <2>1, <2>2
  <1>12. /\ {src, dst, k} \subseteq Cfid /\ {src, dst, k} \subseteq live /\ t \in Seqs
         /\ t > conf[src].pseq /\ src # dst /\ src # k
    BY <1>1, <1>3, <1>5 DEF src, dst, t
  <1>13. dst # k => ~(t > conf[dst].pseq)
    <2>1. t > conf[dst].pseq => ToC(conf, dst, t) = dst
      BY <1>1, <1>12, ToCSelf
    <2> QED
      BY <2>1 DEF k, dst, t
  <1>14. \A c \in Cfid, s \in Seqs :
           /\ <<c, s, "buf">> \in mem => <<c, s, "data">> \in mem
           /\ Keeps(c, s) /\ <<c, s, "data">> \in mem => <<c, s, "hash">> \in mem
    BY DEF DataInv, HashInMem
  <1>15. Keeps(src, t)
    BY <1>12 DEF Keeps
  <1>16. \A f \in Frames : <<src, t, f>> \in mem =>
            <<src, t, "data">> \in mem /\ <<src, t, "hash">> \in mem
    BY <1>12, <1>14, <1>15 DEF Frames
  <1>17. <<src, t, "hash">> \in mem => <<k, t, "hash">> \in mem'
    BY <1>9, <1>12 DEF Facts, Frames
  <1>18. \A c \in Cfid, s \in Seqs : <<c, s, "hash">> \in mem => <<c, s, "hash">> \in mem'
    BY <1>9 DEF Facts, Frames
  <1>19. /\ live' \subseteq live \cup {nextc} /\ DOMAIN saved \cap live' \subseteq DOMAIN saved'
         /\ dropped \subseteq dropped' /\ qdecl \subseteq qdecl'
    BY <1>1, <1>2, <1>5, <1>8
  <1>20. \A c \in live, s \in Seqs : Own(c, s)' =>
            Own(c, s) /\ \A f \in Facts : <<c, s, f>> \in mem => <<c, s, f>> \in mem'
    <2> SUFFICES ASSUME NEW c \in live, NEW s \in Seqs
                 PROVE  Own(c, s)' => Own(c, s)
                          /\ \A f \in Facts : <<c, s, f>> \in mem => <<c, s, f>> \in mem'
      OBVIOUS
    <2>1. c \in Cfid
      BY <1>5
    <2>2. ~(c = src /\ s = t) =>
            \A f \in Facts : <<c, s, f>> \in mem => <<c, s, f>> \in mem'
      BY <1>9, <2>1
    <2> QED
      BY <1>6, <2>1, <2>2
  <1>21. \A c \in Cfid, s \in Seqs :
            <<c, s>> \in qdecl' \ qdecl /\ Own(c, s)' => Whole(c, s)' /\ <<c, s, "hash">> \in mem'
    <2>1. ASSUME NEW c \in Cfid, NEW s \in Seqs, <<c, s>> \in qdecl' \ qdecl, Keeps(c, s),
                 Own(c, s)
          PROVE  Whole(c, s)' /\ <<c, s, "hash">> \in mem'
      <3>1. s = t /\ c = k /\ c \in live
        BY <1>1, <1>10, <1>13, <2>1 DEF Keeps
      <3>2. <<k, t, "hash">> \in mem'
        BY <1>10, <1>12, <1>16, <1>17, <2>1, <3>1
      <3>3. CASE <<k, t, "data">> \in mem'
        BY <3>1, <3>2, <3>3 DEF Whole, Facts
      <3>4. CASE <<k, t, "data">> \notin mem' /\ <<k, t, "data">> \notin decls
        BY <1>2, <3>1, <3>2, <3>4 DEF Whole, Facts
      <3>5. CASE <<k, t, "data">> \notin mem' /\ <<k, t, "data">> \in decls
        <4>1. <<k, t, "data">> \notin mem
          BY <1>9, <1>12, <3>5 DEF Facts, Frames
        <4>2. <<src, t, "hash">> \in mem /\ <<k, t, "hash">> \notin mem
          <5>1. c = dst => \A f \in Frames : <<src, t, f>> \notin mem
            BY <1>9, <1>12, <1>16, <3>1, <3>5 DEF Facts, Frames
          <5> QED
            BY <1>10, <2>1, <3>1, <5>1
        <4>3. LeftOut(s, "data")'
          <5>1. CASE loaded[k, t] = "yes"
            <6>1. Whole(k, t)
              BY <1>12, <2>1, <3>1, <5>1 DEF DataInv, LoadedRight
            <6>2. LeftOut(s, "data")
              BY <3>1, <3>5, <4>1, <6>1 DEF Whole, Facts
            <6> QED
              BY <1>19, <6>2 DEF LeftOut
          <5>2. CASE loaded[k, t] # "yes"
            <6>1. "data" \in Known(k, t) \ InMem(k, t)
              BY <3>5, <4>1, <5>2 DEF Known, Stored, InMem, Facts
            <6>2. ~(InMem(src, t) \subseteq InMem(k, t))
              BY <4>2 DEF InMem, Facts
            <6>3. <<HistAt(conf[src].hist, t), t, "data">> \in LeftBehind(k, t)
              BY <6>1, <6>2 DEF LeftBehind, src
            <6>4. HistAt(conf[src].hist, t) \in History
              BY <1>1, <1>12, ForestType DEF HistAt, History
            <6>5. dropped' = dropped \cup LeftBehind(k, t)
              BY <1>5 DEF k, t
            <6> QED
              BY <3>1, <6>3, <6>4, <6>5 DEF LeftOut
          <5> QED
            BY <5>1, <5>2
        <4> QED
          BY <3>1, <3>2, <4>3 DEF Whole, Facts
      <3> QED
        BY <3>1, <3>2, <3>3, <3>4, <3>5
    <2>2. ASSUME NEW c \in Cfid, NEW s \in Seqs
          PROVE  Own(c, s)' => Own(c, s) /\ Keeps(c, s)
      BY <1>6 DEF Own
    <2> QED
      BY <2>1, <2>2
  <1>22. \A c \in Cfid, s \in Seqs, f \in Facts :
            <<c, s, f>> \in mem' \ mem /\ Own(c, s)'
              => <<c, s, f>> \in decls \/ <<c, s>> \in qdecl'
    BY <1>9, <1>11
  <1>23. \A c \in Cfid, s \in Seqs :
            loaded[c, s]' = "yes" /\ Own(c, s)' => loaded[c, s] = "yes" \/ Whole(c, s)'
    BY <1>2
  <1>24. HashInMem'
    <2>1. ASSUME NEW c \in Cfid, NEW s \in Seqs, <<c, s, "buf">> \in mem'
          PROVE  <<c, s, "data">> \in mem'
      BY <1>9, <1>14, <1>16, <2>1 DEF Facts, Frames
    <2>2. ASSUME NEW c \in Cfid, NEW s \in Seqs, c \in live, s > conf[c].pseq,
                 <<c, s, "data">> \in mem'
          PROVE  <<c, s, "hash">> \in mem'
      <3>1. CASE <<c, s, "data">> \in mem
        <4>1. Keeps(c, s)
          BY <2>2 DEF Keeps
        <4> QED
          BY <1>14, <1>18, <3>1, <4>1
      <3>2. CASE <<c, s, "data">> \notin mem
        <4>1. c = dst /\ s = t /\ <<src, t, "data">> \in mem
          BY <1>9, <2>2, <3>2 DEF Facts, Frames
        <4> QED
          BY <1>13, <1>16, <1>17, <2>2, <4>1 DEF Frames
      <3> QED
        BY <3>1, <3>2
    <2>3. ASSUME NEW c \in Cfid, NEW s \in Seqs
          PROVE  Keeps(c, s)' => c \in live /\ s > conf[c].pseq
      BY <1>6 DEF Keeps
    <2> QED
      BY <2>1, <2>2, <2>3 DEF HashInMem
  <1>25. MergeEnds'
    <2>1. conf'[src].top = conf[src].top /\ conf'[dst].top = conf[dst].top
      BY <1>1, <1>12 DEF src, dst
    <2>2. FullMerge' <=> FullMerge
      BY <1>4, <2>1 DEF FullMerge, src, dst
    <2>3. ~FullMerge => t <= merge.cseq
      BY <1>1 DEF LastCopied, t
    <2>4. merge.cseq \in Int /\ t \in Int
      BY <1>1, <1>3, SeqType DEF Merge, t
    <2>5. merge.cseq = merge'.cseq /\ merge'.seq = t + 1
      BY <1>4 DEF t
    <2>6. ~FullMerge => merge'.seq <= merge'.cseq + 1
      BY <2>3, <2>4, <2>5
    <2> QED
      BY <2>2, <2>6 DEF MergeEnds
  <1>26. UNCHANGED <<dbq, tx, rows, decls>> /\ alive /\ alive'
    BY <1>1, <1>2
  <1> QED
    BY <1>19, <1>20, <1>21, <1>22, <1>23, <1>24, <1>25, <1>26, DataStable

LEMMA EndMergeConf ==
  ASSUME BaseInv, EndMerge
  PROVE  /\ live' \subseteq live /\ mem' \subseteq mem
         /\ \A c \in live' : /\ conf'[c].pseq = conf[c].pseq
                             /\ \A m \in mem : m[1] = c => m \in mem'
         /\ DOMAIN saved \cap live' \subseteq DOMAIN saved'
         /\ merge' = NoMerge \/ merge' = merge
         /\ merge' = NoMerge /\ FullMerge => merge.src \notin live'
         /\ merge' # NoMerge => FullMerge /\ conf' = TopAfterMerge
  <1>1. /\ alive /\ hold = "put" /\ merge.on /\ merge.seq > LastCopied
        /\ \/ /\ ~FullMerge /\ merge' = NoMerge
              /\ UNCHANGED <<conf, mem, saved>>
           \/ /\ merge' = NoMerge
              /\ conf' = Heirs(TopAfterMerge)
              /\ mem' = {m \in mem : m[1] # merge.src}
              /\ saved' = Restrict(saved, DOMAIN saved \ {merge.src})
           \/ /\ FullMerge /\ conf' = TopAfterMerge /\ hold' = "stuck"
              /\ UNCHANGED <<merge, mem, saved>>
    BY DEF EndMerge
  <1>3. /\ Forest(conf) /\ live \subseteq Cfid /\ DOMAIN TopAfterMerge = live
        /\ \A c \in live \ {merge.dst} : TopAfterMerge[c] = conf[c]
        /\ TopAfterMerge[merge.dst].pseq = conf[merge.dst].pseq
        /\ merge \in Merge /\ merge.dst < merge.src
        /\ merge.src \in live /\ merge.dst \in live
    BY <1>1, BaseTypes, TopAfterForest
  <1>4. /\ \A c \in live : TopAfterMerge[c].pseq = conf[c].pseq
        /\ \A c \in live : TopAfterMerge[c] \in Conflict
    BY <1>1, <1>3, TopAfterForest, ForestType
  <1>5. /\ live' \subseteq live /\ mem' \subseteq mem
        /\ \A c \in live' : /\ conf'[c].pseq = conf[c].pseq
                            /\ \A m \in mem : m[1] = c => m \in mem'
        /\ DOMAIN saved \cap live' \subseteq DOMAIN saved'
        /\ merge' = NoMerge \/ merge' = merge
        /\ merge' = NoMerge /\ FullMerge => merge.src \notin live'
        /\ merge' # NoMerge => FullMerge /\ conf' = TopAfterMerge
    <2>1. CASE ~FullMerge /\ merge' = NoMerge /\ UNCHANGED <<conf, mem, saved>>
      BY <2>1
    <2>2. CASE /\ merge' = NoMerge
               /\ conf' = Heirs(TopAfterMerge)
               /\ mem' = {m \in mem : m[1] # merge.src}
               /\ saved' = Restrict(saved, DOMAIN saved \ {merge.src})
      <3>1. live' = live \ {merge.src}
        BY <1>3, <2>2 DEF Heirs
      <3>2. ASSUME NEW c \in live'
            PROVE  conf'[c].pseq = conf[c].pseq
        <4>1. \/ conf'[c] = TopAfterMerge[c]
              \/ conf'[c] = [TopAfterMerge[c] EXCEPT !.parent = merge.dst]
          BY <1>3, <2>2, <3>1 DEF Heirs
        <4> QED
          BY <1>4, <3>1, <4>1 DEF Conflict
      <3>3. DOMAIN saved' = DOMAIN saved \ {merge.src}
        BY <2>2 DEF Restrict
      <3>4. \A c \in live' : \A m \in mem : m[1] = c => m \in mem'
        BY <2>2, <3>1
      <3>5. mem' \subseteq mem
        BY <2>2
      <3> QED
        BY <2>2, <3>1, <3>2, <3>3, <3>4, <3>5
    <2>3. CASE FullMerge /\ conf' = TopAfterMerge /\ UNCHANGED <<merge, mem, saved>>
      <3>1. merge # NoMerge
        BY <1>1 DEF NoMerge
      <3> QED
        BY <1>3, <1>4, <2>3, <3>1
    <2> QED
      BY <1>1, <2>1, <2>2, <2>3
  <1> QED
    BY <1>5

\* What the source of a merge has given up nobody takes over.
LEMMA EndMergeOwn ==
  ASSUME BaseInv, DataInv, EndMerge
  PROVE  \A c \in Cfid, s \in Seqs :
           (Keeps(c, s)' => Keeps(c, s)) /\ (Own(c, s)' => Own(c, s))
  <1>1. /\ alive /\ hold = "put" /\ merge.on /\ merge.seq > LastCopied
        /\ \/ /\ ~FullMerge /\ merge' = NoMerge
              /\ UNCHANGED <<conf, mem, saved>>
           \/ /\ merge' = NoMerge
              /\ conf' = Heirs(TopAfterMerge)
              /\ mem' = {m \in mem : m[1] # merge.src}
              /\ saved' = Restrict(saved, DOMAIN saved \ {merge.src})
           \/ /\ FullMerge /\ conf' = TopAfterMerge /\ hold' = "stuck"
              /\ UNCHANGED <<merge, mem, saved>>
    BY DEF EndMerge
  <1>3. merge \in Merge
    BY <1>1, TopAfterForest
  <1>5. /\ live' \subseteq live /\ mem' \subseteq mem
        /\ \A c \in live' : /\ conf'[c].pseq = conf[c].pseq
                            /\ \A m \in mem : m[1] = c => m \in mem'
        /\ DOMAIN saved \cap live' \subseteq DOMAIN saved'
        /\ merge' = NoMerge \/ merge' = merge
        /\ merge' = NoMerge /\ FullMerge => merge.src \notin live'
        /\ merge' # NoMerge => FullMerge /\ conf' = TopAfterMerge
    BY EndMergeConf
  <1>6. \A c \in Cfid, s \in Seqs : Keeps(c, s)' => Keeps(c, s)
    BY <1>5 DEF Keeps
  <1>7. ASSUME NEW c \in Cfid, NEW s \in Seqs
        PROVE  Own(c, s)' => Own(c, s)
    <2>1. CASE merge' = merge
      BY <1>6, <2>1 DEF Own, Copied, Merging
    <2>2. CASE merge' = NoMerge /\ FullMerge
      BY <1>5, <1>6, <2>2 DEF Own, Keeps, Copied, Merging
    <2>3. CASE ~FullMerge
      <3>1. /\ merge.seq > merge.cseq /\ merge.seq <= merge.cseq + 1
            /\ conf[merge.src].pseq = merge.cseq
        <4>1. merge.seq > merge.cseq
          BY <1>1, <2>3 DEF LastCopied
        <4>2. merge # NoMerge
          BY <1>1 DEF NoMerge
        <4> QED
          BY <1>1, <2>3, <4>1, <4>2 DEF DataInv, MergeEnds, BaseInv, MergeRight
      <3>2. merge.seq \in Int /\ merge.cseq \in Int /\ s \in Int
        BY <1>3, SeqType DEF Merge
      <3>3. s > conf[merge.src].pseq => ~(s < merge.seq)
        BY <3>1, <3>2
      <3> QED
        BY <1>6, <3>3 DEF Own, Keeps, Copied, Merging
    <2> QED
      BY <1>5, <2>1, <2>2, <2>3
  <1> QED
    BY <1>6, <1>7

LEMMA EndMergeData == BaseInv /\ DataInv /\ EndMerge => DataInv'
  <1> SUFFICES ASSUME BaseInv, DataInv, EndMerge PROVE DataInv'
    OBVIOUS
  <1>1. /\ alive /\ hold = "put" /\ merge.on /\ merge.seq > LastCopied
        /\ \/ /\ ~FullMerge /\ merge' = NoMerge
              /\ UNCHANGED <<conf, mem, saved>>
           \/ /\ merge' = NoMerge
              /\ conf' = Heirs(TopAfterMerge)
              /\ mem' = {m \in mem : m[1] # merge.src}
              /\ saved' = Restrict(saved, DOMAIN saved \ {merge.src})
           \/ /\ FullMerge /\ conf' = TopAfterMerge /\ hold' = "stuck"
              /\ UNCHANGED <<merge, mem, saved>>
    BY DEF EndMerge
  <1>2. UNCHANGED <<loaded, qdecl, dbq, tx, rows, decls, dropped, alive>>
    BY DEF EndMerge, updaterVars, dbVars
  <1>3. live \subseteq Cfid
    BY BaseTypes
  <1>5. /\ live' \subseteq live /\ mem' \subseteq mem
        /\ \A c \in live' : /\ conf'[c].pseq = conf[c].pseq
                            /\ \A m \in mem : m[1] = c => m \in mem'
        /\ DOMAIN saved \cap live' \subseteq DOMAIN saved'
        /\ merge' = NoMerge \/ merge' = merge
        /\ merge' = NoMerge /\ FullMerge => merge.src \notin live'
        /\ merge' # NoMerge => FullMerge /\ conf' = TopAfterMerge
    BY EndMergeConf
  <1>6. \A c \in Cfid, s \in Seqs :
          (Keeps(c, s)' => Keeps(c, s)) /\ (Own(c, s)' => Own(c, s))
    BY EndMergeOwn
  <1>8. /\ live' \subseteq live \cup {nextc} /\ DOMAIN saved \cap live' \subseteq DOMAIN saved'
        /\ dropped \subseteq dropped' /\ qdecl \subseteq qdecl'
    BY <1>2, <1>5
  <1>9. ASSUME NEW c \in live', NEW s \in Seqs, NEW f, <<c, s, f>> \in mem
        PROVE  <<c, s, f>> \in mem'
    BY <1>5, <1>9
  <1>10. \A c \in live, s \in Seqs : Own(c, s)' =>
            Own(c, s) /\ \A f \in Facts : <<c, s, f>> \in mem => <<c, s, f>> \in mem'
    <2> SUFFICES ASSUME NEW c \in live, NEW s \in Seqs
                 PROVE  Own(c, s)' => Own(c, s)
                          /\ \A f \in Facts : <<c, s, f>> \in mem => <<c, s, f>> \in mem'
      OBVIOUS
    <2>1. c \in Cfid /\ (Own(c, s)' => c \in live')
      BY <1>3 DEF Own, Keeps
    <2> QED
      BY <1>6, <1>9, <2>1
  <1>11. \A c \in Cfid, s \in Seqs :
            <<c, s>> \in qdecl' \ qdecl /\ Own(c, s)' => Whole(c, s)' /\ <<c, s, "hash">> \in mem'
    BY <1>2
  <1>12. \A c \in Cfid, s \in Seqs, f \in Facts :
            <<c, s, f>> \in mem' \ mem /\ Own(c, s)'
              => <<c, s, f>> \in decls \/ <<c, s>> \in qdecl'
    BY <1>5
  <1>13. \A c \in Cfid, s \in Seqs :
            loaded[c, s]' = "yes" /\ Own(c, s)' => loaded[c, s] = "yes" \/ Whole(c, s)'
    BY <1>2
  <1>14. HashInMem'
    <2>1. ASSUME NEW c \in Cfid, NEW s \in Seqs
          PROVE  /\ <<c, s, "buf">> \in mem' => <<c, s, "data">> \in mem'
                 /\ Keeps(c, s)' /\ <<c, s, "data">> \in mem' => <<c, s, "hash">> \in mem'
      <3>1. /\ <<c, s, "buf">> \in mem => <<c, s, "data">> \in mem
            /\ Keeps(c, s) /\ <<c, s, "data">> \in mem => <<c, s, "hash">> \in mem
        BY DEF DataInv, HashInMem
      <3>2. ASSUME <<c, s, "buf">> \in mem'
            PROVE  <<c, s, "data">> \in mem'
        <4>1. <<c, s, "buf">> \in mem /\ <<c, s, "data">> \in mem
          BY <1>5, <3>1, <3>2
        <4>2. CASE mem' = mem
          BY <4>1, <4>2
        <4>3. CASE mem' = {m \in mem : m[1] # merge.src}
          BY <3>2, <4>1, <4>3
        <4> QED
          BY <1>1, <4>2, <4>3
      <3>3. Keeps(c, s)' => c \in live'
        BY DEF Keeps
      <3> QED
        BY <1>5, <1>6, <1>9, <3>1, <3>2, <3>3
    <2> QED
      BY <2>1 DEF HashInMem
  <1>15. MergeEnds'
    <2>1. CASE merge' = NoMerge
      BY <2>1 DEF MergeEnds, NoMerge
    <2>2. CASE merge' # NoMerge
      BY <1>1, <2>2 DEF MergeEnds
    <2> QED
      BY <2>1, <2>2
  <1> QED
    BY <1>1, <1>2, <1>8, <1>10, <1>11, <1>12, <1>13, <1>14, <1>15, DataStable

\* What end_update queues is still queued, and the rows are those of all conflicts.
LEMMA UnlockData == BaseInv /\ DataInv /\ Unlock => DataInv'
  <1> SUFFICES ASSUME BaseInv, DataInv, Unlock PROVE DataInv'
    OBVIOUS
  <1>1. /\ alive /\ hold' = "free" /\ EndUpdate
        /\ UNCHANGED <<conf, mem, merge, tx, rows, decls, dropped, loaded, alive>>
    BY DEF Unlock, scrollVars, dbVars, lifeVars
  <1>2. CASE conf[0].top = -1
    <2>1. UNCHANGED <<saved, qdecl, dbq>>
      BY <1>1, <1>2 DEF EndUpdate, queueVars
    <2>2. \A c \in Cfid, s \in Seqs : loaded[c, s]' = "yes" => loaded[c, s] = "yes"
      BY <1>1
    <2> QED
      BY <1>1, <2>1, <2>2, DataSame
  <1>3. CASE conf[0].top # -1
    <2> DEFINE e == [cf |-> ChangedRows, rm |-> qrm, decl |-> qdecl]
    <2>1. dbq' = Append(dbq, e) /\ saved' = conf /\ qdecl' = {}
      BY <1>1, <1>3 DEF EndUpdate, ScheduleDbUpdate
    <2>2. /\ Len(dbq) \in Nat /\ DOMAIN dbq = 1 .. Len(dbq)
          /\ DOMAIN dbq' = 1 .. Len(dbq) + 1
          /\ \A i \in DOMAIN dbq : i \in DOMAIN dbq' /\ dbq'[i] = dbq[i]
          /\ dbq'[Len(dbq) + 1] = e /\ Len(dbq) + 1 \in DOMAIN dbq'
      BY <2>1, BaseTypes
    <2>3. \A i \in DOMAIN dbq' : i \in DOMAIN dbq \/ i = Len(dbq) + 1
      BY <2>2
    <2>4. e.decl = qdecl
      OBVIOUS
    <2> HIDE DEF e
    <2>5. \A c, s : /\ Keeps(c, s)' <=> Keeps(c, s)
                    /\ Own(c, s)' <=> Own(c, s)
                    /\ Whole(c, s)' <=> Whole(c, s)
                    /\ \A f : LeftOut(s, f)' <=> LeftOut(s, f)
      BY <1>1 DEF Own, Keeps, Copied, Merging, Whole, LeftOut
    <2>6. \A c, s : Queued(c, s)' => Queued(c, s)
      BY <2>1, <2>2, <2>3, <2>4 DEF Queued
    <2>7. HashInMem' /\ MergeEnds' /\ HashInRow'
      BY <1>1, <2>5 DEF DataInv, HashInMem, MergeEnds, HashInRow, InTx
    <2>8. RowsRight'
      BY <1>1, <2>1 DEF DataInv, RowsRight
    <2>9. LoadedRight' /\ QueuedRight'
      BY <1>1, <2>5, <2>6 DEF DataInv, LoadedRight, QueuedRight
    <2>10. TxRight'
      <3>1. CASE dbq = <<>>
        <4>1. tx = NoTx
          BY <3>1 DEF BaseInv, DbTypes
        <4> QED
          BY <1>1, <4>1 DEF TxRight, NoTx
      <3>2. CASE dbq # <<>>
        <4>1. Head(dbq') = Head(dbq)
          BY <2>1, <3>2, BaseTypes
        <4>2. TxRight
          BY DEF DataInv
        <4> QED
          BY <1>1, <2>5, <4>1, <4>2 DEF TxRight
      <3> QED
        BY <3>1, <3>2
    <2>11. Durable'
      <3>1. ASSUME NEW c \in Cfid, NEW s \in Seqs
            PROVE  Scheduled(c, s) => Scheduled(c, s)'
        <4>1. ASSUME <<c, s>> \in qdecl
              PROVE  Scheduled(c, s)'
          <5>1. Len(dbq) + 1 = 1 => tx.stage = "idle"
            <6>1. Len(dbq) + 1 = 1 => dbq = <<>>
              BY BaseTypes
            <6>2. dbq = <<>> => tx = NoTx
              BY DEF BaseInv, DbTypes
            <6> QED
              BY <6>1, <6>2 DEF NoTx
          <5>2. <<c, s>> \in dbq'[Len(dbq) + 1].decl
            BY <2>2, <2>4, <4>1
          <5> QED
            BY <1>1, <2>2, <5>1, <5>2 DEF Scheduled
        <4>2. ASSUME NEW i \in DOMAIN dbq, <<c, s>> \in dbq[i].decl,
                     i = 1 => \/ tx.stage = "idle"
                              \/ tx.stage = "read" /\ <<c, s>> \in tx.todo
              PROVE  Scheduled(c, s)'
          BY <1>1, <2>2, <4>2 DEF Scheduled
        <4> QED
          BY <4>1, <4>2 DEF Scheduled
      <3>2. ASSUME NEW c \in Cfid, NEW s \in Seqs, NEW f \in Facts
            PROVE  /\ InTx(<<c, s, f>>)' <=> InTx(<<c, s, f>>)
                   /\ (<<c, s, f>> \in mem' <=> <<c, s, f>> \in mem)
                   /\ (<<c, s, f>> \in decls' <=> <<c, s, f>> \in decls)
        BY <1>1 DEF InTx
      <3> QED
        BY <2>5, <3>1, <3>2 DEF DataInv, Durable
    <2> QED
      BY <2>7, <2>8, <2>9, <2>10, <2>11 DEF DataInv
  <1> QED
    BY <1>2, <1>3

\* The facts about memory and the queue, for steps that only the updater sees.
LEMMA UpdaterStable ==
  ASSUME BaseInv, DataInv,
         UNCHANGED <<conf, mem, merge, hold, saved, loaded, qdecl, dropped, alive>>
  PROVE  /\ \A c, s : /\ Keeps(c, s)' <=> Keeps(c, s)
                      /\ Own(c, s)' <=> Own(c, s)
                      /\ Own(c, s) => c \in live
                      /\ \A f : LeftOut(s, f)' <=> LeftOut(s, f)
         /\ HashInMem' /\ MergeEnds'
  <1>1. \A c, s : /\ Keeps(c, s)' <=> Keeps(c, s)
                  /\ Own(c, s)' <=> Own(c, s)
                  /\ Own(c, s) => c \in live
                  /\ \A f : LeftOut(s, f)' <=> LeftOut(s, f)
    BY DEF Own, Keeps, Copied, Merging, LeftOut
  <1>2. HashInMem' /\ MergeEnds'
    BY <1>1 DEF DataInv, HashInMem, MergeEnds, FullMerge
  <1> QED
    BY <1>1, <1>2

LEMMA TxBeginData == BaseInv /\ DataInv /\ TxBegin => DataInv'
  <1> SUFFICES ASSUME BaseInv, DataInv, TxBegin PROVE DataInv'
    OBVIOUS
  <1>1. /\ tx.stage = "idle" /\ dbq # <<>>
        /\ tx' = [stage |-> "read", todo |-> Head(dbq).decl, done |-> {},
                  facts |-> {}, blob |-> {}]
    BY DEF TxBegin
  <1>2. UNCHANGED <<conf, mem, merge, hold, saved, loaded, qdecl, dropped, alive, dbq,
                    rows, decls>>
    BY DEF TxBegin, scrollVars, lockVars, queueVars, dbVars, lifeVars
  <1>3. tx'.stage = "read" /\ tx'.todo = Head(dbq).decl /\ tx'.done = {} /\ tx'.facts = {}
    BY <1>1
  <1>4. /\ \A c, s : /\ Keeps(c, s)' <=> Keeps(c, s)
                     /\ Own(c, s)' <=> Own(c, s)
                     /\ \A f : LeftOut(s, f)' <=> LeftOut(s, f)
        /\ HashInMem' /\ MergeEnds'
    BY <1>2, UpdaterStable
  <1>5. HashInRow'
    BY <1>2, <1>3 DEF DataInv, HashInRow, InTx
  <1>6. RowsRight'
    BY <1>2 DEF DataInv, RowsRight
  <1>7. LoadedRight' /\ QueuedRight'
    BY <1>2, <1>4 DEF DataInv, LoadedRight, QueuedRight, Whole, Queued
  <1>8. TxRight'
    BY <1>2, <1>3 DEF TxRight
  <1>9. Durable'
    <2>1. ASSUME NEW c \in Cfid, NEW s \in Seqs
          PROVE  Scheduled(c, s) => Scheduled(c, s)'
      <3>1. \A i \in DOMAIN dbq : i = 1 => dbq[i] = Head(dbq)
        BY BaseTypes
      <3> QED
        BY <1>1, <1>2, <1>3, <3>1 DEF Scheduled
    <2>2. ASSUME NEW c \in Cfid, NEW s \in Seqs, NEW f \in Facts
          PROVE  ~InTx(<<c, s, f>>)
      BY <1>1 DEF InTx
    <2> QED
      BY <1>2, <1>4, <2>1, <2>2 DEF DataInv, Durable
  <1> QED
    BY <1>4, <1>5, <1>6, <1>7, <1>8, <1>9 DEF DataInv

\* The row of a declaration holds all that is known of it.
LEMMA TxReadData == BaseInv /\ DataInv /\ TxRead => DataInv'
  <1> SUFFICES ASSUME BaseInv, DataInv, TxRead PROVE DataInv'
    OBVIOUS
  <1>1. alive /\ tx.stage = "read"
    BY DEF TxRead
  <1>2. UNCHANGED <<conf, mem, merge, hold, saved, loaded, qdecl, dropped, alive, dbq,
                    rows, decls>>
    BY DEF TxRead, scrollVars, lockVars, queueVars, dbVars, lifeVars
  <1>3. PICK p \in tx.todo :
          IF p[1] \in live /\ ToC(conf, p[1], p[2]) = p[1]
          THEN tx' = [tx EXCEPT
                 !.todo = @ \ {p}, !.done = @ \cup {p},
                 !.facts = @ \cup {<<p[1], p[2], f>> :
                                     f \in InMem(p[1], p[2]) \cap Facts},
                 !.blob = @ \cup IF "buf" \in InMem(p[1], p[2])
                                 THEN {<<Blob(conf[p[1]].hist, p[2]), p[1]>>} ELSE {}]
          ELSE tx' = [tx EXCEPT !.todo = @ \ {p}]
    BY DEF TxRead
  <1>4. PICK d \in Cfid, t \in Seqs : p = <<d, t>>
    BY <1>1, Parts
  <1>5. p[1] = d /\ p[2] = t
    BY <1>4
  <1>6. tx \in Tx /\ dbq # <<>>
    BY <1>1, TxStage
  <1>7. /\ \A c, s : /\ Keeps(c, s)' <=> Keeps(c, s)
                     /\ Own(c, s)' <=> Own(c, s)
                     /\ Own(c, s) => c \in live
                     /\ \A f : LeftOut(s, f)' <=> LeftOut(s, f)
        /\ HashInMem' /\ MergeEnds'
    BY <1>2, UpdaterStable
  <1>8. tx'.stage = "read" /\ tx'.todo = tx.todo \ {p}
    BY <1>1, <1>3, <1>6 DEF Tx
  <1>9. CASE d \in live /\ ToC(conf, d, t) = d
    <2>1. /\ tx'.done = tx.done \cup {p}
          /\ tx'.facts = tx.facts \cup {<<d, t, f>> : f \in InMem(d, t) \cap Facts}
      <3>1. ASSUME NEW F, F = {<<p[1], p[2], f>> : f \in InMem(p[1], p[2]) \cap Facts}, NEW B,
                   tx' = [tx EXCEPT !.todo = @ \ {p}, !.done = @ \cup {p},
                                    !.facts = @ \cup F, !.blob = @ \cup B]
            PROVE  /\ tx'.done = tx.done \cup {p}
                   /\ tx'.facts = tx.facts \cup {<<d, t, f>> : f \in InMem(d, t) \cap Facts}
        <4>1. tx'.done = tx.done \cup {p} /\ tx'.facts = tx.facts \cup F
          BY <1>6, <3>1 DEF Tx
        <4>2. F = {<<d, t, f>> : f \in InMem(d, t) \cap Facts}
          BY <1>5, <3>1
        <4> QED
          BY <4>1, <4>2
      <3> QED
        BY <1>3, <1>5, <1>9, <3>1
    <2>2. \A c \in Cfid, s \in Seqs, f \in Facts :
            <<c, s, f>> \in tx'.facts <=>
              <<c, s, f>> \in tx.facts \/ (c = d /\ s = t /\ <<c, s, f>> \in mem)
      BY <2>1 DEF InMem
    <2>3. Keeps(d, t)
      BY <1>9, ToCSelf, BaseTypes DEF Keeps
    <2>4. HashInRow'
      <3>1. ASSUME NEW c \in Cfid, NEW s \in Seqs, <<c, s, "data">> \in tx'.facts
            PROVE  <<c, s, "hash">> \in tx'.facts
        <4>1. <<c, s, "data">> \in tx.facts => <<c, s, "hash">> \in tx.facts
          BY <1>1 DEF DataInv, HashInRow, InTx
        <4>2. Keeps(c, s) /\ <<c, s, "data">> \in mem => <<c, s, "hash">> \in mem
          BY DEF DataInv, HashInMem
        <4> QED
          BY <2>2, <2>3, <3>1, <4>1, <4>2 DEF Facts
      <3>2. \A c \in Cfid, s \in Seqs : <<c, s, "data">> \in decls => <<c, s, "hash">> \in decls
        BY DEF DataInv, HashInRow
      <3> QED
        BY <1>2, <1>8, <3>1, <3>2 DEF HashInRow, InTx
    <2>5. TxRight'
      <3>1. tx'.todo \cup tx'.done \subseteq Head(dbq).decl
        BY <1>1, <1>8, <2>1 DEF DataInv, TxRight
      <3>2. ASSUME NEW x \in tx'.facts
            PROVE  <<x[1], x[2]>> \in tx'.done /\ (Own(x[1], x[2]) => x \in mem)
        <4>1. CASE x \in tx.facts
          BY <1>1, <2>1, <4>1 DEF DataInv, TxRight
        <4>2. CASE x \notin tx.facts
          <5>1. PICK f \in InMem(d, t) \cap Facts : x = <<d, t, f>>
            BY <2>1, <4>2
          <5>2. x \in mem /\ <<x[1], x[2]>> = p
            BY <1>4, <5>1 DEF InMem
          <5> QED
            BY <2>1, <5>2
        <4> QED
          BY <4>1, <4>2
      <3>3. ASSUME NEW q \in tx'.done
            PROVE  /\ q[1] \in DOMAIN RowsAfter(Head(dbq), rows)
                   /\ Own(q[1], q[2]) =>
                        /\ <<q[1], q[2], "hash">> \in tx'.facts
                        /\ \A f \in Facts : <<q[1], q[2], f>> \in decls
                             => <<q[1], q[2], f>> \in tx'.facts \/ LeftOut(q[2], f)
        <4>1. CASE q \in tx.done
          <5>1. /\ q[1] \in DOMAIN RowsAfter(Head(dbq), rows)
                /\ Own(q[1], q[2]) =>
                     /\ <<q[1], q[2], "hash">> \in tx.facts
                     /\ \A f \in Facts : <<q[1], q[2], f>> \in decls
                          => <<q[1], q[2], f>> \in tx.facts \/ LeftOut(q[2], f)
            BY <1>1, <4>1 DEF DataInv, TxRight
          <5>2. tx.facts \subseteq tx'.facts
            BY <2>1
          <5> QED
            BY <5>1, <5>2
        <4>2. CASE q \notin tx.done
          <5>1. q = p /\ q[1] = d /\ q[2] = t
            BY <1>5, <2>1, <4>2
          <5>2. p \in Head(dbq).decl
            BY <1>1 DEF DataInv, TxRight
          <5>3. d \in DOMAIN RowsAfter(Head(dbq), rows)
            <6>1. PICK snap : Snaps(snap)
              BY <1>1 DEF BaseInv, Chain
            <6>2. Head(dbq) = dbq[1] /\ 1 \in 1 .. Len(dbq)
              BY <1>6, BaseTypes
            <6>3. /\ snap[1] = RowsAfter(dbq[1], snap[1 - 1]) /\ snap[0] = rows
                  /\ \A x \in dbq[1].decl : x[1] \in live => x[1] \in DOMAIN snap[1]
              BY <6>1, <6>2 DEF Snaps
            <6>4. 1 - 1 = 0
              OBVIOUS
            <6>5. d \in DOMAIN snap[1]
              BY <1>5, <1>9, <5>2, <6>2, <6>3
            <6> QED
              BY <6>2, <6>3, <6>4, <6>5
          <5>4. Queued(d, t)
            BY <1>4, <1>6, <5>2, BaseTypes DEF Queued
          <5>5. Own(d, t) => Whole(d, t) /\ <<d, t, "hash">> \in mem
            BY <5>4 DEF DataInv, QueuedRight
          <5>6. \A f \in Facts : <<d, t, f>> \in mem => <<d, t, f>> \in tx'.facts
            BY <2>2
          <5> QED
            BY <5>1, <5>3, <5>5, <5>6 DEF Whole, Facts
        <4> QED
          BY <4>1, <4>2
      <3> QED
        BY <1>2, <1>7, <1>8, <3>1, <3>2, <3>3 DEF TxRight
    <2>6. Durable'
      <3> SUFFICES ASSUME NEW c \in Cfid, NEW s \in Seqs, NEW f \in Facts,
                          <<c, s, f>> \in mem, Own(c, s)
                   PROVE  \/ <<c, s, f>> \in decls \/ InTx(<<c, s, f>>)'
                          \/ Scheduled(c, s)' \/ LeftOut(s, f)
        BY <1>2, <1>7 DEF Durable
      <3>1. \/ <<c, s, f>> \in decls \/ InTx(<<c, s, f>>) \/ Scheduled(c, s)
            \/ LeftOut(s, f)
        BY DEF DataInv, Durable
      <3>2. InTx(<<c, s, f>>) => InTx(<<c, s, f>>)'
        BY <1>8, <2>1 DEF InTx
      <3>3. c = d /\ s = t => InTx(<<c, s, f>>)'
        BY <1>8, <2>2 DEF InTx
      <3>4. ~(c = d /\ s = t) /\ Scheduled(c, s) => Scheduled(c, s)'
        <4>1. ~(c = d /\ s = t) => <<c, s>> # p
          BY <1>4
        <4> QED
          BY <1>1, <1>2, <1>8, <4>1 DEF Scheduled
      <3> QED
        BY <3>1, <3>2, <3>3, <3>4
    <2>7. RowsRight' /\ LoadedRight' /\ QueuedRight'
      BY <1>2, <1>7 DEF DataInv, RowsRight, LoadedRight, QueuedRight, Whole, Queued
    <2> QED
      BY <1>7, <2>4, <2>5, <2>6, <2>7 DEF DataInv
  <1>10. CASE ~(d \in live /\ ToC(conf, d, t) = d)
    <2>1. tx'.done = tx.done /\ tx'.facts = tx.facts
      BY <1>3, <1>5, <1>6, <1>10 DEF Tx
    <2>2. HashInRow'
      BY <1>1, <1>2, <1>8, <2>1 DEF DataInv, HashInRow, InTx
    <2>3. TxRight'
      <3>1. TxRight
        BY DEF DataInv
      <3> QED
        BY <1>1, <1>2, <1>7, <1>8, <2>1, <3>1 DEF TxRight
    <2>4. Durable'
      <3> SUFFICES ASSUME NEW c \in Cfid, NEW s \in Seqs, NEW f \in Facts,
                          <<c, s, f>> \in mem, Own(c, s)
                   PROVE  \/ <<c, s, f>> \in decls \/ InTx(<<c, s, f>>)'
                          \/ Scheduled(c, s)' \/ LeftOut(s, f)
        BY <1>2, <1>7 DEF Durable
      <3>1. \/ <<c, s, f>> \in decls \/ InTx(<<c, s, f>>) \/ Scheduled(c, s)
            \/ LeftOut(s, f)
        BY DEF DataInv, Durable
      <3>2. InTx(<<c, s, f>>) => InTx(<<c, s, f>>)'
        BY <1>8, <2>1 DEF InTx
      <3>3. ~(c = d /\ s = t)
        <4>1. Own(c, s) => ToC(conf, c, s) = c
          BY ToCSelf, BaseTypes DEF Own, Keeps
        <4> QED
          BY <1>7, <1>10, <4>1
      <3>4. Scheduled(c, s) => Scheduled(c, s)'
        <4>1. <<c, s>> # p
          BY <1>4, <3>3
        <4> QED
          BY <1>1, <1>2, <1>8, <4>1 DEF Scheduled
      <3> QED
        BY <3>1, <3>2, <3>4
    <2>5. RowsRight' /\ LoadedRight' /\ QueuedRight'
      BY <1>2, <1>7 DEF DataInv, RowsRight, LoadedRight, QueuedRight, Whole, Queued
    <2> QED
      BY <1>7, <2>2, <2>3, <2>4, <2>5 DEF DataInv
  <1> QED
    BY <1>9, <1>10

\* A transaction leaves the rows of the declarations as memory has them.
LEMMA TxCommitData == BaseInv /\ DataInv /\ TxCommit => DataInv'
  <1> SUFFICES ASSUME BaseInv, DataInv, TxCommit PROVE DataInv'
    OBVIOUS
  <1> DEFINE e == Head(dbq)
  <1>1. /\ alive /\ tx.stage = "read" /\ tx.todo = {}
        /\ rows' = RowsAfter(Head(dbq), rows)
        /\ decls' = {d \in decls : d[1] \notin Head(dbq).rm /\ <<d[1], d[2]>> \notin tx.done}
                      \cup tx.facts
        /\ tx' = [tx EXCEPT !.stage = "blobs"]
    BY DEF TxCommit, CommitRows, CommitDecls, RowsAfter
  <1>2. UNCHANGED <<conf, mem, merge, hold, saved, loaded, qdecl, dropped, alive, dbq>>
    BY DEF TxCommit, scrollVars, lockVars, queueVars, lifeVars
  <1>3. tx \in Tx /\ dbq # <<>> /\ tx'.stage = "blobs"
    <2>1. tx \in Tx /\ dbq # <<>>
      BY <1>1, TxStage
    <2> QED
      BY <1>1, <2>1 DEF Tx
  <1>4. /\ \A c, s : /\ Keeps(c, s)' <=> Keeps(c, s)
                     /\ Own(c, s)' <=> Own(c, s)
                     /\ Own(c, s) => c \in live
                     /\ \A f : LeftOut(s, f)' <=> LeftOut(s, f)
        /\ HashInMem' /\ MergeEnds'
    BY <1>2, UpdaterStable
  <1>5. ASSUME NEW d \in tx.facts
        PROVE  /\ <<d[1], d[2]>> \in tx.done /\ <<d[1], d[2]>> \in Head(dbq).decl
               /\ d[1] \in DOMAIN RowsAfter(Head(dbq), rows)
               /\ Own(d[1], d[2]) => d \in mem
    <2>1. <<d[1], d[2]>> \in tx.done /\ (Own(d[1], d[2]) => d \in mem)
      BY <1>1 DEF DataInv, TxRight
    <2>2. \A p \in tx.done : p \in Head(dbq).decl /\ p[1] \in DOMAIN RowsAfter(Head(dbq), rows)
      BY <1>1 DEF DataInv, TxRight
    <2>3. <<d[1], d[2]>>[1] = d[1]
      OBVIOUS
    <2> QED
      BY <2>1, <2>2, <2>3
  <1>6. \A c \in Cfid, s \in Seqs, f \in Facts :
          <<c, s, f>> \in decls' <=>
            \/ <<c, s, f>> \in decls /\ c \notin Head(dbq).rm /\ <<c, s>> \notin tx.done
            \/ <<c, s, f>> \in tx.facts
    BY <1>1
  <1>7. HashInRow'
    <2>1. ASSUME NEW c \in Cfid, NEW s \in Seqs, <<c, s, "data">> \in decls'
          PROVE  <<c, s, "hash">> \in decls'
      BY <1>1, <1>6, <2>1 DEF DataInv, HashInRow, InTx, Facts
    <2> QED
      BY <1>3, <2>1 DEF HashInRow, InTx
  <1>8. RowsRight'
    <2>1. ASSUME NEW d \in decls'
          PROVE  d[1] \in DOMAIN rows' /\ (d[1] \in live => d[1] \in DOMAIN saved)
      <3>1. CASE d \in tx.facts
        <4>1. d[1] \in DOMAIN rows'
          BY <1>1, <1>5, <3>1
        <4>2. <<d[1], d[2]>> \in dbq[1].decl /\ 1 \in DOMAIN dbq
          BY <1>3, <1>5, <3>1, BaseTypes
        <4>3. <<d[1], d[2]>>[1] = d[1]
          OBVIOUS
        <4>4. d[1] \in live => d[1] \in DOMAIN saved
          BY <4>2, <4>3 DEF DataInv, RowsRight
        <4> QED
          BY <4>1, <4>4
      <3>2. CASE d \in decls /\ d[1] \notin Head(dbq).rm
        <4>1. d[1] \in DOMAIN rows /\ (d[1] \in live => d[1] \in DOMAIN saved)
          BY <1>1, <3>2 DEF DataInv, RowsRight
        <4>2. d[1] \in DOMAIN rows'
          BY <1>1, <3>2, <4>1 DEF RowsAfter, Over, Restrict
        <4> QED
          BY <4>1, <4>2
      <3> QED
        BY <1>1, <2>1, <3>1, <3>2
    <2>2. \A i \in DOMAIN dbq : \A p \in dbq[i].decl : p[1] \in live => p[1] \in DOMAIN saved
      BY DEF DataInv, RowsRight
    <2> QED
      BY <1>2, <2>1, <2>2 DEF RowsRight
  <1>9. ASSUME NEW c \in Cfid, NEW s \in Seqs, Own(c, s)
        PROVE  Whole(c, s) => Whole(c, s)'
    <2>1. \A f \in Facts : <<c, s, f>> \in tx.facts => <<c, s, f>> \in mem
      <3> TAKE f \in Facts
      <3>1. <<c, s, f>>[1] = c /\ <<c, s, f>>[2] = s
        OBVIOUS
      <3> QED
        BY <1>5, <1>9, <3>1
    <2> QED
      BY <1>2, <1>4, <1>6, <2>1 DEF Whole
  <1>10. LoadedRight' /\ QueuedRight'
    <2>1. \A c, s : Queued(c, s)' <=> Queued(c, s)
      BY <1>2 DEF Queued
    <2> QED
      BY <1>2, <1>4, <1>9, <2>1 DEF DataInv, LoadedRight, QueuedRight
  <1>11. TxRight'
    BY <1>3 DEF TxRight
  <1>12. Durable'
    <2> SUFFICES ASSUME NEW c \in Cfid, NEW s \in Seqs, NEW f \in Facts,
                        <<c, s, f>> \in mem, Own(c, s)
                 PROVE  <<c, s, f>> \in decls' \/ Scheduled(c, s)' \/ LeftOut(s, f)
      BY <1>2, <1>4 DEF Durable
    <2>1. \/ <<c, s, f>> \in decls \/ InTx(<<c, s, f>>) \/ Scheduled(c, s)
          \/ LeftOut(s, f)
      BY DEF DataInv, Durable
    <2>2. c \notin Head(dbq).rm
      <3>1. Head(dbq) = dbq[1] /\ 1 \in DOMAIN dbq
        BY <1>3, BaseTypes
      <3>2. c \in live
        BY <1>4
      <3> QED
        BY <3>1, <3>2 DEF BaseInv, Fresh
    <2>3. <<c, s>> \in tx.done /\ <<c, s, f>> \in decls => <<c, s, f>> \in tx.facts \/ LeftOut(s, f)
      <3>1. <<c, s>>[1] = c /\ <<c, s>>[2] = s
        OBVIOUS
      <3> QED
        BY <1>1, <3>1 DEF DataInv, TxRight
    <2>4. InTx(<<c, s, f>>) => <<c, s, f>> \in tx.facts
      BY DEF InTx
    <2>5. Scheduled(c, s) => Scheduled(c, s)'
      BY <1>1, <1>2 DEF Scheduled
    <2> QED
      BY <1>6, <2>1, <2>2, <2>3, <2>4, <2>5
  <1> QED
    BY <1>4, <1>7, <1>8, <1>10, <1>11, <1>12 DEF DataInv

LEMMA TxBlobData == BaseInv /\ DataInv /\ TxBlob => DataInv'
  <1> SUFFICES ASSUME BaseInv, DataInv, TxBlob PROVE DataInv'
    OBVIOUS
  <1>1. PICK B : tx' = [tx EXCEPT !.blob = B]
    BY DEF TxBlob
  <1>2. UNCHANGED <<conf, mem, merge, hold, saved, loaded, qdecl, dropped, alive, dbq,
                    rows, decls>> /\ tx.stage = "blobs"
    BY DEF TxBlob, scrollVars, lockVars, queueVars, lifeVars
  <1>3. tx'.stage = "blobs"
    BY <1>1, <1>2, TxStage DEF Tx
  <1>4. /\ \A c, s : /\ Keeps(c, s)' <=> Keeps(c, s)
                     /\ Own(c, s)' <=> Own(c, s)
                     /\ \A f : LeftOut(s, f)' <=> LeftOut(s, f)
        /\ HashInMem' /\ MergeEnds'
    BY <1>2, UpdaterStable
  <1>5. HashInRow' /\ RowsRight' /\ LoadedRight' /\ QueuedRight' /\ TxRight'
    BY <1>2, <1>3, <1>4 DEF DataInv, HashInRow, InTx, RowsRight, LoadedRight, QueuedRight,
                            Whole, Queued, TxRight
  <1>6. Durable'
    BY <1>2, <1>3, <1>4 DEF DataInv, Durable, InTx, Scheduled
  <1> QED
    BY <1>4, <1>5, <1>6 DEF DataInv

LEMMA TxEndData == BaseInv /\ DataInv /\ TxEnd => DataInv'
  <1> SUFFICES ASSUME BaseInv, DataInv, TxEnd PROVE DataInv'
    OBVIOUS
  <1>1. dbq' = Tail(dbq) /\ tx' = NoTx /\ tx.stage = "blobs"
    BY DEF TxEnd
  <1>2. UNCHANGED <<conf, mem, merge, hold, saved, loaded, qdecl, dropped, alive,
                    rows, decls>>
    BY DEF TxEnd, scrollVars, lockVars, queueVars, dbVars, lifeVars
  <1>3. tx'.stage = "idle"
    BY <1>1 DEF NoTx
  <1>4. /\ \A c, s : /\ Keeps(c, s)' <=> Keeps(c, s)
                     /\ Own(c, s)' <=> Own(c, s)
                     /\ \A f : LeftOut(s, f)' <=> LeftOut(s, f)
        /\ HashInMem' /\ MergeEnds'
    BY <1>2, UpdaterStable
  <1>5. /\ \A i \in DOMAIN dbq' : i + 1 \in DOMAIN dbq /\ dbq'[i] = dbq[i + 1]
        /\ \A i \in DOMAIN dbq : i # 1 => i - 1 \in DOMAIN dbq' /\ dbq'[i - 1] = dbq[i]
    <2>1. dbq \in Seq(DbUpdate) /\ dbq # <<>>
      BY <1>1, TxStage, BaseTypes
    <2> QED
      BY <1>1, <2>1
  <1>6. \A c, s : Queued(c, s)' => Queued(c, s)
    BY <1>2, <1>5 DEF Queued
  <1>7. HashInRow' /\ TxRight'
    BY <1>2, <1>3 DEF DataInv, HashInRow, InTx, TxRight
  <1>8. RowsRight'
    BY <1>2, <1>5 DEF DataInv, RowsRight
  <1>9. LoadedRight' /\ QueuedRight'
    BY <1>2, <1>4, <1>6 DEF DataInv, LoadedRight, QueuedRight, Whole
  <1>10. Durable'
    <2>1. ASSUME NEW c \in Cfid, NEW s \in Seqs
          PROVE  Scheduled(c, s) => Scheduled(c, s)'
      <3>1. ASSUME NEW i \in DOMAIN dbq, <<c, s>> \in dbq[i].decl, i # 1
            PROVE  Scheduled(c, s)'
        <4>1. i - 1 \in DOMAIN dbq' /\ <<c, s>> \in dbq'[i - 1].decl
          BY <1>5, <3>1
        <4> QED
          BY <1>3, <4>1 DEF Scheduled
      <3>2. <<c, s>> \in qdecl => Scheduled(c, s)'
        BY <1>2 DEF Scheduled
      <3> QED
        BY <1>1, <3>1, <3>2 DEF Scheduled
    <2>2. \A m : ~InTx(m)
      BY <1>1 DEF InTx
    <2> QED
      BY <1>2, <1>4, <2>1, <2>2 DEF DataInv, Durable
  <1> QED
    BY <1>4, <1>7, <1>8, <1>9, <1>10 DEF DataInv

\* After an exit, and before anything is loaded, memory knows nothing.
Quiet ==
  /\ mem = {} /\ merge = NoMerge /\ qdecl = {} /\ dbq = <<>> /\ tx = NoTx
  /\ \A c \in Cfid, s \in Seqs : loaded[c, s] = "no"
  /\ \A c \in Cfid, s \in Seqs : <<c, s, "data">> \in decls => <<c, s, "hash">> \in decls
  /\ \A d \in decls : d[1] \in DOMAIN rows
  /\ alive => \A d \in decls : d[1] \in live => d[1] \in DOMAIN saved

LEMMA QuietData == Quiet => DataInv
  <1> SUFFICES ASSUME Quiet PROVE DataInv
    OBVIOUS
  <1>1. tx.stage = "idle" /\ merge.on = FALSE
    BY DEF Quiet, NoTx, NoMerge
  <1>2. DOMAIN dbq = {}
    <2>1. DOMAIN <<>> = {}
      OBVIOUS
    <2> QED
      BY <2>1 DEF Quiet
  <1>3. HashInMem /\ MergeEnds /\ HashInRow
    BY <1>1 DEF Quiet, HashInMem, MergeEnds, HashInRow, InTx
  <1>4. RowsRight
    BY <1>2 DEF Quiet, RowsRight
  <1>5. LoadedRight /\ QueuedRight
    BY <1>2 DEF Quiet, LoadedRight, QueuedRight, Queued
  <1>6. TxRight /\ Durable
    BY <1>1 DEF Quiet, TxRight, Durable
  <1> QED
    BY <1>3, <1>4, <1>5, <1>6 DEF DataInv

LEMMA QuietNext == Quiet' => DataInv'
  BY QuietData, PTL

LEMMA InitData == Init => DataInv
  <1> SUFFICES ASSUME Init PROVE DataInv
    OBVIOUS
  <1>1. /\ mem = {} /\ merge = NoMerge /\ qdecl = {} /\ dbq = <<>> /\ tx = NoTx /\ decls = {}
        /\ loaded = [p \in Cfid \X Seqs |-> "no"]
    BY DEF Init
  <1>2. \A c \in Cfid, s \in Seqs : loaded[c, s] = "no"
    <2> TAKE c \in Cfid, s \in Seqs
    <2>1. loaded[<<c, s>>] = "no"
      BY <1>1
    <2> QED
      BY <2>1
  <1> QED
    BY <1>1, <1>2, QuietData DEF Quiet

LEMMA ExitData == BaseInv /\ DataInv /\ Exit => DataInv'
  <1> SUFFICES ASSUME BaseInv, DataInv, Exit PROVE DataInv'
    OBVIOUS
  <1>1. /\ mem' = {} /\ merge' = NoMerge /\ qdecl' = {} /\ dbq' = <<>> /\ tx' = NoTx
        /\ loaded' = [p \in Cfid \X Seqs |-> "no"] /\ alive' = FALSE
        /\ rows' = rows /\ decls' = decls
    BY DEF Exit, EmptyMemory, dbVars
  <1>2. \A c \in Cfid, s \in Seqs : loaded[c, s]' = "no"
    <2> TAKE c \in Cfid, s \in Seqs
    <2>1. loaded'[<<c, s>>] = "no"
      BY <1>1
    <2> QED
      BY <2>1
  <1>3. /\ \A c \in Cfid, s \in Seqs : <<c, s, "data">> \in decls => <<c, s, "hash">> \in decls
        /\ \A d \in decls : d[1] \in DOMAIN rows
    BY DEF DataInv, HashInRow, RowsRight
  <1> QED
    BY <1>1, <1>2, <1>3, QuietNext DEF Quiet

LEMMA RestartData == BaseInv /\ DataInv /\ Restart => DataInv'
  <1> SUFFICES ASSUME BaseInv, DataInv, Restart PROVE DataInv'
    OBVIOUS
  <1> DEFINE c0 == IF DOMAIN rows = {} THEN NewScroll ELSE rows
  <1>1. /\ mem' = {} /\ merge' = NoMerge /\ qdecl' = {} /\ dbq' = <<>> /\ tx' = NoTx
        /\ loaded' = [p \in Cfid \X Seqs |-> "no"]
        /\ saved' = IF c0[0].top = -1 THEN <<>> ELSE c0
        /\ rows' = rows /\ decls' = decls
    BY DEF Restart, EmptyMemory, dbVars
  <1>2. \A c \in Cfid, s \in Seqs : loaded[c, s]' = "no"
    <2> TAKE c \in Cfid, s \in Seqs
    <2>1. loaded'[<<c, s>>] = "no"
      BY <1>1
    <2> QED
      BY <2>1
  <1>3. /\ \A c \in Cfid, s \in Seqs : <<c, s, "data">> \in decls => <<c, s, "hash">> \in decls
        /\ \A d \in decls : d[1] \in DOMAIN rows
    BY DEF DataInv, HashInRow, RowsRight
  <1>4. DOMAIN rows # {} => rows[0].top # -1
    BY DEF BaseInv, DbTypes, Loadable
  <1>5. \A d \in decls : d[1] \in DOMAIN saved'
    <2> TAKE d \in decls
    <2>1. d[1] \in DOMAIN rows
      BY <1>3
    <2>2. saved' = rows
      BY <1>1, <1>4, <2>1
    <2> QED
      BY <2>1, <2>2
  <1> QED
    BY <1>1, <1>2, <1>3, <1>5, QuietNext DEF Quiet

LEMMA StutterData == DataInv /\ UNCHANGED <<vars, bound>> => DataInv'
  <1> SUFFICES ASSUME DataInv, UNCHANGED <<vars, bound>> PROVE DataInv'
    OBVIOUS
  <1>1. UNCHANGED <<conf, nextc, mem, merge, hold, saved, loaded, qdecl, dbq, tx, rows,
                    decls, alive, dropped>>
    BY DEF vars, scrollVars, lockVars, queueVars, updaterVars, dbVars, lifeVars
  <1>2. \A c, s : /\ Keeps(c, s)' <=> Keeps(c, s)
                  /\ Own(c, s)' <=> Own(c, s)
                  /\ Whole(c, s)' <=> Whole(c, s)
                  /\ Queued(c, s)' <=> Queued(c, s)
                  /\ Scheduled(c, s)' <=> Scheduled(c, s)
                  /\ \A f : LeftOut(s, f)' <=> LeftOut(s, f)
    BY <1>1 DEF Own, Keeps, Copied, Merging, Whole, LeftOut, Queued, Scheduled
  <1>3. HashInMem' /\ MergeEnds' /\ HashInRow' /\ RowsRight'
    BY <1>1, <1>2 DEF DataInv, HashInMem, MergeEnds, FullMerge, HashInRow, InTx, RowsRight
  <1>4. LoadedRight' /\ QueuedRight' /\ TxRight'
    BY <1>1, <1>2 DEF DataInv, LoadedRight, QueuedRight, TxRight
  <1>5. Durable'
    BY <1>1, <1>2 DEF DataInv, Durable, InTx
  <1> QED
    BY <1>3, <1>4, <1>5 DEF DataInv

LEMMA NextData == BaseInv /\ DataInv /\ [Next]_<<vars, bound>> => DataInv'
  <1> SUFFICES ASSUME BaseInv, DataInv, [Next]_<<vars, bound>> PROVE DataInv'
    OBVIOUS
  <1>1. CASE UNCHANGED <<vars, bound>>
    BY <1>1, StutterData
  <1>2. CASE Next
    <2>1. CASE Lock \/ Unlock
      BY <2>1, LockData, UnlockData
    <2>2. CASE Update
      BY <2>2, SetHashData, SetDataData, ForkData, BeginMergeData, PutStopping,
         PutStopsData DEF Update
    <2>3. CASE MergeStep
      BY <2>3, CopyDeclData, CopyStuckData, EndMergeData, PutStopping, PutStopsData
         DEF MergeStep
    <2>4. CASE Load
      BY <2>4, BeginLoadData DEF Load
    <2>5. CASE Loaded
      <3>1. PICK c \in Cfid, s \in Seqs : EndLoad(c, s)
        BY <2>5 DEF Loaded
      <3>2. Exit \/ alive'
        BY <3>1 DEF EndLoad, lifeVars
      <3> QED
        BY <3>1, <3>2, ExitData, EndLoadData
    <2>6. CASE Updater
      BY <2>6, TxBeginData, TxReadData, TxCommitData, TxBlobData, TxEndData DEF Updater
    <2>7. CASE Crash
      BY <2>7, ExitData DEF Crash
    <2>8. CASE Restart
      BY <2>8, RestartData
    <2> QED
      BY <1>2, <2>1, <2>2, <2>3, <2>4, <2>5, <2>6, <2>7, <2>8 DEF Next
  <1> QED
    BY <1>1, <1>2

THEOREM DataHolds == Spec => [](BaseInv /\ DataInv)
  <1>1. Init => BaseInv /\ DataInv
    BY InitInv, InitData
  <1>2. BaseInv /\ DataInv /\ [Next]_<<vars, bound>> => (BaseInv /\ DataInv)'
    BY NextInv, NextData
  <1> QED
    BY <1>1, <1>2, PTL DEF Spec

\* No update is forgotten between memory and the database: on_decl_update,
\* end_update and the updater pass on what memory knows, whatever merges, loads
\* and later updates come in between (storage.js).
THEOREM StoredOrScheduled == Spec => []DurableOrScheduled
  <1>1. BaseInv /\ DataInv => DurableOrScheduled
    <2> SUFFICES ASSUME BaseInv, DataInv, NEW m \in mem,
                        m[1] \in live, ToC(conf, m[1], m[2]) = m[1], m[3] \in Facts,
                        ~Copied(m[1], m[2])
                 PROVE  \/ m \in decls \/ InTx(m) \/ Scheduled(m[1], m[2])
                        \/ LeftOut(m[2], m[3])
      BY DEF DurableOrScheduled
    <2>1. PICK c \in Cfid, s \in Seqs, f \in Facts \cup Frames : m = <<c, s, f>>
      BY Parts
    <2>2. m[1] = c /\ m[2] = s /\ m[3] = f /\ f \in Facts
      BY <2>1
    <2>3. Own(c, s)
      BY <2>2, ToCSelf, BaseTypes DEF Own, Keeps
    <2> QED
      BY <2>1, <2>2, <2>3 DEF DataInv, Durable
  <1> QED
    BY <1>1, DataHolds, PTL

\* Scroll.flush: once nothing is queued, the database has the scroll.
THEOREM FlushStores == Spec => []FlushedMeansStored
  <1>1. BaseInv /\ DataInv => FlushedMeansStored
    <2> SUFFICES ASSUME BaseInv, DataInv, alive, hold = "free", dbq = <<>>
                 PROVE  /\ conf[0].top >= 0 => rows = conf
                        /\ \A m \in mem : ToC(conf, m[1], m[2]) = m[1] /\ m[3] \in Facts
                                            => m \in decls \/ LeftOut(m[2], m[3])
      BY DEF FlushedMeansStored
    <2>1. /\ merge.on = FALSE /\ qdecl = {} /\ qrm = {} /\ tx.stage = "idle"
          /\ conf[0].top # -1 => saved = conf
      BY DEF BaseInv, IdleRight, DbTypes, NoMerge, NoTx
    <2>2. ASSUME conf[0].top >= 0
          PROVE  rows = conf
      <3>1. PICK snap : Snaps(snap)
        BY DEF BaseInv, Chain
      <3>2. Len(dbq) = 0 /\ conf[0].top # -1
        BY <2>2
      <3>3. snap[0] = rows /\ saved = Restrict(rows, DOMAIN rows \ {}) /\ rows \in ConfSet
        BY <2>1, <3>1, <3>2 DEF Snaps
      <3>4. Restrict(rows, DOMAIN rows \ {}) = rows
        BY <3>3, ConfType DEF Restrict
      <3> QED
        BY <2>1, <3>2, <3>3, <3>4
    <2>3. ASSUME NEW m \in mem, ToC(conf, m[1], m[2]) = m[1], m[3] \in Facts
          PROVE  m \in decls \/ LeftOut(m[2], m[3])
      <3>1. PICK c \in Cfid, s \in Seqs, f \in Facts \cup Frames : m = <<c, s, f>>
        BY Parts
      <3>2. m[1] = c /\ m[2] = s /\ m[3] = f /\ f \in Facts /\ c \in live
        BY <2>3, <3>1, BaseTypes
      <3>3. Own(c, s)
        BY <2>1, <2>3, <3>2, ToCSelf, BaseTypes DEF Own, Keeps, Copied, Merging
      <3>4. ~Scheduled(c, s) /\ ~InTx(m)
        <4>1. DOMAIN <<>> = {}
          OBVIOUS
        <4> QED
          BY <2>1, <4>1 DEF Scheduled, InTx
      <3> QED
        BY <3>1, <3>2, <3>3, <3>4 DEF DataInv, Durable
    <2> QED
      BY <2>2, <2>3
  <1> QED
    BY <1>1, DataHolds, PTL

-----------------------------------------------------------------------------
(* The tops of the stored conflicts: the third invariant.                  *)

\* snap[i] are the rows once i of the queued updates are written.
ChainFrom(snap, n, q, r) ==
  /\ snap \in [0 .. n -> ConfSet]
  /\ snap[0] = r
  /\ \A i \in 1 .. n : snap[i] = RowsAfter(q[i], snap[i - 1])
Chained(snap) == ChainFrom(snap, Len(dbq), dbq, rows)

\* The hash of declaration t is stored, or will be once i of the updates are
\* written; unless c does not keep it any more.
Reliable(c, t, i) ==
  \/ ~Own(c, t) \/ c \in torn
  \/ <<c, t, "hash">> \in decls
  \/ i >= 1 /\ InTx(<<c, t, "hash">>)
  \/ \E j \in 1 .. i :
       /\ <<c, t>> \in dbq[j].decl
       /\ j = 1 => tx.stage = "idle" \/ (tx.stage = "read" /\ <<c, t>> \in tx.todo)

ConfAbove ==
  \A c \in live : \/ conf[c].top > conf[c].pseq
                  \/ Merging(c)
                  \/ (c = 0 /\ conf[0].top = -1)
ConfTop ==
  hold # "stuck" => \A c \in live, t \in Seqs, n \in Nat :
    conf[c].top = t /\ Len(dbq) = n => Reliable(c, t, n) \/ <<c, t>> \in qdecl
RowsAbove == \A c \in DOMAIN rows : rows[c].top > rows[c].pseq
TopsOf(snap) ==
  \A i \in 0 .. Len(dbq) : \A c \in DOMAIN snap[i] :
    snap[i][c].top > snap[i][c].pseq /\ Reliable(c, snap[i][c].top, i)
TopsRight == alive => \A snap : Chained(snap) => TopsOf(snap)
DeadTops ==
  ~alive => \A c \in DOMAIN rows : c \in torn \/ <<c, rows[c].top, "hash">> \in decls

TopInv == ConfAbove /\ ConfTop /\ RowsAbove /\ TopsRight /\ DeadTops

LEMMA SameChain ==
  ASSUME NEW n \in Nat, NEW q, NEW r, NEW a, NEW b,
         ChainFrom(a, n, q, r), ChainFrom(b, n, q, r)
  PROVE  a = b
  <1> USE DEF ChainFrom
  <1> DEFINE Bad == {i \in 0 .. n : a[i] # b[i]}
  <1>1. ASSUME Bad # {} PROVE FALSE
    <2>1. Bad \subseteq Nat
      OBVIOUS
    <2>2. PICK i \in Bad : \A j \in Bad : i <= j
      <3> HIDE DEF Bad
      <3> QED
        BY <1>1, <2>1, LeastNat
    <2>3. i \in 1 .. n /\ i - 1 \in 0 .. n /\ ~(i <= i - 1)
      OBVIOUS
    <2>4. a[i - 1] = b[i - 1]
      BY <2>2, <2>3
    <2> QED
      BY <2>3, <2>4
  <1>2. \A i \in 0 .. n : a[i] = b[i]
    BY <1>1
  <1> QED
    BY <1>2

LEMMA ChainedSnaps ==
  ASSUME BaseInv, alive, NEW snap, Chained(snap)
  PROVE  Snaps(snap)
  <1>1. PICK s : Snaps(s)
    BY DEF BaseInv, Chain
  <1>2. Chained(s)
    BY <1>1 DEF Snaps, Chained, ChainFrom
  <1>3. Len(dbq) \in Nat
    BY BaseTypes
  <1>4. s = snap
    BY <1>2, <1>3, SameChain DEF Chained
  <1> QED
    BY <1>1, <1>4

\* No conflict takes over a declaration that it had given up.
OwnKept == \A c \in live, s \in Seqs : Own(c, s)' => Own(c, s)
MemoryOnly == UNCHANGED <<dbq, tx, rows, decls, torn>> /\ alive /\ alive'
\* A new top is queued, or was stored or queued before.
TopKept ==
  hold' # "stuck" => \A c \in live', t \in Seqs : conf'[c].top = t =>
    \/ c \in live /\ hold # "stuck" /\ conf[c].top = t
    \/ <<c, t>> \in qdecl'
    \/ c \in live /\ Reliable(c, t, Len(dbq))

LEMMA ReliableKept ==
  ASSUME BaseInv, OwnKept, MemoryOnly, live' \subseteq live \cup {nextc},
         NEW c \in Cfid, c # nextc, NEW t \in Seqs, NEW i, Reliable(c, t, i)
  PROVE  Reliable(c, t, i)'
  <1>1. UNCHANGED <<dbq, tx, decls, torn>>
    BY DEF MemoryOnly
  <1>2. ~Own(c, t) => ~Own(c, t)'
    <2>1. c \notin live => ~Own(c, t)'
      BY DEF Own, Keeps
    <2>2. c \in live => (Own(c, t)' => Own(c, t))
      BY DEF OwnKept
    <2> QED
      BY <2>1, <2>2
  <1>3. InTx(<<c, t, "hash">>) => InTx(<<c, t, "hash">>)'
    BY <1>1 DEF InTx
  <1> QED
    BY <1>1, <1>2, <1>3 DEF Reliable

LEMMA ConfTops ==
  ASSUME NEW cf, Forest(cf), NEW c \in DOMAIN cf
  PROVE  /\ cf[c].top \in Int /\ cf[c].pseq \in Int /\ cf[c].pseq >= -1
         /\ cf[c].top >= 0 => cf[c].top \in Seqs
         /\ cf[c].top > cf[c].pseq => cf[c].top \in Seqs
  <1>1. cf[c].top \in Seqs \cup {-1} /\ cf[c].pseq \in Seqs \cup {-1}
    BY ForestType
  <1>2. \A s \in Seqs : s \in Int /\ s >= 0
    BY SeqType
  <1> QED
    BY <1>1, <1>2

\* The steps that leave the database alone.
LEMMA TopStable ==
  ASSUME BaseInv, BaseInv', TopInv, OwnKept, MemoryOnly, TopKept,
         live' \subseteq live \cup {nextc}, qdecl \subseteq qdecl', ConfAbove'
  PROVE  TopInv'
  <1>1. UNCHANGED <<dbq, tx, rows, decls, torn>> /\ alive /\ alive'
    BY DEF MemoryOnly
  <1>2. Forest(conf) /\ Forest(conf') /\ live \subseteq Cfid /\ nextc \notin live
        /\ \A c \in live : c # nextc
    <2>1. Forest(conf')
      BY DEF BaseInv, MemTypes
    <2>2. live \subseteq Nat /\ \A c \in live : c < nextc
      BY BaseTypes DEF BaseInv, Fresh
    <2> QED
      BY <2>1, <2>2, BaseTypes
  <1>3. RowsAbove' /\ DeadTops'
    BY <1>1 DEF TopInv, RowsAbove, DeadTops
  <1>4. ConfTop'
    <2> SUFFICES ASSUME hold' # "stuck", NEW c \in live', NEW t \in Seqs, NEW n \in Nat,
                        conf'[c].top = t, Len(dbq') = n, <<c, t>> \notin qdecl'
                 PROVE  Reliable(c, t, n)'
      BY DEF ConfTop
    <2>1. Len(dbq) = n
      BY <1>1
    <2>2. c \in live /\ Reliable(c, t, n)
      <3>1. CASE c \in live /\ hold # "stuck" /\ conf[c].top = t
        <4>1. Reliable(c, t, n) \/ <<c, t>> \in qdecl
          BY <2>1, <3>1 DEF TopInv, ConfTop
        <4> QED
          BY <3>1, <4>1
      <3> QED
        BY <2>1, <3>1 DEF TopKept
    <2> QED
      BY <1>2, <2>2, ReliableKept
  <1>5. TopsRight'
    <2> SUFFICES ASSUME NEW snap, Chained(snap)' PROVE TopsOf(snap)'
      BY DEF TopsRight
    <2>1. Chained(snap)
      BY <1>1 DEF Chained, ChainFrom
    <2>2. Snaps(snap) /\ TopsOf(snap)
      BY <1>1, <2>1, ChainedSnaps DEF TopInv, TopsRight
    <2>3. ASSUME NEW i \in 0 .. Len(dbq), NEW c \in DOMAIN snap[i]
          PROVE  snap[i][c].top > snap[i][c].pseq /\ Reliable(c, snap[i][c].top, i)'
      <3>1. Forest(snap[i]) /\ c < nextc
        BY <2>2, <2>3 DEF Snaps, Loadable
      <3>2. snap[i][c].top > snap[i][c].pseq /\ Reliable(c, snap[i][c].top, i)
        BY <2>2, <2>3 DEF TopsOf
      <3>3. c \in Cfid /\ c # nextc /\ snap[i][c].top \in Seqs
        <4>1. c \in Cfid /\ c \in Nat /\ nextc \in Nat
          BY <3>1, ForestType, BaseTypes
        <4>2. snap[i][c].top \in Seqs
          BY <3>1, <3>2, ConfTops
        <4> QED
          BY <3>1, <4>1, <4>2
      <3>4. PICK t \in Seqs : t = snap[i][c].top
        BY <3>3
      <3>5. Reliable(c, t, i)'
        BY <3>2, <3>3, <3>4, ReliableKept
      <3> QED
        BY <3>2, <3>4, <3>5
    <2> QED
      BY <1>1, <2>3 DEF TopsOf
  <1> QED
    BY <1>3, <1>4, <1>5 DEF TopInv

LEMMA TopSame ==
  ASSUME BaseInv, BaseInv', TopInv, MemoryOnly, UNCHANGED <<conf, merge, qdecl>>,
         hold' # "stuck" => hold # "stuck"
  PROVE  TopInv'
  <1>1. OwnKept
    BY DEF OwnKept, Own, Keeps, Copied, Merging
  <1>2. TopKept
    BY DEF TopKept
  <1>3. ConfAbove'
    BY DEF TopInv, ConfAbove, Merging
  <1> QED
    BY <1>1, <1>2, <1>3, TopStable

LEMMA LockTop ==
  ASSUME BaseInv, BaseInv', TopInv, Lock
  PROVE  TopInv'
  <1>1. UNCHANGED <<conf, merge, qdecl>> /\ MemoryOnly /\ hold # "stuck"
    BY DEF Lock, MemoryOnly, scrollVars, queueVars, updaterVars, dbVars, lifeVars
  <1> QED
    BY <1>1, TopSame

LEMMA BeginLoadTop ==
  ASSUME BaseInv, BaseInv', TopInv, NEW d \in live, NEW t \in Seqs, BeginLoad(d, t)
  PROVE  TopInv'
  <1>1. UNCHANGED <<conf, merge, qdecl>> /\ MemoryOnly
    BY DEF BeginLoad, MemoryOnly, scrollVars, queueVars, updaterVars, dbVars, lifeVars
  <1>2. hold' # "stuck" => hold # "stuck"
    BY DEF BeginLoad
  <1> QED
    BY <1>1, <1>2, TopSame

LEMMA EndLoadTop ==
  ASSUME BaseInv, BaseInv', TopInv, NEW d \in Cfid, NEW t \in Seqs, EndLoad(d, t), alive'
  PROVE  TopInv'
  <1>1. /\ alive
        /\ UNCHANGED <<conf, nextc, merge, lockVars, queueVars, updaterVars, dbVars,
                       lifeVars, dropped>>
    BY DEF EndLoad, Exit
  <1>2. UNCHANGED <<conf, merge, qdecl, hold>> /\ MemoryOnly
    BY <1>1 DEF MemoryOnly, lockVars, queueVars, updaterVars, dbVars, lifeVars
  <1> QED
    BY <1>2, TopSame

LEMMA SetDataTop ==
  ASSUME BaseInv, BaseInv', TopInv, NEW d \in live, NEW t \in Seqs, SetData(d, t)
  PROVE  TopInv'
  <1>1. /\ UNCHANGED <<conf, merge, hold, saved, dbq, tx, rows, decls, alive, torn>> /\ alive
        /\ qdecl \subseteq qdecl'
    BY DEF SetData, Putting, lockVars, updaterVars, dbVars, lifeVars
  <1>2. OwnKept /\ MemoryOnly
    BY <1>1 DEF OwnKept, MemoryOnly, Own, Keeps, Copied, Merging
  <1>3. TopKept
    BY <1>1 DEF TopKept
  <1>4. ConfAbove'
    BY <1>1 DEF TopInv, ConfAbove, Merging
  <1> QED
    BY <1>1, <1>2, <1>3, <1>4, TopStable

\* A new top is queued.
LEMMA SetHashTop ==
  ASSUME BaseInv, BaseInv', TopInv, NEW d \in live, NEW t \in Seqs, NEW h \in History,
         SetHash(d, t, h)
  PROVE  TopInv'
  <1>1. /\ alive /\ ~merge.on /\ t > conf[d].pseq /\ hold # "stuck"
        /\ qdecl' = qdecl \cup {<<d, t>>}
        /\ conf' = IF t <= conf[d].top THEN conf
                   ELSE [conf EXCEPT ![d].top = t, ![d].hist = h]
    BY DEF SetHash, Putting
  <1>2. UNCHANGED <<merge, hold, dbq, tx, rows, decls, torn, alive>>
    BY DEF SetHash, lockVars, updaterVars, dbVars, lifeVars
  <1>3. Forest(conf) /\ live \subseteq Cfid
    BY BaseTypes
  <1>4. /\ live' = live
        /\ \A c \in live : /\ conf'[c].pseq = conf[c].pseq
                           /\ conf'[c].top = conf[c].top \/ (c = d /\ conf'[c].top = t)
    <2>1. \A c \in live : conf[c] \in Conflict
      BY <1>3, ForestType
    <2> QED
      BY <1>1, <2>1 DEF Conflict
  <1>5. OwnKept /\ MemoryOnly
    BY <1>1, <1>2, <1>4 DEF OwnKept, MemoryOnly, Own, Keeps, Copied, Merging
  <1>6. TopKept
    BY <1>1, <1>2, <1>4 DEF TopKept
  <1>7. ConfAbove'
    BY <1>1, <1>2, <1>4 DEF TopInv, ConfAbove, Merging
  <1> QED
    BY <1>1, <1>4, <1>5, <1>6, <1>7, TopStable

LEMMA ForkTop ==
  ASSUME BaseInv, BaseInv', TopInv, NEW d \in live, NEW p \in Seqs, NEW t \in Seqs,
         NEW h \in History, Fork(d, p, t, h)
  PROVE  TopInv'
  <1> DEFINE e == [k \in {nextc} |-> [parent |-> d, pseq |-> p, top |-> t,
                                       hist |-> HistAt(h, t)]]
  <1>1. /\ alive /\ ~merge.on /\ hold # "stuck" /\ p < t
        /\ \/ /\ conf' = Over(conf, e)
              /\ qdecl' = qdecl \cup {<<nextc, t>>}
           \/ UNCHANGED <<conf, qdecl>>
    BY DEF Fork, Putting
  <1>2. UNCHANGED <<merge, hold, dbq, tx, rows, decls, torn, alive>>
    BY DEF Fork, lockVars, updaterVars, dbVars, lifeVars
  <1>3. MemoryOnly
    BY <1>1, <1>2 DEF MemoryOnly
  <1>4. CASE UNCHANGED <<conf, qdecl>>
    BY <1>2, <1>3, <1>4, TopSame
  <1>5. CASE conf' = Over(conf, e) /\ qdecl' = qdecl \cup {<<nextc, t>>}
    <2>1. nextc \notin live
      <3>1. live \subseteq Nat /\ nextc \in Nat
        BY BaseTypes
      <3> QED
        BY <3>1 DEF BaseInv, Fresh
    <2>2. /\ live' = live \cup {nextc} /\ \A c \in live : conf'[c] = conf[c]
          /\ conf'[nextc].top = t /\ conf'[nextc].pseq = p
      BY <1>5, <2>1 DEF Over
    <2>3. OwnKept
      BY <1>2, <2>2 DEF OwnKept, Own, Keeps, Copied, Merging
    <2>4. TopKept
      BY <1>1, <1>2, <1>5, <2>2 DEF TopKept
    <2>5. ConfAbove'
      <3>1. p \in Int /\ t \in Int
        BY SeqType
      <3> QED
        BY <1>1, <1>2, <2>1, <2>2, <3>1 DEF TopInv, ConfAbove, Merging
    <2> QED
      BY <1>3, <1>5, <2>2, <2>3, <2>4, <2>5, TopStable
  <1> QED
    BY <1>1, <1>4, <1>5

LEMMA BeginMergeTop ==
  ASSUME BaseInv, BaseInv', TopInv, NEW i1 \in live, NEW i2 \in live, NEW t \in Seqs,
         BeginMerge(i1, i2, t)
  PROVE  TopInv'
  <1>1. /\ alive /\ ~merge.on /\ conf' = [conf EXCEPT ![i2].parent = i1] /\ hold # "stuck"
    BY DEF BeginMerge, Putting
  <1>2. UNCHANGED <<hold, qdecl, dbq, tx, rows, decls, torn, alive>>
    BY DEF BeginMerge, lockVars, queueVars, updaterVars, dbVars, lifeVars
  <1>3. live' = live /\ \A c \in live : conf'[c].pseq = conf[c].pseq /\ conf'[c].top = conf[c].top
    <2>1. \A c \in live : conf[c] \in Conflict
      BY BaseTypes, ForestType
    <2> QED
      BY <1>1, <2>1 DEF Conflict
  <1>4. OwnKept /\ MemoryOnly
    BY <1>1, <1>2, <1>3 DEF OwnKept, MemoryOnly, Own, Keeps, Copied, Merging
  <1>5. TopKept
    BY <1>1, <1>2, <1>3 DEF TopKept
  <1>6. ConfAbove'
    BY <1>1, <1>2, <1>3 DEF TopInv, ConfAbove, Merging
  <1> QED
    BY <1>2, <1>3, <1>4, <1>5, <1>6, TopStable

LEMMA CopyDeclTop ==
  ASSUME BaseInv, BaseInv', TopInv, CopyDecl
  PROVE  TopInv'
  <1>1. /\ live' = live /\ merge.on /\ alive /\ live \subseteq Cfid
        /\ \A c \in live \ {merge.src} : conf'[c] = conf[c]
        /\ conf'[merge.src].top = conf[merge.src].top
        /\ merge' = [merge EXCEPT !.seq = merge.seq + 1] /\ merge \in Merge
    BY CopyConf, BaseTypes
  <1>2. UNCHANGED <<hold, dbq, tx, rows, decls, torn, alive>>
    BY DEF CopyDecl, lockVars, updaterVars, dbVars, lifeVars
  <1>3. merge'.on /\ merge'.src = merge.src
    BY <1>1 DEF Merge
  <1>4. qdecl \subseteq qdecl'
    <2>1. CopyFacts(ToC(conf, merge.dst, merge.seq), merge.seq)
      BY DEF CopyDecl
    <2> QED
      BY <2>1 DEF CopyFacts
  <1>5. OwnKept
    BY <1>1, CopyOwn DEF OwnKept
  <1>6. MemoryOnly
    BY <1>1, <1>2 DEF MemoryOnly
  <1>7. TopKept
    BY <1>1, <1>2 DEF TopKept
  <1>8. ConfAbove'
    <2>1. ASSUME NEW c \in live, c # merge.src
          PROVE  conf'[c].top > conf'[c].pseq \/ (c = 0 /\ conf'[0].top = -1)
      BY <1>1, <2>1 DEF TopInv, ConfAbove, Merging
    <2> QED
      BY <1>1, <1>3, <2>1 DEF ConfAbove, Merging
  <1> QED
    BY <1>1, <1>4, <1>5, <1>6, <1>7, <1>8, TopStable

LEMMA PutStopsTop ==
  ASSUME BaseInv, BaseInv', TopInv, PutStops
  PROVE  TopInv'
  <1>1. UNCHANGED <<conf, merge, qdecl>> /\ MemoryOnly /\ hold' = "stuck"
    BY DEF PutStops, MemoryOnly
  <1> QED
    BY <1>1, TopSame

LEMMA CopyStuckTop ==
  ASSUME BaseInv, BaseInv', TopInv, CopyStuck
  PROVE  TopInv'
  <1>1. /\ alive /\ hold' = "stuck" /\ qdecl \subseteq qdecl'
        /\ UNCHANGED <<conf, merge, dbq, tx, rows, decls, torn, alive>>
    BY CopyStops
  <1>2. OwnKept /\ MemoryOnly /\ TopKept
    BY <1>1 DEF OwnKept, Own, Keeps, Copied, Merging, MemoryOnly, TopKept
  <1>3. ConfAbove'
    BY <1>1 DEF TopInv, ConfAbove, Merging
  <1> QED
    BY <1>1, <1>2, <1>3, TopStable

\* What memory knows of a declaration is stored or to be written.
LEMMA MemReliable ==
  ASSUME BaseInv, DataInv, NEW c \in Cfid, NEW t \in Seqs, <<c, t, "hash">> \in mem
  PROVE  Reliable(c, t, Len(dbq)) \/ <<c, t>> \in qdecl
  <1> SUFFICES ASSUME Own(c, t), <<c, t>> \notin qdecl
               PROVE  Reliable(c, t, Len(dbq))
    BY DEF Reliable
  <1>1. "hash" \in Facts /\ ~LeftOut(t, "hash")
    BY DEF Facts, LeftOut
  <1>2. <<c, t, "hash">> \in decls \/ InTx(<<c, t, "hash">>) \/ Scheduled(c, t)
    BY <1>1 DEF DataInv, Durable
  <1>3. InTx(<<c, t, "hash">>) => Len(dbq) >= 1
    <2>1. tx.stage = "read" => dbq # <<>>
      BY DEF BaseInv, DbTypes, NoTx
    <2>2. dbq # <<>> => Len(dbq) >= 1
      BY BaseTypes
    <2> QED
      BY <2>1, <2>2 DEF InTx
  <1>4. DOMAIN dbq = 1 .. Len(dbq)
    BY BaseTypes
  <1> QED
    BY <1>2, <1>3, <1>4 DEF Reliable, Scheduled

\* The destination of a merge takes over a top that it knows.
LEMMA EndMergeTop ==
  ASSUME BaseInv, BaseInv', DataInv, TopInv, EndMerge
  PROVE  TopInv'
  <1>1. /\ alive /\ hold = "put" /\ merge.on /\ merge.seq > LastCopied
        /\ \/ /\ ~FullMerge /\ merge' = NoMerge
              /\ UNCHANGED <<conf, hold>>
           \/ /\ FullMerge /\ merge' = NoMerge
              /\ conf[merge.src].top > conf[merge.dst].top =>
                   <<ToC(conf, merge.dst, conf[merge.src].top), conf[merge.src].top, "hash">> \in mem
              /\ conf' = Heirs(TopAfterMerge)
           \/ /\ FullMerge /\ conf' = TopAfterMerge /\ hold' = "stuck"
              /\ conf[merge.src].top > conf[merge.dst].top
              /\ UNCHANGED merge
    BY DEF EndMerge
  <1>2. UNCHANGED <<qdecl, dbq, tx, rows, decls, alive, torn>>
    BY DEF EndMerge, updaterVars, dbVars
  <1>3. /\ Forest(conf) /\ live \subseteq Cfid /\ DOMAIN TopAfterMerge = live
        /\ \A c \in live \ {merge.dst} : TopAfterMerge[c] = conf[c]
        /\ TopAfterMerge[merge.dst].pseq = conf[merge.dst].pseq
        /\ merge \in Merge /\ merge.dst < merge.src
        /\ merge.src \in live /\ merge.dst \in live /\ merge.src # merge.dst
    <2>1. live \subseteq Nat
      BY BaseTypes
    <2> QED
      BY <1>1, <2>1, BaseTypes, TopAfterForest
  <1>4. /\ live' \subseteq live
        /\ \A c \in live' : conf'[c].pseq = conf[c].pseq
    BY EndMergeConf
  <1>5. OwnKept /\ MemoryOnly
    BY <1>1, <1>2, <1>3, EndMergeOwn DEF OwnKept, MemoryOnly
  <1>6. ASSUME NEW c \in live'
        PROVE  \/ conf'[c].top = conf[c].top
               \/ /\ c = merge.dst /\ conf'[c].top = conf[merge.src].top
                  /\ conf[merge.src].top > conf[merge.dst].top
    <2>1. \A d \in live : conf[d] \in Conflict /\ TopAfterMerge[d] \in Conflict
      BY <1>1, <1>3, TopAfterForest, ForestType
    <2>2. \/ TopAfterMerge[c].top = conf[c].top
          \/ /\ c = merge.dst /\ TopAfterMerge[c].top = conf[merge.src].top
             /\ conf[merge.src].top > conf[merge.dst].top
      BY <1>3, <1>4, <2>1 DEF TopAfterMerge, Conflict
    <2>3. conf'[c].top = TopAfterMerge[c].top \/ conf' = conf
      <3>1. CASE conf' = Heirs(TopAfterMerge)
        <4>1. \/ conf'[c] = TopAfterMerge[c]
              \/ conf'[c] = [TopAfterMerge[c] EXCEPT !.parent = merge.dst]
          BY <1>3, <3>1 DEF Heirs
        <4> QED
          BY <1>4, <2>1, <4>1 DEF Conflict
      <3> QED
        BY <1>1, <3>1
    <2> QED
      BY <2>2, <2>3
  <1>7. TopKept
    <2> SUFFICES ASSUME hold' # "stuck", NEW c \in live', NEW t \in Seqs, conf'[c].top = t,
                        conf[c].top # t
                 PROVE  <<c, t>> \in qdecl' \/ (c \in live /\ Reliable(c, t, Len(dbq)))
      BY <1>1, <1>4 DEF TopKept
    <2>1. /\ c = merge.dst /\ t = conf[merge.src].top
          /\ conf[merge.src].top > conf[merge.dst].top
      BY <1>6
    <2>2. <<ToC(conf, c, t), t, "hash">> \in mem
      BY <1>1, <2>1
    <2>3. t > conf[c].pseq
      <3>1. conf[c].top > conf[c].pseq \/ (c = 0 /\ conf[c].top = -1 /\ conf[c].pseq = -1)
        BY <1>3, <2>1 DEF TopInv, ConfAbove, Merging, Forest
      <3>2. conf[c].top \in Int /\ conf[c].pseq \in Int /\ t \in Int
        BY <1>3, <2>1, ForestType, SeqType
      <3> QED
        BY <2>1, <3>1, <3>2
    <2>4. ToC(conf, c, t) = c
      BY <1>3, <2>1, <2>3, ToCSelf
    <2>5. c \in live /\ c \in Cfid
      BY <1>3, <2>1
    <2> QED
      BY <1>2, <2>2, <2>4, <2>5, MemReliable
  <1>8. ConfAbove'
    <2> SUFFICES ASSUME NEW c \in live'
                 PROVE  \/ conf'[c].top > conf'[c].pseq
                        \/ merge'.on /\ merge'.src = c
                        \/ (c = 0 /\ conf'[0].top = -1)
      BY DEF ConfAbove, Merging
    <2>1. /\ conf[c].top \in Int /\ conf[c].pseq \in Int /\ conf'[c].pseq = conf[c].pseq
          /\ conf[merge.src].top \in Int
          /\ \/ conf[c].top > conf[c].pseq
             \/ c = merge.src
             \/ (c = 0 /\ conf[c].top = -1 /\ conf[c].pseq = -1)
      BY <1>3, <1>4, ForestType DEF TopInv, ConfAbove, Merging, Forest
    <2>2. CASE c # merge.src
      BY <1>6, <2>1, <2>2
    <2>3. CASE c = merge.src
      <3>1. CASE ~FullMerge /\ merge' = NoMerge /\ UNCHANGED <<conf, hold>>
        <4>1. merge.seq > merge.cseq
          BY <1>1, <3>1 DEF LastCopied
        <4>2. merge # NoMerge
          BY <1>1 DEF NoMerge
        <4>3. conf[c].pseq = merge.cseq /\ merge.cseq <= conf[c].top /\ merge.cseq # conf[c].top
          BY <2>3, <3>1, <4>1, <4>2 DEF BaseInv, MergeRight, FullMerge
        <4>4. conf'[c].top = conf[c].top
          BY <3>1
        <4> QED
          BY <2>1, <4>3, <4>4
      <3>2. CASE FullMerge /\ merge' = NoMerge
        BY <1>4, <2>3, <3>2, EndMergeConf
      <3>3. CASE UNCHANGED merge
        BY <1>1, <2>3, <3>3
      <3> QED
        BY <1>1, <3>1, <3>2, <3>3
    <2> QED
      BY <2>2, <2>3
  <1> QED
    BY <1>2, <1>4, <1>5, <1>7, <1>8, TopStable

\* The updates queued before are still queued.
LEMMA ReliableQueued ==
  ASSUME BaseInv, UNCHANGED <<conf, merge, decls, tx, torn>>,
         \A i \in DOMAIN dbq : dbq'[i] = dbq[i],
         NEW c \in Cfid, NEW t \in Seqs, NEW i \in 0 .. Len(dbq), NEW k \in Nat, k >= i,
         Reliable(c, t, i)
  PROVE  Reliable(c, t, k)'
  <1>1. \A j \in 1 .. i : j \in DOMAIN dbq /\ j \in 1 .. k
    BY BaseTypes
  <1>2. i >= 1 => k >= 1
    BY BaseTypes
  <1>3. Own(c, t)' <=> Own(c, t)
    BY DEF Own, Keeps, Copied, Merging
  <1>4. InTx(<<c, t, "hash">>)' <=> InTx(<<c, t, "hash">>)
    BY DEF InTx
  <1> QED
    BY <1>1, <1>2, <1>3, <1>4 DEF Reliable

LEMMA UnlockTop ==
  ASSUME BaseInv, BaseInv', DataInv, TopInv, Unlock
  PROVE  TopInv'
  <1>1. /\ alive /\ hold \in {"put", "load"} /\ merge = NoMerge
        /\ hold' = "free" /\ EndUpdate
        /\ UNCHANGED <<conf, mem, merge, tx, rows, decls, alive, torn>>
    BY MergeOff DEF Unlock, Putting, BaseInv, IdleRight, scrollVars, dbVars, lifeVars
  <1>2. CASE conf[0].top = -1
    <2>1. UNCHANGED <<qdecl, dbq>>
      BY <1>1, <1>2 DEF EndUpdate, queueVars
    <2> QED
      BY <1>1, <2>1, TopSame DEF MemoryOnly
  <1>3. CASE conf[0].top # -1
    <2>1. PICK e : e = [cf |-> ChangedRows, rm |-> qrm, decl |-> qdecl]
      OBVIOUS
    <2>2. PICK n \in Nat : n = Len(dbq)
      BY BaseTypes
    <2>3. dbq' = Append(dbq, e)
      BY <1>1, <1>3, <2>1 DEF EndUpdate, ScheduleDbUpdate
    <2>4. /\ DOMAIN dbq = 1 .. n /\ Len(dbq') = n + 1
          /\ \A i \in DOMAIN dbq : dbq'[i] = dbq[i]
          /\ dbq'[n + 1] = e /\ n + 1 \in Nat /\ e.decl = qdecl
          /\ dbq' = Append(dbq, e) /\ n \in 0 .. n
      BY <2>1, <2>2, <2>3, BaseTypes
    <2>5. Forest(conf) /\ live \subseteq Cfid
      BY BaseTypes
    <2>6. ASSUME NEW c \in live, NEW t \in Seqs, t = conf[c].top
          PROVE  Reliable(c, t, n + 1)'
      <3>1. Reliable(c, t, n) \/ <<c, t>> \in qdecl
        BY <1>1, <2>2, <2>6 DEF TopInv, ConfTop
      <3>2. CASE Reliable(c, t, n)
        BY <1>1, <2>2, <2>4, <2>5, <3>2, ReliableQueued
      <3>3. CASE <<c, t>> \in qdecl
        <4>1. n + 1 = 1 => tx'.stage = "idle"
          <5>1. n + 1 = 1 => dbq = <<>>
            BY <2>2, BaseTypes
          <5>2. dbq = <<>> => tx = NoTx
            BY DEF BaseInv, DbTypes
          <5> QED
            BY <1>1, <5>1, <5>2 DEF NoTx
        <4>2. n + 1 \in 1 .. n + 1 /\ <<c, t>> \in dbq'[n + 1].decl
          BY <2>4, <3>3
        <4> QED
          BY <4>1, <4>2 DEF Reliable
      <3> QED
        BY <3>1, <3>2, <3>3
    <2>7. ConfAbove' /\ RowsAbove' /\ DeadTops'
      BY <1>1 DEF TopInv, ConfAbove, RowsAbove, DeadTops, Merging
    <2>8. ConfTop'
      <3>1. ASSUME NEW c \in live', NEW t \in Seqs, NEW k \in Nat,
                   conf'[c].top = t, Len(dbq') = k
            PROVE  Reliable(c, t, k)'
        BY <1>1, <2>4, <2>6, <3>1
      <3> QED
        BY <3>1 DEF ConfTop
    <2>9. TopsRight'
      <3> SUFFICES ASSUME NEW new, Chained(new)'
                   PROVE  TopsOf(new)'
        BY DEF TopsRight
      <3>1. /\ new \in [0 .. n + 1 -> ConfSet] /\ new[0] = rows
            /\ \A i \in 1 .. n + 1 : new[i] = RowsAfter(dbq'[i], new[i - 1])
        BY <1>1, <2>4 DEF Chained, ChainFrom
      <3>2. PICK snap : snap = [i \in 0 .. n |-> new[i]]
        OBVIOUS
      <3>3. 0 .. n \subseteq 0 .. n + 1 /\ 1 .. n \subseteq 1 .. n + 1
            /\ \A i \in 1 .. n : i - 1 \in 0 .. n /\ i \in 0 .. n
            /\ n + 1 \in 1 .. n + 1 /\ n \in 0 .. n /\ (n + 1) - 1 = n /\ 0 \in 0 .. n
        OBVIOUS
      <3>4. Chained(snap)
        BY <2>2, <2>4, <3>1, <3>2, <3>3 DEF Chained, ChainFrom
      <3>5. Snaps(snap) /\ TopsOf(snap)
        BY <1>1, <3>4, ChainedSnaps DEF TopInv, TopsRight
      <3>6. new[n + 1] = conf
        <4>1. snap[n] \in ConfSet /\ saved = Restrict(snap[n], DOMAIN snap[n] \ qrm)
          BY <2>2, <3>3, <3>5 DEF Snaps
        <4>2. new[n + 1] = RowsAfter(e, snap[n])
          BY <2>4, <3>1, <3>2, <3>3
        <4> QED
          BY <2>1, <4>1, <4>2, NewRows
      <3>7. ASSUME NEW i \in 0 .. n + 1, NEW c \in DOMAIN new[i]
            PROVE  new[i][c].top > new[i][c].pseq /\ Reliable(c, new[i][c].top, i)'
        <4>1. CASE i = n + 1
          <5>1. c \in live /\ new[i] = conf
            BY <3>6, <3>7, <4>1
          <5>2. conf[c].top > conf[c].pseq
            BY <1>1, <1>3, <5>1 DEF TopInv, ConfAbove, Merging, NoMerge
          <5>3. PICK t \in Seqs : t = conf[c].top
            BY <2>5, <5>1, <5>2, ConfTops
          <5>4. Reliable(c, t, n + 1)'
            BY <2>6, <5>1, <5>3
          <5> QED
            BY <4>1, <5>1, <5>2, <5>3, <5>4
        <4>2. CASE i # n + 1
          <5>1. i \in 0 .. n /\ i \in Nat /\ new[i] = snap[i] /\ i >= i
            BY <3>2, <3>7, <4>2
          <5>2. new[i][c].top > new[i][c].pseq /\ Reliable(c, new[i][c].top, i)
            BY <2>2, <3>5, <3>7, <5>1 DEF TopsOf
          <5>3. Forest(new[i])
            BY <2>2, <3>5, <3>7, <5>1 DEF Snaps, Loadable
          <5>4. c \in Cfid
            BY <5>3, ForestType
          <5>5. PICK t \in Seqs : t = new[i][c].top
            BY <5>2, <5>3, ConfTops
          <5>6. Reliable(c, t, i)'
            BY <1>1, <2>2, <2>4, <5>1, <5>2, <5>4, <5>5, ReliableQueued
          <5> QED
            BY <5>2, <5>5, <5>6
        <4> QED
          BY <4>1, <4>2
      <3>8. Len(dbq') = n + 1
        BY <2>4
      <3> QED
        BY <3>7, <3>8 DEF TopsOf
    <2> QED
      BY <2>7, <2>8, <2>9 DEF TopInv
  <1> QED
    BY <1>2, <1>3

\* A step of the updater after which what was to be stored still is.
StillReliable ==
  \A c \in Cfid, t \in Seqs, i \in Nat : Reliable(c, t, i) => Reliable(c, t, i)'

LEMMA UpdaterTop ==
  ASSUME BaseInv, TopInv, StillReliable, alive,
         UNCHANGED <<conf, merge, hold, qdecl, dbq, rows, torn, alive>>
  PROVE  TopInv'
  <1>1. ConfAbove' /\ RowsAbove' /\ DeadTops'
    BY DEF TopInv, ConfAbove, RowsAbove, DeadTops, Merging
  <1>2. live \subseteq Cfid
    BY BaseTypes
  <1>3. ConfTop'
    <2>1. ASSUME hold' # "stuck", NEW c \in live', NEW t \in Seqs, NEW n \in Nat,
                 conf'[c].top = t, Len(dbq') = n
          PROVE  Reliable(c, t, n)' \/ <<c, t>> \in qdecl'
      <3>1. Reliable(c, t, n) \/ <<c, t>> \in qdecl
        BY <2>1 DEF TopInv, ConfTop
      <3>2. c \in Cfid
        BY <1>2
      <3> QED
        BY <3>1, <3>2 DEF StillReliable
    <2> QED
      BY <2>1 DEF ConfTop
  <1>4. TopsRight'
    <2> SUFFICES ASSUME NEW snap, Chained(snap)' PROVE TopsOf(snap)'
      BY DEF TopsRight
    <2>1. Chained(snap)
      BY DEF Chained, ChainFrom
    <2>2. Snaps(snap) /\ TopsOf(snap)
      BY <2>1, ChainedSnaps DEF TopInv, TopsRight
    <2>3. ASSUME NEW i \in 0 .. Len(dbq), NEW c \in DOMAIN snap[i]
          PROVE  snap[i][c].top > snap[i][c].pseq /\ Reliable(c, snap[i][c].top, i)'
      <3>1. Forest(snap[i])
        BY <2>2, <2>3 DEF Snaps, Loadable
      <3>2. snap[i][c].top > snap[i][c].pseq /\ Reliable(c, snap[i][c].top, i)
        BY <2>2, <2>3 DEF TopsOf
      <3>3. c \in Cfid /\ i \in Nat
        BY <3>1, ForestType, BaseTypes
      <3>4. PICK t \in Seqs : t = snap[i][c].top
        BY <3>1, <3>2, ConfTops
      <3>5. Reliable(c, t, i)'
        BY <3>2, <3>3, <3>4 DEF StillReliable
      <3> QED
        BY <3>2, <3>4, <3>5
    <2> QED
      BY <2>3 DEF TopsOf
  <1> QED
    BY <1>1, <1>3, <1>4 DEF TopInv

LEMMA TxBeginTop ==
  ASSUME BaseInv, TopInv, TxBegin
  PROVE  TopInv'
  <1>1. /\ alive /\ tx.stage = "idle" /\ tx'.stage = "read" /\ dbq # <<>>
        /\ tx'.todo = Head(dbq).decl
    BY DEF TxBegin
  <1>2. UNCHANGED <<conf, merge, hold, qdecl, dbq, rows, torn, alive, decls>>
    BY DEF TxBegin, scrollVars, lockVars, queueVars, dbVars, lifeVars
  <1>3. Head(dbq) = dbq[1]
    BY <1>1, BaseTypes
  <1>4. ASSUME NEW c \in Cfid, NEW t \in Seqs, NEW i \in Nat, Reliable(c, t, i)
        PROVE  Reliable(c, t, i)'
    <2>1. Own(c, t)' <=> Own(c, t)
      BY <1>2 DEF Own, Keeps, Copied, Merging
    <2>2. ~InTx(<<c, t, "hash">>)
      BY <1>1 DEF InTx
    <2> QED
      BY <1>1, <1>2, <1>3, <1>4, <2>1, <2>2 DEF Reliable
  <1> QED
    BY <1>1, <1>2, <1>4, UpdaterTop DEF StillReliable

\* The row of a declaration that its conflict keeps has the hash.
LEMMA TxReadTop ==
  ASSUME BaseInv, DataInv', TopInv, TxRead
  PROVE  TopInv'
  <1>1. alive /\ tx.stage = "read"
    BY DEF TxRead
  <1>2. UNCHANGED <<conf, merge, hold, qdecl, dbq, rows, torn, alive, decls>>
    BY DEF TxRead, scrollVars, lockVars, queueVars, dbVars, lifeVars
  <1>3. PICK p \in tx.todo :
          IF p[1] \in live /\ ToC(conf, p[1], p[2]) = p[1]
          THEN tx' = [tx EXCEPT
                 !.todo = @ \ {p}, !.done = @ \cup {p},
                 !.facts = @ \cup {<<p[1], p[2], f>> :
                                     f \in InMem(p[1], p[2]) \cap Facts},
                 !.blob = @ \cup IF "buf" \in InMem(p[1], p[2])
                                 THEN {<<Blob(conf[p[1]].hist, p[2]), p[1]>>} ELSE {}]
          ELSE tx' = [tx EXCEPT !.todo = @ \ {p}]
    BY DEF TxRead
  <1>4. PICK d \in Cfid, s \in Seqs : p = <<d, s>>
    BY <1>1, Parts
  <1>5. p[1] = d /\ p[2] = s
    BY <1>4
  <1>6. tx \in Tx
    BY <1>1, TxStage
  <1>7. /\ tx'.stage = "read" /\ tx'.todo = tx.todo \ {p} /\ tx.facts \subseteq tx'.facts
        /\ d \in live /\ ToC(conf, d, s) = d => p \in tx'.done
    <2>1. ASSUME NEW F, F = {<<p[1], p[2], f>> : f \in InMem(p[1], p[2]) \cap Facts},
                 NEW B,
                 tx' = [tx EXCEPT !.todo = @ \ {p}, !.done = @ \cup {p},
                                  !.facts = @ \cup F, !.blob = @ \cup B]
          PROVE  /\ tx'.stage = "read" /\ tx'.todo = tx.todo \ {p}
                 /\ tx.facts \subseteq tx'.facts /\ p \in tx'.done
      BY <1>1, <1>6, <2>1 DEF Tx
    <2>2. ASSUME tx' = [tx EXCEPT !.todo = @ \ {p}]
          PROVE  /\ tx'.stage = "read" /\ tx'.todo = tx.todo \ {p}
                 /\ tx.facts \subseteq tx'.facts
      BY <1>1, <1>6, <2>2 DEF Tx
    <2> QED
      BY <1>3, <1>5, <2>1, <2>2
  <1>8. Own(d, s)' => <<d, s, "hash">> \in tx'.facts
    <2>1. Own(d, s)' => d \in live /\ ToC(conf, d, s) = d
      BY <1>2, ToCSelf, BaseTypes DEF Own, Keeps
    <2>2. p \in tx'.done => (Own(d, s)' => <<d, s, "hash">> \in tx'.facts)
      BY <1>5, <1>4, <1>7 DEF DataInv, TxRight
    <2> QED
      BY <1>7, <2>1, <2>2
  <1>9. ASSUME NEW c \in Cfid, NEW t \in Seqs, NEW i \in Nat, Reliable(c, t, i)
        PROVE  Reliable(c, t, i)'
    <2>1. Own(c, t)' <=> Own(c, t)
      BY <1>2 DEF Own, Keeps, Copied, Merging
    <2>2. InTx(<<c, t, "hash">>) => InTx(<<c, t, "hash">>)'
      BY <1>7 DEF InTx
    <2>3. <<c, t>> # p => (<<c, t>> \in tx.todo => <<c, t>> \in tx'.todo)
      BY <1>7
    <2>4. ASSUME <<c, t>> = p, i >= 1
          PROVE  Reliable(c, t, i)'
      <3>1. c = d /\ t = s
        BY <1>4, <2>4
      <3>2. Own(c, t)' => InTx(<<c, t, "hash">>)'
        BY <1>7, <1>8, <3>1 DEF InTx
      <3> QED
        BY <2>4, <3>2 DEF Reliable
    <2>5. CASE <<c, t>> # p
      BY <1>1, <1>2, <1>7, <1>9, <2>1, <2>2, <2>3, <2>5 DEF Reliable
    <2>6. CASE i = 0
      BY <1>2, <1>9, <2>1, <2>6 DEF Reliable
    <2> QED
      BY <2>4, <2>5, <2>6
  <1> QED
    BY <1>1, <1>2, <1>9, UpdaterTop DEF StillReliable

LEMMA TxBlobTop ==
  ASSUME BaseInv, TopInv, TxBlob
  PROVE  TopInv'
  <1>1. alive /\ tx.stage = "blobs"
    BY DEF TxBlob
  <1>2. UNCHANGED <<conf, merge, hold, qdecl, dbq, rows, torn, alive, decls>>
    BY DEF TxBlob, scrollVars, lockVars, queueVars, lifeVars
  <1>3. tx'.stage = "blobs"
    <2>1. ASSUME NEW B, tx' = [tx EXCEPT !.blob = B]
          PROVE  tx'.stage = "blobs"
      <3>1. tx \in Tx
        BY <1>1, TxStage
      <3> QED
        BY <1>1, <2>1, <3>1 DEF Tx
    <2>2. \E B : tx' = [tx EXCEPT !.blob = B]
      BY DEF TxBlob
    <2> QED
      BY <2>1, <2>2
  <1>4. ASSUME NEW c \in Cfid, NEW t \in Seqs, NEW i \in Nat, Reliable(c, t, i)
        PROVE  Reliable(c, t, i)'
    <2>1. Own(c, t)' <=> Own(c, t)
      BY <1>2 DEF Own, Keeps, Copied, Merging
    <2>2. ~InTx(<<c, t, "hash">>)
      BY <1>1 DEF InTx
    <2> QED
      BY <1>1, <1>2, <1>3, <1>4, <2>1, <2>2 DEF Reliable
  <1> QED
    BY <1>1, <1>2, <1>4, UpdaterTop DEF StillReliable

LEMMA TxCommitTop ==
  ASSUME BaseInv, DataInv, TopInv, TxCommit
  PROVE  TopInv'
  <1>1. /\ alive /\ tx.stage = "read" /\ tx.todo = {}
        /\ rows' = RowsAfter(Head(dbq), rows)
        /\ decls' = {d \in decls : d[1] \notin Head(dbq).rm /\ <<d[1], d[2]>> \notin tx.done}
                      \cup tx.facts
        /\ tx' = [tx EXCEPT !.stage = "blobs"]
    BY DEF TxCommit, CommitRows, CommitDecls, RowsAfter
  <1>2. UNCHANGED <<conf, merge, hold, qdecl, dbq, torn, alive>>
    BY DEF TxCommit, scrollVars, lockVars, queueVars, lifeVars
  <1>3. tx \in Tx /\ dbq # <<>> /\ tx'.stage = "blobs"
    <2>1. tx \in Tx /\ dbq # <<>>
      BY <1>1, TxStage
    <2> QED
      BY <1>1, <2>1 DEF Tx
  <1>4. PICK n \in Nat : n = Len(dbq)
    BY BaseTypes
  <1>5. n >= 1 /\ 1 \in 1 .. n /\ 1 \in 0 .. n /\ 1 - 1 = 0 /\ 0 \in 0 .. n
        /\ 1 \in DOMAIN dbq /\ Head(dbq) = dbq[1] /\ Head(dbq) \in DbUpdate
    BY <1>3, <1>4, BaseTypes
  <1>6. live \subseteq Cfid /\ \A c \in live : c \notin Head(dbq).rm
    BY <1>5, BaseTypes DEF BaseInv, Fresh
  \* What the first update was to store is stored; the others are to come.
  <1>7. ASSUME NEW c \in Cfid, NEW t \in Seqs, NEW i \in Nat, i >= 1, Reliable(c, t, i)
        PROVE  \/ Reliable(c, t, 0)'
               \/ \E j \in 2 .. i : <<c, t>> \in dbq[j].decl
    <2>1. Own(c, t)' <=> Own(c, t)
      BY <1>2 DEF Own, Keeps, Copied, Merging
    <2>2. CASE ~Own(c, t) \/ c \in torn
      BY <1>2, <2>1, <2>2 DEF Reliable
    <2>3. ASSUME Own(c, t), <<c, t, "hash">> \in decls
          PROVE  <<c, t, "hash">> \in decls'
      <3>1. c \notin Head(dbq).rm
        BY <1>6, <2>3 DEF Own, Keeps
      <3>2. <<c, t>> \in tx.done => <<c, t, "hash">> \in tx.facts
        <4>1. \A p \in tx.done : Own(p[1], p[2]) => <<p[1], p[2], "hash">> \in tx.facts
          BY <1>1 DEF DataInv, TxRight
        <4> QED
          BY <2>3, <4>1
      <3> QED
        BY <1>1, <2>3, <3>1, <3>2
    <2>4. InTx(<<c, t, "hash">>) => <<c, t, "hash">> \in decls'
      BY <1>1 DEF InTx
    <2>5. ASSUME NEW j \in 1 .. i, <<c, t>> \in dbq[j].decl,
                 j = 1 => \/ tx.stage = "idle"
                          \/ tx.stage = "read" /\ <<c, t>> \in tx.todo
          PROVE  j \in 2 .. i
      BY <1>1, <2>5
    <2> QED
      BY <1>7, <2>2, <2>3, <2>4, <2>5 DEF Reliable
  <1>8. ASSUME NEW c \in Cfid, NEW t \in Seqs, NEW i \in Nat, NEW k \in Nat,
               i >= 1, k = i \/ (i = 1 /\ k = 0), Reliable(c, t, i)
        PROVE  Reliable(c, t, k)'
    <2>1. CASE Reliable(c, t, 0)'
      BY <1>3, <2>1 DEF Reliable, InTx
    <2>2. CASE \E j \in 2 .. i : <<c, t>> \in dbq[j].decl
      <3>1. PICK j \in 2 .. i : <<c, t>> \in dbq[j].decl
        BY <2>2
      <3>2. j \in 1 .. k /\ j # 1
        BY <1>8
      <3> QED
        BY <1>2, <3>1, <3>2 DEF Reliable
    <2> QED
      BY <1>7, <1>8, <2>1, <2>2
  <1>9. ConfAbove' /\ DeadTops'
    BY <1>1, <1>2 DEF TopInv, ConfAbove, DeadTops, Merging
  <1>10. ConfTop'
    <2>1. ASSUME hold' # "stuck", NEW c \in live', NEW t \in Seqs, NEW k \in Nat,
                 conf'[c].top = t, Len(dbq') = k
          PROVE  Reliable(c, t, k)' \/ <<c, t>> \in qdecl'
      <3>1. Reliable(c, t, n) \/ <<c, t>> \in qdecl
        BY <1>2, <1>4, <2>1 DEF TopInv, ConfTop
      <3>2. c \in Cfid /\ k = n
        BY <1>2, <1>4, <1>6, <2>1
      <3> QED
        BY <1>2, <1>5, <1>8, <3>1, <3>2
    <2> QED
      BY <2>1 DEF ConfTop
  <1>11. PICK snap : Snaps(snap)
    BY <1>1 DEF BaseInv, Chain
  <1>12. /\ snap \in [0 .. n -> ConfSet] /\ snap[0] = rows
         /\ \A i \in 1 .. n : snap[i] = RowsAfter(dbq[i], snap[i - 1])
         /\ \A i \in 0 .. n : Loadable(snap[i])
    BY <1>4, <1>11 DEF Snaps
  <1>13. TopsOf(snap)
    <2>1. Chained(snap)
      BY <1>4, <1>12 DEF Chained, ChainFrom
    <2> QED
      BY <1>1, <2>1 DEF TopInv, TopsRight
  <1>14. /\ rows' = snap[1] /\ RowsAfter(dbq[1], snap[1]) = snap[1]
    <2>1. rows' = snap[1] /\ snap[1] \in ConfSet /\ rows \in ConfSet
      BY <1>1, <1>5, <1>12
    <2> QED
      BY <1>1, <1>5, <2>1, RowsTwice
  <1>15. RowsAbove'
    BY <1>4, <1>5, <1>13, <1>14 DEF RowsAbove, TopsOf
  <1>16. TopsRight'
    <2> SUFFICES ASSUME NEW new, Chained(new)' PROVE TopsOf(new)'
      BY DEF TopsRight
    <2>1. PICK old : old = [i \in 0 .. n |-> IF i = 0 THEN snap[1] ELSE snap[i]]
      OBVIOUS
    <2>2. Chained(old)'
      <3>1. old \in [0 .. n -> ConfSet] /\ old[0] = rows'
        BY <1>5, <1>12, <1>14, <2>1
      <3>2. ASSUME NEW i \in 1 .. n
            PROVE  old[i] = RowsAfter(dbq[i], old[i - 1])
        <4>1. i \in 0 .. n /\ i # 0 /\ i - 1 \in 0 .. n
          OBVIOUS
        <4>2. old[i] = snap[i] /\ snap[i] = RowsAfter(dbq[i], snap[i - 1])
          BY <1>12, <2>1, <4>1
        <4>3. CASE i = 1
          BY <1>5, <1>14, <2>1, <4>2, <4>3
        <4>4. CASE i # 1
          <5>1. i - 1 # 0
            BY <4>4
          <5> QED
            BY <2>1, <4>1, <4>2, <5>1
        <4> QED
          BY <4>3, <4>4
      <3> QED
        BY <1>2, <1>4, <3>1, <3>2 DEF Chained, ChainFrom
    <2>3. new = old
      <3>1. Len(dbq') \in Nat
        BY <1>2, <1>4
      <3> QED
        BY <2>2, <3>1, SameChain DEF Chained
    <2>4. ASSUME NEW i \in 0 .. n, NEW c \in DOMAIN old[i]
          PROVE  old[i][c].top > old[i][c].pseq /\ Reliable(c, old[i][c].top, i)'
      <3>1. PICK k \in 1 .. n : k = i \/ (k = 1 /\ i = 0)
        BY <1>5
      <3>2. old[i] = snap[k] /\ k \in 0 .. n
        BY <2>1, <3>1
      <3>3. snap[k][c].top > snap[k][c].pseq /\ Reliable(c, snap[k][c].top, k)
        BY <1>4, <1>13, <2>4, <3>2 DEF TopsOf
      <3>4. Forest(snap[k])
        BY <1>12, <2>4, <3>2 DEF Loadable
      <3>5. c \in Cfid
        BY <2>4, <3>2, <3>4, ForestType
      <3>6. PICK t \in Seqs : t = snap[k][c].top
        BY <2>4, <3>2, <3>3, <3>4, ConfTops
      <3>7. Reliable(c, t, i)'
        BY <1>8, <3>1, <3>3, <3>5, <3>6
      <3> QED
        BY <3>2, <3>3, <3>6, <3>7
    <2> QED
      BY <1>2, <1>4, <2>3, <2>4 DEF TopsOf
  <1> QED
    BY <1>9, <1>10, <1>15, <1>16 DEF TopInv

LEMMA TxEndTop ==
  ASSUME BaseInv, TopInv, TxEnd
  PROVE  TopInv'
  <1>1. alive /\ tx.stage = "blobs" /\ dbq' = Tail(dbq) /\ tx'.stage = "idle"
    BY DEF TxEnd, NoTx
  <1>2. UNCHANGED <<conf, merge, hold, qdecl, rows, decls, torn, alive>>
    BY DEF TxEnd, scrollVars, lockVars, queueVars, dbVars, lifeVars
  <1>3. dbq # <<>> /\ rows = RowsAfter(Head(dbq), rows)
    BY <1>1, TxStage DEF BaseInv, Chain
  <1>4. PICK n \in Nat : n = Len(dbq)
    BY BaseTypes
  <1>5. /\ n >= 1 /\ 1 \in 1 .. n /\ Head(dbq) = dbq[1] /\ Len(dbq') = n - 1
        /\ \A i \in 1 .. n - 1 : dbq'[i] = dbq[i + 1]
    BY <1>1, <1>3, <1>4, BaseTypes
  <1>6. live \subseteq Cfid
    BY BaseTypes
  <1>7. ASSUME NEW c \in Cfid, NEW t \in Seqs, NEW i \in 1 .. n, NEW k \in Nat, k = i - 1,
               Reliable(c, t, i)
        PROVE  Reliable(c, t, k)'
    <2>1. Own(c, t)' <=> Own(c, t)
      BY <1>2 DEF Own, Keeps, Copied, Merging
    <2>2. ~InTx(<<c, t, "hash">>)
      BY <1>1 DEF InTx
    <2>3. ASSUME NEW j \in 1 .. i, <<c, t>> \in dbq[j].decl,
                 j = 1 => \/ tx.stage = "idle"
                          \/ tx.stage = "read" /\ <<c, t>> \in tx.todo
          PROVE  Reliable(c, t, k)'
      <3>1. j # 1
        BY <1>1, <2>3
      <3>2. j - 1 \in 1 .. k /\ j - 1 \in 1 .. n - 1 /\ (j - 1) + 1 = j
        BY <1>7, <3>1
      <3>3. <<c, t>> \in dbq'[j - 1].decl
        BY <1>5, <2>3, <3>2
      <3> QED
        BY <1>1, <3>2, <3>3 DEF Reliable
    <2>4. CASE ~Own(c, t) \/ c \in torn \/ <<c, t, "hash">> \in decls
      BY <1>2, <2>1, <2>4 DEF Reliable
    <2> QED
      BY <1>7, <2>2, <2>3, <2>4 DEF Reliable
  <1>8. ConfAbove' /\ RowsAbove' /\ DeadTops'
    BY <1>2 DEF TopInv, ConfAbove, RowsAbove, DeadTops, Merging
  <1>9. ConfTop'
    <2>1. ASSUME hold' # "stuck", NEW c \in live', NEW t \in Seqs, NEW k \in Nat,
                 conf'[c].top = t, Len(dbq') = k
          PROVE  Reliable(c, t, k)' \/ <<c, t>> \in qdecl'
      <3>1. Reliable(c, t, n) \/ <<c, t>> \in qdecl
        BY <1>2, <1>4, <2>1 DEF TopInv, ConfTop
      <3>2. c \in Cfid /\ k = n - 1 /\ n \in 1 .. n
        BY <1>2, <1>5, <1>6, <2>1
      <3> QED
        BY <1>2, <1>7, <3>1, <3>2
    <2> QED
      BY <2>1 DEF ConfTop
  <1>10. TopsRight'
    <2> SUFFICES ASSUME NEW new, Chained(new)' PROVE TopsOf(new)'
      BY DEF TopsRight
    <2>1. /\ new \in [0 .. n - 1 -> ConfSet] /\ new[0] = rows
          /\ \A i \in 1 .. n - 1 : new[i] = RowsAfter(dbq[i + 1], new[i - 1])
      BY <1>2, <1>5 DEF Chained, ChainFrom
    <2>2. PICK snap : snap = [i \in 0 .. n |-> IF i = 0 THEN rows ELSE new[i - 1]]
      OBVIOUS
    <2>3. Chained(snap)
      <3>1. snap \in [0 .. n -> ConfSet] /\ snap[0] = rows
        <4>1. 0 \in 0 .. n - 1 /\ 0 \in 0 .. n
          BY <1>5
        <4>2. rows \in ConfSet
          BY <2>1, <4>1
        <4>3. \A i \in 0 .. n : i # 0 => i - 1 \in 0 .. n - 1
          OBVIOUS
        <4> QED
          BY <2>1, <2>2, <4>1, <4>2, <4>3
      <3>2. ASSUME NEW i \in 1 .. n
            PROVE  snap[i] = RowsAfter(dbq[i], snap[i - 1])
        <4>1. i \in 0 .. n /\ i # 0 /\ i - 1 \in 0 .. n
          OBVIOUS
        <4>2. CASE i = 1
          BY <1>3, <1>5, <2>1, <2>2, <4>1, <4>2
        <4>3. CASE i # 1
          <5>1. i - 1 \in 1 .. n - 1 /\ (i - 1) + 1 = i /\ i - 1 # 0
            BY <4>3
          <5>2. new[i - 1] = RowsAfter(dbq[i], new[(i - 1) - 1])
            BY <2>1, <5>1
          <5> QED
            BY <2>2, <4>1, <5>1, <5>2
        <4> QED
          BY <4>2, <4>3
      <3> QED
        BY <1>4, <3>1, <3>2 DEF Chained, ChainFrom
    <2>4. Snaps(snap) /\ TopsOf(snap)
      BY <1>1, <2>3, ChainedSnaps DEF TopInv, TopsRight
    <2>5. ASSUME NEW i \in 0 .. n - 1, NEW c \in DOMAIN new[i]
          PROVE  new[i][c].top > new[i][c].pseq /\ Reliable(c, new[i][c].top, i)'
      <3>1. PICK k \in 1 .. n : k = i + 1
        OBVIOUS
      <3>2. new[i] = snap[k] /\ k \in 0 .. n /\ i \in Nat /\ i = k - 1
        BY <2>2, <3>1
      <3>3. snap[k][c].top > snap[k][c].pseq /\ Reliable(c, snap[k][c].top, k)
        BY <1>4, <2>4, <2>5, <3>2 DEF TopsOf
      <3>4. Forest(snap[k])
        BY <1>4, <2>4, <2>5, <3>2 DEF Snaps, Loadable
      <3>5. c \in Cfid
        BY <2>5, <3>2, <3>4, ForestType
      <3>6. PICK t \in Seqs : t = snap[k][c].top
        BY <2>5, <3>2, <3>3, <3>4, ConfTops
      <3>7. Reliable(c, t, i)'
        BY <1>7, <3>2, <3>3, <3>5, <3>6
      <3> QED
        BY <3>2, <3>3, <3>6, <3>7
    <2> QED
      BY <1>5, <2>5 DEF TopsOf
  <1> QED
    BY <1>8, <1>9, <1>10 DEF TopInv

\* Nothing is queued, and memory has no more than the rows.
QuietTops ==
  /\ dbq = <<>> /\ Loadable(rows) /\ RowsAbove
  /\ conf = NewScroll \/ conf = rows
  /\ \A c \in DOMAIN rows : c \in torn \/ <<c, rows[c].top, "hash">> \in decls

LEMMA QuietTop == QuietTops => TopInv
  <1> SUFFICES ASSUME QuietTops PROVE TopInv
    OBVIOUS
  <1>1. DOMAIN NewScroll = {0} /\ NewScroll[0].top = -1
    BY DEF NewScroll, Root
  <1>2. Len(dbq) = 0
    BY DEF QuietTops
  <1>3. -1 \notin Seqs
    BY SeqType
  <1>4. RowsAbove /\ DeadTops
    BY DEF QuietTops, DeadTops
  <1>5. ASSUME NEW c \in DOMAIN rows, NEW t, t = rows[c].top, NEW i
        PROVE  Reliable(c, t, i)
    BY <1>5 DEF QuietTops, Reliable
  <1>6. ConfAbove
    BY <1>1 DEF QuietTops, RowsAbove, ConfAbove
  <1>7. ConfTop
    <2>1. CASE conf = NewScroll
      BY <1>1, <1>3, <2>1 DEF ConfTop
    <2>2. CASE conf = rows
      BY <1>5, <2>2 DEF ConfTop
    <2> QED
      BY <2>1, <2>2 DEF QuietTops
  <1>8. TopsRight
    <2> SUFFICES ASSUME NEW snap, Chained(snap) PROVE TopsOf(snap)
      BY DEF TopsRight
    <2>1. snap[0] = rows
      BY DEF Chained, ChainFrom
    <2>2. ASSUME NEW i \in 0 .. Len(dbq), NEW c \in DOMAIN snap[i]
          PROVE  snap[i][c].top > snap[i][c].pseq /\ Reliable(c, snap[i][c].top, i)
      <3>1. i = 0
        BY <1>2
      <3> QED
        BY <1>5, <2>1, <2>2, <3>1 DEF QuietTops, RowsAbove
    <2> QED
      BY <2>2 DEF TopsOf
  <1> QED
    BY <1>4, <1>6, <1>7, <1>8 DEF TopInv

LEMMA QuietTopNext == QuietTops' => TopInv'
  BY QuietTop, PTL

\* A stored conflict that memory has has its top stored, unless it was merged.
LEMMA StoredTop ==
  ASSUME BaseInv, TopInv, alive, NEW c \in DOMAIN rows
  PROVE  \/ <<c, rows[c].top, "hash">> \in decls
         \/ c \in torn \/ c \notin live \/ Merging(c) \/ TopMoved(c)
  <1>1. PICK snap : Snaps(snap)
    BY DEF BaseInv, Chain
  <1>2. Chained(snap) /\ snap[0] = rows /\ 0 \in 0 .. Len(dbq)
    BY <1>1, BaseTypes DEF Snaps, Chained, ChainFrom
  <1>3. rows[c].top > rows[c].pseq /\ Reliable(c, rows[c].top, 0)
    BY <1>2 DEF TopInv, TopsRight, TopsOf
  <1>4. Forest(rows) /\ Forest(conf)
    BY BaseTypes DEF BaseInv, DbTypes, Loadable
  <1>5. PICK t \in Seqs : t = rows[c].top
    BY <1>3, <1>4, ConfTops
  <1>6. Own(c, t) => c \in torn \/ <<c, t, "hash">> \in decls
    BY <1>3, <1>5 DEF Reliable
  <1>7. c \in live => conf[c].pseq \in Int /\ t \in Int
    BY <1>4, ForestType, SeqType
  <1>8. c \in live /\ ~(t <= conf[c].pseq) /\ ~Merging(c) => Own(c, t)
    BY <1>7 DEF Own, Keeps, Copied
  <1> QED
    BY <1>5, <1>6, <1>8 DEF TopMoved

LEMMA ExitTop ==
  ASSUME BaseInv, BaseInv', TopInv, alive, Exit
  PROVE  TopInv'
  <1>1. /\ conf' = NewScroll /\ dbq' = <<>>
        /\ torn' = torn \cup {c \in DOMAIN rows : c \notin live \/ Merging(c) \/ TopMoved(c)}
        /\ UNCHANGED <<rows, decls>>
    BY DEF Exit, EmptyMemory, dbVars
  <1>2. Loadable(rows') /\ RowsAbove'
    BY <1>1 DEF BaseInv, DbTypes, TopInv, RowsAbove
  <1>3. \A c \in DOMAIN rows : c \in torn' \/ <<c, rows[c].top, "hash">> \in decls
    BY <1>1, StoredTop
  <1> QED
    BY <1>1, <1>2, <1>3, QuietTopNext DEF QuietTops

LEMMA RestartTop ==
  ASSUME BaseInv', TopInv, Restart
  PROVE  TopInv'
  <1>1. /\ conf' = IF DOMAIN rows = {} THEN NewScroll ELSE rows
        /\ dbq' = <<>> /\ ~alive
        /\ UNCHANGED <<rows, decls, torn>>
    BY DEF Restart, EmptyMemory, dbVars
  <1>2. Loadable(rows') /\ RowsAbove'
    BY <1>1 DEF BaseInv, DbTypes, TopInv, RowsAbove
  <1> QED
    BY <1>1, <1>2, QuietTopNext DEF QuietTops, TopInv, DeadTops

LEMMA InitTop == Init => TopInv
  <1> SUFFICES ASSUME Init PROVE TopInv
    OBVIOUS
  <1>1. DOMAIN rows = {}
    <2>1. DOMAIN <<>> = {}
      OBVIOUS
    <2> QED
      BY <2>1 DEF Init
  <1>2. Loadable(rows)
    BY InitInv DEF BaseInv, DbTypes
  <1>3. dbq = <<>> /\ conf = NewScroll
    BY DEF Init
  <1> QED
    BY <1>1, <1>2, <1>3, QuietTop DEF QuietTops, RowsAbove

LEMMA StutterTop ==
  ASSUME BaseInv, BaseInv', TopInv, UNCHANGED <<vars, bound>>
  PROVE  TopInv'
  <1>1. UNCHANGED <<conf, merge, hold, qdecl, dbq, tx, rows, decls, alive, torn>>
    BY DEF vars, scrollVars, lockVars, queueVars, updaterVars, dbVars, lifeVars
  <1>2. CASE alive
    BY <1>1, <1>2, TopSame DEF MemoryOnly
  <1>3. CASE ~alive
    <2>1. conf = NewScroll /\ dbq = <<>> /\ Loadable(rows)
      BY <1>3 DEF BaseInv, DeadRight, DbTypes
    <2> QED
      BY <1>1, <1>3, <2>1, QuietTopNext DEF QuietTops, TopInv, DeadTops, RowsAbove
  <1>4. alive \in BOOLEAN
    BY DEF BaseInv, DbTypes
  <1> QED
    BY <1>2, <1>3

LEMMA NextTop ==
  ASSUME BaseInv, BaseInv', DataInv, DataInv', TopInv, [Next]_<<vars, bound>>
  PROVE  TopInv'
  <1>1. CASE UNCHANGED <<vars, bound>>
    BY <1>1, StutterTop
  <1>2. CASE Next
    <2>1. CASE Lock \/ Unlock
      BY <2>1, LockTop, UnlockTop
    <2>2. CASE Update
      BY <2>2, SetHashTop, SetDataTop, ForkTop, BeginMergeTop, PutStopping,
         PutStopsTop DEF Update
    <2>3. CASE MergeStep
      BY <2>3, CopyDeclTop, CopyStuckTop, EndMergeTop, PutStopping, PutStopsTop
         DEF MergeStep
    <2>4. CASE Load
      BY <2>4, BeginLoadTop DEF Load
    <2>5. CASE Loaded
      <3>1. PICK c \in Cfid, s \in Seqs : EndLoad(c, s)
        BY <2>5 DEF Loaded
      <3>2. alive /\ (Exit \/ alive')
        BY <3>1 DEF EndLoad, lifeVars
      <3> QED
        BY <3>1, <3>2, ExitTop, EndLoadTop
    <2>6. CASE Updater
      BY <2>6, TxBeginTop, TxReadTop, TxCommitTop, TxBlobTop, TxEndTop DEF Updater
    <2>7. CASE Crash
      BY <2>7, ExitTop DEF Crash
    <2>8. CASE Restart
      BY <2>8, RestartTop
    <2> QED
      BY <1>2, <2>1, <2>2, <2>3, <2>4, <2>5, <2>6, <2>7, <2>8 DEF Next
  <1> QED
    BY <1>1, <1>2

THEOREM TopsHold == Spec => [](BaseInv /\ DataInv /\ TopInv)
  <1>1. Init => BaseInv /\ DataInv /\ TopInv
    BY InitInv, InitData, InitTop
  <1>2. BaseInv /\ DataInv /\ TopInv /\ [Next]_<<vars, bound>>
          => (BaseInv /\ DataInv /\ TopInv)'
    BY NextInv, NextData, NextTop
  <1> QED
    BY <1>1, <1>2, PTL DEF Spec

\* A stored conflict that memory does not have is about to be removed.
LEMMA RemovedQueued ==
  ASSUME BaseInv, alive, NEW c \in DOMAIN rows, c \notin live
  PROVE  c \in qrm \/ \E i \in DOMAIN dbq : c \in dbq[i].rm
  <1> SUFFICES ASSUME c \notin qrm, \A i \in DOMAIN dbq : c \notin dbq[i].rm
               PROVE  FALSE
    OBVIOUS
  <1>1. PICK snap : Snaps(snap)
    BY DEF BaseInv, Chain
  <1>2. PICK n \in Nat : n = Len(dbq)
    BY BaseTypes
  <1>3. /\ DOMAIN dbq = 1 .. n /\ snap \in [0 .. n -> ConfSet] /\ snap[0] = rows
        /\ \A i \in 1 .. n : dbq[i] \in DbUpdate /\ snap[i] = RowsAfter(dbq[i], snap[i - 1])
        /\ saved = Restrict(snap[n], DOMAIN snap[n] \ qrm)
    BY <1>1, <1>2, BaseTypes DEF Snaps
  <1>4. PICK Gone : Gone = {i \in 0 .. n : c \notin DOMAIN snap[i]}
    OBVIOUS
  <1>5. ASSUME Gone # {} PROVE FALSE
    <2>1. PICK i \in Gone : \A j \in Gone : i <= j
      <3>1. Gone \subseteq Nat
        BY <1>4
      <3> QED
        BY <1>5, <3>1, LeastNat
    <2>2. i \in 1 .. n /\ i - 1 \in 0 .. n /\ ~(i <= i - 1)
      BY <1>3, <1>4
    <2>3. c \in DOMAIN snap[i - 1] /\ snap[i - 1] \in ConfSet
      BY <1>3, <1>4, <2>1, <2>2
    <2>4. DOMAIN snap[i] = DOMAIN dbq[i].cf \cup (DOMAIN snap[i - 1] \ dbq[i].rm)
      BY <1>3, <2>2, <2>3, RowsAfterType
    <2> QED
      BY <1>3, <1>4, <2>2, <2>3, <2>4
  <1>6. c \in DOMAIN saved
    <2>1. c \in DOMAIN snap[n]
      BY <1>4, <1>5
    <2> QED
      BY <1>3, <2>1 DEF Restrict
  <1> QED
    BY <1>6 DEF BaseInv, MemTypes

\* What load_conflict relies on, of the tops: a stored conflict has the hash of
\* its top stored with it, in any order of updates, merges, loads and writes,
\* unless a merge has just moved the top (storage.js).
THEOREM TopsStored == Spec => []TopStored
  <1>1. BaseInv /\ DataInv /\ TopInv => TopStored
    <2> SUFFICES ASSUME BaseInv, TopInv, NEW c \in DOMAIN rows
                 PROVE  \/ <<ToC(rows, c, rows[c].top), rows[c].top, "hash">> \in decls
                        \/ Merging(c) \/ TopMoved(c)
                        \/ c \in qrm \/ \E i \in DOMAIN dbq : c \in dbq[i].rm
                        \/ c \in torn
      BY DEF TopStored
    <2>1. Forest(rows)
      BY DEF BaseInv, DbTypes, Loadable
    <2>2. rows[c].top > rows[c].pseq
      BY DEF TopInv, RowsAbove
    <2>3. PICK t \in Seqs : t = rows[c].top
      BY <2>1, <2>2, ConfTops
    <2>4. ToC(rows, c, t) = c
      BY <2>1, <2>2, <2>3, ToCSelf
    <2>5. CASE alive
      BY <2>3, <2>4, <2>5, StoredTop, RemovedQueued
    <2>6. CASE ~alive
      BY <2>3, <2>4, <2>6 DEF TopInv, DeadTops
    <2> QED
      BY <2>5, <2>6
  <1> QED
    BY <1>1, TopsHold, PTL
=============================================================================
