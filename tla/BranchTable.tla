---------------------------- MODULE BranchTable ----------------------------
(***************************************************************************)
(* The branch table of a conflict (storage/branch.js): which declarations  *)
(* are known, as sections of consecutive numbers of one branch, and its    *)
(* rows in the database (storage/storage.js).  Declarations arrive in any  *)
(* order, from put or from the database, and Branch_table.add merges their *)
(* sections; each change is scheduled, and goes to the database with the   *)
(* first update in which the top of the conflict moved.                    *)
(***************************************************************************)
EXTENDS Integers, Sequences, FiniteSets

CONSTANTS N,           \* last declaration of the scroll
          Branch,      \* the branches
          Histories,   \* the numberings a scroll may have
          MaxQueue,    \* bound: updates waiting for the updater
          MaxRestarts  \* bound: exits of the process

Seqs == 0 .. N
Bseq == [b : Branch, i : Nat]

\* Two neighbours of one branch follow each other in it.
HistoryAssumption ==
  \A h \in Histories :
     /\ h \in [Seqs -> Bseq]
     /\ \A s \in Seqs : (s > 0 /\ h[s].b = h[s - 1].b) => h[s].i = h[s - 1].i + 1

ASSUME BranchTableAssumption ==
  N \in Nat /\ MaxQueue \in Nat /\ MaxRestarts \in Nat /\ HistoryAssumption

VARIABLES
  bseq,     \* the numbers of the scroll's declarations
  known,    \* the declarations added to the table
  table,    \* Branch_table.avl: sections [seq, bseq, size]
  tops,     \* Branch_table.bseqb_top
  queue,    \* Branch_table.storage_queue
  top,      \* top of the conflict, or -1
  saved,    \* the top in o.db.data, or -1
  qdecl,    \* declarations queued in this update
  dbq,      \* updates waiting for the updater
  rows,     \* object store branch
  rowTop,   \* the top in object store scroll, or -1
  stored,   \* object store decl
  flushed,  \* history: the table when queue was last taken
  restarts  \* exits of the process so far

memVars == <<known, table, tops, queue, top>>
dbVars == <<rows, rowTop, stored>>
vars == <<bseq, memVars, saved, qdecl, dbq, dbVars, flushed, restarts>>

Section == [seq : Seqs, bseq : Bseq, size : Nat \ {0}]

Has(o, s) == o.seq <= s /\ s < o.seq + o.size
Covers(secs, s) == \E o \in secs : Has(o, s)

\* The neighbours of s in its branch: get_bo(s - 1), get_bo(s + 1).
Prev(s) == {o \in table : Has(o, s - 1) /\ o.bseq.b = bseq[s].b}
Succ(s) == {o \in table : Has(o, s + 1) /\ o.bseq.b = bseq[s].b}

NoQueue == [mod |-> {}, rm |-> {}]

\* The table of a new conflict 0 has declaration 0.
FirstSection(h) == [seq |-> 0, bseq |-> h[0], size |-> 1]

\* row_from_static for each row.
TopsOf(secs) ==
  [b \in Branch |->
     LET ends == {o.seq + o.size - 1 : o \in {p \in secs : p.bseq.b = b}}
     IN  IF ends = {} THEN -1 ELSE CHOOSE e \in ends : \A f \in ends : f <= e]

EmptyScroll(h) ==
  /\ known' = {0} /\ table' = {FirstSection(h)}
  /\ tops' = TopsOf({FirstSection(h)})
  /\ queue' = [mod |-> {0}, rm |-> {}] /\ flushed' = {}
  /\ top' = -1 /\ saved' = -1

Init ==
  /\ bseq \in Histories
  /\ known = {0} /\ table = {FirstSection(bseq)}
  /\ tops = TopsOf({FirstSection(bseq)})
  /\ queue = [mod |-> {0}, rm |-> {}] /\ flushed = {}
  /\ top = -1 /\ saved = -1 /\ qdecl = {} /\ dbq = <<>>
  /\ rows = {} /\ rowTop = -1 /\ stored = {} /\ restarts = 0

-----------------------------------------------------------------------------
(* Branch_table.add.                                                       *)

\* _schedule_mod and _schedule_rm.
Schedule(mod, rm) ==
  queue' = [mod |-> (queue.mod \ rm) \cup mod, rm |-> (queue.rm \ mod) \cup rm]

UpdateTop(s) ==
  tops' = [tops EXCEPT ![bseq[s].b] = IF @ >= s THEN @ ELSE s]

\* _merge: the section that s joins swallows its successor too.
Extend(s, o) ==
  /\ Succ(s) = {}
  /\ table' = (table \ {o}) \cup {[o EXCEPT !.size = @ + 1]}
  /\ Schedule({o.seq}, {})

Join(s, o) ==
  \E n \in Succ(s) :
     /\ table' = (table \ {o, n}) \cup {[o EXCEPT !.size = @ + 1 + n.size]}
     /\ Schedule({o.seq}, {n.seq})

\* Faulty variant: the successor is not looked for.
AddToPrevOnly(s) ==
  \E o \in Prev(s) :
     /\ table' = (table \ {o}) \cup {[o EXCEPT !.size = @ + 1]}
     /\ Schedule({o.seq}, {})
     /\ UpdateTop(s)

AddToPrev(s) ==
  \E o \in Prev(s) :
     /\ Extend(s, o) \/ Join(s, o)
     /\ UpdateTop(s)

\* Faulty variant: the section moves and keeps the bseq of its old start.
AddToNextKeepsBseq(s) ==
  /\ Prev(s) = {}
  /\ \E n \in Succ(s) :
       /\ table' = (table \ {n}) \cup {[n EXCEPT !.seq = s, !.size = @ + 1]}
       /\ Schedule({s}, {n.seq})
  /\ UNCHANGED tops

\* The successor is moved to begin at s; the top of the branch is above.
AddToNext(s) ==
  /\ Prev(s) = {}
  /\ \E n \in Succ(s) :
       /\ table' = (table \ {n})
                     \cup {[seq |-> s, bseq |-> bseq[s], size |-> n.size + 1]}
       /\ Schedule({s}, {n.seq})
  /\ UNCHANGED tops

\* Faulty variant: the top of the branch is left as it is.
AddSectionNoTop(s) ==
  /\ Prev(s) = {} /\ Succ(s) = {}
  /\ table' = table \cup {[seq |-> s, bseq |-> bseq[s], size |-> 1]}
  /\ Schedule({s}, {})
  /\ UNCHANGED tops

AddSection(s) ==
  /\ Prev(s) = {} /\ Succ(s) = {}
  /\ table' = table \cup {[seq |-> s, bseq |-> bseq[s], size |-> 1]}
  /\ Schedule({s}, {})
  /\ UpdateTop(s)

Add(s) ==
  /\ known' = known \cup {s}
  /\ \/ Covers(table, s) /\ UNCHANGED <<table, tops, queue>>
     \/ ~Covers(table, s) /\ (AddToPrev(s) \/ AddToNext(s) \/ AddSection(s))

-----------------------------------------------------------------------------
(* Where declarations come from.                                           *)

\* put of the frames of s: declaration 0 first, then any.
Put(s) ==
  /\ s \notin stored \cup qdecl
  /\ \A i \in DOMAIN dbq : s \notin dbq[i].decl
  /\ top = -1 => s = 0
  /\ Add(s)
  /\ top' = IF top >= s THEN top ELSE s
  /\ qdecl' = qdecl \cup {s}
  /\ UNCHANGED <<bseq, saved, dbq, dbVars, flushed, restarts>>

\* Decl.load of a stored declaration, after a restart.
Load(s) ==
  /\ s \in stored \ known
  /\ Add(s)
  /\ UNCHANGED <<bseq, top, saved, qdecl, dbq, dbVars, flushed, restarts>>

-----------------------------------------------------------------------------
(* Storage.                                                                *)

\* The sections scheduled for writing: get_bo of each number in queue.mod.
ModRows == {o \in table : \E s \in queue.mod : Has(o, s)}

\* The update that end_update gathers.
Gathered(mod, rm, snap) ==
  [top |-> top, mod |-> mod, rm |-> rm, decl |-> qdecl, snap |-> snap]

\* Faulty variant: the schedule is dropped if the top did not move.
TakeQueueAlways ==
  /\ dbq' = Append(dbq, IF saved = top THEN Gathered({}, {}, table)
                        ELSE Gathered(ModRows, queue.rm, table))
  /\ queue' = NoQueue /\ flushed' = table

\* end_update skips the branch table of a conflict whose row did not change.
TakeQueue ==
  \/ /\ saved = top
     /\ dbq' = Append(dbq, Gathered({}, {}, flushed))
     /\ UNCHANGED <<queue, flushed>>
  \/ /\ saved # top
     /\ dbq' = Append(dbq, Gathered(ModRows, queue.rm, table))
     /\ queue' = NoQueue /\ flushed' = table

EndUpdate ==
  /\ top # -1 /\ Len(dbq) < MaxQueue
  /\ TakeQueue
  /\ saved' = top
  /\ qdecl' = {}
  /\ UNCHANGED <<bseq, known, table, tops, top, dbVars, restarts>>

\* The rows once update u is written.
Written(r, u) ==
  {o \in r : o.seq \notin u.rm /\ \A m \in u.mod : m.seq # o.seq} \cup u.mod

\* One transaction of the updater.
Commit ==
  /\ dbq # <<>>
  /\ rows' = Written(rows, Head(dbq))
  /\ rowTop' = Head(dbq).top
  /\ stored' = stored \cup Head(dbq).decl
  /\ dbq' = Tail(dbq)
  /\ UNCHANGED <<bseq, memVars, saved, qdecl, flushed, restarts>>

\* The process exits at any point; load_conflict and load_branch rebuild.
Restart ==
  /\ restarts < MaxRestarts
  /\ restarts' = restarts + 1
  /\ qdecl' = {} /\ dbq' = <<>>
  /\ \/ rowTop = -1 /\ EmptyScroll(bseq)
     \/ /\ rowTop # -1
        /\ known' = {s \in Seqs : Covers(rows, s)}
        /\ table' = rows /\ tops' = TopsOf(rows)
        /\ queue' = NoQueue /\ flushed' = rows
        /\ top' = rowTop /\ saved' = rowTop
  /\ UNCHANGED <<bseq, dbVars>>

Next ==
  \/ \E s \in Seqs : Put(s)
  \/ \E s \in Seqs : Load(s)
  \/ EndUpdate \/ Commit \/ Restart

Spec == Init /\ [][Next]_vars

-----------------------------------------------------------------------------
Update == [top : Seqs, mod : SUBSET Section, rm : SUBSET Seqs,
           decl : SUBSET Seqs, snap : SUBSET Section]

\* Type invariant.
TypeOK ==
  /\ bseq \in Histories
  /\ known \subseteq Seqs /\ table \subseteq Section
  /\ tops \in [Branch -> Seqs \cup {-1}]
  /\ queue \in [mod : SUBSET Seqs, rm : SUBSET Seqs]
  /\ top \in Seqs \cup {-1} /\ saved \in Seqs \cup {-1}
  /\ qdecl \subseteq Seqs /\ dbq \in Seq(Update)
  /\ rows \subseteq Section /\ rowTop \in Seqs \cup {-1}
  /\ stored \subseteq Seqs /\ flushed \subseteq Section
  /\ restarts \in Nat

\* Sections that partition the numbers they cover into longest runs of one
\* branch, each with the bseq of its first number.
Sound(secs) ==
  \A o \in secs :
     /\ o.seq + o.size - 1 <= N
     /\ o.bseq = bseq[o.seq]
     /\ \A s \in Seqs : Has(o, s) => bseq[s].b = o.bseq.b
Disjoint(secs) == \A o, p \in secs : \A s \in Seqs : Has(o, s) /\ Has(p, s) => o = p
Maximal(secs) ==
  \A o, p \in secs : o.seq + o.size = p.seq => o.bseq.b # p.bseq.b
Runs(secs) == Sound(secs) /\ Disjoint(secs) /\ Maximal(secs)

\* Whatever the order in which declarations are added, and across restarts,
\* the table holds the longest runs of the declarations added, and no other.
SectionsAreRuns ==
  /\ Runs(table)
  /\ \A s \in Seqs : Covers(table, s) <=> s \in known

\* get_bseq, and so the order of branches, tells every known declaration its
\* own number, however the sections were merged.
Exact(secs) ==
  \A o \in secs : \A s \in Seqs :
     Has(o, s) => bseq[s] = [b |-> o.bseq.b, i |-> o.bseq.i + s - o.seq]
LookupRight == Exact(table)

\* The assertions of add and _merge hold for whatever may come next.
AddAsserts ==
  \A s \in Seqs : ~Covers(table, s) =>
     /\ \A o \in Prev(s) : o.seq + o.size = s
     /\ \A n \in Succ(s) : n.seq = s + 1
     /\ \A o \in Prev(s), n \in Succ(s) :
          o.bseq.i + o.size + 1 = n.bseq.i

\* get_bseq_top: the last known declaration of each branch.
TopsRight ==
  /\ TypeOK
  /\ \A b \in Branch :
       LET mine == {s \in known : bseq[s].b = b}
       IN  IF mine = {} THEN tops[b] = -1
           ELSE tops[b] \in mine /\ \A s \in mine : s <= tops[b]

\* The rows, the updates waiting and the schedule add up to the table: each
\* waiting update leads to the table of its time, and what is scheduled leads
\* from the last of these to the table of now.
Chain ==
  \A i \in DOMAIN dbq :
     Written(IF i = 1 THEN rows ELSE dbq[i - 1].snap, dbq[i]) = dbq[i].snap
LastSnap == IF dbq = <<>> THEN rows ELSE dbq[Len(dbq)].snap
RowsFollow ==
  /\ Chain
  /\ LastSnap = flushed
  /\ Written(flushed, [mod |-> ModRows, rm |-> queue.rm]) = table
=============================================================================
