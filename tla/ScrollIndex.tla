---------------------------- MODULE ScrollIndex ----------------------------
(***************************************************************************)
(* The indexes of storage/index.js on a scroll with storage: which         *)
(* declarations have a key, found partly in a tree in memory and partly in *)
(* the database.  A node of the tree says from where to where its key is   *)
(* known to have no other row (dn, up); mem_map says which declarations    *)
(* are loaded, whose rows are in the tree.                                 *)
(*                                                                         *)
(* st is the scroll: hist, the declarations 1 ..; stored, how many are     *)
(* flushed; mem, those loaded; nodes, the trees of all indexes by <<index  *)
(* name, seq>>; err, the exception of the operation, finds, what it has    *)
(* found; missed, whether a search has passed over a row.  Conflict 0 only *)
(* and one operation at a time: the code has no lock around a search.      *)
(***************************************************************************)
EXTENDS BranchNames, MerkleRanges, FiniteSetsExt, SequencesExt, TLC

CONSTANTS Files, Dirs,  \* paths
          Parent        \* the directory a path is listed in

Undef == -2
NoBranch == ""          \* no branch is given; "main" is null in the code

-----------------------------------------------------------------------------
(* Declarations and their branches.                                         *)

Bseq(st, s) == IF s = 0 THEN First ELSE st.hist[s].bseq
TopSeq(st) == Len(st.hist)
Bseqs(st) == [s \in 0 .. TopSeq(st) |-> Bseq(st, s)]

\* get_branch_top: the last declaration of a branch.
BranchTop(st, name) ==
  LET b == IF name = "main" THEN {Main}
           ELSE {st.hist[s].bseq.b : s \in {t \in 1 .. TopSeq(st) :
                                              st.hist[t].branch = name}}
      S == {s \in 0 .. TopSeq(st) : Bseq(st, s).b \in b}
  IN  IF S = {} THEN Undef ELSE Max(S)

\* bseq_get_max_seq.
BseqMaxSeq(st, q) ==
  Max({s \in 0 .. TopSeq(st) : Bseq(st, s).b = q.b /\ Bseq(st, s).i <= q.i})

\* bseq_parent: q and what its branch comes from.
RECURSIVE Lineage(_)
Lineage(q) == <<q>> \o (IF q.b = Main THEN <<>> ELSE Lineage(q.b[1]))

-----------------------------------------------------------------------------
(* What is loaded, and the rows of a declaration.                           *)

\* Mem_map.get_section, is_mem_exists.
SectionStart(mem, s) == Min({t \in mem : t <= s /\ t .. s \subseteq mem})
SectionEnd(mem, s) == Max({t \in mem : t >= s /\ s .. t \subseteq mem})
\* Faulty variant: only the first declaration is looked at.
IsMemFirst(mem, min, max) == min \in mem /\ max = max
IsMem(mem, min, max) == {min} \cup (min .. max - 1) \subseteq mem

\* FS.def_index: the rows <<index name, key>> of a declaration.
Keys(d) ==
  {<<"file", p>> : p \in {d.path} \cap Files}
    \cup {<<"dir", p>> : p \in {d.path} \cap Dirs}
    \cup {<<"dir_list", Parent[p]>> : p \in IF d.op = "mod" THEN {} ELSE {d.path}}
    \cup {<<"csum", v>> : v \in d.csum}

\* Index.on_data of declaration s: a node that knows of itself only.
OnData(st, s) ==
  LET new == {<<k[1], s>> : k \in Keys(st.hist[s])} \ DOMAIN st.nodes
  IN  [st EXCEPT !.mem = @ \cup {s},
                 !.nodes = @ @@ [n \in new |-> [dn |-> s, up |-> s]]]
\* Decl.load of the declarations in S.
Load(st, S) ==
  LET add(s, t) == IF s \in t.mem THEN t ELSE OnData(t, s)
  IN  FoldSet(add, st, S)

-----------------------------------------------------------------------------
(* Index.find_iter.  it is one search of a key in the index of a branch:    *)
(* from and to are its limits, min and max those of the next walk over the  *)
(* tree, which is at pos; lo and hi those of the database cursor, open and  *)
(* at dbpos; prev the last row found, edge and medge how far what surrounds *)
(* the next one is known.                                                   *)

NewSearch(br, t, to) ==
  [br |-> br, name |-> t.name, key |-> t.key, dir |-> t.dir, from |-> t.min,
   to |-> to, min |-> t.min, max |-> to, pos |-> Undef, prev |-> Undef,
   edge |-> Undef, medge |-> Undef, lo |-> 0, hi |-> 0, open |-> FALSE,
   dbpos |-> Undef, flushed |-> FALSE, curr |-> Undef]

Rows(st, it) == {s \in 1 .. TopSeq(st) : /\ st.hist[s].bseq.b = it.br
                                         /\ <<it.name, it.key>> \in Keys(st.hist[s])}
Nodes(st, it) == {s \in Rows(st, it) : <<it.name, s>> \in DOMAIN st.nodes}
Behind(dir) == IF dir = "up" THEN "dn" ELSE "up"
Nearest(dir, S) == IF S = {} THEN Undef ELSE IF dir = "up" THEN Min(S) ELSE Max(S)
Beyond(dir, s, pos) == pos = Undef \/ (IF dir = "up" THEN s > pos ELSE s < pos)

Edge(st, it, s, side) == st.nodes[<<it.name, s>>][side]
SetEdge(st, it, s, side, v) ==
  IF s = Undef THEN st ELSE [st EXCEPT !.nodes[<<it.name, s>>][side] = v]

\* Whether there can be no row between the last one found and node curr.
Covered(st, it, curr) ==
  LET e == Edge(st, it, curr, Behind(it.dir))
      p == IF it.prev = Undef THEN Undef ELSE Edge(st, it, it.prev, it.dir)
  IN  IF it.dir = "up"
      THEN IF p # Undef THEN p >= e - 1 \/ IsMem(st.mem, p + 1, e)
           ELSE e <= it.min \/ IsMem(st.mem, it.min, e + 1)
      ELSE IF p # Undef THEN p <= e + 1 \/ IsMem(st.mem, e, p - 1)
           ELSE e >= it.max \/ IsMem(st.mem, e, it.max + 1)

\* The code asks for one declaration too few between two nodes: a row there.
Skipped(st, it, curr) ==
  /\ it.dir = "dn" /\ it.prev # Undef
  /\ LET s == Edge(st, it, it.prev, "dn") - 1
     IN  s > Edge(st, it, curr, "up") /\ s \notin st.mem
           /\ s \in Rows(st, it) \ Nodes(st, it)

\* iter.curr = prev = curr, and the two nodes know of each other.
Link(st, it, curr) ==
  LET st1 == [st EXCEPT !.missed = @ \/ Skipped(st, it, curr)]
      st2 == IF it.prev = Undef THEN st1
             ELSE SetEdge(SetEdge(st1, it, it.prev, it.dir, curr),
                          it, curr, Behind(it.dir), it.prev)
  IN  [st |-> st2, it |-> [it EXCEPT !.pos = curr, !.prev = curr, !.curr = curr,
                                     !.edge = Undef]]

\* The database is searched in lo .. hi, less the ends that are loaded.
Cut(st, it, lo, hi) ==
  LET hi2 == IF hi \in st.mem THEN SectionStart(st.mem, hi) - 1 ELSE hi
      lo2 == IF lo \in st.mem THEN SectionEnd(st.mem, lo) + 1 ELSE lo
      known == IF it.dir = "up" THEN lo2 - 1 ELSE hi2 + 1
  IN  [st |-> IF (IF it.dir = "up" THEN lo ELSE hi) \in st.mem
              THEN SetEdge(st, it, it.prev, it.dir, known) ELSE st,
       it |-> [it EXCEPT !.lo = lo2, !.hi = hi2, !.open = hi2 >= lo2,
                         !.edge = IF it.dir = "up" THEN lo2 ELSE hi2,
                         !.pos = Undef, !.dbpos = Undef, !.curr = Undef]]
SearchDb(st, it, curr) ==
  IF it.dir = "up"
  THEN Cut(st, [it EXCEPT !.medge = it.min, !.max = it.to,
                          !.min = IF curr = Undef THEN it.to + 1 ELSE curr],
           IF it.prev = Undef THEN it.min ELSE Edge(st, it, it.prev, "up") + 1,
           IF curr = Undef THEN it.max ELSE Edge(st, it, curr, "dn") - 1)
  ELSE Cut(st, [it EXCEPT !.medge = it.max, !.min = it.from,
                          !.max = IF curr = Undef THEN -1 ELSE curr],
           IF curr = Undef THEN it.min ELSE Edge(st, it, curr, "up") + 1,
           IF it.prev = Undef THEN it.max ELSE Edge(st, it, it.prev, "dn") - 1)

\* next_mem_iter.
MemNode(st, it, curr) ==
  IF Covered(st, it, curr) THEN Link(st, it, curr) ELSE SearchDb(st, it, curr)
MemNext(st, it) ==
  LET curr == Nearest(it.dir, {s \in Nodes(st, it) : /\ s \in it.min .. it.max
                                                     /\ Beyond(it.dir, s, it.pos)})
  IN  IF curr = Undef THEN SearchDb(st, it, curr)
      ELSE MemNode(IF it.edge = Undef THEN st
                   ELSE SetEdge(st, it, curr, Behind(it.dir),
                                IF it.prev = Undef THEN it.edge ELSE it.prev),
                   it, curr)

\* next_db_iter: a row, which gets its node, or the end of the range.
DbRow(st, it, s) ==
  LET node == [up |-> s, dn |-> s]
      behind == IF it.prev = Undef THEN it.medge ELSE it.prev
  IN  IF s = Undef
      THEN [st |-> SetEdge(st, it, it.prev, it.dir, IF it.dir = "up" THEN it.max ELSE it.min),
            it |-> [it EXCEPT !.open = FALSE, !.curr = Undef]]
      ELSE IF <<it.name, s>> \in DOMAIN st.nodes       \* avl.insert gives null
      THEN [st |-> [st EXCEPT !.err = "TypeError"], it |-> [it EXCEPT !.curr = Undef]]
      ELSE [st |-> [SetEdge(st, it, it.prev, it.dir, s) EXCEPT
                      !.nodes = (<<it.name, s>> :> [node EXCEPT ![Behind(it.dir)] = behind]) @@ @],
            it |-> [it EXCEPT !.dbpos = s, !.prev = s, !.curr = s]]
DbNext(st, it) ==
  LET stored == IF it.flushed THEN st.stored ELSE TopSeq(st)       \* scroll.flush
  IN  DbRow([st EXCEPT !.stored = stored], [it EXCEPT !.flushed = TRUE],
            Nearest(it.dir, {s \in Rows(st, it) : /\ s \in it.lo .. it.hi
                                                  /\ s <= stored
                                                  /\ Beyond(it.dir, s, it.dbpos)}))

\* The loop of iter.next.
RECURSIVE IndexLoop(_)
IndexLoop(w) ==
  IF \/ w.it.curr # Undef \/ w.st.err # ""
     \/ ~w.it.open /\ w.it.max < w.it.min
  THEN w
  ELSE IndexLoop(IF w.it.open THEN DbNext(w.st, w.it) ELSE MemNext(w.st, w.it))
IndexNext(st, it) ==
  IndexLoop(IF it.open THEN DbNext(st, it) ELSE MemNext(st, it))

-----------------------------------------------------------------------------
(* Index_table.find_iter: t searches the branch of q, then those it comes   *)
(* from, or the other way round; todo are those still to search.            *)

Note(w) ==
  [w EXCEPT !.st.finds = @ \cup
     {[name |-> w.t.name, key |-> w.t.key, dir |-> w.t.dir, q |-> w.t.q,
       min |-> w.t.min, max |-> w.t.max, res |-> w.t.res,
       whole |-> w.t.curr = Undef /\ w.st.err = ""]}]

\* Faulty variant: only the branch of q is searched.
BranchesOwn(q, dir) == IF dir = "dn" THEN <<q>> ELSE Reverse(<<q>>)
Branches(q, dir) == IF dir = "dn" THEN Lineage(q) ELSE Reverse(Lineage(q))

RECURSIVE OpenNext(_, _), Answer(_, _)
Answer(w, t) ==
  IF w.st.err # "" THEN Note([st |-> w.st, t |-> [t EXCEPT !.curr = Undef]])
  ELSE IF w.it.curr # Undef
  THEN Note([st |-> w.st, t |-> [t EXCEPT !.it = w.it, !.on = TRUE, !.curr = w.it.curr,
                                          !.res = Append(@, w.it.curr)]])
  ELSE OpenNext(w.st, [t EXCEPT !.on = FALSE])
OpenNext(st, t) ==
  IF t.todo = <<>> THEN Note([st |-> st, t |-> [t EXCEPT !.curr = Undef]])
  ELSE Answer(IndexNext(st, NewSearch(Head(t.todo).b, t,
                                      Min({BseqMaxSeq(st, Head(t.todo)), t.max}))),
              [t EXCEPT !.todo = Tail(@)])
FindNext(st, t) ==
  IF t.on THEN Answer(IndexNext(st, t.it), t) ELSE OpenNext(st, t)
FindIter(st, name, key, dir, q, min, max) ==
  OpenNext(st, [name |-> name, key |-> key, dir |-> dir, q |-> q, min |-> min,
                max |-> max, todo |-> Branches(q, dir), on |-> FALSE,
                it |-> NewSearch(Main, [name |-> name, key |-> key, dir |-> dir,
                                        min |-> min], max),
                curr |-> Undef, res |-> <<>>])

\* find with a count, from the first row on.
RECURSIVE Find(_, _)
Find(w, count) ==
  IF w.t.curr = Undef \/ Len(w.t.res) = count THEN w
  ELSE Find(FindNext(w.st, w.t), count)
=============================================================================
