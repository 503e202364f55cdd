------------------------------ MODULE ScrollFS ------------------------------
(***************************************************************************)
(* The file system of fs/fs.js on a scroll: a directory, a file and its    *)
(* contents are declarations, on branches, found by the indexes of         *)
(* ScrollIndex.  One operation is one step, whatever it declares; a crash  *)
(* keeps some first part of what was declared, so that it may come between *)
(* any two declarations of an operation.                                   *)
(***************************************************************************)
EXTENDS ScrollIndex

CONSTANTS Close,     \* <<from, to>>: contents whose difference is short
          Restarts,  \* bound: restarts
          Worlds     \* [ops, csum, max]: the operations callers use, whether
                     \* the scroll has csum_sha256, and the bound of hist

NoVal == ""          \* no content is given

VARIABLES world,     \* chosen once
          st,        \* the scroll, see ScrollIndex
          last,      \* the operation done last, and its answer
          restarts
vars == <<world, st, last, restarts>>

Fail(s, what) == [s EXCEPT !.err = what]
Newest(s) == Bseq(s, TopSeq(s))
Live(s, seq) == seq # Undef /\ s.hist[seq].op \in {"add", "mod"}

-----------------------------------------------------------------------------
(* A declaration.                                                           *)

\* FS.parse_opt.
ParseOpt(s, br) ==
  LET top == IF br = NoBranch THEN Undef ELSE BranchTop(s, br)
  IN  IF top = Undef THEN [branch |-> br, prev |-> Undef]
      ELSE [branch |-> NoBranch, prev |-> top]

\* file_exists, dir_exists: where they look, [q, max].
At0(s, seq) == [q |-> Bseq(s, seq), max |-> seq]
ViewOf(s, p) ==
  IF p.prev # Undef THEN At0(s, p.prev)
  ELSE LET top == BranchTop(s, IF p.branch = NoBranch THEN "main" ELSE p.branch)
       IN  At0(s, IF top = Undef THEN TopSeq(s) ELSE top)
View(s, br) == ViewOf(s, ParseOpt(s, br))

\* Scroll.decl: what it loads, and the number it gives.
Loaded(s, base) ==
  {base, TopSeq(s)} \cup ({r[2] : r \in Range(CalcRoots(TopSeq(s) + 2))} \cap 0 .. TopSeq(s))
NextBseqOf(s, branch, base) ==
  IF branch = NoBranch THEN BseqInc(Bseq(s, base))
  ELSE FindAvailBranch(Bseqs(s), Bseq(s, base))
Append1(s, p, base, d) ==
  OnData([s EXCEPT !.hist = Append(@, d @@ [bseq |-> NextBseqOf(s, p.branch, base),
                                            branch |-> p.branch])],
         TopSeq(s) + 1)
DeclAt(s, p, base, d) == Append1(Load(s, Loaded(s, base)), p, base, d)
Decl(s, p, d) == DeclAt(s, p, IF p.prev > 0 THEN p.prev ELSE TopSeq(s), d)

\* What is declared, with what the caller wrote (val) and the branch it asked
\* for (want): main if it did not say, which is where file_exists looks.
Body(op, path, br) ==
  [op |-> op, path |-> path, want |-> IF br = NoBranch THEN "main" ELSE br,
   val |-> NoVal, csum |-> {}, body |-> "none", link |-> Undef]
Written(op, o, csum) ==
  [Body(op, o.path, o.br) EXCEPT
     !.val = o.val, !.csum = IF csum /\ o.val # NoVal THEN {o.val} ELSE {}]

-----------------------------------------------------------------------------
(* Contents.                                                                *)

\* resolve_buf: the declarations it loads, and what it puts together.
RECURSIVE Needs(_, _), Content(_, _)
Needs(s, seq) ==
  {seq} \cup (IF s.hist[seq].body = "content" \/ s.hist[seq].link = Undef THEN {}
              ELSE Needs(s, s.hist[seq].link))
Content(s, seq) ==
  LET d == s.hist[seq]
  IN  IF d.body = "content" THEN d.val
      ELSE IF d.link = Undef THEN NoVal
      ELSE IF d.body = "none" THEN Content(s, d.link)
      ELSE IF Content(s, d.link) = d.from THEN d.val ELSE "broken"

FindOne(s, name, key, dir, v) ==
  Find(FindIter(s, name, key, dir, v.q, 0, v.max), 1)

\* Faulty variant: the difference is from the contents of the branch, but the
\* link is to the newest declaration.
DifferNewest(s, p, d, base) ==
  IF <<Content(s, base), d.val>> \in Close
  THEN Decl(s, p, [d EXCEPT !.link = TopSeq(s), !.body = "diff"] @@ [from |-> Content(s, base)])
  ELSE Decl(s, p, [d EXCEPT !.body = "content"])
\* mod_file: the same contents, the difference from them, or the contents.
Differ(s, p, d, base) ==
  LET old == Content(s, base)
  IN  IF old = d.val THEN Decl(s, p, [d EXCEPT !.link = base])
      ELSE IF <<old, d.val>> \in Close
      THEN Decl(s, p, [d EXCEPT !.link = base, !.body = "diff"] @@ [from |-> old])
      ELSE Decl(s, p, [d EXCEPT !.body = "content"])
ModBase(w, p, d) ==
  IF w.st.err # "" THEN w.st
  ELSE IF w.t.curr = Undef THEN Fail(w.st, "file not found")
  ELSE IF d.val = NoVal THEN Decl(w.st, p, d)
  ELSE Differ(Load(w.st, Needs(w.st, w.t.curr)), p, d, w.t.curr)

\* The declaration that has the same contents, or else the contents.
Linked(w, p, d) ==
  IF w.st.err # "" THEN w.st
  ELSE IF w.t.curr # Undef THEN Decl(w.st, p, [d EXCEPT !.link = w.t.curr])
  ELSE IF d.op = "add" THEN Decl(w.st, p, [d EXCEPT !.body = "content"])
  ELSE ModBase(FindOne(w.st, "file", d.path, "dn",
                       [q |-> IF p.prev >= 0 THEN Bseq(w.st, p.prev) ELSE Newest(w.st),
                        max |-> TopSeq(w.st)]), p, d)
Store(s, p, d) ==
  IF d.op = "add" /\ d.val = NoVal THEN Decl(s, p, d)
  ELSE Linked(IF d.csum = {} THEN [st |-> s, t |-> [curr |-> Undef]]
              ELSE FindOne(s, "csum", d.val, "up",
                           [q |-> Newest(s), max |-> TopSeq(s)]), p, d)

-----------------------------------------------------------------------------
(* The operations: from the scroll to the scroll.                           *)

Index(path) == IF path \in Files THEN "file" ELSE "dir"
Exists(s, path, v) == FindOne(s, Index(path), path, "dn", v)

\* add_dir, add_file, mod_file.
Write(w, op, o, p) ==
  IF w.st.err # "" THEN w.st
  ELSE IF Live(w.st, w.t.curr) # (op = "mod")
  THEN Fail(w.st, IF op = "mod" THEN "file not found" ELSE "exists")
  ELSE IF o.path \in Dirs THEN Decl(w.st, p, Body(op, o.path, o.br))
  ELSE Store(w.st, p, Written(op, o, world.csum))
WriteOp(s, op, o) ==
  Write(Exists(s, o.path, View(s, o.br)), op, o, ParseOpt(s, o.br))

\* rm_file; _rm_dir, which looks for nothing.
RmDecl(s, path, br, want) == Decl(s, ParseOpt(s, br), Body("rm", path, want))
RmFound(w, path, br, want) ==
  IF w.st.err # "" THEN w.st
  ELSE IF ~Live(w.st, w.t.curr) THEN Fail(w.st, "file not found")
  ELSE RmDecl(w.st, path, br, want)
RmFile(s, path, br, want) == RmFound(Exists(s, path, View(s, br)), path, br, want)

\* ls_iter: rows from the newest one on; the first of each path counts.  It
\* asks for the row after the one it gives.
RECURSIVE LsNext(_, _)
LsAhead(w, l, path) ==
  [st |-> w.st, l |-> [l EXCEPT !.t = w.t, !.curr = path, !.done = @ \cup {path}]]
LsSkip(w, l, path) == LsNext(w.st, [l EXCEPT !.t = w.t, !.done = @ \cup {path}])
LsRow(s, l, d) ==
  IF d.path \in l.done \/ d.op = "rm" THEN LsSkip(FindNext(s, l.t), l, d.path)
  ELSE LsAhead(FindNext(s, l.t), l, d.path)
LsNext(s, l) ==
  IF l.t.curr = Undef THEN [st |-> s, l |-> [l EXCEPT !.curr = ""]]
  ELSE LsRow(s, l, s.hist[l.t.curr])
LsOpen(w) == LsNext(w.st, [t |-> w.t, done |-> {}, curr |-> ""])
LsIter(s, dir, v) == LsOpen(FindIter(s, "dir_list", dir, "dn", v.q, 0, v.max))

\* test_ls: the paths below a directory.
RECURSIVE LsEach(_, _, _)
LsEach(w, v, out) ==
  IF w.l.curr = "" THEN [st |-> w.st, out |-> out]
  ELSE LET below == IF w.l.curr \in Files THEN [st |-> w.st, out |-> out]
                    ELSE LsEach(LsIter(w.st, w.l.curr, v), v, out)
       IN  LsEach(LsNext(below.st, w.l), v, below.out \cup {w.l.curr})

\* ls_foreach with rm_dir_cb.  Removing takes several turns of the event
\* loop, which end the transaction of a cursor that is still open.
RECURSIVE RmEach(_, _, _)
RmNext(s, l, v, want) ==
  IF s.err # "" THEN s
  ELSE IF l.t.curr # Undef /\ l.t.on /\ l.t.it.open THEN Fail(s, "transaction over")
  ELSE RmEach(LsNext(s, l), v, want)
RmDirOf(s, dir, br, want) ==
  IF s.err # "" THEN s ELSE RmDecl(s, dir, br, want)
RmEach(w, v, want) ==
  IF w.l.curr = "" \/ w.st.err # "" THEN w.st
  ELSE RmNext(IF w.l.curr \in Files THEN RmFile(w.st, w.l.curr, NoBranch, want)
              ELSE RmDirOf(RmEach(LsIter(w.st, w.l.curr, v), v, want),
                           w.l.curr, NoBranch, want),
              w.l, v, want)
\* Faulty variant: the directory is removed before what is in it.
RmRestFirst(w, dir, br, v) ==
  RmEach([w EXCEPT !.st = RmDirOf(@, dir, br, br)], v, br)
\* The options are used for the directory only if nothing is in it.
RmRest(w, dir, br, v) ==
  RmDirOf(RmEach(w, v, br), dir, IF w.l.curr = "" THEN br ELSE NoBranch, br)
RmListed(s, dir, br, prev) ==
  LET v == [q |-> Bseq(s, Max({t \in 0 .. TopSeq(s) : Bseq(s, t).b = Bseq(s, prev).b})),
            max |-> prev]
  IN  RmRest(LsIter(s, dir, v), dir, br, v)
RmDir(s, dir, br) ==
  LET w == Exists(s, dir, View(s, br))
      prev == ParseOpt(s, br).prev
  IN  IF w.st.err # "" THEN w.st
      ELSE IF ~Live(w.st, w.t.curr) THEN Fail(w.st, "dir not found")
      ELSE RmListed(w.st, dir, br, IF prev > 0 THEN prev ELSE TopSeq(s))

-----------------------------------------------------------------------------
(* A scroll that was created, and the callers, one at a time.               *)

Init ==
  /\ world \in Worlds
  /\ st = [hist |-> <<>>, stored |-> 0, mem |-> {0}, nodes |-> <<>>, err |-> "",
           finds |-> {}, missed |-> FALSE]
  /\ last = [do |-> "create", path |-> "", at |-> Undef, out |-> {}]
  /\ restarts = 0

Start == [st EXCEPT !.finds = {}, !.err = ""]
Done(s, o, at, out) ==
  /\ st' = s
  /\ last' = [do |-> o.do, path |-> o.path, at |-> at, out |-> out]
  /\ UNCHANGED <<world, restarts>>
\* A search that passes over a row is where a run ends.
Asked(do) == {o \in world.ops : o.do = do /\ ~st.missed}
Writes(do) == {o \in Asked(do) : TopSeq(st) < world.max}

AddDir == \E o \in Writes("add_dir") : Done(WriteOp(Start, "add", o), o, Undef, {})
AddFile == \E o \in Writes("add_file") : Done(WriteOp(Start, "add", o), o, Undef, {})
ModFile == \E o \in Writes("mod_file") : Done(WriteOp(Start, "mod", o), o, Undef, {})
DoRmFile == \E o \in Writes("rm_file") : Done(RmFile(Start, o.path, o.br, o.br), o, Undef, {})
DoRmDir == \E o \in Writes("rm_dir") : Done(RmDir(Start, o.path, o.br), o, Undef, {})

\* get_file of a branch.
GetFound(w, o, top) ==
  IF w.st.err # "" THEN Done(w.st, o, Undef, {})
  ELSE IF w.t.curr = Undef THEN Done(w.st, o, top, {NoVal})
  ELSE Done(Load(w.st, Needs(w.st, w.t.curr)), o, top, {Content(w.st, w.t.curr)})
GetFile ==
  \E o \in Asked("get") :
    LET top == BranchTop(st, o.br)
    IN  /\ top # Undef
        /\ GetFound(FindOne(Start, "file", o.path, "dn", At0(st, top)), o, top)

LsDone(w, o, top) == Done(w.st, o, IF w.st.err = "" THEN top ELSE Undef, w.out)
Ls ==
  \E o \in Asked("ls") :
    LET top == BranchTop(st, o.br)
    IN  /\ top # Undef
        /\ LsDone(LsEach(LsIter(Start, o.path, At0(st, top)), At0(st, top), {}), o, top)

\* Scroll.find of all rows of a file, seen from the newest declaration.
FindRows ==
  \E o \in Asked("find"), r \in {<<0, 0>>, <<2, 0>>, <<0, 1>>} :
    /\ TopSeq(st) >= r[2]
    /\ Done(Find(FindIter(Start, "file", o.path, o.dir, Newest(st), r[1],
                          TopSeq(st) - r[2]), 0).st, o, Undef, {})

\* Anyone may load a declaration.
LoadDecl ==
  /\ ~st.missed
  /\ \E s \in 1 .. TopSeq(st) \ st.mem :
       Done(Load(Start, {s}), [do |-> "load", path |-> ""], Undef, {})

\* The transactions are in the order of the declarations.
Restart ==
  /\ restarts < Restarts /\ ~st.missed
  /\ restarts' = restarts + 1
  /\ \E n \in st.stored .. TopSeq(st) :
       st' = [Start EXCEPT !.hist = SubSeq(@, 1, n), !.stored = n, !.mem = {0},
                           !.nodes = <<>>]
  /\ last' = [do |-> "open", path |-> "", at |-> Undef, out |-> {}]
  /\ UNCHANGED world

Next ==
  \/ AddDir \/ AddFile \/ ModFile \/ DoRmFile \/ DoRmDir
  \/ GetFile \/ Ls \/ FindRows \/ LoadDecl \/ Restart
Spec == Init /\ [][Next]_vars

-----------------------------------------------------------------------------
(* What the declarations say, from one to the one its number follows.       *)

SeqNumbered(q) == CHOOSE s \in 0 .. TopSeq(st) : Bseq(st, s) = q
Before(s) ==
  LET q == Bseq(st, s) IN SeqNumbered(IF q.i = 0 THEN q.b[1] ELSE [q EXCEPT !.i = @ - 1])
RECURSIVE History(_)
History(s) == IF s = 0 THEN {} ELSE {s} \cup History(Before(s))
LastOn(s, path) == Max({0} \cup {t \in History(s) : st.hist[t].path = path})
Present(s, path) == LastOn(s, path) # 0 /\ Live(st, LastOn(s, path))
Value(s, path) == IF Present(s, path) THEN st.hist[LastOn(s, path)].val ELSE NoVal
RECURSIVE Below(_, _)
Below(s, dir) ==
  LET here == {p \in Files \cup Dirs : Parent[p] = dir /\ Present(s, p)}
  IN  here \cup UNION {Below(s, p) : p \in here \cap Dirs}

\* bseq_to_branch.  A declaration is on the branch its caller asked for: one
\* without a branch may not be, and those of rm_dir on a branch.
BranchName(b) ==
  IF b = Main THEN "main" ELSE st.hist[SeqNumbered([b |-> b, i |-> 0])].branch
Straight(s) == st.hist[s].want = BranchName(st.hist[s].bseq.b)

FindRight(f) ==
  LET rows == {s \in History(SeqNumbered(f.q)) : s \in f.min .. f.max
                 /\ <<f.name, f.key>> \in Keys(st.hist[s])}
      got == Range(f.res)
  IN  /\ \A i \in 2 .. Len(f.res) : Beyond(f.dir, f.res[i], f.res[i - 1])
      /\ got \subseteq rows
      /\ \A s \in rows \ got : ~f.whole /\ \A g \in got : Beyond(f.dir, s, g)

(* A search gives the rows of its key that can be seen from where it looks, *)
(* each once and in order, whatever is loaded and was searched before (find *)
(* of storage/index.js); but for the search that passes over the            *)
(* declaration below the last row found (index.js:262).                     *)
FindsRight == st.missed \/ \A f \in st.finds : FindRight(f)

(* Between dn and up of a node there is no row of its key that the tree     *)
(* does not have: what later searches do not ask the database for.          *)
EdgesRight ==
  \A n \in DOMAIN st.nodes, r \in 1 .. TopSeq(st) :
    st.missed \/ <<n[1], r>> \in DOMAIN st.nodes
      \/ st.hist[r].bseq.b # st.hist[n[2]].bseq.b
      \/ r \notin st.nodes[n].dn .. st.nodes[n].up
      \/ \A k \in Keys(st.hist[r]) \cap Keys(st.hist[n[2]]) : k[1] # n[1]

(* On the branch it was asked for, an operation adds a path that is not     *)
(* there and changes or removes one that is, and a directory that was       *)
(* removed has nothing in it, also after a crash in the middle of rm_dir.   *)
FileTreeRight ==
  \A s \in {t \in 1 .. TopSeq(st) : Straight(t) /\ ~st.missed} :
    LET h == st.hist[s] IN
    /\ Present(Before(s), h.path) <=> h.op # "add"
    /\ h.op = "rm" => \A p \in Files \cup Dirs : Parent[p] = h.path => ~Present(s, p)

(* get_file gives what was written last on the branch, through links to the *)
(* same contents and differences, and ls what is there.                     *)
ReadsRight ==
  last.at = Undef \/ st.missed \/
    last.out = IF last.do = "get" THEN {Value(last.at, last.path)}
               ELSE Below(last.at, last.path)
=============================================================================
