------------------------------ MODULE GitSync ------------------------------
(***************************************************************************)
(* Git.sync of fs/git.js: a git repository is copied to a scroll.  A       *)
(* commit is a declaration that follows those of the files it changes; a   *)
(* branch of git is the branch of the scroll that its last git_br          *)
(* declaration is on, and what follows it there.                           *)
(*                                                                         *)
(* One step of a sync is one turn of a loop of the code, whatever it       *)
(* declares.  An exit keeps any first part of the declarations.  The       *)
(* repository is external: it is read once, when a sync begins.  Searches  *)
(* are what ScrollIndex promises of them; what was stored before a restart *)
(* may be in the database only, and is then read with a cursor.            *)
(***************************************************************************)
EXTENDS BranchNames, FiniteSetsExt, SequencesExt, TLC

CONSTANTS Commits,   \* commit -> [parents, tree]: a tree is file -> contents
          Paths,     \* files and directories, in the order of git
          Parent,    \* the directory a path is listed in
          Branches,  \* names of branches in git, in order
          Worlds     \* [repos, opts, grows, goes, head, syncs, restarts]

None == ""
CursorEnded == "transaction over"
NoName == <<>>
Null(n) == "_null" \o ToString(n)  \* a branch of what was merged only
Nulls == [n \in 1 .. Cardinality(DOMAIN Commits) |-> Null(n)]

VARIABLES world,     \* chosen once
          git,       \* the repository as last read: [br, tags, head]
          hist,      \* the declarations 1 ..
          job,       \* the sync that runs, or how the last one ended
          astray,    \* a commit looked or declared beside its branch
          stored,    \* the declarations that were there at the last restart
          syncs, restarts
vars == <<world, git, hist, job, astray, stored, syncs, restarts>>

-----------------------------------------------------------------------------
(* The repository.                                                          *)

RECURSIVE Chain(_), Ancestors(_), Above(_)
\* The commits of _get_git: from the root, by first parents.
Chain(c) ==
  LET p == Commits[c].parents IN IF p = <<>> THEN <<c>> ELSE Append(Chain(p[1]), c)
\* map of _get_git.
Ancestors(c) == {c} \cup UNION {Ancestors(p) : p \in Range(Commits[c].parents)}
FirstParent(c) == IF Commits[c].parents = <<>> THEN None ELSE Commits[c].parents[1]
Merged(c) == Range(Commits[c].parents) \ {FirstParent(c)}

Above(p) == IF Parent[p] = None THEN {} ELSE {Parent[p]} \cup Above(Parent[p])
IsDir(p) == \E q \in Range(Paths) : Parent[q] = p
\* What readTree gives, with all that is below.
TreePaths(c) == UNION {{f} \cup Above(f) : f \in DOMAIN Commits[c].tree} \cup {"/"}

\* Branches of git with the head first.
InOrder(g) ==
  SelectSeq(Branches, LAMBDA b : b \in DOMAIN g.br /\ b = g.head)
    \o SelectSeq(Branches, LAMBDA b : b \in DOMAIN g.br /\ b # g.head)

-----------------------------------------------------------------------------
(* Declarations.                                                            *)

Bseq(h, s) == IF s = 0 THEN First ELSE h[s].bseq
Top(h, b) == Max({s \in 0 .. Len(h) : Bseq(h, s).b = b})

\* Scroll.decl after prev, or after the newest declaration if it is 0; with a
\* name, on a new branch.
Decl(h, prev, d) ==
  LET base == IF prev = 0 THEN Len(h) ELSE prev
      all == [s \in 0 .. Len(h) |-> Bseq(h, s)]
  IN  Append(h, d @@ [before |-> base,
                      bseq |-> IF d.name = NoName THEN BseqInc(all[base])
                               ELSE FindAvailBranch(all, all[base])])
Body(type, op, key, oid) == [type |-> type, op |-> op, key |-> key, oid |-> oid, name |-> NoName]

\* What a declaration with number q sees: its branch up to q, and what that
\* comes from.
RECURSIVE Visible(_, _)
Visible(h, q) ==
  {s \in 1 .. Len(h) : h[s].bseq.b = q.b /\ h[s].bseq.i <= q.i}
    \cup IF q.b = Main THEN {} ELSE Visible(h, q.b[1])

\* All rows of an index, and the newest.
Rows(h, type, key) == {s \in 1 .. Len(h) : h[s].type = type /\ h[s].key = key}
Newest(S) == Max({0} \cup S)
LiveRow(h, type, key) ==
  LET s == Newest(Rows(h, type, key)) IN IF s = 0 \/ h[s].op = "rm" THEN 0 ELSE s
\* git_br_had_value, git_tag_had_value.
Had(h, type, key, oid) == \E s \in Rows(h, type, key) : h[s].oid = oid
\* commit_git_oid of a branch, and the oldest of all branches.
CommitOn(h, oid, q) == Newest(Rows(h, "commit", oid) \cap Visible(h, q))
CommitAny(h, oid) ==
  LET S == Rows(h, "commit", oid) IN IF S = {} THEN 0 ELSE Min(S)

\* The last commit at or before s.
RECURSIVE LastCommit(_, _)
LastCommit(h, s) ==
  IF s = 0 THEN None
  ELSE IF h[s].type = "commit" THEN h[s].key ELSE LastCommit(h, h[s].before)

\* get_git_br_seq, get_git_br_top_seq, get_git_br_top_oid.
BrSeq(h, br) == LiveRow(h, "git_br", br)
BrTop(h, br) == IF BrSeq(h, br) = 0 THEN 0 ELSE Top(h, Bseq(h, BrSeq(h, br)).b)
BrOid(h, br) == LastCommit(h, BrTop(h, br))
\* get_git_branches, all of whose declarations are stored when a sync begins.
LiveBranches(h) == {b \in {h[s].key : s \in {t \in 1 .. Len(h) : h[t].type = "git_br"}} :
                      BrSeq(h, b) # 0}

\* get_head: the declaration, whose key is the branch.
HeadSeq(h) ==
  LET s == Newest({t \in 1 .. Len(h) : h[t].type = "git_head"})
  IN  IF s = 0 \/ h[s].op = "rm" THEN 0 ELSE s
HeadBranch(h) == IF HeadSeq(h) = 0 THEN None ELSE h[HeadSeq(h)].key

\* _rm_branch.
RmBranch(h, br) ==
  LET prev == BrTop(h, br)
      rm == Body("git_br", "rm", br, None)
  IN  IF HeadBranch(h) # br THEN Decl(h, prev, rm)
      ELSE Decl(Decl(h, prev, Body("git_head", "rm", br, None)), Len(h) + 1, rm)

\* get_avail_branch: as many names of the branch as are taken come before.
AvailBranch(h, br) == <<br, Cardinality({s \in 1 .. Len(h) : Head(h[s].name \o <<None>>) = br})>>
NullBranch(h) ==
  Null(Cardinality({s \in 1 .. Len(h) : Head(h[s].name \o <<None>>) \in Range(Nulls)}) + 1)

\* Faulty variant: it goes on where a removed branch ends in any case.
SetBranchAtTop(h, prev, br, oid) ==
  Decl(h, Top(h, Bseq(h, prev).b), Body("git_br", "add", br, oid))
\* _new_set_branch: on a branch that was removed it goes on where that ends.
NewSetBranch(h, prev, br, oid) ==
  LET end == Top(h, Bseq(h, prev).b)
      curr == Newest({s \in Visible(h, Bseq(h, end)) : h[s].type = "git_br"})
      add == Body("git_br", "add", br, oid)
  IN  IF curr # 0 /\ h[curr].op = "rm" THEN Decl(h, end, add)
      ELSE Decl(h, prev, [add EXCEPT !.name = AvailBranch(h, br)])

-----------------------------------------------------------------------------
(* The files of a commit.  w is the work: h the scroll; prev what the next  *)
(* declaration follows, or 0 for the newest; b the branch of the commit; n  *)
(* how many were declared; cold the last declaration whose rows are in the  *)
(* database only; err; astray.                                              *)

View(h, s) == [q |-> Bseq(h, s), max |-> s]
LastOf(h, v, path, ops) ==
  Newest({s \in Visible(h, v.q) : /\ s <= v.max /\ h[s].type = "fs"
                                  /\ h[s].key = path /\ h[s].op \in ops})
Live(h, s) == s # 0 /\ h[s].op # "rm"
Seen(h, v, path) == Live(h, LastOf(h, v, path, {"add", "mod", "rm"}))
\* ls_iter, the newest first.
Row(h, v, path) == LastOf(h, v, path, {"add", "rm"})
Ls(h, v, dir) ==
  SetToSortSeq({p \in Range(Paths) : Parent[p] = dir /\ Live(h, Row(h, v, p))},
               LAMBDA p, r : Row(h, v, p) > Row(h, v, r))

\* ls_iter is one row ahead.  If that row is from the database, removing path
\* ends the transaction of the cursor, and the next turn of the loop throws.
CursorOpen(w, v, dir, path) ==
  LET rows == {s \in Visible(w.h, v.q) :
                 /\ s < Row(w.h, v, path) /\ w.h[s].type = "fs"
                 /\ w.h[s].op \in {"add", "rm"} /\ Parent[w.h[s].key] = dir}
  IN  Newest(rows) \in 1 .. w.cold
NextRow(w, v, dir, path) ==
  IF w.err = None /\ CursorOpen(w, v, dir, path) THEN [w EXCEPT !.err = CursorEnded] ELSE w

\* What follows prev, and where file_exists and dir_exists look: on main if
\* there is no prev.
At(w) == IF w.prev = 0 THEN Len(w.h) ELSE w.prev
Exists(w, path) ==
  Seen(w.h, View(w.h, IF w.prev = 0 THEN Top(w.h, Main) ELSE w.prev), path)
\* Whether that is not what the branch of the commit has.
Watch(w, path) ==
  [w EXCEPT !.astray = \/ @ \/ Bseq(w.h, At(w)).b # w.b
                       \/ Exists(w, path) # Seen(w.h, View(w.h, At(w)), path)]
Put(w, op, path, oid) ==
  [w EXCEPT !.h = Decl(@, w.prev, Body("fs", op, path, oid)), !.n = @ + 1, !.prev = 0]

\* rm_file; rm_dir, which forgets prev unless there is nothing to remove first.
RmFile(w, path) ==
  IF ~Exists(w, path) THEN [w EXCEPT !.err = "file not found"]
  ELSE Put(w, "rm", path, None)
RECURSIVE RmList(_, _, _)
RmList(w, v, dir) ==
  LET rmOne(u, p) ==
        IF u.err # None THEN u
        ELSE IF ~IsDir(p) THEN RmFile(Watch(u, p), p)
        ELSE LET t == RmList(u, v, p) IN IF t.err # None THEN t ELSE Put(t, "rm", p, None)
      turn(u, p) == NextRow(rmOne(u, p), v, dir, p)
      list == Ls(w.h, v, dir)
  IN  FoldLeft(turn, IF list = <<>> THEN w ELSE [w EXCEPT !.prev = 0], list)
RmDir(w, dir) ==
  LET v == [q |-> Bseq(w.h, Top(w.h, Bseq(w.h, At(w)).b)), max |-> At(w)]
      t == RmList(w, v, dir)
  IN  IF ~Exists(w, dir) THEN [w EXCEPT !.err = "dir not found"]
      ELSE IF t.err # None THEN t ELSE Put(t, "rm", dir, None)
Rm(w, path) ==
  IF w.err # None THEN w
  ELSE IF IsDir(path) THEN RmDir(Watch(w, path), path) ELSE RmFile(Watch(w, path), path)

\* add_file or mod_file, unless the contents are the same.  The contents come
\* from any branch, or else mod_file wants the file where it is declared.
ModFile(w, f, oid) ==
  IF /\ \A s \in 1 .. Len(w.h) : w.h[s].type # "fs" \/ w.h[s].oid # oid
     /\ LastOf(w.h, [q |-> Bseq(w.h, At(w)), max |-> Len(w.h)], f, {"add", "mod", "rm"}) = 0
  THEN [w EXCEPT !.err = "file not found"] ELSE Put(w, "mod", f, oid)
\* Faulty variant: the last declaration of the file on any branch.
SyncFileAnywhere(w, f, oid) ==
  LET s == Newest(Rows(w.h, "fs", f))
  IN  IF s # 0 /\ w.h[s].oid = oid THEN w
      ELSE IF Exists(w, f) THEN ModFile(w, f, oid) ELSE Put(w, "add", f, oid)
SyncFile(w, f, oid) ==
  LET s == LastOf(w.h, View(w.h, At(w)), f, {"add", "mod", "rm"})
  IN  IF s # 0 /\ w.h[s].oid = oid THEN w
      ELSE IF Exists(w, f) THEN ModFile(w, f, oid) ELSE Put(w, "add", f, oid)

\* _sync_dir: what is gone, then what there is.
AddDir(w, dir) == IF Exists(w, dir) THEN w ELSE Put(w, "add", dir, None)
RmGone(w, c, dir) ==
  LET v == View(w.h, At(w))
      turn(u, p) == NextRow(Rm(u, p), v, dir, p)
  IN  FoldLeft(turn, w, SelectSeq(Ls(w.h, v, dir), LAMBDA p : p \notin TreePaths(c)))
RECURSIVE SyncDir(_, _, _)
SyncDir(w, c, dir) ==
  LET entries == SelectSeq(Paths, LAMBDA p : Parent[p] = dir /\ p \in TreePaths(c))
      sync(u, p) == IF u.err # None THEN u
                    ELSE IF IsDir(p) THEN [SyncDir(u, c, p) EXCEPT !.prev = 0]
                    ELSE SyncFile(Watch(u, p), p, Commits[c].tree[p])
  IN  FoldLeft(sync, RmGone(AddDir(Watch(w, dir), dir), c, dir), entries)

-----------------------------------------------------------------------------
(* A commit: _sync_commits, one turn.                                       *)

Work(h, prev) ==
  [h |-> h, prev |-> prev, b |-> Bseq(h, prev).b, n |-> 0, cold |-> 0,
   err |-> None, astray |-> FALSE]
Throw(h, what) == [Work(h, 0) EXCEPT !.err = what]

\* The root may be on another branch: this one is opened there anew.
Rooted(h, br, c) ==
  IF /\ BrSeq(h, br) # 0 /\ FirstParent(c) = None /\ CommitAny(h, c) # 0
     /\ CommitOn(h, c, Bseq(h, BrTop(h, br))) = 0
  THEN RmBranch(h, br) ELSE h
Declare(w, at, c) ==
  IF w.err # None THEN w
  ELSE [w EXCEPT !.h = Decl(@, IF w.n = 0 THEN at ELSE 0, Body("commit", "add", c, None)),
                 !.astray = @ \/ (w.n # 0 /\ Bseq(w.h, Len(w.h)).b # w.b)]
OnBranch(h, at, br, c, cold) ==
  IF BrOid(h, br) \notin {None, FirstParent(c)} THEN Throw(h, "git corruption")
  ELSE Declare(SyncDir([Work(h, at) EXCEPT !.cold = cold], c, "/"), at, c)
SyncCommit(h, br, c, cold) ==
  LET live == BrSeq(h, br) # 0
      find(oid) == IF live THEN CommitOn(h, oid, Bseq(h, BrTop(h, br))) ELSE CommitAny(h, oid)
      p == FirstParent(c)
      prev == IF p = None THEN Len(h) ELSE find(p)
      new == NewSetBranch(h, prev, br, p)
  IN  IF find(c) # 0 THEN Work(h, 0)
      ELSE IF p # None /\ find(p) = 0 THEN Throw(h, "parent commit was not found")
      ELSE IF p = None /\ \E s \in 1 .. Len(h) : h[s].type = "commit"
      THEN Throw(h, "adding 2nd git root")
      ELSE IF live THEN OnBranch(h, BrTop(h, br), br, c, cold)
      ELSE OnBranch(new, Len(new), br, c, cold)

-----------------------------------------------------------------------------
(* Tags and head.                                                           *)

Tags(h) == {h[s].key : s \in {t \in 1 .. Len(h) : h[t].type = "tag"}}
TagOid(h, t) == IF LiveRow(h, "tag", t) = 0 THEN None ELSE h[LiveRow(h, "tag", t)].oid
RmTags(h, g) ==
  LET rm(t, k) == IF LiveRow(k, "tag", t) = 0 THEN k
                  ELSE Decl(k, 0, Body("tag", "rm", t, TagOid(k, t)))
  IN  FoldSet(rm, h, Tags(h) \ DOMAIN g.tags)
\* An annotated tag has a declaration of its own.
SetTag(h, t, tag, flip) ==
  LET obj == IF tag.type = "tag" THEN Decl(h, 0, Body("tag_o", "add", t, tag.oid)) ELSE h
      op == IF LiveRow(h, "tag", t) = 0 THEN "add" ELSE "mod"
  IN  IF TagOid(h, t) = tag.oid \/ (flip /\ Had(h, "tag", t, tag.oid)) THEN h
      ELSE Decl(obj, 0, Body("tag", op, t, tag.oid))
SyncTags(h, g, flip) ==
  LET set(t, k) == SetTag(k, t, g.tags[t], flip)
  IN  FoldSet(set, RmTags(h, g), DOMAIN g.tags)

RmHead(h, g) ==
  IF HeadBranch(h) \in {None, g.head} THEN h
  ELSE Decl(h, Top(h, Bseq(h, HeadSeq(h)).b), Body("git_head", "rm", HeadBranch(h), None))
AddHead(h, g) ==
  IF HeadSeq(h) # 0 \/ g.head = None THEN h
  ELSE Decl(h, BrTop(h, g.head), Body("git_head", "add", g.head, None))
NoHead(h, g) == HeadSeq(h) = 0 /\ g.head # None /\ BrTop(h, g.head) = 0
Seal(h) == Decl(h, Top(h, Main), Body("seal", "add", None, None))

-----------------------------------------------------------------------------
(* The repository changes, and a sync runs.                                 *)

Idle(end) ==
  [pc |-> "idle", todo |-> <<>>, br |-> None, commits |-> <<>>, merges |-> <<>>,
   ignored |-> {}, opt |-> [flip |-> FALSE, seal |-> FALSE],
   end |-> end, from |-> 0, again |-> FALSE]

\* Git.create: the head of the repository as the caller names it.
Init ==
  /\ world \in Worlds
  /\ git \in world.repos
  /\ hist = Decl(Decl(<<>>, 0, Body("git_br", "add", world.head, None)), 0,
                 Body("git_head", "add", world.head, None))
  /\ job = Idle(None)
  /\ astray = FALSE /\ stored = 0 /\ syncs = 0 /\ restarts = 0

\* What was pushed before the repository is read again.  Where branches only
\* grow, one of them may go too: world.goes.
Grows(old, new) ==
  \A b \in DOMAIN old.br :
    \/ b \in DOMAIN new.br /\ old.br[b] \in Range(Chain(new.br[b]))
    \/ b \notin DOMAIN new.br /\ b = world.goes
Begin ==
  /\ job.pc = "idle" /\ syncs < world.syncs
  /\ syncs' = syncs + 1
  /\ git' \in {g \in world.repos : world.grows => Grows(git, g)}
  /\ \E o \in world.opts :
       job' = [Idle(None) EXCEPT
                 !.pc = "prune", !.opt = o, !.from = Len(hist),
                 !.todo = SelectSeq(Reverse(Nulls \o Branches), LAMBDA b : b \in LiveBranches(hist)),
                 !.again = job.end \in {"done", "no head"} /\ git' = git /\ job.opt = o]
  /\ UNCHANGED <<world, hist, astray, stored, restarts>>

Goes == UNCHANGED <<world, git, stored, syncs, restarts>>
Stays == Goes /\ UNCHANGED <<hist, astray>>

\* A branch that is gone, or whose last commit is not in it any more.
Stale(br) ==
  IF br \in DOMAIN git.br
  THEN BrOid(hist, br) \notin {None} \cup Ancestors(git.br[br])
  ELSE DOMAIN git.br # {} \/ BrOid(hist, br) # None
Protected(br) ==
  /\ br \in DOMAIN git.br /\ job.opt.flip
  /\ Had(hist, "git_br", br, git.br[br])
Prune ==
  /\ job.pc = "prune" /\ job.todo # <<>>
  /\ LET br == Head(job.todo)
     IN  /\ hist' = IF Stale(br) /\ ~Protected(br) THEN RmBranch(hist, br) ELSE hist
         /\ job' = [job EXCEPT !.todo = Tail(@),
                               !.ignored = IF Stale(br) /\ Protected(br) THEN @ \cup {br} ELSE @]
  /\ Goes /\ UNCHANGED astray
PruneEnd ==
  /\ job.pc = "prune" /\ job.todo = <<>>
  /\ job' = [job EXCEPT !.pc = "branch",
                        !.todo = SelectSeq(InOrder(git), LAMBDA b : b \notin job.ignored)]
  /\ Stays

Branch ==
  /\ job.pc = "branch" /\ job.todo # <<>>
  /\ job' = [job EXCEPT !.pc = "commit", !.br = Head(job.todo), !.todo = Tail(@),
                        !.commits = Chain(git.br[Head(job.todo)])]
  /\ Stays

\* merge_queue: what a commit merges is put in, and what is declared taken out.
Queue(c) ==
  SelectSeq(job.merges \o SetToSeq(Merged(c) \ Range(job.merges)), LAMBDA m : m # c)
\* What was stored before a restart may have been read since.
Commit ==
  /\ job.pc = "commit" /\ job.commits # <<>>
  /\ \E cold \in {0} \cup {s \in 1 .. stored : hist[s].type = "fs"} :
     LET c == Head(job.commits)
         h == Rooted(hist, job.br, c)
         w == SyncCommit(h, job.br, c, cold)
     IN  /\ hist' = w.h
         /\ astray' = (astray \/ w.astray)
         /\ job' = IF w.err # None THEN Idle(w.err)
                   ELSE [job EXCEPT !.commits = Tail(@),
                                    !.merges = IF w.h = h THEN @ ELSE Queue(c)]
  /\ Goes

\* A branch with no commit of its own.
BranchEnd ==
  /\ job.pc = "commit" /\ job.commits = <<>> /\ job.br \in DOMAIN git.br
  /\ LET tip == git.br[job.br]
         skip == job.opt.flip /\ Had(hist, "git_br", job.br, tip)
         next == [job EXCEPT !.pc = "branch"]
     IN  IF BrOid(hist, job.br) # None
         THEN /\ job' = IF BrOid(hist, job.br) = tip THEN next ELSE Idle("unexpected git_br top")
              /\ UNCHANGED hist
         ELSE IF CommitAny(hist, tip) = 0 THEN job' = Idle("top commit not found") /\ UNCHANGED hist
         ELSE /\ job' = next
              /\ hist' = IF skip THEN hist
                         ELSE NewSetBranch(hist, CommitAny(hist, tip), job.br, tip)
  /\ Goes /\ UNCHANGED astray
BranchesEnd ==
  /\ job.pc = "branch" /\ job.todo = <<>>
  /\ job' = [job EXCEPT !.pc = "merged", !.todo = job.merges]
  /\ Stays

\* What was merged from a branch that is gone.
MergedBranch ==
  /\ job.pc = "merged" /\ job.todo # <<>>
  /\ LET c == Head(job.todo)
         done == c \notin Range(job.merges) \/ CommitAny(hist, c) # 0
         next == [job EXCEPT !.todo = Tail(@)]
     IN  job' = IF done THEN next
                ELSE [next EXCEPT !.pc = "commit", !.br = NullBranch(hist), !.commits = Chain(c)]
  /\ Stays
MergedEnd ==
  /\ job.pc = "commit" /\ job.commits = <<>> /\ job.br \notin DOMAIN git.br
  /\ job' = [job EXCEPT !.pc = "merged"]
  /\ Stays

SetTags ==
  /\ job.pc = "merged" /\ job.todo = <<>>
  /\ hist' = SyncTags(hist, git, job.opt.flip)
  /\ job' = [job EXCEPT !.pc = "head"]
  /\ Goes /\ UNCHANGED astray

SetHead ==
  /\ job.pc = "head"
  /\ LET h == RmHead(hist, git)
         k == AddHead(h, git)
     IN  IF NoHead(h, git)
         THEN hist' = h /\ job' = [job EXCEPT !.pc = "idle", !.end = "no head"]
         ELSE /\ hist' = IF job.opt.seal THEN Seal(k) ELSE k
              /\ job' = [job EXCEPT !.pc = "idle", !.end = "done"]
  /\ Goes /\ UNCHANGED astray

\* The program ends in a sync and starts again: what that declared last may
\* be lost.
Restart ==
  /\ job.pc # "idle" /\ restarts < world.restarts
  /\ restarts' = restarts + 1
  /\ stored' \in job.from .. Len(hist)
  /\ hist' = SubSeq(hist, 1, stored')
  /\ job' = Idle(None)
  /\ UNCHANGED <<world, git, astray, syncs>>

Next ==
  \/ Begin \/ Prune \/ PruneEnd \/ Branch \/ Commit \/ BranchEnd
  \/ BranchesEnd \/ MergedBranch \/ MergedEnd \/ SetTags \/ SetHead \/ Restart
Spec == Init /\ [][Next]_vars

-----------------------------------------------------------------------------
(* What the scroll says.                                                    *)

\* The paths listed at a declaration, and its tree as calc_sha_dir sees it.
RECURSIVE Listed(_, _)
Listed(s, dir) ==
  LET here == Range(Ls(hist, View(hist, s), dir))
  IN  here \cup UNION {Listed(s, p) : p \in {d \in here : IsDir(d)}}
CommitTree(s) ==
  LET c == hist[s].key
      paths == Listed(s, None)
  IN  /\ paths = TreePaths(c)
      /\ \A f \in DOMAIN Commits[c].tree :
           hist[LastOf(hist, View(hist, s), f, {"add", "mod", "rm"})].oid = Commits[c].tree[f]
CommitSeqs == {s \in 1 .. Len(hist) : hist[s].type = "commit"}

(* At each commit the files of the scroll are those of the commit in git,   *)
(* as verify_git of fs/git.js asserts.                                      *)
VerifyGit == \A s \in CommitSeqs : CommitTree(s)

(* At each commit the files are right and what comes before is its first    *)
(* parent, also if an exit cut off the files of a commit or the repository  *)
(* was rewritten; unless a commit has gone astray.                          *)
CommitsRight ==
  astray \/ (VerifyGit /\ \A s \in CommitSeqs :
                            LastCommit(hist, hist[s].before) = FirstParent(hist[s].key))

Synced ==
  /\ \A b \in DOMAIN git.br :
       BrOid(hist, b) = git.br[b] \/ (job.opt.flip /\ Had(hist, "git_br", b, git.br[b]))
  /\ \A b \in LiveBranches(hist) \ (DOMAIN git.br \cup Range(Nulls)) :
       DOMAIN git.br = {} /\ BrOid(hist, b) = None
  /\ Cardinality({Bseq(hist, BrSeq(hist, b)).b : b \in LiveBranches(hist)})
       = Cardinality(LiveBranches(hist))
  /\ \A t \in Tags(hist) \cup DOMAIN git.tags :
       TagOid(hist, t) = (IF t \in DOMAIN git.tags THEN git.tags[t].oid ELSE None)
         \/ (job.opt.flip /\ t \in DOMAIN git.tags /\ Had(hist, "tag", t, git.tags[t].oid))
  /\ HeadBranch(hist) = IF job.end = "done" THEN git.head ELSE None
\* After a restart, by the end of a cursor.
CutShort == job.end = CursorEnded /\ stored > 0
\* What a sync of what was synced already may still declare.
Settled ==
  \A s \in job.from + 1 .. Len(hist) :
    \/ hist[s].type = "seal"
    \/ hist[s].type = "git_br" /\ hist[s].op = "rm" /\ hist[s].key \in Range(Nulls)

(* A sync of a repository whose branches only grow does not fail, but for   *)
(* one after a restart that removes files while it lists them (git.js:416). *)
(* One that does not fail, also after an exit or such a failure in the      *)
(* middle of another, leaves branches, tags and head as they are in git,    *)
(* each branch with a branch of the scroll, and the next finds nothing to   *)
(* do; without an exit what was merged is there too.                        *)
SyncRight ==
  (world.grows /\ ~astray /\ job.pc = "idle" /\ ~CutShort /\ job.end # None) =>
     /\ job.end \in {"done", "no head"} /\ Synced
     /\ job.again => Settled
     /\ restarts = 0 => \A s \in CommitSeqs : \A m \in Merged(hist[s].key) : CommitAny(hist, m) # 0
=============================================================================
