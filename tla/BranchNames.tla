---------------------------- MODULE BranchNames ----------------------------
(***************************************************************************)
(* How Scroll.decl of storage/scroll.js numbers the declarations of a      *)
(* scroll with branches.  A bseq such as 2-1.5 is [b |-> branch, i |-> 5]: *)
(* the sixth declaration of the first branch opened after declaration 2 of *)
(* the main branch.  A branch is <<>> (main) or <<bseq it follows, count>>. *)
(***************************************************************************)
EXTENDS Integers, FiniteSets

Main == <<>>
First == [b |-> Main, i |-> 0]

\* bseq_inc.
BseqInc(q) == [q EXCEPT !.i = @ + 1]

\* bseq_branch_new, bseq_branch_inc: start of the nth branch opened after q.
BranchStart(q, n) == [b |-> <<q, n>>, i |-> 0]

\* Branch_table.find_avail_branch on a complete table of history h.
FindAvailBranch(h, q) ==
  LET used(n) == \E s \in DOMAIN h : h[s] = BranchStart(q, n)
      n == CHOOSE n \in 1 .. Cardinality(DOMAIN h) + 1 :
             ~used(n) /\ \A k \in 1 .. n - 1 : used(k)
  IN  BranchStart(q, n)

\* A declaration that names no branch continues one at its end (prev).
Tips(h) == {p \in DOMAIN h : \A s \in DOMAIN h : h[s] # BseqInc(h[p])}

\* Scroll.decl: the numbers the next declaration of history h may get.
NextBseq(h) ==
  {BseqInc(h[p]) : p \in Tips(h)} \cup {FindAvailBranch(h, h[p]) : p \in DOMAIN h}

\* The histories of the declarations 0 .. n.
HistoriesUpTo[n \in Nat] ==
  IF n = 0 THEN {[s \in {0} |-> First]}
  ELSE UNION {{[s \in 0 .. n |-> IF s = n THEN q ELSE h[s]] : q \in NextBseq(h)} :
                h \in HistoriesUpTo[n - 1]}
=============================================================================
