--------------------------- MODULE MCBranchTable ---------------------------
(* All the histories decl can make of N + 1 declarations.                  *)
EXTENDS BranchTable, BranchNames

MCHistories == HistoriesUpTo[N]
MCBranch == UNION {{h[s].b : s \in DOMAIN h} : h \in MCHistories}

\* decl never gives the same bseq to two declarations of a scroll.
ASSUME BseqUnique ==
  \A h \in MCHistories : \A s, t \in Seqs : h[s] = h[t] => s = t
=============================================================================
