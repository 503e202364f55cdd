---------------------------- MODULE MerkleRanges ----------------------------
(***************************************************************************)
(* The ranges of the Merkle tree over the declarations of a scroll:        *)
(* storage/range.js and the range functions of storage/scroll.js.  A range *)
(* <<s, e>> is aligned: its size is a power of two that divides s.         *)
(***************************************************************************)
EXTENDS Integers, Sequences, FiniteSets

Size(r) == r[2] - r[1] + 1
At(s) == <<s, s>>
RIncludes(r, q) == q[1] >= r[1] /\ q[2] <= r[2]

RSplit(r) ==
  LET d == Size(r) \div 2 IN <<<<r[1], r[1] + d - 1>>, <<r[1] + d, r[2]>>>>

RParent(r) ==
  LET d == Size(r)
      p == IF r[1] % (2 * d) # 0 THEN <<r[1] - d, r[2]>> ELSE <<r[1], r[2] + d>>
  IN  [parent |-> p, left |-> RSplit(p)[1], right |-> RSplit(p)[2]]

\* The nodes a declaration keeps: one for each low bit of seq that is set.
MerkelRanges(seq) ==
  LET ones == {k \in 0 .. seq : \A j \in 0 .. k - 1 : (seq \div 2^j) % 2 = 1}
  IN  {<<seq - 2^k + 1, seq>> : k \in ones}

LastRange(seq) ==
  CHOOSE r \in MerkelRanges(seq) : \A q \in MerkelRanges(seq) : RIncludes(r, q)

\* The largest tree that fits in n declarations.
Power(n) == CHOOSE p \in {2^k : k \in 0 .. n} : p <= n /\ n < 2 * p

\* Faulty variant: a tree that would end exactly at the top is halved.
CalcRootsHalved(size) ==
  LET from[s \in 0 .. size] ==
        IF s = size THEN <<>>
        ELSE LET n == IF size - s = 1 THEN 1 ELSE Power(size - s - 1)
             IN  <<<<s, s + n - 1>>>> \o from[s + n]
  IN  from[0]

\* The roots of the trees over declarations 0 .. size-1, the largest first.
CalcRoots(size) ==
  LET from[s \in 0 .. size] ==
        IF s = size THEN <<>>
        ELSE LET n == Power(size - s) IN <<<<s, s + n - 1>>>> \o from[s + n]
  IN  from[0]

\* calc_merge_info(seq).any: the ranges, smallest first, whose hash tells
\* whether two conflicts agree after seq.
AnyRanges(seq) ==
  LET roots == CalcRoots(seq + 1)
      walk[n \in 0 .. seq + 1, curr \in {RParent(roots[1]).right}
             \cup (0 .. 2 * seq + 2) \X (0 .. 2 * seq + 2)] ==
        IF seq < curr[1]
        THEN (IF curr[1] = curr[2] \/ n = 0 THEN <<>>
              ELSE walk[n - 1, RSplit(curr)[1]]) \o <<curr>>
        ELSE IF curr[1] = curr[2] \/ n = 0 THEN <<>>
        ELSE walk[n - 1, RSplit(curr)[IF seq < RSplit(curr)[1][2] THEN 1 ELSE 2]]
  IN  walk[seq + 1, RParent(roots[1]).right]
=============================================================================
