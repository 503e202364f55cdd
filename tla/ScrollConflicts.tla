-------------------------- MODULE ScrollConflicts --------------------------
(***************************************************************************)
(* How a scroll of storage/scroll.js takes in declarations of several      *)
(* histories of the same author: put, the Merkle tree it verifies them     *)
(* with, and the conflicts it forks, tells apart and merges.  The scroll   *)
(* has no storage, so a put is one step under the lock.                    *)
(*                                                                         *)
(* Hashes are injective: the hash of a range is the sequence of its        *)
(* leaves, a leaf is <<d, sig>>, and d and sig are the history that made   *)
(* the declaration, the oldest one that has it.                            *)
(***************************************************************************)
EXTENDS MerkleRanges, FiniteSetsExt, SequencesExt, Functions, TLC

CONSTANTS MaxSeq,     \* bound: last declaration
          Worlds      \* [forks, diffs, puts]: how the histories fork, what
                      \* peers send, and the bound of the diffs that are put

ASSUME ConflictsAssumption == MaxSeq \in Nat

Seqs == 0 .. MaxSeq
Ranges == UNION {MerkelRanges(s) : s \in Seqs}
RangeOrder ==    \* by last declaration, the largest first
  LET n == MaxSeq + 1 IN
  SelectSeq([i \in 1 .. n * n |-> <<(i - 1) % n, (i - 1) \div n>>],
            LAMBDA r : r \in Ranges)
Roots == [s \in Seqs |-> CalcRoots(s + 1)]
AnyOf == [s \in Seqs |-> SelectSeq(AnyRanges(s), LAMBDA r : r \in Ranges)]
Null == <<>>

VARIABLES world,    \* chosen once
          scroll,   \* the scroll that receives
          last,     \* the diff put last
          puts      \* diffs put so far
vars == <<world, scroll, last, puts>>

-----------------------------------------------------------------------------
(* The histories: h > 0 is forks[h] = <<g, s>>, a copy of g up to s.        *)

Owner(forks, h, s) ==
  LET up[g \in 0 .. Len(forks)] ==
        IF g > 0 /\ s <= forks[g][2] THEN up[forks[g][1]] ELSE g
  IN  up[h]
Leaf(forks, h, s) == <<Owner(forks, h, s), Owner(forks, h, s)>>
Hash(forks, h, r) == [i \in 1 .. Size(r) |-> Leaf(forks, h, r[1] + i - 1)]
Histories == 0 .. Len(world.forks)

\* verify_sig: the signature covers d and the root of all before it.
VerifySig(sig, d, s, prevM) ==
  d = sig /\ sig \in Histories /\ Owner(world.forks, sig, s) = sig
          /\ prevM = Hash(world.forks, sig, <<0, s - 1>>)

-----------------------------------------------------------------------------
(* What is known.  A key is <<kind, cfid, range>>; the kinds are "m" and    *)
(* "M" (hashes), "s" (hash and signature of the frames) and "D" (frames).   *)

\* Scroll.to_c.
ToC(st, c, s) ==
  LET up[d \in DOMAIN st.conflict] ==
        IF s <= st.conflict[d].pseq THEN up[st.conflict[d].parent] ELSE d
  IN  up[c]
Key(st, kind, c, r) == <<kind, ToC(st, c, r[2]), r>>
Get(f, k) == IF k \in DOMAIN f THEN f[k] ELSE Null
Known(st, kind, c, r) == Get(st.known, Key(st, kind, c, r))
TopSeq(st, c) == Len(st.conflict[c].top) - 1
Ids(st) == SelectSeq([i \in 1 .. st.next |-> i - 1],
                     LAMBDA c : c \in DOMAIN st.conflict)

Fail(st, what) == IF st.failed = "" THEN [st EXCEPT !.failed = what] ELSE st
Learn(st, k, v) == [st EXCEPT !.known = (k :> v) @@ @]

\* Faulty variant: a hash that is not known counts as a different one.
CompareUnknown(st, c, j, r) ==
  IF Contains(st.conflict[c].queue, j) THEN st
  ELSE IF Known(st, "m", c, r) # Known(st, "m", j, r)
  THEN [st EXCEPT !.conflict[c].real = @ \cup {j}]
  ELSE [st EXCEPT !.conflict[c].queue = Append(@, j),
                  !.merges = IF Contains(@, c) THEN @ ELSE Append(@, c)]

\* update_merge_queue: whether conflicts c and j agree on range r.
Compare(st, c, j, r) ==
  LET m1 == Known(st, "m", c, r)
      m2 == Known(st, "m", j, r)
      o == st.conflict[c]
  IN  IF Contains(o.queue, j) \/ Null \in {m1, m2} THEN st
      ELSE IF m1 # m2 THEN [st EXCEPT !.conflict[c].real = @ \cup {j}]
      ELSE [st EXCEPT !.conflict[c].queue = Append(@, j),
                      !.merges = IF Contains(@, c) THEN @ ELSE Append(@, c)]

\* minfo.on_hash of conflict c: range r of conflict d has become known.
OnHash(st, c, r, d) ==
  IF d < c THEN Compare(st, c, d, r)
  ELSE IF d > c THEN st
  ELSE FoldLeft(LAMBDA a, j : Compare(a, c, j, r), st,
                SelectSeq(Ids(st), LAMBDA j : j < c))
Listeners(st, r) ==
  SelectSeq(Ids(st), LAMBDA c : Contains(st.conflict[c].any, r))

\* Scroll.notify_M.
NotifyM(st, c, h) ==
  IF Len(h) = 1 /\ c # 0 THEN Fail(st, "M0 exists only on b0")
  ELSE IF TopSeq(st, c) >= Len(h) - 1 THEN st
  ELSE IF Known(st, "M", c, At(Len(h) - 1)) # h THEN Fail(st, "invalid M")
  ELSE [st EXCEPT !.conflict[c].top = h]

\* Merkel_root.set_hash.
SetRoot(st, c, s, h) ==
  LET k == Key(st, "M", c, At(s)) IN
  IF k \in DOMAIN st.known
  THEN IF st.known[k] = h THEN st ELSE Fail(st, "hash changed")
  ELSE NotifyM(Learn(st, k, h), k[2], h)

\* Merkel_root.on_hash and calc_root_hash: only the last root is listened to.
CalcRoot(st, c, s) ==
  LET hs == [i \in DOMAIN Roots[s] |-> Known(st, "m", c, Roots[s][i])] IN
  IF Known(st, "M", c, At(s)) # Null \/ Contains(hs, Null) THEN st
  ELSE SetRoot(st, c, s, FlattenSeq(hs))

\* Merkel_node.set_hash, and what listens: conflicts, the parent, the root.
RECURSIVE SetM(_, _, _, _)
OnHashes(st, c, r) == FoldLeft(LAMBDA a, j : OnHash(a, j, r, c), st, Listeners(st, r))
SetParent(st, c, p) ==
  LET With(h1, h2) ==
        IF \/ p.parent[2] > MaxSeq \/ Null \in {h1, h2}
           \/ Known(st, "m", c, p.parent) # Null
        THEN st ELSE SetM(st, c, p.parent, h1 \o h2)
  IN  With(Known(st, "m", c, p.left), Known(st, "m", c, p.right))
SetTop(st, c, r) == IF r = LastRange(r[2]) THEN CalcRoot(st, c, r[2]) ELSE st
SetM(st, c, r, h) ==
  LET Set(k) ==
        IF k \in DOMAIN st.known
        THEN IF st.known[k] = h THEN st ELSE Fail(st, "hash changed")
        ELSE SetTop(SetParent(OnHashes(Learn(st, k, h), k[2], r), k[2], RParent(r)),
                    k[2], r)
  IN  Set(Key(st, "m", c, r))

\* sig_set and Frame_buffer.set_hash; the leaf follows from both.
SetSigned(st, c, s, leaf) ==
  LET k == Key(st, "s", c, At(s))
      AndLeaf(a) == IF Known(a, "m", c, At(s)) # Null THEN a
                    ELSE SetM(a, c, At(s), <<leaf>>)
  IN  IF k \in DOMAIN st.known
      THEN IF st.known[k] = leaf THEN st ELSE Fail(st, "sig changed")
      ELSE AndLeaf(Learn(st, k, leaf))

\* Frame_buffer.set_frames.
SetFrames(st, c, s, D) ==
  LET k == Key(st, "D", c, At(s)) IN
  IF k \in DOMAIN st.known
  THEN IF st.known[k] = D THEN st ELSE Fail(st, "buf changed")
  ELSE Learn(st, k, D)

\* put_verified, of the hashes v.m and of declaration s: its hash and
\* signature v.leaf and its frames v.D.
PutHashes(st, c, m) ==
  FoldLeft(LAMBDA a, r : IF r \in DOMAIN m THEN SetM(a, c, r, m[r]) ELSE a,
           st, RangeOrder)
PutFrames(st, c, s, leaf, D) ==
  LET Frames(a) == IF D = Null THEN a ELSE SetFrames(a, c, s, D)
  IN  IF leaf = Null THEN st ELSE Frames(SetSigned(st, c, s, leaf))
PutVerified(st, c, s, v) == PutFrames(PutHashes(st, c, v.m), c, s, v.leaf, v.D)

-----------------------------------------------------------------------------
(* A diff: a partial function of <<kind, range>>, kinds "m", "sig", "d",    *)
(* "D".  The hash of a range under what is known and what a diff gives.     *)

\* sketch_calc_m.  force = [range, m] takes the place of what is known; sk
\* holds the hashes that are new, to be put if they turn out right.
RECURSIVE SketchM(_, _, _, _, _)
SketchM(st, c, r, diff, force) ==
  LET inside == RIncludes(r, force.range)
      vm == Known(st, "m", c, r)
      m == Get(diff, <<"m", r>>)
      d == Get(diff, <<"d", r>>)
      sig == Get(diff, <<"sig", r>>)
      a == SketchM(st, c, RSplit(r)[1], diff, force)
      b == SketchM(st, c, RSplit(r)[2], diff, force)
      given(h) == [m |-> h, sk |-> r :> h]
      none == [m |-> Null, sk |-> <<>>]
  IN  IF r = force.range THEN given(force.m)
      ELSE IF ~inside /\ vm # Null THEN [m |-> vm, sk |-> <<>>]
      ELSE IF ~inside /\ m # Null THEN given(m)
      ELSE IF Size(r) = 1
      THEN IF Null \in {d, sig} THEN none ELSE given(<<d \o sig>>)
      ELSE IF a.m = Null THEN none
      ELSE IF b.m = Null THEN none
      ELSE [m |-> a.m \o b.m, sk |-> (r :> a.m \o b.m) @@ a.sk @@ b.sk]

NoForce == [range |-> <<-1, -1>>, m |-> Null]

\* sketch_calc_top_M of the declarations 0 .. top.
SketchTop(st, c, top, diff, force) ==
  LET parts == [i \in DOMAIN Roots[top] |->
                  SketchM(st, c, Roots[top][i], diff, force)]
      ms == [i \in DOMAIN parts |-> parts[i].m]
  IN  IF Contains(ms, Null) THEN [m |-> Null, sk |-> <<>>]
      ELSE [m |-> FlattenSeq(ms),
            sk |-> FoldLeft(LAMBDA f, p : f @@ p.sk, <<>>, parts)]

\* calc_m: the hash of r under a diff, or in another conflict.
RECURSIVE CalcM(_, _, _)
CalcM(st, src, r) ==
  LET d == IF src.c = -1 /\ Size(r) = 1
           THEN IF Get(src.diff, <<"d", r>>) # Null THEN Get(src.diff, <<"d", r>>)
                ELSE Get(src.diff, <<"D", r>>)
           ELSE Null
      sig == Get(src.diff, <<"sig", r>>)
      m == IF src.c # -1 THEN Known(st, "m", src.c, r)
           ELSE IF Get(src.diff, <<"m", r>>) # Null THEN Get(src.diff, <<"m", r>>)
           ELSE IF Null \in {d, sig} THEN Null ELSE <<d \o sig>>
      m1 == CalcM(st, src, RSplit(r)[1])
      m2 == CalcM(st, src, RSplit(r)[2])
  IN  IF m # Null \/ Size(r) = 1 THEN m
      ELSE IF m1 = Null THEN Null
      ELSE IF m2 = Null THEN Null
      ELSE m1 \o m2
FromDiff(diff) == [c |-> -1, diff |-> diff]
FromConflict(c) == [c |-> c, diff |-> <<>>]

\* find_max_common_m: the range, at the left of r, known to be the same in
\* conflict c and in src.  The failures of its assertions are ranges beyond
\* the last declaration: 'vm must exists', and 'm does not exists' if src gives
\* r another hash than both halves of r together have.
NoVm == <<0, MaxSeq + 1>>
HasM == <<0, MaxSeq + 2>>
Assertion(seq) == IF seq = NoVm[2] THEN "vm must exists" ELSE "m does not exists"
Breaks(seq) == seq > MaxSeq
RECURSIVE CommonRange(_, _, _, _)
CommonRange(st, c, r, src) ==
  LET vm == Known(st, "m", c, r)
      r1 == RSplit(r)[1]
      r2 == RSplit(r)[2]
      vm1 == Known(st, "m", c, r1)
      vm2 == Known(st, "m", c, r2)
      in1 == IF CalcM(st, src, r1) = vm1 THEN r1 ELSE CommonRange(st, c, r1, src)
      in2 == IF CalcM(st, src, r2) = vm2 THEN r2 ELSE CommonRange(st, c, r2, src)
  IN  IF vm # Null /\ vm = CalcM(st, src, r) THEN r
      ELSE IF Size(r) = 1 THEN Null
      ELSE IF vm1 = Null THEN CommonRange(st, c, r1, src)
      ELSE IF in1 # r1 THEN in1
      ELSE IF vm2 = Null THEN r1
      ELSE IF in2 \in {NoVm, HasM} THEN in2
      ELSE IF in2 # r2 THEN r1
      ELSE IF vm = Null THEN NoVm
      ELSE IF CalcM(st, src, r) # Null THEN HasM ELSE r

\* find_max_common_M: the last declaration up to seq that c is known to share
\* with src, or -1.
RECURSIVE Common(_, _, _, _, _)
Common(st, c, seq, src, common) ==
  LET range(r) == IF r[2] <= common THEN r ELSE CommonRange(st, c, r, src)
      Longest(again, r) == IF again > 0 THEN again ELSE r[2]
      From(i, from, r, max) ==
        IF max = Null THEN r[1] - 1
        ELSE IF max \in {NoVm, HasM} THEN max[2]
        ELSE IF max # r THEN Longest(Common(st, c, r[2] - 1, src, common), max)
        ELSE IF i = Len(Roots[seq]) THEN r[2] ELSE from[i + 1]
      from[i \in DOMAIN Roots[seq]] ==
        From(i, from, Roots[seq][i], range(Roots[seq][i]))
  IN  from[1]

\* find_best_conflict.
BestConflict(st, seq, diff) ==
  LET Best(best, c, max, top) ==
        IF best.seq < max \/ (best.seq = max /\ best.top < top /\ best.top >= 0)
        THEN [c |-> c, seq |-> max, top |-> top] ELSE best
      Better(best, c) ==
        Best(best, c, Common(st, c, seq, FromDiff(diff), -1), TopSeq(st, c))
      zero == [c |-> 0, seq |-> 0, top |-> -1]
  IN  IF Cardinality(DOMAIN st.conflict) <= 1 THEN zero
      ELSE FoldLeft(Better, zero, Ids(st))

-----------------------------------------------------------------------------
(* put of one declaration: whether it contradicts conflict c, and what of    *)
(* it is verified.                                                          *)

Nothing == [conflict |-> FALSE, m |-> <<>>, leaf |-> Null, D |-> Null]
Conflict == [Nothing EXCEPT !.conflict = TRUE]

\* check_set_sig: the hash of the declaration is m.
SetSig(v, m, g) ==
  IF Null \in {g.d, g.sig} THEN v
  ELSE IF m # <<g.d \o g.sig>> THEN [v EXCEPT !.conflict = TRUE]
  ELSE [v EXCEPT !.leaf = g.d \o g.sig, !.D = g.D]

\* Faulty variant: a hash below the top is taken as it comes.
BelowTopUnchecked(st, c, s, diff, g) ==
  SetSig([Nothing EXCEPT !.m = At(s) :> g.m], g.m, g)

\* The declaration is below the top of c: its hash must lead to that top.
BelowTop(st, c, s, diff, g) ==
  LET Under(top) ==
        IF top.m # st.conflict[c].top THEN Conflict
        ELSE [SetSig([Nothing EXCEPT !.m = top.sk], g.m, g) EXCEPT !.conflict = FALSE]
  IN  Under(SketchTop(st, c, TopSeq(st, c), diff, [range |-> At(s), m |-> g.m]))

\* The declaration is above the top of c: it must be signed over the top.
NewTop(st, c, s, diff, g) ==
  LET Over(prev) ==
        IF prev.m = Null THEN Conflict
        ELSE IF ~VerifySig(g.sig[1], g.d[1], s, prev.m) THEN Nothing
        ELSE SetSig([Nothing EXCEPT !.m = prev.sk], g.m, g)
      After(r, vm) ==
        IF Null \in {g.d, g.sig, vm} \/ g.m # <<g.d \o g.sig>> THEN Nothing
        ELSE Over(SketchTop(st, c, s - 1, diff, [range |-> r, m |-> vm]))
      last_r == LastRange(TopSeq(st, c))
  IN  After(last_r, Known(st, "m", c, last_r))

\* _put_single: what diff gives of s, the frames only if they have hash d.
Given(diff, s) ==
  LET of(kind) == Get(diff, <<kind, At(s)>>)
      agree == of("d") \in {Null, of("D")}
      d == IF of("D") # Null /\ agree THEN of("D") ELSE of("d")
  IN  [d |-> d, sig |-> of("sig"), all |-> of("D"),
       D |-> IF agree THEN of("D") ELSE Null,
       m |-> IF of("m") = Null /\ Null \notin {d, of("sig")}
             THEN <<d \o of("sig")>> ELSE of("m")]
Verify(st, c, s, diff) ==
  LET Signed(g, vs) ==
        [Nothing EXCEPT
           !.conflict = s > 0 /\ g.sig # Null /\ g.sig # SubSeq(vs, 2, 2),
           !.leaf = vs, !.D = IF g.all = SubSeq(vs, 1, 1) THEN g.all ELSE Null]
      Unsigned(g, vm) ==
        IF vm # Null THEN SetSig(Nothing, vm, g)
        ELSE IF g.m = Null THEN Nothing
        ELSE IF s <= TopSeq(st, c) THEN BelowTop(st, c, s, diff, g)
        ELSE NewTop(st, c, s, diff, g)
  IN  IF Known(st, "s", c, At(s)) # Null
      THEN Signed(Given(diff, s), Known(st, "s", c, At(s)))
      ELSE Unsigned(Given(diff, s), Known(st, "m", c, At(s)))

\* copy_extra_m: an inner hash is taken if it leads to one that is known.
RECURSIVE CopyExtra(_, _, _, _, _)
CopyExtra(st, c, m, r, diff) ==
  LET p == RParent(r)
      Up(up, sk) ==
        IF up.ok THEN [st |-> PutHashes(up.st, c, (r :> m) @@ sk), ok |-> TRUE] ELSE up
      Join(other) ==
        IF other.m = Null THEN [st |-> st, ok |-> FALSE]
        ELSE Up(CopyExtra(st, c, IF r = p.left THEN m \o other.m ELSE other.m \o m,
                          p.parent, diff), other.sk)
      Leads(vm) ==
        IF vm # Null THEN [st |-> st, ok |-> vm = m]
        ELSE IF r = LastRange(r[2]) THEN [st |-> st, ok |-> FALSE]
        ELSE Join(SketchM(st, c, IF r = p.left THEN p.right ELSE p.left, diff, NoForce))
  IN  Leads(Known(st, "m", c, r))

\* put_single: the new state, and whether diff contradicts c.
PutSingle(st, c, s, diff) ==
  LET inner == SelectSeq(RangeOrder,
                         LAMBDA r : r[2] = s /\ <<"m", r>> \in DOMAIN diff)
      Extra(a) ==
        FoldLeft(LAMBDA x, r : CopyExtra(x, c, diff[<<"m", r>>], r, diff).st, a, inner)
      Result(v) ==
        IF v.conflict THEN [st |-> PutVerified(st, c, s, v), conflict |-> TRUE]
        ELSE [st |-> Extra(PutVerified(st, c, s, v)), conflict |-> FALSE]
  IN  Result(Verify(st, c, s, diff))

-----------------------------------------------------------------------------
(* Conflicts.                                                              *)

\* update_mergeable.
UpdateMergeable(st, c) ==
  LET o == st.conflict[c]
      at == <<o.parent, o.pseq>>
      any == AnyOf[o.pseq]
      clean == [st EXCEPT !.conflict[c].at = at, !.conflict[c].any = any,
                          !.conflict[c].queue = <<>>, !.conflict[c].real = {},
                          !.merges = SelectSeq(@, LAMBDA j : j # c)]
  IN  IF o.at = at THEN st
      ELSE FoldLeft(LAMBDA a, r : OnHash(a, c, r, c), clean, any)

\* Decl.copy and Data.copy of declaration s: the frames go to dst itself.
CopyHashes(st, dst, src, s) ==
  FoldLeft(LAMBDA x, r : IF r[2] # s \/ Known(x, "m", src, r) = Null THEN x
                         ELSE SetM(x, dst, r, Known(x, "m", src, r)),
           IF Known(st, "M", src, At(s)) = Null THEN st
           ELSE SetRoot(st, dst, s, Known(st, "M", src, At(s))),
           Reverse(RangeOrder))
CopyFrames(st, dst, src, s) ==
  LET of(c) == {k \in DOMAIN st.known :
                  k[2] = c /\ k[3] = At(s) /\ k[1] \in {"s", "D"}}
      moved == {<<k[1], dst, k[3]>> : k \in of(src)}
  IN  IF of(src) = {} THEN st
      ELSE IF of(dst) # {} THEN Fail(st, "already contain data")
      ELSE [st EXCEPT !.known =
              [k \in (DOMAIN @ \ of(src)) \cup moved |->
                 IF k \in moved THEN @[<<k[1], src, k[3]>>] ELSE @[k]]]
CopyDecl(st, dst, src, s) == CopyFrames(CopyHashes(st, dst, src, s), dst, src, s)


\* Faulty variant: the last one is left out.
CopyDeclsBefore(st, dst, src, from, to) ==
  FoldLeft(LAMBDA a, s : CopyDecl(a, dst, src, s), st,
           [i \in 1 .. to - from |-> from + i - 1])

\* Decl.copy of declarations from .. to.
CopyDecls(st, dst, src, from, to) ==
  FoldLeft(LAMBDA a, s : CopyDecl(a, dst, src, s), st,
           [i \in 1 .. to - from + 1 |-> from + i - 1])

\* conflict_update of the parent, of the common prefix, of the type.
Reparent(st, c, p) == UpdateMergeable([st EXCEPT !.conflict[c].parent = p], c)
Retype(st, c, type) ==
  IF st.conflict[c].parent = 0 /\ st.conflict[c].type = "c" /\ type = "t"
  THEN Fail(st, "real conflict type change")
  ELSE [st EXCEPT !.conflict[c].type = type]
ConflictUpdate(st, c, p, seq, type) ==
  LET Move(a) == CopyDecls(a, p, c, a.conflict[c].pseq + 1, seq)
      Up(a) == [a EXCEPT !.conflict[c].pseq = seq]
  IN  UpdateMergeable(Retype(Up(Move([st EXCEPT !.conflict[c].parent = p])), c, type), c)

\* conflict_remove.
ConflictRemove(st, c, into) ==
  LET heirs == SelectSeq(Ids(st), LAMBDA j : j # c /\ st.conflict[j].parent = c)
      Drop(a) == [a EXCEPT !.conflict = Restrict(@, DOMAIN @ \ {c}),
                           !.known = Restrict(@, {k \in DOMAIN @ : k[2] # c}),
                           !.merges = SelectSeq(@, LAMBDA j : j # c)]
  IN  Drop(FoldLeft(LAMBDA x, j : Reparent(x, j, into), st, heirs))

\* merge_single of conflict c with an older one, i, during a put of seq.
Absorb(st, i, c, seq) ==
  IF st.conflict[c].type = "c" THEN Fail(st, "only can merge tmp conflict")
  ELSE LET copied == CopyDecls(st, i, c, seq + 1, TopSeq(st, c))
       IN  ConflictRemove(NotifyM(copied, i, st.conflict[c].top), c, i)
MergeSingle(st, i, c, seq) ==
  LET o == st.conflict[c]
      queued == Contains(o.queue, i)
      real == i \in o.real
      type == IF real THEN "c" ELSE "t"
      Joined(a, cseq) ==
        IF cseq \in {TopSeq(a, c), TopSeq(a, i)} THEN Absorb(a, i, c, cseq) ELSE a
      MergeAt(cseq) ==
        IF Breaks(cseq) THEN Fail(st, Assertion(cseq))
        ELSE IF o.pseq >= cseq THEN Fail(st, "need optimize merge")
        ELSE Joined(ConflictUpdate(st, c, i, cseq, type), cseq)
  IN  IF i \notin DOMAIN st.conflict THEN Fail(st, "merge with a removed conflict")
      ELSE IF o.pseq >= seq \/ o.pseq >= TopSeq(st, i)
      THEN IF queued \/ ~real THEN Fail(st, "nothing above the prefix to merge") ELSE st
      ELSE IF ~queued
      THEN IF real /\ o.parent = i THEN [st EXCEPT !.conflict[c].type = "c"] ELSE st
      ELSE MergeAt(Common(st, i, seq, FromConflict(c),
                      IF o.parent = st.conflict[i].parent THEN o.pseq ELSE -1))

\* merge_all: what is queued, then the conflicts that turned out real.
RECURSIVE MergeAll(_, _, _)
MergeAll(st, from, seq) ==
  LET c == IF st.merges # <<>> THEN Head(st.merges) ELSE from
      o == st.conflict[c]
      due == c \in DOMAIN st.conflict /\ o.type # "c" /\ o.parent \in o.real
  IN  IF st.failed # "" \/ Cardinality(DOMAIN st.conflict) <= 1 THEN st
      ELSE IF st.merges = <<>> /\ from >= st.next THEN st
      ELSE IF st.merges = <<>> /\ ~due THEN MergeAll(st, from + 1, seq)
      ELSE MergeAll(MergeSingle(st, IF st.merges = <<>> THEN o.parent ELSE Head(o.queue),
                                c, seq),
                    IF st.merges = <<>> THEN from + 1 ELSE from, seq)

\* create_new_conflict.
NewConflict(p, seq) == [top |-> Null, parent |-> p, pseq |-> seq, type |-> "t",
                        at |-> Null, any |-> <<>>, queue |-> <<>>, real |-> {}]
Fork(st, c, seq) ==
  LET M == Known(st, "M", c, At(seq))
      new == [st EXCEPT !.conflict = (st.next :> NewConflict(c, seq)) @@ @,
                        !.next = @ + 1]
  IN  IF M = Null THEN Fail(st, "missing M") ELSE NotifyM(new, st.next, M)

\* Faulty variant: a fork of a single declaration is given up.
PutForkedLong(st, c, s, diff) ==
  LET Kept(put) ==
        IF put.conflict \/ TopSeq(put.st, c) <= st.conflict[c].pseq + 1
        THEN [put.st EXCEPT !.conflict = Restrict(@, DOMAIN @ \ {c})]
        ELSE UpdateMergeable(put.st, c)
  IN  IF st.failed # "" THEN st ELSE Kept(PutSingle(st, c, s, diff))

\* One round of put: the declaration s of diff, in the conflict that has most
\* of it in common, or else in one that forks off there.
PutForked(st, c, s, diff) ==
  LET Kept(put) ==
        IF put.conflict \/ TopSeq(put.st, c) <= st.conflict[c].pseq
        THEN [put.st EXCEPT !.conflict = Restrict(@, DOMAIN @ \ {c})]
        ELSE UpdateMergeable(put.st, c)
  IN  IF st.failed # "" THEN st ELSE Kept(PutSingle(st, c, s, diff))
ForkAt(st, c, s, diff, max) ==
  IF Breaks(max) THEN Fail(st, Assertion(max))
  ELSE IF max = -1 THEN st
  ELSE PutForked(Fork(st, c, max), st.next, s, diff)
PutBest(st, best, s, diff) ==
  LET Prefix(a) == IF best.seq > 0 THEN best.seq
                 ELSE Common(a, best.c, s, FromDiff(diff), -1)
      OrFork(put) == IF put.conflict
                     THEN ForkAt(put.st, best.c, s, diff, Prefix(put.st)) ELSE put.st
  IN  IF Breaks(best.seq) THEN Fail(st, Assertion(best.seq))
      ELSE OrFork(PutSingle(st, best.c, s, diff))
PutSeq(st, s, diff) ==
  LET Merged(a) ==
        IF a.next > st.next /\ st.next \notin DOMAIN a.conflict THEN a
        ELSE MergeAll(a, 1, s)
  IN  IF st.failed # "" THEN st
      ELSE Merged(PutBest(st, BestConflict(st, s, diff), s, diff))

\* put: declaration 0, then the others from the last one down.
PutRest(st, diff) ==
  LET order == SelectSeq([i \in 1 .. MaxSeq |-> MaxSeq + 1 - i],
                         LAMBDA s : \E k \in DOMAIN diff : k[2][2] = s)
  IN  IF Known(st, "D", 0, At(0)) = Null THEN st
      ELSE FoldLeft(LAMBDA x, s : PutSeq(x, s, diff), st, order)
PutDiff(st, diff) ==
  PutRest(IF \E k \in DOMAIN diff : k[2][2] = 0
          THEN PutSingle(st, 0, 0, diff).st ELSE st, diff)

-----------------------------------------------------------------------------

\* Scroll.open of M0: nothing else is known.
Opened == [conflict |-> (0 :> [NewConflict(0, -1) EXCEPT !.top = Hash(<<>>, 0, At(0))]),
           known |-> (<<"M", 0, At(0)>> :> Hash(<<>>, 0, At(0))),
           merges |-> <<>>, next |-> 1, failed |-> ""]

Init == world \in Worlds /\ scroll = Opened /\ last = Null /\ puts = 0

Put == \E diff \in world.diffs :
         /\ scroll.failed = "" /\ puts < world.puts
         /\ scroll' = PutDiff(scroll, diff)
         /\ last' = diff
         /\ puts' = puts + 1
         /\ UNCHANGED world

Next == Put
Spec == Init /\ [][Next]_vars

-----------------------------------------------------------------------------
Live == DOMAIN scroll.conflict
KnownOf(st, c) == {k \in DOMAIN st.known : ToC(st, c, k[3][2]) = k[2]}

\* What history h has under key k, and the diffs and the lines that can be h.
InHistory(h, kind, r) ==
  CASE kind = "m" -> Hash(world.forks, h, r)
    [] kind = "M" -> Hash(world.forks, h, <<0, r[2]>>)
    [] kind = "s" -> Leaf(world.forks, h, r[1])
    [] OTHER -> <<Owner(world.forks, h, r[1])>>
HistoriesOf(st, c) ==
  {h \in Histories : \A k \in KnownOf(st, c) :
                       st.known[k] = InHistory(h, k[1], k[3])}
HistoriesIn(diff) ==
  {h \in Histories : \A k \in DOMAIN diff : diff[k] = InHistory(h, k[1], k[2])}

\* What is known never changes (scroll.js:1553, 1628), there is a root where a
\* conflict forks off (scroll.js:503), and a merge is with a conflict that
\* exists, gets somewhere and ends (scroll.js:957-980): no other assertion of
\* put fails than the four of KnownFailures.  Each of them does, between lock
\* and unlock, so that the scroll stays locked for good: scroll.js:1040 and 84
\* through chains of merges, 609 as soon as a diff is known to share nothing
\* but declaration 0 with the best line, and 934 when a diff gives a range
\* another hash than its own hashes of the two halves lead to.
KnownFailures == {"real conflict type change", "already contain data",
                  "M0 exists only on b0", "m does not exists"}
OthersHold == scroll.failed \in {""} \cup KnownFailures

\* All that is taken for one line is of one history: values that contradict
\* each other, or that nobody signed, never come together, whatever the diffs
\* give and in whatever order they come (scroll.js:718-808).
OneHistory == \A c \in Live : HistoriesOf(scroll, c) # {}

\* A conflict leaves its parent at a declaration both have; one called real
\* shares no history with its parent; and no conflict is kept whose top
\* another one is known to have: that is when merge_all joins them.
ForksRight ==
  scroll.failed = "" => \A c \in Live \ {0} :
    LET o == scroll.conflict[c] IN
    /\ o.parent \in Live /\ o.parent < c
    /\ o.pseq < TopSeq(scroll, c) /\ o.pseq <= TopSeq(scroll, o.parent)
    /\ o.type = "c" =>
         HistoriesOf(scroll, c) \cap HistoriesOf(scroll, o.parent) = {}
    /\ \A j \in Live \ {c} :
         Known(scroll, "M", j, At(TopSeq(scroll, c))) # o.top

\* A diff that is all of one history and shows declaration 0 is taken to its
\* last declaration, into a line that can be that history, unless another
\* history has a shorter line: over its top the signature reads as wrong, and
\* the diff is dropped with no conflict (scroll.js:799).  That is what a put
\* that ends has done; one of KnownFailures ends none (see OthersHold), and
\* among them is every put of a history that parts from the best line at 0.
TopTaken ==
  LET t == Max({k[2][2] : k \in DOMAIN last})
      hs == HistoriesIn(last) IN
  scroll.failed = "" /\ last # Null /\ hs # {} /\ <<"m", At(0)>> \in DOMAIN last
    /\ Known(scroll, "D", 0, At(0)) # Null
  => \E c \in Live : \/ TopSeq(scroll, c) >= t /\ hs \cap HistoriesOf(scroll, c) # {}
                     \/ TopSeq(scroll, c) < t /\ hs \cap HistoriesOf(scroll, c) = {}

\* What is known of a line stays known of one line, which is as long: through
\* forks, moves under another parent and merges (scroll.js:939-1052).
KnowledgeKept ==
  [][\A c \in Live : \E j \in Live' :
       /\ TopSeq(scroll', j) >= TopSeq(scroll, c)
       /\ \A k \in KnownOf(scroll, c) :
            Known(scroll', k[1], j, k[3]) = scroll.known[k]]_vars
=============================================================================
