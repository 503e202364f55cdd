--------------------------- MODULE ScrollStorage ---------------------------
(***************************************************************************)
(* A scroll of storage/scroll.js kept in IndexedDB by storage/storage.js.  *)
(* One task at a time holds the lock of the scroll and updates it: it adds *)
(* facts to declarations, forks conflicts and merges them.  Ending an      *)
(* update queues what changed; the updater task writes the queue, one      *)
(* transaction per update.  Declarations are loaded lazily, by any task    *)
(* and under anybody's lock.  The process may exit at any point.           *)
(*                                                                         *)
(* What is known of a declaration is abstracted to two facts: its hashes   *)
(* ("hash": M and m) and its signed frames ("data").  The scroll has two   *)
(* real histories, 0 and 1, that agree up to declaration Div; a conflict   *)
(* follows one of them.  scfid is identified with cfid: both grow with     *)
(* each conflict, and after a restart both start above all stored rows.    *)
(***************************************************************************)
EXTENDS Integers, Sequences, FiniteSets, Functions

CONSTANTS MaxSeq,      \* bound: last declaration
          MaxCfid,     \* bound: last conflict created
          Div,         \* last declaration the two histories share
          Bounds       \* the other bounds, one record of them for each run

Seqs == 0 .. MaxSeq
Cfid == 0 .. MaxCfid
History == {0, 1}
Facts == {"hash", "data"}     \* what a row of the decl store holds
Frames == {"data", "buf"}     \* "buf": big frames themselves, in memory

\* A run: the last conflict it may create, the last declaration, the updates of
\* the scroll, the declarations that get signed frames, those whose frames go to
\* the data store, the updates queued when one begins, the loads going on at
\* once, the exits followed by a restart.
Bound == [cfids : Nat, seqs : Seqs, updates : Nat, signed : SUBSET Seqs,
          big : SUBSET Seqs, queue : Nat \ {0}, loads : Nat \ {0},
          crashes : Nat]
ASSUME BoundsAssumption ==
  /\ MaxSeq \in Nat /\ MaxCfid \in Nat /\ Div \in Seqs
  /\ \A b \in Bounds : /\ b \in Bound /\ b.cfids <= MaxCfid
                       /\ b.big \subseteq b.signed

Conflict == [parent: Cfid, pseq: Seqs \cup {-1}, top: Seqs \cup {-1},
             hist: History]

VARIABLES
  bound,    \* the bounds of this run
  conf,     \* scroll.conflict: the live conflicts
  nextc,    \* scroll.conflict.next_id
  mem,      \* the facts in memory, <<cfid, seq, fact>>
  hold,     \* who holds scroll.busy: "free", "put", "load" or "stuck"
  hload,    \* the declaration the "load" holder waits for
  merge,    \* the merge_single in progress
  saved,    \* conflict.db.data of each live conflict that has one
  loaded,   \* decl.db.cfid[cfid]: "no", "busy" or "yes"
  qdecl,    \* storage.queue_decl
  qrm,      \* storage.queue_cf_rm
  dbq,      \* storage.db_queue
  tx,       \* progress of the updater with the head of dbq
  asleep,   \* the updater waits for db_wakeup
  rows,     \* object store scroll
  decls,    \* object store decl, as facts
  blobs,    \* object store data: <<blob, cfid>>
  alive,    \* the process runs
  failure,  \* the last assertion that failed
  updates,  \* updates so far
  crashes,  \* exits so far
  torn,     \* history: stored conflicts that were already merged at a crash
  unwritten, \* history: blobs whose write an exit cut off
  dropped   \* history: facts a merge did not carry over

scrollVars == <<conf, nextc, mem, merge>>
lockVars == <<hold, hload, updates>>
queueVars == <<saved, qdecl, qrm>>
updaterVars == <<dbq, tx, asleep>>
dbVars == <<rows, decls, blobs>>
lifeVars == <<alive, failure, crashes, torn, unwritten>>
vars == <<scrollVars, lockVars, queueVars, updaterVars, dbVars, lifeVars,
          loaded, dropped>>

live == DOMAIN conf

NoMerge == [on |-> FALSE]
NoTx == [stage |-> "idle"]
Root == [parent |-> 0, pseq |-> -1, top |-> -1, hist |-> 0]
NewScroll == [c \in {0} |-> Root]

\* The conflicts of f, and those of g that f does not have.
Over(f, g) ==
  [c \in DOMAIN f \cup DOMAIN g |-> IF c \in DOMAIN f THEN f[c] ELSE g[c]]

\* Memory of a scroll just constructed; also what is left of one that exits.
EmptyMemory(c) ==
  /\ conf' = c
  /\ saved' = IF c[0].top = -1 THEN <<>> ELSE c
  /\ nextc' = 1 + CHOOSE m \in DOMAIN c : \A d \in DOMAIN c : d <= m
  /\ mem' = {}
  /\ hold' = "free"
  /\ hload' = <<0, 0>>
  /\ merge' = NoMerge
  /\ loaded' = [p \in Cfid \X Seqs |-> "no"]
  /\ qdecl' = {} /\ qrm' = {}
  /\ dbq' = <<>> /\ tx' = NoTx /\ asleep' = TRUE

Init ==
  /\ bound \in Bounds
  /\ conf = NewScroll /\ nextc = 1 /\ mem = {} /\ merge = NoMerge
  /\ hold = "free" /\ hload = <<0, 0>> /\ updates = 0
  /\ saved = <<>> /\ qdecl = {} /\ qrm = {}
  /\ loaded = [p \in Cfid \X Seqs |-> "no"]
  /\ dbq = <<>> /\ tx = NoTx /\ asleep = TRUE
  /\ rows = <<>> /\ decls = {} /\ blobs = {}
  /\ alive = TRUE /\ failure = "none" /\ crashes = 0 /\ torn = {}
  /\ unwritten = {} /\ dropped = {}

-----------------------------------------------------------------------------
(* Conflicts.                                                              *)

\* Scroll.to_c: the conflict that keeps declaration s of conflict c.
ToC(cf, c, s) ==
  LET up[d \in DOMAIN cf] == IF s <= cf[d].pseq THEN up[cf[d].parent] ELSE d
  IN  up[c]

Stored(c, s) == {f \in Facts : <<c, s, f>> \in decls}
InMem(c, s) == {f \in Facts \cup Frames : <<c, s, f>> \in mem}
Known(c, s) == InMem(c, s) \cup IF loaded[c, s] = "yes" THEN {} ELSE Stored(c, s)

\* Histories are told apart only above Div.
HistAt(h, s) == IF s <= Div THEN 0 ELSE h
Agree(c, d, s) == HistAt(conf[c].hist, s) = HistAt(conf[d].hist, s)

\* The conflict follows a history once it has a declaration above Div.
HistOf(c, s, h) == IF conf[c].top > Div THEN conf[c].hist ELSE HistAt(h, s)

\* decl.load has returned: loaded, or nothing to load.
Ready(c, s) == c \notin DOMAIN saved \/ loaded[c, s] = "yes"

-----------------------------------------------------------------------------
(* The lock, and the queue an update leaves behind.                        *)

Putting == alive /\ hold = "put" /\ ~merge.on

\* Scroll.lock and Storage_handler.begin_update on behalf of decl or put.
Lock ==
  /\ alive /\ hold = "free"
  /\ updates < bound.updates /\ Len(dbq) < bound.queue
  /\ hold' = "put"
  /\ updates' = updates + 1
  /\ UNCHANGED <<hload, scrollVars, queueVars, updaterVars, dbVars, lifeVars,
                 loaded, dropped>>

\* The conflicts whose row differs from the one last queued.
ChangedRows ==
  Restrict(conf, {c \in live : c \notin DOMAIN saved \/ saved[c] # conf[c]})

\* Faulty variant: the updater is not woken.
ScheduleDbUpdateSilent(e) == dbq' = Append(dbq, e) /\ UNCHANGED asleep

ScheduleDbUpdate(e) == dbq' = Append(dbq, e) /\ asleep' = FALSE

\* Storage_handler.end_update: an update is queued even if nothing changed.
EndUpdate ==
  IF conf[0].top = -1
  THEN UNCHANGED <<queueVars, dbq, asleep>>
  ELSE /\ ScheduleDbUpdate([cf |-> ChangedRows, rm |-> qrm, decl |-> qdecl])
       /\ saved' = conf
       /\ qdecl' = {}
       /\ qrm' = {}

\* Scroll.unlock.
Unlock ==
  /\ alive
  /\ \/ Putting
     \/ hold = "load" /\ loaded[hload] # "busy"
  /\ hold' = "free"
  /\ EndUpdate
  /\ UNCHANGED <<hload, updates, scrollVars, tx, dbVars, lifeVars, loaded,
                 dropped>>

-----------------------------------------------------------------------------
(* Updates of the scroll under the lock.                                   *)

\* put_verified or decl of a hash: below the top it completes the tree, and
\* above it makes a new top, for which the hashes of the old one are needed.
SetHash(c, s, h) ==
  /\ Putting
  /\ c \in live /\ s > conf[c].pseq /\ s <= bound.seqs
  /\ Ready(c, s)
  /\ <<c, s, "hash">> \notin mem
  /\ \/ s <= conf[c].top /\ h = conf[c].hist
     \/ /\ s > conf[c].top /\ h = HistOf(c, s, h)
        /\ \/ conf[c].top = -1 /\ s = 0
           \/ /\ conf[c].top >= 0
              /\ LET t == ToC(conf, c, conf[c].top)
                 IN  Ready(t, conf[c].top) /\ <<t, conf[c].top, "hash">> \in mem
  /\ mem' = mem \cup {<<c, s, "hash">>}
  /\ qdecl' = qdecl \cup {<<c, s>>}
  /\ conf' = IF s <= conf[c].top THEN conf
             ELSE [conf EXCEPT ![c].top = s, ![c].hist = h]
  /\ UNCHANGED <<nextc, merge, lockVars, saved, qrm, updaterVars, dbVars,
                 lifeVars, loaded, dropped>>

\* put_verified or decl of signed frames, whatever other conflicts have.
SetData(c, s) ==
  /\ Putting
  /\ c \in live /\ s \in bound.signed /\ s > conf[c].pseq
  /\ Ready(c, s)
  /\ <<c, s, "hash">> \in mem /\ <<c, s, "data">> \notin mem
  /\ mem' = mem \cup {<<c, s, "data">>}
               \cup IF s \in bound.big THEN {<<c, s, "buf">>} ELSE {}
  /\ qdecl' = qdecl \cup {<<c, s>>}
  /\ UNCHANGED <<conf, nextc, merge, lockVars, saved, qrm, updaterVars, dbVars,
                 lifeVars, loaded, dropped>>

\* put, when the best conflict c contradicts the diff or cannot be connected
\* to it: a conflict forks off after declaration p and gets declaration s.  If
\* it stays empty it is deleted, but its number is used.  Nothing forks off
\* after declaration 0 (PutFails).
Fork(c, p, s, h) ==
  /\ Putting
  /\ nextc <= bound.cfids
  /\ c \in live /\ p > 0 /\ p <= conf[c].top /\ p < s /\ s <= bound.seqs
  /\ <<ToC(conf, c, p), p, "hash">> \in mem
  /\ HistAt(h, p) = HistAt(conf[c].hist, p)
  /\ nextc' = nextc + 1
  /\ \/ /\ conf' = Over(conf, [d \in {nextc} |->
                         [parent |-> c, pseq |-> p, top |-> s,
                          hist |-> HistAt(h, s)]])
        /\ mem' = mem \cup {<<nextc, s, "hash">>}
        /\ qdecl' = qdecl \cup {<<nextc, s>>}
     \/ UNCHANGED <<conf, mem, qdecl>>
  /\ UNCHANGED <<merge, lockVars, saved, qrm, updaterVars, dbVars, lifeVars,
                 loaded, dropped>>

\* An assertion ends put before it unlocks.  What has only declaration 0 in
\* common with the best conflict would fork off there: notify_M fails, and the
\* conflict that nobody will look up any more, which has no top, is left out
\* here.  In find_max_common_m it depends on the diff, whatever is known.
PutFails ==
  /\ Putting
  /\ hold' = "stuck"
  /\ \/ /\ nextc <= bound.cfids
        /\ <<0, 0, "hash">> \in mem
        /\ nextc' = nextc + 1
        /\ failure' = "M0 exists only on b0"
     \/ /\ conf[0].top > 0
        /\ failure' = "m does not exists"
        /\ UNCHANGED nextc
  /\ UNCHANGED <<conf, mem, merge, hload, updates, queueVars, updaterVars,
                 dbVars, alive, crashes, torn, unwritten, loaded, dropped>>

\* merge_single, up to its first wait: the conflicts know the same hashes at
\* cseq, and i1 becomes the parent of i2.
BeginMerge(i1, i2, cseq) ==
  /\ Putting
  /\ i1 \in live /\ i2 \in live /\ i1 < i2
  /\ cseq > conf[i2].pseq /\ cseq <= conf[i1].top /\ cseq <= conf[i2].top
  /\ Agree(i1, i2, cseq)
  /\ <<i2, cseq, "hash">> \in mem
  /\ <<ToC(conf, i1, cseq), cseq, "hash">> \in mem
  /\ conf' = [conf EXCEPT ![i2].parent = i1]
  /\ merge' = [on |-> TRUE, dst |-> i1, src |-> i2, cseq |-> cseq,
               seq |-> conf[i2].pseq + 1]
  /\ UNCHANGED <<nextc, mem, lockVars, queueVars, updaterVars, dbVars,
                 lifeVars, loaded, dropped>>

\* The whole of src is merged if the common prefix reaches one of the tops.
FullMerge == merge.cseq \in {conf[merge.src].top, conf[merge.dst].top}
LastCopied == IF FullMerge THEN conf[merge.src].top ELSE merge.cseq

\* What a copy of declaration s leaves behind: facts of src that are stored
\* but not loaded, facts of the destination in the same state whose row will be
\* rewritten, and frames copied to a conflict that does not keep s.
LeftBehind(d, s) ==
  LET src == Known(merge.src, s) \ InMem(merge.src, s)
      dst == IF InMem(merge.src, s) \subseteq InMem(d, s) THEN {}
             ELSE Known(d, s) \ InMem(d, s)
      aside == IF d = merge.dst THEN {} ELSE InMem(merge.src, s) \cap {"data"}
  IN  {<<HistAt(conf[merge.src].hist, s), s, f>> : f \in src \cup dst \cup aside}

MovedFrames(s) == {<<merge.src, s, f>> : f \in Frames}

\* Faulty variants: the copied facts are not queued; the frames stay behind;
\* the hashes stay behind.
CopyFactsUnqueued(d, s) ==
  /\ mem' = (mem \ MovedFrames(s))
              \cup {<<d, s, f>> : f \in InMem(merge.src, s)}
  /\ UNCHANGED qdecl
CopyFactsHashOnly(d, s) ==
  LET hash == InMem(merge.src, s) \cap {"hash"} IN
  /\ mem' = (mem \ MovedFrames(s)) \cup {<<d, s, f>> : f \in hash}
  /\ qdecl' = qdecl \cup {<<d, s>> : f \in hash}

CopyFactsFramesOnly(d, s) ==
  LET moved == InMem(merge.src, s) \cap Frames IN
  /\ mem' = (mem \ MovedFrames(s)) \cup {<<merge.dst, s, f>> : f \in moved}
  /\ qdecl' = qdecl \cup {<<merge.dst, s>> : f \in moved}

\* Decl.copy and Data.copy: the hashes go to the conflict that keeps s, the
\* frames move to dst itself.
CopyFacts(d, s) ==
  LET hash == (InMem(merge.src, s) \ Frames) \ InMem(d, s)
      moved == InMem(merge.src, s) \cap Frames
  IN  /\ mem' = (mem \ MovedFrames(s))
                  \cup {<<d, s, f>> : f \in hash}
                  \cup {<<merge.dst, s, f>> : f \in moved}
      /\ qdecl' = qdecl \cup {<<d, s>> : f \in hash}
                        \cup {<<merge.dst, s>> : f \in moved}

\* Are there frames to copy, and frames at dst already?
Occupied(s) == /\ "data" \in InMem(merge.src, s)
               /\ "data" \in InMem(merge.dst, s)

CopyDecl ==
  /\ alive /\ hold = "put" /\ merge.on
  /\ merge.seq <= LastCopied /\ ~Occupied(merge.seq)
  /\ LET s == merge.seq
         d == ToC(conf, merge.dst, s)
     IN  /\ CopyFacts(d, s)
         /\ dropped' = dropped \cup LeftBehind(d, s)
         /\ merge' = [merge EXCEPT !.seq = s + 1]
         /\ conf' = IF s = merge.cseq
                    THEN [conf EXCEPT ![merge.src].pseq = s] ELSE conf
  /\ UNCHANGED <<nextc, lockVars, saved, qrm, updaterVars, dbVars, lifeVars,
                 loaded>>

\* The assertion of Data.copy, after the hashes have been copied.
CopyStuck ==
  /\ alive /\ hold = "put" /\ merge.on
  /\ merge.seq <= LastCopied /\ Occupied(merge.seq)
  /\ LET s == merge.seq
         d == ToC(conf, merge.dst, s)
         hash == (InMem(merge.src, s) \ Frames) \ InMem(d, s)
     IN  /\ mem' = mem \cup {<<d, s, f>> : f \in hash}
         /\ qdecl' = qdecl \cup {<<d, s>> : f \in hash}
         /\ dropped' = dropped \cup LeftBehind(d, s)
  /\ hold' = "stuck"
  /\ failure' = "already contain data"
  /\ UNCHANGED <<conf, nextc, merge, hload, updates, saved, qrm, updaterVars,
                 dbVars, alive, crashes, torn, unwritten, loaded>>

\* The assertion of conflict_update on the type of src, once the declarations
\* of the common prefix have been copied.  Types are not kept here: it may fail.
TypeStuck ==
  /\ alive /\ hold = "put" /\ merge.on
  /\ merge.seq = merge.cseq + 1
  /\ hold' = "stuck"
  /\ failure' = "real conflict type change"
  /\ UNCHANGED <<scrollVars, hload, updates, queueVars, updaterVars, dbVars,
                 alive, crashes, torn, unwritten, loaded, dropped>>

\* conflict_remove: the children of src become children of dst.
Heirs(cf) ==
  [c \in DOMAIN cf \ {merge.src} |->
     IF cf[c].parent = merge.src THEN [cf[c] EXCEPT !.parent = merge.dst]
                                 ELSE cf[c]]

\* notify_M of the new top of dst, in merge_single.
TopAfterMerge ==
  LET s == conf[merge.src] IN
  IF s.top > conf[merge.dst].top
  THEN [conf EXCEPT ![merge.dst].top = s.top, ![merge.dst].hist = s.hist]
  ELSE conf

\* The end of merge_single.  If dst takes over a top whose hash is not in
\* memory, the assertion in notify_M ends put, half merged, before it unlocks.
EndMerge ==
  /\ alive /\ hold = "put" /\ merge.on
  /\ merge.seq > LastCopied
  /\ LET top == conf[merge.src].top
         moves == top > conf[merge.dst].top
     IN  \/ /\ ~FullMerge
            /\ merge' = NoMerge
            /\ UNCHANGED <<conf, mem, hold, saved, qrm, failure>>
         \/ /\ FullMerge
            /\ moves => <<ToC(conf, merge.dst, top), top, "hash">> \in mem
            /\ merge' = NoMerge
            /\ conf' = Heirs(TopAfterMerge)
            /\ mem' = {m \in mem : m[1] # merge.src}
            /\ saved' = Restrict(saved, DOMAIN saved \ {merge.src})
            /\ qrm' = qrm \cup ({merge.src} \cap DOMAIN saved)
            /\ UNCHANGED <<hold, failure>>
         \/ /\ FullMerge
            /\ moves /\ <<ToC(conf, merge.dst, top), top, "hash">> \notin mem
            /\ conf' = TopAfterMerge
            /\ hold' = "stuck"
            /\ failure' = "notify_M"
            /\ UNCHANGED <<merge, mem, saved, qrm>>
  /\ UNCHANGED <<nextc, hload, updates, qdecl, updaterVars, dbVars, alive,
                 crashes, torn, unwritten, loaded, dropped>>

-----------------------------------------------------------------------------
(* Loading declarations.                                                   *)

Merging(c) == merge.on /\ merge.src = c

\* A merge moved the top of the row of c to another conflict, and a later
\* transaction rewrites the row.
TopMoved(c) == c \in live /\ rows[c].top <= conf[c].pseq

\* The blobs that the updater is about to write.
Pending == IF tx.stage = "blobs" THEN {p[1] : p \in tx.blob} ELSE {}

\* The process ends: on its own (xexit) or not.  A conflict that memory had
\* merged, or was merging, and the database still has is torn.
Exit ==
  /\ alive' = FALSE
  /\ crashes' = crashes + 1
  /\ torn' = torn \cup
       {c \in DOMAIN rows : c \notin live \/ Merging(c) \/ TopMoved(c)}
  /\ unwritten' = unwritten \cup Pending
  /\ dropped' = {}
  /\ EmptyMemory(NewScroll)
  /\ UNCHANGED <<updates, dbVars>>

\* decl.load of a task that does not hold the lock, or of the holder itself:
\* put also asks for the declarations it is about to add.  The lock is taken
\* only if nobody holds it.
BeginLoad(c, s) ==
  /\ alive
  /\ c \in DOMAIN saved /\ c \in live /\ ToC(conf, c, s) = c
  /\ s <= conf[c].top \/ (Putting /\ s <= bound.seqs)
  /\ \/ hold = "free" /\ loaded[c, s] # "yes" /\ Len(dbq) < bound.queue
     \/ hold # "free" /\ loaded[c, s] = "no"
  /\ Cardinality({p \in DOMAIN loaded \ {<<c, s>>} : loaded[p] = "busy"}) < bound.loads
  /\ loaded' = [loaded EXCEPT ![<<c, s>>] = "busy"]
  /\ hold' = IF hold = "free" THEN "load" ELSE hold
  /\ hload' = IF hold = "free" THEN <<c, s>> ELSE hload
  /\ UNCHANGED <<updates, scrollVars, queueVars, updaterVars, dbVars, lifeVars,
                 dropped>>

\* The answer of the database: new facts are put in memory, which asserts that
\* an update is going on, and that the conflict is still there.
EndLoad(c, s) ==
  LET new == Stored(c, s) \ InMem(c, s)
      fails == IF Stored(c, s) # {} /\ c \notin live THEN "load_cfid"
               ELSE IF new # {} /\ hold = "free" THEN "on_decl_update"
               ELSE "none"
  IN  /\ alive /\ loaded[c, s] = "busy"
      /\ \/ /\ fails = "none"
            /\ mem' = mem \cup {<<c, s, f>> : f \in new}
            /\ loaded' = [loaded EXCEPT ![<<c, s>>] = "yes"]
            /\ UNCHANGED <<conf, nextc, merge, lockVars, queueVars,
                           updaterVars, dbVars, lifeVars, dropped>>
         \/ /\ fails # "none"
            /\ failure' = fails
            /\ Exit

-----------------------------------------------------------------------------
(* The updater.                                                            *)

\* A transaction begins: the keys of queue_decl are read one by one, by seq,
\* then cfid.
TxBegin ==
  /\ alive /\ ~asleep /\ tx.stage = "idle" /\ dbq # <<>>
  /\ tx' = [stage |-> "read", todo |-> Head(dbq).decl, done |-> {},
            facts |-> {}, blob |-> {}]
  /\ UNCHANGED <<scrollVars, lockVars, queueVars, dbq, asleep, dbVars, lifeVars,
                 loaded, dropped>>

Before(p, q) == p[2] < q[2] \/ (p[2] = q[2] /\ p[1] <= q[1])

Blob(h, s) == <<HistAt(h, s), s>>

\* The row is made of what memory knows now; it is skipped if the conflict is
\* gone or no longer keeps the declaration.
TxRead ==
  /\ alive /\ tx.stage = "read"
  /\ \E p \in tx.todo :
       /\ \A q \in tx.todo : Before(p, q)
       /\ IF p[1] \in live /\ ToC(conf, p[1], p[2]) = p[1]
          THEN tx' = [tx EXCEPT
                 !.todo = @ \ {p}, !.done = @ \cup {p},
                 !.facts = @ \cup {<<p[1], p[2], f>> :
                                     f \in InMem(p[1], p[2]) \cap Facts},
                 !.blob = @ \cup IF "buf" \in InMem(p[1], p[2])
                                 THEN {<<Blob(conf[p[1]].hist, p[2]), p[1]>>} ELSE {}]
          ELSE tx' = [tx EXCEPT !.todo = @ \ {p}]
  /\ UNCHANGED <<scrollVars, lockVars, queueVars, dbq, asleep, dbVars, lifeVars,
                 loaded, dropped>>

\* Faulty variant: the rows of removed conflicts are left in the database.
CommitRowsKeep(e) == rows' = Over(e.cf, rows)

CommitRows(e) == rows' = Over(e.cf, Restrict(rows, DOMAIN rows \ e.rm))

\* Faulty variant: the declarations are left to a later transaction.
CommitDeclsLater(e) == decls' = {d \in decls : d[1] \notin e.rm}

CommitDecls(e) ==
  decls' = {d \in decls : d[1] \notin e.rm /\ <<d[1], d[2]>> \notin tx.done}
             \cup tx.facts

TxCommit ==
  /\ alive /\ tx.stage = "read" /\ tx.todo = {}
  /\ CommitRows(Head(dbq))
  /\ CommitDecls(Head(dbq))
  /\ tx' = [tx EXCEPT !.stage = "blobs"]
  /\ UNCHANGED <<scrollVars, lockVars, queueVars, dbq, asleep, blobs, lifeVars,
                 loaded, dropped>>

\* Each blob is written on its own after the transaction.  The code runs over
\* the indices of o.cfid, so it is the conflicts 0, 1... that are recorded.
TxBlob ==
  /\ alive /\ tx.stage = "blobs"
  /\ \E b \in {p[1] : p \in tx.blob} :
       LET owners == {p \in tx.blob : p[1] = b} IN
       /\ blobs' = blobs \cup
            {<<b, i>> : i \in (0 .. Cardinality(owners) - 1) \cap live}
       /\ tx' = [tx EXCEPT !.blob = @ \ owners]
  /\ UNCHANGED <<scrollVars, lockVars, queueVars, dbq, asleep, rows, decls,
                 lifeVars, loaded, dropped>>

TxEnd ==
  /\ alive /\ tx.stage = "blobs" /\ tx.blob = {}
  /\ dbq' = Tail(dbq)
  /\ tx' = NoTx
  /\ asleep' = (Len(dbq) = 1)
  /\ UNCHANGED <<scrollVars, lockVars, queueVars, dbVars, lifeVars, loaded,
                 dropped>>

-----------------------------------------------------------------------------
(* Exits and restarts.                                                     *)

Crash ==
  /\ alive /\ crashes < bound.crashes
  /\ UNCHANGED failure
  /\ Exit

\* Storage_handler.init: load_conflict rebuilds the conflicts from their rows.
Restart ==
  /\ ~alive /\ crashes <= bound.crashes
  /\ alive' = TRUE
  /\ EmptyMemory(IF DOMAIN rows = {} THEN NewScroll ELSE rows)
  /\ UNCHANGED <<updates, dbVars, failure, crashes, torn, unwritten, dropped>>

-----------------------------------------------------------------------------
Update ==
  \/ \E c \in live, s \in Seqs, h \in History : SetHash(c, s, h)
  \/ \E c \in live, s \in Seqs : SetData(c, s)
  \/ \E c \in live, p, s \in Seqs, h \in History : Fork(c, p, s, h)
  \/ \E i1, i2 \in live, s \in Seqs : BeginMerge(i1, i2, s)
  \/ PutFails
MergeStep == CopyDecl \/ CopyStuck \/ TypeStuck \/ EndMerge
Load == \E c \in live, s \in Seqs : BeginLoad(c, s)
Loaded == \E c \in Cfid, s \in Seqs : EndLoad(c, s)
Updater == TxBegin \/ TxRead \/ TxCommit \/ TxBlob \/ TxEnd

Next ==
  /\ UNCHANGED bound
  /\ Lock \/ Unlock \/ Update \/ MergeStep \/ Load \/ Loaded \/ Updater
     \/ Crash \/ Restart

Spec == Init /\ [][Next]_<<vars, bound>>

\* A put comes to its end, and the database answers.
FairSpec ==
  /\ Spec
  /\ WF_vars(Unlock) /\ WF_vars(MergeStep)
  /\ WF_vars(Loaded) /\ WF_vars(Updater)

-----------------------------------------------------------------------------
\* Type invariant; the parent of a conflict is a live conflict made before it.
TypeOK ==
  /\ live \subseteq Cfid /\ 0 \in live
  /\ \A c \in live :
       /\ conf[c] \in Conflict
       /\ conf[c].parent \in live
       /\ c # 0 => conf[c].parent < c
  /\ nextc \in 1 .. MaxCfid + 1
  /\ mem \subseteq Cfid \X Seqs \X (Facts \cup Frames)
  /\ hold \in {"free", "put", "load", "stuck"}
  /\ hload \in Cfid \X Seqs
  /\ DOMAIN saved \subseteq live
  /\ loaded \in [Cfid \X Seqs -> {"no", "busy", "yes"}]
  /\ qdecl \subseteq Cfid \X Seqs /\ qrm \subseteq Cfid
  /\ \A i \in DOMAIN dbq : dbq[i].rm \subseteq Cfid
  /\ tx.stage \in {"idle", "read", "blobs"}
  /\ DOMAIN rows \subseteq Cfid
  /\ decls \subseteq Cfid \X Seqs \X Facts
  /\ blobs \subseteq (History \X Seqs) \X Cfid
  /\ alive \in BOOLEAN /\ asleep \in BOOLEAN
  /\ torn \subseteq Cfid
  /\ dropped \subseteq History \X Seqs \X Facts

\* Will this declaration be written, with what memory knows, by the updater?
Scheduled(c, s) ==
  \/ <<c, s>> \in qdecl
  \/ \E i \in DOMAIN dbq :
       /\ <<c, s>> \in dbq[i].decl
       /\ i = 1 => tx.stage = "idle" \/ (tx.stage = "read" /\ <<c, s>> \in tx.todo)

\* Is this fact part of the transaction being built?
InTx(m) == tx.stage = "read" /\ m \in tx.facts

\* Has the merge in progress copied this declaration to another conflict?
Copied(c, s) == Merging(c) /\ s < merge.seq

\* Did a merge leave the frames of the declaration behind?  Its row is then
\* rewritten without them, even if a load brings them to memory in the meantime.
LeftOut(s, f) == f = "data" /\ \E h \in History : <<h, s, f>> \in dropped

\* What memory knows of a declaration is in the database, in the transaction
\* being built or scheduled for a later one: no update is forgotten between
\* on_decl_update, end_update and the updater, whatever merges in between.
DurableOrScheduled ==
  \A m \in mem :
     (/\ m[1] \in live /\ ToC(conf, m[1], m[2]) = m[1] /\ m[3] \in Facts
      /\ ~Copied(m[1], m[2]))
       => \/ m \in decls \/ InTx(m) \/ Scheduled(m[1], m[2])
          \/ LeftOut(m[2], m[3])

\* Scroll.flush: once the queue is empty and no update is going on, the rows of
\* the database are the conflicts and hold all that memory knows of each, but
\* for what a merge left behind.
FlushedMeansStored ==
  (alive /\ hold = "free" /\ dbq = <<>>) =>
    /\ conf[0].top >= 0 => rows = conf
    /\ \A m \in mem : ToC(conf, m[1], m[2]) = m[1] /\ m[3] \in Facts
                        => m \in decls \/ LeftOut(m[2], m[3])

\* What load_conflict relies on: a stored conflict has its parent stored, so
\* that a restart at any point can rebuild the conflicts.
ParentStored ==
  \A c \in DOMAIN rows : rows[c].parent \in DOMAIN rows

\* A stored conflict has the hash of its top stored, unless it is merged in
\* memory up to there and its removal, or its new row, is still to be written,
\* or was so at an exit.
TopStored ==
  \A c \in DOMAIN rows :
     \/ <<ToC(rows, c, rows[c].top), rows[c].top, "hash">> \in decls
     \/ Merging(c) \/ TopMoved(c)
     \/ c \in qrm \/ \E i \in DOMAIN dbq : c \in dbq[i].rm
     \/ c \in torn

\* What the scroll knows of its histories, in memory or to load: of each
\* conflict up to its top, and of what a merge has already copied.
WhatIsKnown ==
  LET seqsOf(c) == (0 .. conf[c].top)
                     \cup IF merge.on /\ c = merge.dst
                          THEN 0 .. merge.seq - 1 ELSE {}
      histOf(c, s) == IF s <= conf[c].top THEN HistAt(conf[c].hist, s)
                                          ELSE HistAt(conf[merge.src].hist, s)
  IN  UNION {{<<histOf(p[1], p[2]), p[2], f>> :
                f \in Facts \cap Known(ToC(conf, p[1], p[2]), p[2])} :
             p \in {q \in live \X Seqs : q[2] \in seqsOf(q[1])}}

\* Short of an exit, the scroll forgets nothing it ever knew or stored, through
\* any sequence of updates, loads, forks and merges, but for what a merge left
\* behind: facts not in memory, and frames put aside by Data.copy.
NothingForgotten ==
  [][alive /\ alive' => WhatIsKnown \subseteq WhatIsKnown' \cup dropped']_vars

\* Frames kept in the data store are there once their row is, unless they are
\* among those that the updater is about to write, or that it was when an exit
\* came between the commit of a row and the blobs after it: nothing else may
\* lose them, before an exit or after one.
BlobStored ==
  \A c \in DOMAIN rows, s \in bound.big :
     LET b == Blob(rows[c].hist, s) IN
     (s <= rows[c].top /\ <<c, s, "data">> \in decls)
       => \/ \E i \in Cfid : <<b, i>> \in blobs
          \/ b \in Pending \cup unwritten

\* The database can be loaded again after an exit at any point: conflicts with
\* their parents, their tops and their data, but for the frames whose write
\* that exit cut off (storage.js:99-137, 264-300).
StoredWhole == TypeOK /\ ParentStored /\ TopStored /\ BlobStored

\* What memory knows when nobody updates the scroll ends up in the database if
\* the process lives, also when a later put fails and leaves the scroll locked,
\* unless the declaration goes to another conflict (storage.js:60-137).
EventuallyStored ==
  \A c \in Cfid, s \in Seqs, f \in Facts :
     (alive /\ hold = "free" /\ <<c, s, f>> \in mem)
       ~> (~alive \/ c \notin live \/ <<c, s, f>> \in decls
             \/ (c \in live /\ ToC(conf, c, s) # c)
             \/ (hold = "stuck" /\ Copied(c, s)))

\* The assertions that do end a put before it unlocks (scroll.js:609, 84, 934
\* and 1040).
KnownFailures == {"M0 exists only on b0", "already contain data",
                  "m does not exists", "real conflict type change"}

\* The lock is released in the end, but for the four assertions that end put
\* while it holds it.  Short of an exit that is all: a merge finds the hash of
\* the top that it takes over, so that notify_M does not fail (scroll.js:618).
LockReleased ==
  (hold # "free") ~> (hold = "free" \/ (hold = "stuck" /\ failure \in KnownFailures))

\* The assertion of on_decl_update: facts are set while an update goes on.
LoadsEndInUpdate == failure # "on_decl_update"
=============================================================================
