# lif-net: models, checks and proofs

This directory holds TLA+ models of lif-net, the configurations that check them
with TLC, and proofs of their main properties checked by TLAPS. Paths below are
those of the repository; `src/` is its root.

lif-net is a peer-to-peer network in JavaScript (`net/`) and an append-only,
signed, Merkle-hashed log, the *scroll* (`storage/`), on which a file system
(`fs/`) and an importer of git repositories are built. All of it runs on one
event loop: there are no threads, but every `yield` of an `etask` and every
message or database answer is a point where something else may run first.

## 1. Inventory

| Component | State | Operations | Interacts with |
|---|---|---|---|
| Requests and responses `net/req.js`, `net/req_handler.js` | `reqs`; per node and command `req_handler`, `res`; sequence numbers, acknowledgements, timers, messages held back | `Req.send/close`, `Res.send/close`, `res_handler`, `req_handler_cb`, timers, destruction of a node | sends through the router, which calls back with what arrives |
| Router `net/router.js` | `pending_ack`, tracked requests and acknowledgements, round-trip times | `send_msg`, `_on_msg`, `track`, `track_ack` | channels of the node, the routing table |
| Routing table `net/node_map.js`, `net/node_id.js` | known nodes, connections, graph of round-trip times | `find_next/prev`, `build_rtt_graph`, `NodeItr`, `del_conn` | filled by node and router |
| Node and connections `net/node.js`, `net/channels.js`, `net/ws.js`, `net/wrtc.js` | table of peers, listeners, sockets | connect, `_onConnection`, close | callbacks of sockets and WebRTC |
| Message layers `net/lbuffer.js`, `net/buf_util.js` | none | encode, decode, sign, verify | everything that sends |
| Scroll `storage/scroll.js`, `storage/soul.js` | conflicts and their tops, declarations with hashes (M, m), signatures and frames, the lock | `decl`, `put`, `merge_all`, `load`, `flush` | emits events to storage, branch tables and index, and waits for them |
| Scroll lock and storage `storage/storage.js` | `queue_decl`, `queue_cf_rm`, `db_queue`, `db_wakeup`, `decl.db`; stores `scroll`, `decl`, `data` | `begin_update`, `end_update`, `db_updater`, `load_cfid`, `load_conflict` | the updater task writes while the next update goes on |
| Branch table `storage/branch.js`, `storage/mem_map.js` | AVL tree of sections, tops of branches, schedule of rows | `add`, `_merge`, `get_bseq`, `find_avail_branch`, `row_from_static` | filled by the scroll's data events, flushed by storage |
| Merkle ranges `storage/range.js`, part of `storage/scroll.js` | roots and nodes of each declaration | `r_parent`, `r_split`, `calc_hash`, `update_mergeable` | decide forks and merges |
| Index `storage/index.js` | ordered index in memory and in the database | `on_data`, `find_*` | scroll data events, storage |
| Database wrapper `storage/db.js`, `storage/conf.js` | connections, request queue | get, put, cursor | IndexedDB (external) |
| File system `fs/fs.js`, `fs/util.js` | none of its own | `add_dir`, `rm_dir`, `add_file`, `mod_file`, `rm_file`, `get_file`, `ls_iter` | `decl` on a scroll, the index |
| git import `fs/git.js`, `fs/git_util.js` | what it has declared, `merge_queue` during a sync | `sync`, `verify_git` | reads a git repository; file system, `decl` and searches of a scroll |
| etask `util/etask.js` | tree of tasks, waiting, continue | `wait`, `continue`, `return`, `finally` | everything |
| Events, rate limits, buffers `util/events_async.js`, `util/rate_limit.js`, `util/buf_pool.js` | listeners, windows, free buffers | emit, check, alloc and free | net and storage |
| Utilities, certificates, DNS, programs | configuration | formats, I/O, entry points | - |

What is hard, and what makes each component correct:

* **Requests.** The network loses, delays, reorders and repeats. Each direction
  must hand over every number once and in order; a timer may only be stopped by
  an acknowledgement of something that arrived; a lost message must end in `fail`.
* **Connections and routing.** Two nodes dial each other at once, hang up or are
  destroyed while messages are on their way. When all has arrived both ends must
  agree on who is connected. Each node routes with what it has heard itself:
  what it believes of a message it tracks must be so, and messages that are
  passed on must come to an end although no two tables agree.
* **Scroll and storage.** An update of the scroll, the updater writing earlier
  updates, loads from the database and the exit of the process interleave. All
  that memory knows must be stored or be on its way; a merge must forget
  nothing; what is stored must be enough to start again, at any moment.
* **Conflicts and Merkle ranges.** Diffs bring hashes of any ranges, in any
  order, of any of several histories, some of them damaged. What is taken for
  one line must be of one history, forks must stand where the histories part,
  and what is known must survive every fork, move and merge.
* **Branch table.** Declarations arrive in any order, sections grow and join,
  rows are scheduled and unscheduled, and a flush may be skipped. The table must
  not depend on the order, and rows, waiting updates and schedule must always
  add up to it.
* **Index and file system.** A search goes through a tree in memory and rows in
  the database at the same time and remembers where there is nothing, while
  declarations are added and loaded. It must find each row once and in order. A
  tree of files is many declarations: it must stay a tree through branches and
  crashes, and its contents, which are links and differences, must read back.
* **git import.** A sync is many declarations, branches of git come, are
  rewritten and go, and an exit may cut a sync anywhere. Each commit of the
  scroll must have the files and the parent it has in git, and the next sync
  must be able to go on.
* **etask.** A task is continued, returned or failed from anywhere at any time.
  No state may run inside another of its task, no wake-up may be lost, and a
  cancelled task must take with it what hangs under it.

`PROJECT.json` lists the hazards of the code one by one, at the line where each
bites, with the properties that would catch it or the reason why none does.

## 2. Plan

| | Modules | State |
|---|---|---|
| 1 | `OrderedStream`, `ReqStream`, `ReqStreamProofs`: a request and its response, refining an abstract ordered stream | modelled, checked, safety and both refinements proved |
| 2 | `ScrollStorage`, `ScrollStorageProofs`, `ScrollKnownProofs`: conflicts, lock, queue, updater, loads, exit and restart | modelled, checked, safety proved |
| 3 | `BranchNames`, `BranchTable`, `BranchTableProofs`: the table, its rows | modelled, checked, proved |
| 4 | `MerkleRanges`, `ScrollConflicts`: ranges, and how `put` verifies, forks and merges | modelled, checked |
| 5 | `NodeId`, `NodeMap`, `Router`, `Connections`, `Net`, `NetProofs`, `NetRoutesProofs`: nodes with connections, routers and routing tables | modelled, checked, safety proved |
| 6 | `ScrollIndex`, `ScrollFS`: searches over memory and database, files and directories | modelled for one operation at a time, checked |
| 7 | `Etask`, `EtaskProofs`, `EtaskTreeProofs`: the tasks everything runs on | modelled, checked, that states do not nest and that the tree is right proved |
| 8 | `GitSync`: a git repository on a scroll | modelled, checked |

Left for later, the most useful first:

* An abstract set of facts, durable once flushed, that `ScrollStorage`
  implements: the theorems of `ScrollStorage` are the parts of it.
* Several operations of the file system and the index at once, and an index
  over several conflicts.
* The chain of a branch table to that of a parent conflict.
* `ReqStream` over `Net` instead of a network that may do anything.

## 3. Modules

### OrderedStream, ReqStream

`OrderedStream` is what one direction promises: the application has been handed
exactly the longest gapless prefix of what arrived.

`ReqStream` models one request. Side `"req"` is the `Req`, side `"res"` the
`Res` that answers it. The state is indexed by side:

| Variable | Code |
|---|---|
| `live` | `reqs[req_id]` is set |
| `handler`, `known` | the handler of the command; the `Res` of this request is registered |
| `seq`, `ack`, `sent` | next number, numbers to acknowledge, running timers |
| `ooo`, `next` | messages held back; `res_seq + 1` of a `Req`, `req_seq` + 1 of a `Res` |
| `net`, `dups` | messages in flight, duplications so far |
| `over`, `arrived`, `untracked`, `cleared`, `emits` | what the application and the properties need to remember |

`ReqSend` and `ResSend` are the two `send` methods with their close and end
options and any choice of acknowledgements; `ResHandler` and `ReqHandlerCb` are
the two handlers with `emit_ooo`, `push_ooo` and `emit_ooo_queue`; `Ignore` is
their early returns; `ReqTimeout`, `ResTimeout`, `ReqClose` and `ResDestroy` are
the timers and the ends. The 20 s of a timer are abstracted: it may fire at any
moment. A message is lost by never being delivered.

### ScrollStorage

A scroll in memory, its database and the updater between them. A declaration is
abstracted to two facts, its hashes and its signed frames, of one of two real
histories that agree up to `Div`; a conflict follows one history. Kinds of
actions: `Lock`, `Unlock` (with all of `end_update`); under the lock `SetHash`,
`SetData`, `Fork` and the merge `BeginMerge`, `CopyDecl`, `EndMerge`, one step
per declaration because the code yields in between; the assertions that end a
put with the lock held, `PutFails`, `CopyStuck`, `TypeStuck` and one case of
`EndMerge` (`hold` is `"stuck"`, `failure` says which); `BeginLoad` and `EndLoad`,
a database read that any task may start; the updater `TxBegin`, `TxRead`,
`TxCommit`, `TxBlob`, `TxEnd`; `Crash` and `Restart`. The rows of a transaction
appear at its commit; blobs are written one by one after it.

`torn`, `unwritten` and `dropped` are history: conflicts whose removal, or whose
lower top, was cut off by an exit; frames that the updater was about to write
when an exit came; and facts that a merge leaves behind because they are
only in the database or because `Data.copy` moves frames to a conflict that does
not keep the declaration. Whether a type changes (`TypeStuck`) and whether a
diff contradicts itself (`PutFails`) depends on what is not modelled here, so
that both may happen whenever the code gets there; `ScrollConflicts` says when
they do. Properties name them so that the reader sees exactly
what the code gives up. A partial merge may even come between the moment an
update is queued and its transaction: the updater then skips the declaration of
the old top (`storage/storage.js:112`), and the row that still names that top is
corrected by the next update only (`TopMoved`).

The model lets a load end while a transaction has read and not committed.
IndexedDB orders transactions on the same store, so that this is more than the
program does: it is the reason for `LeftOut` in `FlushedMeansStored` (a merge
copies a hash to a declaration that is not loaded, the row is read, a load
brings its frames, the commit rewrites the row without them).

### BranchNames, BranchTable

`BranchNames` is the numbering of `decl`: the next number of the branch that
`prev` ends, or the first branch after `prev` that is free. A bseq is
`[b |-> branch, i |-> number]`. `MCBranchTable` builds from it every history of
four declarations and checks that no two get the same bseq; the recursion of
this enumeration stays in the MC module's side, and the proofs never see it.

`BranchTable` is `Branch_table.add` (`AddToPrev` with `_merge` as `Extend` or
`Join`, `AddToNext`, `AddSection`), the schedule, `end_update` with its skip of
a conflict whose row did not change, the updater and the reload. Declarations
arrive by `Put` in any order and, after a restart, by `Load` in any order.
`flushed` is history: the table when the schedule was last taken, the same thing
each waiting update carries as `snap`.

### NodeId, NodeMap, Router, Connections, Net

`NodeId` is the ring: places, distances, ranges and the cost of a route, which
is its round-trip time for each bit of distance it saves. The logarithm is a
table, `Bits`. `NodeMap` is the routing table of one node: the connections it
has heard of, the graph of shortest routes (`BuildRttGraph`, the loop over a
queue in the code), the order in which `NodeItr` goes round a place, and the two
searches of a route. `Router` is `net/router.js`, as operators on a record: each
takes the router of a node and gives the new one, the frames to send and what is
handed to the node (`[r, out, up]`); `OnMsg`, `Send`, `Track` and `TrackAck`
have the names of the code. Layers `fwd` around a message are its `hops`.

`Connections` is the table of peers over sockets: `Dial`, `Connect` and
`OnConnInfo`, `Open` and `Duplicate` (the two ends of `_onConnection`),
`Receive`, `OnClose`, `Disconnect`, `Stop`. An end greets with its id; the
channel is open when the other id has come. `Net` composes the two: every frame
is given to the router in the step that takes it, and the frames that the router
sends leave in the same step, as they do in the code. `todo` is a plan of
messages that the application sends, each once. A response is sent when its
request has come, and the numbers that a message acknowledges are of messages
that have come (`net/req.js:78-113`). `ScenariosAssumption` says what a network
may start from: one socket for each link, and no request number that is used
for messages of two types or that is one of a connect request. A message may be
for an id that no node has.

### MerkleRanges, ScrollConflicts

`MerkleRanges` has the aligned ranges over declarations: `CalcRoots`,
`RParent`, `RSplit`, `MerkelRanges`. `ScrollConflicts` is `Scroll.put` on a
scroll without a database, one step per diff: `put_single` with the sketch of
the hash of a top (`SketchM`, `SketchTop`), the comparison with conflicts
(`CommonRange`, `Common`, `BestConflict`), `Verify`, the fork of a new conflict,
`calc_hash` on what becomes known (`OnHash`, `OnHashes`), and `merge_all` with
`MergeSingle`, `Reparent`, `Retype` and `Absorb`. The hash of a range is the
sequence of its leaves and a signature is the history that made it, so that two
hashes are equal exactly when they are of the same declarations. A diff is a
function from `<<kind, range>>` to values, and a history is a copy of another up
to the declaration where it parts from it, which may be 0: then only declaration
0 is shared. `Fail` is an assertion inside `put`: it ends the put between `lock`
and `unlock`, so that no other put follows, and `failed` keeps its text.

### ScrollIndex, ScrollFS

`ScrollIndex` is the search of `storage/index.js`. Its state `st` is a record:
`hist` the declarations, `stored` how many are flushed, `mem` which are loaded
(the sections of `Mem_map`), `nodes` the tree in memory with its `dn` and `up`.
`MemNext` and `DbNext` are the two iterators, `IndexNext` the one that merges
them, `FindNext` goes on to the branch the last one comes from. `ScrollFS` has
one action for each operation of `fs/fs.js`, composed of searches and `Decl`s in
the order of the code, the checks before them included; an operation that
throws leaves `err` and what it had declared. `Restart` keeps any first part of
what was declared since the last flush, because the transactions are in that
order. Contents are `v1` .. `v3`, of which two are `Close`: a change from one to
the other is stored as a difference, any other whole or as a link to a
declaration that has it.

### GitSync

`GitSync` is `Git.sync` on a scroll of its own, `hist`, whose declarations are
numbered by `BranchNames`. The steps are the turns of the loops of `sync`, in
their order (`job.pc`): branches that are gone are removed (`Prune`), the
commits of each branch follow (`Branch`, `Commit`, `BranchEnd`), then what was
merged from branches that are gone (`MergedBranch`), tags and head. `Commit` is
one turn of `_sync_commits`: `SyncDir` threads what `_sync_dir` threads, the
declaration to follow (`prev`) and the number of what it declared. `NewSetBranch`
goes on at the end of a removed branch or opens one; `RmBranch`, `AvailBranch`,
`HeadBranch` and the others have the names of the code. Searches are what
`ScrollIndex` checks of them: the newest or the oldest row, of a branch and what
it comes from or of all. `Restart` keeps any first part of what the sync has
declared, because the storage writes declarations in order; with `hist` all else
in memory is lost, `merge_queue` too. After it rows that were stored may be read
with a cursor of the database, and `_sync_dir` and `rm_dir` remove while they
list: if the row ahead of the removed one is from the database (`CursorOpen`),
the next turn throws (`NextRow`), as in `ScrollFS`. How many of the old rows have
been read since the restart is chosen anew for each commit (`cold`). `Begin` reads the repository, which is
external, and may find anything pushed since; `world` says what that can be.
`astray` is history: a commit looked for a path on, or declared to, another
branch than its own in a way that mattered.

### Etask

`Etask` keeps the call stack that the nested calls of `util/etask.js` make:
`Next_run`, `Got_retval`, `After`, `Resume`, `Complete`, `Cancel`, `EmitChild`
and `Leave` each run the frame on top and push the calls it makes. `States` are
the lists of states of the kinds of tasks there are, `Generator`, `For`,
`AllOf` and `AllLimit` the states that the library itself is made of, and the
actions under `UserCode` what a state of a user may do: call, spawn, start
several, join, wait with and without a timeout, cancel, then, return or fail.
`Outside` is what comes when the stack is empty: a tick, a timer, an answer, an
alarm, a continue or a return by somebody else. `_parent_remove` and
`_check_free` call each other up the tree; `ParentRemove` is the same climb, of at
most `NumTasks` steps. `failed` says which assertion has stopped the run: `"down"`
of `_set_down`, `"root"` of `_root_remove`.

A task has one handle for the timer of its wait. `timer` says that a timer with
that handle runs, `stray` counts the timers that run without one: setting a
timer over one that runs (`SetWaitTimer`) takes its handle, and nothing stops the
first any more. A generator may return its wait (`FinishWait`): the code then
waits without a listener on its children and without a timer
(`util/etask.js:376`), so that only somebody who continues the task itself ends a
returned wait for children (`"deaf"`).

## 4. Runs

| Run | Instance | What it shows |
|---|---|---|
| `req_stream` | 3 messages a side, one duplication of anything but a start | order, exactly-once, every message has a timer or arrived, both directions implement `OrderedStream` |
| `req_stream_live` | 3 messages, no duplication, fair timers | a message is delivered or the request ends; a plain request ends |
| `scroll_storage` | 2 declarations, 2 updates; 2 conflicts with a queue of 2, 2 loads, frames in the data store and one exit; or 3 conflicts without exit | what is known is stored or scheduled; a flush means stored; parents, tops and blobs are stored, after an exit too, but for what `torn` and `unwritten` name; nothing is forgotten but what `dropped` names |
| `scroll_live` | 2 conflicts, 2 declarations above the first and 2 updates, or 3 and 1; no exit, fair | the lock is released but for four known assertions; what is known while nobody updates is stored in the end, also when a later put fails |
| `scroll_load_race` | one exit | **violation**: a load ends outside any update and asserts |
| `branch_table` | 4 declarations, all their histories, queue of 2, two restarts | sections are the longest runs; lookups and tops are right; rows follow the table |
| `net` | 3 nodes in a line with one event, or 2 that are not connected and two events; ring of 16, at most 3 hops | ends agree on their peers; acknowledgements and states of requests are true; the routes of each table are the shortest over the connections it knows, which is not to say that a message arrives, and ranges keep the id they are for; in the end nothing is under way |
| `etask` | eleven kinds of programs, 4 tasks, 3 or 4 operations of the user | what is called hangs under nobody and what has ended keeps no timer it could stop, states do not nest, the tree is right, no wake-up is lost but by a generator that returned a wait for its children, cancel reaches all, limits and joins hold |
| `scroll_conflicts` | 6 declarations, 2 to 4 histories that part at 0 or later, up to 5 diffs put, cut in every way | four assertions of `put` fail and no other; one line is one history, forks are right, complete diffs are taken, knowledge is kept |
| `fs_index` | seven kinds of callers, up to 5 declarations, any loads, one restart | searches find their rows, trees remember the truth, directories and contents are what was declared |
| `git_sync` | 7 kinds of repositories with up to 11 commits and 2 branches, 3 syncs, one exit | commits have their files and their parents; a sync of a repository that grows fails only while it removes files after a restart, and the one after it goes on; one that does not fail leaves what git has |
| `git_verify` | the same | **violation**: the scroll lists other files at a commit than git |

Why these bounds. A gap in a stream needs three messages: the missing one, the
one held back, and one more to see that the drain stops at the next gap. Two
conflicts are the least that fork and merge, three the least in which a merge
gives children a new parent; two updates in a queue of two are the least in
which the updater writes one while the other is built. Four declarations are the
least with a join of two sections of one branch while another branch lies
between; two restarts let a table be rebuilt, changed and lost again.

In `net` the line 5 - 7 - 1 is chosen so that each of 5 and 7 would send a
message for 1 to the other (5 is nearer and faster to reach): the loop that only
the hop limit ends does happen, and one event takes a connection or a node away
at every moment of it. The third message goes to a place where no node is, so
that ranges narrow. The pair dials from both sides and asks for addresses, with
the duplicates that follow.

Six declarations of a scroll give trees of sizes 1, 2 and 4, so that a top has
several roots and the parent of a range lies beyond it. Four histories, one of
which forks off a fork, are the least in which a conflict is moved under another
one. Damaged diffs have one value of another history in each possible place,
redundant ones carry a hash of another history that they do not need. Two histories that have nothing but
declaration 0 in common meet the assertion of `scroll.js:609`.

Each world of `fs_index` is what one part of the code can meet: rows of one
file between those of another and every way to search them; a file on branches;
a tree that is listed and removed; contents with and without the checksum
index; a directory on branches; a directory in a directory. Four or five
declarations are enough for a loaded row on both sides of one that is not, and
for a removal of three that is cut off after one or two.

Each world of `git_sync` is what one part of `sync` can meet: files and
directories that come and go on one branch; tags; two branches that grow, merge
and change places as head; one that goes and comes; `flip_protect`; branches
that are rewritten; directories on two branches. A branch that goes and comes
while another one is removed takes three syncs; one more sync of the same
repository shows that nothing is declared again.

The programs of `etask` differ in which operations they may choose; two levels of
calls and two children, and one operation from outside at each moment between
two ticks, are what four tasks allow.

The abstract bounds that stop TLC (`MaxDup`, `MaxQueue`,
`MaxRestarts`, the fields of `Bounds`, `events`, `fuel`, `puts`, `Restarts`,
`syncs`, `restarts` and `max` of a world) are guards of the actions and the code has none of them; deadlock is not
checked because a system that has used them up stops, and because an idle one does.

### Fairness

`ReqStream` assumes only that a timer that is not stopped fires (`WF` of
`ReqTimeout` and `ResTimeout`): `setTimeout` does. Nothing is assumed of the
network. `ScrollStorage` assumes that a put comes to its end (`Unlock`, merge
steps), that the database answers (`Loaded`) and that the updater runs when
woken: the event loop runs each task that can run. No fairness is assumed of
`Lock`, of updates or of exits. `Net` assumes that sockets deliver: either
nothing is under way again and again, or something arrives again and again,
which is weak fairness of `Arrivals` written without `ENABLED`. Nothing is
assumed of the order between sockets, of the application, of those who dial and
hang up, or of the timer of the routing table.

## 5. Proofs

Assumptions are those of the modules on their constants: bounds are natural
numbers, `DupTypes` are message types, in a history of `BranchTable` two
neighbours of one branch have consecutive numbers (checked by TLC for every
history that `decl` makes), the nodes are a finite set of places on the ring
with a delay for each pair of them, a network starts from
`ScenariosAssumption`, and a program of tasks creates only what the library has
(`PlansAssumption`). No bound is needed by any proof.

`ReqStreamProofs`. `TypeCorrect` is inductive alone. `Sound` says that what is
acknowledged, in flight, held back or counted was sent by one side and accepted
by the other; with it the acknowledgement that stops a timer can be traced to an
arrival, in both directions (`AlwaysCovered`). `ResponseOrder` and
`RequestOrder` strengthen `InOrder` with the shape of `ooo` and `next`; the
second needs that no start is repeated, and is false without it.
`QuietDelivered` puts order and coverage together. `ResponseRefines` and
`RequestRefines` map every step to a step or a stutter of `OrderedStream`; the
second again needs that no start is repeated.

`BranchTableProofs`. The inductive invariant `IInv` has three parts.
`TableInv`: sections are runs, disjoint and maximal, each number of a section is
its own bseq (`Exact`), and they cover what was added. `Scheduled`: each section
is scheduled or is the same in `flushed`, each scheduled number begins a
section, none is scheduled for removal, and each section of `flushed` that is
gone is scheduled. `Disk`: rows, waiting updates and `flushed` are such tables
too and each update leads to its own `snap`. `PrevEnds` and `SuccBegins` say
where the neighbours of an unknown declaration end and begin, which is what the
code asserts; `Replace` says when one section may replace others; the three
cases of `add` are instances of it. `ScheduledWritten` turns `Scheduled` into
the equation of `RowsFollow`. From `IInv` follow `SectionsTheorem`,
`LookupTheorem`, `AssertsTheorem` and `RowsTheorem`. `TopsTheorem` rests on
`IInv` and `TopsInv`: the entry of a branch is the last declaration of it that
the sections cover (`Last`), in memory, in `flushed`, in the rows and in each
waiting update, since a restart reads the tops with the rows.

`ScrollStorageProofs` has three invariants, each of which rests on the ones
before it.

* `BaseInv`: types; the parents of the conflicts are a `Forest`, in memory, in
  `saved` and in each snapshot that a prefix of the queue will leave behind
  (`Chain` of `Snaps`); what a merge in progress may rely on (`MergeRight`). The
  forest must hold of each snapshot because an exit may come after any
  transaction. It gives `TypesHold` and `ParentsStored`, and that `ToC` ends.
* `DataInv`: each fact in memory of a declaration that its conflict keeps is in
  the database, in the transaction or scheduled (`HashInMem`, `HashInRow`,
  `Durable`), what is queued or in the transaction is known (`QueuedRight`,
  `TxRight`), and what is loaded is all there is (`LoadedRight`). The hard steps
  are those of a merge, which changes what `ToC` gives for declarations that it
  has not reached yet; `Copied` and `LeftOut` are exactly what the code gives
  up. It gives `StoredOrScheduled` and `FlushStores`.
* `TopInv`: a conflict that a snapshot keeps (`Reliable`) will have the hash of
  the top of its row once the updates up to there are written; `Chained` follows
  the rows through the queue from any point of it. It gives `TopsStored`.

`ScrollKnownProofs` goes on with what is known. All of it holds through exits
and restarts, since a restart may load the rows after any transaction.

* `FamilyInv`: a conflict has the history of its parent up to its fork
  (`Tree`), in memory, in the rows and in every snapshot of the queue
  (`FamilyHolds`). A declaration is kept by one conflict and read through `ToC`
  by those that fork off later: with it what `ToC` finds is of the history that
  was asked for (`KeeperHist`). The history of a conflict does not change under
  a row that was written or queued: `RowsGrow` says that the row, each queued
  row and the conflict in memory are of one history as far as each goes, along
  the queue from any point of it. `MergeAgrees` and `ForksBelow` are what a
  merge and `ToC` need for it, `MemBelow`, `QueueBelow` and `DeclsBelow` that
  nothing is known, scheduled or stored of a declaration above the top of its
  conflict, or, in a merge, above what has been copied.
* `BlobInv`: big frames that are known and not in memory (`MemBlob`), and those
  of a row (`RowBlob`), are in the data store under the history that the
  declaration has there, or the updater is about to write them, or was when an
  exit came (`Kept`); `TxBlobs` says the same of the transaction that is being
  built. A blob is named by its declaration and its history, which is why it
  needs `FamilyInv`. It gives `BlobStored`, and with the theorems above
  `WholeStored`.
* `LeftInv`: a row that is queued or in the transaction is written with the
  frames that are stored in it, or a merge noted that it drops them (`Lost`);
  this is stronger than `LeftOut`, which does not say of which history the
  frames were. `CopiedWithin` and `LeftCopied` say in the middle of a merge that
  each fact that the source has of a declaration already copied is known to the
  conflict that keeps the destination's, or was dropped: that conflict may be an
  ancestor of the destination, and the merge may end in the failed assertion.

`KnownIs` turns `WhatIsKnown` into what each conflict knows of the declarations
it keeps. Each step either takes nothing from a conflict (`KnownKept`) or is a
copy, and then what it takes from the source is at the destination (`CopyNew`):
`NothingIsForgotten`.

`NetProofs`. `ConnInv` is about sockets alone: an open channel is an entry of a
table and the other way round (`Linked`), and what one end does not know yet is
on the wire to it, an id at its head or a close anywhere (`Told`). From it
`SamePeersHold` follows: an empty wire leaves nothing to be told. `AcksHold`
needs to know what messages may say. `Born` are the keys, with their types, that
a scenario and the connect requests give; `Claim` says of a message that what it
acknowledges has been handed over, and `PassedOn` of the acknowledgement of a
node on the way that the message came to that node. `NetInv` is that all frames
on wires and all that waits in queues is of these kinds and that each router
believes only what they say (`GoodRouter`). `Transmit`, `TrackAcks` and
`OnChannelAdded` are recursive functions: each has a lemma that the function
exists (`TransmitsExist`, `TracksExist`, `FlushesExist`) and one that carries a
statement from each argument to the next.

`NetRoutesProofs` goes on with where messages go. Its invariant is `RouteInv`:
each routing table is well formed, whatever was learned, and a route to a node
ends at that node (`Tables`); a message on a wire or in a queue has layers of
nodes (`MessageOK`), and one to whoever is nearest to an id is `Aimed`: the id is
in its range, and so is the node that the rest of its route leads to.
`RoutesHold` rests on two arguments.

* `BuildRttGraph` finds shortest routes from one node. `Settled` says of the
  graph after k nodes that each route found is a walk of its time over known
  connections, that no node left is nearer than one taken, and that no
  connection of a node taken makes a route shorter. The nearest node left keeps
  it (`SettleNext`), `Settles` carries it through the recursive function, and
  `BuildRight` reads `TableRight` off the last graph.
* A message is sent towards a node in its range other than its destination
  (`GetRouteByRangeOK`, `FuzzyPathOK`). That node cuts the range in two, on the
  ring and across its end, and the part with the destination is kept
  (`NextRangeOK`). Nodes before it pass the range on as it is, with the rest of
  the route (`WrapOK`).

`EtaskProofs` proves `RunsOnce`, for any number of tasks and any program of the
user. It is far from inductive: a state starts when its task is told something,
and whoever tells it has decided to many calls earlier, and may do so inside a
state of the same task. The invariant, `IInv`, follows a task from the decision
to the state:

* Only the frame on top can be about to choose a state (`Inner`), and a frame of
  a state belongs to a task whose state runs (`ActOK`); a task has at most one
  (`Once`, in `Lives`).
* A task that is about to be continued, by a call on the stack or by a tick, is
  so once, does not run, and has no wait that could still be answered
  (`PendingOK`); when a state of it is chosen first, the task has been returned.
* While a state runs, the wait before it is over (`AllClosed`), so that nobody's
  answer enters the task a second time. A generator that its timer has woken
  leaves its wait open up to its third state, which does nothing but to go back
  to the second (`Woken`, `MostClosed`); a list of states leaves it open, which
  is why `Late` is an exception (section 6).
* A timer belongs to a generator beyond its first state, to a list of states or
  to a wait (`TaskOK`). The value that a state returned may start one only there
  (`ActOK`).

Most steps change the tasks without starting anything, in ways the invariant
does not see: a wait is closed, a timer stopped, a task moved in the tree.
`Gentle` says so of two records of a task, `GentleCore` that it is enough, and
the `Soft...` lemmas that the operations of the library are of that kind;
`ParentRemoveKept` and `AdoptKept` carry it through the recursive functions.
`PushNext`, `PushOne`, `PushCont` and `ReplaceTop` say what each kind of call needs
of the stack below it. The rest is one lemma for each action (`NextStep` to
`ReturnedStep`). `StackRight` is that the invariant holds throughout.

`EtaskTreeProofs` proves `TreeRight` on top of it, again for any number of tasks
and any program of the user. The invariant is `TInv`: as long as no timer is
late, `TreeInv` holds, which is

* `Tree`: links are mutual and a list of children names no child twice
  (`Links`), every task hangs in one place (`Hangs`), what a task hangs under
  comes before it in one order (`Ranked`), and only what has ended with nothing
  under it is free (`Spared`). The order, `Lower`, is that of the creators of the
  two, and for two tasks of one creator the younger comes first: most tasks hang
  under their creator, and those of an `all`, or that another task joins, under a
  younger one of the same creator. It is why the climb of `_parent_remove` comes
  to no task twice, nor to the one it started from.
* `Ended`: a task that has ended with nothing under it is free, or the steps of
  `_complete` that free it are on the stack. It gives the other half of the last
  clause.
* `Elders`: a task is younger than its creator, and the list of an `all` comes
  after it in that order. `Told` and `AllTree` say the same of what a state
  is about to wait for, and that no state of a task that has ended is on the
  stack, but for the kinds of one state.

Each operation is first done on any table: one lemma says what `Unhang`,
`CheckFree`, `SetDown`, `SpawnParent`, `KeepUnderUp` and `Adopt` do to a tree
of which some tasks are adrift (`UnhangTree` to `AdoptTree`). `Calm` says of two
tables that nothing in them differs that `TreeInv` looks at: `CalmStep` and
`CalmBegin` then leave only the new frames to look at, which is all there is to
most actions. `NewStep` is the step of a state that creates a task. The lemmas
of the actions are `NextTree` to `TimerTree`.

The induction theorems of the library cannot be used, because they take an
operator. What can be used is that a set of natural numbers that is not empty
has a least member (`LeastNat`, from `NatLessThanWellFounded`): the least
counterexample is neither 0 nor after a number that is none.

Only model-checked: the other properties of `Etask`, which need to know what
each task waits for and who will answer it; all of `ScrollConflicts`, `ScrollFS` and `GitSync`, whose modules
have operators declared RECURSIVE, which the prover does not read; every
liveness property (liveness and `ENABLED` are out of the prover's reach); and
what the recursive definitions compute for every input (`BranchNames`,
`ScrollIndex`, `ScrollFS`, `GitSync`). The type invariants of `ScrollStorage`,
`BranchTable`, `Net` and `Etask` are conjuncts of `StoredWhole`, `TopsRight`,
`AcksTrue` and `AssertsHold`.

## 6. Findings

With a run that shows them:

* A load under another task's lock may end after the unlock, and an assertion
  stops the process (`storage/scroll.js:1530`, `storage/storage.js:184`).
* A commit on a branch whose directory main has too is declared with what is on
  main in mind, and the scroll lists other files than git (`fs/git.js:451`,
  against the assertion of `verify_git` at `fs/git.js:675`).

Met while modelling. The models do what the code does in each case they reach,
and the properties say where they make an exception:

* `req_handler_cb` rewinds the numbering on a late copy of `req_start`
  (`net/req_handler.js:171`), against the test `req_dup` (`net/test.js:4719`).
* The time of an acknowledgement that is passed on is that of the next
  connection, and is counted for the one the message came by
  (`net/router.js:409`).
* `put` asserts, and leaves the scroll locked, when a real conflict turns out to
  share declarations with its new parent (`storage/scroll.js:1040`), when
  frames are copied to a conflict that has them (`storage/scroll.js:84`), when
  a diff shares nothing but declaration 0 with the best line and its conflict
  would fork off there (`storage/scroll.js:609`), or when it gives a range another
  hash than its own hashes of the two halves lead to (`storage/scroll.js:934`):
  `KnownFailures` of `ScrollConflicts` and `ScrollStorage`. Over a shorter line of another history a diff is dropped
  (`storage/scroll.js:799`): the exception of `TopTaken`.
* A merge after a restart takes over a top whose declaration is not loaded
  (`storage/scroll.js:988`), and `notify_M` asserts (`storage/scroll.js:618`):
  `failure` of `ScrollStorage`.
* The frames of a transaction are written after its commit, one by one: an exit
  in between leaves declarations whose frames are in no store, and nothing
  writes them again (`storage/storage.js:119`): `unwritten`.
* A search downwards does not ask whether the declaration right below the last
  row is loaded, passes over it, and remembers that there is nothing
  (`storage/index.js:262`): the exception of `FindsRight`.
* A sync of git throws for ever (`fs/git.js:271`) once a branch was removed and
  another one forks from its middle, or when a branch was rewritten in some
  ways; a branch that is reset to an older commit of its own stays where it was
  (`fs/git.js:137`); what a commit merged is forgotten if the program ends, or
  throws, before the loop at `fs/git.js:183`, which does not see what is put in
  while it runs either: `SyncRight` is for repositories that grow.
* `WrtcConnector` calls `router.send` (`net/wrtc.js:65`), which `Router` does not
  define.
* The owners of a blob are the indices of a list (`storage/storage.js:123`), and
  the index rows of all but one of several changed conflicts are dropped
  (`storage/storage.js:243`).
* A state of a task that returns a wait after its task was returned goes on to
  wait (`util/etask.js:370-385`): the exception of `CancelledTogether`. A task
  whose callee cannot be cancelled and that is continued from outside trips an
  assertion at its next call (`util/etask.js:394`): the programs of the run stay
  off it. The timer of a wait that is complete at once is set all the same
  (`util/etask.js:365-371`) and fires in whatever state the task is in; and one
  that fires leaves the wait open (`util/etask.js:504-507`), so that a child that
  ends inside the next state enters the task again, as it does unnoticed in the
  test `wait_child_any_cond_timeout` (`util/test.js:5494`): `Late`, the exception
  of `RunsOnce` and the others. A list of states that waits with a timeout, is
  continued by its child and waits so again loses the handle of the first timer,
  which fires in the second wait or after the end (`util/etask.js:502-508`):
  `stray`. A generator that returns a wait for its children is never woken by
  them, and a wait with a timeout that is returned has no timer
  (`util/etask.js:376-379`): the exception of `NoLostWakeup`. What `finally` or the parent does about a task
  that completes may free it before `_complete` does, and the assertion of
  `_root_remove` that it is a root fails (`util/etask.js:170`): `failed` is
  `"root"`, and the model stops there.
* `rm_dir` declares while its listing has a cursor open, so that after a restart
  it fails half way (`fs/fs.js:305`), and looks on main for what is to be
  removed from another branch (`fs/fs.js:42`). A sync fails in the same way where
  it removes what is gone (`fs/git.js:416-421`): the exception of `SyncRight`. A
  `prev` of 0 counts as none
  (`fs/fs.js:203`). A comma where an assertion was meant checks nothing
  (`fs/fs.js:194`). `on_conflict` does not wait for its loads
  (`storage/index.js:434`).

## 7. Not modelled

In the modelled parts:

* Requests: the route a request carries; signatures.
* Net: that a message reaches its destination. Each node routes with its own
  table, connections that are gone stay in it (`net/node_map.js:197`), and only
  the hop limit ends what two nodes pass to and fro; `RoutesRight` is about one
  table and one range at a time. WebRTC and its signalling, `ring_join` and `get_peers` as more than
  messages of an application, a path or route given by the caller, the AVL tree
  of nodes, the encoding of layers. The ids are a finite number.
* ScrollStorage and ScrollConflicts are not composed: the first lets any legal
  update happen and has the database, the second has `put` itself and no
  database. Reading big frames back and the rows of indices are not in either.
* Branch table: the table of a parent conflict and the map of branch names.
* Index and file system: conflict 0 only; the index of seals, which no operation
  of the file system searches; one operation or search at a time, as the
  comments at `fs/fs.js:25` and `storage/index.js:615` ask; `prev` and `link`
  given by the caller. A declaration without a branch, and those that `rm_dir`
  makes on a branch, follow another declaration than the one that was looked at:
  `Straight` leaves them out of what is claimed. A run ends where a search has
  passed over a row (`missed`). That a transaction of IndexedDB ends as soon as
  another one has run is external.
* git: hashes and data of commits and trees, modes of files, clone and pull, a
  second root, the order of `git log` (a commit's first parents are its chain).
  A file never becomes a directory of the same name. `get_git_branches` and
  `get_git_tags` read the database without a flush (`fs/git.js:556`,
  `storage/index.js:229`): the model takes it that what was declared before a sync
  is stored when the lists are read. A branch that is not stored yet would not be
  pruned by that sync.
* etask: events of a task, `ef`, statistics and names; of a value only whether
  it is an error.

Other components. The message layers, the utilities and the
programs convert data or do I/O and keep no state that steps of several actors
could break. The dispatch of events is the order of calls inside a step; rate
limits and the pool of buffers are small sequential counters. The database
wrapper is a thin layer over IndexedDB, which is external and modelled as
transactions that commit whole and cursors that end with their transaction.
Certificates and DNS are calls to services.
