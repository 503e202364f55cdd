------------------------------- MODULE Etask -------------------------------
(***************************************************************************)
(* src/util/etask.js: the cooperative tasks every part of the program runs *)
(* on.  A task is a list of states; the value a state returns decides what *)
(* the task waits for, and the task that completes resumes those that      *)
(* wait.  All of it happens by plain nested calls, so the model keeps the  *)
(* call stack: a step runs the frame on top and pushes the calls it makes. *)
(* Between two frames nothing else runs; when the stack is empty the next  *)
(* tick, a timer or an answer from outside starts a new one.               *)
(* The code of the user is a choice of what a state may do, at most fuel   *)
(* operations in all; of a value only whether it is an error is kept.      *)
(***************************************************************************)
EXTENDS Naturals, Sequences, FiniteSets, SequencesExt

CONSTANTS NumTasks,   \* how many tasks a run may create
          Plans       \* records [root, kinds, ops, limit, fuel] of user programs

ASSUME TasksAssumption == NumTasks \in Nat \ {0}
\* What a user may create.
UserKinds == {"gen", "raw", "leaf", "for", "limit"}
ASSUME PlansAssumption ==
    \A p \in Plans : /\ p.root \in UserKinds /\ p.kinds \subseteq UserKinds
                     /\ p.limit \in Nat \ {0} /\ p.fuel \in Nat

VARIABLES task, stack, tick, plan, fuel, failed
vars == <<task, stack, tick, plan, fuel, failed>>

Tasks == 1..NumTasks
Nobody == 0
\* The states of each kind of task: plain, with try_catch$, or catch$ only.
\* gen is what E._generator makes of a generator function, raw a list of
\* states, leaf one state that waits for its callback (wait, sleep, _apply),
\* waiter the same for then().
States == [gen   |-> <<"plain", "try", "plain">>,
           raw   |-> <<"plain", "catch", "plain">>,
           leaf  |-> <<"plain">>,
           waiter |-> <<"plain">>,
           for   |-> <<"plain", "try", "plain", "plain">>,
           limit |-> <<"plain", "plain">>,
           all   |-> <<"plain", "try", "plain">>]
Cancelable == {"gen", "leaf", "for", "limit", "all"}

\* What a state returns, or what a wait is answered with.
Ok == [k |-> "ok", t |-> Nobody, tmo |-> FALSE]
Err == [k |-> "err", t |-> Nobody, tmo |-> FALSE]
Ret(k) == [Ok EXCEPT !.k = k]
TaskVal(u) == [k |-> "task", t |-> u, tmo |-> FALSE]
Waits == {"wait", "any", "all", "child"}        \* an Etask_wait
None == Ret("none")
ErrOf(e) == IF e THEN Err ELSE Ok
Token(t, n) == [t |-> t, n |-> n]               \* one wait of a task

Unborn == [kind |-> "none", cur |-> 0, next |-> 0, err |-> FALSE,
           run |-> "never", atret |-> FALSE, atcont |-> None,
           wait |-> 0, wop |-> "none", won |-> Nobody, wdone |-> FALSE,
           seq |-> 0, timer |-> FALSE, stray |-> 0, late |-> FALSE, up |-> Nobody,
           down |-> Nobody, parent |-> Nobody, child |-> <<>>, root |-> FALSE, by |-> Nobody,
           fin |-> <<>>, then |-> <<>>, done |-> FALSE, free |-> FALSE,
           arr |-> <<>>, i |-> 0]
Born == {t \in Tasks : task[t].kind # "none"}
Live == {t \in Born : ~task[t].done}
Fresh == CHOOSE t \in Tasks \ Born : \A u \in Tasks \ Born : t <= u

(***************************************************************************)
(* The tree: a task hangs under its caller (up), under a parent it was     *)
(* spawned by, or in the list of roots.                                    *)
(***************************************************************************)
Running(T, t) == {c \in ToSet(T[t].child) : ~T[c].done}
WaitOf(T, t) == IF T[t].wait = 0 \/ T[t].wdone THEN "none" ELSE T[t].wop

\* What t hangs under, and the tasks without t there.
Holder(T, t) == IF T[t].up # Nobody THEN T[t].up ELSE T[t].parent
Unhang(T, t) ==
    LET u == T[t].up  p == T[t].parent IN
    CASE u # Nobody -> [T EXCEPT ![t].up = Nobody, ![u].down = Nobody]
      [] u = Nobody /\ p # Nobody ->
           [T EXCEPT ![t].parent = Nobody,
                     ![p].child = RemoveFirst(@, t)]
      [] OTHER -> [T EXCEPT ![t].root = FALSE]
\* Faulty variant: the children are not looked at.
BareDown(T, t) == T[t].down = Nobody
Bare(T, t) == T[t].down = Nobody /\ T[t].child = <<>>
\* _parent_remove: what t hung under is freed if it has ended and nothing is
\* left under it, and so on upwards.  climb[k] is k tasks up.
ParentRemove(T, t) ==
    LET climb[k \in 0..NumTasks] ==
            IF k = 0 THEN [T |-> Unhang(T, t), at |-> Holder(T, t)]
            ELSE LET c == climb[k - 1] IN
                 IF c.at # Nobody /\ c.T[c.at].done /\ Bare(c.T, c.at)
                 THEN [T |-> [Unhang(c.T, c.at) EXCEPT ![c.at].free = TRUE],
                       at |-> Holder(c.T, c.at)]
                 ELSE [c EXCEPT !.at = Nobody]
    IN climb[NumTasks].T
CheckFree(T, t) ==
    IF Bare(T, t) THEN [ParentRemove(T, t) EXCEPT ![t].free = TRUE] ELSE T

\* Faulty variant: spawn_parent() without a parent leaves the task in place.
SpawnParentOnly(T, t, p) ==
    IF p = Nobody THEN T
    ELSE [ParentRemove(T, t) EXCEPT ![t].parent = p, ![p].child = Append(@, t)]
SpawnParent(T, t, p) ==
    IF T[t].done /\ T[t].parent = Nobody THEN T
    ELSE LET R == ParentRemove(T, t) IN
         IF p = Nobody \/ R[p].free THEN [R EXCEPT ![t].root = TRUE]
         ELSE [R EXCEPT ![t].parent = p, ![p].child = Append(@, t)]
SetDown(T, t, d) ==
    [ParentRemove(T, d) EXCEPT ![t].down = d, ![d].up = t]
\* The asserts of _set_down: a caller has no other call under way, and what
\* it calls is under nobody yet.
DownAsserts(T, t, d) ==
    T[t].down = Nobody /\ T[d].parent = Nobody /\ T[d].up = Nobody
\* The assert of _root_remove: a task that hangs under nobody is a root.
RootAsserts(T, t) == T[t].up # Nobody \/ T[t].parent # Nobody \/ T[t].root
Create(T, t, k, p) ==
    [T EXCEPT ![t] = [Unborn EXCEPT !.kind = k, !.root = TRUE, !.by = p]]
SetWait(T, t, op, on) ==
    [T EXCEPT ![t].wait = T[t].seq + 1, ![t].seq = @ + 1, ![t].wop = op,
              ![t].won = on, ![t].wdone = FALSE]
\* A timer that runs already goes on, with no handle to stop it.
SetWaitTimer(T, t, tmo) ==
    IF ~tmo THEN T
    ELSE [T EXCEPT ![t].stray = IF T[t].timer THEN @ + 1 ELSE @, ![t].timer = TRUE]
DelWaitTimer(T, t) == [T EXCEPT ![t].timer = FALSE, ![t].wait = 0]

(***************************************************************************)
(* The stack.                                                              *)
(***************************************************************************)
Frame(f, t, v) == [f |-> f, t |-> t, v |-> v, n |-> 0]
GotFrame(w, v) == [f |-> "got", t |-> w.t, v |-> v, n |-> w.n]
Top == Head(stack)
Rest == Tail(stack)
InRun == \E t \in Tasks : task[t].run = "yes"
InContinue == \E i \in DOMAIN stack : stack[i].f = "depth"
Step(T, frames) ==
    task' = T /\ stack' = frames \o Rest /\ UNCHANGED <<plan, failed>>
On(f) == stack # <<>> /\ failed = "no" /\ Top.f = f
Quiet == stack = <<>>

(***************************************************************************)
(* Running a state.                                                        *)
(***************************************************************************)
\* _next: the state that runs after the current one, given what it produced.
NextState(T, t, v) ==
    LET S == States[T[t].kind]  x == T[t]
        from == IF x.atret THEN Len(S) + 1
                ELSE IF x.next # 0 THEN x.next ELSE x.cur + 1
        may == IF v.k # "err" THEN {i \in DOMAIN S : S[i] # "catch"}
               ELSE IF S[x.cur] = "try" THEN DOMAIN S
               ELSE {i \in DOMAIN S : S[i] = "catch"}
        at == {i \in may : i >= from}
    IN IF at = {} THEN Len(S) + 1 ELSE CHOOSE i \in at : \A j \in at : i <= j

\* _next_run: choose the state and run it, or complete.
Next_run ==
    /\ On("next")
    /\ UNCHANGED <<tick, fuel>>
    /\ LET t == Top.t  i == NextState(task, t, Top.v)
           T == [task EXCEPT ![t].err = (Top.v.k = "err"), ![t].cur = i,
                             ![t].next = 0] IN
       IF task[t].done THEN Step(task, <<>>)
       ELSE IF i > Len(States[task[t].kind])
       THEN Step([T EXCEPT ![t].done = TRUE], <<Frame("complete", t, Ok)>>)
       ELSE Step([T EXCEPT ![t].run = "yes"], <<Frame("body", t, Top.v)>>)

\* Faulty variant: the wait is not marked as answered.
Got_retvalOpen ==
    /\ On("got")
    /\ UNCHANGED <<tick, fuel>>
    /\ Step(task, IF WaitOf(task, Top.t) = "none" \/ task[Top.t].wait # Top.n THEN <<>>
                  ELSE <<Frame("next", Top.t, Top.v)>>)

\* _got_retval: the answer of a wait, ignored when the task has gone on.
Got_retval ==
    /\ On("got")
    /\ UNCHANGED <<tick, fuel>>
    /\ IF task[Top.t].wait # Top.n \/ task[Top.t].wdone THEN Step(task, <<>>)
       ELSE Step([task EXCEPT ![Top.t].wdone = TRUE],
                 <<Frame("next", Top.t, Top.v)>>)

(***************************************************************************)
(* What follows a state (_run after the call, _handle_rv).                 *)
(***************************************************************************)
\* Faulty variant: always wait.
ChildReadyNever(T, t, v) == FALSE
\* _set_wait_child: is what is waited for here already?
ChildReady(T, t, v) ==
    \/ v.k \in {"any", "all"} /\ Running(T, t) = {}
    \/ v.k = "child" /\ T[v.t].done

\* Wait for the task returned, or go on with the value.
HandleRv(T, t, v) ==
    CASE v.k = "task" /\ ~T[v.t].done ->
           IF DownAsserts(T, t, v.t)
           THEN LET R == SetWait(SetDown(T, t, v.t), t, "int", v.t) IN
                Step([R EXCEPT ![v.t].then = Append(@, Token(t, R[t].wait))],
                     <<>>)
           ELSE failed' = "down" /\ UNCHANGED <<task, stack, plan>>
      [] v.k = "task" /\ T[v.t].done ->
           Step(T, <<Frame("next", t, ErrOf(T[v.t].err))>>)
      [] v.k = "promise" -> Step(SetWait(T, t, "promise", Nobody), <<>>)
      [] OTHER -> Step(T, <<Frame("next", t, v)>>)

\* An answer that came while the state was running stands for the wait the
\* state returns; when that answer is the wait itself, it must be waited for.
After ==
    /\ On("after")
    /\ UNCHANGED <<tick, fuel>>
    /\ LET t == Top.t  v == Top.v  c == task[t].atcont
           T == [task EXCEPT ![t].run = "no"]
           R == [T EXCEPT ![t].atcont = None]
           W == SetWaitTimer(SetWait(T, t, v.k, v.t), t, v.tmo)
           Listen == IF v.k # "child" THEN W
                     ELSE [W EXCEPT ![v.t].fin = Append(@, Token(t, W[t].wait))]
       IN CASE v.k \notin Waits -> HandleRv(R, t, v)
            [] v.k \in Waits /\ c = None /\ ~ChildReady(T, t, v) ->
                 Step(Listen, <<>>)
            [] v.k \in Waits /\ c = None /\ ChildReady(T, t, v) ->
                 HandleRv(SetWaitTimer([R EXCEPT ![t].seq = W[t].seq, ![t].wait = 0],
                                       t, v.tmo), t, Ok)
            [] v.k \in Waits /\ c = v ->
                 Step(SetWait(T, t, IF v.k = "wait" THEN v.k ELSE "deaf", v.t), <<>>)
            [] OTHER -> HandleRv(R, t, c)

(***************************************************************************)
(* continue, return and cancel.                                            *)
(***************************************************************************)
SetRetval(T, t, v) ==
    IF v.k \in {"ok", "err"} THEN [T EXCEPT ![t].err = (v.k = "err")] ELSE T
\* Faulty variant: the call under way is not cancelled.
ContinueFramesOnly(T, t, v, f) ==
    IF T[t].done THEN <<>> ELSE <<Frame(f, t, v)>>
\* continue up to the cancellation of the call under way, and return.
ContinueTask(T, t, v) ==
    SetRetval([T EXCEPT ![t].wait = 0], t, v)
ContinueFrames(T, t, v, f) ==
    IF T[t].done THEN <<>>
    ELSE (IF T[t].down = Nobody THEN <<>>
          ELSE <<Frame("cancel", T[t].down, Ok)>>) \o <<Frame(f, t, v)>>
ReturnTask(T, t, v) ==
    IF T[t].done THEN SetRetval(T, t, v)
    ELSE ContinueTask([T EXCEPT ![t].atret = TRUE, ![t].next = 0], t, v)

\* The rest of continue: at once, at the next tick when other tasks are on
\* the stack, or kept for the state that is running.
Resume ==
    /\ On("continue") \/ On("return")
    /\ UNCHANGED fuel
    /\ LET t == Top.t  T == DelWaitTimer(task, t) IN
       IF task[t].run = "yes"
       THEN Step([T EXCEPT ![t].atcont = Top.v], <<>>) /\ UNCHANGED tick
       ELSE IF Top.f = "return" \/ ~(InContinue \/ InRun)
       THEN /\ UNCHANGED tick
            /\ Step(T, <<Frame("next", t, Top.v), Frame("depth", t, Ok)>>)
       ELSE Step(T, <<>>) /\ tick' = Append(tick, Frame("next", t, Top.v))
Depth == On("depth") /\ Step(task, <<>>) /\ UNCHANGED <<tick, fuel>>

\* _ecancel of a task that can be cancelled, or its return() ("end").
Cancel ==
    /\ On("cancel") \/ On("end")
    /\ UNCHANGED <<tick, fuel>>
    /\ LET t == Top.t IN
       IF task[t].done \/ (Top.f = "cancel" /\ task[t].kind \notin Cancelable)
       THEN Step(task, <<>>)
       ELSE Step(ReturnTask(task, t, Ok), ContinueFrames(task, t, Ok, "return"))

(***************************************************************************)
(* _complete: tell those who wait for this child, the parent and, last,    *)
(* the caller; the children are cancelled in between.                      *)
(***************************************************************************)
Complete ==
    /\ On("complete")
    /\ UNCHANGED <<tick, fuel>>
    /\ LET waits == task[Top.t].fin IN
       Step(task, [i \in DOMAIN waits |-> GotFrame(waits[i], Ok)]
                  \o <<Frame("child", Top.t, Ok)>>)

\* Faulty variant: a wait for all ends with the first.
HeardAny(T, p) == WaitOf(T, p) \in {"any", "all"}
Heard(T, p) ==
    \/ WaitOf(T, p) = "any"
    \/ WaitOf(T, p) = "all" /\ Running(T, p) = {}
\* emit('child') on the parent; a wait for all goes on until none runs.
EmitChild ==
    /\ On("child")
    /\ UNCHANGED <<tick, fuel>>
    /\ LET p == task[Top.t].parent
       IN Step(task, (IF p # Nobody /\ Heard(task, p) THEN <<GotFrame(Token(p, task[p].wait), Ok)>>
                      ELSE <<>>) \o <<Frame("leave", Top.t, Ok)>>)

\* A task with children of its own becomes a child of its caller.
KeepUnderUp(T, t) ==
    LET u == T[t].up IN
    IF u = Nobody \/ (T[t].down = Nobody /\ T[t].child = <<>>) THEN T
    ELSE [T EXCEPT ![t].up = Nobody, ![u].down = Nobody, ![t].parent = u,
                   ![u].child = Append(@, t)]
Leave ==
    /\ On("leave")
    /\ UNCHANGED <<tick, fuel>>
    /\ LET t == Top.t
           K == KeepUnderUp(task, t)
           T == DelWaitTimer(CheckFree(K, t), t) IN
       IF Bare(K, t) /\ ~RootAsserts(K, t)
       THEN failed' = "root" /\ UNCHANGED <<task, stack, plan>>
       ELSE Step(T, [i \in DOMAIN T[t].child |-> Frame("cancel", T[t].child[i], Ok)]
                    \o <<Frame("then", t, Ok)>>)

Then ==
    /\ On("then")
    /\ UNCHANGED <<tick, fuel>>
    /\ LET t == Top.t  w == task[t].then IN
       IF w = <<>> THEN Step(task, <<>>)
       ELSE LET T == [task EXCEPT ![t].then = Tail(w)]
                u == Head(w).t  v == ErrOf(task[t].err) IN
            IF Head(w).n # 0 THEN Step(T, <<GotFrame(Head(w), v), Top>>)
            ELSE Step(ContinueTask(T, u, v),
                      Append(ContinueFrames(T, u, v, "continue"), Top))


(***************************************************************************)
(* The states of the library's own tasks.                                  *)
(***************************************************************************)
At(k, i) == On("body") /\ task[Top.t].kind = k /\ task[Top.t].cur = i
Self == Top.t
Returns(T, v) == Step(T, <<Frame("after", Self, v)>>)
\* return this.return(v), return this.throw() and this.goto(i) of a task in
\* its own state: the value is kept as the answer of the running state.
Keeps(T, v) == [DelWaitTimer(T, Self) EXCEPT ![Self].atcont = v]
Leaves(T, v) == Returns(Keeps(ReturnTask(T, Self, v), v), v)
Throws(T) == Returns(Keeps(ContinueTask(T, Self, Err), Err), Err)
Goes(T, i) ==
    Returns(Keeps([ContinueTask(T, Self, Ok) EXCEPT ![Self].next = i], Ok), Ok)
\* Create a task and run its first states inside the state that creates it.
New(T, frames) ==
    Step(T, <<Frame("next", Fresh, Ok)>> \o frames)
Spend == fuel > 0 /\ fuel' = fuel - 1
CanCreate == Spend /\ Born # Tasks

\* E._generator: the first state makes the generator; the third brings the
\* answer to what was yielded back to the second, which is the user's.
Generator ==
    /\ UNCHANGED <<tick, fuel>>
    /\ \/ At("gen", 1) /\ Returns(task, Ok)
       \/ At("gen", 3) /\ Goes(task, 2)

\* wait, sleep and _apply: wait for the callback, which may come at once.
Leaf ==
    /\ UNCHANGED <<tick, fuel>>
    /\ \/ At("waiter", 1) /\ Returns(task, Ret("wait"))
       \/ At("leaf", 1) /\ \E tmo \in BOOLEAN :
             Returns(task, [Ret("wait") EXCEPT !.tmo = tmo])
       \/ At("leaf", 1) /\ \E v \in {Ok, Err} :
             Returns(Keeps(ContinueTask(task, Self, v), v), Ret("wait"))

For ==
    /\ UNCHANGED tick
    /\ \/ /\ At("for", 1)
          /\ UNCHANGED fuel
          /\ \E go \in {0, 1} : Returns([task EXCEPT ![Self].i = go], Ok)
       \/ /\ At("for", 2) /\ task[Self].i = 0
          /\ UNCHANGED fuel
          /\ Leaves(task, Ok)
       \/ /\ At("for", 2) /\ task[Self].i = 1
          /\ \/ /\ CanCreate
                /\ New(Create(task, Fresh, "gen", Self), <<Frame("call", Self, TaskVal(Fresh))>>)
             \/ /\ fuel = 0 \/ Born = Tasks
                /\ UNCHANGED fuel /\ Leaves(task, Ok)
       \/ /\ At("for", 3)
          /\ UNCHANGED fuel
          /\ IF task[Self].err THEN Leaves(task, Ok) \/ Throws(task)
             ELSE Returns(task, Ok)
       \/ At("for", 4) /\ UNCHANGED fuel /\ Goes(task, 1)

\* all: the tasks are children until their turn to be called comes.
Adopt(T, a, p) ==
    LET to[k \in 0..Len(a)] == IF k = 0 THEN T ELSE SpawnParent(to[k - 1], a[k], p)
    IN to[Len(a)]
AllOf ==
    /\ UNCHANGED <<tick, fuel>>
    /\ LET a == task[Self].arr  i == task[Self].i + 1
           T == [task EXCEPT ![Self].i = i] IN
       \/ At("all", 1) /\ Returns(Adopt(task, a, Self), Ok)
       \/ At("all", 2) /\ i > Len(a) /\ Leaves(task, Ok)
       \/ At("all", 2) /\ i <= Len(a)
          /\ Returns(SpawnParent(task, a[i], Nobody), TaskVal(a[i]))
       \/ At("all", 3) /\ task[Self].err /\ Throws(task)
       \/ At("all", 3) /\ Goes(T, 2)

AtLimit(t) == Len(task[t].child) >= plan.limit
\* all_limit: spawn until limit children are there, then wait for one.
AllLimit ==
    /\ UNCHANGED tick
    /\ \/ At("limit", 1) /\ UNCHANGED fuel /\ Goes(task, 2)
       \/ /\ At("limit", 1) /\ CanCreate
          /\ \E k \in plan.kinds :
               New(Create(task, Fresh, k, Self), <<Frame("spawn", Fresh, Ok), Frame("iter", Self, Ok)>>)
       \/ /\ On("iter") /\ UNCHANGED fuel
          /\ LET T == [task EXCEPT ![Self].next = task[Self].cur] IN
             Returns(T, IF AtLimit(Self) THEN Ret("any") ELSE Ok)
       \/ At("limit", 2) /\ UNCHANGED fuel /\ Returns(task, Ret("all"))

(***************************************************************************)
(* The user's states.                                                      *)
(***************************************************************************)
User == On("body") /\ (task[Self].kind = "raw" \/ At("gen", 2))
May(op) == User /\ op \in plan.ops /\ UNCHANGED tick
Loose(T) == {u \in Tasks : /\ T[u].by = Self /\ T[u].up = Nobody
                            /\ T[u].parent = Nobody /\ T[u].kind # "none"}

\* The generator or the state ends, with a value or an error.
Finish ==
    /\ User /\ UNCHANGED <<tick, fuel>>
    /\ \E v \in {Ok, Err} : IF task[Self].kind = "gen" THEN Leaves(task, v)
                            ELSE Returns(task, v)
\* What a state may wait for: an answer, with a timeout or without, and the
\* children it has.
WaitFor(op) ==
    CASE op = "wait" -> {Ret("wait")}
      [] op = "timeout" -> {[Ret(k) EXCEPT !.tmo = TRUE] : k \in {"wait", "any"}}
      [] op = "child" -> {Ret("any"), Ret("all")}
                         \cup {[Ret("child") EXCEPT !.t = c] : c \in ToSet(task[Self].child)}
\* A generator may also return its wait, to be waited for.
FinishWait ==
    \E op \in {"wait", "timeout", "child"} :
        May(op) /\ At("gen", 2) /\ Spend /\ \E v \in WaitFor(op) : Leaves(task, v)

CallNew ==
    /\ May("call") /\ CanCreate
    /\ \E k \in plan.kinds : New(Create(task, Fresh, k, Self), <<Frame("call", Self, TaskVal(Fresh))>>)
SpawnNew ==
    /\ May("spawn") /\ CanCreate
    /\ \E k \in plan.kinds : New(Create(task, Fresh, k, Self), <<Frame("spawn", Fresh, Ok), Top>>)
LooseNew ==
    /\ May("loose") /\ CanCreate
    /\ \E k \in plan.kinds : New(Create(task, Fresh, k, Self), <<Top>>)
\* opt.async: the first state runs at the next tick.
AsyncNew ==
    /\ User /\ "async" \in plan.ops /\ CanCreate
    /\ \E k \in plan.kinds :
         Step(SetWait(Create(task, Fresh, k, Self), Fresh, "int", Fresh), <<Top>>)
    /\ tick' = Append(tick, [Frame("start", Fresh, Ok) EXCEPT !.n = 1])
AllNew ==
    /\ May("all") /\ CanCreate /\ Loose(task) # {}
    /\ \E a \in [1..Cardinality(Loose(task)) -> Loose(task)] :
         /\ \A i, j \in DOMAIN a : i < j => a[i] < a[j]
         /\ New([Create(task, Fresh, "all", Self) EXCEPT ![Fresh].arr = a],
                <<Frame("call", Self, TaskVal(Fresh))>>)
Join == May("join") /\ Spend /\ \E u \in Loose(task) : Returns(task, TaskVal(u))
Yield ==
    \/ May("wait") /\ Spend /\ Returns(task, Ret("promise"))
    \/ \E op \in {"wait", "timeout", "child"} :
        May(op) /\ Spend /\ \E v \in WaitFor(op) : Returns(task, v)
\* u.return(), and return_child() of the children there are at that moment.
CancelOther ==
    /\ May("return") /\ Spend
    /\ \/ \E u \in Live \ {Self} : Step(task, <<Frame("end", u, Ok), Top>>)
       \/ LET c == task[Self].child IN
          Step(task, [i \in DOMAIN c |-> Frame("end", c[i], Ok)] \o <<Top>>)
\* u.then(): a task of its own that u continues when it completes.
ThenNew ==
    /\ May("then") /\ CanCreate
    /\ \E u \in Live \ {Self} :
         New([Create(task, Fresh, "waiter", Self) EXCEPT
                ![u].then = Append(@, Token(Fresh, 0))], <<Top>>)
Answer ==
    /\ May("wait") /\ Spend
    /\ \E u \in Live \ {Self}, v \in {Ok, Err} :
         /\ task[u].kind # "waiter"
         /\ (task[u].kind = "leaf" /\ task[u].cur = 1) \/ WaitOf(task, u) = "wait"
         /\ Step(ContinueTask(task, u, v),
                 ContinueFrames(task, u, v, "continue") \o <<Top>>)

Called == /\ On("call") /\ Returns(task, Top.v) /\ UNCHANGED <<tick, fuel>>
Spawned ==
    /\ On("spawn") /\ UNCHANGED <<tick, fuel>>
    /\ Step(SpawnParent(task, Self, task[Self].by), <<>>)
Started ==
    /\ On("start") /\ UNCHANGED <<tick, fuel>>
    /\ Step(task, IF task[Self].run # "never" THEN <<>>
                  ELSE <<GotFrame(Token(Self, Top.n), Ok)>>)

(***************************************************************************)
(* The event loop: next ticks first, then answers, timers and the user.    *)
(***************************************************************************)
Begin(T, frames) ==
    /\ Quiet /\ failed = "no"
    /\ task' = T /\ stack' = frames /\ UNCHANGED <<plan, failed>>
Idle == Quiet /\ tick = <<>>
Tick ==
    /\ Quiet /\ tick # <<>> /\ tick' = Tail(tick) /\ UNCHANGED fuel
    /\ Begin(task, <<Head(tick)>>)
\* The timer of a wait, or one that has lost its handle: either takes the
\* handle of what still runs with it.
Timer(t) ==
    /\ Idle /\ UNCHANGED <<tick, fuel>>
    /\ \E left \in (IF task[t].timer THEN {task[t].stray} ELSE {})
                  \cup (IF task[t].stray = 0 THEN {}
                       ELSE {IF task[t].timer THEN task[t].stray ELSE task[t].stray - 1}) :
         Begin([task EXCEPT ![t].timer = FALSE, ![t].stray = left, ![t].late = TRUE],
               <<Frame("next", t, Err)>>)
Settle(t) ==
    /\ Idle /\ WaitOf(task, t) = "promise" /\ UNCHANGED <<tick, fuel>>
    /\ \E v \in {Ok, Err} :
         Begin(task, <<GotFrame(Token(t, task[t].wait), v)>>)
Continued(t) ==
    /\ Idle /\ WaitOf(task, t) = "wait" /\ task[t].kind # "waiter" /\ UNCHANGED <<tick, fuel>>
    /\ \E v \in {Ok, Err} :
         Begin(ContinueTask(task, t, v), ContinueFrames(task, t, v, "continue"))
Returned(t) ==
    /\ Idle /\ t \in Live /\ "return" \in plan.ops /\ Spend /\ UNCHANGED tick
    /\ Begin(ReturnTask(task, t, Ok), ContinueFrames(task, t, Ok, "return"))
\* alarm(ms, {throw}) of a task, whatever it waits for.
Alarm(t) ==
    /\ Idle /\ t \in Live /\ task[t].cur > 0 /\ "alarm" \in plan.ops /\ Spend /\ UNCHANGED tick
    /\ Begin(ContinueTask(task, t, Err), ContinueFrames(task, t, Err, "continue"))

Init ==
    /\ plan \in Plans
    /\ task = [Create([t \in Tasks |-> Unborn], 1, plan.root, Nobody) EXCEPT ![1].by = Nobody]
    /\ stack = <<Frame("next", 1, Ok)>>
    /\ tick = <<>> /\ fuel = plan.fuel /\ failed = "no"

Library == Generator \/ Leaf \/ For \/ AllOf \/ AllLimit
UserCode == \/ Finish \/ FinishWait \/ CallNew \/ SpawnNew \/ LooseNew \/ AsyncNew
            \/ AllNew \/ Join \/ Yield \/ CancelOther \/ Answer \/ ThenNew
Machine == \/ Next_run \/ Got_retval \/ After \/ Resume \/ Depth \/ Cancel
           \/ Complete \/ EmitChild \/ Leave \/ Then \/ Called \/ Spawned \/ Started
Outside == Tick \/ \E t \in Tasks : \/ Timer(t) \/ Settle(t) \/ Continued(t)
                                    \/ Returned(t) \/ Alarm(t)
Next == Machine \/ Library \/ UserCode \/ Outside
Spec == Init /\ [][Next]_vars

(***************************************************************************)
(* Properties.                                                             *)
(***************************************************************************)
\* The timer of a wait has woken a list of states.  The wait goes on, so that
\* its answer may come while a later state runs, and a timer that was started
\* for what was there already fires in any state.
Late(t) == task[t].kind = "raw" /\ task[t].late
NoneLate == \A t \in Tasks : ~Late(t)

TypeOK ==
    /\ \A t \in Born :
         /\ task[t].cur \in 0..Len(States[task[t].kind]) + 1
         /\ {task[t].up, task[t].down, task[t].parent} \subseteq Born \cup {Nobody}
         /\ ToSet(task[t].child) \subseteq Born
         /\ task[t].timer \in BOOLEAN /\ task[t].stray \in Nat
    /\ fuel \in Nat /\ failed \in {"no", "down", "root"}

\* The asserts of _set_down never fail: a task that calls another has no call
\* under way, and what it calls hangs under nobody.  A task that has ended
\* keeps no wait and no timer that it could have stopped; and only a list of
\* states starts a timer over one that still runs, whose handle is then lost:
\* generators and the library's tasks stop theirs before they wait again.
AssertsHold ==
    /\ TypeOK
    /\ \A t \in Born : task[t].stray > 0 => task[t].kind = "raw"
    /\ NoneLate => /\ failed # "down"
                   /\ Quiet => \A t \in Born \ Live : ~task[t].timer /\ task[t].wait = 0

\* The states of a task run one after another: none starts while one of the
\* same task is on the stack, whatever the state itself causes.
RunsOnce ==
    \A i, j \in DOMAIN stack :
        (stack[i].t = stack[j].t /\ {stack[i].f, stack[j].f}
                                   \subseteq {"body", "call", "iter", "after"})
        => i = j \/ Late(stack[i].t)

\* Every task that is not free hangs in exactly one place: under its caller,
\* under its parent or among the roots, and the place knows it; a free task
\* hangs nowhere, so nothing keeps it.  When nothing runs a task is free
\* exactly when it and all under it have ended.
TreeRight == NoneLate =>
    \A t \in Born :
        /\ (task[t].up # Nobody) => task[task[t].up].down = t
        /\ (task[t].down # Nobody) => task[task[t].down].up = t
        /\ \A p \in Born : (t \in ToSet(task[p].child)) <=> (task[t].parent = p)
        /\ IsInjective(task[t].child)
        /\ Cardinality({w \in {"root", "up", "parent", "free"} :
                           CASE w = "root" -> task[t].root
                             [] w = "up" -> task[t].up # Nobody
                             [] w = "parent" -> task[t].parent # Nobody
                             [] w = "free" -> task[t].free}) = 1
        /\ Quiet => (task[t].free <=> (/\ task[t].done /\ task[t].child = <<>>
                                      /\ task[t].down = Nobody))

\* When nothing runs, every live task waits for something that can still
\* come: its tick, its timer, an answer from outside, the task it calls or a
\* child that runs.  The exception is a generator that returned a wait for its
\* children: nobody listens to them for it, and only another task's return()
\* or an alarm ends it.
Waited(t) ==
    \/ \E i \in DOMAIN tick : tick[i].t = t
    \/ task[t].timer
    \/ WaitOf(task, t) \in {"wait", "promise"} /\ task[t].kind # "waiter"
    \/ task[t].kind = "waiter" /\ \E u \in Live : Token(t, 0) \in ToSet(task[u].then)
    \/ /\ WaitOf(task, t) = "int"
       /\ \E u \in Live : Token(t, task[t].wait) \in ToSet(task[u].then)
    \/ WaitOf(task, t) \in {"any", "all"} /\ Running(task, t) # {}
    \/ /\ WaitOf(task, t) = "child"
       /\ \E u \in Live : Token(t, task[t].wait) \in ToSet(task[u].fin)
Deaf(t) == task[t].kind = "gen" /\ task[t].atret /\ WaitOf(task, t) = "deaf"
NoLostWakeup == NoneLate /\ Quiet => \A t \in Live : Waited(t) \/ Deaf(t)

\* When nothing runs, no task that can be cancelled goes on under one that
\* has ended, but for one that was cancelled while its state was running and
\* ends with what that state has gone on to wait for.
CancelledTogether ==
    NoneLate /\ Quiet => \A t \in Live, p \in Born :
        /\ task[t].kind \in Cancelable /\ p \in {task[t].up, task[t].parent}
        /\ task[p].done
        => task[t].atret

\* all_limit never has more than its limit of tasks under way, and ends after
\* everything it started unless it is cancelled or fails; all that comes to the end of
\* its list ends after every task of the list.
GroupsRight == NoneLate =>
    \A t \in Born :
        /\ task[t].kind = "limit" =>
             Cardinality({c \in Live : task[c].by = t /\ task[c].cur > 0}) <= plan.limit
        /\ (task[t].kind = "limit" /\ t \notin Live /\ ~task[t].atret /\ ~task[t].err) =>
             \A c \in Born : task[c].by = t => task[c].done
        /\ (task[t].kind = "all" /\ t \notin Live /\ task[t].i >= Len(task[t].arr)) =>
             \A c \in ToSet(task[t].arr) : task[c].done
=============================================================================
