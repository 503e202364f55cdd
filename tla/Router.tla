------------------------------- MODULE Router -------------------------------
(***************************************************************************)
(* The router of one node, net/router.js, as operators: what a call makes  *)
(* of the router's state, what it sends and what it hands to the node.     *)
(*                                                                         *)
(* The router of node n is a record                                        *)
(*   map    the routing table, NodeMap                                     *)
(*   rtt    channel.rtt of each neighbour, NoConn while it is not measured *)
(*   queue  messages that wait for a first channel                         *)
(*   seqs   tracked messages, by key <<request, direction, number>>        *)
(*   reqs   tracked requests                                               *)
(* A message is a record; hops are the 'fwd' layers around it, the outer   *)
(* one last, and rt is the route in the outer layer.                       *)
(***************************************************************************)
EXTENDS NodeMap

CONSTANTS DefRtt,    \* DEF_RTT
          MaxHops,   \* maxHops
          Delay      \* Delay[{x, y}]: what a ping from x to y and back takes

ASSUME RouterAssumption ==
    /\ DefRtt \in Nat \ {0}
    /\ MaxHops \in Nat \ {0}
    /\ Delay \in [Pairs -> Nat \ {0}]

NoNode == -1                          \* no next node
None == "none"                        \* no state, no type
ReqTypes == {"req", "req_start", "req_next", "req_end"}
ResTypes == {"res", "res_start", "res_next", "res_end"}
LastTypes == {"res", "req_end", "res_end"}

Message(from, to, type, cmd, req, seq, fuzzy, acks) ==
    [from |-> from, to |-> to, type |-> type, cmd |-> cmd, req |-> req, seq |-> seq,
     fuzzy |-> fuzzy, acks |-> acks, dir |-> "", vv |-> FALSE,
     hops |-> <<>>, rt |-> <<>>, rtts |-> <<>>, range |-> NoRange]

TypeToDir(type) == CASE type \in ReqTypes -> ">" [] type \in ResTypes -> "<" [] OTHER -> ""
TypeToRdir(type) == CASE type \in ReqTypes -> "<" [] type \in ResTypes -> ">" [] OTHER -> ""
KeyOf(m) == <<m.req, IF m.type = "ack" THEN m.dir ELSE TypeToDir(m.type), m.seq>>

(* The messages that m says have come: the other way, by their numbers. *)
Acknowledged(m) == {<<m.req, TypeToRdir(m.type), m.acks[k]>> : k \in DOMAIN m.acks}

(* Both ends of the outer layer, msg0. *)
From0(m) == IF m.hops = <<>> THEN m.from ELSE m.hops[Len(m.hops)].from
To0(m) == IF m.hops = <<>> THEN m.to ELSE m.hops[Len(m.hops)].to

Untracked == [state |-> None, type |-> None, src |-> NoNode, dst |-> NoNode, measured |-> FALSE]

NewRouter == [map |-> EmptyMap, rtt |-> [x \in Node |-> NoConn], queue |-> <<>>,
              seqs |-> <<>>, reqs |-> <<>>]

SeqOf(r, key) == IF key \in DOMAIN r.seqs THEN r.seqs[key] ELSE Untracked
ReqOf(r, req) == IF req \in DOMAIN r.reqs THEN r.reqs[req] ELSE None

(* f with the entry k set to v. *)
Noted(f, k, v) == [x \in DOMAIN f \cup {k} |-> IF x = k THEN v ELSE f[x]]

ChannelRtt(r, x) == IF r.rtt[x] = NoConn THEN DefRtt ELSE r.rtt[x]

-----------------------------------------------------------------------------
(* update_conn_from_fwd: each layer tells of one connection, and the way back
   through the layers from the last one on is a route to its sender.  The code
   folds a path that comes back to a node, and then counts it anew. *)
ConnRtt(map, x, y) == IF x = y \/ map.conn[{x, y}] = NoConn THEN DefRtt ELSE map.conn[{x, y}]

PathFold(path) ==
    LET fold[k \in 0 .. Len(path)] ==
            IF k = 0 THEN <<>>
            ELSE LET f == fold[k - 1]
                     again == {i \in DOMAIN f : f[i] = path[k]}
                 IN  IF again = {} THEN Append(f, path[k])
                     ELSE SubSeq(f, 1, CHOOSE i \in again : TRUE)
    IN  fold[Len(path)]

CalcPathRtt(n, map, path) ==
    LET sum[k \in 0 .. Len(path)] ==
            IF k = 0 THEN 0
            ELSE sum[k - 1] + ConnRtt(map, IF k = 1 THEN n ELSE path[k - 1], path[k])
    IN  sum[Len(path)]

BuildRttArray(n, map, path) ==
    [k \in DOMAIN path |-> ConnRtt(map, IF k = 1 THEN n ELSE path[k - 1], path[k])]

UpdateConnFromFwd(n, map0, hops) ==
    LET L == Len(hops)
        at[k \in 0 .. L] ==
            IF k = 0 THEN [map |-> map0, path |-> <<>>, rtt |-> 0]
            ELSE LET h == hops[L + 1 - k]
                     path == Append(at[k - 1].path, h.from)
                     fold == PathFold(path)
                     map == IF n \in {h.from, h.to} THEN at[k - 1].map
                            ELSE UpdateConn(n, at[k - 1].map, h.from, h.to, h.rtt, FALSE)
                     rtt == IF fold = path THEN at[k - 1].rtt + h.rtt
                            ELSE CalcPathRtt(n, map, fold)
                     known == map.graph[h.from].rtt
                 IN  [map |-> IF known = NoRtt \/ known > rtt
                              THEN [map EXCEPT !.graph[h.from] = [rtt |-> rtt, path |-> fold]]
                              ELSE map,
                      path |-> path, rtt |-> rtt]
    IN  at[L].map

UpdateConnFromPath(n, map0, rt, rtts) ==
    LET at[k \in 0 .. Len(rt)] ==
            IF k = 0 THEN map0
            ELSE LET prev == IF k = 1 THEN n ELSE rt[k - 1]
                 IN  IF n \in {prev, rt[k]} THEN at[k - 1]
                     ELSE UpdateConn(n, at[k - 1], prev, rt[k], rtts[k], FALSE)
    IN  at[Len(rt)]

LearnConn(n, r, m) ==
    [r EXCEPT !.map = UpdateConnFromPath(n, UpdateConnFromFwd(n, @, m.hops), m.rt, m.rtts)]

-----------------------------------------------------------------------------
(* update_rtt_from_ack: the time since the message was first seen, when the
   ack came straight from the node that wrote it.  It is counted for the
   connection of the ends that the message had when it was first seen. *)
UpdateRttFromAck(n, r, P, key, from, direct) ==
    LET s == r.seqs[key]
        other == IF s.src = n THEN s.dst ELSE s.src
        map == UpdateConn(n, r.map, s.src, s.dst, Delay[{n, from}], FALSE)
    IN  IF from = n \/ ~direct \/ s.measured THEN r
        ELSE IF other \notin P THEN [r EXCEPT !.seqs[key].measured = TRUE]
        ELSE [r EXCEPT !.seqs[key].measured = TRUE, !.map = map,
                       !.rtt[other] = map.conn[{s.src, s.dst}]]

(* Faulty variant: an acknowledgement of the next node counts as one of the last. *)
TrackAckAsDone(n, r, P, from, key, vv, direct) ==
    IF SeqOf(r, key).state = None THEN r
    ELSE UpdateRttFromAck(n, [r EXCEPT !.seqs[key].state = "done"], P, key, from, direct)

TrackAck(n, r, P, from, key, vv, direct) ==
    LET s == SeqOf(r, key)
        state == IF vv THEN "done" ELSE "ack"
        req == CASE vv /\ s.type \in LastTypes -> "close"
                 [] vv /\ s.type \notin LastTypes /\ key[2] = ">" -> "open"
                 [] OTHER -> ReqOf(r, key[1])
    IN  IF s.state = None THEN r
        ELSE UpdateRttFromAck(n, [r EXCEPT !.seqs[key].state = state, !.reqs[key[1]] = req],
                              P, key, from, direct)

(* The numbers that a message acknowledges, one after the other. *)
TrackAcks(n, r, P, m) ==
    LET at[k \in 0 .. Len(m.acks)] ==
            IF k = 0 THEN r
            ELSE TrackAck(n, at[k - 1], P, m.from, <<m.req, TypeToRdir(m.type), m.acks[k]>>,
                          TRUE, From0(m) = m.from)
    IN  at[Len(m.acks)]

TrackMsg(n, r, m) ==
    LET key == KeyOf(m)
        s == IF key \in DOMAIN r.seqs THEN r.seqs[key]
             ELSE [state |-> "in", type |-> m.type, src |-> From0(m), dst |-> To0(m),
                   measured |-> FALSE]
        now == [s EXCEPT !.state = IF From0(m) = n THEN "out" ELSE "in"]
        req == CASE m.type \in LastTypes -> "closing"
                 [] m.type \notin LastTypes /\ ReqOf(r, m.req) = None -> "opening"
                 [] OTHER -> ReqOf(r, m.req)
    IN  IF s.state = "ack" THEN r
        ELSE [r EXCEPT !.seqs = Noted(@, key, now), !.reqs = Noted(@, m.req, req)]

Track(n, r, P, m) ==
    IF m.type = "ack" THEN TrackAck(n, r, P, m.from, KeyOf(m), m.vv, From0(m) = m.from)
    ELSE TrackMsg(n, TrackAcks(n, r, P, m), m)

-----------------------------------------------------------------------------
(* send_prepare: where a message goes next.  The route of the message is kept
   unless, for a request, the node's own best route is cheaper for each bit;
   a message without a usable route takes the best one. *)
Usable(P, path) == path # <<>> /\ Head(path) \in P

KeepRoute(P, m, own, kept) ==
    IF /\ m.type \in {"req", "req_start"}
       /\ Usable(P, own.path)
       /\ ~kept.good \/ Cheaper(own.cost, kept)
    THEN own.path ELSE m.rt

ExactPath(n, r, P, m) ==
    CASE m.cmd = "connect" -> <<m.to>>
      [] m.cmd # "connect" /\ Usable(P, m.rt) ->
            KeepRoute(P, m, GetBestRoute(n, r.map, m.to),
                      RttPbVia(n, m.to, m.rt[Len(m.rt)], CalcPathRtt(n, r.map, m.rt)))
      [] OTHER -> GetBestRoute(n, r.map, m.to).path

FuzzyPath(n, r, P, m) ==
    IF m.rt # <<>> THEN m.rt
    ELSE GetRouteByRange(n, r.map, m.to, {m.from, m.to}, m.range).path

(* The range in which a nearer node may still be, seen from the next node. *)
NextRange(range, to, next) ==
    LET upper == [min |-> next, max |-> range.max]
    IN  CASE range = NoRange -> [min |-> next, max |-> next]
          [] range # NoRange /\ InRange(to, upper) -> upper
          [] OTHER -> [min |-> range.min, max |-> next]

(* A message that is sent on gets a layer of its own, unless its sender can
   reach the destination at once.  What is left of the route goes with it. *)
Wrap(n, r, m, path) ==
    LET next == Head(path)
        far == Len(path) > 1
        range == IF m.fuzzy /\ ~far THEN NextRange(m.range, m.to, next) ELSE m.range
        rest == Tail(path)
    IN  IF m.hops = <<>> /\ range = NoRange /\ ~far /\ next = m.to THEN m
        ELSE [m EXCEPT !.hops = Append(@, [from |-> n, to |-> next, rtt |-> ChannelRtt(r, next)]),
                       !.rt = IF far THEN rest ELSE <<>>,
                       !.rtts = IF far THEN BuildRttArray(n, r.map, rest) ELSE <<>>,
                       !.range = range]

(* vv: the message is for this node itself, because nobody is nearer. *)
Over(n, r, P, m, path) ==
    IF Usable(P, path)
    THEN [next |-> Head(path), m |-> Wrap(n, r, m, path), vv |-> FALSE]
    ELSE [next |-> NoNode, m |-> m, vv |-> m.fuzzy /\ m.rt = <<>>]

SendPrepare(n, r, P, m) ==
    IF Len(m.hops) >= MaxHops THEN [next |-> NoNode, m |-> m, vv |-> FALSE]
    ELSE Over(n, r, P, m, IF m.fuzzy THEN FuzzyPath(n, r, P, m) ELSE ExactPath(n, r, P, m))

-----------------------------------------------------------------------------
(* What a call leaves behind: the router, the messages sent, each to a
   neighbour, and the message that the node is given, if any. *)
Done(r) == [r |-> r, out |-> <<>>, up |-> {}]

Then(d, e) == [r |-> e.r, out |-> d.out \o e.out, up |-> d.up \cup e.up]

Ack(n, m, to, vv) ==
    [Message(n, to, "ack", "", m.req, m.seq, FALSE, <<>>) EXCEPT
        !.dir = TypeToDir(m.type), !.vv = vv]

(* _send, for a message of this node. *)
SendOver(n, r, P, m, o) ==
    [r |-> Track(n, r, P, o.m),
     out |-> IF o.next # NoNode THEN <<<<o.next, o.m>>>> ELSE <<>>,
     up |-> IF o.vv THEN {m} ELSE {}]

Send(n, r, P, m) ==
    IF P = {} THEN Done([r EXCEPT !.queue = Append(@, m)])
    ELSE SendOver(n, r, P, m, SendPrepare(n, r, P, m))

(* Faulty variant: acknowledgements are acknowledged. *)
AckArrivedAlways(n, r, P, channel, m, ack) ==
    IF m.from = channel
    THEN [r |-> Track(n, r, P, ack), out |-> <<<<channel, ack>>>>, up |-> {}]
    ELSE Send(n, r, P, ack)

(* ack: an acknowledgement to the writer of a message that has arrived. *)
AckArrived(n, r, P, channel, m, ack) ==
    IF m.type = "ack" THEN Done(r)
    ELSE IF m.from = channel
    THEN [r |-> Track(n, r, P, ack), out |-> <<<<channel, ack>>>>, up |-> {}]
    ELSE Send(n, r, P, ack)

Deliver(n, r, P, channel, m) ==
    Then([r |-> r, out |-> <<>>, up |-> {m}],
         AckArrived(n, r, P, channel, m, Ack(n, m, m.from, TRUE)))

(* _on_msg: a message from the channel of a neighbour.  Its handlers may send
   before the acknowledgement goes out; that sends the acknowledgement first,
   so a message they send is one that is sent right afterwards. *)
ForwardOver(n, r, m, channel, o) ==
    [r |-> r, up |-> {},
     out |-> (IF o.next # NoNode THEN <<<<o.next, o.m>>>> ELSE <<>>)
             \o (IF m.type # "ack" THEN <<<<channel, Ack(n, m, channel, FALSE)>>>> ELSE <<>>)]

PassOn(n, r, P, channel, m, o) ==
    IF o.vv THEN Deliver(n, Track(n, r, P, m), P, channel, m)
    ELSE ForwardOver(n, Track(n, r, P, o.m), m, channel, o)

Seen(n, r, P, channel, m) ==
    IF m.rt = <<>> /\ m.to = n THEN Deliver(n, r, P, channel, m)
    ELSE PassOn(n, r, P, channel, m, SendPrepare(n, r, P, m))

OnMsg(n, r, P, channel, m) == Seen(n, Track(n, LearnConn(n, r, m), P, m), P, channel, m)

(* _onChannelAdded: the channel becomes a route, and what waited is sent. *)
OnChannelAdded(n, r, P, x) ==
    LET at[k \in 0 .. Len(r.queue)] ==
            IF k = 0 THEN Done([r EXCEPT !.map = UpdateConn(n, r.map, n, x, DefRtt, TRUE),
                                         !.rtt[x] = NoConn, !.queue = <<>>])
            ELSE Then(at[k - 1], Send(n, at[k - 1].r, P, r.queue[k]))
    IN  at[Len(r.queue)]

(* _onChannelRemoved: del_conn does nothing, so the table keeps the
   connection and every route over it. *)
OnChannelRemoved(r, x) == r

(* The timer that schedule_build_rtt_graph has set. *)
OnBuildTimer(n, r) == [r EXCEPT !.map = BuildRttGraph(n, r.map)]
=============================================================================
