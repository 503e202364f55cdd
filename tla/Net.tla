-------------------------------- MODULE Net --------------------------------
(***************************************************************************)
(* Nodes with their connections and their routers: every frame that comes, *)
(* every channel that opens is given to the router of the node in the same *)
(* step.  The application is a set of messages that it sends, each once; a *)
(* response only after its request has come.                               *)
(***************************************************************************)
EXTENDS Router, Connections

CONSTANT Scenarios
    (* What the network may start from: records of
         links   socket of each pair of nodes that are connected
         down    the nodes that do not run
         plan    the messages of the application
         events  bound: dials, requests for an address, disconnects and
                 destroyed nodes                                             *)

(* A socket for each link, numbers for messages that the application does not
   use for two, and none that are those of connect requests.  A message is
   for an id, which need not be that of a node. *)
ScenariosAssumption ==
    \A sc \in Scenarios :
        /\ sc.events \in Nat /\ sc.down \subseteq Node
        /\ \A l \in DOMAIN sc.links :
              /\ sc.links[l] \in Socket
              /\ \E n, m \in Node : n # m /\ l = {n, m}
              /\ \A k \in DOMAIN sc.links : sc.links[k] = sc.links[l] => k = l
        /\ \A m \in sc.plan :
              /\ m = Message(m.from, m.to, m.type, m.cmd, m.req, m.seq, m.fuzzy, m.acks)
              /\ m.type \in ReqTypes \cup ResTypes /\ m.to \in Id
              /\ m.acks \in Seq(Nat)
              /\ \A n \in Node, s \in Socket : m.req # <<n, s>>
              /\ \A x \in sc.plan : KeyOf(x) = KeyOf(m) => x.type = m.type

ASSUME NetAssumption == ScenariosAssumption

VARIABLES
    router,   \* the router of each node
    todo,     \* messages of the plan not sent yet
    arrived,  \* history: <<node, key, type, handed to the node>> for what came
    events    \* such events left

netVars == <<ends, chan, wire, peers, pending, asked, stopped, router, todo, arrived, events>>

(* The nodes of a link know each other and have measured their connection. *)
LinkedRouter(n, links) ==
    LET to == {m \in Node \ {n} : {n, m} \in DOMAIN links}
        conn == [p \in Pairs |-> IF p \in DOMAIN links /\ n \in p THEN Delay[p] ELSE NoConn]
    IN  [NewRouter EXCEPT
            !.map.conn = conn,
            !.map.graph = [m \in Node |-> IF m \in to
                                          THEN [rtt |-> conn[{n, m}], path |-> <<m>>]
                                          ELSE NoRoute],
            !.rtt = [m \in Node |-> IF m \in to THEN conn[{n, m}] ELSE NoConn]]

Start(links, down) ==
    /\ ends = [s \in Socket |-> UNION {l \in DOMAIN links : links[l] = s}]
    /\ chan = [s \in Socket |-> [n \in Node |->
                   IF \E l \in DOMAIN links : links[l] = s THEN "open" ELSE "new"]]
    /\ wire = [s \in Socket |-> [n \in Node |-> <<>>]]
    /\ peers = [n \in Node |-> [m \in Node |-> IF {n, m} \in DOMAIN links /\ n # m
                                               THEN links[{n, m}] ELSE NoSocket]]
    /\ pending = [n \in Node |-> {}]
    /\ asked = [n \in Node |-> {}]
    /\ stopped = down
    /\ router = [n \in Node |-> LinkedRouter(n, links)]

Init ==
    \E sc \in Scenarios :
        /\ Start(sc.links, sc.down)
        /\ todo = sc.plan
        /\ events = sc.events
        /\ arrived = {}

(* The step d of the router of n. *)
RouterStep(n, d) == router' = [router EXCEPT ![n] = d.r]

Handed(n, ms) == {<<n, KeyOf(m), m.type, TRUE>> : m \in {x \in ms : x.type # "ack"}}

-----------------------------------------------------------------------------
Event == events > 0 /\ events' = events - 1

Bootstrap(n, m) == Event /\ Dial(n, m) /\ UNCHANGED <<router, todo, arrived>>

AskAddress(n, m) == Event /\ Connect(n, m) /\ UNCHANGED <<router, todo, arrived>>

AddressComes(n, m) == OnConnInfo(n, m) /\ UNCHANGED <<router, todo, arrived, events>>

(* What the router of n does in the step of a message or a channel. *)
Routed(n, d, came) ==
    /\ RouterStep(n, d)
    /\ arrived' = arrived \cup came \cup Handed(n, d.up)

(* The router learns of the channel, sends what has waited, and the node sends
   its connect request. *)
Greet(n, m, s, P, d) ==
    Then(d, Send(n, d.r, P, Message(n, m, "req", "connect", <<n, s>>, 0, FALSE, <<>>)))

ChannelStep(n, s, d) == Open(n, s, d.out) /\ Routed(n, d, {}) /\ UNCHANGED <<todo, events>>

ChannelOpens(n, s) ==
    LET m == Other(s, n)
        P == Peers(n) \cup {m}
    IN  ChannelStep(n, s, Greet(n, m, s, P, OnChannelAdded(n, router[n], P, m)))

DuplicateDropped(n, s) ==
    /\ Duplicate(n, s)
    /\ RouterStep(n, Done(OnChannelRemoved(router[n], Other(s, n))))
    /\ UNCHANGED <<todo, arrived, events>>

MessageStep(n, s, m, d) ==
    /\ Receive(n, s, d.out)
    /\ Routed(n, d, IF m.type = "ack" THEN {} ELSE {<<n, KeyOf(m), m.type, FALSE>>})
    /\ UNCHANGED <<todo, events>>

MessageComes(n, s) ==
    /\ NextFrame(n, s, "data")
    /\ LET m == Head(wire[s][n])[2]
       IN  MessageStep(n, s, m, OnMsg(n, router[n], Peers(n), Other(s, n), m))

ChannelCloses(n, s) ==
    /\ OnClose(n, s)
    /\ RouterStep(n, Done(OnChannelRemoved(router[n], Other(s, n))))
    /\ UNCHANGED <<todo, arrived, events>>

GiveUp(n, m) ==
    /\ Event /\ Disconnect(n, m)
    /\ RouterStep(n, Done(OnChannelRemoved(router[n], m)))
    /\ UNCHANGED <<todo, arrived>>

DestroyNode(n) ==
    /\ Event /\ Stop(n)
    /\ RouterStep(n, Done([router[n] EXCEPT !.map.timer = FALSE]))
    /\ UNCHANGED <<todo, arrived>>

(* Req.send, Res.send: what a message acknowledges is what has come. *)
SendStep(n, m, d) ==
    /\ Emit(n, d.out) /\ Routed(n, d, {})
    /\ todo' = todo \ {m}
    /\ UNCHANGED events

Application(n) ==
    \E m \in todo :
        /\ m.from = n
        /\ m.type \in ResTypes => \E a \in arrived : a[1] = n /\ a[2][1] = m.req /\ a[4]
        /\ \A key \in Acknowledged(m) : \E a \in arrived : a[1] = n /\ a[2] = key /\ a[4]
        /\ SendStep(n, m, Send(n, router[n], Peers(n), m))

BuildTimer(n) ==
    /\ router[n].map.timer
    /\ RouterStep(n, Done(OnBuildTimer(n, router[n])))
    /\ UNCHANGED <<ends, chan, wire, peers, pending, asked, stopped, todo, arrived, events>>

Arrivals ==
    \E n \in Node, s \in Socket :
        /\ n \in ends[s]
        /\ ChannelOpens(n, s) \/ DuplicateDropped(n, s) \/ MessageComes(n, s) \/ ChannelCloses(n, s)

Next ==
    \/ \E n, m \in Node : Bootstrap(n, m) \/ AskAddress(n, m) \/ AddressComes(n, m) \/ GiveUp(n, m)
    \/ Arrivals
    \/ \E n \in Node : DestroyNode(n) \/ Application(n) \/ BuildTimer(n)

Quiet == \A s \in Socket, n \in Node : wire[s][n] = <<>>

(* Sockets deliver what is sent, in some order between them; nothing is assumed
   of the application, of those who connect and give up, or of the timer. *)
Spec == Init /\ [][Next]_netVars /\ ([]<>Quiet \/ []<><<Arrivals>>_netVars)

-----------------------------------------------------------------------------
TypeOK ==
    /\ ends \in [Socket -> SUBSET Node]
    /\ chan \in [Socket -> [Node -> {"new", "open", "closed"}]]
    /\ peers \in [Node -> [Node -> Socket \cup {NoSocket}]]
    /\ stopped \subseteq Node /\ events \in Nat
    /\ \A n \in Node : DOMAIN router[n].reqs = {k[1] : k \in DOMAIN router[n].seqs}

(* The table of peers is the set of open channels, at each node; and when all
   that was sent has come, both ends of a socket agree: a node is a peer of
   its peer, over the same socket. *)
SamePeers ==
    /\ \A s \in Socket : \A n \in ends[s] : chan[s][n] = "open" <=> peers[n][Other(s, n)] = s
    /\ Quiet => \A n, m \in Node : n # m => peers[n][m] = peers[m][n]

(* What the router believes of a tracked message is so: a done message has been
   handed to a node, an acknowledged one has come to another node, and a closed
   request had its last message handed over. *)
AcksTrue ==
    TypeOK /\ \A n \in Node :
        /\ \A key \in DOMAIN router[n].seqs :
              LET state == router[n].seqs[key].state
              IN  /\ state = "done" => \E a \in arrived : a[2] = key /\ a[4]
                  /\ state = "ack" => \E a \in arrived : a[2] = key /\ a[1] # n
        /\ \A q \in DOMAIN router[n].reqs :
              router[n].reqs[q] = "close" =>
                  \E a \in arrived : a[2][1] = q /\ a[3] \in LastTypes /\ a[4]

(* The graph that a pending timer will build has the shortest routes: each is a walk over
   known connections of just that length, and no connection shortens one. *)
TableRight ==
    \A n \in {x \in Node : router[x].map.timer} :
        LET map == router[n].map
            all == Others(n, map) \cup {n}
            g == BuildRttGraph(n, map).graph
        IN  /\ \A x \in Others(n, map) :
                  g[x].rtt < Infinite => /\ g[x].path[Len(g[x].path)] = x
                                         /\ CalcPathRtt(n, map, g[x].path) = g[x].rtt
            /\ \A x, y \in all : x # y /\ map.conn[{x, y}] # NoConn =>
                                     g[y].rtt <= g[x].rtt + map.conn[{x, y}]

(* The range of a message to the nearest node narrows round its destination
   and never loses it. *)
FuzzyRange ==
    \A s \in Socket, n \in Node : \A i \in DOMAIN wire[s][n] :
        LET f == wire[s][n][i]
        IN  f[1] = "data" /\ f[2].fuzzy /\ f[2].range # NoRange => InRange(f[2].to, f[2].range)

(* What the next node is chosen from is right as far as the node itself knows:
   the routes of its table are the shortest over the connections it has learnt,
   and the range of a message to the nearest node still holds the id it is for.
   That the message arrives is not claimed: tables of two nodes differ, and a
   connection that is gone stays in them (NodeMap.del_conn does nothing). *)
RoutesRight == TableRight /\ FuzzyRange

(* A message is forwarded a bounded number of times: in the end nothing is
   under way. *)
Quiesces == <>[]Quiet
=============================================================================
