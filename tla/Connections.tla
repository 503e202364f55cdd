---------------------------- MODULE Connections ----------------------------
(***************************************************************************)
(* The connections of the nodes: net/node.js, net/channels.js, net/ws.js   *)
(* and what they need of a WebSocket.  A socket has two ends.  Each end    *)
(* sends its id as the first frame; the channel of an end is open when the *)
(* id of the other has come.  Frames of a socket arrive in order; a close  *)
(* arrives after what was sent before it.                                  *)
(*                                                                         *)
(* An action that gives a frame to the router takes the frames that the    *)
(* router then sends as a parameter: the two run in one step.              *)
(***************************************************************************)
EXTENDS NodeId, Sequences

CONSTANTS Socket, NoSocket

ASSUME ConnectionsAssumption == NoSocket \notin Socket

VARIABLES
    ends,     \* ends[s] is the set of the two nodes of a socket, {} if unused
    chan,     \* chan[s][n]: "new", "open", "closed"
    wire,     \* wire[s][n]: the frames on their way to n
    peers,    \* peers[n][m]: the socket of the channel to m, or NoSocket
    pending,  \* pending[n]: the nodes n has asked for their addresses
    asked,    \* asked[n]: those that have not answered yet
    stopped   \* destroyed nodes

connVars == <<ends, chan, wire, peers, pending, asked, stopped>>

Hello == <<"hello">>
Bye == <<"close">>
Data(m) == <<"data", m>>

Other(s, n) == CHOOSE m \in ends[s] : m # n
Peers(n) == {m \in Node : peers[n][m] # NoSocket}
Unused == {s \in Socket : ends[s] = {}}

(* Faulty variant: the other end is not told. *)
HangUpSilently(w, n, S) ==
    [s \in Socket |-> IF s \in S THEN [w[s] EXCEPT ![n] = <<>>] ELSE w[s]]

(* The sockets S are closed by their ends at n: what comes for n is ignored
   from now on, and the other ends will see it. *)
HangUp(w, n, S) ==
    [s \in Socket |-> IF s \notin S THEN w[s]
                      ELSE [x \in Node |-> CASE x = n -> <<>>
                                             [] x # n /\ x \in ends[s] /\ chan[s][x] # "closed" ->
                                                    Append(w[s][x], Bye)
                                             [] OTHER -> w[s][x]]]

(* out is a sequence of <<neighbour, message>>, p gives the channels.  An end
   that has closed ignores what comes. *)
Transmit(w, p, out) ==
    LET at[k \in 0 .. Len(out)] ==
            IF k = 0 THEN w
            ELSE LET m == out[k][1]
                 IN  IF chan[p[m]][m] = "closed" THEN at[k - 1]
                     ELSE [at[k - 1] EXCEPT ![p[m]][m] = Append(@, Data(out[k][2]))]
    IN  at[Len(out)]

Pop(n, s) == [wire EXCEPT ![s][n] = Tail(@)]

NextFrame(n, s, kind) == wire[s][n] # <<>> /\ Head(wire[s][n])[1] = kind

-----------------------------------------------------------------------------
(* A socket between two nodes that neither has used before: what WsConnector
   does at both ends when the connection comes about. *)
NewSocket(n, m) ==
    \E s \in Unused :
        /\ ends' = [ends EXCEPT ![s] = {n, m}]
        /\ chan' = [chan EXCEPT ![s] = [x \in Node |-> "new"]]
        /\ wire' = [wire EXCEPT ![s] = [x \in Node |-> IF x \in {n, m} THEN <<Hello>> ELSE <<>>]]

(* wsConnector.connect, called for a bootstrap url. *)
Dial(n, m) ==
    /\ n # m /\ n \notin stopped /\ m \notin stopped
    /\ NewSocket(n, m)
    /\ UNCHANGED <<peers, pending, asked, stopped>>

(* Node.connect: asks for the address of m, once in the life of the node.  The
   entry of pending is never deleted: onClose and _onConnection delete the
   entry of channel.id, which is an object and no key of it. *)
Connect(n, m) ==
    /\ n # m /\ n \notin stopped /\ m \notin pending[n] /\ m \notin Peers(n)
    /\ pending' = [pending EXCEPT ![n] = @ \cup {m}]
    /\ asked' = [asked EXCEPT ![n] = @ \cup {m}]
    /\ UNCHANGED <<ends, chan, wire, peers, stopped>>

(* _on_conn_info_r: the address of m has come; n may have m by now. *)
OnConnInfo(n, m) ==
    /\ m \in asked[n] /\ m \notin stopped
    /\ asked' = [asked EXCEPT ![n] = @ \ {m}]
    /\ IF n \in stopped \/ m \in Peers(n) THEN UNCHANGED <<ends, chan, wire>>
       ELSE NewSocket(n, m)
    /\ UNCHANGED <<peers, pending, stopped>>

-----------------------------------------------------------------------------
(* The id of the other end comes: WsChannel._onMessage, WsConnector.onOpen and
   Node._onConnection of a node that has no such peer. *)
Open(n, s, out) ==
    LET m == Other(s, n)
        now == [peers EXCEPT ![n][m] = s]
    IN  /\ NextFrame(n, s, "hello") /\ peers[n][m] = NoSocket
        /\ chan' = [chan EXCEPT ![s][n] = "open"]
        /\ peers' = now
        /\ wire' = Transmit(Pop(n, s), now[n], out)
        /\ UNCHANGED <<ends, pending, asked, stopped>>

(* Node._onConnection of a node that has such a peer: the new channel is
   destroyed, whatever the ids are, since cmp is given a Buffer and answers 1.
   Its close handler is in place already; it takes the peer of this id out of
   the table, which destroys the channel that was there. *)
Duplicate(n, s) ==
    LET m == Other(s, n)
    IN  /\ NextFrame(n, s, "hello") /\ peers[n][m] # NoSocket
        /\ chan' = [chan EXCEPT ![s][n] = "closed", ![peers[n][m]][n] = "closed"]
        /\ peers' = [peers EXCEPT ![n][m] = NoSocket]
        /\ wire' = HangUp(wire, n, {s, peers[n][m]})
        /\ UNCHANGED <<ends, pending, asked, stopped>>

(* A frame for the router. *)
Receive(n, s, out) ==
    /\ NextFrame(n, s, "data") /\ chan[s][n] = "open"
    /\ wire' = Transmit(Pop(n, s), peers[n], out)
    /\ UNCHANGED <<ends, chan, peers, pending, asked, stopped>>

(* The node sends on its own account. *)
Emit(n, out) ==
    /\ n \notin stopped
    /\ wire' = Transmit(wire, peers[n], out)
    /\ UNCHANGED <<ends, chan, peers, pending, asked, stopped>>

(* WsChannel.destroy at the end n of an open or a new channel: the close handler
   takes the peer with this id out of the table. *)
DestroyChannel(n, s, popped) ==
    LET m == Other(s, n)
        closed == IF chan[s][n] = "open" /\ peers[n][m] # NoSocket THEN {s, peers[n][m]} ELSE {s}
    IN  /\ chan' = [t \in Socket |-> IF t \in closed THEN [chan[t] EXCEPT ![n] = "closed"]
                                     ELSE chan[t]]
        /\ peers' = IF chan[s][n] = "open" THEN [peers EXCEPT ![n][m] = NoSocket] ELSE peers
        /\ wire' = HangUp(popped, n, closed)
        /\ UNCHANGED <<ends, pending, asked, stopped>>

(* The other end has closed. *)
OnClose(n, s) == NextFrame(n, s, "close") /\ DestroyChannel(n, s, Pop(n, s))

(* Node.disconnect, or the connection breaks. *)
Disconnect(n, m) ==
    /\ n \notin stopped /\ m \in Peers(n)
    /\ DestroyChannel(n, peers[n][m], wire)

(* Node.destroy: the connector destroys every channel that it ever had, those
   that are no peers included. *)
Stop(n) ==
    LET all == {s \in Socket : n \in ends[s] /\ chan[s][n] # "closed"}
    IN  /\ n \notin stopped
        /\ stopped' = stopped \cup {n}
        /\ chan' = [s \in Socket |-> IF s \in all THEN [chan[s] EXCEPT ![n] = "closed"] ELSE chan[s]]
        /\ peers' = [peers EXCEPT ![n] = [m \in Node |-> NoSocket]]
        /\ wire' = HangUp(wire, n, all)
        /\ UNCHANGED <<ends, pending, asked>>
=============================================================================
