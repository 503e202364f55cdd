-------------------------- MODULE ReqStreamProofs --------------------------
(***************************************************************************)
(* Proofs about ReqStream, for every bound and every set of duplicated     *)
(* message types.                                                          *)
(***************************************************************************)
EXTENDS ReqStream, TLAPS

USE MaxSeqAssumption, MaxDupAssumption, DupTypesAssumption

\* Emitting a message keeps the shape of the receiver's state.
LEMMA EmitType ==
  ASSUME TypeOK, NEW p \in Side, NEW s \in Seqs, Emit(p, s)
  PROVE  /\ ooo' \in [Side -> SUBSET Seqs]
         /\ next' \in [Side -> 0 .. MaxSeq]
         /\ emits' \in [Side -> [Seqs -> Nat]]
<1>1. CASE EmitInOrder(p, s)
  <2>1. PICK k \in s + 1 .. MaxSeq :
          /\ next' = [next EXCEPT ![p] = k]
          /\ ooo' = [ooo EXCEPT ![p] = @ \ (s .. k - 1)]
          /\ emits' = [emits EXCEPT ![p] =
               [t \in Seqs |-> IF t \in s .. k - 1 THEN @[t] + 1 ELSE @[t]]]
    BY <1>1 DEF EmitInOrder
  <2>2. k \in 0 .. MaxSeq
    BY DEF Seqs
  <2>3. [t \in Seqs |-> IF t \in s .. k - 1 THEN emits[p][t] + 1
                                            ELSE emits[p][t]] \in [Seqs -> Nat]
    BY DEF TypeOK
  <2> QED BY <2>1, <2>2, <2>3 DEF TypeOK
<1>2. CASE EmitDup(p, s)
  BY <1>2 DEF EmitDup, TypeOK
<1>3. CASE EmitOoo(p, s)
  BY <1>3 DEF EmitOoo, TypeOK
<1> QED BY <1>1, <1>2, <1>3 DEF Emit

\* Receiving a message from the network only ever removes it.
LEMMA TakeShrinks ==
  ASSUME TypeOK, NEW m, Take(m)
  PROVE  /\ m \in net /\ m \in Message
         /\ net' \subseteq net
         /\ dups' \in 0 .. MaxDup
BY DEF Take, TypeOK

\* Type correctness: TypeOK holds in every reachable state.
THEOREM TypeCorrect == Spec => []TypeOK
<1>1. Init => TypeOK
  <2> SUFFICES ASSUME Init PROVE TypeOK
    OBVIOUS
  <2>1. 0 \in 0 .. MaxSeq /\ 0 \in 0 .. MaxDup
    OBVIOUS
  <2>2. /\ seq \in [Side -> 0 .. MaxSeq]
        /\ next \in [Side -> 0 .. MaxSeq]
        /\ dups \in 0 .. MaxDup
    BY <2>1 DEF Init
  <2>3. [s \in Seqs |-> 0] \in [Seqs -> Nat]
    OBVIOUS
  <2>4. emits \in [Side -> [Seqs -> Nat]]
    BY <2>3 DEF Init
  <2> QED BY <2>2, <2>4 DEF Init, TypeOK
<1>2. TypeOK /\ [Next]_vars => TypeOK'
  <2> SUFFICES ASSUME TypeOK, [Next]_vars
               PROVE  TypeOK'
    OBVIOUS
  <2>1. ASSUME NEW end \in BOOLEAN, NEW close \in BOOLEAN,
               NEW a \in SUBSET ack["req"], ReqSend(end, close, a)
        PROVE  TypeOK'
    <3>1. seq["req"] \in Seqs /\ seq["req"] + 1 \in 0 .. MaxSeq
      BY <2>1 DEF ReqSend, TypeOK, Seqs, Side
    <3>2. [src |-> "req", type |-> ReqType(seq["req"], end \/ close),
           seq |-> seq["req"], ack |-> a] \in Message
      BY <3>1 DEF Message, ReqType, ReqTypes, ResTypes, Side, TypeOK
    <3>3. net' \in SUBSET Message
      BY <2>1, <3>2 DEF ReqSend, TypeOK
    <3>4. /\ live' \in BOOLEAN
          /\ over' \in [Side -> BOOLEAN]
      BY <2>1 DEF ReqSend, TypeOK
    <3>5. /\ seq' \in [Side -> 0 .. MaxSeq]
          /\ ack' \in [Side -> SUBSET Seqs]
          /\ sent' \in [Side -> SUBSET Seqs]
          /\ untracked' \in [Side -> SUBSET Seqs]
      BY <2>1, <3>1 DEF ReqSend, TypeOK
    <3> QED BY <2>1, <3>3, <3>4, <3>5
            DEF ReqSend, TypeOK, resVars, recvVars
  <2>2. ASSUME NEW end \in BOOLEAN, NEW close \in BOOLEAN,
               NEW a \in SUBSET ack["res"], ResSend(end, close, a)
        PROVE  TypeOK'
    <3>1. seq["res"] \in Seqs /\ seq["res"] + 1 \in 0 .. MaxSeq
      BY <2>2 DEF ResSend, TypeOK, Seqs, Side
    <3>2. [src |-> "res", type |-> ResType(seq["res"], end \/ close),
           seq |-> seq["res"], ack |-> a] \in Message
      BY <3>1 DEF Message, ResType, ReqTypes, ResTypes, Side, TypeOK
    <3>3. net' \in SUBSET Message
      BY <2>2, <3>2 DEF ResSend, TypeOK
    <3>4. /\ cleared' \in BOOLEAN
          /\ over' \in [Side -> BOOLEAN]
      BY <2>2 DEF ResSend, TypeOK
    <3>5. /\ seq' \in [Side -> 0 .. MaxSeq]
          /\ ack' \in [Side -> SUBSET Seqs]
          /\ sent' \in [Side -> SUBSET Seqs]
          /\ untracked' \in [Side -> SUBSET Seqs]
      BY <2>2, <3>1 DEF ResSend, TypeOK
    <3> QED BY <2>2, <3>3, <3>4, <3>5
            DEF ResSend, TypeOK, reqVars, recvVars
  <2>3. ASSUME NEW m \in net, ResHandler(m)
        PROVE  TypeOK'
    <3>1. /\ m \in Message /\ net' \subseteq net /\ dups' \in 0 .. MaxDup
      BY <2>3, TakeShrinks DEF ResHandler
    <3>2. m.seq \in Seqs
      BY <3>1 DEF Message
    <3>3. /\ ooo' \in [Side -> SUBSET Seqs]
          /\ next' \in [Side -> 0 .. MaxSeq]
          /\ emits' \in [Side -> [Seqs -> Nat]]
      BY <2>3, <3>2, EmitType DEF ResHandler, Side
    <3>4. /\ ack' \in [Side -> SUBSET Seqs]
          /\ arrived' \in [Side -> SUBSET Seqs]
          /\ sent' \in [Side -> SUBSET Seqs]
      BY <2>3, <3>2 DEF ResHandler, Accept, TypeOK
    <3> QED BY <2>3, <3>1, <3>3, <3>4
            DEF ResHandler, TypeOK, resVars, sendVars
  <2>4. ASSUME NEW m \in net, ReqHandlerCb(m)
        PROVE  TypeOK'
    <3>1. /\ m \in Message /\ net' \subseteq net /\ dups' \in 0 .. MaxDup
      BY <2>4, TakeShrinks DEF ReqHandlerCb
    <3>2. m.seq \in Seqs
      BY <3>1 DEF Message
    <3>3. /\ ooo' \in [Side -> SUBSET Seqs]
          /\ next' \in [Side -> 0 .. MaxSeq]
          /\ emits' \in [Side -> [Seqs -> Nat]]
      <4>1. CASE m.type \in {"req", "req_start"}
        <5>1. 1 \in 0 .. MaxSeq
          OBVIOUS
        <5> QED BY <2>4, <3>2, <4>1, <5>1
                DEF ReqHandlerCb, HandleStart, TypeOK, Side
      <4>2. CASE m.type \notin {"req", "req_start"}
        BY <2>4, <3>2, <4>2, EmitType DEF ReqHandlerCb, Side
      <4> QED BY <4>1, <4>2
    <3>4. /\ ack' \in [Side -> SUBSET Seqs]
          /\ arrived' \in [Side -> SUBSET Seqs]
          /\ sent' \in [Side -> SUBSET Seqs]
      BY <2>4, <3>2 DEF ReqHandlerCb, Accept, TypeOK
    <3> QED BY <2>4, <3>1, <3>3, <3>4
            DEF ReqHandlerCb, TypeOK, reqVars, sendVars
  <2>5. ASSUME NEW m \in net, Ignore(m)
        PROVE  TypeOK'
    BY <2>5, TakeShrinks
       DEF Ignore, TypeOK, reqVars, resVars, sendVars, recvVars
  <2>6. CASE ReqTimeout
    BY <2>6 DEF ReqTimeout, TypeOK, resVars, sendVars, recvVars
  <2>7. CASE ResTimeout
    BY <2>7 DEF ResTimeout, TypeOK, reqVars, sendVars, recvVars
  <2>8. CASE ReqClose
    BY <2>8 DEF ReqClose, TypeOK, resVars, sendVars, recvVars
  <2>9. CASE ResDestroy
    BY <2>9 DEF ResDestroy, TypeOK, reqVars, sendVars, recvVars
  <2>10. CASE UNCHANGED vars
    BY <2>10 DEF vars, TypeOK
  <2> QED BY <2>1, <2>2, <2>3, <2>4, <2>5, <2>6, <2>7, <2>8, <2>9, <2>10
          DEF Next, Send, Receive
<1> QED BY <1>1, <1>2, PTL DEF Spec

-----------------------------------------------------------------------------
(***************************************************************************)
(* What is in flight or waiting to be acknowledged is true: numbers were   *)
(* sent, and acknowledgements name numbers that arrived.                   *)
(***************************************************************************)
InFlightTrue ==
  \A m \in net : /\ m.seq < seq[m.src]
                 /\ m.ack \subseteq arrived[m.src]
AckTrue == \A p \in Side : ack[p] \subseteq arrived[p]
ArrivedWasSent == \A p \in Side : \A s \in arrived[p] : s < seq[Peer(p)]
Tracked == live => untracked["req"] = {}
Sound == InFlightTrue /\ AckTrue /\ ArrivedWasSent /\ Tracked

\* A handler accepts a number that was sent; nothing else becomes untrue.
LEMMA AcceptSound ==
  ASSUME TypeOK, Sound, NEW m \in net, NEW p \in Side, m.src = Peer(p),
         Take(m), Accept(p, m.seq), UNCHANGED <<seq, untracked>>,
         Tracked'
  PROVE  Sound'
<1>1. m.seq < seq[Peer(p)]
  BY DEF Sound, InFlightTrue
<1>2. \A q \in Side : arrived[q] \subseteq arrived'[q]
  BY DEF Accept, TypeOK
<1>3. InFlightTrue'
  <2> SUFFICES ASSUME NEW n \in net' PROVE n.seq < seq'[n.src] /\ n.ack \subseteq arrived'[n.src]
    BY DEF InFlightTrue
  <2>1. n \in net /\ n.src \in Side
    BY TakeShrinks DEF TypeOK, Message
  <2> QED BY <2>1, <1>2 DEF Sound, InFlightTrue
<1>4. AckTrue'
  BY DEF Accept, TypeOK, Sound, AckTrue
<1>5. ArrivedWasSent'
  BY <1>1 DEF Accept, TypeOK, Sound, ArrivedWasSent
<1> QED BY <1>3, <1>4, <1>5 DEF Sound

\* Sound is an invariant: no acknowledgement ever speaks of a message that
\* did not arrive.
THEOREM SoundInvariant == Spec => []Sound
<1>1. Init => Sound
  BY DEF Init, Sound, InFlightTrue, AckTrue, ArrivedWasSent, Tracked, Side
<1>2. TypeOK /\ Sound /\ [Next]_vars => Sound'
  <2> SUFFICES ASSUME TypeOK, Sound, [Next]_vars
               PROVE  Sound'
    OBVIOUS
  <2> USE DEF Sound
  <2>1. ASSUME NEW end \in BOOLEAN, NEW close \in BOOLEAN,
               NEW a \in SUBSET ack["req"], ReqSend(end, close, a)
        PROVE  Sound'
    <3> DEFINE m == [src |-> "req",
                     type |-> ReqType(seq["req"], end \/ close),
                     seq |-> seq["req"], ack |-> a]
    <3>1. /\ net' = net \cup {m}
          /\ seq' = [seq EXCEPT !["req"] = seq["req"] + 1]
          /\ ack' = [ack EXCEPT !["req"] = @ \ a]
          /\ arrived' = arrived
      BY <2>1 DEF ReqSend, recvVars
    <3>2. m.src = "req" /\ m.seq = seq["req"] /\ m.ack = a
      OBVIOUS
    <3> HIDE DEF m
    <3>3. a \subseteq arrived["req"] /\ "req" \in Side
      BY DEF AckTrue, Side
    <3>4. InFlightTrue'
      <4> SUFFICES ASSUME NEW n \in net'
                   PROVE  n.seq < seq'[n.src] /\ n.ack \subseteq arrived'[n.src]
        BY DEF InFlightTrue
      <4>1. CASE n = m
        BY <3>1, <3>2, <3>3, <4>1 DEF TypeOK
      <4>2. CASE n \in net
        <5>1. n.src \in Side /\ n.seq < seq[n.src] /\ n.seq \in Nat
          BY <4>2 DEF InFlightTrue, TypeOK, Message, Seqs
        <5> QED BY <3>1, <3>3, <4>2, <5>1 DEF InFlightTrue, TypeOK
      <4> QED BY <3>1, <4>1, <4>2
    <3>5. AckTrue'
      BY <3>1 DEF AckTrue, TypeOK
    <3>6. ArrivedWasSent'
      BY <3>1 DEF ArrivedWasSent, TypeOK, Peer, Side, Seqs
    <3>7. Tracked'
      <4>1. CASE close
        BY <4>1, <2>1 DEF ReqSend, Tracked
      <4>2. CASE ~close
        BY <4>2, <2>1 DEF ReqSend, Tracked, TypeOK, Side
      <4> QED BY <4>1, <4>2
    <3> QED BY <3>4, <3>5, <3>6, <3>7
  <2>2. ASSUME NEW end \in BOOLEAN, NEW close \in BOOLEAN,
               NEW a \in SUBSET ack["res"], ResSend(end, close, a)
        PROVE  Sound'
    <3> DEFINE m == [src |-> "res",
                     type |-> ResType(seq["res"], end \/ close),
                     seq |-> seq["res"], ack |-> a]
    <3>1. /\ net' \subseteq net \cup {m}
          /\ seq' = [seq EXCEPT !["res"] = seq["res"] + 1]
          /\ ack' = [ack EXCEPT !["res"] = @ \ a]
          /\ arrived' = arrived
          /\ live' = live
      BY <2>2 DEF ResSend, recvVars, reqVars
    <3>2. m.src = "res" /\ m.seq = seq["res"] /\ m.ack = a
      OBVIOUS
    <3> HIDE DEF m
    <3>3. a \subseteq arrived["res"] /\ "res" \in Side
      BY DEF AckTrue, Side
    <3>4. InFlightTrue'
      <4> SUFFICES ASSUME NEW n \in net'
                   PROVE  n.seq < seq'[n.src] /\ n.ack \subseteq arrived'[n.src]
        BY DEF InFlightTrue
      <4>1. CASE n = m
        BY <3>1, <3>2, <3>3, <4>1 DEF TypeOK
      <4>2. CASE n \in net
        <5>1. n.src \in Side /\ n.seq < seq[n.src] /\ n.seq \in Nat
          BY <4>2 DEF InFlightTrue, TypeOK, Message, Seqs
        <5> QED BY <3>1, <3>3, <4>2, <5>1 DEF InFlightTrue, TypeOK
      <4> QED BY <3>1, <4>1, <4>2
    <3>5. AckTrue'
      BY <3>1 DEF AckTrue, TypeOK
    <3>6. ArrivedWasSent'
      BY <3>1 DEF ArrivedWasSent, TypeOK, Peer, Side, Seqs
    <3>7. Tracked'
      BY <2>2, <3>1 DEF ResSend, Tracked, TypeOK, Side
    <3> QED BY <3>4, <3>5, <3>6, <3>7
  <2>3. ASSUME NEW m \in net, ResHandler(m)
        PROVE  Sound'
    <3>1. Tracked'
      BY <2>3 DEF ResHandler, Tracked, sendVars
    <3> QED BY <2>3, <3>1, AcceptSound DEF ResHandler, sendVars, Side, Peer
  <2>4. ASSUME NEW m \in net, ReqHandlerCb(m)
        PROVE  Sound'
    <3>1. Tracked'
      BY <2>4 DEF ReqHandlerCb, Tracked, sendVars, reqVars
    <3> QED BY <2>4, <3>1, AcceptSound DEF ReqHandlerCb, sendVars, Side, Peer
  <2>5. ASSUME NEW m \in net, Ignore(m)
        PROVE  Sound'
    BY <2>5, TakeShrinks DEF Ignore, InFlightTrue, AckTrue, ArrivedWasSent,
       Tracked, reqVars, sendVars, recvVars
  <2>6. CASE ReqTimeout \/ ReqClose
    BY <2>6 DEF ReqTimeout, ReqClose, InFlightTrue, AckTrue, ArrivedWasSent,
       Tracked, sendVars, recvVars
  <2>7. CASE ResTimeout \/ ResDestroy
    BY <2>7 DEF ResTimeout, ResDestroy, InFlightTrue, AckTrue, ArrivedWasSent,
       Tracked, reqVars, sendVars, recvVars
  <2>8. CASE UNCHANGED vars
    BY <2>8 DEF vars, InFlightTrue, AckTrue, ArrivedWasSent, Tracked
  <2> QED BY <2>1, <2>2, <2>3, <2>4, <2>5, <2>6, <2>7, <2>8
          DEF Next, Send, Receive
<1> QED BY <1>1, <1>2, TypeCorrect, PTL DEF Spec

-----------------------------------------------------------------------------
(***************************************************************************)
(* Ordered delivery.  InOrder(p) is inductive for a side that only ever    *)
(* emits through emit_ooo: true of the Req without any condition.          *)
(***************************************************************************)

\* emit_ooo and emit_ooo_queue keep the delivery of their side in order.
LEMMA EmitKeepsOrder ==
  ASSUME TypeOK, NEW p \in Side, NEW s \in Seqs, InOrder(p),
         Emit(p, s), Accept(p, s)
  PROVE  InOrder(p)'
<1>1. arrived'[p] = arrived[p] \cup {s}
  BY DEF Accept, TypeOK
<1>2. CASE EmitInOrder(p, s)
  <2>1. PICK k \in s + 1 .. MaxSeq :
          /\ s + 1 .. k - 1 \subseteq ooo[p]
          /\ k \notin ooo[p]
          /\ next' = [next EXCEPT ![p] = k]
          /\ ooo' = [ooo EXCEPT ![p] = @ \ (s .. k - 1)]
          /\ emits' = [emits EXCEPT ![p] =
               [t \in Seqs |-> IF t \in s .. k - 1 THEN @[t] + 1 ELSE @[t]]]
    BY <1>2 DEF EmitInOrder
  <2>2. /\ next'[p] = k /\ ooo'[p] = ooo[p] \ (s .. k - 1)
        /\ next[p] = s /\ k \in Nat /\ s \in Nat
        /\ \A t \in Seqs : emits'[p][t] = IF t \in s .. k - 1 THEN emits[p][t] + 1
                                                             ELSE emits[p][t]
    BY <1>2, <2>1 DEF TypeOK, EmitInOrder, Seqs
  <2>3. \A t \in Seqs : emits'[p][t] = IF t < next'[p] THEN 1 ELSE 0
    BY <2>2 DEF InOrder, Seqs
  <2>4. next'[p] \notin arrived'[p]
    BY <1>1, <2>1, <2>2 DEF InOrder
  <2>5. arrived'[p] = (0 .. next'[p] - 1) \cup ooo'[p]
    BY <1>1, <2>1, <2>2 DEF InOrder
  <2>6. \A t \in ooo'[p] : t > next'[p]
    BY <2>1, <2>2 DEF InOrder, TypeOK, Seqs
  <2> QED BY <2>3, <2>4, <2>5, <2>6 DEF InOrder
<1>3. CASE EmitDup(p, s)
  BY <1>1, <1>3 DEF EmitDup, InOrder, TypeOK, Seqs
<1>4. CASE EmitOoo(p, s)
  <2>1. /\ ooo'[p] = ooo[p] \cup {s}
        /\ next' = next /\ emits' = emits /\ s > next[p]
    BY <1>4 DEF EmitOoo, TypeOK
  <2> QED BY <1>1, <2>1 DEF InOrder, TypeOK
<1> QED BY <1>2, <1>3, <1>4 DEF Emit

\* What one side does leaves the delivery of the other side alone.
LEMMA EmitIsLocal ==
  ASSUME TypeOK, NEW p \in Side, NEW q \in Side, p # q, NEW s \in Seqs,
         InOrder(q), Emit(p, s), Accept(p, s)
  PROVE  InOrder(q)'
<1>1. arrived'[q] = arrived[q]
  BY DEF Accept, TypeOK
<1>2. next'[q] = next[q] /\ ooo'[q] = ooo[q] /\ emits'[q] = emits[q]
  BY DEF Emit, EmitInOrder, EmitDup, EmitOoo, TypeOK
<1> QED BY <1>1, <1>2 DEF InOrder

\* A step that leaves the receivers alone keeps every delivery in order.
LEMMA UnchangedOrder ==
  ASSUME NEW p \in Side, InOrder(p), UNCHANGED recvVars
  PROVE  InOrder(p)'
BY DEF InOrder, recvVars

\* Nothing has arrived and nothing has been emitted at the beginning.
LEMMA InitOrder ==
  ASSUME Init, NEW p \in Side
  PROVE  InOrder(p)
<1>1. next[p] = 0 /\ arrived[p] = {} /\ ooo[p] = {}
  BY DEF Init
<1>2. \A s \in Seqs : emits[p][s] = 0 /\ ~(s < 0)
  BY DEF Init, Seqs
<1>3. 0 .. 0 - 1 = {}
  OBVIOUS
<1> QED BY <1>1, <1>2, <1>3 DEF InOrder

\* The response is delivered in order whatever the network does: every
\* number once, none early, none accepted and then lost.
THEOREM ResponseOrder == Spec => []ResponseInOrder
<1>1. Init => ResponseInOrder
  BY InitOrder DEF ResponseInOrder, Side
<1>2. TypeOK /\ ResponseInOrder /\ [Next]_vars => ResponseInOrder'
  <2> SUFFICES ASSUME TypeOK, InOrder("req"), [Next]_vars
               PROVE  InOrder("req")'
    BY DEF ResponseInOrder
  <2>1. ASSUME NEW m \in net, ResHandler(m)
        PROVE  InOrder("req")'
    <3>1. m.seq \in Seqs
      BY <2>1 DEF TypeOK, Message
    <3> QED BY <2>1, <3>1, EmitKeepsOrder DEF ResHandler, Side
  <2>2. ASSUME NEW m \in net, ReqHandlerCb(m)
        PROVE  InOrder("req")'
    <3>1. m.seq \in Seqs
      BY <2>2 DEF TypeOK, Message
    <3>2. CASE m.type \in {"req", "req_start"}
      BY <2>2, <3>2 DEF ReqHandlerCb, HandleStart, Accept, InOrder, TypeOK, Side
    <3>3. CASE m.type \notin {"req", "req_start"}
      BY <2>2, <3>1, <3>3, EmitIsLocal DEF ReqHandlerCb, Side
    <3> QED BY <3>2, <3>3
  <2>3. ASSUME UNCHANGED recvVars
        PROVE  InOrder("req")'
    BY <2>3, UnchangedOrder DEF Side
  <2> QED BY <2>1, <2>2, <2>3
          DEF Next, Send, Receive, ReqSend, ResSend, Ignore, ReqTimeout,
              ResTimeout, ReqClose, ResDestroy, vars, recvVars
<1> QED BY <1>1, <1>2, TypeCorrect, PTL DEF Spec

-----------------------------------------------------------------------------
(***************************************************************************)
(* The request side.  req_handler_cb restarts the numbering on every       *)
(* "req_start", so ordered delivery rests on the start of a stream being   *)
(* handled once: NumberedOnce and StartHandledOnce make that inductive     *)
(* when the network does not repeat a req_start.                           *)
(***************************************************************************)
NumberedOnce == \A m, n \in net : m.src = n.src /\ m.seq = n.seq => m = n
StartsAtZero ==
  \A m \in net : m.src = "req" /\ m.type \in {"req", "req_start"} =>
                   m.seq = 0 /\ (m.type = "req" => ~stream)
StartHandledOnce ==
  \A m \in net : m.src = "req" /\ m.type = "req_start" => 0 \notin arrived["res"]
PlainIsOne == ~stream => seq["req"] <= 1
KnownStarted ==
  /\ known => 0 \in arrived["res"]
  /\ handler /\ ~known => arrived["res"] = {}
StartInv == /\ NumberedOnce /\ StartsAtZero /\ StartHandledOnce
            /\ PlainIsOne /\ KnownStarted

\* A sent message is new: its number is above every number in flight.
LEMMA SendKeepsStart ==
  ASSUME TypeOK, Sound, StartInv, NEW m, NEW p \in Side,
         m.src = p, m.seq = seq[p], net' \subseteq net \cup {m},
         p = "req" /\ m.type \in {"req", "req_start"} =>
           m.seq = 0 /\ (m.type = "req" => ~stream),
         UNCHANGED <<stream, arrived>>
  PROVE  NumberedOnce' /\ StartsAtZero' /\ StartHandledOnce'
<1>1. \A n \in net : n.src = p => n.seq # m.seq
  BY DEF Sound, InFlightTrue, TypeOK, Message, Seqs
<1>2. NumberedOnce'
  BY <1>1 DEF StartInv, NumberedOnce
<1>3. StartsAtZero'
  BY DEF StartInv, StartsAtZero
<1>4. StartHandledOnce'
  <2>1. \A s \in arrived["res"] : s < seq["req"]
    BY DEF Sound, ArrivedWasSent, Peer, Side
  <2>2. seq["req"] = 0 => 0 \notin arrived["res"]
    BY <2>1
  <2> QED BY <2>2 DEF StartInv, StartHandledOnce
<1> QED BY <1>2, <1>3, <1>4

\* Messages only leave the network when one is received.
LEMMA ShrinkKeepsStart ==
  ASSUME StartInv, net' \subseteq net, UNCHANGED <<stream, arrived>>
  PROVE  NumberedOnce' /\ StartsAtZero' /\ StartHandledOnce'
BY DEF StartInv, NumberedOnce, StartsAtZero, StartHandledOnce

\* The facts about starts are preserved by every step.
LEMMA StartStep ==
  ASSUME "req_start" \notin DupTypes, TypeOK, Sound, StartInv, [Next]_vars
  PROVE  StartInv'
<1>1. ASSUME NEW end \in BOOLEAN, NEW close \in BOOLEAN,
             NEW a \in SUBSET ack["req"], ReqSend(end, close, a)
      PROVE  StartInv'
  <2> DEFINE m == [src |-> "req",
                   type |-> ReqType(seq["req"], end \/ close),
                   seq |-> seq["req"], ack |-> a]
  <2>1. /\ net' = net \cup {m} /\ seq' = [seq EXCEPT !["req"] = @ + 1]
        /\ stream \/ seq["req"] = 0
        /\ UNCHANGED <<stream, arrived, known, handler>>
    BY <1>1 DEF ReqSend, recvVars, resVars
  <2>2. m.src = "req" /\ m.seq = seq["req"]
    OBVIOUS
  <2>3. m.type \in {"req", "req_start"} =>
          m.seq = 0 /\ (m.type = "req" => ~stream)
    BY <2>1 DEF ReqType
  <2> HIDE DEF m
  <2>4. NumberedOnce' /\ StartsAtZero' /\ StartHandledOnce'
    BY <2>1, <2>2, <2>3, SendKeepsStart DEF Side
  <2>5. PlainIsOne'
    BY <2>1 DEF StartInv, PlainIsOne, TypeOK, Side
  <2>6. KnownStarted'
    BY <2>1 DEF StartInv, KnownStarted
  <2> QED BY <2>4, <2>5, <2>6 DEF StartInv
<1>2. ASSUME NEW end \in BOOLEAN, NEW close \in BOOLEAN,
             NEW a \in SUBSET ack["res"], ResSend(end, close, a)
      PROVE  StartInv'
  <2> DEFINE m == [src |-> "res",
                   type |-> ResType(seq["res"], end \/ close),
                   seq |-> seq["res"], ack |-> a]
  <2>1. /\ net' \subseteq net \cup {m} /\ seq'["req"] = seq["req"]
        /\ UNCHANGED <<stream, arrived, known, handler>>
    BY <1>2 DEF ResSend, recvVars, reqVars, TypeOK, Side
  <2>2. m.src = "res" /\ m.seq = seq["res"]
    OBVIOUS
  <2> HIDE DEF m
  <2>3. NumberedOnce' /\ StartsAtZero' /\ StartHandledOnce'
    BY <2>1, <2>2, SendKeepsStart DEF Side
  <2> QED BY <2>1, <2>3 DEF StartInv, PlainIsOne, KnownStarted
<1>3. ASSUME NEW m \in net, ResHandler(m)
      PROVE  StartInv'
  <2>1. /\ net' \subseteq net /\ arrived'["res"] = arrived["res"]
        /\ UNCHANGED <<stream, seq, known, handler>>
    BY <1>3, TakeShrinks DEF ResHandler, Accept, TypeOK, Side, resVars, sendVars
  <2> QED BY <2>1 DEF StartInv, NumberedOnce, StartsAtZero, StartHandledOnce,
                      PlainIsOne, KnownStarted
<1>4. ASSUME NEW m \in net, ReqHandlerCb(m)
      PROVE  StartInv'
  <2>1. /\ net' \subseteq net
        /\ arrived'["res"] = arrived["res"] \cup {m.seq}
        /\ known' /\ m.src = "req"
        /\ UNCHANGED <<stream, seq, handler>>
    BY <1>4, TakeShrinks DEF ReqHandlerCb, Accept, TypeOK, Side, reqVars, sendVars
  <2>2. known \/ (m.type \in {"req", "req_start"} /\ m.seq = 0)
    BY <1>4 DEF ReqHandlerCb, Starts
  <2>3. StartHandledOnce'
    <3> SUFFICES ASSUME NEW n \in net', n.src = "req", n.type = "req_start",
                        0 \in arrived'["res"]
                 PROVE  FALSE
      BY DEF StartHandledOnce
    <3>1. 0 \notin arrived["res"] /\ n.seq = 0
      BY <2>1 DEF StartInv, StartHandledOnce, StartsAtZero
    <3>2. n = m
      BY <2>1, <3>1 DEF StartInv, NumberedOnce
    <3>3. m \notin net'
      BY <1>4, <3>2 DEF ReqHandlerCb, Take
    <3> QED BY <3>2, <3>3
  <2>4. KnownStarted'
    BY <2>1, <2>2 DEF StartInv, KnownStarted
  <2> QED BY <2>1, <2>3, <2>4
          DEF StartInv, NumberedOnce, StartsAtZero, PlainIsOne
<1>5. ASSUME NEW m \in net, Ignore(m)
      PROVE  StartInv'
  <2>1. net' \subseteq net /\ UNCHANGED <<stream, seq, arrived, known, handler>>
    BY <1>5, TakeShrinks DEF Ignore, reqVars, resVars, sendVars, recvVars
  <2> QED BY <2>1, ShrinkKeepsStart DEF StartInv, PlainIsOne, KnownStarted
<1>6. CASE ReqTimeout \/ ReqClose \/ ResTimeout
  <2>1. UNCHANGED <<net, stream, seq, arrived, known, handler>>
    BY <1>6 DEF ReqTimeout, ReqClose, ResTimeout, reqVars, resVars, sendVars,
                recvVars
  <2> QED BY <2>1, ShrinkKeepsStart DEF StartInv, PlainIsOne, KnownStarted
<1>7. CASE ResDestroy
  <2>1. UNCHANGED <<net, stream, seq, arrived>> /\ ~known' /\ ~handler'
    BY <1>7 DEF ResDestroy, reqVars, sendVars, recvVars
  <2> QED BY <2>1, ShrinkKeepsStart DEF StartInv, PlainIsOne, KnownStarted
<1>8. CASE UNCHANGED vars
  <2>1. UNCHANGED <<net, stream, seq, arrived, known, handler>>
    BY <1>8 DEF vars
  <2> QED BY <2>1, ShrinkKeepsStart DEF StartInv, PlainIsOne, KnownStarted
<1> QED BY <1>1, <1>2, <1>3, <1>4, <1>5, <1>6, <1>7, <1>8
        DEF Next, Send, Receive

\* Handling the start of a request keeps the delivery in order.
LEMMA StartKeepsOrder ==
  ASSUME TypeOK, Sound, StartInv, InOrder("res"), NEW m \in net,
         ReqHandlerCb(m), m.type \in {"req", "req_start"}
  PROVE  InOrder("res")'
<1>1. /\ m.src = "req" /\ m.seq = 0 /\ handler
      /\ m.type = "req" => ~stream
  BY DEF ReqHandlerCb, StartInv, StartsAtZero
<1>2. /\ next'["res"] = 1 /\ ooo' = ooo
      /\ arrived'["res"] = arrived["res"] \cup {0}
      /\ \A s \in Seqs : emits'["res"][s] =
           IF s = 0 /\ next["res"] # 1 THEN emits["res"][s] + 1 ELSE emits["res"][s]
  BY <1>1 DEF ReqHandlerCb, HandleStart, Accept, TypeOK, Side, Seqs
<1>3. CASE 0 \notin arrived["res"]
  <2>1. arrived["res"] = {}
    BY <1>1, <1>3 DEF StartInv, KnownStarted
  <2>2. next["res"] = 0 /\ ooo["res"] = {}
    BY <2>1 DEF InOrder, TypeOK, Side
  <2> QED BY <1>2, <2>1, <2>2 DEF InOrder, Seqs
<1>4. CASE 0 \in arrived["res"]
  <2>1. ~stream
    BY <1>1, <1>4 DEF StartInv, StartHandledOnce
  <2>2. arrived["res"] = {0}
    BY <1>4, <2>1 DEF StartInv, PlainIsOne, Sound, ArrivedWasSent, Peer, Side,
                      TypeOK, Seqs
  <2>3. next["res"] = 1
    BY <2>2 DEF InOrder, TypeOK, Side
  <2> QED BY <1>2, <2>2, <2>3 DEF InOrder
<1> QED BY <1>3, <1>4

\* The request is delivered in order too, if the network repeats no
\* req_start: the numbering of a Res is set once and then only advances.
THEOREM RequestOrder ==
  "req_start" \notin DupTypes => (Spec => []RequestInOrder)
<1> SUFFICES ASSUME "req_start" \notin DupTypes
             PROVE  Spec => []RequestInOrder
  OBVIOUS
<1> DEFINE IInv == StartInv /\ InOrder("res")
<1>1. Init => IInv
  <2> SUFFICES ASSUME Init PROVE IInv
    OBVIOUS
  <2>1. net = {} /\ ~known /\ seq["req"] = 0 /\ arrived["res"] = {}
    BY DEF Init, Side
  <2>2. StartInv
    BY <2>1 DEF StartInv, NumberedOnce, StartsAtZero, StartHandledOnce,
                PlainIsOne, KnownStarted
  <2> QED BY <2>2, InitOrder DEF Side
<1>2. TypeOK /\ Sound /\ IInv /\ [Next]_vars => IInv'
  <2> SUFFICES ASSUME TypeOK, Sound, StartInv, InOrder("res"), [Next]_vars
               PROVE  InOrder("res")'
    BY StartStep
  <2>1. ASSUME NEW m \in net, ResHandler(m)
        PROVE  InOrder("res")'
    <3>1. m.seq \in Seqs
      BY <2>1 DEF TypeOK, Message
    <3> QED BY <2>1, <3>1, EmitIsLocal DEF ResHandler, Side
  <2>2. ASSUME NEW m \in net, ReqHandlerCb(m)
        PROVE  InOrder("res")'
    <3>1. m.seq \in Seqs
      BY <2>2 DEF TypeOK, Message
    <3>2. CASE m.type \in {"req", "req_start"}
      BY <2>2, <3>2, StartKeepsOrder
    <3>3. CASE m.type \notin {"req", "req_start"}
      BY <2>2, <3>1, <3>3, EmitKeepsOrder DEF ReqHandlerCb, Side
    <3> QED BY <3>2, <3>3
  <2>3. ASSUME UNCHANGED recvVars
        PROVE  InOrder("res")'
    BY <2>3, UnchangedOrder DEF Side
  <2> QED BY <2>1, <2>2, <2>3
          DEF Next, Send, Receive, ReqSend, ResSend, Ignore, ReqTimeout,
              ResTimeout, ReqClose, ResDestroy, vars, recvVars
<1>3. IInv => RequestInOrder
  BY DEF RequestInOrder
<1> QED BY <1>1, <1>2, <1>3, TypeCorrect, SoundInvariant, PTL DEF Spec

-----------------------------------------------------------------------------
(* Timers.                                                                 *)

\* While a request is open, every number it sent has a timer or has arrived.
THEOREM RequestAlwaysCovered == Spec => []RequestCovered
<1>1. Init => RequestCovered
  BY DEF Init, RequestCovered, Covered, Side
<1>2. TypeOK /\ Sound /\ RequestCovered /\ [Next]_vars => RequestCovered'
  <2> SUFFICES ASSUME TypeOK, Sound, RequestCovered, [Next]_vars, live',
                      NEW s \in 0 .. seq'["req"] - 1
               PROVE  s \in sent'["req"] \cup untracked'["req"] \cup arrived'["res"]
    BY DEF RequestCovered, Covered, Peer
  <2> USE DEF Peer, Side
  <2>1. ASSUME NEW end \in BOOLEAN, NEW close \in BOOLEAN,
               NEW a \in SUBSET ack["req"], ReqSend(end, close, a)
        PROVE  s \in sent'["req"] \cup untracked'["req"] \cup arrived'["res"]
    <3>1. /\ ~close /\ live /\ arrived' = arrived /\ untracked' = untracked
          /\ seq'["req"] = seq["req"] + 1
          /\ sent'["req"] = sent["req"] \cup {seq["req"]}
      BY <2>1 DEF ReqSend, TypeOK, recvVars
    <3> QED BY <3>1 DEF RequestCovered, Covered, TypeOK
  <2>2. ASSUME NEW end \in BOOLEAN, NEW close \in BOOLEAN,
               NEW a \in SUBSET ack["res"], ResSend(end, close, a)
        PROVE  s \in sent'["req"] \cup untracked'["req"] \cup arrived'["res"]
    BY <2>2 DEF ResSend, RequestCovered, Covered, TypeOK, reqVars, recvVars
  <2>3. ASSUME NEW m \in net, ResHandler(m)
        PROVE  s \in sent'["req"] \cup untracked'["req"] \cup arrived'["res"]
    <3>1. /\ live /\ seq' = seq /\ untracked' = untracked
          /\ sent'["req"] = sent["req"] \ m.ack
          /\ arrived'["res"] = arrived["res"]
      BY <2>3 DEF ResHandler, Accept, TypeOK, sendVars
    <3>2. m.ack \subseteq arrived["res"]
      BY <2>3 DEF ResHandler, Sound, InFlightTrue
    <3> QED BY <3>1, <3>2 DEF RequestCovered, Covered
  <2>4. ASSUME NEW m \in net, ReqHandlerCb(m)
        PROVE  s \in sent'["req"] \cup untracked'["req"] \cup arrived'["res"]
    BY <2>4 DEF ReqHandlerCb, Accept, RequestCovered, Covered, TypeOK, reqVars,
                sendVars
  <2>5. ASSUME NEW m \in net, Ignore(m)
        PROVE  s \in sent'["req"] \cup untracked'["req"] \cup arrived'["res"]
    BY <2>5 DEF Ignore, RequestCovered, Covered, reqVars, sendVars, recvVars
  <2>6. CASE ReqTimeout \/ ReqClose
    BY <2>6 DEF ReqTimeout, ReqClose
  <2>7. CASE ResTimeout \/ ResDestroy
    BY <2>7 DEF ResTimeout, ResDestroy, RequestCovered, Covered, TypeOK,
                reqVars, sendVars, recvVars
  <2>8. CASE UNCHANGED vars
    BY <2>8 DEF vars, RequestCovered, Covered
  <2> QED BY <2>1, <2>2, <2>3, <2>4, <2>5, <2>6, <2>7, <2>8
          DEF Next, Send, Receive
<1> QED BY <1>1, <1>2, TypeCorrect, SoundInvariant, PTL DEF Spec

\* Until a timeout or close() drops the timers of the Res, every number of the
\* response is timed, or at the Req, or was sent without a timer.
THEOREM ResponseAlwaysCovered == Spec => []ResponseCovered
<1>1. Init => ResponseCovered
  BY DEF Init, ResponseCovered, Covered, Side
<1>2. TypeOK /\ Sound /\ ResponseCovered /\ [Next]_vars => ResponseCovered'
  <2> SUFFICES ASSUME TypeOK, Sound, ResponseCovered, [Next]_vars, ~cleared',
                      NEW s \in 0 .. seq'["res"] - 1
               PROVE  s \in sent'["res"] \cup untracked'["res"] \cup arrived'["req"]
    BY DEF ResponseCovered, Covered, Peer
  <2> USE DEF Peer, Side
  <2>1. ASSUME NEW end \in BOOLEAN, NEW close \in BOOLEAN,
               NEW a \in SUBSET ack["req"], ReqSend(end, close, a)
        PROVE  s \in sent'["res"] \cup untracked'["res"] \cup arrived'["req"]
    BY <2>1 DEF ReqSend, ResponseCovered, Covered, TypeOK, resVars, recvVars
  <2>2. ASSUME NEW end \in BOOLEAN, NEW close \in BOOLEAN,
               NEW a \in SUBSET ack["res"], ResSend(end, close, a)
        PROVE  s \in sent'["res"] \cup untracked'["res"] \cup arrived'["req"]
    <3>1. /\ ~cleared /\ arrived' = arrived
          /\ seq'["res"] = seq["res"] + 1
          /\ sent["res"] \cup untracked["res"] \cup {seq["res"]}
               \subseteq sent'["res"] \cup untracked'["res"]
      BY <2>2 DEF ResSend, ResType, TypeOK, recvVars
    <3> QED BY <3>1 DEF ResponseCovered, Covered, TypeOK
  <2>3. ASSUME NEW m \in net, ResHandler(m)
        PROVE  s \in sent'["res"] \cup untracked'["res"] \cup arrived'["req"]
    BY <2>3 DEF ResHandler, Accept, ResponseCovered, Covered, TypeOK, resVars,
                sendVars
  <2>4. ASSUME NEW m \in net, ReqHandlerCb(m)
        PROVE  s \in sent'["res"] \cup untracked'["res"] \cup arrived'["req"]
    <3>1. /\ ~cleared /\ seq' = seq /\ untracked' = untracked
          /\ sent'["res"] = sent["res"] \ m.ack
          /\ arrived'["req"] = arrived["req"]
      BY <2>4 DEF ReqHandlerCb, Accept, TypeOK, sendVars
    <3>2. m.ack \subseteq arrived["req"]
      BY <2>4 DEF ReqHandlerCb, Sound, InFlightTrue
    <3> QED BY <3>1, <3>2 DEF ResponseCovered, Covered
  <2>5. ASSUME NEW m \in net, Ignore(m)
        PROVE  s \in sent'["res"] \cup untracked'["res"] \cup arrived'["req"]
    BY <2>5 DEF Ignore, ResponseCovered, Covered, resVars, sendVars, recvVars
  <2>6. CASE ReqTimeout \/ ReqClose \/ ResDestroy
    BY <2>6 DEF ReqTimeout, ReqClose, ResDestroy, ResponseCovered, Covered,
                TypeOK, resVars, sendVars, recvVars
  <2>7. CASE ResTimeout
    BY <2>7 DEF ResTimeout
  <2>8. CASE UNCHANGED vars
    BY <2>8 DEF vars, ResponseCovered, Covered
  <2> QED BY <2>1, <2>2, <2>3, <2>4, <2>5, <2>6, <2>7, <2>8
          DEF Next, Send, Receive
<1> QED BY <1>1, <1>2, TypeCorrect, SoundInvariant, PTL DEF Spec

\* Both directions: no message is without a timer unless it has arrived or
\* was sent without one.
THEOREM AlwaysCovered == Spec => []TimersCover
<1>1. RequestCovered /\ ResponseCovered => TimersCover
  BY DEF TimersCover
<1> QED BY <1>1, RequestAlwaysCovered, ResponseAlwaysCovered, PTL

\* The end-to-end promise of an open request without timers: the other
\* application has been handed all of it, in order and once.
THEOREM QuietDelivered ==
  "req_start" \notin DupTypes => (Spec => []QuietMeansDelivered)
<1> SUFFICES ASSUME "req_start" \notin DupTypes
             PROVE  Spec => []QuietMeansDelivered
  OBVIOUS
<1>1. TypeOK /\ Sound /\ RequestCovered /\ RequestInOrder => QuietMeansDelivered
  <2> SUFFICES ASSUME TypeOK, Sound, RequestCovered, InOrder("res"), live,
                      sent["req"] = {}, NEW s \in 0 .. seq["req"] - 1
               PROVE  emits["res"][s] = 1
    BY DEF QuietMeansDelivered, RequestInOrder
  <2>1. 0 .. seq["req"] - 1 \subseteq arrived["res"]
    BY DEF RequestCovered, Covered, Sound, Tracked, Peer
  <2>2. seq["req"] \in Nat /\ next["res"] \in Nat /\ s \in Seqs
    BY DEF TypeOK, Side, Seqs
  <2>3. s < next["res"]
    BY <2>1, <2>2 DEF InOrder
  <2> QED BY <2>2, <2>3 DEF InOrder
<1> QED BY <1>1, TypeCorrect, SoundInvariant, RequestAlwaysCovered,
           RequestOrder, PTL

-----------------------------------------------------------------------------
(***************************************************************************)
(* Refinement.  A step of Next is a step of the abstract stream of         *)
(* responses, or leaves it as it is.                                       *)
(***************************************************************************)

\* The Req and the sending Res implement the abstract ordered stream.
THEOREM ResponseRefines == Spec => ResponseStream
<1>1. Init => Response!Init
  BY DEF Init, Response!Init, Side
<1>2. /\ TypeOK /\ TypeOK' /\ Sound /\ Sound'
      /\ ResponseInOrder /\ ResponseInOrder' /\ [Next]_vars
      => [Response!Next]_<<seq["res"], arrived["req"], next["req"]>>
  <2> SUFFICES ASSUME TypeOK, TypeOK', Sound, Sound', InOrder("req"),
                      InOrder("req")', [Next]_vars
               PROVE  [Response!Next]_<<seq["res"], arrived["req"], next["req"]>>
    BY DEF ResponseInOrder
  <2> USE DEF Side, Peer
  <2>1. ASSUME NEW end \in BOOLEAN, NEW close \in BOOLEAN,
               NEW a \in SUBSET ack["res"], ResSend(end, close, a)
        PROVE  Response!SendNext
    BY <2>1 DEF ResSend, Response!SendNext, TypeOK, recvVars
  <2>2. ASSUME NEW m \in net, ResHandler(m)
        PROVE  \E s \in 0 .. seq["res"] - 1 : Response!Arrive(s)
    <3>1. m.seq \in 0 .. seq["res"] - 1
      <4>1. m.seq \in Nat /\ seq["res"] \in Nat
        BY DEF TypeOK, Message, Seqs
      <4>2. m.seq < seq["res"]
        BY <2>2 DEF ResHandler, Sound, InFlightTrue
      <4> QED BY <4>1, <4>2
    <3>2. /\ arrived'["req"] = arrived["req"] \cup {m.seq}
          /\ seq'["res"] = seq["res"]
      BY <2>2 DEF ResHandler, Accept, TypeOK, sendVars
    <3>3. next'["req"] \in 0 .. seq["res"]
      <4>1. next'["req"] \in Nat /\ seq["res"] \in Nat
        BY DEF TypeOK
      <4>2. next'["req"] > 0 => next'["req"] - 1 \in arrived'["req"]
        BY <4>1 DEF InOrder
      <4>3. \A s \in arrived'["req"] : s < seq["res"]
        BY <3>2 DEF Sound, ArrivedWasSent
      <4> QED BY <4>1, <4>2, <4>3
    <3>4. Response!LongestPrefix(next'["req"], arrived'["req"])
      BY DEF InOrder, Response!LongestPrefix
    <3> QED BY <3>1, <3>2, <3>3, <3>4 DEF Response!Arrive
  <2>3. ASSUME UNCHANGED <<seq["res"], arrived["req"], next["req"]>>
        PROVE  [Response!Next]_<<seq["res"], arrived["req"], next["req"]>>
    BY <2>3
  <2>4. ASSUME NEW end \in BOOLEAN, NEW close \in BOOLEAN,
               NEW a \in SUBSET ack["req"], ReqSend(end, close, a)
        PROVE  UNCHANGED <<seq["res"], arrived["req"], next["req"]>>
    BY <2>4 DEF ReqSend, TypeOK, recvVars
  <2>5. ASSUME NEW m \in net, ReqHandlerCb(m)
        PROVE  UNCHANGED <<seq["res"], arrived["req"], next["req"]>>
    BY <2>5 DEF ReqHandlerCb, HandleStart, Emit, EmitInOrder, EmitDup, EmitOoo,
                Accept, TypeOK, sendVars
  <2>6. ASSUME UNCHANGED vars \/ (\E m \in net : Ignore(m)) \/ ReqTimeout
               \/ ResTimeout \/ ReqClose \/ ResDestroy
        PROVE  UNCHANGED <<seq["res"], arrived["req"], next["req"]>>
    BY <2>6 DEF vars, Ignore, ReqTimeout, ResTimeout, ReqClose, ResDestroy,
                sendVars, recvVars
  <2> QED BY <2>1, <2>2, <2>3, <2>4, <2>5, <2>6
          DEF Next, Send, Receive, Response!Next
<1> QED BY <1>1, <1>2, TypeCorrect, SoundInvariant, ResponseOrder, PTL
        DEF Spec, ResponseStream, Response!Spec

\* The Res and the sending Req implement the abstract ordered stream too, if
\* the network repeats no req_start.
THEOREM RequestRefines ==
  "req_start" \notin DupTypes => (Spec => RequestStream)
<1> SUFFICES ASSUME "req_start" \notin DupTypes
             PROVE  Spec => RequestStream
  OBVIOUS
<1>1. Init => Request!Init
  BY DEF Init, Request!Init, Side
<1>2. /\ TypeOK /\ TypeOK' /\ Sound /\ Sound'
      /\ RequestInOrder /\ RequestInOrder' /\ [Next]_vars
      => [Request!Next]_<<seq["req"], arrived["res"], next["res"]>>
  <2> SUFFICES ASSUME TypeOK, TypeOK', Sound, Sound', InOrder("res"),
                      InOrder("res")', [Next]_vars
               PROVE  [Request!Next]_<<seq["req"], arrived["res"], next["res"]>>
    BY DEF RequestInOrder
  <2> USE DEF Side, Peer
  <2>1. ASSUME NEW end \in BOOLEAN, NEW close \in BOOLEAN,
               NEW a \in SUBSET ack["req"], ReqSend(end, close, a)
        PROVE  Request!SendNext
    BY <2>1 DEF ReqSend, Request!SendNext, TypeOK, recvVars
  <2>2. ASSUME NEW m \in net, ReqHandlerCb(m)
        PROVE  \E s \in 0 .. seq["req"] - 1 : Request!Arrive(s)
    <3>1. m.seq \in 0 .. seq["req"] - 1
      <4>1. m.seq \in Nat /\ seq["req"] \in Nat
        BY DEF TypeOK, Message, Seqs
      <4>2. m.seq < seq["req"]
        BY <2>2 DEF ReqHandlerCb, Sound, InFlightTrue
      <4> QED BY <4>1, <4>2
    <3>2. /\ arrived'["res"] = arrived["res"] \cup {m.seq}
          /\ seq'["req"] = seq["req"]
      BY <2>2 DEF ReqHandlerCb, Accept, TypeOK, sendVars
    <3>3. next'["res"] \in 0 .. seq["req"]
      <4>1. next'["res"] \in Nat /\ seq["req"] \in Nat
        BY DEF TypeOK
      <4>2. next'["res"] > 0 => next'["res"] - 1 \in arrived'["res"]
        BY <4>1 DEF InOrder
      <4>3. \A s \in arrived'["res"] : s < seq["req"]
        BY <3>2 DEF Sound, ArrivedWasSent
      <4> QED BY <4>1, <4>2, <4>3
    <3>4. Request!LongestPrefix(next'["res"], arrived'["res"])
      BY DEF InOrder, Request!LongestPrefix
    <3> QED BY <3>1, <3>2, <3>3, <3>4 DEF Request!Arrive
  <2>3. ASSUME UNCHANGED <<seq["req"], arrived["res"], next["res"]>>
        PROVE  [Request!Next]_<<seq["req"], arrived["res"], next["res"]>>
    BY <2>3
  <2>4. ASSUME NEW end \in BOOLEAN, NEW close \in BOOLEAN,
               NEW a \in SUBSET ack["res"], ResSend(end, close, a)
        PROVE  UNCHANGED <<seq["req"], arrived["res"], next["res"]>>
    BY <2>4 DEF ResSend, TypeOK, recvVars
  <2>5. ASSUME NEW m \in net, ResHandler(m)
        PROVE  UNCHANGED <<seq["req"], arrived["res"], next["res"]>>
    BY <2>5 DEF ResHandler, Emit, EmitInOrder, EmitDup, EmitOoo,
                Accept, TypeOK, sendVars
  <2>6. ASSUME UNCHANGED vars \/ (\E m \in net : Ignore(m)) \/ ReqTimeout
               \/ ResTimeout \/ ReqClose \/ ResDestroy
        PROVE  UNCHANGED <<seq["req"], arrived["res"], next["res"]>>
    BY <2>6 DEF vars, Ignore, ReqTimeout, ResTimeout, ReqClose, ResDestroy,
                sendVars, recvVars
  <2> QED BY <2>1, <2>2, <2>3, <2>4, <2>5, <2>6
          DEF Next, Send, Receive, Request!Next
<1> QED BY <1>1, <1>2, TypeCorrect, SoundInvariant, RequestOrder, PTL
        DEF Spec, RequestStream, Request!Spec
=============================================================================
