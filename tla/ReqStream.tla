----------------------------- MODULE ReqStream -----------------------------
(***************************************************************************)
(* One request of net/req.js and the response object that answers it in    *)
(* net/req_handler.js, over a network that loses, delays, reorders and     *)
(* duplicates messages.  Side "req" is the Req, side "res" the Res; each   *)
(* numbers what it sends, keeps one timer per unacknowledged message,      *)
(* piggybacks the sequence numbers it received on its next message, and    *)
(* holds out-of-order arrivals back until the gap below them is filled.    *)
(*                                                                         *)
(* A message is lost by never being delivered.  The virtual time of the    *)
(* 20s timers is abstracted: a pending timer may fire at any moment.       *)
(***************************************************************************)
EXTENDS Naturals, FiniteSets

CONSTANTS MaxSeq,    \* bound: messages either side sends
          MaxDup,    \* bound: deliveries that leave a copy in the network
          DupTypes   \* the message types the network may duplicate

ReqTypes == {"req", "req_start", "req_next", "req_end"}
ResTypes == {"res", "res_start", "res_next", "res_end"}

ASSUME MaxSeqAssumption == MaxSeq \in Nat \ {0}
ASSUME MaxDupAssumption == MaxDup \in Nat
ASSUME DupTypesAssumption == DupTypes \subseteq ReqTypes \cup ResTypes

Side == {"req", "res"}
Peer(p) == IF p = "req" THEN "res" ELSE "req"
Seqs == 0 .. MaxSeq - 1
Message == [src: Side, type: ReqTypes \cup ResTypes, seq: Seqs,
            ack: SUBSET Seqs]

VARIABLES
  stream,    \* opt.stream of the Req (the Res derives its own from type)
  live,      \* reqs[req_id] is set
  handler,   \* nodes[id].cmd[cmd].req_handler is set
  known,     \* nodes[id][from_id].req_id[req_id].res is set
  seq,       \* next sequence number to send
  ack,       \* received, not yet acknowledged to the peer
  sent,      \* sequence numbers with a running timer
  ooo,       \* sequence numbers held back
  next,      \* next sequence number in order: res_seq + 1, 0 when undefined
  net,       \* messages in flight
  dups,      \* duplicated deliveries so far
  over,      \* the application has ended or closed its direction
  arrived,   \* history: sequence numbers the handler has accepted
  untracked, \* history: sequence numbers sent without a timer
  cleared,   \* history: the Res dropped all its timers at once
  emits      \* history: how often each number was emitted unflagged

reqVars == <<stream, live>>
resVars == <<handler, known, cleared>>
sendVars == <<seq, over, untracked>>
recvVars == <<ooo, next, arrived, emits>>
vars == <<stream, live, handler, known, seq, ack, sent, ooo, next, net, dups,
          over, arrived, untracked, cleared, emits>>

Init ==
  /\ stream \in BOOLEAN
  /\ live = TRUE
  /\ handler = TRUE
  /\ known = FALSE
  /\ seq = [p \in Side |-> 0]
  /\ ack = [p \in Side |-> {}]
  /\ sent = [p \in Side |-> {}]
  /\ ooo = [p \in Side |-> {}]
  /\ next = [p \in Side |-> 0]
  /\ net = {}
  /\ dups = 0
  /\ over = [p \in Side |-> FALSE]
  /\ arrived = [p \in Side |-> {}]
  /\ untracked = [p \in Side |-> {}]
  /\ cleared = FALSE
  /\ emits = [p \in Side |-> [s \in Seqs |-> 0]]

-----------------------------------------------------------------------------
(* Sending.                                                                *)

ReqType(s, last) ==
  IF ~stream THEN "req"
  ELSE IF last THEN "req_end"
  ELSE IF s = 0 THEN "req_start" ELSE "req_next"

ResType(s, last) ==
  IF ~stream THEN "res"
  ELSE IF last THEN "res_end"
  ELSE IF s = 0 THEN "res_start" ELSE "res_next"

\* Req.send.  opt.ack lets the application choose what to acknowledge; by
\* default it is everything received so far.  A closing message starts no
\* timer and removes the request.  The application sends nothing after its
\* last message, and a request that is not a stream sends one message.
ReqSend(end, close, a) ==
  LET s == seq["req"]
      last == end \/ close
      m == [src |-> "req", type |-> ReqType(s, last), seq |-> s, ack |-> a]
  IN  /\ live /\ ~over["req"] /\ s < MaxSeq
      /\ stream \/ s = 0
      /\ seq' = [seq EXCEPT !["req"] = s + 1]
      /\ ack' = [ack EXCEPT !["req"] = @ \ a]
      /\ over' = [over EXCEPT !["req"] = last]
      /\ net' = net \cup {m}
      /\ live' = ~close
      /\ sent' = [sent EXCEPT !["req"] = IF close THEN {} ELSE @ \cup {s}]
      /\ untracked' = [untracked EXCEPT !["req"] =
                         IF close THEN @ \cup {s} ELSE @]
      /\ UNCHANGED <<stream, dups, resVars, recvVars>>

\* Res.send.  A response that is not a stream goes out once: a second call
\* uses up a number and the pending acknowledgements and sends nothing.  The
\* final message of a stream starts no timer.  close() drops the timers; it
\* unsets a path that was never set, so the Res stays registered.
ResSend(end, close, a) ==
  LET s == seq["res"]
      last == end \/ close
      type == ResType(s, last)
      final == type \in {"res", "res_end"}
      m == [src |-> "res", type |-> type, seq |-> s, ack |-> a]
      dropped == ~stream /\ s # 0
  IN  /\ known /\ ~over["res"] /\ s < MaxSeq
      /\ seq' = [seq EXCEPT !["res"] = s + 1]
      /\ ack' = [ack EXCEPT !["res"] = @ \ a]
      /\ over' = [over EXCEPT !["res"] = stream /\ last]
      /\ net' = IF dropped THEN net ELSE net \cup {m}
      /\ sent' = [sent EXCEPT !["res"] =
                    IF dropped THEN @
                    ELSE IF close THEN {}
                    ELSE IF final THEN @ ELSE @ \cup {s}]
      /\ cleared' = (cleared \/ (close /\ ~dropped))
      /\ untracked' = [untracked EXCEPT !["res"] =
                         IF final THEN @ \cup {s} ELSE @]
      /\ UNCHANGED <<dups, handler, known, reqVars, recvVars>>

-----------------------------------------------------------------------------
(* Receiving.                                                              *)

(* Faulty variants of the operators below, each one mistake away from the  *)
(* code; a property is worth checking only if one of them breaks it.       *)

\* emit_ooo_queue skips a message: next runs one past the gap.
EmitInOrderOffByOne(p, s) ==
  /\ s = next[p]
  /\ next' = [next EXCEPT ![p] = s + 2]
  /\ ooo' = [ooo EXCEPT ![p] = @ \ {s + 1}]
  /\ emits' = [emits EXCEPT ![p][s] = @ + 1]

\* emit_ooo_queue is not called.
EmitInOrderNoDrain(p, s) ==
  /\ s = next[p]
  /\ next' = [next EXCEPT ![p] = s + 1]
  /\ emits' = [emits EXCEPT ![p][s] = @ + 1]
  /\ UNCHANGED ooo

\* An old message sets the expected number back.
EmitDupRewinds(p, s) ==
  /\ s < next[p]
  /\ next' = [next EXCEPT ![p] = s + 1]
  /\ UNCHANGED <<ooo, emits>>

\* push_ooo is not called: the message is acknowledged and dropped.
EmitOooDrops(p, s) ==
  /\ s > next[p]
  /\ UNCHANGED <<next, ooo, emits>>

\* The expected number jumps over the gap.
EmitOooJumps(p, s) ==
  /\ s > next[p]
  /\ next' = [next EXCEPT ![p] = s + 1]
  /\ UNCHANGED <<ooo, emits>>

\* Everything up to s is acknowledged, received or not.
AcceptCumulative(p, s) ==
  /\ ack' = [ack EXCEPT ![p] = @ \cup 0 .. s]
  /\ arrived' = [arrived EXCEPT ![p] = @ \cup {s}]

\* The start of a request is never recognised as a repetition.
HandleStartNoDup(m) ==
  /\ next' = [next EXCEPT !["res"] = 1]
  /\ emits' = [emits EXCEPT !["res"][m.seq] = @ + 1]
  /\ UNCHANGED ooo

\* The network hands over m, keeping a copy if it duplicates it.
Take(m) ==
  /\ m \in net
  /\ \/ net' = net \ {m} /\ dups' = dups
     \/ m.type \in DupTypes /\ dups < MaxDup /\ net' = net /\ dups' = dups + 1

\* emit_ooo of the expected message, then emit_ooo_queue up to the next gap.
EmitInOrder(p, s) ==
  /\ s = next[p]
  /\ \E k \in s + 1 .. MaxSeq :
       /\ s + 1 .. k - 1 \subseteq ooo[p]
       /\ k \notin ooo[p]
       /\ next' = [next EXCEPT ![p] = k]
       /\ ooo' = [ooo EXCEPT ![p] = @ \ (s .. k - 1)]
       /\ emits' = [emits EXCEPT ![p] =
            [t \in Seqs |-> IF t \in s .. k - 1 THEN @[t] + 1 ELSE @[t]]]

\* emit_ooo of a message below the expected one: emitted with the dup flag.
EmitDup(p, s) ==
  /\ s < next[p]
  /\ UNCHANGED <<next, ooo, emits>>

\* emit_ooo of a message above the expected one: emitted with the ooo flag.
EmitOoo(p, s) ==
  /\ s > next[p]
  /\ ooo' = [ooo EXCEPT ![p] = @ \cup {s}]
  /\ UNCHANGED <<next, emits>>

Emit(p, s) == EmitInOrder(p, s) \/ EmitDup(p, s) \/ EmitOoo(p, s)

\* Both handlers note the number for the next acknowledgement first.
Accept(p, s) ==
  /\ ack' = [ack EXCEPT ![p] = @ \cup {s}]
  /\ arrived' = [arrived EXCEPT ![p] = @ \cup {s}]

\* res_handler on a request it knows: a "res" closes it, another response
\* stops the timers of what it acknowledges.
ResHandler(m) ==
  /\ m.src = "res" /\ live
  /\ Take(m)
  /\ Accept("req", m.seq)
  /\ live' = (m.type # "res")
  /\ sent' = [sent EXCEPT !["req"] =
                IF m.type = "res" THEN {} ELSE @ \ m.ack]
  /\ Emit("req", m.seq)
  /\ UNCHANGED <<stream, resVars, sendVars>>

\* req_handler_cb creates the Res for the first message of a request; one
\* that arrives before it is ignored.
Starts(m) == m.type \in {"req", "req_start"} /\ m.seq = 0

\* req_handler_cb on "req" or "req_start": restarts the numbering, and emits
\* with the dup flag only if the expected number is the one after the start.
HandleStart(m) ==
  /\ next' = [next EXCEPT !["res"] = 1]
  /\ emits' = [emits EXCEPT !["res"][m.seq] = IF next["res"] = 1 THEN @ ELSE @ + 1]
  /\ UNCHANGED ooo

ReqHandlerCb(m) ==
  /\ m.src = "req" /\ handler
  /\ known \/ Starts(m)
  /\ Take(m)
  /\ known' = TRUE
  /\ Accept("res", m.seq)
  /\ sent' = [sent EXCEPT !["res"] = @ \ m.ack]
  /\ IF m.type \in {"req", "req_start"} THEN HandleStart(m)
                                        ELSE Emit("res", m.seq)
  /\ UNCHANGED <<reqVars, handler, cleared, sendVars>>

\* The early returns of both handlers: "req not found", no handler for the
\* command, "req not started".
Ignore(m) ==
  /\ \/ m.src = "res" /\ ~live
     \/ m.src = "req" /\ ~(handler /\ (known \/ Starts(m)))
  /\ Take(m)
  /\ UNCHANGED <<reqVars, resVars, sendVars, recvVars, ack, sent>>

-----------------------------------------------------------------------------
(* Timers and the end of a node.                                           *)

\* Faulty variant: the request stays registered after it failed.
ReqTimeoutStaysLive ==
  /\ sent["req"] # {}
  /\ sent' = [sent EXCEPT !["req"] = {}]
  /\ UNCHANGED <<live, stream, ack, net, dups, resVars, sendVars, recvVars>>

\* req_timeout: emit "fail", then del_req drops the request and its timers.
ReqTimeout ==
  /\ sent["req"] # {}
  /\ live' = FALSE
  /\ sent' = [sent EXCEPT !["req"] = {}]
  /\ UNCHANGED <<stream, ack, net, dups, resVars, sendVars, recvVars>>

\* res_timeout: emit "fail" and stop every timer; the Res goes on.
ResTimeout ==
  /\ sent["res"] # {}
  /\ sent' = [sent EXCEPT !["res"] = {}]
  /\ cleared' = TRUE
  /\ UNCHANGED <<handler, known, ack, net, dups, reqVars, sendVars, recvVars>>

\* Req.close, and destroy_cb of req.js when the node is destroyed.
ReqClose ==
  /\ live
  /\ live' = FALSE
  /\ sent' = [sent EXCEPT !["req"] = {}]
  /\ UNCHANGED <<stream, ack, net, dups, resVars, sendVars, recvVars>>

\* destroy_cb of req_handler.js deletes the handlers and responses of the
\* node; the timers of a Res keep running.
ResDestroy ==
  /\ handler
  /\ handler' = FALSE
  /\ known' = FALSE
  /\ UNCHANGED <<cleared, ack, sent, net, dups, reqVars, sendVars, recvVars>>

-----------------------------------------------------------------------------
Send ==
  \/ \E end, close \in BOOLEAN, a \in SUBSET ack["req"] : ReqSend(end, close, a)
  \/ \E end, close \in BOOLEAN, a \in SUBSET ack["res"] : ResSend(end, close, a)
Receive == \E m \in net : ResHandler(m) \/ ReqHandlerCb(m) \/ Ignore(m)
Next == Send \/ Receive \/ ReqTimeout \/ ResTimeout \/ ReqClose \/ ResDestroy

Spec == Init /\ [][Next]_vars

\* A timer that is never stopped fires.
FairSpec == Spec /\ WF_vars(ReqTimeout) /\ WF_vars(ResTimeout)

-----------------------------------------------------------------------------
\* Type invariant: the state of Req and Res keeps its shape.
TypeOK ==
  /\ stream \in BOOLEAN /\ live \in BOOLEAN
  /\ handler \in BOOLEAN /\ known \in BOOLEAN /\ cleared \in BOOLEAN
  /\ seq \in [Side -> 0 .. MaxSeq]
  /\ ack \in [Side -> SUBSET Seqs]
  /\ sent \in [Side -> SUBSET Seqs]
  /\ ooo \in [Side -> SUBSET Seqs]
  /\ next \in [Side -> 0 .. MaxSeq]
  /\ net \in SUBSET Message
  /\ dups \in 0 .. MaxDup
  /\ over \in [Side -> BOOLEAN]
  /\ arrived \in [Side -> SUBSET Seqs]
  /\ untracked \in [Side -> SUBSET Seqs]
  /\ emits \in [Side -> [Seqs -> Nat]]

\* What side p has handed to its application without a flag is exactly once
\* each number below next, and what it accepted beyond is held back behind a
\* real gap: nothing accepted is ever lost, repeated or delivered early.
InOrder(p) ==
  /\ \A s \in Seqs : emits[p][s] = IF s < next[p] THEN 1 ELSE 0
  /\ next[p] \notin arrived[p]
  /\ arrived[p] = (0 .. next[p] - 1) \cup ooo[p]
  /\ \A s \in ooo[p] : s > next[p]

\* emit_ooo and emit_ooo_queue of the Req deliver the response in order.
ResponseInOrder == InOrder("req")

\* req_handler_cb and the Res deliver the request in order.
RequestInOrder == InOrder("res")

\* A timer of side p stops early only for a number the peer really received.
Covered(p) ==
  \A s \in 0 .. seq[p] - 1 :
     s \in sent[p] \cup untracked[p] \cup arrived[Peer(p)]

\* While a request is open, each number it sent either still has its timer or
\* has reached the other side, whatever was lost or duplicated on the way.
RequestCovered == live => Covered("req")

\* The same for the response, until a timeout or close() drops the timers.
ResponseCovered == ~cleared => Covered("res")

\* Both directions: whatever is lost, a message that was sent is still timed,
\* or has arrived, or was sent without a timer (clr_timeout of Req and of Res).
TimersCover == RequestCovered /\ ResponseCovered

\* An open request with no timer left has had every message delivered, in
\* order and once, to the application of the other side: the acknowledgement
\* of a message held back in ooo cannot hide a gap below it.
QuietMeansDelivered ==
  live /\ sent["req"] = {} =>
    \A s \in 0 .. seq["req"] - 1 : emits["res"][s] = 1

\* Whatever the network does, a message of an open request is delivered to
\* the other side's application or the request fails or is closed.
DeliveredOrFailed ==
  \A s \in Seqs : (live /\ s < seq["req"]) ~> (~live \/ emits["res"][s] > 0)

\* A request that is not a stream always comes to an end.
PlainRequestEnds == (~stream /\ seq["req"] > 0) ~> ~live

-----------------------------------------------------------------------------
(* Each direction implements the abstract ordered stream.                  *)

Response == INSTANCE OrderedStream WITH
  sent <- seq["res"], arrived <- arrived["req"], delivered <- next["req"]
Request == INSTANCE OrderedStream WITH
  sent <- seq["req"], arrived <- arrived["res"], delivered <- next["res"]

\* Req.emit_ooo, emit_ooo_queue and the sending Res implement an ordered
\* stream of responses.
ResponseStream == Response!Spec

\* ReqHandler, Res.emit_ooo and the sending Req implement an ordered stream of
\* requests, as long as the network does not repeat a req_start.
RequestStream == Request!Spec
=============================================================================
