----------------------------- MODULE L2capErtm -----------------------------
(***************************************************************************)
(* Enhanced Retransmission Mode of an open L2CAP channel (the ERTM half of *)
(* L2capEndpoint.cpp): two ends, each with its transmit queue, its two     *)
(* timers and the timer thread, over a FIFO link that may damage frames.   *)
(*                                                                         *)
(* An action is one critical section of fLock, one expiry of a timer (in   *)
(* interrupt context) or the atomic read of fTimerFlags.  Sending to the   *)
(* HCI connection never fails here, and no clone of a buffer does: the     *)
(* loss of the connection is the subject of L2capChannel.                  *)
(***************************************************************************)
EXTENDS Integers, Sequences, FiniteSets

CONSTANTS
    End,          \* the two ends of the channel
    Foreign,      \* the ends that run another vendor's stack
    SeqMod,       \* how many sequence numbers there are (64)
    MaxTransmit,  \* fMaxTransmit
    MaxData,      \* bound: segments the two users send
    MaxUnacked,   \* bound: frames in flight when a user sends, at most
    MaxUpsets     \* bound: frames whose FCS does not match, and S-frames that
                  \* only another vendor's stack sends

ASSUME EndAssumption == \A h \in End : \E g \in End \ {h} : End = {g, h}
ASSUME ForeignAssumption == Foreign \subseteq End
ASSUME SeqModAssumption == SeqMod \in Nat \ {0, 1}
ASSUME BoundAssumption ==
    {MaxTransmit, MaxData, MaxUnacked, MaxUpsets} \subseteq Nat

VARIABLES
    ep,       \* the ERTM state of each end
    link,     \* the frames on their way to each end
    got,      \* what has ever entered fReceiveQueue of each end
    lists,    \* FALSE once a timer was added that was already in the list
    used      \* what is spent of the bounds

vars == <<ep, link, got, lists, used>>

SeqNo == 0 .. SeqMod - 1

\* (Next64NoWrap is faulty: the 6 bits are not masked.)
Next64NoWrap(s) == s + 1

Next64(s) == (s + 1) % SeqMod
Piece == 1 .. MaxData
Sar == {"UNSEGMENTED", "START", "CONTINUE", "END"}
SType == {"RR", "REJ", "RNR", "SREJ"}
TimerFlag == {"retransmit", "monitor"}

IFrame == [kind : {"I"}, txSeq : SeqNo, reqSeq : SeqNo, sar : Sar, data : Piece]
SFrame == [kind : {"S"}, type : SType, reqSeq : SeqNo, poll : BOOLEAN, final : BOOLEAN]

\* ErtmTxEntry: the clone keeps the control field it was first sent with.
NoFrame == [retry |-> 0, frame |-> << >>]
TxEntry == [retry : Nat, frame : IFrame] \cup {NoFrame}

ErtmState ==
    [state    : {"OPEN", "CLOSED"},
     mapped   : BOOLEAN,              \* still in the channel map
     txSeq    : SeqNo,                \* fTxSeq
     expTx    : SeqNo,                \* fExpectedTxSeq
     expAck   : SeqNo,                \* fExpectedAckSeq
     unacked  : Nat,                  \* fUnackedCount
     txQueue  : [SeqNo -> TxEntry],   \* fTxQueue
     waitF    : BOOLEAN,              \* fWaitF
     active   : SUBSET TimerFlag,     \* f...TimerActive
     armed    : SUBSET TimerFlag,     \* the timers in the kernel's list
     flags    : SUBSET TimerFlag,     \* fTimerFlags
     taken    : SUBSET TimerFlag,     \* the flags the timer thread has read
     partial  : SUBSET Piece,         \* in fReassemblyBuffer, {} when NULL
     sent     : 0 .. MaxData]         \* segments the user has sent

\* An end with nothing in flight: _MarkEstablished() leaves it so with s = 0,
\* and s frames that were sent and acknowledged each way with any other s.
Quiet(s) ==
    [state |-> "OPEN", mapped |-> TRUE, txSeq |-> s, expTx |-> s, expAck |-> s,
     unacked |-> 0, txQueue |-> [q \in SeqNo |-> NoFrame], waitF |-> FALSE,
     active |-> {}, armed |-> {}, flags |-> {}, taken |-> {}, partial |-> {},
     sent |-> 0]

OtherEnd(h) == CHOOSE g \in End : g # h

\* A step of end h with the outcome x.  The kernel does not survive a timer
\* that is in its list twice.
Step(h, x) ==
    /\ ep' = [ep EXCEPT ![h] = x.ep]
    /\ lists' = (lists /\ ~x.twice)
    /\ link' = [link EXCEPT ![OtherEnd(h)] = @ \o x.out]

----------------------------------------------------------------------------
\* Timers.  The operators that may add one take and give a record of the
\* ERTM state, the frames sent and whether add_timer() met a queued timer.

On(r) == [ep |-> r, out |-> << >>, twice |-> FALSE]

\* add_timer() after a cancel_timer() that is skipped when not "active"
Start(x, t) ==
    [x EXCEPT !.ep.active = @ \cup {t}, !.ep.armed = @ \cup {t},
              !.twice = @ \/ (t \in x.ep.armed /\ t \notin x.ep.active)]

\* (Timers that are not "active" stay in the kernel's list.)
Stop(r, t) == IF t \in r.active
              THEN [r EXCEPT !.active = @ \ {t}, !.armed = @ \ {t}] ELSE r

MarkClosed(r) ==
    [Stop(Stop(r, "retransmit"), "monitor") EXCEPT
        !.state = "CLOSED", !.mapped = FALSE, !.unacked = 0,
        !.txQueue = [s \in SeqNo |-> NoFrame]]

----------------------------------------------------------------------------
\* Sending

Emit(x, f) == [x EXCEPT !.out = Append(@, f)]

\* _SendErtmSFrame()
SendSFrame(x, type, poll, final) ==
    IF x.ep.state = "OPEN"
    THEN Emit(x, [kind |-> "S", type |-> type, reqSeq |-> x.ep.expTx,
                  poll |-> poll, final |-> final])
    ELSE x

\* _SendErtmIFrame(): nothing looks at the window.
SendIFrame(x, data, sar) ==
    LET r == x.ep
        f == [kind |-> "I", txSeq |-> r.txSeq, reqSeq |-> r.expTx,
              sar |-> sar, data |-> data]
        kept == [r EXCEPT !.txQueue[r.txSeq] = [retry |-> 0, frame |-> f],
                          !.unacked = @ + 1, !.txSeq = Next64(@), !.sent = data]
    IN  Emit(Start([x EXCEPT !.ep = kept], "retransmit"), f)

\* how many times the loop of _ProcessAck() runs
Acked(r, reqSeq) ==
    LET d == (reqSeq - r.expAck) % SeqMod
    IN  IF d < r.unacked THEN d ELSE r.unacked

\* the slots from fExpectedAckSeq on, n of them
Slots(from, n) == {(from + k) % SeqMod : k \in 0 .. n - 1}

\* (PoppedOne is faulty: only the first of the acknowledged slots is freed.)
PoppedOne(r, n) ==
    [r EXCEPT !.expAck = (@ + n) % SeqMod, !.unacked = @ - n,
              !.txQueue[r.expAck] = IF n > 0 THEN NoFrame ELSE @]

Popped(r, n) ==
    [r EXCEPT !.expAck = (@ + n) % SeqMod, !.unacked = @ - n,
              !.txQueue = [s \in SeqNo |-> IF s \in Slots(r.expAck, n)
                                           THEN NoFrame ELSE @[s]]]

\* _ProcessAck()
\* (StopsTimer is faulty: progress leaves the rest without a timer.)
StopsTimer(x, reqSeq) ==
    LET n == Acked(x.ep, reqSeq)
        r == Popped(x.ep, n)
    IN  IF n > 0 \/ r.unacked = 0 THEN [x EXCEPT !.ep = Stop(r, "retransmit")] ELSE x

ProcessAck(x, reqSeq) ==
    LET n == Acked(x.ep, reqSeq)
        r == Popped(x.ep, n)
    IN  IF r.unacked = 0 THEN [x EXCEPT !.ep = Stop(r, "retransmit")]
        ELSE IF n > 0 THEN Start([x EXCEPT !.ep = r], "retransmit")
        ELSE x

\* A frame that is out of retries closes the channel.
Retry(x, s) ==
    LET e == x.ep.txQueue[s]
    IN  IF e.retry >= MaxTransmit THEN [x EXCEPT !.ep.state = "CLOSED"]
        ELSE Emit([x EXCEPT !.ep.txQueue[s].retry = @ + 1], e.frame)

RetransmitSingle(x, s) == IF x.ep.txQueue[s] = NoFrame THEN x ELSE Retry(x, s)

\* One round of the loop of _RetransmitFrom(): once a frame is out of retries,
\* nothing else is done.
Round(v, s) ==
    LET e == v.x.ep.txQueue[s]
    IN  IF v.spent \/ e = NoFrame THEN v
        ELSE [x |-> Retry(v.x, s), spent |-> e.retry >= MaxTransmit]

\* _RetransmitFrom(): the slots from fromSeq up to fTxSeq
RetransmitFrom(x, fromSeq) ==
    LET rounds == (x.ep.txSeq - fromSeq) % SeqMod
        after[k \in 0 .. rounds] ==
            IF k = 0 THEN [x |-> x, spent |-> FALSE]
            ELSE Round(after[k - 1], (fromSeq + k - 1) % SeqMod)
        end == after[rounds]
    IN  IF end.spent THEN end.x ELSE Start(end.x, "retransmit")

----------------------------------------------------------------------------
\* _HandleErtmFrame()

\* a Final answers our Poll
Final(x) ==
    LET r == [Stop(x.ep, "monitor") EXCEPT !.waitF = FALSE]
    IN  IF x.ep.waitF /\ r.unacked > 0
        THEN RetransmitFrom([x EXCEPT !.ep = r], r.expAck)
        ELSE [x EXCEPT !.ep = r]

Supervise(x, f) ==
    CASE f.type = "RR"   -> IF f.final THEN Final(ProcessAck(x, f.reqSeq))
                            ELSE ProcessAck(x, f.reqSeq)
      [] f.type = "REJ"  -> RetransmitFrom(ProcessAck(x, f.reqSeq), f.reqSeq)
      [] f.type = "RNR"  -> ProcessAck(x, f.reqSeq)
      [] f.type = "SREJ" -> RetransmitSingle(x, f.reqSeq)

AnswerPoll(x) ==
    SendSFrame(IF x.ep.unacked > 0 THEN RetransmitFrom(x, x.ep.expAck) ELSE x,
               "RR", FALSE, TRUE)

\* _ErtmReassembleAndDeliver(): what is left of the reassembly and what enters
\* the receive queue.  The length that a START announces is not used.
Reassemble(partial, f) ==
    CASE f.sar = "UNSEGMENTED" -> [partial |-> {}, sdu |-> {f.data}]
      [] f.sar = "START"       -> [partial |-> {f.data}, sdu |-> {}]
      [] f.sar \in {"CONTINUE", "END"} /\ partial = {} -> [partial |-> {}, sdu |-> {}]
      [] f.sar = "CONTINUE" /\ partial # {} -> [partial |-> partial \cup {f.data}, sdu |-> {}]
      [] f.sar = "END" /\ partial # {}      -> [partial |-> {}, sdu |-> partial \cup {f.data}]

----------------------------------------------------------------------------
\* The steps

Running == lists

\* A frame reaches the endpoint while that is in the channel map.
Receive(h) ==
    /\ Running
    /\ link[h] # << >> /\ ep[h].mapped
    /\ LET f == Head(link[h])
           s == Supervise(On(ep[h]), f)
           a == ProcessAck(On(ep[h]), f.reqSeq)
           d == Reassemble(ep[h].partial, f)
           i == SendSFrame([a EXCEPT !.ep.expTx = Next64(f.txSeq),
                                     !.ep.partial = d.partial], "RR", FALSE, FALSE)
           x == IF f.kind = "S" THEN (IF f.poll THEN AnswerPoll(s) ELSE s) ELSE i
       IN  /\ ep' = [ep EXCEPT ![h] = x.ep]
           /\ lists' = ~x.twice
           /\ link' = [link EXCEPT ![h] = Tail(@), ![OtherEnd(h)] = @ \o x.out]
           /\ got' = IF f.kind = "I" THEN [got EXCEPT ![h] = @ \cup d.sdu] ELSE got
    /\ UNCHANGED used

\* The FCS does not match: the frame is dropped before anything is read.
ReceiveDamaged(h) ==
    /\ Running
    /\ link[h] # << >> /\ ep[h].mapped
    /\ used.upsets < MaxUpsets
    /\ used' = [used EXCEPT !.upsets = @ + 1]
    /\ link' = [link EXCEPT ![h] = Tail(@)]
    /\ UNCHANGED <<ep, got, lists>>

\* ForChannel() finds nothing: the frame is dropped.
ReceiveUnmapped(h) ==
    /\ Running
    /\ link[h] # << >> /\ ~ep[h].mapped
    /\ link' = [link EXCEPT ![h] = Tail(@)]
    /\ UNCHANGED <<ep, got, lists, used>>

\* SendData(), one segment at a time: a buffer that is split leaves as several
\* unsegmented frames.
Sending(h, n) ==
    /\ Running
    /\ ep[h].state = "OPEN"
    /\ ep[h].unacked + n <= MaxUnacked
    /\ used.data + n <= MaxData /\ used' = [used EXCEPT !.data = @ + n]

SendData(h) ==
    /\ Sending(h, 1) /\ h \notin Foreign
    /\ Step(h, SendIFrame(On(ep[h]), ep[h].sent + 1, "UNSEGMENTED"))
    /\ UNCHANGED got

\* Another vendor's stack segments.
ForeignSend(h) ==
    /\ Sending(h, 2) /\ h \in Foreign
    /\ LET n == ep[h].sent
       IN  Step(h, SendIFrame(SendIFrame(On(ep[h]), n + 1, "START"), n + 2, "END"))
    /\ UNCHANGED got

\* It asks for frames again.  (Its RNR would do what a RR does: fRemoteBusy is
\* never read.)
ForeignSupervise(h) ==
    /\ Running
    /\ h \in Foreign /\ ep[h].state = "OPEN"
    /\ used.upsets < MaxUpsets
    /\ used' = [used EXCEPT !.upsets = @ + 1]
    /\ \E type \in {"REJ", "SREJ"} : Step(h, SendSFrame(On(ep[h]), type, FALSE, FALSE))
    /\ UNCHANGED got

\* _RetransmitTimeout() and _MonitorTimeout(), in interrupt context
Expire(h, t) ==
    /\ Running
    /\ t \in ep[h].armed
    /\ ep' = [ep EXCEPT ![h].armed = @ \ {t}, ![h].flags = @ \cup {t}]
    /\ UNCHANGED <<link, got, lists, used>>

\* _TimerThreadFunc() reads and clears the flags, then waits for fLock.
TimerTake(h) ==
    /\ Running
    /\ ep[h].taken = {} /\ ep[h].flags # {}
    /\ ep' = [ep EXCEPT ![h].taken = ep[h].flags, ![h].flags = {}]
    /\ UNCHANGED <<link, got, lists, used>>

\* (NeverWaits is faulty: the poll is sent but its answer is not awaited.)
NeverWaits(x) ==
    IF x.ep.state # "OPEN" THEN x ELSE Start(SendSFrame(x, "RR", TRUE, FALSE), "monitor")

Poll(x) ==
    IF x.ep.state # "OPEN" THEN x
    ELSE LET p == SendSFrame(x, "RR", TRUE, FALSE)
         IN  Start([p EXCEPT !.ep.waitF = TRUE], "monitor")

TimerAct(h) ==
    /\ Running
    /\ ep[h].taken # {}
    /\ LET r == [ep[h] EXCEPT !.taken = {},
                              !.active = @ \ (ep[h].taken \cap {"retransmit"})]
           p == IF "retransmit" \in ep[h].taken THEN Poll(On(r)) ELSE On(r)
           inactive == [p EXCEPT !.ep.active = @ \ {"monitor"}]
       IN  Step(h, IF "monitor" \notin ep[h].taken THEN p
                   ELSE IF p.ep.state = "OPEN"
                   THEN [inactive EXCEPT !.ep = MarkClosed(@)]
                   ELSE inactive)
    /\ UNCHANGED <<got, used>>

Init ==
    /\ \E s \in SeqNo : ep = [h \in End |-> Quiet(s)]
    /\ link = [h \in End |-> << >>]
    /\ got = [h \in End |-> {}]
    /\ lists = TRUE
    /\ used = [data |-> 0, upsets |-> 0]

Next ==
    \E h \in End :
        \/ Receive(h)
        \/ ReceiveDamaged(h)
        \/ ReceiveUnmapped(h)
        \/ SendData(h)
        \/ ForeignSend(h)
        \/ ForeignSupervise(h)
        \/ \E t \in TimerFlag : Expire(h, t)
        \/ TimerTake(h)
        \/ TimerAct(h)

Spec == Init /\ [][Next]_vars

\* The RX thread, the kernel's timers and the timer thread are scheduled: weak
\* fairness of their steps, written out because each is possible whenever its
\* guard holds and TLC is slow to find that out.
Fairness ==
    \A h \in End :
        /\ []<>~(lists /\ link[h] # << >>)
           \/ []<><<Receive(h) \/ ReceiveUnmapped(h)>>_vars
        /\ \A t \in TimerFlag :
              []<>~(lists /\ t \in ep[h].armed) \/ []<><<Expire(h, t)>>_vars
        /\ []<>~(lists /\ ep[h].taken = {} /\ ep[h].flags # {})
           \/ []<><<TimerTake(h)>>_vars
        /\ []<>~(lists /\ ep[h].taken # {}) \/ []<><<TimerAct(h)>>_vars

FairSpec == Spec /\ Fairness

----------------------------------------------------------------------------
\* Correctness

\* Every variable has its type.
TypeOK ==
    /\ ep \in [End -> ErtmState]
    /\ link \in [End -> Seq(IFrame \cup SFrame)]
    /\ got \in [End -> SUBSET Piece]
    /\ lists \in BOOLEAN
    /\ used \in [data : 0 .. MaxData, upsets : 0 .. MaxUpsets]

\* fTxQueue holds exactly the fUnackedCount frames from fExpectedAckSeq up to
\* fTxSeq, however acknowledgements come late, twice or out of date.  (Nothing
\* in _SendErtmIFrame() keeps a user from filling the queue: MaxUnacked does.)
QueueIsWindow ==
    \A h \in End :
        ep[h].state = "OPEN" =>
            /\ ep[h].txSeq = (ep[h].expAck + ep[h].unacked) % SeqMod
            /\ {s \in SeqNo : ep[h].txQueue[s] # NoFrame}
                 = Slots(ep[h].expAck, ep[h].unacked)

\* However many frames the users send, and however acknowledgements come: no
\* clone of an acknowledged frame stays in fTxQueue, where _RetransmitFrom()
\* would send it again under a number that is already used anew.
QueueInWindow ==
    \A h \in End :
        ep[h].state = "OPEN" =>
            /\ ep[h].txSeq = (ep[h].expAck + ep[h].unacked) % SeqMod
            /\ {s \in SeqNo : ep[h].txQueue[s] # NoFrame}
                 \subseteq Slots(ep[h].expAck, ep[h].unacked)

\* _SendErtmIFrame() keeps a "clone frame for retransmission" of whatever it
\* sends: fUnackedCount counts the frames that are held.
UnackedAreHeld ==
    \A h \in End :
        ep[h].state = "OPEN" =>
            Cardinality({s \in SeqNo : ep[h].txQueue[s] # NoFrame}) = ep[h].unacked

\* While a frame is not acknowledged, a timer runs, has expired or is being
\* handled: lost frames and lost polls never leave an end waiting for nothing.
RecoveryArmed ==
    \A h \in End :
        ep[h].state = "OPEN" /\ ep[h].unacked > 0
        => ep[h].armed \cup ep[h].flags \cup ep[h].taken # {}

\* Every frame is acknowledged in the end, or the channel is given up.
SendingEnds ==
    \A h \in End :
        ep[h].unacked > 0 ~> (ep[h].unacked = 0 \/ ep[h].state = "CLOSED" \/ ~lists)

\* _HandleErtmFrame(): the retransmission after a Final is "necessary for
\* reliable recovery", and frames out of sequence are accepted to not "drop
\* data".  A frame the sender has let go of is in the peer's receive queue.
AckedIsDelivered ==
    \A h \in End : \A n \in 1 .. ep[h].sent :
        \/ ep[h].state = "CLOSED"
        \/ \E s \in SeqNo : LET e == ep[h].txQueue[s] IN e # NoFrame /\ e.frame.data = n
        \/ n \in got[OtherEnd(h)]

=============================================================================
