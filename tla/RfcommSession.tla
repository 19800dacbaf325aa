---------------------------- MODULE RfcommSession ----------------------------
(***************************************************************************)
(* One data channel of an RFCOMM session (RfcommSession.cpp), from         *)
(* Connect() to Disconnect(), between two ends of one L2CAP connection.    *)
(* End I is this stack as initiator.  End R is this stack in server mode,  *)
(* or another vendor's stack, which may accept credit-based flow control.  *)
(*                                                                         *)
(* At an end that runs this stack there are four threads: the one that     *)
(* opens and closes (main), one that sends, one that receives, and the     *)
(* receive thread of the session (recv).  No lock protects what they       *)
(* share: x-- and x += n are a load and a store of their own, except where *)
(* only one thread writes x.                                               *)
(***************************************************************************)
EXTENDS Integers, Sequences, FiniteSets

CONSTANTS
    Foreign,      \* whether R may be another vendor's stack: subset of BOOLEAN
    Grant,        \* credits in _SendPN() and of each _GrantCredits() (7)
    Low,          \* remoteCredits at which more are granted (2)
    RingSize,     \* RFCOMM_RECV_BUF_SIZE (8192)
    Width,        \* values of a uint32
    MaxFrame,     \* bound: bytes in a frame
    MaxBytes,     \* bound: bytes sent to each end, with and without a foreign R
    ReadSizes,    \* bound: maxLength of Receive()
    MaxGrants     \* bound: credits the foreign stack grants

ASSUME ForeignAssumption == Foreign \subseteq BOOLEAN /\ Foreign # {}
ASSUME CreditAssumption == Grant \in Nat \ {0} /\ Low \in 0 .. Grant - 1
\* The counters (2^32) wrap at a multiple of the ring's size (8192), and leave
\* room to tell a full ring by its distance of RingSize + 1.
ASSUME RingAssumption ==
    /\ {RingSize, Width} \subseteq Nat \ {0}
    /\ Width % RingSize = 0 /\ RingSize + 1 < Width
ASSUME BoundAssumption ==
    /\ {MaxFrame, MaxGrants} \cup ReadSizes \subseteq Nat
    /\ MaxBytes \in [BOOLEAN -> [{"I", "R"} -> Nat]]

VARIABLES
    session,  \* the RfcommSession of each end, with its one data channel
    main,     \* where the thread is that opens and closes
    sender,   \* where the thread is that sends
    reader,   \* where the thread is that receives
    recv,     \* where the session's receive thread is
    peer,     \* the foreign stack at R
    link,     \* the frames on their way to each end
    lost,     \* the L2CAP connection is gone
    used,     \* what is spent of the bounds
    given     \* the byte that Receive() copied last at each end

vars == <<session, main, sender, reader, recv, peer, link, lost, used, given>>

End == {"I", "R"}
OtherEnd(e) == IF e = "I" THEN "R" ELSE "I"

DlciState == {"CLOSED", "OPENING", "OPEN", "CLOSING"}
Counter == 0 .. Width - 1
Slot == 0 .. RingSize - 1

\* DLCI 0 is the multiplexer, 1 the data channel.
Control == [kind : {"SABM", "UA", "DM", "DISC"}, dlci : {0, 1}]
Negotiation == [kind : {"PN"}, cmd : BOOLEAN, cbfc : BOOLEAN, credits : Nat]
\* Bytes are numbered from 1 in each direction; a frame has those from first on.
Uih == [kind : {"UIH"}, credits : Nat, first : Nat, len : 0 .. MaxFrame]
Frame == Control \cup Negotiation \cup Uih

\* Where each thread is
MainState == [pc : {"new", "mux", "ready", "pn", "ua", "grant", "open",
                    "disc", "leaving", "joining", "gone"}, loaded : Int]
SenderState == [pc : {"idle", "spend"}, loaded : Nat]
ReaderState == [pc : {"idle", "wait", "copy"}, max : {0} \cup ReadSizes, copied : Nat]
RecvState == [pc : {"none", "recv", "credit", "enqueue", "used", "spent",
                    "low", "grant", "ended"},
              first : Nat, left : 0 .. MaxFrame, loaded : Int]

SessionState ==
    [sock     : BOOLEAN,             \* fSocket >= 0
     running  : BOOLEAN,             \* fRunning
     mux      : BOOLEAN,             \* fMuxUp
     muxUnits : Nat,                 \* fMuxOpenSem
     chanUnits : Nat,                \* fChannelOpenSem
     chan     : BOOLEAN,             \* fChannelOpenDlci # 0
     state    : DlciState,
     sem      : BOOLEAN,             \* waitSem >= 0
     units    : Nat,                 \* its count
     cbfc     : BOOLEAN,
     local    : Nat,                 \* localCredits
     remote   : Int,                 \* remoteCredits
     head     : Counter,             \* recvHead
     tail     : Counter,             \* recvTail
     ring     : [Slot -> Nat]]       \* recvBuf

NewSession ==
    [sock |-> TRUE, running |-> FALSE, mux |-> FALSE, muxUnits |-> 0,
     chanUnits |-> 0, chan |-> FALSE, state |-> "CLOSED", sem |-> FALSE, units |-> 0,
     cbfc |-> FALSE, local |-> 0, remote |-> 0, head |-> 0, tail |-> 0,
     ring |-> [s \in Slot |-> 0]]

Up == ~lost /\ \A e \in End : session[e].sock
Ours(e) == e = "I" \/ ~peer.foreign

\* _SendFrame() of end e: it fails when the connection is gone.
SendFrame(e, f) ==
    link' = IF Up THEN [link EXCEPT ![OtherEnd(e)] = Append(@, f)] ELSE link

Ctl(kind, dlci) == [kind |-> kind, dlci |-> dlci]
PnResponse(cbfc, n) == [kind |-> "PN", cmd |-> FALSE, cbfc |-> cbfc, credits |-> n]
CreditFrame(n) == [kind |-> "UIH", credits |-> n, first |-> 0, len |-> 0]

\* release_sem(waitSem), if there is one
Release(r) == IF r.sem THEN [r EXCEPT !.units = @ + 1] ELSE r
DeleteSem(r) == [r EXCEPT !.sem = FALSE, !.units = 0]
CreateSem(r) == [r EXCEPT !.sem = TRUE, !.units = 0]

----------------------------------------------------------------------------
\* The thread that opens and closes

Go(e, to) == main' = [main EXCEPT ![e] = [pc |-> to, loaded |-> 0]]

Connect ==
    /\ main["I"].pc = "new"
    /\ session' = [session EXCEPT !["I"].running = TRUE]
    /\ recv' = [recv EXCEPT !["I"].pc = "recv"]
    /\ SendFrame("I", Ctl("SABM", 0))
    /\ Go("I", IF Up THEN "mux" ELSE "leaving")
    /\ UNCHANGED <<sender, reader, peer, lost, used, given>>

AcceptFrom ==
    /\ main["R"].pc = "new" /\ Ours("R")
    /\ session' = [session EXCEPT !["R"].running = TRUE]
    /\ recv' = [recv EXCEPT !["R"].pc = "recv"]
    /\ Go("R", "mux")
    /\ UNCHANGED <<sender, reader, peer, link, lost, used, given>>

\* The wait for DLCI 0 ends: with a unit, or with its timeout.
MuxWake(e) ==
    /\ main[e].pc = "mux"
    /\ \/ /\ session[e].muxUnits > 0
          /\ session' = [session EXCEPT ![e].muxUnits = @ - 1]
          /\ Go(e, IF session[e].mux THEN "ready" ELSE "leaving")
       \/ Go(e, "leaving") /\ UNCHANGED session
    /\ UNCHANGED <<sender, reader, recv, peer, link, lost, used, given>>

\* OpenChannel(), up to the wait for the answer to PN
OpenChannel ==
    /\ main["I"].pc = "ready"
    /\ LET opening == [CreateSem(session["I"]) EXCEPT
                          !.state = "OPENING", !.head = 0, !.tail = 0]
           failed == [DeleteSem(opening) EXCEPT !.state = "CLOSED"]
       IN  IF ~session["I"].mux THEN Go("I", "leaving") /\ UNCHANGED <<session, link>>
           ELSE /\ session' = [session EXCEPT !["I"] = IF Up THEN opening ELSE failed]
                /\ SendFrame("I", [kind |-> "PN", cmd |-> TRUE, cbfc |-> TRUE,
                                   credits |-> Grant])
                /\ Go("I", IF Up THEN "pn" ELSE "leaving")
    /\ UNCHANGED <<sender, reader, recv, peer, lost, used, given>>

\* A unit, whoever released it, is taken for the answer to PN.
PnWake ==
    /\ main["I"].pc = "pn" /\ session["I"].units > 0
    /\ SendFrame("I", Ctl("SABM", 1))
    /\ LET r == [session["I"] EXCEPT !.units = @ - 1]
       IN  session' = [session EXCEPT !["I"] =
               IF Up THEN r ELSE [DeleteSem(r) EXCEPT !.state = "CLOSED"]]
    /\ Go("I", IF Up THEN "ua" ELSE "leaving")
    /\ UNCHANGED <<sender, reader, recv, peer, lost, used, given>>

\* The wait for UA ends: a rejected channel keeps its state.
UaWake ==
    /\ main["I"].pc = "ua" /\ session["I"].units > 0
    /\ LET r == [session["I"] EXCEPT !.units = @ - 1]
       IN  IF r.state = "OPEN"
           THEN /\ session' = [session EXCEPT !["I"] = r]
                /\ IF r.cbfc
                   THEN /\ SendFrame("I", CreditFrame(Grant))
                        /\ main' = [main EXCEPT !["I"] = [pc |-> "grant", loaded |-> r.remote]]
                   ELSE Go("I", "open") /\ UNCHANGED link
           ELSE /\ session' = [session EXCEPT !["I"] = DeleteSem(r)]
                /\ Go("I", "leaving") /\ UNCHANGED link
    /\ UNCHANGED <<sender, reader, recv, peer, lost, used, given>>

\* remoteCredits += credits: the store of the opening thread's _GrantCredits()
GrantStore ==
    /\ main["I"].pc = "grant"
    /\ session' = [session EXCEPT !["I"].remote = main["I"].loaded + Grant]
    /\ Go("I", "open")
    /\ UNCHANGED <<sender, reader, recv, peer, link, lost, used, given>>

OpenTimeout ==
    /\ main["I"].pc \in {"pn", "ua"}
    /\ session' = [session EXCEPT !["I"] = [DeleteSem(@) EXCEPT !.state = "CLOSED"]]
    /\ Go("I", "leaving")
    /\ UNCHANGED <<sender, reader, recv, peer, link, lost, used, given>>

WaitForChannel ==
    /\ main["R"].pc = "ready"
    /\ \/ /\ session["R"].chanUnits > 0
          /\ session' = [session EXCEPT !["R"].chanUnits = @ - 1]
          /\ Go("R", IF session["R"].chan THEN "open" ELSE "leaving")
       \/ Go("R", "leaving") /\ UNCHANGED session
    /\ UNCHANGED <<sender, reader, recv, peer, link, lost, used, given>>

CloseChannel(e) ==
    /\ main[e].pc = "open"
    /\ IF session[e].state # "OPEN" THEN Go(e, "leaving") /\ UNCHANGED <<session, link>>
       ELSE /\ session' = [session EXCEPT ![e].state = "CLOSING"]
            /\ SendFrame(e, Ctl("DISC", 1))
            /\ Go(e, "disc")
    /\ UNCHANGED <<sender, reader, recv, peer, lost, used, given>>

\* The wait for UA takes a unit that was meant for the reader as well.
CloseWake(e) ==
    /\ main[e].pc = "disc"
    /\ session' = [session EXCEPT ![e] = [DeleteSem(@) EXCEPT !.state = "CLOSED"]]
    /\ Go(e, "leaving")
    /\ UNCHANGED <<sender, reader, recv, peer, link, lost, used, given>>

\* Disconnect(), up to the wait for the receive thread
Disconnect(e) ==
    /\ main[e].pc = "leaving"
    /\ IF session[e].mux THEN SendFrame(e, Ctl("DISC", 0)) ELSE UNCHANGED link
    /\ session' = [session EXCEPT ![e].running = FALSE, ![e].mux = FALSE,
                                  ![e].sock = FALSE]
    /\ Go(e, "joining")
    /\ UNCHANGED <<sender, reader, recv, peer, lost, used, given>>

\* Callers let their own threads end before the session is gone.
DisconnectEnd(e) ==
    /\ main[e].pc = "joining"
    /\ recv[e].pc = "ended" /\ reader[e].pc = "idle" /\ sender[e].pc = "idle"
    /\ session' = [session EXCEPT ![e] =
           [NewSession EXCEPT !.sock = FALSE, !.ring = session[e].ring,
                              !.chan = session[e].chan]]
    /\ Go(e, "gone")
    /\ UNCHANGED <<sender, reader, recv, peer, link, lost, used, given>>

----------------------------------------------------------------------------
\* Send() and Receive()

\* The channel belongs to its users while main is there.
InUse(e) == main[e].pc \in {"open", "disc"}

\* One round of the loop of Send().  (One that fails changes nothing; NoWait is
\* faulty: nothing waits for credits.)
NoWait(r) == r.state = "OPEN"

CanSend(r) == r.state = "OPEN" /\ (r.cbfc => r.local > 0)

SendData(e) ==
    /\ InUse(e) /\ Up /\ sender[e].pc = "idle" /\ CanSend(session[e])
    /\ \E n \in 1 .. MaxFrame :
          /\ used.sent[e] + n <= MaxBytes[peer.foreign][OtherEnd(e)]
          /\ used' = [used EXCEPT !.sent[e] = @ + n]
          /\ SendFrame(e, [kind |-> "UIH", credits |-> 0,
                           first |-> used.sent[e] + 1, len |-> n])
    /\ sender' = IF session[e].cbfc
                 THEN [sender EXCEPT ![e] = [pc |-> "spend", loaded |-> session[e].local]]
                 ELSE sender
    /\ UNCHANGED <<session, main, reader, recv, peer, lost, given>>

\* localCredits--, the store
SpendStore(e) ==
    /\ sender[e].pc = "spend"
    /\ session' = [session EXCEPT ![e].local = sender[e].loaded - 1]
    /\ sender' = [sender EXCEPT ![e] = [pc |-> "idle", loaded |-> 0]]
    /\ UNCHANGED <<main, reader, recv, peer, link, lost, used, given>>

Empty(r) == r.head = r.tail
Reading(e, pc, max, copied) ==
    reader' = [reader EXCEPT ![e] = [pc |-> pc, max |-> max, copied |-> copied]]

\* Receive(), up to the wait or the copy
Receive(e) ==
    /\ InUse(e) /\ reader[e].pc = "idle"
    /\ session[e].state = "OPEN" \/ ~Empty(session[e])
    /\ Empty(session[e]) => session[e].sem
    /\ \E max \in ReadSizes :
          Reading(e, IF Empty(session[e]) THEN "wait" ELSE "copy", max, 0)
    /\ UNCHANGED <<session, main, sender, recv, peer, link, lost, used, given>>

ReceiveWake(e) ==
    /\ reader[e].pc = "wait"
    /\ session[e].units > 0
    /\ session' = [session EXCEPT ![e].units = @ - 1]
    /\ Reading(e, "copy", reader[e].max, 0)
    /\ UNCHANGED <<main, sender, recv, peer, link, lost, used, given>>

\* The timeout, or the semaphore is deleted.
ReceiveFails(e) ==
    /\ reader[e].pc = "wait"
    /\ Reading(e, "idle", 0, 0)
    /\ UNCHANGED <<session, main, sender, recv, peer, link, lost, used, given>>

\* One byte of the copy, or its end: Receive() returns reader[e].copied.
Copy(e) ==
    /\ reader[e].pc = "copy"
    /\ LET r == session[e]
       IN  IF reader[e].copied = reader[e].max \/ Empty(r)
           THEN Reading(e, "idle", 0, 0) /\ UNCHANGED <<session, given>>
           ELSE /\ Reading(e, "copy", reader[e].max, reader[e].copied + 1)
                /\ given' = [given EXCEPT ![e] = r.ring[r.tail % RingSize]]
                /\ session' = [session EXCEPT ![e].tail = (@ + 1) % Width]
    /\ UNCHANGED <<main, sender, recv, peer, link, lost, used>>

----------------------------------------------------------------------------
\* The receive thread

\* DISC is answered first; UA counts only where it is awaited.
\* (Unclosed is faulty: the end of the data channel is only answered.)
Unclosed(r, f) == IF f.dlci = 0 THEN [r EXCEPT !.mux = FALSE] ELSE Release(r)

HandleDisc(r, f) ==
    IF f.dlci = 0 THEN [r EXCEPT !.mux = FALSE]
    ELSE Release([r EXCEPT !.state = "CLOSED"])

HandleUa(r, f) ==
    CASE f.dlci = 0 -> [r EXCEPT !.mux = TRUE, !.muxUnits = @ + 1]
      [] f.dlci = 1 /\ r.state = "OPENING" -> Release([r EXCEPT !.state = "OPEN"])
      [] f.dlci = 1 /\ r.state = "CLOSING" -> Release([r EXCEPT !.state = "CLOSED"])
      [] OTHER -> r

HandleDm(r, f) ==
    IF f.dlci = 0 THEN [r EXCEPT !.mux = FALSE, !.muxUnits = @ + 1]
    ELSE Release([r EXCEPT !.state = "CLOSED"])

HandleSabm(e, r, f) ==
    IF f.dlci = 0 THEN [r EXCEPT !.mux = TRUE, !.muxUnits = @ + 1]
    ELSE [(IF r.sem THEN r ELSE CreateSem(r)) EXCEPT
             !.state = "OPEN", !.head = 0, !.tail = 0, !.chan = TRUE,
             !.chanUnits = IF e = "R" THEN @ + 1 ELSE @]

\* PN, at the end that asked: flow 0xE0 turns credits on.
HandlePnResponse(r, f) ==
    Release(IF f.cbfc THEN [r EXCEPT !.cbfc = TRUE, !.local = f.credits] ELSE r)

\* What is sent at once for a frame.  A PN command is answered with flow 0x00.
Answer(f) ==
    CASE f.kind \in {"DISC", "SABM"} -> << Ctl("UA", f.dlci) >>
      [] f.kind = "PN" /\ f.cmd ->
            << PnResponse(FALSE, 0) >>
      [] OTHER -> << >>

Handled(e, r, f) ==
    CASE f.kind = "UA"   -> HandleUa(r, f)
      [] f.kind = "DM"   -> HandleDm(r, f)
      [] f.kind = "DISC" -> HandleDisc(r, f)
      [] f.kind = "SABM" -> HandleSabm(e, r, f)
      [] f.kind = "PN" /\ ~f.cmd -> HandlePnResponse(r, f)
      [] OTHER -> r

Receiving(e, pc, first, left, n) ==
    recv' = [recv EXCEPT ![e] = [pc |-> pc, first |-> first, left |-> left, loaded |-> n]]

\* What follows the credits of a frame
AfterCredits(r, left) ==
    IF left > 0 THEN "enqueue" ELSE IF r.cbfc THEN "used" ELSE "recv"

\* _RecvLoop() has a frame, _ParseFrame() dispatches it.
RecvFrame(e) ==
    /\ recv[e].pc = "recv" /\ session[e].running /\ session[e].sock
    /\ link[e] # << >>
    /\ LET f == Head(link[e])
           r == session[e]
       IN  /\ session' = [session EXCEPT ![e] = Handled(e, r, f)]
           /\ link' = [link EXCEPT ![e] = Tail(@),
                                   ![OtherEnd(e)] = IF Up THEN @ \o Answer(f) ELSE @]
           /\ IF f.kind # "UIH" THEN UNCHANGED recv
              ELSE IF r.cbfc /\ f.credits > 0
              THEN recv' = [recv EXCEPT ![e] =
                       [pc |-> "credit", first |-> f.first, left |-> f.len,
                        loaded |-> r.local + f.credits]]
              ELSE Receiving(e, AfterCredits(r, f.len), f.first, f.len, 0)
    /\ UNCHANGED <<main, sender, reader, peer, lost, used, given>>

\* localCredits += credits, the store
CreditStore(e) ==
    /\ recv[e].pc = "credit"
    /\ session' = [session EXCEPT ![e].local = recv[e].loaded]
    /\ Receiving(e, AfterCredits(session[e], recv[e].left), recv[e].first, recv[e].left, 0)
    /\ UNCHANGED <<main, sender, reader, peer, link, lost, used, given>>

Distance(from, to) == (to - from) % Width

\* (FullLate is faulty: one byte more is let in.)
FullLate(r) == Distance(r.tail, (r.head + 1) % Width) > RingSize + 1

Full(r) == Distance(r.tail, (r.head + 1) % Width) > RingSize

\* The end of _EnqueueData().  (AtCapacity is faulty: readers are woken for a
\* full ring only.)
AtCapacity(r) == IF Full(r) THEN Release(r) ELSE r

Wake(r) == Release(r)

\* One byte of _EnqueueData(), or the end of its loop
Enqueue(e) ==
    /\ recv[e].pc = "enqueue"
    /\ LET r == session[e]
           t == recv[e]
       IN  IF t.left > 0 /\ ~Full(r)
           THEN /\ session' = [session EXCEPT ![e].ring[r.head % RingSize] = t.first,
                                              ![e].head = (@ + 1) % Width]
                /\ Receiving(e, "enqueue", t.first + 1, t.left - 1, 0)
           ELSE /\ session' = [session EXCEPT ![e] = Wake(r)]
                /\ Receiving(e, IF r.cbfc THEN "used" ELSE "recv", 0, 0, 0)
    /\ UNCHANGED <<main, sender, reader, peer, link, lost, used, given>>

\* remoteCredits--, the load
UsedLoad(e) ==
    /\ recv[e].pc = "used"
    /\ Receiving(e, "spent", 0, 0, session[e].remote)
    /\ UNCHANGED <<session, main, sender, reader, peer, link, lost, used, given>>

\* (Unspent is faulty: frames of the peer are not counted.)
Unspent(n) == n

Spent(n) == n - 1

UsedStore(e) ==
    /\ recv[e].pc = "spent"
    /\ session' = [session EXCEPT ![e].remote = Spent(recv[e].loaded)]
    /\ Receiving(e, "low", 0, 0, 0)
    /\ UNCHANGED <<main, sender, reader, peer, link, lost, used, given>>

\* remoteCredits <= 2: _GrantCredits() sends, then loads.
LowGrant(e) ==
    /\ recv[e].pc = "low"
    /\ IF session[e].remote > Low THEN Receiving(e, "recv", 0, 0, 0) /\ UNCHANGED link
       ELSE /\ SendFrame(e, CreditFrame(Grant))
            /\ Receiving(e, "grant", 0, 0, session[e].remote)
    /\ UNCHANGED <<session, main, sender, reader, peer, lost, used, given>>

LowStore(e) ==
    /\ recv[e].pc = "grant"
    /\ session' = [session EXCEPT ![e].remote = recv[e].loaded + Grant]
    /\ Receiving(e, "recv", 0, 0, 0)
    /\ UNCHANGED <<main, sender, reader, peer, link, lost, used, given>>

\* _RecvLoop() ends and signals everyone.  (At the end of the connection it
\* may instead spin: errno is then what an earlier timeout has left there.)
RecvEnd(e) ==
    /\ recv[e].pc = "recv"
    /\ ~session[e].running \/ (link[e] = << >> /\ ~Up)
    /\ LET r == Release(session[e])
       IN  session' = [session EXCEPT ![e] =
               [r EXCEPT !.muxUnits = @ + 1, !.chanUnits = IF e = "R" THEN @ + 1 ELSE @]]
    /\ Receiving(e, "ended", 0, 0, 0)
    /\ UNCHANGED <<main, sender, reader, peer, link, lost, used, given>>

RecvStep(e) ==
    \/ RecvFrame(e)
    \/ CreditStore(e)
    \/ Enqueue(e)
    \/ UsedLoad(e)
    \/ UsedStore(e)
    \/ LowGrant(e)
    \/ LowStore(e)

----------------------------------------------------------------------------
\* Another vendor's stack at R.  It keeps to the protocol: it sends only while
\* the channel is open, and only with credits where they were agreed on.  (What
\* it does once the connection is gone concerns nobody.)

ForeignReceive ==
    /\ peer.foreign /\ Up /\ link["R"] # << >>
    /\ LET f == Head(link["R"])
           Reply(answer) == link' = [link EXCEPT !["R"] = Tail(@), !["I"] = @ \o answer]
       IN  \/ /\ f.kind = "SABM"
              /\ \/ Reply(<< Ctl("UA", f.dlci) >>) /\ peer' = [peer EXCEPT !.open = f.dlci = 1]
                 \/ Reply(<< Ctl("DM", f.dlci) >>) /\ UNCHANGED peer
              /\ UNCHANGED used
           \/ /\ f.kind = "DISC"
              /\ Reply(<< Ctl("UA", f.dlci) >>)
              /\ peer' = [peer EXCEPT !.open = @ /\ f.dlci = 0]
              /\ UNCHANGED used
           \/ /\ f.kind = "PN"
              /\ \E n \in 0 .. MaxGrants - used.grants :
                    /\ Reply(<< PnResponse(TRUE, n) >>)
                    /\ used' = [used EXCEPT !.grants = @ + n]
              /\ peer' = [peer EXCEPT !.cbfc = TRUE, !.credits = f.credits]
           \/ /\ f.kind = "PN"
              /\ \E a \in {PnResponse(FALSE, 0), Ctl("DM", 1)} : Reply(<< a >>)
              /\ UNCHANGED <<peer, used>>
           \/ /\ f.kind \in {"UIH", "UA"}
              /\ Reply(<< >>)
              /\ peer' = IF f.kind = "UIH" THEN [peer EXCEPT !.credits = @ + f.credits] ELSE peer
              /\ UNCHANGED used
    /\ UNCHANGED <<session, main, sender, reader, recv, lost, given>>

\* A frame with n bytes and c credits; one with credits alone costs none.
ForeignSend ==
    /\ peer.foreign /\ Up /\ peer.open
    /\ \E n \in 0 .. MaxFrame, c \in 0 .. 1 :
          /\ n + c > 0
          /\ c > 0 => peer.cbfc
          /\ used.sent["R"] + n <= MaxBytes[TRUE]["I"] /\ used.grants + c <= MaxGrants
          /\ used' = [used EXCEPT !.sent["R"] = @ + n, !.grants = @ + c]
          /\ n > 0 /\ peer.cbfc => peer.credits > 0
          /\ peer' = IF n > 0 /\ peer.cbfc THEN [peer EXCEPT !.credits = @ - 1] ELSE peer
          /\ SendFrame("R", [kind |-> "UIH", credits |-> c,
                             first |-> IF n > 0 THEN used.sent["R"] + 1 ELSE 0, len |-> n])
    /\ UNCHANGED <<session, main, sender, reader, recv, lost, given>>

ForeignClose ==
    /\ peer.foreign /\ Up /\ peer.open
    /\ peer' = [peer EXCEPT !.open = FALSE]
    /\ SendFrame("R", Ctl("DISC", 1))
    /\ UNCHANGED <<session, main, sender, reader, recv, lost, used, given>>

\* The L2CAP connection ends: what is on its way gets there or not.
LinkLost ==
    /\ ~lost /\ lost' = TRUE
    /\ link' \in {[link EXCEPT !["R"] = IF peer.foreign THEN << >> ELSE @],
                 [e \in End |-> << >>]}
    /\ UNCHANGED <<session, main, sender, reader, recv, peer, used, given>>

----------------------------------------------------------------------------
Init ==
    /\ session = [e \in End |-> NewSession]
    /\ main = [e \in End |-> [pc |-> "new", loaded |-> 0]]
    /\ sender = [e \in End |-> [pc |-> "idle", loaded |-> 0]]
    /\ reader = [e \in End |-> [pc |-> "idle", max |-> 0, copied |-> 0]]
    /\ recv = [e \in End |-> [pc |-> "none", first |-> 0, left |-> 0, loaded |-> 0]]
    /\ \E b \in Foreign : peer = [foreign |-> b, open |-> FALSE, cbfc |-> FALSE, credits |-> 0]
    /\ link = [e \in End |-> << >>]
    /\ lost = FALSE
    /\ used = [sent |-> [e \in End |-> 0], grants |-> 0]
    /\ given = [e \in End |-> 0]

Next ==
    \/ Connect \/ AcceptFrom \/ OpenChannel \/ PnWake \/ UaWake \/ GrantStore
    \/ OpenTimeout \/ WaitForChannel
    \/ \E e \in End :
          \/ MuxWake(e) \/ CloseChannel(e) \/ CloseWake(e)
          \/ Disconnect(e) \/ DisconnectEnd(e)
          \/ SendData(e) \/ SpendStore(e)
          \/ Receive(e) \/ ReceiveWake(e) \/ ReceiveFails(e) \/ Copy(e)
          \/ RecvStep(e) \/ RecvEnd(e)
    \/ ForeignReceive \/ ForeignSend \/ ForeignClose \/ LinkLost

Spec == Init /\ [][Next]_vars

\* The receive thread is a thread in a loop, the thread that opens goes on with
\* a store, and the other stack reads what it gets.  Nothing is assumed of
\* users, of timeouts or of what the other stack sends.
Fairness ==
    /\ \A e \in End : WF_vars(RecvStep(e))
    /\ WF_vars(GrantStore) /\ WF_vars(ForeignReceive)

FairSpec == Spec /\ Fairness

----------------------------------------------------------------------------
\* Correctness

\* Every variable has its type; in particular localCredits is never negative
\* and remoteCredits is never less than one below zero.
TypeOK ==
    /\ session \in [End -> SessionState]
    /\ \A e \in End : session[e].remote >= -1
    /\ main \in [End -> MainState] /\ sender \in [End -> SenderState]
    /\ reader \in [End -> ReaderState] /\ recv \in [End -> RecvState]
    /\ peer \in [foreign : BOOLEAN, open : BOOLEAN, cbfc : BOOLEAN, credits : Nat]
    /\ link \in [End -> Seq(Frame)]
    /\ lost \in BOOLEAN
    /\ used \in [sent : [End -> Nat], grants : 0 .. MaxGrants]
    /\ given \in [End -> Nat]

\* What is between recvTail and recvHead
Buffered(e) ==
    [k \in 1 .. Distance(session[e].tail, session[e].head) |->
        session[e].ring[(session[e].tail + k - 1) % RingSize]]

StreamI == INSTANCE ByteStream
           WITH Capacity <- RingSize, queue <- Buffered("I"), last <- given["I"]
StreamR == INSTANCE ByteStream
           WITH Capacity <- RingSize, queue <- Buffered("R"), last <- given["R"]

\* Without a lock between _EnqueueData() and Receive(), and with counters that
\* wrap, each receive ring is a bounded FIFO.
StreamIsFifo == StreamI!Spec /\ StreamR!Spec

\* A reader never sleeps while there is data for it: its semaphore has a unit,
\* or the receive thread is about to release one.
NoSleepOnData ==
    \A e \in End :
        reader[e].pc = "wait" /\ session[e].sem /\ ~Empty(session[e])
        => session[e].units > 0 \/ recv[e].pc = "enqueue"

RemoteState == IF peer.foreign THEN (IF peer.open THEN "OPEN" ELSE "CLOSED")
               ELSE session["R"].state

\* OpenChannel() and the answers to DISC and DM: while this end has the channel
\* open, the other end has it open too, is closing it, or its DISC is coming.
ChannelAgrees ==
    session["I"].state = "OPEN" /\ Up =>
        \/ RemoteState \in {"OPEN", "CLOSING"}
        \/ Ctl("DISC", 1) \in {link["I"][k] : k \in 1 .. Len(link["I"])}

\* _ParseFrame() is to "grant more credits when remote is running low": a peer
\* without credits gets some, although remoteCredits is updated by two threads
\* without a lock, and counts neither the credits of the PN nor rightly the
\* frames with credits alone.
PeerRegainsCredits ==
    (peer.open /\ peer.cbfc /\ peer.credits = 0 /\ session["I"].state = "OPEN")
    ~> (peer.credits > 0 \/ ~peer.open \/ session["I"].state # "OPEN" \/ ~Up)

\* "Receive returned 0 bytes (connection closed?)": Receive() waits "for data
\* if buffer is empty", and its callers take 0 bytes for the end of the channel.
ZeroMeansClosed ==
    [][\A e \in End :
          reader[e].pc = "copy" /\ reader'[e].pc = "idle" /\ reader[e].copied = 0
          => session[e].state # "OPEN" \/ ~Up]_vars

=============================================================================
