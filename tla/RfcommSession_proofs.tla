------------------------ MODULE RfcommSession_proofs ------------------------
(***************************************************************************)
(* What holds of an RFCOMM session for every window, ring size and width   *)
(* of the counters; and the receive ring is a bounded FIFO (ByteStream),   *)
(* whatever the interleaving of the threads at the two ends.               *)
(***************************************************************************)
EXTENDS RfcommSession, NumberLemmas, SequenceTheorems

USE DEF End

\* What the threads of an end carry from a load to its store, and what the
\* session has meanwhile: localCredits was above zero where one is spent, and
\* remoteCredits is below zero only between _ParseFrame()'s decrement and the
\* grant that follows it.
Carried(s, m, x, v) ==
    /\ x.pc = "spend" => x.loaded > 0
    /\ m.pc = "grant" => m.loaded >= -1
    /\ v.pc = "credit" => v.loaded >= 0
    /\ v.pc = "spent" => v.loaded >= 0
    /\ v.pc = "grant" => v.loaded >= -1
    /\ v.pc \notin {"low", "grant"} => s.remote >= 0
    /\ s.remote >= -1
    /\ m.pc = "new" => v.pc = "none"

TypeInv ==
    /\ TypeOK
    /\ \A e \in End : Carried(session[e], main[e], sender[e], recv[e])

----------------------------------------------------------------------------
\* Frames

LEMMA FrameKinds ==
    /\ \A kind \in {"SABM", "UA", "DM", "DISC"}, d \in {0, 1} : Ctl(kind, d) \in Frame
    /\ \A b \in BOOLEAN, n \in Nat : PnResponse(b, n) \in Frame
    /\ \A n \in Nat : CreditFrame(n) \in Frame
    /\ \A f \in Frame : /\ f.kind = "UIH" => f \in Uih
                        /\ f.kind = "PN" => f \in Negotiation
                        /\ f.kind \notin {"UIH", "PN"} => f \in Control
BY BoundAssumption
   DEF Frame, Control, Negotiation, Uih, Ctl, PnResponse, CreditFrame

LEMMA SendFrameType ==
    ASSUME link \in [End -> Seq(Frame)], NEW e \in End, NEW f \in Frame, SendFrame(e, f)
    PROVE  link' \in [End -> Seq(Frame)]
<1>1. OtherEnd(e) \in End
  BY DEF OtherEnd
<1>2. Append(link[OtherEnd(e)], f) \in Seq(Frame)
  BY <1>1
<1> QED
  BY <1>1, <1>2 DEF SendFrame

\* The semaphore operations and a change of state keep a session's type and
\* its credits.
LEMMA SemType ==
    ASSUME NEW r \in SessionState
    PROVE  /\ Release(r) \in SessionState /\ Release(r).remote = r.remote
           /\ CreateSem(r) \in SessionState /\ CreateSem(r).remote = r.remote
           /\ DeleteSem(r) \in SessionState /\ DeleteSem(r).remote = r.remote
<1>1. Release(r) \in SessionState /\ Release(r).remote = r.remote
  BY DEF SessionState, Release
<1>2. CreateSem(r) \in SessionState /\ CreateSem(r).remote = r.remote
  BY DEF SessionState, CreateSem
<1>3. DeleteSem(r) \in SessionState /\ DeleteSem(r).remote = r.remote
  BY DEF SessionState, DeleteSem
<1> QED
  BY <1>1, <1>2, <1>3

LEMMA StateType ==
    ASSUME NEW r \in SessionState, NEW state \in DlciState
    PROVE  /\ [r EXCEPT !.state = state] \in SessionState
           /\ [r EXCEPT !.state = state].remote = r.remote
BY DEF SessionState

LEMMA OpeningType ==
    ASSUME NEW r \in SessionState
    PROVE  LET o == [r EXCEPT !.state = "OPENING", !.head = 0, !.tail = 0]
           IN  o \in SessionState /\ o.remote = r.remote
<1>1. 0 \in Counter /\ "OPENING" \in DlciState
  BY RingAssumption DEF Counter, DlciState
<1> QED
  BY <1>1 DEF SessionState

LEMMA UnitTaken ==
    ASSUME NEW r \in SessionState, r.units > 0
    PROVE  /\ [r EXCEPT !.units = @ - 1] \in SessionState
           /\ [r EXCEPT !.units = @ - 1].remote = r.remote
BY DEF SessionState

\* Nothing but end e changes.
OnlyEnd(e) ==
    \A d \in End : d # e => /\ session'[d] = session[d] /\ main'[d] = main[d]
                            /\ sender'[d] = sender[d] /\ recv'[d] = recv[d]

\* A step of the threads of one end keeps TypeInv when what it writes is typed
\* and what its threads carry is sound.
LEMMA EndType ==
    ASSUME TypeInv, NEW e \in End, OnlyEnd(e),
           session' \in [End -> SessionState], main' \in [End -> MainState],
           sender' \in [End -> SenderState], reader' \in [End -> ReaderState],
           recv' \in [End -> RecvState], link' \in [End -> Seq(Frame)],
           UNCHANGED <<peer, lost>>,
           used' \in [sent : [End -> Nat], grants : 0 .. MaxGrants],
           given' \in [End -> Nat],
           Carried(session'[e], main'[e], sender'[e], recv'[e])
    PROVE  TypeInv'
<1>1. ASSUME NEW d \in End
      PROVE  Carried(session'[d], main'[d], sender'[d], recv'[d])
  <2>1. CASE d = e
    BY <2>1
  <2>2. CASE d # e
    BY <2>2 DEF TypeInv, OnlyEnd
  <2> QED
    BY <2>1, <2>2
<1>2. TypeOK'
  BY <1>1 DEF TypeInv, TypeOK, Carried
<1> QED
  BY <1>1, <1>2 DEF TypeInv

LEMMA EndTypes ==
    ASSUME TypeInv, NEW e \in End
    PROVE  /\ session[e] \in SessionState /\ main[e] \in MainState
           /\ sender[e] \in SenderState /\ reader[e] \in ReaderState
           /\ recv[e] \in RecvState /\ link[e] \in Seq(Frame)
           /\ Carried(session[e], main[e], sender[e], recv[e])
           /\ OtherEnd(e) \in End
BY DEF TypeInv, TypeOK, OtherEnd

----------------------------------------------------------------------------
\* The thread that opens and closes

\* Go() of a thread to a place where it carries nothing
LEMMA GoType ==
    ASSUME TypeInv, NEW e \in End, NEW s \in SessionState,
           session' = [session EXCEPT ![e] = s],
           s.remote \in {session[e].remote, 0},
           \/ Go(e, "mux") \/ Go(e, "ready") \/ Go(e, "pn") \/ Go(e, "ua")
           \/ Go(e, "open") \/ Go(e, "disc") \/ Go(e, "leaving")
           \/ Go(e, "joining") \/ Go(e, "gone"),
           link' \in [End -> Seq(Frame)],
           UNCHANGED <<sender, reader, recv, peer, lost, used, given>>
    PROVE  TypeInv'
<1>1. PICK pc \in {"mux", "ready", "pn", "ua", "open",
                   "disc", "leaving", "joining", "gone"} : Go(e, pc)
  OBVIOUS
<1>2. [pc |-> pc, loaded |-> 0] \in MainState
  BY DEF MainState
<1>3. Carried(s, [pc |-> pc, loaded |-> 0], sender[e], recv[e])
  BY EndTypes DEF Carried
<1>4. /\ session' \in [End -> SessionState] /\ main' \in [End -> MainState]
      /\ session'[e] = s /\ main'[e] = [pc |-> pc, loaded |-> 0]
      /\ OnlyEnd(e)
  BY <1>1, <1>2 DEF Go, TypeInv, TypeOK, OnlyEnd
<1> QED
  BY <1>3, <1>4, EndType DEF TypeInv, TypeOK

LEMMA StartType ==
    ASSUME TypeInv, Connect \/ AcceptFrom
    PROVE  TypeInv'
<1>1. PICK e \in End, pc \in {"mux", "leaving"} :
        /\ session' = [session EXCEPT ![e].running = TRUE]
        /\ recv' = [recv EXCEPT ![e].pc = "recv"]
        /\ Go(e, pc) /\ main[e].pc = "new"
        /\ link' \in [End -> Seq(Frame)]
        /\ UNCHANGED <<sender, reader, peer, lost, used, given>>
  <2>1. CASE Connect
    <3>1. link' \in [End -> Seq(Frame)]
      BY <2>1, SendFrameType, FrameKinds DEF Connect, TypeInv, TypeOK
    <3> QED
      BY <2>1, <3>1 DEF Connect
  <2>2. CASE AcceptFrom
    BY <2>2 DEF AcceptFrom, TypeInv, TypeOK
  <2> QED
    BY <2>1, <2>2
<1>2. /\ session' \in [End -> SessionState] /\ session'[e].remote = session[e].remote
      /\ \A d \in End : d # e => session'[d] = session[d]
  BY <1>1, EndTypes, ZenonT(40) DEF SessionState, TypeInv, TypeOK
<1>3. /\ recv' \in [End -> RecvState] /\ recv'[e].pc = "recv"
      /\ \A d \in End : d # e => recv'[d] = recv[d]
  BY <1>1, EndTypes DEF RecvState, TypeInv, TypeOK
<1>4. /\ main' \in [End -> MainState] /\ main'[e].pc = pc
      /\ \A d \in End : d # e => main'[d] = main[d]
  BY <1>1, EndTypes DEF Go, MainState, TypeInv, TypeOK
<1>5. Carried(session'[e], main'[e], sender'[e], recv'[e])
  BY <1>1, <1>2, <1>3, <1>4, EndTypes DEF Carried
<1>6. OnlyEnd(e)
  BY <1>1, <1>2, <1>3, <1>4 DEF OnlyEnd
<1> QED
  BY <1>1, <1>2, <1>3, <1>4, <1>5, <1>6, EndType DEF TypeInv, TypeOK

LEMMA WakeType ==
    ASSUME TypeInv,
           \/ WaitForChannel
           \/ \E e \in End : MuxWake(e) \/ CloseWake(e) \/ DisconnectEnd(e)
           \/ OpenTimeout
    PROVE  TypeInv'
<1>1. CASE WaitForChannel
  <2> DEFINE s == [session["R"] EXCEPT !.chanUnits = @ - 1]
  <2>1. session["R"] \in SessionState
    BY EndTypes
  <2>2. /\ session["R"].chanUnits > 0 => s \in SessionState
        /\ s.remote = session["R"].remote
    BY <2>1 DEF SessionState
  <2>3. \/ /\ session["R"].chanUnits > 0
           /\ session' = [session EXCEPT !["R"] = s]
           /\ Go("R", "open") \/ Go("R", "leaving")
        \/ UNCHANGED session /\ Go("R", "leaving")
    BY <1>1 DEF WaitForChannel
  <2>4. /\ UNCHANGED <<sender, reader, recv, peer, lost, used, given>>
        /\ link' \in [End -> Seq(Frame)]
    BY <1>1 DEF WaitForChannel, TypeInv, TypeOK
  <2> HIDE DEF s
  <2> QED
    <3>1. CASE UNCHANGED session
      BY <2>1, <2>3, <2>4, <3>1, GoType DEF TypeInv, TypeOK
    <3>2. CASE session # session'
      BY <2>2, <2>3, <2>4, <3>2, GoType
    <3> QED
      BY <3>1, <3>2
<1>2. ASSUME NEW e \in End, MuxWake(e) PROVE TypeInv'
  <2> DEFINE s == [session[e] EXCEPT !.muxUnits = @ - 1]
  <2>1. session[e] \in SessionState
    BY EndTypes
  <2>2. /\ session[e].muxUnits > 0 => s \in SessionState
        /\ s.remote = session[e].remote
    BY <2>1 DEF SessionState
  <2>3. \/ /\ session[e].muxUnits > 0
           /\ session' = [session EXCEPT ![e] = s]
           /\ Go(e, "ready") \/ Go(e, "leaving")
        \/ UNCHANGED session /\ Go(e, "leaving")
    BY <1>2 DEF MuxWake
  <2>4. /\ UNCHANGED <<sender, reader, recv, peer, lost, used, given>>
        /\ link' \in [End -> Seq(Frame)]
    BY <1>2 DEF MuxWake, TypeInv, TypeOK
  <2> HIDE DEF s
  <2> QED
    <3>1. CASE UNCHANGED session
      BY <2>1, <2>3, <2>4, <3>1, GoType DEF TypeInv, TypeOK
    <3>2. CASE session # session'
      BY <2>2, <2>3, <2>4, <3>2, GoType
    <3> QED
      BY <3>1, <3>2
<1>3. ASSUME NEW e \in End, CloseWake(e) \/ (e = "I" /\ OpenTimeout) PROVE TypeInv'
  <2> DEFINE s == [DeleteSem(session[e]) EXCEPT !.state = "CLOSED"]
  <2>1. s \in SessionState /\ s.remote = session[e].remote
    BY EndTypes, SemType, StateType DEF DlciState
  <2>2. /\ session' = [session EXCEPT ![e] = s]
        /\ Go(e, "leaving") /\ UNCHANGED link
        /\ UNCHANGED <<sender, reader, recv, peer, lost, used, given>>
    BY <1>3 DEF CloseWake, OpenTimeout
  <2> HIDE DEF s
  <2> QED
    BY <2>1, <2>2, GoType DEF TypeInv, TypeOK
<1>4. ASSUME NEW e \in End, DisconnectEnd(e) PROVE TypeInv'
  <2> DEFINE s == [NewSession EXCEPT !.sock = FALSE, !.ring = session[e].ring,
                                     !.chan = session[e].chan]
  <2>1. s \in SessionState /\ s.remote = 0
    <3>1. NewSession.remote = 0 /\ NewSession \in SessionState
      BY RingAssumption DEF NewSession, SessionState, DlciState, Counter
    <3> QED
      BY <3>1, EndTypes DEF SessionState
  <2>2. /\ session' = [session EXCEPT ![e] = s]
        /\ Go(e, "gone") /\ UNCHANGED link
        /\ UNCHANGED <<sender, reader, recv, peer, lost, used, given>>
    BY <1>4 DEF DisconnectEnd
  <2> HIDE DEF s
  <2> QED
    BY <2>1, <2>2, GoType DEF TypeInv, TypeOK
<1> QED
  BY <1>1, <1>2, <1>3, <1>4

LEMMA OpenType ==
    ASSUME TypeInv, OpenChannel \/ PnWake
    PROVE  TypeInv'
<1>1. session["I"] \in SessionState
  BY EndTypes
<1> DEFINE opening == [CreateSem(session["I"]) EXCEPT
                          !.state = "OPENING", !.head = 0, !.tail = 0]
           failed == [DeleteSem(opening) EXCEPT !.state = "CLOSED"]
           taken == [session["I"] EXCEPT !.units = @ - 1]
           dropped == [DeleteSem(taken) EXCEPT !.state = "CLOSED"]
<1>2. /\ opening \in SessionState /\ opening.remote = session["I"].remote
      /\ failed \in SessionState /\ failed.remote = session["I"].remote
  <2>1. opening \in SessionState /\ opening.remote = session["I"].remote
    BY <1>1, SemType, OpeningType
  <2> HIDE DEF opening
  <2> QED
    BY <2>1, SemType, StateType DEF DlciState
<1>3. session["I"].units > 0 =>
         /\ taken \in SessionState /\ taken.remote = session["I"].remote
         /\ dropped \in SessionState /\ dropped.remote = session["I"].remote
  <2> SUFFICES ASSUME session["I"].units > 0
               PROVE  /\ taken \in SessionState /\ taken.remote = session["I"].remote
                      /\ dropped \in SessionState /\ dropped.remote = session["I"].remote
    OBVIOUS
  <2>1. taken \in SessionState /\ taken.remote = session["I"].remote
    BY <1>1, UnitTaken
  <2> HIDE DEF taken
  <2> QED
    BY <2>1, SemType, StateType DEF DlciState
<1>4. CASE OpenChannel
  <2>1. [kind |-> "PN", cmd |-> TRUE, cbfc |-> TRUE, credits |-> Grant] \in Frame
    BY CreditAssumption DEF Frame, Negotiation
  <2>2. link' \in [End -> Seq(Frame)]
    BY <1>4, <2>1, SendFrameType DEF OpenChannel, TypeInv, TypeOK
  <2>3. \/ UNCHANGED session /\ Go("I", "leaving")
        \/ session' = [session EXCEPT !["I"] = opening] /\ Go("I", "pn")
        \/ session' = [session EXCEPT !["I"] = failed] /\ Go("I", "leaving")
    BY <1>4 DEF OpenChannel
  <2>4. UNCHANGED <<sender, reader, recv, peer, lost, used, given>>
    BY <1>4 DEF OpenChannel
  <2> HIDE DEF opening, failed
  <2>5. CASE UNCHANGED session
    BY <1>1, <2>2, <2>3, <2>4, <2>5, GoType DEF TypeInv, TypeOK
  <2>6. CASE session # session'
    BY <1>2, <2>2, <2>3, <2>4, <2>6, GoType
  <2> QED
    BY <2>5, <2>6
<1>5. CASE PnWake
  <2>1. link' \in [End -> Seq(Frame)]
    BY <1>5, FrameKinds, SendFrameType DEF PnWake, TypeInv, TypeOK
  <2>2. \/ session' = [session EXCEPT !["I"] = taken] /\ Go("I", "ua")
        \/ session' = [session EXCEPT !["I"] = dropped] /\ Go("I", "leaving")
    BY <1>5 DEF PnWake
  <2>3. /\ UNCHANGED <<sender, reader, recv, peer, lost, used, given>>
        /\ session["I"].units > 0
    BY <1>5 DEF PnWake
  <2> HIDE DEF taken, dropped
  <2> QED
    BY <1>3, <2>1, <2>2, <2>3, GoType
<1> QED
  BY <1>4, <1>5

LEMMA OpenedType ==
    ASSUME TypeInv, UaWake \/ GrantStore
    PROVE  TypeInv'
<1>1. session["I"] \in SessionState
  BY EndTypes
<1>2. CASE UaWake
  <2> DEFINE taken == [session["I"] EXCEPT !.units = @ - 1]
  <2>1. /\ taken \in SessionState /\ taken.remote = session["I"].remote
        /\ DeleteSem(taken) \in SessionState
        /\ DeleteSem(taken).remote = session["I"].remote
    <3>1. taken \in SessionState /\ taken.remote = session["I"].remote
      BY <1>1, <1>2, UnitTaken DEF UaWake
    <3> HIDE DEF taken
    <3> QED
      BY <3>1, SemType
  <2>2. UNCHANGED <<sender, reader, recv, peer, lost, used, given>>
    BY <1>2 DEF UaWake
  <2>3. CASE main' = [main EXCEPT !["I"] = [pc |-> "grant", loaded |-> taken.remote]]
                /\ session' = [session EXCEPT !["I"] = taken]
                /\ SendFrame("I", CreditFrame(Grant))
    <3> HIDE DEF taken
    <3>1. link' \in [End -> Seq(Frame)]
      BY <2>3, FrameKinds, CreditAssumption, SendFrameType DEF TypeInv, TypeOK
    <3>2. [pc |-> "grant", loaded |-> taken.remote] \in MainState
      BY <1>1, <2>1 DEF MainState, SessionState
    <3>3. /\ session' \in [End -> SessionState] /\ main' \in [End -> MainState]
          /\ session'["I"] = taken
          /\ main'["I"] = [pc |-> "grant", loaded |-> taken.remote]
          /\ OnlyEnd("I")
      BY <2>1, <2>2, <2>3, <3>2 DEF TypeInv, TypeOK, OnlyEnd
    <3>4. Carried(taken, [pc |-> "grant", loaded |-> taken.remote], sender["I"], recv["I"])
      BY <2>1, EndTypes DEF Carried
    <3> QED
      BY <2>2, <3>1, <3>3, <3>4, EndType DEF TypeInv, TypeOK
  <2>4. CASE /\ session' = [session EXCEPT !["I"] = taken]
             /\ Go("I", "open") /\ UNCHANGED link
    <3> HIDE DEF taken
    <3> QED
      BY <2>1, <2>2, <2>4, GoType DEF TypeInv, TypeOK
  <2>5. CASE /\ session' = [session EXCEPT !["I"] = DeleteSem(taken)]
             /\ Go("I", "leaving") /\ UNCHANGED link
    <3> HIDE DEF taken
    <3> QED
      BY <2>1, <2>2, <2>5, GoType DEF TypeInv, TypeOK
  <2> QED
    BY <1>2, <2>3, <2>4, <2>5 DEF UaWake
<1>3. CASE GrantStore
  <2> DEFINE s == [session["I"] EXCEPT !.remote = main["I"].loaded + Grant]
             m == [pc |-> "open", loaded |-> 0]
  <2>1. main["I"] \in MainState /\ main["I"].pc = "grant" /\ main["I"].loaded >= -1
    BY <1>3, EndTypes DEF GrantStore, Carried
  <2>2. /\ s \in SessionState /\ s.remote >= 0 /\ m \in MainState
    BY <1>1, <2>1, CreditAssumption DEF SessionState, MainState
  <2>3. Carried(s, m, sender["I"], recv["I"])
    BY <2>2, EndTypes, SMTT(20) DEF Carried, SessionState
  <2>4. /\ session' = [session EXCEPT !["I"] = s] /\ main' = [main EXCEPT !["I"] = m]
        /\ UNCHANGED <<sender, reader, recv, peer, link, lost, used, given>>
    BY <1>3 DEF GrantStore, Go
  <2> HIDE DEF s, m
  <2>5. /\ session' \in [End -> SessionState] /\ main' \in [End -> MainState]
        /\ session'["I"] = s /\ main'["I"] = m /\ OnlyEnd("I")
    BY <2>2, <2>4 DEF TypeInv, TypeOK, OnlyEnd
  <2> QED
    BY <2>3, <2>4, <2>5, EndType DEF TypeInv, TypeOK
<1> QED
  BY <1>2, <1>3

LEMMA CloseType ==
    ASSUME TypeInv, NEW e \in End, CloseChannel(e) \/ Disconnect(e)
    PROVE  TypeInv'
<1>1. session[e] \in SessionState
  BY EndTypes
<1>2. CASE CloseChannel(e)
  <2> DEFINE s == [session[e] EXCEPT !.state = "CLOSING"]
  <2>1. s \in SessionState /\ s.remote = session[e].remote
    BY <1>1 DEF SessionState, DlciState
  <2>2. link' \in [End -> Seq(Frame)]
    BY <1>2, FrameKinds, SendFrameType DEF CloseChannel, TypeInv, TypeOK
  <2>3. /\ \/ UNCHANGED session /\ Go(e, "leaving")
           \/ session' = [session EXCEPT ![e] = s] /\ Go(e, "disc")
        /\ UNCHANGED <<sender, reader, recv, peer, lost, used, given>>
    BY <1>2 DEF CloseChannel
  <2> HIDE DEF s
  <2>4. CASE UNCHANGED session
    BY <1>1, <2>2, <2>3, <2>4, GoType DEF TypeInv, TypeOK
  <2>5. CASE session # session'
    BY <2>1, <2>2, <2>3, <2>5, GoType
  <2> QED
    BY <2>4, <2>5
<1>3. CASE Disconnect(e)
  <2> DEFINE s == [session[e] EXCEPT !.running = FALSE, !.mux = FALSE, !.sock = FALSE]
  <2>1. s \in SessionState /\ s.remote = session[e].remote
    BY <1>1 DEF SessionState
  <2>2. link' \in [End -> Seq(Frame)]
    BY <1>3, FrameKinds, SendFrameType DEF Disconnect, TypeInv, TypeOK
  <2>3. session' = [session EXCEPT ![e] = s]
    BY <1>1, <1>3 DEF Disconnect, TypeInv, TypeOK
  <2>4. Go(e, "joining") /\ UNCHANGED <<sender, reader, recv, peer, lost, used, given>>
    BY <1>3 DEF Disconnect
  <2> HIDE DEF s
  <2> QED
    BY <2>1, <2>2, <2>3, <2>4, GoType
<1> QED
  BY <1>2, <1>3

----------------------------------------------------------------------------
\* Send() and Receive()

LEMMA SenderType ==
    ASSUME TypeInv, NEW e \in End, SendData(e) \/ SpendStore(e)
    PROVE  TypeInv'
<1>1. session[e] \in SessionState /\ sender[e] \in SenderState
  BY EndTypes
<1>2. CASE SendData(e)
  <2>1. PICK n \in 1 .. MaxFrame :
          /\ used' = [used EXCEPT !.sent[e] = @ + n]
          /\ SendFrame(e, [kind |-> "UIH", credits |-> 0,
                           first |-> used.sent[e] + 1, len |-> n])
    BY <1>2 DEF SendData
  <2>2. [kind |-> "UIH", credits |-> 0, first |-> used.sent[e] + 1, len |-> n] \in Frame
    <3>1. used.sent[e] + 1 \in Nat /\ n \in 0 .. MaxFrame
      BY BoundAssumption, SMTT(20) DEF TypeInv, TypeOK
    <3> QED
      BY <3>1 DEF Frame, Uih
  <2>3. link' \in [End -> Seq(Frame)]
    BY <2>1, <2>2, SendFrameType DEF TypeInv, TypeOK
  <2>4. used' \in [sent : [End -> Nat], grants : 0 .. MaxGrants]
    <3>1. used.sent[e] + n \in Nat
      BY BoundAssumption, SMTT(20) DEF TypeInv, TypeOK
    <3> QED
      BY <2>1, <3>1 DEF TypeInv, TypeOK
  <2>5. /\ sender' \in [End -> SenderState]
        /\ sender'[e].pc = "spend" => sender'[e].loaded > 0
        /\ \A d \in End : d # e => sender'[d] = sender[d]
    <3>1. CASE session[e].cbfc
      <4>1. session[e].local > 0 /\ session[e].local \in Nat
        BY <1>1, <1>2, <3>1 DEF SendData, CanSend, SessionState
      <4>2. [pc |-> "spend", loaded |-> session[e].local] \in SenderState
        BY <4>1 DEF SenderState
      <4>3. sender' = [sender EXCEPT ![e] = [pc |-> "spend", loaded |-> session[e].local]]
        BY <1>2, <3>1 DEF SendData
      <4> QED
        BY <4>1, <4>2, <4>3 DEF TypeInv, TypeOK
    <3>2. CASE ~session[e].cbfc
      BY <1>2, <3>2, EndTypes DEF SendData, Carried, TypeInv, TypeOK
    <3> QED
      BY <3>1, <3>2
  <2>6. UNCHANGED <<session, main, reader, recv, peer, lost, given>>
    BY <1>2 DEF SendData
  <2>7. OnlyEnd(e) /\ Carried(session'[e], main'[e], sender'[e], recv'[e])
    BY <2>5, <2>6, EndTypes DEF OnlyEnd, Carried
  <2> QED
    BY <2>3, <2>4, <2>5, <2>6, <2>7, EndType DEF TypeInv, TypeOK
<1>3. CASE SpendStore(e)
  <2>1. sender[e].loaded > 0
    BY <1>3, EndTypes DEF SpendStore, Carried
  <2>2. session' \in [End -> SessionState] /\ session'[e].remote = session[e].remote
    <3>1. sender[e].loaded - 1 \in Nat
      BY <1>1, <2>1 DEF SenderState
    <3> QED
      BY <1>1, <1>3, <3>1 DEF SpendStore, SessionState, TypeInv, TypeOK
  <2>3. sender' \in [End -> SenderState] /\ sender'[e].pc = "idle"
    BY <1>3 DEF SpendStore, SenderState, TypeInv, TypeOK
  <2>4. UNCHANGED <<main, reader, recv, peer, link, lost, used, given>> /\ OnlyEnd(e)
    BY <1>3 DEF SpendStore, OnlyEnd, TypeInv, TypeOK
  <2>5. Carried(session'[e], main'[e], sender'[e], recv'[e])
    BY <2>2, <2>3, <2>4, EndTypes DEF Carried
  <2> QED
    BY <2>2, <2>3, <2>4, <2>5, EndType DEF TypeInv, TypeOK
<1> QED
  BY <1>2, <1>3

LEMMA ReaderType ==
    ASSUME TypeInv, NEW e \in End,
           Receive(e) \/ ReceiveWake(e) \/ ReceiveFails(e) \/ Copy(e)
    PROVE  TypeInv'
<1>1. session[e] \in SessionState /\ reader[e] \in ReaderState
  BY EndTypes
<1>2. ASSUME NEW pc \in {"idle", "wait", "copy"}, NEW max \in {0} \cup ReadSizes,
             NEW copied \in Nat, Reading(e, pc, max, copied)
      PROVE  reader' \in [End -> ReaderState]
  BY <1>2 DEF Reading, ReaderState, TypeInv, TypeOK
<1>3. reader' \in [End -> ReaderState]
  <2>1. reader[e].max \in {0} \cup ReadSizes /\ reader[e].copied + 1 \in Nat
    BY <1>1 DEF ReaderState
  <2>2. CASE Receive(e)
    BY <1>2, <2>2 DEF Receive
  <2>3. CASE ReceiveWake(e)
    BY <1>2, <2>1, <2>3 DEF ReceiveWake
  <2>4. CASE ReceiveFails(e)
    BY <1>2, <2>4 DEF ReceiveFails
  <2>5. CASE Copy(e)
    BY <1>2, <2>1, <2>5 DEF Copy
  <2> QED
    BY <2>2, <2>3, <2>4, <2>5
<1>4. /\ session' \in [End -> SessionState] /\ session'[e].remote = session[e].remote
      /\ given' \in [End -> Nat]
      /\ \A d \in End : d # e => session'[d] = session[d]
  <2>1. CASE Receive(e) \/ ReceiveFails(e)
    BY <2>1 DEF Receive, ReceiveFails, TypeInv, TypeOK
  <2>2. CASE ReceiveWake(e)
    BY <1>1, <2>2, UnitTaken DEF ReceiveWake, TypeInv, TypeOK
  <2>3. CASE Copy(e)
    <3>1. CASE UNCHANGED <<session, given>>
      BY <3>1 DEF TypeInv, TypeOK
    <3>2. CASE /\ given' = [given EXCEPT ![e] = session[e].ring[session[e].tail % RingSize]]
               /\ session' = [session EXCEPT ![e].tail = (@ + 1) % Width]
      <4>1. session[e].tail \in Counter
        BY <1>1 DEF SessionState
      <4>2. session[e].tail % RingSize \in Slot /\ (session[e].tail + 1) % Width \in Counter
        BY <4>1, RingAssumption DEF Counter, Slot
      <4> QED
        BY <1>1, <3>2, <4>2 DEF SessionState, TypeInv, TypeOK
    <3> QED
      BY <2>3, <3>1, <3>2 DEF Copy
  <2> QED
    BY <2>1, <2>2, <2>3
<1>5. UNCHANGED <<main, sender, recv, peer, link, lost, used>>
  BY DEF Receive, ReceiveWake, ReceiveFails, Copy
<1>6. OnlyEnd(e) /\ Carried(session'[e], main'[e], sender'[e], recv'[e])
  BY <1>4, <1>5, EndTypes DEF OnlyEnd, Carried
<1> QED
  BY <1>3, <1>4, <1>5, <1>6, EndType DEF TypeInv, TypeOK

----------------------------------------------------------------------------
\* The receive thread

LEMMA HandledType ==
    ASSUME NEW e \in End, NEW r \in SessionState, NEW f \in Frame
    PROVE  Handled(e, r, f) \in SessionState /\ Handled(e, r, f).remote = r.remote
<1> DlciState = {"CLOSED", "OPENING", "OPEN", "CLOSING"} /\ 0 \in Counter
  BY RingAssumption DEF DlciState, Counter
<1>1. /\ [r EXCEPT !.mux = FALSE] \in SessionState
      /\ [r EXCEPT !.mux = FALSE].remote = r.remote
  BY DEF SessionState
<1>2. \A b \in BOOLEAN :
         /\ [r EXCEPT !.mux = b, !.muxUnits = @ + 1] \in SessionState
         /\ [r EXCEPT !.mux = b, !.muxUnits = @ + 1].remote = r.remote
  <2>1. r.muxUnits + 1 \in Nat
    BY DEF SessionState
  <2> QED
    BY <2>1 DEF SessionState
<1>3. ASSUME NEW state \in DlciState
      PROVE  /\ Release([r EXCEPT !.state = state]) \in SessionState
             /\ Release([r EXCEPT !.state = state]).remote = r.remote
  <2>1. /\ [r EXCEPT !.state = state] \in SessionState
        /\ [r EXCEPT !.state = state].remote = r.remote
    BY StateType
  <2> QED
    BY <2>1, SemType
<1>4. HandleUa(r, f) \in SessionState /\ HandleUa(r, f).remote = r.remote
  BY <1>2, <1>3 DEF HandleUa
<1>5. HandleDm(r, f) \in SessionState /\ HandleDm(r, f).remote = r.remote
  BY <1>2, <1>3 DEF HandleDm
<1>6. HandleDisc(r, f) \in SessionState /\ HandleDisc(r, f).remote = r.remote
  BY <1>1, <1>3 DEF HandleDisc
<1>7. HandleSabm(e, r, f) \in SessionState /\ HandleSabm(e, r, f).remote = r.remote
  <2> DEFINE c == IF r.sem THEN r ELSE CreateSem(r)
             n == IF e = "R" THEN c.chanUnits + 1 ELSE c.chanUnits
             o == [c EXCEPT !.state = "OPEN", !.head = 0, !.tail = 0, !.chan = TRUE,
                            !.chanUnits = n]
  <2>1. c \in SessionState /\ c.remote = r.remote
    BY SemType
  <2>2. f.dlci # 0 => HandleSabm(e, r, f) = o
    BY DEF HandleSabm
  <2>3. n \in Nat
    <3> HIDE DEF c
    <3> QED
      BY <2>1 DEF SessionState
  <2> HIDE DEF c, n
  <2>4. o \in SessionState /\ o.remote = c.remote
    BY <2>1, <2>3 DEF SessionState
  <2> HIDE DEF o
  <2>5. CASE f.dlci # 0
    BY <2>1, <2>2, <2>4, <2>5
  <2>6. CASE f.dlci = 0
    BY <1>2, <2>6 DEF HandleSabm
  <2> QED
    BY <2>5, <2>6
<1>8. CASE f.kind = "PN"
  <2> DEFINE c == IF f.cbfc THEN [r EXCEPT !.cbfc = TRUE, !.local = f.credits] ELSE r
  <2>1. f.credits \in Nat
    BY <1>8, FrameKinds DEF Negotiation
  <2>2. c \in SessionState /\ c.remote = r.remote
    BY <2>1 DEF SessionState
  <2>3. HandlePnResponse(r, f) = Release(c)
    BY DEF HandlePnResponse
  <2> HIDE DEF c
  <2> QED
    BY <1>8, <2>2, <2>3, SemType DEF Handled
<1>9. CASE f.kind # "PN"
  BY <1>4, <1>5, <1>6, <1>7, <1>9 DEF Handled
<1> QED
  BY <1>8, <1>9

LEMMA AnswerType ==
    ASSUME NEW f \in Frame
    PROVE  Answer(f) \in Seq(Frame)
<1>1. f.kind \in {"DISC", "SABM"} => f.dlci \in {0, 1}
  BY FrameKinds DEF Control
<1>2. f.kind \in {"DISC", "SABM"} => Ctl("UA", f.dlci) \in Frame
  BY <1>1, FrameKinds
<1>3. PnResponse(FALSE, 0) \in Frame
  BY FrameKinds
<1>4. << >> \in Seq(Frame) /\ \A g \in Frame : << g >> \in Seq(Frame)
  OBVIOUS
<1>5. << PnResponse(FALSE, 0) >> \in Seq(Frame)
  BY <1>3, <1>4, Zenon
<1>6. f.kind \in {"DISC", "SABM"} => << Ctl("UA", f.dlci) >> \in Seq(Frame)
  BY <1>2, <1>4
<1> QED
  BY <1>4, <1>5, <1>6 DEF Answer

\* What the receive thread may carry next to the session s
Sound(s, v) ==
    /\ v.pc # "none"
    /\ v.pc \in {"credit", "spent"} => v.loaded >= 0
    /\ v.pc = "grant" => v.loaded >= -1
    /\ v.pc \notin {"low", "grant"} => s.remote >= 0
    /\ s.remote >= -1

At(pc, first, left, n) == [pc |-> pc, first |-> first, left |-> left, loaded |-> n]

\* A step of the receive thread that writes its own place, and the session
LEMMA ReceivingType ==
    ASSUME TypeInv, NEW e \in End, recv[e].pc # "none",
           NEW s \in SessionState, session' = [session EXCEPT ![e] = s],
           NEW v \in RecvState, recv' = [recv EXCEPT ![e] = v],
           Sound(s, v),
           link' \in [End -> Seq(Frame)],
           UNCHANGED <<main, sender, reader, peer, lost, used, given>>
    PROVE  TypeInv'
<1>1. /\ session' \in [End -> SessionState] /\ recv' \in [End -> RecvState]
      /\ session'[e] = s /\ recv'[e] = v /\ OnlyEnd(e)
  BY DEF TypeInv, TypeOK, OnlyEnd
<1>2. Carried(s, main[e], sender[e], v)
  BY EndTypes DEF Carried, Sound
<1> QED
  BY <1>1, <1>2, EndType DEF TypeInv, TypeOK

\* Its next place is typed.
LEMMA AtNothing ==
    /\ At("recv", 0, 0, 0) \in RecvState /\ At("used", 0, 0, 0) \in RecvState
    /\ At("low", 0, 0, 0) \in RecvState /\ At("ended", 0, 0, 0) \in RecvState
BY BoundAssumption DEF RecvState, At

LEMMA RecvFrameType ==
    ASSUME TypeInv, NEW e \in End, RecvFrame(e)
    PROVE  TypeInv'
<1> DEFINE f == Head(link[e])
           r == session[e]
           s == Handled(e, r, f)
<1>1. /\ link[e] \in Seq(Frame) /\ link[e] # << >> /\ OtherEnd(e) \in End
      /\ r \in SessionState /\ recv[e] \in RecvState /\ recv[e].pc = "recv"
      /\ r.remote \in Nat
  BY EndTypes, SMTT(20) DEF RecvFrame, Carried, SessionState
<1>2. f \in Frame /\ Tail(link[e]) \in Seq(Frame)
  BY <1>1
<1>3. s \in SessionState /\ s.remote = r.remote
  BY <1>1, <1>2, HandledType
<1>4. link' \in [End -> Seq(Frame)]
  <2>1. link[OtherEnd(e)] \o Answer(f) \in Seq(Frame) /\ link[OtherEnd(e)] \in Seq(Frame)
    <3>1. link[OtherEnd(e)] \in Seq(Frame) /\ Answer(f) \in Seq(Frame)
      BY <1>1, <1>2, AnswerType, EndTypes
    <3> QED
      BY <3>1
  <2>2. OtherEnd(e) # e
    BY DEF OtherEnd
  <2> HIDE DEF f
  <2>3. link' = [link EXCEPT ![e] = Tail(link[e]),
                      ![OtherEnd(e)] = IF Up THEN link[OtherEnd(e)] \o Answer(f)
                                       ELSE link[OtherEnd(e)]]
    BY <1>1, <2>2 DEF RecvFrame, TypeInv, TypeOK, f
  <2> QED
    BY <1>1, <1>2, <2>1, <2>3 DEF TypeInv, TypeOK
<1>5. /\ session' = [session EXCEPT ![e] = s]
      /\ UNCHANGED <<main, sender, reader, peer, lost, used, given>>
  BY DEF RecvFrame
<1>6. \/ UNCHANGED recv
      \/ /\ f.kind = "UIH"
         /\ \/ Receiving(e, "credit", f.first, f.len, r.local + f.credits)
            \/ Receiving(e, AfterCredits(r, f.len), f.first, f.len, 0)
  BY DEF RecvFrame, Receiving
<1>7. f.kind = "UIH" => /\ f.first \in Nat /\ f.len \in 0 .. MaxFrame
                        /\ r.local + f.credits \in Nat
                        /\ AfterCredits(r, f.len) \in {"enqueue", "used", "recv"}
  BY <1>1, <1>2, FrameKinds, SMTT(20) DEF Uih, SessionState, AfterCredits
<1>8. \E v \in RecvState : recv' = [recv EXCEPT ![e] = v] /\ Sound(s, v)
  <2>1. s.remote >= 0 /\ s.remote >= -1
    BY <1>1, <1>3
  <2> HIDE DEF s, f, r
  <2>2. CASE UNCHANGED recv
    <3>1. Sound(s, recv[e])
      BY <1>1, <2>1 DEF Sound
    <3> QED
      BY <1>1, <2>2, <3>1 DEF TypeInv, TypeOK
  <2>3. CASE f.kind = "UIH" /\ Receiving(e, "credit", f.first, f.len, r.local + f.credits)
    <3> DEFINE v == At("credit", f.first, f.len, r.local + f.credits)
    <3>1. v \in RecvState /\ v.pc = "credit" /\ v.loaded \in Nat
      BY <1>7, <2>3 DEF RecvState, At
    <3>2. recv' = [recv EXCEPT ![e] = v]
      BY <2>3 DEF Receiving, At
    <3> HIDE DEF v
    <3>3. Sound(s, v)
      BY <2>1, <3>1 DEF Sound
    <3> QED
      BY <3>1, <3>2, <3>3
  <2>4. CASE f.kind = "UIH" /\ Receiving(e, AfterCredits(r, f.len), f.first, f.len, 0)
    <3> DEFINE v == At(AfterCredits(r, f.len), f.first, f.len, 0)
    <3>1. v \in RecvState /\ v.pc \in {"enqueue", "used", "recv"}
      BY <1>7, <2>4 DEF RecvState, At
    <3>2. recv' = [recv EXCEPT ![e] = v]
      BY <2>4 DEF Receiving, At
    <3> HIDE DEF v
    <3>3. Sound(s, v)
      BY <2>1, <3>1 DEF Sound
    <3> QED
      BY <3>1, <3>2, <3>3
  <2> QED
    BY <1>6, <2>2, <2>3, <2>4
<1> HIDE DEF s, f, r
<1> QED
  BY <1>1, <1>3, <1>4, <1>5, <1>8, ReceivingType

LEMMA CreditsType ==
    ASSUME TypeInv, NEW e \in End,
           CreditStore(e) \/ UsedLoad(e) \/ UsedStore(e) \/ LowGrant(e) \/ LowStore(e)
    PROVE  TypeInv'
<1>1. /\ session[e] \in SessionState /\ recv[e] \in RecvState
      /\ Carried(session[e], main[e], sender[e], recv[e])
  BY EndTypes
<1>2. /\ recv[e].first \in Nat /\ recv[e].left \in 0 .. MaxFrame
      /\ recv[e].loaded \in Int /\ session[e].remote \in Int
      /\ MaxFrame \in Nat /\ session[e].remote >= -1
  BY <1>1, BoundAssumption DEF RecvState, SessionState, Carried
<1>3. recv[e].pc # "none"
  BY DEF CreditStore, UsedLoad, UsedStore, LowGrant, LowStore
<1>4. ASSUME NEW n \in Int
      PROVE  /\ [session[e] EXCEPT !.remote = n] \in SessionState
             /\ [session[e] EXCEPT !.remote = n].remote = n
  BY <1>1 DEF SessionState
<1>5. link \in [End -> Seq(Frame)] /\ session = [session EXCEPT ![e] = session[e]]
  BY <1>1 DEF TypeInv, TypeOK
<1>6. SUFFICES
        /\ \E s \in SessionState, v \in RecvState :
              /\ session' = [session EXCEPT ![e] = s]
              /\ recv' = [recv EXCEPT ![e] = v]
              /\ Sound(s, v)
        /\ link' \in [End -> Seq(Frame)]
  <2>1. UNCHANGED <<main, sender, reader, peer, lost, used, given>>
    BY DEF CreditStore, UsedLoad, UsedStore, LowGrant, LowStore
  <2> QED
    BY <1>3, <1>6, <2>1, ReceivingType
<1>7. CASE CreditStore(e)
  <2> DEFINE s == [session[e] EXCEPT !.local = recv[e].loaded]
             v == At(AfterCredits(session[e], recv[e].left), recv[e].first, recv[e].left, 0)
  <2>1. recv[e].loaded \in Nat /\ session[e].remote >= 0
    BY <1>1, <1>2, <1>7 DEF CreditStore, Carried
  <2>2. s \in SessionState /\ s.remote >= 0 /\ s.remote >= -1
    BY <1>1, <1>2, <2>1 DEF SessionState
  <2>3. v \in RecvState /\ v.pc \in {"enqueue", "used", "recv"}
    BY <1>2 DEF RecvState, At, AfterCredits
  <2>4. session' = [session EXCEPT ![e] = s] /\ recv' = [recv EXCEPT ![e] = v]
    BY <1>7 DEF CreditStore, Receiving, At
  <2> HIDE DEF s, v
  <2>5. Sound(s, v)
    BY <2>2, <2>3 DEF Sound
  <2> QED
    BY <1>5, <1>7, <2>2, <2>3, <2>4, <2>5 DEF CreditStore
<1>8. CASE UsedLoad(e)
  <2> DEFINE v == At("spent", 0, 0, session[e].remote)
  <2>1. session[e].remote >= 0
    BY <1>1, <1>8 DEF UsedLoad, Carried
  <2>2. v \in RecvState /\ v.pc = "spent" /\ v.loaded = session[e].remote
    BY <1>2 DEF RecvState, At
  <2>3. session' = [session EXCEPT ![e] = session[e]] /\ recv' = [recv EXCEPT ![e] = v]
    BY <1>5, <1>8 DEF UsedLoad, Receiving, At
  <2> HIDE DEF v
  <2>4. Sound(session[e], v)
    BY <1>2, <2>1, <2>2 DEF Sound
  <2> QED
    BY <1>1, <1>5, <1>8, <2>2, <2>3, <2>4 DEF UsedLoad
<1>9. CASE UsedStore(e)
  <2> DEFINE s == [session[e] EXCEPT !.remote = recv[e].loaded - 1]
             v == At("low", 0, 0, 0)
  <2>1. recv[e].loaded - 1 >= -1 /\ recv[e].loaded - 1 \in Int
    BY <1>1, <1>2, <1>9 DEF UsedStore, Carried
  <2>2. s \in SessionState /\ s.remote = recv[e].loaded - 1
    BY <1>4, <2>1
  <2>3. v \in RecvState /\ v.pc = "low"
    BY AtNothing DEF At
  <2>4. session' = [session EXCEPT ![e] = s] /\ recv' = [recv EXCEPT ![e] = v]
    BY <1>9 DEF UsedStore, Receiving, At, Spent
  <2> HIDE DEF s, v
  <2>5. Sound(s, v)
    BY <2>1, <2>2, <2>3 DEF Sound
  <2> QED
    BY <1>5, <1>9, <2>2, <2>3, <2>4, <2>5 DEF UsedStore
<1>10. CASE LowGrant(e)
  <2>1. session' = [session EXCEPT ![e] = session[e]]
    BY <1>5, <1>10 DEF LowGrant
  <2>2. CASE session[e].remote > Low /\ Receiving(e, "recv", 0, 0, 0) /\ UNCHANGED link
    <3> DEFINE v == At("recv", 0, 0, 0)
    <3>1. v \in RecvState /\ v.pc = "recv"
      BY AtNothing DEF At
    <3>2. recv' = [recv EXCEPT ![e] = v]
      BY <2>2 DEF Receiving, At
    <3>3. session[e].remote >= 0
      BY <1>2, <2>2, CreditAssumption
    <3> HIDE DEF v
    <3>4. Sound(session[e], v)
      BY <1>2, <3>1, <3>3 DEF Sound
    <3> QED
      BY <1>1, <1>5, <2>1, <2>2, <3>1, <3>2, <3>4
  <2>3. CASE /\ SendFrame(e, CreditFrame(Grant))
             /\ Receiving(e, "grant", 0, 0, session[e].remote)
    <3> DEFINE v == At("grant", 0, 0, session[e].remote)
    <3>1. v \in RecvState /\ v.pc = "grant" /\ v.loaded = session[e].remote
      BY <1>2 DEF RecvState, At
    <3>2. recv' = [recv EXCEPT ![e] = v]
      BY <2>3 DEF Receiving, At
    <3> HIDE DEF v
    <3>3. Sound(session[e], v)
      BY <1>2, <3>1 DEF Sound
    <3>4. link' \in [End -> Seq(Frame)]
      BY <1>5, <2>3, FrameKinds, CreditAssumption, SendFrameType
    <3> QED
      BY <1>1, <2>1, <3>1, <3>2, <3>3, <3>4
  <2> QED
    BY <1>10, <2>2, <2>3 DEF LowGrant
<1>11. CASE LowStore(e)
  <2> DEFINE s == [session[e] EXCEPT !.remote = recv[e].loaded + Grant]
             v == At("recv", 0, 0, 0)
  <2>1. recv[e].loaded + Grant \in Int /\ recv[e].loaded + Grant >= 0
    BY <1>1, <1>2, <1>11, CreditAssumption DEF LowStore, Carried
  <2>2. s \in SessionState /\ s.remote = recv[e].loaded + Grant
    BY <1>4, <2>1
  <2>3. v \in RecvState /\ v.pc = "recv"
    BY AtNothing DEF At
  <2>4. session' = [session EXCEPT ![e] = s] /\ recv' = [recv EXCEPT ![e] = v]
    BY <1>11 DEF LowStore, Receiving, At
  <2> HIDE DEF s, v
  <2>5. Sound(s, v)
    BY <2>1, <2>2, <2>3 DEF Sound
  <2> QED
    BY <1>5, <1>11, <2>2, <2>3, <2>4, <2>5 DEF LowStore
<1> QED
  BY <1>7, <1>8, <1>9, <1>10, <1>11

LEMMA EnqueueType ==
    ASSUME TypeInv, NEW e \in End, Enqueue(e) \/ RecvEnd(e)
    PROVE  TypeInv'
<1>1. session[e] \in SessionState /\ recv[e] \in RecvState /\ session[e].remote >= 0
  BY EndTypes DEF Enqueue, RecvEnd, Carried
<1>2. /\ recv[e].first \in Nat /\ recv[e].left \in 0 .. MaxFrame
      /\ session[e].remote \in Nat /\ session[e].head \in 0 .. Width - 1
      /\ session[e].ring \in [Slot -> Nat]
      /\ MaxFrame \in Nat
  BY <1>1, BoundAssumption DEF RecvState, SessionState, Counter
<1>3. SUFFICES
        \E s \in SessionState, v \in RecvState :
           /\ session' = [session EXCEPT ![e] = s]
           /\ recv' = [recv EXCEPT ![e] = v]
           /\ s.remote = session[e].remote
           /\ v.pc \in {"enqueue", "used", "recv", "ended"}
  <2>1. /\ recv[e].pc # "none"
        /\ UNCHANGED <<main, sender, reader, peer, link, lost, used, given>>
    BY DEF Enqueue, RecvEnd
  <2>2. link' \in [End -> Seq(Frame)]
    BY <2>1 DEF TypeInv, TypeOK
  <2>3. PICK s \in SessionState, v \in RecvState :
           /\ session' = [session EXCEPT ![e] = s]
           /\ recv' = [recv EXCEPT ![e] = v]
           /\ s.remote = session[e].remote
           /\ v.pc \in {"enqueue", "used", "recv", "ended"}
    BY <1>3
  <2>4. Sound(s, v)
    BY <1>2, <2>3 DEF Sound
  <2> QED
    BY <2>1, <2>2, <2>3, <2>4, ReceivingType
<1>4. CASE /\ Enqueue(e)
           /\ recv[e].left > 0
           /\ session' = [session EXCEPT
                  ![e].ring[session[e].head % RingSize] = recv[e].first,
                  ![e].head = (@ + 1) % Width]
           /\ Receiving(e, "enqueue", recv[e].first + 1, recv[e].left - 1, 0)
  <2> DEFINE ring == [session[e].ring EXCEPT ![session[e].head % RingSize] = recv[e].first]
             head == (session[e].head + 1) % Width
             s == [session[e] EXCEPT !.ring = ring, !.head = head]
             v == At("enqueue", recv[e].first + 1, recv[e].left - 1, 0)
  <2>1. session' = [session EXCEPT ![e] = s]
    BY <1>1, <1>4 DEF TypeInv, TypeOK, SessionState
  <2>2. head \in Counter
    BY <1>2, RingAssumption DEF Counter
  <2>3. ring \in [Slot -> Nat]
    BY <1>2
  <2> HIDE DEF ring, head
  <2>4. s \in SessionState /\ s.remote = session[e].remote
    BY <1>1, <2>2, <2>3 DEF SessionState
  <2>5. recv[e].first + 1 \in Nat /\ recv[e].left - 1 \in 0 .. MaxFrame
    BY <1>2, <1>4
  <2>6. v \in RecvState /\ v.pc = "enqueue"
    BY <2>5 DEF RecvState, At
  <2>7. recv' = [recv EXCEPT ![e] = v]
    BY <1>4 DEF Receiving, At
  <2> HIDE DEF s, v
  <2> QED
    BY <2>1, <2>4, <2>6, <2>7
<1>5. CASE /\ session' = [session EXCEPT ![e] = Wake(session[e])]
           /\ \/ Receiving(e, "used", 0, 0, 0)
              \/ Receiving(e, "recv", 0, 0, 0)
  <2>1. Wake(session[e]) \in SessionState /\ Wake(session[e]).remote = session[e].remote
    BY <1>1, SemType DEF Wake
  <2>2. PICK pc \in {"used", "recv"} : Receiving(e, pc, 0, 0, 0)
    BY <1>5
  <2>3. At(pc, 0, 0, 0) \in RecvState /\ At(pc, 0, 0, 0).pc \in {"used", "recv"}
    BY <2>2, AtNothing DEF At
  <2>4. recv' = [recv EXCEPT ![e] = At(pc, 0, 0, 0)]
    BY <2>2 DEF Receiving, At
  <2> QED
    BY <1>5, <2>1, <2>3, <2>4
<1>6. CASE RecvEnd(e)
  <2> DEFINE r == Release(session[e])
             s == [r EXCEPT !.muxUnits = @ + 1, !.chanUnits = IF e = "R" THEN @ + 1 ELSE @]
             v == At("ended", 0, 0, 0)
  <2>1. r \in SessionState /\ r.remote = session[e].remote
    BY <1>1, SemType
  <2>2. session' = [session EXCEPT ![e] = s]
    BY <1>6 DEF RecvEnd
  <2>3. recv' = [recv EXCEPT ![e] = v]
    BY <1>6 DEF RecvEnd, Receiving, At
  <2>4. v \in RecvState /\ v.pc = "ended"
    BY AtNothing DEF At
  <2> HIDE DEF r, v
  <2>5. s \in SessionState /\ s.remote = r.remote
    <3>1. /\ [r EXCEPT !.muxUnits = @ + 1] \in SessionState
          /\ r.chanUnits + 1 \in Nat
      BY <2>1 DEF SessionState
    <3> QED
      BY <2>1, <3>1 DEF SessionState
  <2> HIDE DEF s
  <2> QED
    BY <2>1, <2>2, <2>3, <2>4, <2>5
<1> QED
  BY <1>4, <1>5, <1>6 DEF Enqueue

----------------------------------------------------------------------------
\* The other stack, and the connection

LEMMA ForeignType ==
    ASSUME TypeInv, ForeignReceive \/ ForeignSend \/ ForeignClose \/ LinkLost
    PROVE  TypeInv'
<1> DEFINE PeerState == [foreign : BOOLEAN, open : BOOLEAN, cbfc : BOOLEAN, credits : Nat]
           Used == [sent : [End -> Nat], grants : 0 .. MaxGrants]
<1>1. /\ peer \in PeerState /\ used \in Used /\ link \in [End -> Seq(Frame)]
      /\ MaxGrants \in Nat /\ MaxFrame \in Nat
  BY BoundAssumption DEF TypeInv, TypeOK
<1>2. UNCHANGED <<session, main, sender, reader, recv, given>>
  BY DEF ForeignReceive, ForeignSend, ForeignClose, LinkLost
<1>3. SUFFICES /\ peer' \in PeerState /\ used' \in Used
               /\ link' \in [End -> Seq(Frame)]
               /\ lost' \in BOOLEAN
  BY <1>2 DEF TypeInv, TypeOK
<1>4. CASE ForeignReceive
  <2> DEFINE f == Head(link["R"])
  <2>1. link["R"] \in Seq(Frame) /\ link["I"] \in Seq(Frame) /\ link["R"] # << >>
    BY <1>1, <1>4 DEF ForeignReceive
  <2>2. f \in Frame /\ Tail(link["R"]) \in Seq(Frame)
    BY <2>1
  <2>3. << >> \in Seq(Frame) /\ \A g \in Frame : << g >> \in Seq(Frame)
    OBVIOUS
  <2>4. SUFFICES
          /\ \E answer \in Seq(Frame) :
                link' = [link EXCEPT !["R"] = Tail(@), !["I"] = @ \o answer]
          /\ peer' \in PeerState /\ used' \in Used
    <3>1. ASSUME NEW answer \in Seq(Frame) PROVE link["I"] \o answer \in Seq(Frame)
      BY <2>1
    <3>2. link' \in [End -> Seq(Frame)]
      BY <1>1, <2>2, <2>4, <3>1
    <3>3. lost' \in BOOLEAN
      BY <1>4 DEF ForeignReceive, TypeInv, TypeOK
    <3> QED
      BY <2>4, <3>2, <3>3
  <2>5. f.kind \in {"SABM", "DISC"} => f.dlci \in {0, 1}
    BY <2>2, FrameKinds DEF Control
  <2>6. \A kind \in {"UA", "DM"}, d \in {0, 1} : << Ctl(kind, d) >> \in Seq(Frame)
    BY <2>3, FrameKinds
  <2>7. \A b \in BOOLEAN, n \in Nat : << PnResponse(b, n) >> \in Seq(Frame)
    BY <2>3, FrameKinds
  <2> HIDE DEF f
  <2>8. CASE f.kind = "SABM"
    BY <1>1, <1>4, <2>5, <2>6, <2>8 DEF ForeignReceive, f
  <2>9. CASE f.kind = "DISC"
    BY <1>1, <1>4, <2>5, <2>6, <2>9 DEF ForeignReceive, f
  <2>10. CASE f.kind = "PN"
    <3>1. f.credits \in Nat
      BY <2>2, <2>10, FrameKinds DEF Negotiation
    <3>2. \/ \E n \in 0 .. MaxGrants - used.grants :
                /\ link' = [link EXCEPT !["R"] = Tail(@), !["I"] = @ \o << PnResponse(TRUE, n) >>]
                /\ used' = [used EXCEPT !.grants = @ + n]
                /\ peer' = [peer EXCEPT !.cbfc = TRUE, !.credits = f.credits]
             /\ peer' = [peer EXCEPT !.cbfc = TRUE, !.credits = f.credits]
          \/ /\ \E a \in {PnResponse(FALSE, 0), Ctl("DM", 1)} :
                   link' = [link EXCEPT !["R"] = Tail(@), !["I"] = @ \o << a >>]
             /\ UNCHANGED <<peer, used>>
      BY <1>4, <2>10 DEF ForeignReceive, f
    <3>3. ASSUME NEW n \in 0 .. MaxGrants - used.grants
          PROVE  [used EXCEPT !.grants = @ + n] \in Used
      <4>1. used.grants + n \in 0 .. MaxGrants
        BY <1>1
      <4> QED
        BY <1>1, <4>1
    <3>4. [peer EXCEPT !.cbfc = TRUE, !.credits = f.credits] \in PeerState
      BY <1>1, <3>1
    <3>5. ASSUME NEW n \in 0 .. MaxGrants - used.grants
          PROVE  << PnResponse(TRUE, n) >> \in Seq(Frame)
      <4>1. n \in Nat
        BY <1>1
      <4> QED
        BY <4>1, <2>7
    <3>6. \A a \in {PnResponse(FALSE, 0), Ctl("DM", 1)} : << a >> \in Seq(Frame)
      BY <2>3, FrameKinds
    <3> QED
      BY <1>1, <1>4, <2>10, <3>2, <3>3, <3>4, <3>5, <3>6 DEF ForeignReceive, f
  <2>11. CASE f.kind \in {"UIH", "UA"}
    <3>1. f.kind = "UIH" => f.credits \in Nat
      BY <2>2, FrameKinds DEF Uih
    <3>2. f.kind = "UIH" => [peer EXCEPT !.credits = @ + f.credits] \in PeerState
      <4>1. f.kind = "UIH" => peer.credits + f.credits \in Nat
        BY <1>1, <3>1
      <4> QED
        BY <1>1, <4>1
    <3> QED
      BY <1>1, <1>4, <2>3, <2>11, <3>2 DEF ForeignReceive, f
  <2> QED
    BY <1>4, <2>8, <2>9, <2>10, <2>11 DEF ForeignReceive, f
<1>5. CASE ForeignSend
  <2>1. PICK n \in 0 .. MaxFrame, c \in 0 .. 1 :
          /\ used.grants + c <= MaxGrants
          /\ used' = [used EXCEPT !.sent["R"] = @ + n, !.grants = @ + c]
          /\ n > 0 /\ peer.cbfc => peer.credits > 0
          /\ peer' = IF n > 0 /\ peer.cbfc THEN [peer EXCEPT !.credits = @ - 1] ELSE peer
          /\ SendFrame("R", [kind |-> "UIH", credits |-> c,
                             first |-> IF n > 0 THEN used.sent["R"] + 1 ELSE 0, len |-> n])
    BY <1>5 DEF ForeignSend
  <2>2. /\ used.sent["R"] + n \in Nat /\ used.sent["R"] + 1 \in Nat
        /\ used.grants + c \in 0 .. MaxGrants
    BY <1>1, <2>1
  <2>3. peer' \in PeerState
    BY <1>1, <2>1, SMTT(20)
  <2>4. used' \in Used
    <3>1. used' = [used EXCEPT !.sent = [used.sent EXCEPT !["R"] = used.sent["R"] + n],
                               !.grants = used.grants + c]
      BY <2>1
    <3> QED
      BY <1>1, <2>2, <3>1
  <2>5. [kind |-> "UIH", credits |-> c,
         first |-> IF n > 0 THEN used.sent["R"] + 1 ELSE 0, len |-> n] \in Frame
    BY <2>2 DEF Frame, Uih
  <2>6. link' \in [End -> Seq(Frame)]
    BY <1>1, <2>1, <2>5, SendFrameType
  <2>7. lost' \in BOOLEAN
    BY <1>5 DEF ForeignSend, TypeInv, TypeOK
  <2> QED
    BY <2>3, <2>4, <2>6, <2>7
<1>6. CASE ForeignClose
  <2>1. link' \in [End -> Seq(Frame)]
    BY <1>1, <1>6, FrameKinds, SendFrameType DEF ForeignClose
  <2>2. peer' \in PeerState /\ used' \in Used /\ lost' \in BOOLEAN
    BY <1>1, <1>6 DEF ForeignClose, TypeInv, TypeOK
  <2> QED
    BY <2>1, <2>2
<1>7. CASE LinkLost
  <2>1. << >> \in Seq(Frame)
    OBVIOUS
  <2>2. link' \in [End -> Seq(Frame)]
    BY <1>1, <1>7, <2>1 DEF LinkLost
  <2>3. peer' \in PeerState /\ used' \in Used /\ lost' \in BOOLEAN
    BY <1>1, <1>7 DEF LinkLost
  <2> QED
    BY <2>2, <2>3
<1> QED
  BY <1>4, <1>5, <1>6, <1>7

----------------------------------------------------------------------------
\* Type correctness

LEMMA InitType == Init => TypeInv
<1> SUFFICES ASSUME Init PROVE TypeInv
  OBVIOUS
<1>1. NewSession \in SessionState /\ NewSession.remote = 0
  BY RingAssumption DEF NewSession, SessionState, DlciState, Counter
<1>2. MaxFrame \in Nat /\ MaxGrants \in Nat
  BY BoundAssumption
<1>3. << >> \in Seq(Frame)
  OBVIOUS
<1>4. peer \in [foreign : BOOLEAN, open : BOOLEAN, cbfc : BOOLEAN, credits : Nat]
  BY ForeignAssumption DEF Init
<1>5. session \in [End -> SessionState] /\ \A e \in End : session[e].remote = 0
  BY <1>1 DEF Init
<1>6. /\ main \in [End -> MainState] /\ sender \in [End -> SenderState]
      /\ reader \in [End -> ReaderState] /\ recv \in [End -> RecvState]
  BY <1>2 DEF Init, MainState, SenderState, ReaderState, RecvState
<1>7. /\ link \in [End -> Seq(Frame)] /\ lost \in BOOLEAN
      /\ used \in [sent : [End -> Nat], grants : 0 .. MaxGrants]
      /\ given \in [End -> Nat]
  <2>1. [e \in End |-> 0] \in [End -> Nat]
    OBVIOUS
  <2>2. used \in [sent : [End -> Nat], grants : 0 .. MaxGrants]
    BY <1>2, <2>1 DEF Init
  <2>3. link \in [End -> Seq(Frame)]
    BY <1>3 DEF Init
  <2> QED
    BY <2>1, <2>2, <2>3 DEF Init
<1>8. \A e \in End : Carried(session[e], main[e], sender[e], recv[e])
  BY <1>5 DEF Init, Carried
<1> QED
  BY <1>4, <1>5, <1>6, <1>7, <1>8 DEF TypeInv, TypeOK

LEMMA NextType == TypeInv /\ [Next]_vars => TypeInv'
<1> SUFFICES ASSUME TypeInv, [Next]_vars PROVE TypeInv'
  OBVIOUS
<1>1. CASE Connect \/ AcceptFrom
  BY <1>1, StartType
<1>2. CASE OpenChannel \/ PnWake
  BY <1>2, OpenType
<1>3. CASE UaWake \/ GrantStore
  BY <1>3, OpenedType
<1>4. CASE OpenTimeout \/ WaitForChannel
  BY <1>4, WakeType
<1>5. ASSUME NEW e \in End, MuxWake(e) \/ CloseWake(e) \/ DisconnectEnd(e)
      PROVE  TypeInv'
  BY <1>5, WakeType
<1>6. ASSUME NEW e \in End, CloseChannel(e) \/ Disconnect(e)
      PROVE  TypeInv'
  BY <1>6, CloseType
<1>7. ASSUME NEW e \in End, SendData(e) \/ SpendStore(e)
      PROVE  TypeInv'
  BY <1>7, SenderType
<1>8. ASSUME NEW e \in End, Receive(e) \/ ReceiveWake(e) \/ ReceiveFails(e) \/ Copy(e)
      PROVE  TypeInv'
  BY <1>8, ReaderType
<1>9. ASSUME NEW e \in End, RecvStep(e) \/ RecvEnd(e)
      PROVE  TypeInv'
  BY <1>9, RecvFrameType, CreditsType, EnqueueType DEF RecvStep
<1>10. CASE ForeignReceive \/ ForeignSend \/ ForeignClose \/ LinkLost
  BY <1>10, ForeignType
<1>11. CASE UNCHANGED vars
  <2>1. /\ session' = session /\ main' = main /\ sender' = sender /\ reader' = reader
        /\ recv' = recv /\ peer' = peer /\ link' = link /\ lost' = lost
        /\ used' = used /\ given' = given
    BY <1>11 DEF vars
  <2> QED
    BY <2>1 DEF TypeInv, TypeOK, Carried
<1> QED
  BY <1>1, <1>2, <1>3, <1>4, <1>5, <1>6, <1>7, <1>8, <1>9, <1>10, <1>11 DEF Next

LEMMA TypeInvariant == Spec => []TypeInv
BY InitType, NextType, PTL DEF Spec

\* Every variable of a session has its type, for any window and any bounds;
\* in particular no race of the credit counters' loads and stores makes
\* localCredits negative, or remoteCredits less than one below zero.
THEOREM TypeCorrect == Spec => []TypeOK
<1>1. TypeInv => TypeOK
  BY DEF TypeInv
<1> QED
  BY <1>1, TypeInvariant, PTL

----------------------------------------------------------------------------
\* Readers and the receive thread

\* Who is in Receive() has the channel: its owner has it open, or is closing
\* it and waits for the reader's end.
ReaderInv(e) ==
    reader[e].pc # "idle" => main[e].pc \in {"open", "disc", "leaving", "joining"}

\* It does not sleep, or what is there is nothing, or a unit is there or comes.
Awake(e) ==
    \/ reader[e].pc # "wait" \/ ~session[e].sem \/ Empty(session[e])
    \/ session[e].units > 0 \/ recv[e].pc = "enqueue"

SleepInv == \A e \in End : ReaderInv(e) /\ Awake(e)

LEMMA SleepStep ==
    ASSUME SleepInv, NEW e \in End, OnlyEnd(e),
           \A d \in End : d # e => reader'[d] = reader[d],
           ReaderInv(e)', Awake(e)'
    PROVE  SleepInv'
<1> SUFFICES ASSUME NEW d \in End PROVE (ReaderInv(d) /\ Awake(d))'
  BY DEF SleepInv
<1>1. CASE d = e
  BY <1>1
<1>2. CASE d # e
  BY <1>2 DEF SleepInv, OnlyEnd, ReaderInv, Awake, Empty
<1> QED
  BY <1>1, <1>2

\* The owner of a channel that is not open has no readers.
LEMMA MainSleep ==
    ASSUME TypeInv, SleepInv, NEW e \in End,
           \/ e = "I" /\ (Connect \/ OpenChannel \/ PnWake \/ UaWake \/ GrantStore
                          \/ OpenTimeout)
           \/ e = "R" /\ (AcceptFrom \/ WaitForChannel)
           \/ MuxWake(e) \/ DisconnectEnd(e)
    PROVE  SleepInv'
<1>1. reader[e].pc = "idle" /\ UNCHANGED <<sender, reader>>
  BY DEF SleepInv, ReaderInv, Connect, OpenChannel, PnWake, UaWake, GrantStore,
         OpenTimeout, AcceptFrom, WaitForChannel, MuxWake, DisconnectEnd
<1>2. OnlyEnd(e)
  BY <1>1 DEF OnlyEnd, Go, TypeInv, TypeOK, Connect, OpenChannel, PnWake, UaWake, GrantStore,
         OpenTimeout, AcceptFrom, WaitForChannel, MuxWake, DisconnectEnd
<1> QED
  BY <1>1, <1>2, SleepStep DEF ReaderInv, Awake

LEMMA CloseSleep ==
    ASSUME TypeInv, SleepInv, NEW e \in End,
           CloseChannel(e) \/ CloseWake(e) \/ Disconnect(e)
    PROVE  SleepInv'
<1>1. session[e] \in SessionState /\ UNCHANGED <<sender, reader, recv>>
  BY EndTypes DEF CloseChannel, CloseWake, Disconnect
<1>2. OnlyEnd(e)
  <2>1. CASE CloseChannel(e)
    BY <1>1, <2>1 DEF OnlyEnd, Go, TypeInv, TypeOK, CloseChannel
  <2>2. CASE CloseWake(e)
    BY <1>1, <2>2 DEF OnlyEnd, Go, TypeInv, TypeOK, CloseWake
  <2>3. CASE Disconnect(e)
    BY <1>1, <2>3 DEF OnlyEnd, Go, TypeInv, TypeOK, Disconnect
  <2> QED
    BY <2>1, <2>2, <2>3
<1>3. main'[e].pc \in {"open", "disc", "leaving", "joining"}
  BY DEF Go, TypeInv, TypeOK, CloseChannel, CloseWake, Disconnect
<1>4. \/ ~session'[e].sem
      \/ /\ session'[e].sem = session[e].sem /\ session'[e].units = session[e].units
         /\ session'[e].head = session[e].head /\ session'[e].tail = session[e].tail
  <2>1. CASE CloseChannel(e)
    <3>1. \/ session' = session
          \/ session' = [session EXCEPT ![e] = [session[e] EXCEPT !.state = "CLOSING"]]
      BY <2>1 DEF CloseChannel
    <3>2. session'[e] = session[e] \/ session'[e] = [session[e] EXCEPT !.state = "CLOSING"]
      BY <3>1 DEF TypeInv, TypeOK
    <3> QED
      BY <1>1, <3>2 DEF SessionState
  <2>2. CASE CloseWake(e)
    <3>1. session' = [session EXCEPT ![e] = [DeleteSem(session[e]) EXCEPT !.state = "CLOSED"]]
      BY <2>2 DEF CloseWake
    <3>2. session'[e] = [DeleteSem(session[e]) EXCEPT !.state = "CLOSED"]
      BY <3>1 DEF TypeInv, TypeOK
    <3>3. ~[DeleteSem(session[e]) EXCEPT !.state = "CLOSED"].sem
      BY <1>1 DEF SessionState, DeleteSem
    <3> QED
      BY <3>2, <3>3
  <2>3. CASE Disconnect(e)
    BY <1>1, <2>3 DEF SessionState, TypeInv, TypeOK, Disconnect
  <2> QED
    BY <2>1, <2>2, <2>3
<1> QED
  BY <1>1, <1>2, <1>3, <1>4, SleepStep DEF SleepInv, ReaderInv, Awake, Empty

LEMMA UserSleep ==
    ASSUME TypeInv, SleepInv, NEW e \in End,
           \/ SendData(e) \/ SpendStore(e)
           \/ Receive(e) \/ ReceiveWake(e) \/ ReceiveFails(e) \/ Copy(e)
    PROVE  SleepInv'
<1>1. /\ session[e] \in SessionState /\ UNCHANGED <<main, recv>>
      /\ session \in [End -> SessionState] /\ reader \in [End -> ReaderState]
      /\ sender \in [End -> SenderState]
  BY EndTypes DEF SendData, SpendStore, Receive, ReceiveWake, ReceiveFails, Copy,
                  TypeInv, TypeOK
<1>2. CASE SendData(e) \/ SpendStore(e)
  <2>1. UNCHANGED reader /\ OnlyEnd(e)
    BY <1>1, <1>2 DEF OnlyEnd, SendData, SpendStore
  <2>2. /\ session'[e].sem = session[e].sem /\ session'[e].units = session[e].units
        /\ session'[e].head = session[e].head /\ session'[e].tail = session[e].tail
    BY <1>1, <1>2 DEF SessionState, SendData, SpendStore
  <2> QED
    BY <1>1, <2>1, <2>2, SleepStep DEF SleepInv, ReaderInv, Awake, Empty
<1>3. CASE Receive(e)
  <2>1. UNCHANGED session /\ OnlyEnd(e) /\ main[e].pc \in {"open", "disc"}
    BY <1>1, <1>3 DEF OnlyEnd, Receive, InUse
  <2>2. \A d \in End : d # e => reader'[d] = reader[d]
    BY <1>1, <1>3 DEF Receive, Reading
  <2>3. reader'[e].pc = "wait" => Empty(session[e])
    BY <1>1, <1>3 DEF Receive, Reading
  <2> QED
    BY <1>1, <2>1, <2>2, <2>3, SleepStep DEF ReaderInv, Awake, Empty
<1>4. CASE ReceiveWake(e) \/ ReceiveFails(e) \/ Copy(e)
  <2>1. reader[e].pc # "idle" /\ UNCHANGED sender
    BY <1>4 DEF ReceiveWake, ReceiveFails, Copy
  <2>2. \A d \in End : d # e => session'[d] = session[d]
    BY <1>1, <1>4 DEF ReceiveWake, ReceiveFails, Copy
  <2>3. \A d \in End : d # e => reader'[d] = reader[d]
    BY <1>1, <1>4 DEF ReceiveWake, ReceiveFails, Copy, Reading
  <2>4. reader'[e].pc # "wait"
    BY <1>1, <1>4 DEF ReceiveWake, ReceiveFails, Copy, Reading
  <2> QED
    BY <1>1, <2>1, <2>2, <2>3, <2>4, SleepStep DEF OnlyEnd, SleepInv, ReaderInv, Awake
<1> QED
  BY <1>2, <1>3, <1>4

\* What the receive thread does with a frame takes no unit and puts nothing
\* into the ring: a reader that could wake still can.
LEMMA HandledAwake ==
    ASSUME NEW e \in End, NEW r \in SessionState, NEW f \in Frame,
           ~r.sem \/ Empty(r) \/ r.units > 0
    PROVE  LET h == Handled(e, r, f) IN ~h.sem \/ Empty(h) \/ h.units > 0
<1> DEFINE Good(h) == ~h.sem \/ Empty(h) \/ h.units > 0
<1>1. ASSUME NEW s \in SessionState, Good(s) PROVE Good(Release(s))
  BY <1>1 DEF Release, SessionState, Empty
<1>2. CASE f.kind = "UA"
  <2>1. \A s \in DlciState : Good([r EXCEPT !.state = s]) /\ [r EXCEPT !.state = s] \in SessionState
    BY DEF SessionState, Empty
  <2>2. Good([r EXCEPT !.mux = TRUE, !.muxUnits = @ + 1])
    BY DEF SessionState, Empty
  <2>3. Good(Release([r EXCEPT !.state = "OPEN"]))
        /\ Good(Release([r EXCEPT !.state = "CLOSED"]))
    BY <1>1, <2>1 DEF DlciState
  <2>4. \/ HandleUa(r, f) = [r EXCEPT !.mux = TRUE, !.muxUnits = @ + 1]
        \/ HandleUa(r, f) = Release([r EXCEPT !.state = "OPEN"])
        \/ HandleUa(r, f) = Release([r EXCEPT !.state = "CLOSED"])
        \/ HandleUa(r, f) = r
    BY DEF HandleUa
  <2>5. Good(HandleUa(r, f))
    BY <2>2, <2>3, <2>4
  <2> QED
    BY <1>2, <2>5 DEF Handled
<1>3. CASE f.kind = "DM"
  <2>1. \A s \in DlciState : Good([r EXCEPT !.state = s]) /\ [r EXCEPT !.state = s] \in SessionState
    BY DEF SessionState, Empty
  <2>2. Good([r EXCEPT !.mux = FALSE, !.muxUnits = @ + 1])
    BY DEF SessionState, Empty
  <2>3. Good(HandleDm(r, f))
    BY <1>1, <2>1, <2>2 DEF HandleDm, DlciState
  <2> QED
    BY <1>3, <2>3 DEF Handled
<1>4. CASE f.kind = "DISC"
  <2>1. \A s \in DlciState : Good([r EXCEPT !.state = s]) /\ [r EXCEPT !.state = s] \in SessionState
    BY DEF SessionState, Empty
  <2>2. Good([r EXCEPT !.mux = FALSE])
    BY DEF SessionState, Empty
  <2>3. Good(HandleDisc(r, f))
    BY <1>1, <2>1, <2>2 DEF HandleDisc, DlciState
  <2> QED
    BY <1>4, <2>3 DEF Handled
<1>5. CASE f.kind = "SABM"
  <2>1. Good([r EXCEPT !.mux = TRUE, !.muxUnits = @ + 1])
    BY DEF SessionState, Empty
  <2>2. ASSUME NEW s \in SessionState
        PROVE  Empty([s EXCEPT !.state = "OPEN", !.head = 0, !.tail = 0, !.chan = TRUE,
                               !.chanUnits = IF e = "R" THEN @ + 1 ELSE @])
    BY DEF SessionState, Empty
  <2>3. (IF r.sem THEN r ELSE CreateSem(r)) \in SessionState
    BY SemType
  <2>4. f.dlci # 0 => Empty(HandleSabm(e, r, f))
    BY <2>2, <2>3 DEF HandleSabm
  <2>5. f.dlci = 0 => HandleSabm(e, r, f) = [r EXCEPT !.mux = TRUE, !.muxUnits = @ + 1]
    BY DEF HandleSabm
  <2>6. Good(HandleSabm(e, r, f))
    BY <2>1, <2>4, <2>5
  <2> QED
    BY <1>5, <2>6 DEF Handled
<1>6. CASE f.kind = "PN" /\ ~f.cmd
  <2>1. f.credits \in Nat
    <3>1. f \in Negotiation
      BY <1>6, FrameKinds
    <3> QED
      BY <3>1 DEF Negotiation
  <2>2. Good([r EXCEPT !.cbfc = TRUE, !.local = f.credits])
    BY <2>1 DEF SessionState, Empty
  <2>3. [r EXCEPT !.cbfc = TRUE, !.local = f.credits] \in SessionState
    BY <2>1 DEF SessionState
  <2>4. Good(HandlePnResponse(r, f))
    BY <1>1, <2>2, <2>3 DEF HandlePnResponse
  <2> QED
    BY <1>6, <2>4 DEF Handled
<1>7. CASE f.kind \notin {"UA", "DM", "DISC", "SABM"} /\ ~(f.kind = "PN" /\ ~f.cmd)
  BY <1>7 DEF Handled
<1> QED
  BY <1>2, <1>3, <1>4, <1>5, <1>6, <1>7

LEMMA RecvSleep ==
    ASSUME TypeInv, SleepInv, NEW e \in End, RecvStep(e) \/ RecvEnd(e)
    PROVE  SleepInv'
<1>1. /\ session[e] \in SessionState /\ UNCHANGED <<main, sender, reader>>
      /\ session \in [End -> SessionState] /\ recv \in [End -> RecvState]
      /\ recv[e] \in RecvState
  BY EndTypes DEF RecvStep, RecvFrame, CreditStore, Enqueue, UsedLoad, UsedStore,
                  LowGrant, LowStore, RecvEnd, TypeInv, TypeOK
<1>2. ASSUME OnlyEnd(e), Awake(e)' PROVE SleepInv'
  BY <1>1, <1>2, SleepStep DEF SleepInv, ReaderInv
<1>3. CASE RecvFrame(e)
  <2>1. recv[e].pc = "recv"
    BY <1>3 DEF RecvFrame
  <2>2. Head(link[e]) \in Frame
    BY <1>3 DEF RecvFrame, TypeInv, TypeOK
  <2>3. session' = [session EXCEPT ![e] = Handled(e, session[e], Head(link[e]))]
    BY <1>3 DEF RecvFrame
  <2>4. \A d \in End : d # e => recv'[d] = recv[d]
    BY <1>1, <1>3 DEF RecvFrame, Receiving
  <2>5. OnlyEnd(e)
    BY <1>1, <2>3, <2>4 DEF OnlyEnd
  <2>6. reader[e].pc # "wait" \/ ~session[e].sem \/ Empty(session[e]) \/ session[e].units > 0
    BY <2>1 DEF SleepInv, Awake
  <2>7. session'[e] = Handled(e, session[e], Head(link[e]))
    BY <1>1, <2>3
  <2>8. Awake(e)'
    BY <1>1, <2>2, <2>6, <2>7, HandledAwake DEF Awake, Empty
  <2> QED
    BY <1>2, <2>5, <2>8
<1>4. CASE Enqueue(e)
  <2>1. /\ \A d \in End : d # e => recv'[d] = recv[d]
        /\ \A d \in End : d # e => session'[d] = session[d]
    BY <1>1, <1>4 DEF Enqueue, Receiving
  <2>2. CASE recv[e].left > 0 /\ ~Full(session[e])
    BY <1>1, <1>2, <1>4, <2>1, <2>2 DEF Enqueue, Receiving, OnlyEnd, Awake
  <2>3. CASE ~(recv[e].left > 0 /\ ~Full(session[e]))
    <3>1. session'[e] = Release(session[e])
      BY <1>1, <1>4, <2>3 DEF Enqueue, Wake
    <3>2. ~session'[e].sem \/ session'[e].units > 0
      BY <1>1, <3>1 DEF Release, SessionState
    <3> QED
      BY <1>1, <1>2, <2>1, <3>2 DEF OnlyEnd, Awake
  <2> QED
    BY <2>2, <2>3
<1>5. CASE CreditStore(e) \/ UsedLoad(e) \/ UsedStore(e) \/ LowGrant(e) \/ LowStore(e)
  <2>1. recv[e].pc # "enqueue"
    BY <1>5 DEF CreditStore, UsedLoad, UsedStore, LowGrant, LowStore
  <2>2. /\ \A d \in End : d # e => recv'[d] = recv[d]
        /\ \A d \in End : d # e => session'[d] = session[d]
    BY <1>1, <1>5 DEF CreditStore, UsedLoad, UsedStore, LowGrant, LowStore, Receiving
  <2>3. \/ session' = session
        \/ \E n : session' = [session EXCEPT ![e] = [session[e] EXCEPT !.local = n]]
        \/ \E n : session' = [session EXCEPT ![e] = [session[e] EXCEPT !.remote = n]]
    BY <1>5 DEF CreditStore, UsedLoad, UsedStore, LowGrant, LowStore
  <2>4. \/ session'[e] = session[e]
        \/ \E n : session'[e] = [session[e] EXCEPT !.local = n]
        \/ \E n : session'[e] = [session[e] EXCEPT !.remote = n]
    BY <1>1, <2>3
  <2>5. /\ session'[e].sem = session[e].sem /\ session'[e].units = session[e].units
        /\ session'[e].head = session[e].head /\ session'[e].tail = session[e].tail
    BY <1>1, <2>4 DEF SessionState
  <2> QED
    BY <1>1, <1>2, <2>1, <2>2, <2>5 DEF OnlyEnd, SleepInv, Awake, Empty
<1>6. CASE RecvEnd(e)
  <2>1. /\ \A d \in End : d # e => recv'[d] = recv[d]
        /\ \A d \in End : d # e => session'[d] = session[d]
    BY <1>1, <1>6 DEF RecvEnd, Receiving
  <2> DEFINE r == Release(session[e])
  <2>2. r \in SessionState /\ (r.sem => r.units > 0)
    BY <1>1, SemType DEF Release, SessionState
  <2>3. session'[e] = [r EXCEPT !.muxUnits = @ + 1,
                                !.chanUnits = IF e = "R" THEN @ + 1 ELSE @]
    BY <1>1, <1>6 DEF RecvEnd
  <2> HIDE DEF r
  <2>4. session'[e].sem = r.sem /\ session'[e].units = r.units
    BY <2>2, <2>3 DEF SessionState
  <2> QED
    BY <1>1, <1>2, <2>1, <2>2, <2>4 DEF OnlyEnd, Awake
<1> QED
  BY <1>3, <1>4, <1>5, <1>6 DEF RecvStep

LEMMA NextSleep == TypeInv /\ SleepInv /\ [Next]_vars => SleepInv'
<1> SUFFICES ASSUME TypeInv, SleepInv, [Next]_vars PROVE SleepInv'
  OBVIOUS
<1>1. ASSUME UNCHANGED <<session, main, reader, recv>> PROVE SleepInv'
  BY <1>1 DEF SleepInv, ReaderInv, Awake, Empty
<1>2. CASE Connect \/ OpenChannel \/ PnWake \/ UaWake \/ GrantStore \/ OpenTimeout
  BY <1>2, MainSleep
<1>3. CASE AcceptFrom \/ WaitForChannel
  BY <1>3, MainSleep
<1>4. ASSUME NEW e \in End, MuxWake(e) \/ DisconnectEnd(e) PROVE SleepInv'
  BY <1>4, MainSleep
<1>5. ASSUME NEW e \in End, CloseChannel(e) \/ CloseWake(e) \/ Disconnect(e)
      PROVE  SleepInv'
  BY <1>5, CloseSleep
<1>6. ASSUME NEW e \in End,
             \/ SendData(e) \/ SpendStore(e)
             \/ Receive(e) \/ ReceiveWake(e) \/ ReceiveFails(e) \/ Copy(e)
      PROVE  SleepInv'
  BY <1>6, UserSleep
<1>7. ASSUME NEW e \in End, RecvStep(e) \/ RecvEnd(e) PROVE SleepInv'
  BY <1>7, RecvSleep
<1>8. CASE ForeignReceive \/ ForeignSend \/ ForeignClose \/ LinkLost
  BY <1>1, <1>8 DEF ForeignReceive, ForeignSend, ForeignClose, LinkLost
<1>9. CASE UNCHANGED vars
  BY <1>1, <1>9 DEF vars
<1> QED
  BY <1>2, <1>3, <1>4, <1>5, <1>6, <1>7, <1>8, <1>9 DEF Next

LEMMA SleepInvariant == Spec => []SleepInv
<1>1. Init => SleepInv
  BY DEF Init, SleepInv, ReaderInv, Awake
<1> QED
  BY <1>1, NextSleep, TypeInvariant, PTL DEF Spec

\* Receive() waits on waitSem and _EnqueueData() releases it after the bytes
\* are in the ring; the same semaphore serves the answers to PN, SABM and DISC.
\* Still no reader sleeps while there is data for it, for any window, ring and
\* interleaving: it has a unit to take, or the receive thread is about to
\* release one.
THEOREM ReadersNeverSleepOnData == Spec => []NoSleepOnData
<1>1. SleepInv => NoSleepOnData
  BY DEF SleepInv, Awake, NoSleepOnData
<1> QED
  BY <1>1, SleepInvariant, PTL

----------------------------------------------------------------------------
\* Arithmetic of counters that wrap

LEMMA Sizes ==
    /\ RingSize \in Nat \ {0} /\ Width \in Nat \ {0} /\ RingSize + 1 < Width
    /\ Counter \subseteq Int /\ Slot \subseteq Int
    /\ \A c \in Counter : 0 <= c /\ c < Width
    /\ \A c \in Int : 0 <= c /\ c < Width => c \in Counter
    /\ \E m \in Int : Width = RingSize * m
<1>1. RingSize \in Nat \ {0} /\ Width \in Nat \ {0} /\ RingSize + 1 < Width
      /\ Width % RingSize = 0
  BY RingAssumption
<1>2. Width = RingSize * (Width \div RingSize) + (Width % RingSize)
      /\ Width \div RingSize \in Int
  BY <1>1, DivMod
<1>3. Width = RingSize * (Width \div RingSize)
  BY <1>1, <1>2
<1> QED
  BY <1>1, <1>2, <1>3 DEF Counter, Slot

\* The counters wrap at a multiple of the ring's size: the slots of a counter's
\* successors are those of a counter that does not wrap.
LEMMA SlotAfterWrap ==
    ASSUME NEW a \in Counter, NEW k \in Int
    PROVE  (((a + 1) % Width) + k) % RingSize = (a + 1 + k) % RingSize
<1>1. /\ RingSize \in Nat \ {0} /\ Width \in Nat \ {0}
      /\ a \in Int /\ 0 <= a /\ a < Width
  BY Sizes
<1>2. CASE a + 1 < Width
  <2>1. (a + 1) % Width = a + 1
    <3>1. a + 1 \in Int /\ -Width <= a + 1 /\ a + 1 < Width + Width /\ 0 <= a + 1
      BY <1>1, <1>2
    <3> QED
      BY <1>1, <1>2, <3>1, ModStep
  <2> QED
    BY <2>1
<1>3. CASE a + 1 = Width
  <2>1. (a + 1) % Width = 0
    <3>1. Width - Width = 0 /\ -Width <= Width /\ Width < Width + Width /\ Width \in Int
      BY <1>1
    <3>2. Width % Width = Width - Width
      BY <1>1, <3>1, ModStep
    <3> QED
      BY <1>3, <3>1, <3>2
  <2>2. PICK m \in Int : Width = RingSize * m
    BY Sizes
  <2>3. a + 1 + k \in Int /\ (a + 1 + k) - Width = 0 + k
    BY <1>1, <1>3
  <2>4. ((a + 1 + k) - RingSize * m) % RingSize = (a + 1 + k) % RingSize
    BY <1>1, <2>2, <2>3, ModTurn
  <2>5. ((a + 1 + k) - Width) % RingSize = (a + 1 + k) % RingSize
    BY <2>2, <2>4
  <2> QED
    BY <2>1, <2>3, <2>5
<1> QED
  BY <1>1, <1>2, <1>3

\* What is between two counters, and the slot of the second
LEMMA HeadSlot ==
    ASSUME NEW t \in Counter, NEW h \in Counter
    PROVE  /\ Distance(t, h) \in 0 .. Width - 1
           /\ h % RingSize = (t + Distance(t, h)) % RingSize
           /\ Distance(t, h) = IF t <= h THEN h - t ELSE h - t + Width
<1>1. /\ RingSize \in Nat \ {0} /\ Width \in Nat \ {0}
      /\ t \in Int /\ 0 <= t /\ t < Width
      /\ h \in Int /\ 0 <= h /\ h < Width
  BY Sizes
<1> DEFINE d == h - t
<1>2. d \in Int /\ -Width <= d /\ d < Width + Width /\ d < Width
      /\ (t <= h <=> 0 <= d) /\ d = h - t
  BY <1>1
<1> HIDE DEF d
<1>5. /\ 0 <= d => d % Width = d
      /\ d < 0 => d % Width = d + Width
  BY <1>1, <1>2, ModStep
<1>3. CASE t <= h
  <2>1. (h - t) % Width = h - t
    BY <1>2, <1>3, <1>5
  <2> QED
    BY <1>1, <1>3, <2>1 DEF Distance
<1>4. CASE h < t
  <2>1. Distance(t, h) = h - t + Width
    BY <1>1, <1>2, <1>4, <1>5 DEF Distance
  <2>2. PICK m \in Int : Width = RingSize * m
    BY Sizes
  <2>3. h + Width \in Int /\ (h + Width) - Width = h /\ t + (h - t + Width) = h + Width
    BY <1>1
  <2>4. ((h + Width) - RingSize * m) % RingSize = (h + Width) % RingSize
    BY <1>1, <2>2, <2>3, ModTurn
  <2>5. h % RingSize = (h + Width) % RingSize
    BY <2>2, <2>3, <2>4
  <2> QED
    BY <1>1, <1>4, <2>1, <2>3, <2>5
<1> QED
  BY <1>1, <1>3, <1>4

\* The successor of a counter
LEMMA Successor ==
    ASSUME NEW c \in Counter
    PROVE  /\ (c + 1) % Width = IF c + 1 = Width THEN 0 ELSE c + 1
           /\ (c + 1) % Width \in Counter
<1>1. Width \in Nat \ {0} /\ c \in Int /\ 0 <= c /\ c < Width
  BY Sizes
<1> DEFINE n == c + 1
<1>2. n \in Int /\ -Width <= n /\ n < Width + Width /\ 0 <= n /\ n <= Width
  BY <1>1
<1> HIDE DEF n
<1>3. n % Width = IF n = Width THEN 0 ELSE n
  <2>1. /\ 0 <= n /\ n < Width => n % Width = n
        /\ Width <= n => n % Width = n - Width
    BY <1>1, <1>2, ModStep
  <2> QED
    BY <1>1, <1>2, <2>1
<1>4. (IF n = Width THEN 0 ELSE n) \in Counter
  BY <1>1, <1>2 DEF Counter
<1> QED
  BY <1>3, <1>4 DEF n

LEMMA DistanceStep ==
    ASSUME NEW t \in Counter, NEW h \in Counter
    PROVE  /\ t # h => Distance((t + 1) % Width, h) = Distance(t, h) - 1
           /\ Distance(t, h) # Width - 1 =>
                 Distance(t, (h + 1) % Width) = Distance(t, h) + 1
           /\ Distance(t, h) = Width - 1 => Distance(t, (h + 1) % Width) = 0
           /\ t = h <=> Distance(t, h) = 0
<1>1. /\ Width \in Nat \ {0}
      /\ t \in Int /\ 0 <= t /\ t < Width
      /\ h \in Int /\ 0 <= h /\ h < Width
  BY Sizes
<1> DEFINE u == (t + 1) % Width
           g == (h + 1) % Width
<1>2. /\ u = IF t + 1 = Width THEN 0 ELSE t + 1
      /\ g = IF h + 1 = Width THEN 0 ELSE h + 1
      /\ u \in Counter /\ g \in Counter
  BY Successor
<1> HIDE DEF u, g
<1>3. /\ Distance(t, h) = IF t <= h THEN h - t ELSE h - t + Width
      /\ Distance(u, h) = IF u <= h THEN h - u ELSE h - u + Width
      /\ Distance(t, g) = IF t <= g THEN g - t ELSE g - t + Width
  BY <1>2, HeadSlot
<1>4. /\ t # h => Distance(u, h) = Distance(t, h) - 1
      /\ Distance(t, h) # Width - 1 => Distance(t, g) = Distance(t, h) + 1
      /\ Distance(t, h) = Width - 1 => Distance(t, g) = 0
      /\ t = h <=> Distance(t, h) = 0
  BY <1>1, <1>2, <1>3
<1> QED
  BY <1>4 DEF u, g

----------------------------------------------------------------------------
\* The bytes of a ring

\* Buffered(e) is Content(session[e]).
Content(r) == [k \in 1 .. Distance(r.tail, r.head) |-> r.ring[(r.tail + k - 1) % RingSize]]

LEMMA ContentType ==
    ASSUME NEW r \in SessionState
    PROVE  /\ Content(r) \in Seq(Nat) /\ Len(Content(r)) = Distance(r.tail, r.head)
           /\ \A k \in 1 .. Distance(r.tail, r.head) :
                 Content(r)[k] = r.ring[(r.tail + k - 1) % RingSize]
           /\ Empty(r) <=> Content(r) = << >>
<1> DEFINE d == Distance(r.tail, r.head)
<1>1. r.tail \in Counter /\ r.head \in Counter /\ r.ring \in [Slot -> Nat] /\ r.tail \in Int
  BY Sizes DEF SessionState
<1>2. d \in Nat /\ (d = 0 <=> r.tail = r.head)
  <2>1. d \in 0 .. Width - 1
    BY <1>1, HeadSlot
  <2>2. r.tail = r.head <=> d = 0
    BY <1>1, DistanceStep
  <2> QED
    BY <2>1, <2>2
<1> HIDE DEF d
<1>3. RingSize \in Nat \ {0}
  BY Sizes
<1>4. ASSUME NEW k \in 1 .. d PROVE r.ring[(r.tail + k - 1) % RingSize] \in Nat
  <2>1. r.tail + k - 1 \in Int
    BY <1>1
  <2>2. (r.tail + k - 1) % RingSize \in Slot
    BY <1>3, <2>1, DivMod DEF Slot
  <2> QED
    BY <1>1, <2>2
<1>5. Content(r) = [k \in 1 .. d |-> r.ring[(r.tail + k - 1) % RingSize]]
  BY DEF Content, d
<1>6. Content(r) \in [1 .. d -> Nat]
  BY <1>4, <1>5
<1>7. Content(r) \in Seq(Nat) /\ Len(Content(r)) = d
  BY <1>2, <1>6
<1>8. Empty(r) <=> Content(r) = << >>
  BY <1>2, <1>7, EmptySeq DEF Empty
<1> QED
  BY <1>5, <1>7, <1>8 DEF d

\* Receive() takes the oldest byte.
LEMMA RingTake ==
    ASSUME NEW r \in SessionState, ~Empty(r),
           NEW s \in SessionState, s.head = r.head, s.ring = r.ring,
           s.tail = (r.tail + 1) % Width
    PROVE  /\ Head(Content(r)) = r.ring[r.tail % RingSize]
           /\ Content(s) = Tail(Content(r))
           /\ Content(r) # << >>
<1> DEFINE d == Distance(r.tail, r.head)
<1>1. r.tail \in Counter /\ r.head \in Counter /\ r.tail \in Int
  BY Sizes DEF SessionState
<1>2. d \in Nat \ {0} /\ Distance(s.tail, s.head) = d - 1
  <2>1. d \in 0 .. Width - 1
    BY <1>1, HeadSlot
  <2>2. r.tail # r.head
    BY DEF Empty
  <2>3. d # 0 /\ Distance(s.tail, s.head) = d - 1
    BY <1>1, <2>2, DistanceStep
  <2> QED
    BY <2>1, <2>3
<1>3. /\ Content(r) \in Seq(Nat) /\ Len(Content(r)) = d /\ Content(r) # << >>
      /\ Content(s) \in Seq(Nat) /\ Len(Content(s)) = d - 1
      /\ \A k \in 1 .. d : Content(r)[k] = r.ring[(r.tail + k - 1) % RingSize]
      /\ \A k \in 1 .. d - 1 : Content(s)[k] = s.ring[(s.tail + k - 1) % RingSize]
  BY <1>2, ContentType
<1> HIDE DEF d
<1>4. ASSUME NEW k \in 1 .. d - 1 PROVE Content(s)[k] = Tail(Content(r))[k]
  <2>1. k - 1 \in Int /\ r.tail + 1 + (k - 1) = r.tail + (k + 1) - 1
        /\ s.tail + k - 1 = s.tail + (k - 1) /\ s.tail \in Int /\ k + 1 \in 1 .. d
    BY <1>1, <1>2, Sizes DEF SessionState
  <2>2. (s.tail + (k - 1)) % RingSize = (r.tail + 1 + (k - 1)) % RingSize
    BY <1>1, <2>1, SlotAfterWrap
  <2>3. Content(s)[k] = Content(r)[k + 1]
    BY <1>3, <2>1, <2>2
  <2> QED
    BY <1>2, <1>3, <2>3
<1>5. Tail(Content(r)) \in Seq(Nat) /\ Len(Tail(Content(r))) = d - 1
  BY <1>3
<1>6. Content(s) = Tail(Content(r))
  BY <1>3, <1>4, <1>5, SeqEqual
<1>7. Head(Content(r)) = r.ring[r.tail % RingSize]
  <2>1. 1 \in 1 .. d /\ r.tail + 1 - 1 = r.tail
    BY <1>1, <1>2
  <2> QED
    BY <1>3, <2>1
<1> QED
  BY <1>3, <1>6, <1>7

\* _EnqueueData() adds one byte behind the newest: no slot in use is written.
LEMMA RingPut ==
    ASSUME NEW r \in SessionState, ~Full(r), Distance(r.tail, r.head) <= RingSize,
           NEW b \in Nat,
           NEW s \in SessionState, s.tail = r.tail, s.head = (r.head + 1) % Width,
           s.ring = [r.ring EXCEPT ![r.head % RingSize] = b]
    PROVE  /\ Len(Content(r)) < RingSize
           /\ Content(s) = Append(Content(r), b)
<1> DEFINE d == Distance(r.tail, r.head)
<1>1. r.tail \in Counter /\ r.head \in Counter /\ r.tail \in Int
  BY Sizes DEF SessionState
<1>2. RingSize \in Nat \ {0} /\ Width \in Nat \ {0} /\ RingSize + 1 < Width
  BY Sizes
<1>3. d \in Nat /\ Distance(s.tail, s.head) = d + 1 /\ d < RingSize
  <2>1. d \in 0 .. Width - 1
    BY <1>1, HeadSlot
  <2>2. d # Width - 1
    <3>1. d <= RingSize
      OBVIOUS
    <3> HIDE DEF d
    <3> QED
      BY <1>2, <2>1, <3>1
  <2>3. Distance(s.tail, s.head) = d + 1
    BY <1>1, <2>2, DistanceStep
  <2>4. d + 1 <= RingSize
    BY <1>2, <2>1, <2>3 DEF Full
  <2> QED
    BY <1>2, <2>1, <2>3, <2>4
<1>4. /\ Content(r) \in Seq(Nat) /\ Len(Content(r)) = d
      /\ Content(s) \in Seq(Nat) /\ Len(Content(s)) = d + 1
      /\ \A k \in 1 .. d : Content(r)[k] = r.ring[(r.tail + k - 1) % RingSize]
      /\ \A k \in 1 .. d + 1 : Content(s)[k] = s.ring[(s.tail + k - 1) % RingSize]
  BY <1>3, ContentType
<1>5. r.head % RingSize = (r.tail + d) % RingSize
  BY <1>1, HeadSlot
<1> HIDE DEF d
<1>6. r.ring \in [Slot -> Nat] /\ r.head % RingSize \in Slot
  <2>1. r.tail + d \in Int
    BY <1>1, <1>3
  <2>2. (r.tail + d) % RingSize \in Slot
    BY <1>2, <2>1, DivMod DEF Slot
  <2> QED
    BY <1>5, <2>2 DEF SessionState
<1>7. ASSUME NEW k \in 1 .. d PROVE Content(s)[k] = Content(r)[k]
  <2> DEFINE i == r.tail + k - 1
             j == r.tail + d
  <2>1. i \in Int /\ j \in Int /\ i < j /\ k \in 1 .. d + 1
    BY <1>1, <1>2, <1>3
  <2>3. j - i < RingSize
    BY <1>1, <1>2, <1>3
  <2> HIDE DEF i, j
  <2>4. i % RingSize # j % RingSize
    BY <1>2, <2>1, <2>3, ModDistinct
  <2>5. i % RingSize \in Slot
    BY <1>2, <2>1, DivMod DEF Slot
  <2>6. s.ring[i % RingSize] = r.ring[i % RingSize]
    BY <1>5, <1>6, <2>4, <2>5 DEF j
  <2> QED
    BY <1>4, <2>1, <2>6 DEF i
<1>8. Content(s)[d + 1] = b
  <2>1. r.tail + (d + 1) - 1 = r.tail + d /\ d + 1 \in 1 .. d + 1
    BY <1>1, <1>3
  <2>2. Content(s)[d + 1] = s.ring[(r.tail + d) % RingSize]
    BY <1>4, <2>1
  <2> QED
    BY <1>5, <1>6, <2>2
<1>9. Append(Content(r), b) \in Seq(Nat) /\ Len(Append(Content(r), b)) = d + 1
  BY <1>4
<1>10. \A k \in 1 .. d + 1 : Content(s)[k] = Append(Content(r), b)[k]
  BY <1>3, <1>4, <1>7, <1>8
<1>11. Content(s) = Append(Content(r), b)
  BY <1>4, <1>9, <1>10, SeqEqual
<1> QED
  BY <1>3, <1>4, <1>11

LEMMA SameRing ==
    ASSUME NEW r, NEW s, s.head = r.head, s.tail = r.tail, s.ring = r.ring
    PROVE  Content(s) = Content(r)
BY DEF Content

----------------------------------------------------------------------------
\* The bytes on their way to an end

IsData(f) == f.kind = "UIH" /\ f.len > 0

\* Frames with data are in the order of their bytes.
Ordered(q) ==
    \A i, j \in 1 .. Len(q) :
        i < j /\ IsData(q[i]) /\ IsData(q[j]) => q[i].first + q[i].len <= q[j].first

\* x comes before all data of q, none of which comes after n.
Before(x, q) == \A i \in 1 .. Len(q) : IsData(q[i]) => x < q[i].first
UpTo(n, q) == \A i \in 1 .. Len(q) : IsData(q[i]) => q[i].first + q[i].len <= n + 1

\* x has been put into the ring: before what the receive thread holds, t, and
\* before the frames that are on their way.
Older(x, t, q, n) == x <= n /\ Before(x, q) /\ (t.left > 0 => x < t.first)

\* Session r, whose user got byte g last, whose receive thread is at t, and to
\* which the frames q are on their way, after n bytes were sent to it
Flows(r, g, t, q, n) ==
    /\ Distance(r.tail, r.head) <= RingSize
    /\ Ordered(q) /\ UpTo(n, q)
    /\ Older(g, t, q, n)
    /\ \A k \in 1 .. Len(Content(r)) : Older(Content(r)[k], t, q, n)
    /\ t.left > 0 => t.first + t.left <= n + 1 /\ Before(t.first + t.left - 1, q)

StreamInv ==
    \A e \in End : Flows(session[e], given[e], recv[e], link[e], used.sent[OtherEnd(e)])

\* What may become of the frames on their way
Carries(q, n, q2, n2) ==
    \/ n2 = n /\ q2 \in {q, << >>}
    \/ n2 = n /\ q # << >> /\ q2 = Tail(q)
    \/ n2 = n /\ \E a \in Seq(Frame) : q2 = q \o a /\ \A i \in 1 .. Len(a) : ~IsData(a[i])
    \/ \E f \in Uih : q2 = Append(q, f) /\ IsData(f) /\ f.first = n + 1 /\ n2 = n + f.len

LEMMA DataType ==
    ASSUME NEW f \in Frame, IsData(f)
    PROVE  f.first \in Nat /\ f.len \in Nat /\ f.len > 0
<1>1. f \in Uih
  BY FrameKinds DEF IsData
<1> QED
  BY <1>1, BoundAssumption DEF Uih, IsData

\* What may become of a queue: x comes before its data still.
LEMMA CarriesBefore ==
    ASSUME NEW q \in Seq(Frame), NEW n \in Nat, NEW q2 \in Seq(Frame), NEW n2 \in Nat,
           Carries(q, n, q2, n2),
           NEW x \in Int, x <= n, Before(x, q)
    PROVE  x <= n2 /\ Before(x, q2)
<1>1. CASE n2 = n /\ q2 = q
  BY <1>1
<1>2. CASE n2 = n /\ q2 = << >>
  BY <1>2 DEF Before
<1>3. CASE n2 = n /\ q2 = Tail(q) /\ q # << >>
  <2>1. \A i \in 1 .. Len(q2) : q2[i] = q[i + 1] /\ i + 1 \in 1 .. Len(q)
    BY <1>3
  <2> QED
    BY <1>3, <2>1 DEF Before
<1>4. ASSUME NEW a \in Seq(Frame), n2 = n, q2 = q \o a, \A i \in 1 .. Len(a) : ~IsData(a[i])
      PROVE  x <= n2 /\ Before(x, q2)
  <2>1. ASSUME NEW i \in 1 .. Len(q2), IsData(q2[i]) PROVE i \in 1 .. Len(q) /\ q2[i] = q[i]
    BY <1>4, <2>1, ConcatProperties
  <2> QED
    BY <1>4, <2>1 DEF Before
<1>5. ASSUME NEW f \in Uih, q2 = Append(q, f), IsData(f), f.first = n + 1, n2 = n + f.len
      PROVE  x <= n2 /\ Before(x, q2)
  <2>1. f.len \in Nat
    BY <1>5, DataType DEF Frame
  <2>2. ASSUME NEW i \in 1 .. Len(q2) PROVE q2[i] = f \/ (i \in 1 .. Len(q) /\ q2[i] = q[i])
    BY <1>5 DEF Frame
  <2>3. x < f.first
    BY <1>5
  <2> QED
    BY <1>5, <2>1, <2>2, <2>3 DEF Before
<1> QED
  BY <1>1, <1>2, <1>3, <1>4, <1>5 DEF Carries

LEMMA CarriesOrder ==
    ASSUME NEW q \in Seq(Frame), NEW n \in Nat, NEW q2 \in Seq(Frame), NEW n2 \in Nat,
           Carries(q, n, q2, n2),
           Ordered(q), UpTo(n, q)
    PROVE  Ordered(q2) /\ UpTo(n2, q2)
<1>1. CASE n2 = n /\ q2 = q
  BY <1>1
<1>2. CASE n2 = n /\ q2 = << >>
  BY <1>2 DEF Ordered, UpTo
<1>3. CASE n2 = n /\ q2 = Tail(q) /\ q # << >>
  <2>1. \A i \in 1 .. Len(q2) : q2[i] = q[i + 1] /\ i + 1 \in 1 .. Len(q)
    BY <1>3
  <2>2. \A i, j \in 1 .. Len(q2) : i < j => i + 1 < j + 1
    OBVIOUS
  <2>3. Ordered(q2)
    BY <2>1, <2>2 DEF Ordered
  <2>4. UpTo(n2, q2)
    BY <1>3, <2>1 DEF UpTo
  <2> QED
    BY <2>3, <2>4
<1>4. ASSUME NEW a \in Seq(Frame), n2 = n, q2 = q \o a, \A i \in 1 .. Len(a) : ~IsData(a[i])
      PROVE  Ordered(q2) /\ UpTo(n2, q2)
  <2>1. ASSUME NEW i \in 1 .. Len(q2), IsData(q2[i]) PROVE i \in 1 .. Len(q) /\ q2[i] = q[i]
    BY <1>4, <2>1, ConcatProperties
  <2>2. Ordered(q2)
    BY <2>1 DEF Ordered
  <2>3. UpTo(n2, q2)
    BY <1>4, <2>1 DEF UpTo
  <2> QED
    BY <2>2, <2>3
<1>5. ASSUME NEW f \in Uih, q2 = Append(q, f), IsData(f), f.first = n + 1, n2 = n + f.len
      PROVE  Ordered(q2) /\ UpTo(n2, q2)
  <2>1. f.len \in Nat /\ Len(q) \in Nat /\ Len(q2) = Len(q) + 1 /\ q2[Len(q) + 1] = f
        /\ \A i \in 1 .. Len(q) : q2[i] = q[i] /\ q[i] \in Frame
    BY <1>5, DataType DEF Frame
  <2>2. ASSUME NEW i \in 1 .. Len(q), IsData(q[i])
        PROVE  q[i].first + q[i].len <= n + 1 /\ q[i].first \in Nat /\ q[i].len \in Nat
    BY <2>1, <2>2, DataType DEF UpTo
  <2>3. Ordered(q2)
    <3> SUFFICES ASSUME NEW i \in 1 .. Len(q2), NEW j \in 1 .. Len(q2), i < j,
                        IsData(q2[i]), IsData(q2[j])
                 PROVE  q2[i].first + q2[i].len <= q2[j].first
      BY DEF Ordered
    <3>1. i \in 1 .. Len(q) /\ q2[i] = q[i]
      BY <2>1
    <3>2. CASE j = Len(q) + 1
      BY <1>5, <2>1, <2>2, <3>1, <3>2
    <3>3. CASE j # Len(q) + 1
      <4>1. j \in 1 .. Len(q) /\ q2[j] = q[j]
        BY <2>1, <3>3
      <4> QED
        BY <3>1, <4>1 DEF Ordered
    <3> QED
      BY <3>2, <3>3
  <2>4. UpTo(n2, q2)
    <3> SUFFICES ASSUME NEW i \in 1 .. Len(q2), IsData(q2[i])
                 PROVE  q2[i].first + q2[i].len <= n2 + 1
      BY DEF UpTo
    <3>1. CASE i = Len(q) + 1
      BY <1>5, <2>1, <3>1
    <3>2. CASE i # Len(q) + 1
      <4>1. i \in 1 .. Len(q) /\ q2[i] = q[i]
        BY <2>1, <3>2
      <4> QED
        BY <1>5, <2>1, <2>2, <4>1, SMTT(20)
    <3> QED
      BY <3>1, <3>2
  <2> QED
    BY <2>3, <2>4
<1> QED
  BY <1>1, <1>2, <1>3, <1>4, <1>5 DEF Carries

\* The types of what Flows is about
FlowType(r, g, t, q, n) ==
    /\ r \in SessionState /\ g \in Nat /\ t \in RecvState
    /\ q \in Seq(Frame) /\ n \in Nat

\* What is sent, answered, read elsewhere or lost
LEMMA FlowCarried ==
    ASSUME NEW r, NEW g, NEW t, NEW q, NEW n, NEW q2 \in Seq(Frame), NEW n2 \in Nat,
           FlowType(r, g, t, q, n), Flows(r, g, t, q, n), Carries(q, n, q2, n2)
    PROVE  Flows(r, g, t, q2, n2)
<1>1. /\ q \in Seq(Frame) /\ n \in Nat /\ g \in Nat
      /\ t.first \in Int /\ t.left \in Int
  BY BoundAssumption DEF FlowType, RecvState
<1>2. ASSUME NEW x \in Int, Older(x, t, q, n) PROVE Older(x, t, q2, n2)
  BY <1>1, <1>2, CarriesBefore DEF Older
<1>3. \A k \in 1 .. Len(Content(r)) : Older(Content(r)[k], t, q2, n2)
  <2>1. \A k \in 1 .. Len(Content(r)) : Content(r)[k] \in Int
    BY ContentType, ElementOfSeq DEF FlowType
  <2> QED
    BY <1>2, <2>1 DEF Flows
<1>4. Ordered(q2) /\ UpTo(n2, q2)
  BY <1>1, CarriesOrder DEF Flows
<1>5. Older(g, t, q2, n2)
  BY <1>1, <1>2 DEF Flows
<1>6. t.left > 0 => t.first + t.left <= n2 + 1 /\ Before(t.first + t.left - 1, q2)
  <2> SUFFICES ASSUME t.left > 0
               PROVE  t.first + t.left <= n2 + 1 /\ Before(t.first + t.left - 1, q2)
    OBVIOUS
  <2> DEFINE x == t.first + t.left - 1
  <2>1. x \in Int /\ x <= n /\ Before(x, q)
    BY <1>1 DEF Flows
  <2> HIDE DEF x
  <2>2. x <= n2 /\ Before(x, q2)
    BY <1>1, <2>1, CarriesBefore
  <2> QED
    BY <1>1, <2>2 DEF x
<1> QED
  BY <1>3, <1>4, <1>5, <1>6 DEF Flows

\* The receive thread takes the next frame: its bytes are newer than what is
\* in the ring, and older than what is on its way.
LEMMA FlowReceived ==
    ASSUME NEW r, NEW g, NEW t, NEW q, NEW n, NEW u \in RecvState,
           FlowType(r, g, t, q, n), Flows(r, g, t, q, n), q # << >>,
           u.left > 0 => /\ IsData(Head(q))
                         /\ u.first = Head(q).first /\ u.left = Head(q).len
    PROVE  Flows(r, g, u, Tail(q), n)
<1>1. /\ q \in Seq(Frame) /\ n \in Nat /\ g \in Nat /\ Tail(q) \in Seq(Frame)
      /\ u.first \in Int /\ u.left \in Int
  BY BoundAssumption DEF FlowType, RecvState
<1>2. /\ Len(q) \in Nat /\ 1 \in 1 .. Len(q) /\ Head(q) = q[1]
      /\ \A i \in 1 .. Len(Tail(q)) : Tail(q)[i] = q[i + 1] /\ i + 1 \in 1 .. Len(q) /\ 1 < i + 1
  BY <1>1
<1>3. ASSUME NEW x \in Int, Before(x, q), x <= n PROVE Older(x, u, Tail(q), n)
  BY <1>2, <1>3 DEF Older, Before
<1>4. \A k \in 1 .. Len(Content(r)) : Older(Content(r)[k], u, Tail(q), n)
  <2>1. \A k \in 1 .. Len(Content(r)) : Content(r)[k] \in Int
    BY ContentType, ElementOfSeq DEF FlowType
  <2> QED
    BY <1>3, <2>1 DEF Flows, Older
<1>5. Older(g, u, Tail(q), n)
  BY <1>1, <1>3 DEF Flows, Older
<1>6. Carries(q, n, Tail(q), n)
  BY DEF Carries
<1>7. Ordered(Tail(q)) /\ UpTo(n, Tail(q))
  BY <1>1, <1>6, CarriesOrder DEF Flows
<1>8. ASSUME u.left > 0
      PROVE  u.first + u.left <= n + 1 /\ Before(u.first + u.left - 1, Tail(q))
  <2>1. IsData(q[1]) /\ u.first = q[1].first /\ u.left = q[1].len
    BY <1>2, <1>8
  <2>2. u.first + u.left <= n + 1
    BY <1>2, <2>1 DEF Flows, UpTo
  <2>3. ASSUME NEW i \in 1 .. Len(Tail(q)), IsData(Tail(q)[i])
        PROVE  u.first + u.left - 1 < Tail(q)[i].first
    <3>1. q[1].first + q[1].len <= q[i + 1].first
      BY <1>2, <2>1, <2>3 DEF Flows, Ordered
    <3>2. q[i + 1] \in Frame /\ IsData(q[i + 1])
      BY <1>1, <1>2, <2>3
    <3>3. q[i + 1].first \in Nat
      BY <3>2, DataType
    <3> QED
      BY <1>1, <1>2, <2>1, <3>1, <3>3
  <2> QED
    BY <2>2, <2>3 DEF Before
<1> QED
  BY <1>4, <1>5, <1>7, <1>8 DEF Flows

\* Its place changes without a byte, or with the same bytes.
LEMMA FlowPlace ==
    ASSUME NEW r, NEW g, NEW t, NEW q, NEW n, NEW u,
           Flows(r, g, t, q, n),
           u.left = 0 \/ (u.left = t.left /\ u.first = t.first)
    PROVE  Flows(r, g, u, q, n)
<1>1. \A x : Older(x, t, q, n) => Older(x, u, q, n)
  BY DEF Older
<1> QED
  BY <1>1 DEF Flows

\* The ring is as it was, or empty.
LEMMA FlowRing ==
    ASSUME NEW r, NEW g, NEW t, NEW q, NEW n, NEW s \in SessionState,
           Flows(r, g, t, q, n),
           \/ s.head = r.head /\ s.tail = r.tail /\ s.ring = r.ring
           \/ Empty(s)
    PROVE  Flows(s, g, t, q, n)
<1>1. CASE s.head = r.head /\ s.tail = r.tail /\ s.ring = r.ring
  BY <1>1, SameRing DEF Flows
<1>2. CASE Empty(s)
  <2>1. Len(Content(s)) = 0 /\ Distance(s.tail, s.head) = 0
    BY <1>2, ContentType, EmptySeq
  <2>2. RingSize \in Nat
    BY Sizes
  <2> QED
    BY <2>1, <2>2 DEF Flows
<1> QED
  BY <1>1, <1>2

\* Receive() takes a byte.
LEMMA FlowTake ==
    ASSUME NEW r, NEW g, NEW t, NEW q, NEW n, NEW s \in SessionState, NEW h,
           FlowType(r, g, t, q, n), Flows(r, g, t, q, n), ~Empty(r),
           s.head = r.head, s.ring = r.ring, s.tail = (r.tail + 1) % Width,
           h = r.ring[r.tail % RingSize]
    PROVE  Flows(s, h, t, q, n)
<1> DEFINE c == Content(r)
<1>1. /\ h = Head(c) /\ Content(s) = Tail(c) /\ c # << >> /\ c \in Seq(Nat)
      /\ Len(c) = Distance(r.tail, r.head) /\ Len(Content(s)) = Distance(s.tail, s.head)
  BY RingTake, ContentType DEF FlowType
<1> HIDE DEF c
<1>2. /\ h = c[1] /\ 1 \in 1 .. Len(c) /\ Len(Tail(c)) = Len(c) - 1 /\ Len(c) \in Nat
      /\ \A k \in 1 .. Len(Tail(c)) : Tail(c)[k] = c[k + 1] /\ k + 1 \in 1 .. Len(c)
  BY <1>1
<1>3. Older(h, t, q, n)
  BY <1>2 DEF Flows, c
<1>4. \A k \in 1 .. Len(Content(s)) : Older(Content(s)[k], t, q, n)
  BY <1>1, <1>2 DEF Flows, c
<1>5. Distance(s.tail, s.head) <= RingSize
  BY <1>1, <1>2, Sizes DEF Flows
<1> QED
  BY <1>3, <1>4, <1>5 DEF Flows

\* _EnqueueData() adds a byte.
LEMMA FlowPut ==
    ASSUME NEW r, NEW g, NEW t, NEW q, NEW n, NEW s \in SessionState, NEW u,
           FlowType(r, g, t, q, n), Flows(r, g, t, q, n), ~Full(r), t.left > 0,
           s.tail = r.tail, s.head = (r.head + 1) % Width,
           s.ring = [r.ring EXCEPT ![r.head % RingSize] = t.first],
           u.first = t.first + 1, u.left = t.left - 1
    PROVE  Flows(s, g, u, q, n)
<1> DEFINE c == Content(r)
<1>1. t.first \in Nat /\ t.left \in Nat
  BY BoundAssumption DEF FlowType, RecvState
<1>2. /\ Len(c) < RingSize /\ Content(s) = Append(c, t.first) /\ c \in Seq(Nat)
      /\ Len(Content(s)) = Distance(s.tail, s.head) /\ n \in Nat /\ q \in Seq(Frame)
  BY <1>1, RingPut, ContentType DEF FlowType, Flows
<1> HIDE DEF c
<1>3. /\ Len(Content(s)) = Len(c) + 1 /\ Len(c) \in Nat
      /\ \A k \in 1 .. Len(Content(s)) :
            Content(s)[k] = t.first \/ (k \in 1 .. Len(c) /\ Content(s)[k] = c[k])
      /\ \A k \in 1 .. Len(c) : c[k] \in Nat
  BY <1>1, <1>2
<1>4. Before(t.first + t.left - 1, q) /\ t.first + t.left <= n + 1
  BY DEF Flows
<1>5. \A i \in 1 .. Len(q) : IsData(q[i]) => q[i].first \in Nat
  BY <1>2, DataType
<1>6. Older(t.first, u, q, n)
  BY <1>1, <1>2, <1>4, <1>5 DEF Older, Before
<1>7. ASSUME NEW x \in Int, Older(x, t, q, n) PROVE Older(x, u, q, n)
  BY <1>1, <1>7 DEF Older
<1>8. \A k \in 1 .. Len(Content(s)) : Older(Content(s)[k], u, q, n)
  BY <1>3, <1>6, <1>7 DEF Flows, c
<1>9. Older(g, u, q, n)
  BY <1>7 DEF Flows, FlowType
<1>10. Distance(s.tail, s.head) <= RingSize
  BY <1>2, <1>3, Sizes
<1>11. u.left > 0 => u.first + u.left <= n + 1 /\ Before(u.first + u.left - 1, q)
  <2>1. u.first + u.left - 1 = t.first + t.left - 1 /\ u.first + u.left = t.first + t.left
    BY <1>1
  <2> QED
    BY <1>4, <2>1
<1> QED
  BY <1>8, <1>9, <1>10, <1>11 DEF Flows

----------------------------------------------------------------------------
\* What a step does to the ring of an end

\* A step of ByteStream, from queue c and byte g to d and h
Moves(c, g, d, h) ==
    \/ d = c /\ h = g
    \/ /\ Len(c) < RingSize /\ Len(d) = Len(c) + 1 /\ SubSeq(d, 1, Len(c)) = c
       /\ d[Len(c) + 1] > IF c = << >> THEN g ELSE c[Len(c)]
       /\ h = g
    \/ c # << >> /\ h = Head(c) /\ d = Tail(c)
    \/ d = << >> /\ h = g

StreamStep == \A e \in End : Moves(Content(session[e]), given[e], Content(session'[e]), given'[e])

\* The ring of r is as it was in s, or empty.
Kept(r, s) == (s.head = r.head /\ s.tail = r.tail /\ s.ring = r.ring) \/ Empty(s)

LEMMA FlowTypes ==
    ASSUME TypeInv, NEW e \in End
    PROVE  FlowType(session[e], given[e], recv[e], link[e], used.sent[OtherEnd(e)])
<1>1. OtherEnd(e) \in End
  BY DEF OtherEnd
<1>2. used.sent \in [End -> Nat]
  BY DEF TypeInv, TypeOK
<1>3. /\ session \in [End -> SessionState] /\ given \in [End -> Nat]
      /\ recv \in [End -> RecvState] /\ link \in [End -> Seq(Frame)]
  BY DEF TypeInv, TypeOK
<1> QED
  BY <1>1, <1>2, <1>3 DEF FlowType

\* A step that puts nothing into a ring and takes nothing out of one
LEMMA QuietStep ==
    ASSUME TypeInv, TypeInv', StreamInv, UNCHANGED given,
           \A e \in End : Kept(session[e], session'[e]),
           \A e \in End : \/ recv'[e].left = 0
                          \/ recv'[e].left = recv[e].left /\ recv'[e].first = recv[e].first,
           \A e \in End : Carries(link[e], used.sent[OtherEnd(e)],
                                  link'[e], used'.sent[OtherEnd(e)])
    PROVE  StreamInv' /\ StreamStep
<1>1. ASSUME NEW e \in End
      PROVE  /\ Flows(session[e], given[e], recv[e], link[e], used.sent[OtherEnd(e)])'
             /\ Moves(Content(session[e]), given[e], Content(session'[e]), given'[e])
  <2> DEFINE n == used.sent[OtherEnd(e)]
             n2 == used'.sent[OtherEnd(e)]
  <2>1. /\ FlowType(session[e], given[e], recv[e], link[e], n)
        /\ Flows(session[e], given[e], recv[e], link[e], n)
    BY FlowTypes DEF StreamInv
  <2>2. /\ session'[e] \in SessionState /\ link'[e] \in Seq(Frame) /\ n2 \in Nat
        /\ recv'[e] \in RecvState /\ OtherEnd(e) \in End
    <3>1. OtherEnd(e) \in End
      BY DEF OtherEnd
    <3>2. used'.sent \in [End -> Nat]
      BY DEF TypeInv, TypeOK
    <3>3. /\ session'[e] \in SessionState /\ link'[e] \in Seq(Frame)
          /\ recv'[e] \in RecvState
      BY DEF TypeInv, TypeOK
    <3> QED
      BY <3>1, <3>2, <3>3
  <2> HIDE DEF n, n2
  <2>3. Carries(link[e], n, link'[e], n2)
    BY DEF n, n2
  <2>4. Flows(session[e], given[e], recv[e], link'[e], n2)
    BY <2>1, <2>2, <2>3, FlowCarried
  <2>5. Flows(session[e], given[e], recv'[e], link'[e], n2)
    BY <2>4, FlowPlace
  <2>6. Flows(session'[e], given[e], recv'[e], link'[e], n2)
    BY <2>2, <2>5, FlowRing DEF Kept
  <2>7. Content(session'[e]) = Content(session[e]) \/ Content(session'[e]) = << >>
    BY <2>2, SameRing, ContentType DEF Kept
  <2> QED
    BY <2>6, <2>7 DEF Moves, n2
<1> QED
  BY <1>1 DEF StreamInv, StreamStep

\* What is sent without data
LEMMA ControlSent ==
    ASSUME TypeInv, NEW e \in End, NEW f \in Frame, ~IsData(f), UNCHANGED used,
           SendFrame(e, f) \/ UNCHANGED link
    PROVE  \A d \in End : Carries(link[d], used.sent[OtherEnd(d)],
                                  link'[d], used'.sent[OtherEnd(d)])
<1>1. CASE UNCHANGED link
  BY <1>1 DEF Carries
<1>2. CASE link' = [link EXCEPT ![OtherEnd(e)] = Append(@, f)]
  <2>1. << f >> \in Seq(Frame) /\ Len(<< f >>) = 1 /\ << f >>[1] = f
    OBVIOUS
  <2>2. \A i \in 1 .. Len(<< f >>) : ~IsData(<< f >>[i])
    BY <2>1
  <2>3. ASSUME NEW d \in End PROVE link'[d] = link[d] \/ link'[d] = link[d] \o << f >>
    <3>1. link[d] \in Seq(Frame) /\ OtherEnd(e) \in End
      BY DEF TypeInv, TypeOK, OtherEnd
    <3>2. Append(link[d], f) = link[d] \o << f >>
      BY <3>1
    <3>3. link'[d] = link[d] \/ link'[d] = Append(link[d], f)
      BY <1>2, <3>1 DEF TypeInv, TypeOK
    <3> QED
      BY <3>2, <3>3
  <2> QED
    BY <2>1, <2>2, <2>3 DEF Carries
<1> QED
  BY <1>1, <1>2 DEF SendFrame

\* What is sent with data
LEMMA DataSent ==
    ASSUME TypeInv, NEW e \in End, NEW f \in Uih, Up,
           IsData(f), f.first = used.sent[e] + 1,
           SendFrame(e, f), used'.sent = [used.sent EXCEPT ![e] = @ + f.len]
    PROVE  \A d \in End : Carries(link[d], used.sent[OtherEnd(d)],
                                  link'[d], used'.sent[OtherEnd(d)])
<1>1. /\ link' = [link EXCEPT ![OtherEnd(e)] = Append(@, f)]
      /\ link \in [End -> Seq(Frame)] /\ used.sent \in [End -> Nat]
  BY DEF SendFrame, TypeInv, TypeOK
<1> SUFFICES ASSUME NEW d \in End
             PROVE  Carries(link[d], used.sent[OtherEnd(d)],
                            link'[d], used'.sent[OtherEnd(d)])
  OBVIOUS
<1>2. CASE d = e
  <2>1. OtherEnd(d) # e /\ d # OtherEnd(e) /\ OtherEnd(d) \in End
    BY <1>2 DEF OtherEnd
  <2>2. link'[d] = link[d] /\ used'.sent[OtherEnd(d)] = used.sent[OtherEnd(d)]
    BY <1>1, <2>1
  <2> QED
    BY <2>2 DEF Carries
<1>3. CASE d # e
  <2>1. OtherEnd(d) = e /\ d = OtherEnd(e)
    BY <1>3 DEF OtherEnd
  <2>2. link'[d] = Append(link[d], f) /\ used'.sent[e] = used.sent[e] + f.len
    BY <1>1, <2>1
  <2> QED
    BY <2>1, <2>2 DEF Carries
<1> QED
  BY <1>2, <1>3

LEMMA NoData ==
    /\ \A kind \in {"SABM", "UA", "DM", "DISC"}, d \in {0, 1} :
          Ctl(kind, d) \in Frame /\ ~IsData(Ctl(kind, d))
    /\ \A b \in BOOLEAN, n \in Nat : PnResponse(b, n) \in Frame /\ ~IsData(PnResponse(b, n))
    /\ CreditFrame(Grant) \in Frame /\ ~IsData(CreditFrame(Grant))
    /\ LET pn == [kind |-> "PN", cmd |-> TRUE, cbfc |-> TRUE, credits |-> Grant]
       IN  pn \in Frame /\ ~IsData(pn)
<1>1. /\ \A kind \in {"SABM", "UA", "DM", "DISC"}, d \in {0, 1} : ~IsData(Ctl(kind, d))
      /\ \A b \in BOOLEAN, n \in Nat : ~IsData(PnResponse(b, n))
      /\ ~IsData(CreditFrame(Grant))
  BY DEF IsData, Ctl, PnResponse, CreditFrame
<1>2. LET pn == [kind |-> "PN", cmd |-> TRUE, cbfc |-> TRUE, credits |-> Grant]
      IN  pn \in Frame /\ ~IsData(pn)
  BY CreditAssumption DEF Frame, Negotiation, IsData
<1> QED
  BY <1>1, <1>2, FrameKinds, CreditAssumption

\* One session changes, and what matters of its ring does not.
LEMMA OneKept ==
    ASSUME TypeInv, NEW e \in End, NEW s, Kept(session[e], s),
           session' = [session EXCEPT ![e] = s]
    PROVE  \A d \in End : Kept(session[d], session'[d])
BY DEF Kept, TypeInv, TypeOK

\* Fields that are not the ring's
LEMMA FieldsKept ==
    ASSUME NEW r \in SessionState
    PROVE  /\ Kept(r, r)
           /\ \A v : Kept(r, [r EXCEPT !.running = v])
           /\ \A v : Kept(r, [r EXCEPT !.state = v])
           /\ \A v : Kept(r, [r EXCEPT !.local = v])
           /\ \A v : Kept(r, [r EXCEPT !.remote = v])
           /\ \A v : Kept(r, [r EXCEPT !.units = v])
           /\ \A v : Kept(r, [r EXCEPT !.muxUnits = v])
           /\ \A v : Kept(r, [r EXCEPT !.chanUnits = v])
           /\ \A v : Kept(r, [r EXCEPT !.mux = v])
           /\ \A v, w : Kept(r, [r EXCEPT !.mux = v, !.muxUnits = w])
           /\ \A v, w : Kept(r, [r EXCEPT !.cbfc = v, !.local = w])
           /\ \A v, w : Kept(r, [r EXCEPT !.muxUnits = v, !.chanUnits = w])
           /\ Kept(r, DeleteSem(r)) /\ Kept(r, CreateSem(r)) /\ Kept(r, Release(r))
           /\ \A v : Kept(r, [DeleteSem(r) EXCEPT !.state = v])
           /\ \A v : Kept(r, Release([r EXCEPT !.state = v]))
           /\ \A u, v, w : Kept(r, [r EXCEPT !.running = u, !.mux = v, !.sock = w])
BY DEF Kept, SessionState, DeleteSem, CreateSem, Release

LEMMA MainQuiet ==
    ASSUME TypeInv, TypeInv', StreamInv, NEW e \in End,
           \/ e = "I" /\ (PnWake \/ UaWake \/ GrantStore \/ OpenTimeout \/ OpenChannel)
           \/ e = "R" /\ WaitForChannel
           \/ MuxWake(e) \/ CloseChannel(e) \/ CloseWake(e)
           \/ Disconnect(e) \/ DisconnectEnd(e)
           \/ SpendStore(e) \/ Receive(e) \/ ReceiveWake(e) \/ ReceiveFails(e)
    PROVE  StreamInv' /\ StreamStep
<1>1. session[e] \in SessionState /\ UNCHANGED <<recv, used, given>>
  BY EndTypes DEF PnWake, UaWake, GrantStore, OpenTimeout, OpenChannel, WaitForChannel,
                  MuxWake, CloseChannel, CloseWake, Disconnect, DisconnectEnd,
                  SpendStore, Receive, ReceiveWake, ReceiveFails
<1> DEFINE Sent == \A d \in End : Carries(link[d], used.sent[OtherEnd(d)],
                                          link'[d], used'.sent[OtherEnd(d)])
           Rings == \A d \in End : Kept(session[d], session'[d])
<1>2. Sent
  <2>1. UNCHANGED link => Sent
    BY <1>1, NoData, ControlSent
  <2>2. ASSUME NEW f \in Frame, ~IsData(f), SendFrame(e, f) PROVE Sent
    BY <1>1, <2>2, ControlSent
  <2> HIDE DEF Sent
  <2>3. CASE \/ e = "I" /\ (GrantStore \/ OpenTimeout)
             \/ e = "R" /\ WaitForChannel
             \/ MuxWake(e) \/ CloseWake(e) \/ DisconnectEnd(e)
             \/ SpendStore(e) \/ Receive(e) \/ ReceiveWake(e) \/ ReceiveFails(e)
    BY <2>1, <2>3 DEF GrantStore, OpenTimeout, WaitForChannel, MuxWake, CloseWake,
                      DisconnectEnd, SpendStore, Receive, ReceiveWake, ReceiveFails
  <2>4. CASE e = "I" /\ (PnWake \/ UaWake \/ OpenChannel)
    BY <2>1, <2>2, <2>4, NoData DEF PnWake, UaWake, OpenChannel
  <2>5. CASE CloseChannel(e) \/ Disconnect(e)
    BY <2>1, <2>2, <2>5, NoData DEF CloseChannel, Disconnect
  <2> QED
    BY <2>3, <2>4, <2>5
<1>3. Rings
  <2>1. UNCHANGED session => Rings
    BY FieldsKept DEF TypeInv, TypeOK
  <2>2. ASSUME NEW s, Kept(session[e], s), session' = [session EXCEPT ![e] = s]
        PROVE  Rings
    BY <2>2, OneKept
  <2> HIDE DEF Rings
  <2>3. CASE e = "I" /\ OpenChannel
    <3> DEFINE opening == [CreateSem(session["I"]) EXCEPT
                              !.state = "OPENING", !.head = 0, !.tail = 0]
               failed == [DeleteSem(opening) EXCEPT !.state = "CLOSED"]
    <3>1. \/ session' = session
          \/ session' = [session EXCEPT !["I"] = opening]
          \/ session' = [session EXCEPT !["I"] = failed]
      BY <2>3 DEF OpenChannel
    <3>2. CreateSem(session[e]) \in SessionState
      BY <1>1, SemType
    <3>3. Empty(opening) /\ Empty(failed)
      BY <2>3, <3>2 DEF SessionState, Empty, DeleteSem
    <3> QED
      BY <2>1, <2>2, <2>3, <3>1, <3>3 DEF Kept
  <2>4. CASE DisconnectEnd(e)
    <3>1. Empty([NewSession EXCEPT !.sock = FALSE, !.ring = session[e].ring,
                                   !.chan = session[e].chan])
      BY DEF Empty, NewSession
    <3> QED
      BY <2>2, <2>4, <3>1 DEF DisconnectEnd, Kept
  <2>5. CASE e = "I" /\ (PnWake \/ UaWake)
    <3> DEFINE r == [session["I"] EXCEPT !.units = @ - 1]
    <3>1. \/ session' = [session EXCEPT !["I"] = r]
          \/ session' = [session EXCEPT !["I"] = DeleteSem(r)]
          \/ session' = [session EXCEPT !["I"] = [DeleteSem(r) EXCEPT !.state = "CLOSED"]]
      BY <2>5 DEF PnWake, UaWake
    <3>2. r \in SessionState
      BY <1>1, <2>5, UnitTaken DEF PnWake, UaWake
    <3>3. /\ Kept(session[e], r) /\ Kept(r, DeleteSem(r))
          /\ Kept(r, [DeleteSem(r) EXCEPT !.state = "CLOSED"])
      BY <1>1, <2>5, <3>2, FieldsKept
    <3>4. \A x, y, z : Kept(x, y) /\ Kept(y, z) => Kept(x, z)
      BY DEF Kept, Empty
    <3> HIDE DEF r
    <3>5. Kept(session[e], DeleteSem(r)) /\ Kept(session[e], [DeleteSem(r) EXCEPT !.state = "CLOSED"])
      BY <3>3, <3>4
    <3> QED
      BY <2>2, <2>5, <3>1, <3>3, <3>5
  <2>6. CASE e = "I" /\ (GrantStore \/ OpenTimeout)
    <3>1. \/ session' = [session EXCEPT ![e] = [session[e] EXCEPT !.remote = main["I"].loaded + Grant]]
          \/ session' = [session EXCEPT ![e] = [DeleteSem(session[e]) EXCEPT !.state = "CLOSED"]]
      BY <2>6 DEF GrantStore, OpenTimeout
    <3> QED
      BY <1>1, <2>2, <3>1, FieldsKept
  <2>7. CASE e = "R" /\ WaitForChannel
    <3>1. \/ session' = session
          \/ session' = [session EXCEPT ![e] = [session[e] EXCEPT !.chanUnits = session[e].chanUnits - 1]]
      BY <2>7 DEF WaitForChannel
    <3> QED
      BY <1>1, <2>1, <2>2, <3>1, FieldsKept
  <2>8. CASE MuxWake(e) \/ CloseChannel(e) \/ CloseWake(e) \/ Disconnect(e)
    <3>1. \/ session' = session
          \/ session' = [session EXCEPT ![e] = [session[e] EXCEPT !.muxUnits = session[e].muxUnits - 1]]
          \/ session' = [session EXCEPT ![e] = [session[e] EXCEPT !.state = "CLOSING"]]
          \/ session' = [session EXCEPT ![e] = [DeleteSem(session[e]) EXCEPT !.state = "CLOSED"]]
          \/ session' = [session EXCEPT ![e] =
                            [session[e] EXCEPT !.running = FALSE, !.mux = FALSE, !.sock = FALSE]]
      BY <2>8 DEF MuxWake, CloseChannel, CloseWake, Disconnect
    <3> QED
      BY <1>1, <2>1, <2>2, <3>1, FieldsKept
  <2>9. CASE SpendStore(e) \/ Receive(e) \/ ReceiveWake(e) \/ ReceiveFails(e)
    <3>1. \/ session' = session
          \/ session' = [session EXCEPT ![e] = [session[e] EXCEPT !.local = sender[e].loaded - 1]]
          \/ session' = [session EXCEPT ![e] = [session[e] EXCEPT !.units = session[e].units - 1]]
      BY <2>9 DEF SpendStore, Receive, ReceiveWake, ReceiveFails
    <3> QED
      BY <1>1, <2>1, <2>2, <3>1, FieldsKept
  <2> QED
    BY <2>3, <2>4, <2>5, <2>6, <2>7, <2>8, <2>9
<1> QED
  BY <1>1, <1>2, <1>3, QuietStep

\* The receive thread starts.
LEMMA StartQuiet ==
    ASSUME TypeInv, TypeInv', StreamInv,
           \/ Connect
           \/ AcceptFrom
    PROVE  StreamInv' /\ StreamStep
<1>1. UNCHANGED <<used, given>>
  BY DEF Connect, AcceptFrom
<1>2. PICK e \in End : /\ session' = [session EXCEPT ![e] = [session[e] EXCEPT !.running = TRUE]]
                       /\ recv' = [recv EXCEPT ![e] = [recv[e] EXCEPT !.pc = "recv"]]
                       /\ SendFrame("I", Ctl("SABM", 0)) \/ UNCHANGED link
  BY DEF Connect, AcceptFrom
<1>3. session[e] \in SessionState /\ recv[e] \in RecvState /\ recv \in [End -> RecvState]
  BY EndTypes DEF TypeInv, TypeOK
<1>4. \A d \in End : Kept(session[d], session'[d])
  <2>1. Kept(session[e], [session[e] EXCEPT !.running = TRUE])
    BY <1>3, FieldsKept
  <2> QED
    BY <1>2, <2>1, OneKept
<1>5. \A d \in End : recv'[d].left = recv[d].left /\ recv'[d].first = recv[d].first
  BY <1>2, <1>3 DEF RecvState
<1>6. \A d \in End : Carries(link[d], used.sent[OtherEnd(d)], link'[d], used'.sent[OtherEnd(d)])
  <2>1. Ctl("SABM", 0) \in Frame /\ ~IsData(Ctl("SABM", 0))
    BY NoData
  <2> QED
    BY <1>1, <1>2, <2>1, ControlSent
<1> QED
  BY <1>1, <1>4, <1>5, <1>6, QuietStep

LEMMA SendStream ==
    ASSUME TypeInv, TypeInv', StreamInv,
           (\E e \in End : SendData(e)) \/ ForeignSend
    PROVE  StreamInv' /\ StreamStep
<1>1. UNCHANGED <<session, recv, given>>
  BY DEF SendData, ForeignSend
<1>2. /\ used.sent \in [End -> Nat] /\ used \in [sent : [End -> Nat], grants : 0 .. MaxGrants]
      /\ session \in [End -> SessionState]
  BY BoundAssumption DEF TypeInv, TypeOK
<1>3. \A d \in End : Carries(link[d], used.sent[OtherEnd(d)], link'[d], used'.sent[OtherEnd(d)])
  <2>1. ASSUME NEW e \in End, SendData(e)
        PROVE  \A d \in End : Carries(link[d], used.sent[OtherEnd(d)],
                                      link'[d], used'.sent[OtherEnd(d)])
    <3>1. PICK n \in 1 .. MaxFrame :
             /\ used' = [used EXCEPT !.sent[e] = @ + n]
             /\ SendFrame(e, [kind |-> "UIH", credits |-> 0,
                              first |-> used.sent[e] + 1, len |-> n])
      BY <2>1 DEF SendData
    <3> DEFINE f == [kind |-> "UIH", credits |-> 0, first |-> used.sent[e] + 1, len |-> n]
    <3>2. f \in Uih /\ IsData(f) /\ f.first = used.sent[e] + 1 /\ f.len = n
      BY <1>2, BoundAssumption DEF Uih, IsData
    <3>3. used'.sent = [used.sent EXCEPT ![e] = @ + n]
      BY <1>2, <3>1
    <3>4. Up
      BY <2>1 DEF SendData
    <3>5. SendFrame(e, f)
      BY <3>1
    <3> HIDE DEF f
    <3> QED
      BY <3>2, <3>3, <3>4, <3>5, DataSent
  <2>2. ASSUME ForeignSend
        PROVE  \A d \in End : Carries(link[d], used.sent[OtherEnd(d)],
                                      link'[d], used'.sent[OtherEnd(d)])
    <3>1. PICK n \in 0 .. MaxFrame, c \in 0 .. 1 :
             /\ used' = [used EXCEPT !.sent["R"] = @ + n, !.grants = @ + c]
             /\ SendFrame("R", [kind |-> "UIH", credits |-> c,
                                first |-> IF n > 0 THEN used.sent["R"] + 1 ELSE 0, len |-> n])
      BY <2>2 DEF ForeignSend
    <3> DEFINE f == [kind |-> "UIH", credits |-> c,
                     first |-> IF n > 0 THEN used.sent["R"] + 1 ELSE 0, len |-> n]
    <3>2. /\ f \in Uih /\ (n > 0 <=> IsData(f)) /\ (n > 0 => f.first = used.sent["R"] + 1)
          /\ f.len = n
      BY <1>2, BoundAssumption DEF Uih, IsData
    <3>3. used'.sent = [used.sent EXCEPT !["R"] = @ + n]
      BY <1>2, <3>1
    <3>4. Up
      BY <2>2 DEF ForeignSend
    <3>5. SendFrame("R", f)
      BY <3>1
    <3> HIDE DEF f
    <3>6. CASE n > 0
      BY <3>2, <3>3, <3>4, <3>5, <3>6, DataSent
    <3>7. CASE n = 0
      <4>1. used'.sent = used.sent
        BY <1>2, <3>3, <3>7
      <4>2. link' = [link EXCEPT !["I"] = Append(@, f)]
        BY <3>4, <3>5 DEF SendFrame, OtherEnd
      <4>3. << f >> \in Seq(Frame) /\ Len(<< f >>) = 1 /\ << f >>[1] = f
        BY <3>2 DEF Frame
      <4>4. \A i \in 1 .. Len(<< f >>) : ~IsData(<< f >>[i])
        BY <3>2, <3>7, <4>3
      <4>5. ASSUME NEW d \in End PROVE link'[d] = link[d] \/ link'[d] = link[d] \o << f >>
        <5>1. link \in [End -> Seq(Frame)] /\ link[d] \in Seq(Frame)
          BY DEF TypeInv, TypeOK
        <5>2. Append(link[d], f) = link[d] \o << f >>
          BY <4>3, <5>1
        <5> QED
          BY <4>2, <5>1, <5>2
      <4> QED
        BY <4>1, <4>3, <4>4, <4>5 DEF Carries
    <3> QED
      BY <3>6, <3>7
  <2> QED
    BY <2>1, <2>2
<1>4. \A d \in End : Kept(session[d], session'[d])
  BY <1>1, <1>2, FieldsKept
<1>5. \A d \in End : recv'[d].left = recv[d].left /\ recv'[d].first = recv[d].first
  BY <1>1
<1> QED
  BY <1>1, <1>3, <1>4, <1>5, QuietStep

\* The foreign stack reads, or closes; the connection is lost.
LEMMA ForeignQuiet ==
    ASSUME TypeInv, TypeInv', StreamInv, ForeignReceive \/ ForeignClose \/ LinkLost
    PROVE  StreamInv' /\ StreamStep
<1>1. UNCHANGED <<session, recv, given>>
  BY DEF ForeignReceive, ForeignClose, LinkLost
<1>2. used'.sent = used.sent
  BY DEF ForeignReceive, ForeignClose, LinkLost, TypeInv, TypeOK
<1>3. link \in [End -> Seq(Frame)] /\ session \in [End -> SessionState]
  BY DEF TypeInv, TypeOK
<1>4. ASSUME NEW d \in End
      PROVE  Carries(link[d], used.sent[OtherEnd(d)], link'[d], used'.sent[OtherEnd(d)])
  <2>1. CASE ForeignClose
    BY <2>1, ControlSent, NoData DEF ForeignClose
  <2>2. CASE LinkLost
    BY <1>2, <1>3, <2>2 DEF LinkLost, Carries
  <2>3. CASE ForeignReceive
    <3> DEFINE f == Head(link["R"])
    <3>1. link["R"] # << >> /\ f \in Frame
      BY <1>3, <2>3, SMTT(20) DEF ForeignReceive
    <3>2. PICK a : /\ link' = [link EXCEPT !["R"] = Tail(@), !["I"] = @ \o a]
                   /\ \/ a \in {<< >>, << PnResponse(FALSE, 0) >>, << Ctl("DM", 1) >>}
                      \/ f.kind \in {"SABM", "DISC"}
                         /\ a \in {<< Ctl("UA", f.dlci) >>, << Ctl("DM", f.dlci) >>}
                      \/ \E n \in 0 .. MaxGrants - used.grants : a = << PnResponse(TRUE, n) >>
      BY <2>3 DEF ForeignReceive
    <3>3. f.kind \in {"SABM", "DISC"} => f.dlci \in {0, 1}
      BY <3>1, FrameKinds DEF Control
    <3> HIDE DEF f
    <3>4. a = << >> \/ \E g \in Frame : a = << g >> /\ ~IsData(g)
      <4>1. /\ PnResponse(FALSE, 0) \in Frame /\ ~IsData(PnResponse(FALSE, 0))
            /\ Ctl("DM", 1) \in Frame /\ ~IsData(Ctl("DM", 1))
        BY NoData
      <4>2. ASSUME NEW n \in 0 .. MaxGrants - used.grants
            PROVE  PnResponse(TRUE, n) \in Frame /\ ~IsData(PnResponse(TRUE, n))
        <5>1. n \in Nat
          OBVIOUS
        <5> QED
          BY <5>1, NoData
      <4>3. f.kind \in {"SABM", "DISC"} =>
               /\ Ctl("UA", f.dlci) \in Frame /\ ~IsData(Ctl("UA", f.dlci))
               /\ Ctl("DM", f.dlci) \in Frame /\ ~IsData(Ctl("DM", f.dlci))
        BY <3>3, NoData
      <4> QED
        BY <3>2, <4>1, <4>2, <4>3
    <3>5. a \in Seq(Frame) /\ \A i \in 1 .. Len(a) : ~IsData(a[i])
      <4>1. CASE a = << >>
        BY <4>1
      <4>2. ASSUME NEW g \in Frame, a = << g >>, ~IsData(g)
            PROVE  a \in Seq(Frame) /\ \A i \in 1 .. Len(a) : ~IsData(a[i])
        BY <4>2
      <4> QED
        BY <3>4, <4>1, <4>2
    <3>6. link'["R"] = Tail(link["R"]) /\ link'["I"] = link["I"] \o a
      BY <1>3, <3>2
    <3> QED
      BY <1>2, <3>1, <3>5, <3>6 DEF Carries
  <2> QED
    BY <2>1, <2>2, <2>3
<1>5. \A d \in End : Kept(session[d], session'[d])
  BY <1>1, <1>3, FieldsKept
<1>6. \A d \in End : recv'[d].left = recv[d].left /\ recv'[d].first = recv[d].first
  BY <1>1
<1> QED
  BY <1>1, <1>4, <1>5, <1>6, QuietStep

\* The receive thread counts credits, or ends.
LEMMA RecvQuiet ==
    ASSUME TypeInv, TypeInv', StreamInv, NEW e \in End,
           \/ CreditStore(e) \/ UsedLoad(e) \/ UsedStore(e) \/ LowGrant(e) \/ LowStore(e)
           \/ RecvEnd(e)
    PROVE  StreamInv' /\ StreamStep
<1>1. /\ session[e] \in SessionState /\ recv[e] \in RecvState
      /\ recv \in [End -> RecvState] /\ session \in [End -> SessionState]
      /\ UNCHANGED <<used, given>>
  BY EndTypes DEF TypeInv, TypeOK, CreditStore, UsedLoad, UsedStore, LowGrant, LowStore, RecvEnd
<1>2. \A d \in End : \/ recv'[d].left = 0
                     \/ recv'[d].left = recv[d].left /\ recv'[d].first = recv[d].first
  BY <1>1 DEF Receiving, CreditStore, UsedLoad, UsedStore, LowGrant, LowStore, RecvEnd
<1>3. \A d \in End : Carries(link[d], used.sent[OtherEnd(d)], link'[d], used'.sent[OtherEnd(d)])
  <2>1. SendFrame(e, CreditFrame(Grant)) \/ UNCHANGED link
    BY DEF CreditStore, UsedLoad, UsedStore, LowGrant, LowStore, RecvEnd
  <2>2. CreditFrame(Grant) \in Frame /\ ~IsData(CreditFrame(Grant))
    BY NoData
  <2> QED
    BY <1>1, <2>1, <2>2, ControlSent
<1>4. \A d \in End : Kept(session[d], session'[d])
  <2>1. CASE CreditStore(e) \/ UsedLoad(e) \/ UsedStore(e) \/ LowGrant(e) \/ LowStore(e)
    <3>1. \/ session' = session
          \/ \E n : session' = [session EXCEPT ![e] = [session[e] EXCEPT !.local = n]]
          \/ \E n : session' = [session EXCEPT ![e] = [session[e] EXCEPT !.remote = n]]
      BY <2>1 DEF CreditStore, UsedLoad, UsedStore, LowGrant, LowStore
    <3>2. session' = session => \A d \in End : Kept(session[d], session'[d])
      BY <1>1, FieldsKept
    <3>3. \A n : Kept(session[e], [session[e] EXCEPT !.local = n])
      BY <1>1, FieldsKept
    <3>4. \A n : Kept(session[e], [session[e] EXCEPT !.remote = n])
      BY <1>1, FieldsKept
    <3> QED
      BY <3>1, <3>2, <3>3, <3>4, OneKept
  <2>2. CASE RecvEnd(e)
    <3> DEFINE r == Release(session[e])
               s == [r EXCEPT !.muxUnits = r.muxUnits + 1,
                              !.chanUnits = IF e = "R" THEN r.chanUnits + 1 ELSE r.chanUnits]
    <3>1. session' = [session EXCEPT ![e] = s]
      BY <2>2 DEF RecvEnd
    <3>2. r \in SessionState /\ Kept(session[e], r)
      BY <1>1, SemType, FieldsKept
    <3> HIDE DEF r
    <3>3. Kept(r, s)
      BY <3>2, FieldsKept
    <3>4. Kept(session[e], s)
      BY <3>2, <3>3 DEF Kept, Empty
    <3> HIDE DEF s
    <3> QED
      BY <3>1, <3>4, OneKept
  <2> QED
    BY <2>1, <2>2
<1> QED
  BY <1>1, <1>2, <1>3, <1>4, QuietStep

LEMMA HandledKept ==
    ASSUME NEW e \in End, NEW r \in SessionState, NEW f \in Frame
    PROVE  Kept(r, Handled(e, r, f))
<1>1. Kept(r, HandleUa(r, f))
  BY FieldsKept DEF HandleUa
<1>2. Kept(r, HandleDm(r, f))
  BY FieldsKept DEF HandleDm
<1>3. Kept(r, HandleDisc(r, f))
  BY FieldsKept DEF HandleDisc
<1>4. Kept(r, HandleSabm(e, r, f))
  <2>1. f.dlci = 0 => Kept(r, HandleSabm(e, r, f))
    BY FieldsKept DEF HandleSabm
  <2>2. ASSUME NEW s \in SessionState
        PROVE  Empty([s EXCEPT !.state = "OPEN", !.head = 0, !.tail = 0, !.chan = TRUE,
                               !.chanUnits = IF e = "R" THEN @ + 1 ELSE @])
    BY DEF SessionState, Empty
  <2>3. (IF r.sem THEN r ELSE CreateSem(r)) \in SessionState
    BY SemType
  <2>4. f.dlci # 0 => Empty(HandleSabm(e, r, f))
    BY <2>2, <2>3 DEF HandleSabm
  <2> QED
    BY <2>1, <2>4 DEF Kept
<1>5. Kept(r, HandlePnResponse(r, f))
  <2> DEFINE s == IF f.cbfc THEN [r EXCEPT !.cbfc = TRUE, !.local = f.credits] ELSE r
  <2>1. s.head = r.head /\ s.tail = r.tail /\ s.ring = r.ring
    BY DEF SessionState
  <2>2. Release(s).head = s.head /\ Release(s).tail = s.tail /\ Release(s).ring = s.ring
    BY DEF Release, SessionState
  <2> QED
    BY <2>1, <2>2 DEF HandlePnResponse, Kept
<1>6. Kept(r, r)
  BY FieldsKept
<1> QED
  BY <1>1, <1>2, <1>3, <1>4, <1>5, <1>6 DEF Handled

\* The receive thread takes a frame, and answers it.
LEMMA FrameStream ==
    ASSUME TypeInv, TypeInv', StreamInv, NEW e \in End, RecvFrame(e)
    PROVE  StreamInv' /\ StreamStep
<1> DEFINE f == Head(link[e])
           n(d) == used.sent[OtherEnd(d)]
<1>1. /\ session \in [End -> SessionState] /\ recv \in [End -> RecvState]
      /\ link \in [End -> Seq(Frame)] /\ link[e] # << >> /\ f \in Frame
      /\ UNCHANGED <<used, given>> /\ OtherEnd(e) \in End /\ OtherEnd(e) # e
  BY DEF RecvFrame, TypeInv, TypeOK, OtherEnd
<1>2. /\ session' = [session EXCEPT ![e] = Handled(e, session[e], f)]
      /\ link'[e] = Tail(link[e])
      /\ \/ link'[OtherEnd(e)] = link[OtherEnd(e)]
         \/ link'[OtherEnd(e)] = link[OtherEnd(e)] \o Answer(f)
      /\ \A d \in End : d # e => recv'[d] = recv[d]
  BY <1>1 DEF RecvFrame, Receiving
<1>3. \A d \in End : Kept(session[d], session'[d])
  <2>1. Kept(session[e], Handled(e, session[e], f))
    BY <1>1, HandledKept
  <2> QED
    BY <1>2, <2>1, OneKept
<1>4. \/ recv'[e] = recv[e]
      \/ recv'[e].left > 0 =>
            IsData(f) /\ recv'[e].first = f.first /\ recv'[e].left = f.len
  <2>1. CASE f.kind # "UIH"
    BY <1>1, <2>1 DEF RecvFrame
  <2>2. CASE f.kind = "UIH"
    BY <1>1, <2>2 DEF RecvFrame, Receiving, IsData
  <2> QED
    BY <2>1, <2>2
<1>5. recv'[e] \in RecvState /\ \A d \in End : link'[d] \in Seq(Frame) /\ session'[d] \in SessionState
  BY DEF TypeInv, TypeOK
<1>6. ASSUME NEW d \in End
      PROVE  Flows(session[d], given[d], recv'[d], link'[d], n(d))
  <2>1. /\ FlowType(session[d], given[d], recv[d], link[d], n(d))
        /\ Flows(session[d], given[d], recv[d], link[d], n(d)) /\ n(d) \in Nat
    BY FlowTypes DEF StreamInv, FlowType
  <2> HIDE DEF n
  <2>2. CASE d = e /\ recv'[e] = recv[e]
    <3>1. Carries(link[d], n(d), link'[d], n(d))
      BY <1>1, <1>2, <2>2 DEF Carries
    <3> QED
      BY <1>5, <2>1, <2>2, <3>1, FlowCarried
  <2>3. CASE /\ d = e
             /\ recv'[e].left > 0 =>
                   IsData(f) /\ recv'[e].first = f.first /\ recv'[e].left = f.len
    BY <1>1, <1>2, <1>5, <2>1, <2>3, FlowReceived
  <2>4. CASE d # e
    <3>1. d = OtherEnd(e) /\ recv'[d] = recv[d]
      BY <1>2, <2>4 DEF OtherEnd
    <3>2. Answer(f) \in Seq(Frame)
      BY <1>1, AnswerType
    <3>3. \A i \in 1 .. Len(Answer(f)) : ~IsData(Answer(f)[i])
      <4>1. \/ Answer(f) = << >>
            \/ Answer(f) = << Ctl("UA", f.dlci) >>
            \/ Answer(f) = << PnResponse(FALSE, 0) >>
        BY DEF Answer
      <4>2. ~IsData(Ctl("UA", f.dlci)) /\ ~IsData(PnResponse(FALSE, 0))
        BY DEF IsData, Ctl, PnResponse
      <4>3. ASSUME NEW g, ~IsData(g), Answer(f) = << g >>
            PROVE  \A i \in 1 .. Len(Answer(f)) : ~IsData(Answer(f)[i])
        <5>1. \A i \in 1 .. Len(<< g >>) : << g >>[i] = g
          OBVIOUS
        <5> QED
          BY <4>3, <5>1
      <4>4. CASE Answer(f) = << >>
        BY <4>4
      <4> HIDE DEF f
      <4>5. CASE Answer(f) # << >>
        BY <4>1, <4>2, <4>3, <4>5, Zenon
      <4> QED
        BY <4>4, <4>5
    <3>4. Carries(link[d], n(d), link'[d], n(d))
      BY <1>2, <3>1, <3>2, <3>3 DEF Carries
    <3> QED
      BY <1>5, <2>1, <3>1, <3>4, FlowCarried
  <2> QED
    BY <1>4, <2>2, <2>3, <2>4
<1>7. ASSUME NEW d \in End
      PROVE  /\ Flows(session[d], given[d], recv[d], link[d], used.sent[OtherEnd(d)])'
             /\ Moves(Content(session[d]), given[d], Content(session'[d]), given'[d])
  <2>1. Flows(session'[d], given[d], recv'[d], link'[d], n(d))
    BY <1>3, <1>5, <1>6, FlowRing DEF Kept
  <2>2. Content(session'[d]) = Content(session[d]) \/ Content(session'[d]) = << >>
    BY <1>3, <1>5, SameRing, ContentType DEF Kept
  <2> QED
    BY <1>1, <2>1, <2>2 DEF Moves
<1> QED
  BY <1>7 DEF StreamInv, StreamStep

\* A step of one end that only changes its session, its receive thread's place
\* and its user's byte
LEMMA OneFlow ==
    ASSUME TypeInv, TypeInv', StreamInv, NEW e \in End, UNCHANGED <<link, used>>,
           \A d \in End : d # e => /\ session'[d] = session[d] /\ recv'[d] = recv[d]
                                   /\ given'[d] = given[d],
           Flows(session'[e], given'[e], recv'[e], link[e], used.sent[OtherEnd(e)]),
           Moves(Content(session[e]), given[e], Content(session'[e]), given'[e])
    PROVE  StreamInv' /\ StreamStep
<1>1. ASSUME NEW d \in End
      PROVE  /\ Flows(session[d], given[d], recv[d], link[d], used.sent[OtherEnd(d)])'
             /\ Moves(Content(session[d]), given[d], Content(session'[d]), given'[d])
  <2>1. CASE d = e
    BY <2>1
  <2>2. CASE d # e
    BY <2>2 DEF StreamInv, Moves
  <2> QED
    BY <2>1, <2>2
<1> QED
  BY <1>1 DEF StreamInv, StreamStep

LEMMA EnqueueStream ==
    ASSUME TypeInv, TypeInv', StreamInv, NEW e \in End, Enqueue(e)
    PROVE  StreamInv' /\ StreamStep
<1> DEFINE r == session[e]
           t == recv[e]
           n == used.sent[OtherEnd(e)]
<1>1. /\ session \in [End -> SessionState] /\ recv \in [End -> RecvState]
      /\ r \in SessionState /\ t \in RecvState /\ session'[e] \in SessionState
      /\ FlowType(r, given[e], t, link[e], n) /\ Flows(r, given[e], t, link[e], n)
      /\ UNCHANGED <<link, used, given>>
  BY FlowTypes DEF Enqueue, TypeInv, TypeOK, StreamInv
<1>2. \A d \in End : d # e => session'[d] = session[d] /\ recv'[d] = recv[d]
  BY <1>1 DEF Enqueue, Receiving
<1>3. CASE t.left > 0 /\ ~Full(r)
  <2> DEFINE s == [r EXCEPT !.ring[r.head % RingSize] = t.first, !.head = (@ + 1) % Width]
             u == [pc |-> "enqueue", first |-> t.first + 1, left |-> t.left - 1, loaded |-> 0]
  <2>1. session'[e] = s /\ recv'[e] = u
    BY <1>1, <1>3 DEF Enqueue, Receiving
  <2>2. /\ s.tail = r.tail /\ s.head = (r.head + 1) % Width
        /\ s.ring = [r.ring EXCEPT ![r.head % RingSize] = t.first]
    BY <1>1 DEF SessionState
  <2>3. u.first = t.first + 1 /\ u.left = t.left - 1
    OBVIOUS
  <2>4. s \in SessionState
    BY <1>1, <2>1
  <2>5. t.first \in Nat /\ Distance(r.tail, r.head) <= RingSize
    BY <1>1 DEF Flows, RecvState
  <2> HIDE DEF s, u, r, t
  <2>6. Flows(s, given[e], u, link[e], n)
    BY <1>1, <1>3, <2>2, <2>3, <2>4, FlowPut
  <2>7. Len(Content(r)) < RingSize /\ Content(s) = Append(Content(r), t.first)
    BY <1>1, <1>3, <2>2, <2>4, <2>5, RingPut
  <2>8. Moves(Content(r), given[e], Content(s), given[e])
    <3> DEFINE c == Content(r)
    <3>1. c \in Seq(Nat) /\ Append(c, t.first) \in Seq(Nat)
      BY <1>1, <2>5, ContentType
    <3>2. given[e] < t.first /\ (c # << >> => c[Len(c)] < t.first)
      BY <1>1, <1>3, <3>1 DEF Flows, Older
    <3> HIDE DEF c
    <3>3. /\ Len(Append(c, t.first)) = Len(c) + 1 /\ SubSeq(Append(c, t.first), 1, Len(c)) = c
          /\ Append(c, t.first)[Len(c) + 1] = t.first
      BY <2>5, <3>1
    <3>4. given[e] \in Nat /\ (c # << >> => c[Len(c)] \in Nat)
      BY <1>1, <3>1 DEF FlowType
    <3>5. t.first > IF c = << >> THEN given[e] ELSE c[Len(c)]
      BY <2>5, <3>2, <3>4
    <3> QED
      BY <2>7, <3>3, <3>5 DEF Moves, c
  <2> QED
    BY <1>1, <1>2, <2>1, <2>6, <2>8, OneFlow DEF r
<1>4. CASE ~(t.left > 0 /\ ~Full(r))
  <2>1. session'[e] = Release(r) /\ recv'[e].left = 0
    BY <1>1, <1>4 DEF Enqueue, Receiving, Wake
  <2>2. Kept(r, Release(r))
    BY <1>1, FieldsKept
  <2> HIDE DEF r, t, n
  <2>3. Flows(session'[e], given[e], recv'[e], link[e], n)
    BY <1>1, <2>1, <2>2, FlowRing, FlowPlace DEF Kept
  <2>4. Content(session'[e]) = Content(r) \/ Content(session'[e]) = << >>
    BY <1>1, <2>1, <2>2, SameRing, ContentType DEF Kept
  <2>5. Moves(Content(r), given[e], Content(session'[e]), given'[e])
    BY <1>1, <2>4 DEF Moves
  <2> QED
    BY <1>1, <1>2, <2>3, <2>5, OneFlow DEF r, n
<1> QED
  BY <1>3, <1>4

LEMMA CopyStream ==
    ASSUME TypeInv, TypeInv', StreamInv, NEW e \in End, Copy(e)
    PROVE  StreamInv' /\ StreamStep
<1> DEFINE r == session[e]
           t == recv[e]
           n == used.sent[OtherEnd(e)]
<1>1. /\ session \in [End -> SessionState] /\ given \in [End -> Nat]
      /\ r \in SessionState /\ session'[e] \in SessionState
      /\ FlowType(r, given[e], t, link[e], n) /\ Flows(r, given[e], t, link[e], n)
      /\ UNCHANGED <<link, used, recv>>
  BY FlowTypes DEF Copy, TypeInv, TypeOK, StreamInv
<1>2. \A d \in End : d # e => session'[d] = session[d] /\ given'[d] = given[d]
  BY <1>1 DEF Copy
<1>3. CASE session'[e] = r /\ given'[e] = given[e]
  <2>1. Moves(Content(r), given[e], Content(session'[e]), given'[e])
    BY <1>3 DEF Moves
  <2> QED
    BY <1>1, <1>2, <1>3, <2>1, OneFlow
<1>4. CASE /\ ~Empty(r)
           /\ session'[e] = [r EXCEPT !.tail = (@ + 1) % Width]
           /\ given'[e] = r.ring[r.tail % RingSize]
  <2> DEFINE s == session'[e]
  <2>1. s.head = r.head /\ s.ring = r.ring /\ s.tail = (r.tail + 1) % Width
    BY <1>1, <1>4 DEF SessionState
  <2> HIDE DEF s, r, t, n
  <2>2. s \in SessionState
    BY <1>1 DEF s
  <2>3. Flows(s, given'[e], t, link[e], n)
    BY <1>1, <1>4, <2>1, <2>2, FlowTake
  <2>4. Moves(Content(r), given[e], Content(s), given'[e])
    BY <1>1, <1>4, <2>1, <2>2, RingTake DEF Moves
  <2> QED
    BY <1>1, <1>2, <2>3, <2>4, OneFlow DEF r, s, t, n
<1> QED
  BY <1>1, <1>3, <1>4 DEF Copy

LEMMA NextStream ==
    ASSUME TypeInv, TypeInv', StreamInv, [Next]_vars
    PROVE  StreamInv' /\ StreamStep
<1>1. CASE Connect \/ AcceptFrom
  BY <1>1, StartQuiet
<1>2. CASE OpenChannel \/ PnWake \/ UaWake \/ GrantStore \/ OpenTimeout
  BY <1>2, MainQuiet
<1>3. CASE WaitForChannel
  BY <1>3, MainQuiet
<1>4. ASSUME NEW e \in End,
             \/ MuxWake(e) \/ CloseChannel(e) \/ CloseWake(e)
             \/ Disconnect(e) \/ DisconnectEnd(e)
             \/ SpendStore(e) \/ Receive(e) \/ ReceiveWake(e) \/ ReceiveFails(e)
      PROVE  StreamInv' /\ StreamStep
  BY <1>4, MainQuiet
<1>5. ASSUME NEW e \in End, SendData(e) PROVE StreamInv' /\ StreamStep
  BY <1>5, SendStream
<1>6. ASSUME NEW e \in End, Copy(e) PROVE StreamInv' /\ StreamStep
  BY <1>6, CopyStream
<1>7. ASSUME NEW e \in End, RecvStep(e) \/ RecvEnd(e) PROVE StreamInv' /\ StreamStep
  BY <1>7, FrameStream, EnqueueStream, RecvQuiet DEF RecvStep
<1>8. CASE ForeignSend
  BY <1>8, SendStream
<1>9. CASE ForeignReceive \/ ForeignClose \/ LinkLost
  BY <1>9, ForeignQuiet
<1>10. CASE UNCHANGED vars
  <2>1. UNCHANGED <<session, recv, link, used, given>>
    BY <1>10 DEF vars
  <2> QED
    BY <2>1 DEF StreamInv, StreamStep, Moves
<1> QED
  BY <1>1, <1>2, <1>3, <1>4, <1>5, <1>6, <1>7, <1>8, <1>9, <1>10 DEF Next

LEMMA InitStream ==
    ASSUME TypeInv, Init
    PROVE  StreamInv /\ \A e \in End : Content(session[e]) = << >> /\ given[e] = 0
<1> SUFFICES ASSUME NEW e \in End
             PROVE  /\ Flows(session[e], given[e], recv[e], link[e], used.sent[OtherEnd(e)])
                    /\ Content(session[e]) = << >> /\ given[e] = 0
  BY DEF StreamInv
<1>1. /\ session[e] \in SessionState /\ Empty(session[e]) /\ given[e] = 0
      /\ recv[e].left = 0 /\ link[e] = << >> /\ used.sent[OtherEnd(e)] = 0
  BY EndTypes DEF Init, NewSession, Empty, OtherEnd
<1>2. /\ Content(session[e]) = << >> /\ Len(Content(session[e])) = 0
      /\ Distance(session[e].tail, session[e].head) = 0
  BY <1>1, ContentType, EmptySeq
<1>3. Ordered(<< >>) /\ UpTo(0, << >>) /\ Before(0, << >>)
  BY DEF Ordered, UpTo, Before
<1>4. RingSize \in Nat
  BY Sizes
<1> QED
  BY <1>1, <1>2, <1>3, <1>4 DEF Flows, Older

\* The steps of ByteStream, at each end
LEMMA StreamRefines ==
    ASSUME StreamStep
    PROVE  /\ [StreamI!Next]_<<Buffered("I"), given["I"]>>
           /\ [StreamR!Next]_<<Buffered("R"), given["R"]>>
<1>1. /\ Buffered("I") = Content(session["I"]) /\ Buffered("R") = Content(session["R"])
      /\ Buffered("I")' = Content(session'["I"]) /\ Buffered("R")' = Content(session'["R"])
  BY DEF Buffered, Content
<1>2. /\ Moves(Buffered("I"), given["I"], Buffered("I")', given'["I"])
      /\ Moves(Buffered("R"), given["R"], Buffered("R")', given'["R"])
  BY <1>1 DEF StreamStep
<1>3. [StreamI!Next]_<<Buffered("I"), given["I"]>>
  BY <1>2 DEF Moves, StreamI!Next, StreamI!Put, StreamI!Get, StreamI!Clear, StreamI!Newest
<1>4. [StreamR!Next]_<<Buffered("R"), given["R"]>>
  BY <1>2 DEF Moves, StreamR!Next, StreamR!Put, StreamR!Get, StreamR!Clear, StreamR!Newest
<1> QED
  BY <1>3, <1>4

\* Neither the counters that wrap, nor two threads in the ring without a lock,
\* nor a ring that is emptied under both when a channel opens: _EnqueueData()
\* and Receive() never give a byte twice, out of order or from a slot that was
\* written over, whatever the sizes are.
THEOREM RingIsFifo == Spec => StreamIsFifo
<1>1. Init /\ TypeInv => StreamInv /\ StreamI!Init /\ StreamR!Init
  BY InitStream DEF StreamI!Init, StreamR!Init, Buffered, Content
<1>2. TypeInv /\ TypeInv' /\ StreamInv /\ [Next]_vars =>
         /\ StreamInv'
         /\ [StreamI!Next]_<<Buffered("I"), given["I"]>>
         /\ [StreamR!Next]_<<Buffered("R"), given["R"]>>
  BY NextStream, StreamRefines
<1> QED
  BY <1>1, <1>2, TypeInvariant, PTL DEF Spec, StreamIsFifo, StreamI!Spec, StreamR!Spec

----------------------------------------------------------------------------
\* The states of the data channel at both ends, and the commands on their way

Has(q, f) == \E k \in 1 .. Len(q) : q[k] = f
Once(q, f) == \A k, l \in 1 .. Len(q) : q[k] = f /\ q[l] = f => k = l
\* There is f in q, and no g is before it.
First(q, f, g) == \E k \in 1 .. Len(q) : q[k] = f /\ \A l \in 1 .. Len(q) : q[l] = g => k < l

\* main has not yet asked for the channel; the channel is or may become open.
Beginning(pc) == pc \in {"new", "mux", "ready", "pn"}
Wanted(state, pc) == Beginning(pc) \/ state \in {"OPENING", "OPEN"}

\* The other end has not accepted; it has, although it may have closed since.
Pending(far, p) == ~far /\ ~Has(p, Ctl("UA", 1)) /\ ~Has(p, Ctl("DISC", 1))
Accepted(far, p) == First(p, Ctl("UA", 1), Ctl("DISC", 1)) /\ (far \/ Has(p, Ctl("DISC", 1)))

\* What end I has, by where the call is that opens and closes there (pc), that of end
\* R being at other, with the channel open or being closed there (far), and with
\* p on the way to I, q on the way to R.
Agreed(state, mux, pc, other, far, p, q) ==
    /\ Wanted(state, pc) /\ other = "disc" => Has(p, Ctl("DISC", 1))
    /\ pc = "new" => ~Has(q, Ctl("SABM", 0)) /\ ~Has(p, Ctl("UA", 0)) /\ ~mux
    /\ Beginning(pc) => Pending(far, p) /\ ~Has(q, Ctl("SABM", 1))
    /\ pc \in {"new", "mux", "ready"} => state = "CLOSED"
    /\ state = "OPENING" => Pending(far, p) \/ Accepted(far, p)
    /\ state = "OPEN" => far \/ Has(p, Ctl("DISC", 1))
    /\ Has(q, Ctl("DISC", 1)) \/ Has(q, Ctl("UA", 1)) => ~Wanted(state, pc)
    /\ Has(q, Ctl("SABM", 0)) => /\ ~mux /\ ~Has(p, Ctl("UA", 0)) /\ state = "CLOSED"
                                 /\ pc \in {"mux", "leaving", "joining", "gone"}
    /\ Once(q, Ctl("SABM", 0))
    /\ ~Has(q, Ctl("DM", 1)) /\ ~Has(q, Ctl("DISC", 0))
    /\ ~Has(p, Ctl("SABM", 0)) /\ ~Has(p, Ctl("SABM", 1))

Far == RemoteState \in {"OPEN", "CLOSING"}

AgreeInv ==
    /\ peer.foreign => main["R"].pc = "new" /\ recv["R"].pc = "none"
    /\ Up => Agreed(session["I"].state, session["I"].mux, main["I"].pc, main["R"].pc, Far, link["I"], link["R"])

Kinds == {"SABM", "UA", "DM", "DISC", "UIH", "PN"}
Plain(f) == f.kind \in {"UIH", "PN"}

LEMMA CtlIs ==
    /\ \A k, j \in Kinds, c, d \in {0, 1} : Ctl(k, c) = Ctl(j, d) <=> k = j /\ c = d
    /\ \A f \in Frame : Plain(f) \/ (f.dlci \in {0, 1} /\ f = Ctl(f.kind, f.dlci))
    /\ \A f \in Frame : f.kind \in Kinds
    /\ \A f, k, d : Plain(f) /\ k \in Kinds \ {"UIH", "PN"} => f # Ctl(k, d)
BY DEF Ctl, Frame, Control, Negotiation, Uih, Kinds, Plain

LEMMA HasTail ==
    ASSUME NEW q \in Seq(Frame), q # <<>>
    PROVE  /\ Head(q) \in Frame /\ Tail(q) \in Seq(Frame)
           /\ \A f : Has(Tail(q), f) => Has(q, f)
           /\ \A f : Has(q, f) => Head(q) = f \/ Has(Tail(q), f)
           /\ \A f : Once(q, f) => Once(Tail(q), f)
           /\ \A f : Once(q, f) /\ Head(q) = f => ~Has(Tail(q), f)
           /\ \A f, g : First(q, f, g) => Head(q) # g /\ (Head(q) = f \/ First(Tail(q), f, g))
<1>1. /\ Head(q) \in Frame /\ Tail(q) \in Seq(Frame) /\ Len(Tail(q)) = Len(q) - 1 /\ Len(q) \in Nat /\ Len(q) >= 1
      /\ \A k \in 1 .. Len(q) - 1 : Tail(q)[k] = q[k + 1] /\ k + 1 \in 1 .. Len(q) /\ k + 1 # 1
      /\ Head(q) = q[1] /\ 1 \in 1 .. Len(q)
  OBVIOUS
<1>2. \A k \in 1 .. Len(q) : k = 1 \/ (k - 1 \in 1 .. Len(q) - 1 /\ q[k] = Tail(q)[k - 1])
  BY <1>1
<1>3. \A f : Has(Tail(q), f) => Has(q, f)
  BY <1>1 DEF Has
<1>4. \A f : Has(q, f) => Head(q) = f \/ Has(Tail(q), f)
  BY <1>1, <1>2 DEF Has
<1>5. \A f : Once(q, f) => Once(Tail(q), f)
  <2>1. \A k, l \in 1 .. Len(q) - 1 : k + 1 = l + 1 => k = l
    BY <1>1
  <2> QED
    BY <1>1, <2>1 DEF Once
<1>6. \A f : Once(q, f) /\ Head(q) = f => ~Has(Tail(q), f)
  BY <1>1 DEF Once, Has
<1>7. ASSUME NEW f, NEW g, First(q, f, g)
      PROVE  Head(q) # g /\ (Head(q) = f \/ First(Tail(q), f, g))
  <2>1. PICK k \in 1 .. Len(q) : q[k] = f /\ \A l \in 1 .. Len(q) : q[l] = g => k < l
    BY <1>7 DEF First
  <2>2. Head(q) # g
    BY <1>1, <2>1
  <2>3. CASE k = 1
    BY <1>1, <2>1, <2>2, <2>3
  <2>4. CASE k # 1
    <3>1. k - 1 \in 1 .. Len(Tail(q)) /\ Tail(q)[k - 1] = f
      BY <1>1, <1>2, <2>1, <2>4
    <3>2. \A l \in 1 .. Len(Tail(q)) : Tail(q)[l] = g => k - 1 < l
      BY <1>1, <2>1
    <3> QED
      BY <2>2, <3>1, <3>2 DEF First
  <2> QED
    BY <2>3, <2>4
<1> QED
  BY <1>1, <1>3, <1>4, <1>5, <1>6, <1>7

LEMMA HasAppend ==
    ASSUME NEW q \in Seq(Frame), NEW x \in Frame
    PROVE  /\ Append(q, x) \in Seq(Frame)
           /\ \A f : Has(Append(q, x), f) <=> Has(q, f) \/ x = f
           /\ \A f : Once(q, f) /\ (x = f => ~Has(q, f)) => Once(Append(q, x), f)
           /\ \A f, g : First(q, f, g) => First(Append(q, x), f, g)
           /\ \A g : x # g /\ ~Has(q, g) => First(Append(q, x), x, g)
<1>1. /\ Append(q, x) \in Seq(Frame) /\ Len(Append(q, x)) = Len(q) + 1 /\ Len(q) \in Nat
      /\ \A k \in 1 .. Len(q) + 1 : Append(q, x)[k] = IF k = Len(q) + 1 THEN x ELSE q[k]
      /\ \A k \in 1 .. Len(q) + 1 : k # Len(q) + 1 => k \in 1 .. Len(q)
      /\ \A k \in 1 .. Len(q) : k \in 1 .. Len(q) + 1 /\ k # Len(q) + 1 /\ k < Len(q) + 1
      /\ Len(q) + 1 \in 1 .. Len(q) + 1
  OBVIOUS
<1>2. \A f : Has(Append(q, x), f) <=> Has(q, f) \/ x = f
  BY <1>1 DEF Has
<1>3. \A f : Once(q, f) /\ (x = f => ~Has(q, f)) => Once(Append(q, x), f)
  BY <1>1 DEF Once, Has
<1>4. ASSUME NEW f, NEW g, First(q, f, g) PROVE First(Append(q, x), f, g)
  BY <1>1, <1>4 DEF First
<1>5. ASSUME NEW g, x # g, ~Has(q, g) PROVE First(Append(q, x), x, g)
  BY <1>1, <1>5 DEF First, Has
<1> QED
  BY <1>1, <1>2, <1>3, <1>4, <1>5

\* A frame that opens and closes nothing is sent.
LEMMA PlainSent ==
    ASSUME NEW state, NEW mux, NEW pc, NEW other, NEW far, NEW p \in Seq(Frame), NEW q \in Seq(Frame),
           NEW f \in Frame, Plain(f), Agreed(state, mux, pc, other, far, p, q)
    PROVE  /\ Agreed(state, mux, pc, other, far, Append(p, f), q)
           /\ Agreed(state, mux, pc, other, far, p, Append(q, f))
<1>1. \A k \in {"SABM", "UA", "DM", "DISC"}, d \in {0, 1} : f # Ctl(k, d)
  BY CtlIs DEF Kinds
<1>2. \A k \in {"SABM", "UA", "DM", "DISC"}, d \in {0, 1} :
        (Has(Append(p, f), Ctl(k, d)) <=> Has(p, Ctl(k, d))) /\ (Has(Append(q, f), Ctl(k, d)) <=> Has(q, Ctl(k, d)))
  BY <1>1, HasAppend
<1>3. Once(q, Ctl("SABM", 0)) => Once(Append(q, f), Ctl("SABM", 0))
  BY <1>1, HasAppend
<1>4. First(p, Ctl("UA", 1), Ctl("DISC", 1)) => First(Append(p, f), Ctl("UA", 1), Ctl("DISC", 1))
  BY HasAppend
<1>5. Agreed(state, mux, pc, other, far, Append(p, f), q)
  BY <1>2, <1>4 DEF Agreed, Pending, Accepted
<1>6. Agreed(state, mux, pc, other, far, p, Append(q, f))
  BY <1>2, <1>3 DEF Agreed, Pending, Accepted
<1> QED
  BY <1>5, <1>6

\* The call that opens and closes the channel goes on at end I.
LEMMA CallGoes ==
    ASSUME NEW state, NEW mux, NEW other, NEW far, NEW p \in Seq(Frame), NEW q \in Seq(Frame)
    PROVE  /\ Agreed(state, mux, "new", other, far, p, q)
                => Agreed(state, mux, "mux", other, far, p, Append(q, Ctl("SABM", 0)))
           /\ Agreed(state, mux, "mux", other, far, p, q) /\ mux => Agreed(state, mux, "ready", other, far, p, q)
           /\ Agreed(state, mux, "ready", other, far, p, q) => Agreed("OPENING", mux, "pn", other, far, p, q)
           /\ Agreed(state, mux, "pn", other, far, p, q)
                => Agreed(state, mux, "ua", other, far, p, Append(q, Ctl("SABM", 1)))
           /\ Agreed(state, mux, "ua", other, far, p, q) => Agreed(state, mux, "grant", other, far, p, q)
           /\ \A pc \in {"ua", "grant"} : Agreed(state, mux, pc, other, far, p, q) => Agreed(state, mux, "open", other, far, p, q)
<1>1. \A k \in {"SABM", "UA", "DM", "DISC"}, c, d \in {0, 1} : Ctl("SABM", c) = Ctl(k, d) <=> k = "SABM" /\ c = d
  BY CtlIs DEF Kinds
<1>2. Ctl("SABM", 0) \in Frame /\ Ctl("SABM", 1) \in Frame
  BY FrameKinds
<1>3. \A k \in {"SABM", "UA", "DM", "DISC"}, c, d \in {0, 1} :
         Has(Append(q, Ctl("SABM", c)), Ctl(k, d)) <=> Has(q, Ctl(k, d)) \/ (k = "SABM" /\ c = d)
  BY <1>1, <1>2, HasAppend
<1>4. Agreed(state, mux, "new", other, far, p, q)
        => Agreed(state, mux, "mux", other, far, p, Append(q, Ctl("SABM", 0)))
  <2> SUFFICES ASSUME Agreed(state, mux, "new", other, far, p, q)
               PROVE  Agreed(state, mux, "mux", other, far, p, Append(q, Ctl("SABM", 0)))
    OBVIOUS
  <2>1. Once(Append(q, Ctl("SABM", 0)), Ctl("SABM", 0))
    BY <1>2, HasAppend DEF Agreed
  <2> QED
    BY <1>3, <2>1 DEF Agreed, Wanted, Beginning
<1>5. Agreed(state, mux, "mux", other, far, p, q) /\ mux => Agreed(state, mux, "ready", other, far, p, q)
  BY DEF Agreed, Wanted, Beginning
<1>6. Agreed(state, mux, "ready", other, far, p, q) => Agreed("OPENING", mux, "pn", other, far, p, q)
  BY DEF Agreed, Wanted, Beginning
<1>7. Agreed(state, mux, "pn", other, far, p, q)
        => Agreed(state, mux, "ua", other, far, p, Append(q, Ctl("SABM", 1)))
  <2> SUFFICES ASSUME Agreed(state, mux, "pn", other, far, p, q)
               PROVE  Agreed(state, mux, "ua", other, far, p, Append(q, Ctl("SABM", 1)))
    OBVIOUS
  <2>1. Once(Append(q, Ctl("SABM", 1)), Ctl("SABM", 0))
    BY <1>1, <1>2, HasAppend DEF Agreed
  <2> QED
    BY <1>3, <2>1 DEF Agreed, Wanted, Beginning
<1>8. Agreed(state, mux, "ua", other, far, p, q) => Agreed(state, mux, "grant", other, far, p, q)
  BY DEF Agreed, Wanted, Beginning
<1>9. \A pc \in {"ua", "grant"} : Agreed(state, mux, pc, other, far, p, q) => Agreed(state, mux, "open", other, far, p, q)
  BY DEF Agreed, Wanted, Beginning
<1> QED
  BY <1>4, <1>5, <1>6, <1>7, <1>8, <1>9

\* The call at end I gives up, or closes the channel.
LEMMA CallEnds ==
    ASSUME NEW state, NEW mux, NEW pc, NEW other, NEW far, NEW p \in Seq(Frame), NEW q \in Seq(Frame),
           Agreed(state, mux, pc, other, far, p, q)
    PROVE  /\ pc # "new" => Agreed(state, mux, "leaving", other, far, p, q)
           /\ pc # "new" => Agreed("CLOSED", mux, "leaving", other, far, p, q)
           /\ pc = "open" => Agreed("CLOSING", mux, "disc", other, far, p, Append(q, Ctl("DISC", 1)))
<1>1. \A k \in {"SABM", "UA", "DM", "DISC"}, d \in {0, 1} : Ctl("DISC", 1) = Ctl(k, d) <=> k = "DISC" /\ d = 1
  BY CtlIs DEF Kinds
<1>2. Ctl("DISC", 1) \in Frame
  BY FrameKinds
<1>3. \A k \in {"SABM", "UA", "DM", "DISC"}, d \in {0, 1} :
         Has(Append(q, Ctl("DISC", 1)), Ctl(k, d)) <=> Has(q, Ctl(k, d)) \/ (k = "DISC" /\ d = 1)
  BY <1>1, <1>2, HasAppend
<1>4. Once(Append(q, Ctl("DISC", 1)), Ctl("SABM", 0))
  BY <1>1, <1>2, HasAppend DEF Agreed
<1>5. pc # "new" => Agreed(state, mux, "leaving", other, far, p, q)
  BY DEF Agreed, Wanted, Beginning
<1>6. pc # "new" => Agreed("CLOSED", mux, "leaving", other, far, p, q)
  BY DEF Agreed, Wanted, Beginning
<1>7. pc = "open" => Agreed("CLOSING", mux, "disc", other, far, p, Append(q, Ctl("DISC", 1)))
  BY <1>3, <1>4 DEF Agreed, Wanted, Beginning
<1> QED
  BY <1>5, <1>6, <1>7

\* A command that end I is sent, or sends
LEMMA CtlAdded ==
    ASSUME NEW q \in Seq(Frame), NEW kind \in {"SABM", "UA", "DM", "DISC"}, NEW c \in {0, 1}
    PROVE  /\ Append(q, Ctl(kind, c)) \in Seq(Frame)
           /\ \A k \in {"SABM", "UA", "DM", "DISC"}, d \in {0, 1} :
                Has(Append(q, Ctl(kind, c)), Ctl(k, d)) <=> Has(q, Ctl(k, d)) \/ (k = kind /\ d = c)
           /\ kind # "SABM" /\ Once(q, Ctl("SABM", 0)) => Once(Append(q, Ctl(kind, c)), Ctl("SABM", 0))
           /\ First(q, Ctl("UA", 1), Ctl("DISC", 1)) => First(Append(q, Ctl(kind, c)), Ctl("UA", 1), Ctl("DISC", 1))
           /\ kind = "UA" /\ c = 1 /\ ~Has(q, Ctl("DISC", 1)) => First(Append(q, Ctl(kind, c)), Ctl("UA", 1), Ctl("DISC", 1))
<1>1. \A k \in {"SABM", "UA", "DM", "DISC"}, d \in {0, 1} : Ctl(kind, c) = Ctl(k, d) <=> k = kind /\ d = c
  BY CtlIs DEF Kinds
<1>2. Ctl(kind, c) \in Frame
  BY FrameKinds
<1>3. kind # "SABM" /\ Once(q, Ctl("SABM", 0)) => Once(Append(q, Ctl(kind, c)), Ctl("SABM", 0))
  BY <1>1, <1>2, HasAppend
<1>4. kind = "UA" /\ c = 1 /\ ~Has(q, Ctl("DISC", 1)) => First(Append(q, Ctl(kind, c)), Ctl("UA", 1), Ctl("DISC", 1))
  BY <1>1, <1>2, HasAppend
<1> QED
  BY <1>1, <1>2, <1>3, <1>4, HasAppend

LEMMA OtherGoes ==
    ASSUME NEW state, NEW mux, NEW pc, NEW other, NEW far, NEW p \in Seq(Frame), NEW q \in Seq(Frame),
           Agreed(state, mux, pc, other, far, p, q)
    PROVE  /\ \A to : to # "disc" => Agreed(state, mux, pc, to, far, p, q)
           /\ far => /\ Agreed(state, mux, pc, "disc", far, Append(p, Ctl("DISC", 1)), q)
                     /\ Agreed(state, mux, pc, other, FALSE, Append(p, Ctl("DISC", 1)), q)
           /\ other = "disc" => \A b : Agreed(state, mux, pc, "leaving", b, p, q)
           /\ \A d \in {0, 1} : Agreed(state, mux, pc, other, far, Append(p, Ctl("DM", d)), q)
<1>1. \A to : to # "disc" => Agreed(state, mux, pc, to, far, p, q)
  BY DEF Agreed
<1>2. ASSUME far PROVE /\ Agreed(state, mux, pc, "disc", far, Append(p, Ctl("DISC", 1)), q)
                       /\ Agreed(state, mux, pc, other, FALSE, Append(p, Ctl("DISC", 1)), q)
  BY <1>2, CtlAdded DEF Agreed, Accepted, Pending
<1>3. ASSUME other = "disc", NEW b PROVE Agreed(state, mux, pc, "leaving", b, p, q)
  BY <1>3 DEF Agreed, Accepted, Pending, Wanted
<1>4. ASSUME NEW d \in {0, 1} PROVE Agreed(state, mux, pc, other, far, Append(p, Ctl("DM", d)), q)
  BY <1>4, CtlAdded DEF Agreed, Accepted, Pending
<1> QED
  BY <1>1, <1>2, <1>3, <1>4

\* Frames that end R has taken from its queue, and what it answers.
LEMMA OtherReads ==
    ASSUME NEW state, NEW mux, NEW pc, NEW other, NEW far, NEW p \in Seq(Frame), NEW q \in Seq(Frame), q # <<>>,
           Agreed(state, mux, pc, other, far, p, q)
    PROVE  /\ Agreed(state, mux, pc, other, far, p, Tail(q))
           /\ Head(q) = Ctl("SABM", 0) =>
                /\ Agreed(state, mux, pc, other, far, Append(p, Ctl("UA", 0)), Tail(q))
                /\ Agreed(state, mux, pc, other, FALSE, Append(p, Ctl("UA", 0)), Tail(q))
           /\ Head(q) = Ctl("SABM", 1) => Agreed(state, mux, pc, other, TRUE, Append(p, Ctl("UA", 1)), Tail(q))
           /\ Head(q) = Ctl("DISC", 1) =>
                \A b : Agreed(state, mux, pc, other, b, Append(p, Ctl("UA", 1)), Tail(q))
           /\ Head(q) = Ctl("UA", 1) => \A b : Agreed(state, mux, pc, other, b, p, Tail(q))
           /\ Head(q) # Ctl("DISC", 0) /\ Head(q) # Ctl("DM", 1)
<1>0. Has(q, Head(q))
  BY DEF Has
<1>1. Agreed(state, mux, pc, other, far, p, Tail(q))
  BY HasTail DEF Agreed
<1>2. ASSUME Head(q) = Ctl("SABM", 0)
      PROVE  /\ Agreed(state, mux, pc, other, far, Append(p, Ctl("UA", 0)), Tail(q))
             /\ Agreed(state, mux, pc, other, FALSE, Append(p, Ctl("UA", 0)), Tail(q))
  <2>1. Has(q, Ctl("SABM", 0)) /\ ~Has(Tail(q), Ctl("SABM", 0)) /\ Once(Tail(q), Ctl("SABM", 0))
    BY <1>0, <1>2, HasTail DEF Agreed
  <2>2. \A k \in {"SABM", "UA", "DM", "DISC"}, d \in {0, 1} : Has(Tail(q), Ctl(k, d)) => Has(q, Ctl(k, d))
    BY HasTail
  <2>3. /\ \A k \in {"SABM", "UA", "DM", "DISC"}, d \in {0, 1} :
              Has(Append(p, Ctl("UA", 0)), Ctl(k, d)) <=> Has(p, Ctl(k, d)) \/ (k = "UA" /\ d = 0)
        /\ state = "CLOSED" /\ pc \in {"mux", "leaving", "joining", "gone"}
    BY <2>1, CtlAdded DEF Agreed
  <2>4. Beginning(pc) => Pending(far, Append(p, Ctl("UA", 0))) /\ Pending(FALSE, Append(p, Ctl("UA", 0)))
    BY <2>3 DEF Agreed, Pending
  <2> QED
    BY <2>1, <2>2, <2>3, <2>4 DEF Agreed
<1>3. ASSUME Head(q) = Ctl("SABM", 1)
      PROVE  Agreed(state, mux, pc, other, TRUE, Append(p, Ctl("UA", 1)), Tail(q))
  <2>1. Has(q, Ctl("SABM", 1)) /\ Once(Tail(q), Ctl("SABM", 0))
    BY <1>0, <1>3, HasTail DEF Agreed
  <2>2. \A k \in {"SABM", "UA", "DM", "DISC"}, d \in {0, 1} : Has(Tail(q), Ctl(k, d)) => Has(q, Ctl(k, d))
    BY HasTail
  <2>3. state = "OPENING" => Accepted(TRUE, Append(p, Ctl("UA", 1)))
    BY CtlAdded DEF Agreed, Accepted, Pending
  <2>4. \A k \in {"SABM", "UA", "DM", "DISC"}, d \in {0, 1} :
           Has(Append(p, Ctl("UA", 1)), Ctl(k, d)) <=> Has(p, Ctl(k, d)) \/ (k = "UA" /\ d = 1)
    BY CtlAdded
  <2>5. ~Beginning(pc)
    BY <2>1 DEF Agreed
  <2>6. /\ ~Has(Tail(q), Ctl("DM", 1)) /\ ~Has(Tail(q), Ctl("DISC", 0))
        /\ Has(Tail(q), Ctl("DISC", 1)) \/ Has(Tail(q), Ctl("UA", 1)) => ~Wanted(state, pc)
    BY <2>2 DEF Agreed
  <2>7. Has(Tail(q), Ctl("SABM", 0)) => /\ ~mux /\ ~Has(Append(p, Ctl("UA", 1)), Ctl("UA", 0)) /\ state = "CLOSED"
                                        /\ pc \in {"mux", "leaving", "joining", "gone"}
    BY <2>2, <2>4 DEF Agreed
  <2>8. /\ Wanted(state, pc) /\ other = "disc" => Has(Append(p, Ctl("UA", 1)), Ctl("DISC", 1))
        /\ ~Has(Append(p, Ctl("UA", 1)), Ctl("SABM", 0)) /\ ~Has(Append(p, Ctl("UA", 1)), Ctl("SABM", 1))
    BY <2>4 DEF Agreed
  <2>9. pc \notin {"new", "mux", "ready"}
    BY <2>5 DEF Beginning
  <2> QED
    BY <2>1, <2>3, <2>5, <2>6, <2>7, <2>8, <2>9 DEF Agreed
<1>4. ASSUME Head(q) = Ctl("DISC", 1), NEW b
      PROVE  Agreed(state, mux, pc, other, b, Append(p, Ctl("UA", 1)), Tail(q))
  <2>1. Has(q, Ctl("DISC", 1)) /\ Once(Tail(q), Ctl("SABM", 0))
    BY <1>0, <1>4, HasTail DEF Agreed
  <2>2. \A k \in {"SABM", "UA", "DM", "DISC"}, d \in {0, 1} : Has(Tail(q), Ctl(k, d)) => Has(q, Ctl(k, d))
    BY HasTail
  <2> QED
    BY <2>1, <2>2, CtlAdded DEF Agreed, Wanted, Beginning
<1>5. ASSUME Head(q) = Ctl("UA", 1), NEW b PROVE Agreed(state, mux, pc, other, b, p, Tail(q))
  <2>1. Has(q, Ctl("UA", 1)) /\ Once(Tail(q), Ctl("SABM", 0))
    BY <1>0, <1>5, HasTail DEF Agreed
  <2>2. \A k \in {"SABM", "UA", "DM", "DISC"}, d \in {0, 1} : Has(Tail(q), Ctl(k, d)) => Has(q, Ctl(k, d))
    BY HasTail
  <2> QED
    BY <2>1, <2>2 DEF Agreed, Wanted, Beginning
<1>6. Head(q) # Ctl("DISC", 0) /\ Head(q) # Ctl("DM", 1)
  BY <1>0 DEF Agreed
<1> QED
  BY <1>1, <1>2, <1>3, <1>4, <1>5, <1>6

\* Frames that end I has taken from its queue, and what it answers.
LEMMA CallReads ==
    ASSUME NEW state, NEW mux, NEW pc, NEW other, NEW far, NEW p \in Seq(Frame), NEW q \in Seq(Frame), p # <<>>,
           Agreed(state, mux, pc, other, far, p, q)
    PROVE  /\ Head(p) = Ctl("UA", 0) => Agreed(state, TRUE, pc, other, far, Tail(p), q)
           /\ Head(p) = Ctl("UA", 1) => /\ state = "OPENING" => Agreed("OPEN", mux, pc, other, far, Tail(p), q)
                                        /\ state = "CLOSING" => Agreed("CLOSED", mux, pc, other, far, Tail(p), q)
                                        /\ state # "OPENING" => Agreed(state, mux, pc, other, far, Tail(p), q)
           /\ Head(p) = Ctl("DM", 0) => Agreed(state, FALSE, pc, other, far, Tail(p), q)
           /\ Head(p) = Ctl("DM", 1) => Agreed("CLOSED", mux, pc, other, far, Tail(p), q)
           /\ Head(p) = Ctl("DISC", 0) => Agreed(state, FALSE, pc, other, far, Tail(p), Append(q, Ctl("UA", 0)))
           /\ Head(p) = Ctl("DISC", 1) => Agreed("CLOSED", mux, pc, other, far, Tail(p), Append(q, Ctl("UA", 1)))
           /\ Plain(Head(p)) => Agreed(state, mux, pc, other, far, Tail(p), q)
           /\ Head(p) # Ctl("SABM", 0) /\ Head(p) # Ctl("SABM", 1)
<1> DEFINE kinds == {"SABM", "UA", "DM", "DISC"}
<1>0. Has(p, Head(p))
  BY DEF Has
<1>1. /\ \A k \in kinds, d \in {0, 1} : Has(Tail(p), Ctl(k, d)) => Has(p, Ctl(k, d))
      /\ \A k \in kinds, d \in {0, 1} : Has(p, Ctl(k, d)) => Head(p) = Ctl(k, d) \/ Has(Tail(p), Ctl(k, d))
      /\ First(p, Ctl("UA", 1), Ctl("DISC", 1)) =>
            Head(p) # Ctl("DISC", 1) /\ (Head(p) = Ctl("UA", 1) \/ First(Tail(p), Ctl("UA", 1), Ctl("DISC", 1)))
  BY HasTail
<1>2. \A k, j \in kinds, c, d \in {0, 1} : Ctl(k, c) = Ctl(j, d) <=> k = j /\ c = d
  BY CtlIs DEF Kinds
<1>15. /\ Ctl("UA", 0) # Ctl("UA", 1) /\ Ctl("UA", 0) # Ctl("DISC", 1)
       /\ Ctl("DISC", 0) # Ctl("UA", 1) /\ Ctl("DISC", 0) # Ctl("DISC", 1)
  BY <1>2
<1>3. \A k \in kinds, d \in {0, 1} : Plain(Head(p)) => Head(p) # Ctl(k, d)
  BY CtlIs DEF Kinds
<1>4. ASSUME Head(p) # Ctl("UA", 1) \/ state # "OPENING", Head(p) # Ctl("DISC", 1)
      PROVE  /\ Agreed(state, mux, pc, other, far, Tail(p), q)
             /\ Agreed(state, FALSE, pc, other, far, Tail(p), q)
  <2>1. Has(p, Ctl("DISC", 1)) => Has(Tail(p), Ctl("DISC", 1))
    BY <1>1, <1>4
  <2>2. Pending(far, p) => Pending(far, Tail(p))
    BY <1>1 DEF Pending
  <2>3. state = "OPENING" /\ Accepted(far, p) => Accepted(far, Tail(p))
    BY <1>1, <1>4, <2>1 DEF Accepted
  <2>4. Agreed(state, mux, pc, other, far, Tail(p), q)
    BY <1>1, <2>1, <2>2, <2>3 DEF Agreed
  <2> QED
    BY <2>4 DEF Agreed
<1>5. ASSUME Head(p) = Ctl("UA", 0) PROVE Agreed(state, TRUE, pc, other, far, Tail(p), q)
  <2>1. Agreed(state, mux, pc, other, far, Tail(p), q)
    BY <1>4, <1>5, <1>15
  <2>2. ~Has(q, Ctl("SABM", 0)) /\ pc # "new"
    BY <1>0, <1>5 DEF Agreed
  <2> QED
    BY <2>1, <2>2 DEF Agreed
<1>6. ASSUME Head(p) = Ctl("UA", 1), state = "OPENING" PROVE Agreed("OPEN", mux, pc, other, far, Tail(p), q)
  <2>1. Accepted(far, p) /\ (Has(p, Ctl("DISC", 1)) => Has(Tail(p), Ctl("DISC", 1)))
    BY <1>0, <1>1, <1>2, <1>6 DEF Agreed, Pending
  <2>2. ~Beginning(pc)
    BY <1>0, <1>6 DEF Agreed, Pending
  <2>3. ~Has(q, Ctl("SABM", 0)) /\ pc \notin {"new", "mux", "ready"}
    BY <1>6 DEF Agreed
  <2> QED
    BY <1>1, <1>6, <2>1, <2>2, <2>3 DEF Agreed, Accepted, Wanted
<1>7. ASSUME Head(p) = Ctl("UA", 1), state = "CLOSING" PROVE Agreed("CLOSED", mux, pc, other, far, Tail(p), q)
  <2>1. Agreed(state, mux, pc, other, far, Tail(p), q)
    BY <1>2, <1>4, <1>7
  <2> QED
    BY <2>1, <1>7 DEF Agreed, Wanted
<1>8. ASSUME Head(p) = Ctl("DM", 1) PROVE Agreed("CLOSED", mux, pc, other, far, Tail(p), q)
  <2>1. Agreed(state, mux, pc, other, far, Tail(p), q)
    BY <1>2, <1>4, <1>8
  <2>2. Wanted("CLOSED", pc) => Wanted(state, pc)
    BY DEF Wanted
  <2> QED
    BY <2>1, <2>2 DEF Agreed
<1>9. ASSUME Head(p) = Ctl("DISC", 0) PROVE Agreed(state, FALSE, pc, other, far, Tail(p), Append(q, Ctl("UA", 0)))
  <2>1. Agreed(state, FALSE, pc, other, far, Tail(p), q)
    BY <1>4, <1>9, <1>15
  <2>2. \A k \in kinds, d \in {0, 1} : Has(Append(q, Ctl("UA", 0)), Ctl(k, d)) <=> Has(q, Ctl(k, d)) \/ (k = "UA" /\ d = 0)
    BY CtlAdded
  <2>3. Once(Append(q, Ctl("UA", 0)), Ctl("SABM", 0))
    BY CtlAdded DEF Agreed
  <2> QED
    BY <2>1, <2>2, <2>3 DEF Agreed
<1>10. ASSUME Head(p) = Ctl("DISC", 1) PROVE Agreed("CLOSED", mux, pc, other, far, Tail(p), Append(q, Ctl("UA", 1)))
  <2>1. ~Beginning(pc)
    BY <1>0, <1>10 DEF Agreed, Pending
  <2>2. \A k \in kinds, d \in {0, 1} : Has(Append(q, Ctl("UA", 1)), Ctl(k, d)) <=> Has(q, Ctl(k, d)) \/ (k = "UA" /\ d = 1)
    BY CtlAdded
  <2>3. Once(Append(q, Ctl("UA", 1)), Ctl("SABM", 0))
    BY CtlAdded DEF Agreed
  <2>4. pc # "new"
    BY <2>1 DEF Beginning
  <2> QED
    BY <1>1, <2>1, <2>2, <2>3, <2>4 DEF Agreed, Wanted
<1>11. Head(p) # Ctl("SABM", 0) /\ Head(p) # Ctl("SABM", 1)
  BY <1>0 DEF Agreed
<1>12. Head(p) = Ctl("UA", 1) /\ state # "OPENING" => Agreed(state, mux, pc, other, far, Tail(p), q)
  BY <1>2, <1>4
<1>13. Head(p) = Ctl("DM", 0) => Agreed(state, FALSE, pc, other, far, Tail(p), q)
  BY <1>2, <1>4
<1>14. Plain(Head(p)) => Agreed(state, mux, pc, other, far, Tail(p), q)
  BY <1>3, <1>4
<1> QED
  BY <1>5, <1>6, <1>7, <1>8, <1>9, <1>10, <1>11, <1>12, <1>13, <1>14

\* The fields that the handlers of the receive thread set
LEMMA SemKeeps ==
    ASSUME NEW r \in SessionState
    PROVE  /\ Release(r).state = r.state /\ Release(r).mux = r.mux /\ Release(r).sock = r.sock
           /\ DeleteSem(r).state = r.state /\ DeleteSem(r).mux = r.mux /\ DeleteSem(r).sock = r.sock
           /\ CreateSem(r).state = r.state /\ CreateSem(r).mux = r.mux /\ CreateSem(r).sock = r.sock
BY DEF SessionState, Release, DeleteSem, CreateSem

LEMMA StateSet ==
    ASSUME NEW r \in SessionState, NEW state \in DlciState
    PROVE  /\ Release([r EXCEPT !.state = state]).state = state
           /\ Release([r EXCEPT !.state = state]).mux = r.mux
           /\ Release([r EXCEPT !.state = state]).sock = r.sock
<1>1. /\ [r EXCEPT !.state = state] \in SessionState /\ [r EXCEPT !.state = state].state = state
      /\ [r EXCEPT !.state = state].mux = r.mux /\ [r EXCEPT !.state = state].sock = r.sock
  BY DEF SessionState
<1> QED
  BY <1>1, SemKeeps

LEMMA HandledSets ==
    ASSUME NEW e \in End, NEW r \in SessionState, NEW f \in Frame
    PROVE  LET s == Handled(e, r, f)
           IN  /\ s.sock = r.sock
               /\ Plain(f) => s.state = r.state /\ s.mux = r.mux
               /\ f = Ctl("UA", 0) => s.state = r.state /\ s.mux = TRUE
               /\ f = Ctl("UA", 1) => /\ s.mux = r.mux
                                      /\ s.state = IF r.state = "OPENING" THEN "OPEN"
                                                   ELSE IF r.state = "CLOSING" THEN "CLOSED" ELSE r.state
               /\ f = Ctl("DM", 0) \/ f = Ctl("DISC", 0) => s.state = r.state /\ s.mux = FALSE
               /\ f = Ctl("DM", 1) \/ f = Ctl("DISC", 1) => s.state = "CLOSED" /\ s.mux = r.mux
               /\ f = Ctl("SABM", 0) => s.state = r.state
               /\ f = Ctl("SABM", 1) => s.state = "OPEN"
<1> DEFINE s == Handled(e, r, f)
<1>1. "OPEN" \in DlciState /\ "CLOSED" \in DlciState
  BY DEF DlciState
<1>2. CASE f = Ctl("UA", 0)
  <2>1. s = [r EXCEPT !.mux = TRUE, !.muxUnits = @ + 1]
    BY <1>2 DEF Handled, HandleUa, Ctl
  <2>2. s.sock = r.sock /\ s.state = r.state /\ s.mux = TRUE
    BY <2>1 DEF SessionState
  <2> QED
    BY <1>2, <2>2 DEF Ctl, Plain
<1>3. CASE f = Ctl("UA", 1)
  <2>1. s = IF r.state = "OPENING" THEN Release([r EXCEPT !.state = "OPEN"])
            ELSE IF r.state = "CLOSING" THEN Release([r EXCEPT !.state = "CLOSED"]) ELSE r
    BY <1>3 DEF Handled, HandleUa, Ctl
  <2>2. /\ s.mux = r.mux /\ s.sock = r.sock
        /\ s.state = IF r.state = "OPENING" THEN "OPEN" ELSE IF r.state = "CLOSING" THEN "CLOSED" ELSE r.state
    BY <1>1, <2>1, StateSet
  <2> QED
    BY <1>3, <2>2 DEF Ctl, Plain
<1>4. CASE f = Ctl("DM", 0)
  <2>1. s = [r EXCEPT !.mux = FALSE, !.muxUnits = @ + 1]
    BY <1>4 DEF Handled, HandleDm, Ctl
  <2>2. s.sock = r.sock /\ s.state = r.state /\ s.mux = FALSE
    BY <2>1 DEF SessionState
  <2> QED
    BY <1>4, <2>2 DEF Ctl, Plain
<1>5. CASE f = Ctl("DISC", 0)
  <2>1. s = [r EXCEPT !.mux = FALSE]
    BY <1>5 DEF Handled, HandleDisc, Ctl
  <2>2. s.sock = r.sock /\ s.state = r.state /\ s.mux = FALSE
    BY <2>1 DEF SessionState
  <2> QED
    BY <1>5, <2>2 DEF Ctl, Plain
<1>6. CASE f = Ctl("DM", 1) \/ f = Ctl("DISC", 1)
  <2>1. s = Release([r EXCEPT !.state = "CLOSED"])
    BY <1>6 DEF Handled, HandleDm, HandleDisc, Ctl
  <2>2. s.sock = r.sock /\ s.state = "CLOSED" /\ s.mux = r.mux
    BY <1>1, <2>1, StateSet
  <2> QED
    BY <1>6, <2>2 DEF Ctl, Plain
<1>7. CASE f = Ctl("SABM", 0)
  <2>1. s = [r EXCEPT !.mux = TRUE, !.muxUnits = @ + 1]
    BY <1>7 DEF Handled, HandleSabm, Ctl
  <2>2. s.sock = r.sock /\ s.state = r.state
    BY <2>1 DEF SessionState
  <2> QED
    BY <1>7, <2>2 DEF Ctl, Plain
<1>8. CASE f = Ctl("SABM", 1)
  <2> DEFINE c == IF r.sem THEN r ELSE CreateSem(r)
             n == IF e = "R" THEN c.chanUnits + 1 ELSE c.chanUnits
  <2>1. c \in SessionState /\ c.sock = r.sock
    BY SemType, SemKeeps
  <2>2. s = [c EXCEPT !.state = "OPEN", !.head = 0, !.tail = 0, !.chan = TRUE, !.chanUnits = n]
    BY <1>8 DEF Handled, HandleSabm, Ctl
  <2> HIDE DEF c, n
  <2>3. s.sock = r.sock /\ s.state = "OPEN"
    BY <2>1, <2>2 DEF SessionState
  <2> QED
    BY <1>8, <2>3 DEF Ctl, Plain
<1>9. CASE Plain(f)
  <2> DEFINE c == IF f.cbfc THEN [r EXCEPT !.cbfc = TRUE, !.local = f.credits] ELSE r
  <2>1. CASE f.kind = "PN" /\ ~f.cmd
    <3>1. f.credits \in Nat
      BY <2>1, FrameKinds DEF Negotiation
    <3>2. c \in SessionState /\ c.state = r.state /\ c.mux = r.mux /\ c.sock = r.sock
      BY <3>1 DEF SessionState
    <3>3. s = Release(c)
      BY <2>1 DEF Handled, HandlePnResponse
    <3> HIDE DEF c
    <3>4. s.state = r.state /\ s.mux = r.mux /\ s.sock = r.sock
      BY <3>2, <3>3, SemKeeps
    <3> QED
      BY <1>9, <3>4 DEF Ctl, Plain
  <2>2. CASE ~(f.kind = "PN" /\ ~f.cmd)
    <3>1. s = r
      BY <1>9, <2>2 DEF Handled, Plain
    <3> QED
      BY <1>9, <3>1 DEF Ctl, Plain
  <2> QED
    BY <2>1, <2>2
<1>10. \/ Plain(f) \/ f = Ctl("UA", 0) \/ f = Ctl("UA", 1) \/ f = Ctl("DM", 0) \/ f = Ctl("DM", 1)
       \/ f = Ctl("DISC", 0) \/ f = Ctl("DISC", 1) \/ f = Ctl("SABM", 0) \/ f = Ctl("SABM", 1)
  BY CtlIs DEF Kinds, Plain
<1> QED
  BY <1>2, <1>3, <1>4, <1>5, <1>6, <1>7, <1>8, <1>9, <1>10

LEMMA AnswerIs ==
    ASSUME NEW f \in Frame, NEW q \in Seq(Frame)
    PROVE  /\ \A d \in {0, 1} : f = Ctl("DISC", d) \/ f = Ctl("SABM", d) => q \o Answer(f) = Append(q, Ctl("UA", d))
           /\ \A d \in {0, 1} : f = Ctl("UA", d) \/ f = Ctl("DM", d) => q \o Answer(f) = q
           /\ Plain(f) => q \o Answer(f) = q \/ \E g \in Frame : Plain(g) /\ q \o Answer(f) = Append(q, g)
<1>1. q \o <<>> = q /\ \A g \in Frame : q \o <<g>> = Append(q, g)
  OBVIOUS
<1>2. \A d \in {0, 1} : f = Ctl("DISC", d) \/ f = Ctl("SABM", d) => q \o Answer(f) = Append(q, Ctl("UA", d))
  <2> SUFFICES ASSUME NEW d \in {0, 1}, f = Ctl("DISC", d) \/ f = Ctl("SABM", d)
               PROVE  q \o Answer(f) = Append(q, Ctl("UA", d))
    OBVIOUS
  <2>1. f.kind \in {"DISC", "SABM"} /\ f.dlci = d
    BY DEF Ctl
  <2>2. Answer(f) = <<Ctl("UA", d)>>
    BY <2>1 DEF Answer
  <2> QED
    BY <1>1, <2>2, FrameKinds
<1>3. \A d \in {0, 1} : f = Ctl("UA", d) \/ f = Ctl("DM", d) => q \o Answer(f) = q
  BY <1>1 DEF Answer, Ctl
<1>4. ASSUME Plain(f) PROVE q \o Answer(f) = q \/ \E g \in Frame : Plain(g) /\ q \o Answer(f) = Append(q, g)
  <2>1. Answer(f) = <<>> \/ Answer(f) = <<PnResponse(FALSE, 0)>>
    BY <1>4 DEF Answer, Plain
  <2>2. PnResponse(FALSE, 0) \in Frame /\ Plain(PnResponse(FALSE, 0))
    BY FrameKinds DEF PnResponse, Plain
  <2> QED
    BY <1>1, <2>1, <2>2
<1> QED
  BY <1>2, <1>3, <1>4

\* What is relevant of a step
LEMMA AgreedNow ==
    ASSUME TypeInv, AgreeInv, Up
    PROVE  /\ Agreed(session["I"].state, session["I"].mux, main["I"].pc, main["R"].pc, Far, link["I"], link["R"])
           /\ link["I"] \in Seq(Frame) /\ link["R"] \in Seq(Frame)
           /\ session["I"] \in SessionState /\ session["R"] \in SessionState /\ DOMAIN session = End
           /\ main["I"] \in MainState /\ main["R"] \in MainState /\ DOMAIN main = End
           /\ peer.open \in BOOLEAN /\ DOMAIN link = End
<1>1. Agreed(session["I"].state, session["I"].mux, main["I"].pc, main["R"].pc, Far, link["I"], link["R"])
  BY DEF AgreeInv
<1>2. link["I"] \in Seq(Frame) /\ link["R"] \in Seq(Frame) /\ DOMAIN link = End
  BY DEF TypeInv, TypeOK
<1>3. session["I"] \in SessionState /\ session["R"] \in SessionState /\ DOMAIN session = End
  BY DEF TypeInv, TypeOK
<1>4. main["I"] \in MainState /\ main["R"] \in MainState /\ DOMAIN main = End
  BY DEF TypeInv, TypeOK
<1>5. peer.open \in BOOLEAN
  BY DEF TypeInv, TypeOK
<1> QED
  BY <1>1, <1>2, <1>3, <1>4, <1>5

\* A step by which no end opens or closes anything and only plain frames are sent
LEMMA NothingAgreed ==
    ASSUME TypeInv, AgreeInv,
           Up' => Up, peer'.foreign = peer.foreign, peer'.open = peer.open,
           peer.foreign => main'["R"].pc = main["R"].pc /\ recv'["R"].pc = recv["R"].pc,
           session'["I"].state = session["I"].state, session'["I"].mux = session["I"].mux,
           session'["R"].state = session["R"].state,
           main'["I"].pc = main["I"].pc, main'["R"].pc = main["R"].pc,
           link' = link \/ \E e \in End, f \in Frame : Plain(f) /\ SendFrame(e, f)
    PROVE  AgreeInv'
<1>1. Far' = Far
  BY DEF Far, RemoteState
<1>2. SUFFICES ASSUME Up, Up'
               PROVE  Agreed(session["I"].state, session["I"].mux, main["I"].pc, main["R"].pc, Far, link'["I"], link'["R"])
  BY <1>1 DEF AgreeInv
<1>3. CASE link' = link
  BY <1>2, <1>3, AgreedNow
<1>4. ASSUME NEW e \in End, NEW f \in Frame, Plain(f), SendFrame(e, f)
      PROVE  Agreed(session["I"].state, session["I"].mux, main["I"].pc, main["R"].pc, Far, link'["I"], link'["R"])
  <2>1. \/ link'["I"] = Append(link["I"], f) /\ link'["R"] = link["R"]
        \/ link'["R"] = Append(link["R"], f) /\ link'["I"] = link["I"]
    <3>1. DOMAIN link = End
      BY <1>2, AgreedNow
    <3>2. link' = [link EXCEPT ![OtherEnd(e)] = Append(@, f)]
      BY <1>2, <1>4 DEF SendFrame
    <3>3. CASE e = "I"
      BY <3>1, <3>2, <3>3 DEF OtherEnd
    <3>4. CASE e = "R"
      BY <3>1, <3>2, <3>4 DEF OtherEnd
    <3> QED
      BY <3>3, <3>4
  <2>2. /\ Agreed(session["I"].state, session["I"].mux, main["I"].pc, main["R"].pc, Far, link["I"], link["R"])
        /\ link["I"] \in Seq(Frame) /\ link["R"] \in Seq(Frame)
    BY <1>2, AgreedNow
  <2>3. /\ Agreed(session["I"].state, session["I"].mux, main["I"].pc, main["R"].pc, Far, Append(link["I"], f), link["R"])
        /\ Agreed(session["I"].state, session["I"].mux, main["I"].pc, main["R"].pc, Far, link["I"], Append(link["R"], f))
    BY <1>4, <2>2, PlainSent
  <2> QED
    BY <2>1, <2>3
<1> QED
  BY <1>3, <1>4

\* Steps of the users and of the receive threads, but for RecvFrame
LEMMA DataAgrees ==
    ASSUME TypeInv, AgreeInv, NEW e \in End,
           \/ SendData(e) \/ SpendStore(e) \/ Receive(e) \/ ReceiveWake(e) \/ ReceiveFails(e) \/ Copy(e)
           \/ CreditStore(e) \/ Enqueue(e) \/ UsedLoad(e) \/ UsedStore(e) \/ LowGrant(e) \/ LowStore(e) \/ RecvEnd(e)
    PROVE  AgreeInv'
<1> DEFINE Same(d) == /\ session'[d].state = session[d].state /\ session'[d].mux = session[d].mux
                      /\ session'[d].sock = session[d].sock
<1>0. /\ session \in [End -> SessionState] /\ recv \in [End -> RecvState] /\ main \in [End -> MainState]
      /\ session[e] \in SessionState
  BY DEF TypeInv, TypeOK
<1>1. UNCHANGED <<main, peer, lost>>
  BY DEF SendData, SpendStore, Receive, ReceiveWake, ReceiveFails, Copy, CreditStore, Enqueue, UsedLoad, UsedStore,
         LowGrant, LowStore, RecvEnd
<1>2. \A d \in End : d # e => Same(d)
  BY <1>0 DEF SendData, SpendStore, Receive, ReceiveWake, ReceiveFails, Copy, CreditStore, Enqueue, UsedLoad, UsedStore,
              LowGrant, LowStore, RecvEnd
<1>3. Same(e)
  <2>1. CASE SendData(e) \/ Receive(e) \/ ReceiveFails(e) \/ UsedLoad(e) \/ LowGrant(e)
    BY <2>1 DEF SendData, Receive, ReceiveFails, UsedLoad, LowGrant
  <2>2. CASE SpendStore(e) \/ ReceiveWake(e) \/ CreditStore(e) \/ UsedStore(e) \/ LowStore(e)
    BY <1>0, <2>2 DEF SpendStore, ReceiveWake, CreditStore, UsedStore, LowStore, SessionState
  <2>3. CASE Copy(e)
    BY <1>0, <2>3 DEF Copy, SessionState
  <2>4. CASE Enqueue(e)
    <3>1. \/ session' = [session EXCEPT ![e] = Wake(session[e])]
          \/ \E s, h : session' = [session EXCEPT ![e].ring = s, ![e].head = h]
      BY <1>0, <2>4 DEF Enqueue
    <3>2. CASE session' = [session EXCEPT ![e] = Wake(session[e])]
      BY <1>0, <3>2, SemKeeps DEF Wake
    <3>3. CASE \E s, h : session' = [session EXCEPT ![e].ring = s, ![e].head = h]
      BY <1>0, <3>3 DEF SessionState
    <3> QED
      BY <3>1, <3>2, <3>3
  <2>5. CASE RecvEnd(e)
    <3>1. Release(session[e]) \in SessionState
      BY <1>0, SemType
    <3>2. \E m, c : session'[e] = [Release(session[e]) EXCEPT !.muxUnits = m, !.chanUnits = c]
      BY <1>0, <2>5 DEF RecvEnd
    <3>3. /\ session'[e].state = Release(session[e]).state /\ session'[e].mux = Release(session[e]).mux
          /\ session'[e].sock = Release(session[e]).sock
      BY <3>1, <3>2 DEF SessionState
    <3> QED
      BY <1>0, <3>3, SemKeeps
  <2> QED
    BY <2>1, <2>2, <2>3, <2>4, <2>5
<1>4. \A d \in End : Same(d)
  BY <1>2, <1>3
<1>5. link' = link \/ \E f \in Frame : Plain(f) /\ SendFrame(e, f)
  <2>1. CASE SendData(e)
    <3>1. PICK n \in 1 .. MaxFrame : SendFrame(e, [kind |-> "UIH", credits |-> 0, first |-> used.sent[e] + 1, len |-> n])
      BY <2>1 DEF SendData
    <3>2. used.sent[e] \in Nat /\ MaxFrame \in Nat
      BY BoundAssumption DEF TypeInv, TypeOK
    <3>3. [kind |-> "UIH", credits |-> 0, first |-> used.sent[e] + 1, len |-> n] \in Uih
      BY <3>2 DEF Uih
    <3> QED
      BY <3>1, <3>3 DEF Plain, Frame
  <2>2. CASE LowGrant(e)
    <3>1. CreditFrame(Grant) \in Frame /\ Plain(CreditFrame(Grant))
      BY CreditAssumption, FrameKinds DEF CreditFrame, Plain
    <3> QED
      BY <2>2, <3>1 DEF LowGrant
  <2>3. CASE ~SendData(e) /\ ~LowGrant(e)
    BY <2>3 DEF SpendStore, Receive, ReceiveWake, ReceiveFails, Copy, CreditStore, Enqueue, UsedLoad, UsedStore,
                LowStore, RecvEnd
  <2> QED
    BY <2>1, <2>2, <2>3
<1>6. peer.foreign => recv'["R"].pc = recv["R"].pc
  <2>1. ASSUME peer.foreign, e = "R" PROVE recv' = recv
    <3>1. main["R"].pc = "new" /\ recv["R"].pc = "none"
      BY <2>1 DEF AgreeInv
    <3> QED
      BY <2>1, <3>1 DEF SendData, SpendStore, Receive, ReceiveWake, ReceiveFails, Copy, CreditStore, Enqueue, UsedLoad,
                        UsedStore, LowGrant, LowStore, RecvEnd
  <2>2. ASSUME e = "I" PROVE recv'["R"] = recv["R"]
    <3>1. recv' = recv \/ \E x : recv' = [recv EXCEPT ![e] = x]
      <4>1. CASE SendData(e) \/ SpendStore(e) \/ Receive(e) \/ ReceiveWake(e) \/ ReceiveFails(e) \/ Copy(e)
        BY <4>1 DEF SendData, SpendStore, Receive, ReceiveWake, ReceiveFails, Copy
      <4>2. CASE CreditStore(e) \/ Enqueue(e) \/ UsedLoad(e)
        BY <4>2 DEF CreditStore, Enqueue, UsedLoad, Receiving
      <4>3. CASE UsedStore(e) \/ LowGrant(e) \/ LowStore(e) \/ RecvEnd(e)
        BY <4>3 DEF UsedStore, LowGrant, LowStore, RecvEnd, Receiving
      <4> QED
        BY <4>1, <4>2, <4>3
    <3> QED
      BY <1>0, <2>2, <3>1
  <2> QED
    BY <2>1, <2>2
<1>7. Up' => Up
  <2>1. \A d \in End : session'[d].sock = session[d].sock
    BY <1>4
  <2>2. lost' = lost
    BY <1>1
  <2> QED
    BY <2>1, <2>2 DEF Up
<1>8. /\ peer'.foreign = peer.foreign /\ peer'.open = peer.open
      /\ main'["I"].pc = main["I"].pc /\ main'["R"].pc = main["R"].pc
  BY <1>1
<1> HIDE DEF Same
<1>9. /\ session'["I"].state = session["I"].state /\ session'["I"].mux = session["I"].mux
      /\ session'["R"].state = session["R"].state
  BY <1>4 DEF Same
<1> QED
  BY <1>5, <1>6, <1>7, <1>8, <1>9, NothingAgreed

\* A step that closes a socket, or the connection
LEMMA NothingUp ==
    ASSUME TypeInv, AgreeInv, ~Up', peer'.foreign = peer.foreign,
           peer.foreign => main'["R"].pc = main["R"].pc /\ recv'["R"].pc = recv["R"].pc
    PROVE  AgreeInv'
BY DEF AgreeInv

LEMMA Sent ==
    ASSUME TypeInv, Up, NEW e \in End, NEW f, SendFrame(e, f)
    PROVE  link'[OtherEnd(e)] = Append(link[OtherEnd(e)], f) /\ link'[e] = link[e]
<1>1. DOMAIN link = End
  BY DEF TypeInv, TypeOK
<1>2. link' = [link EXCEPT ![OtherEnd(e)] = Append(@, f)]
  BY DEF SendFrame
<1> QED
  BY <1>1, <1>2 DEF OtherEnd

\* The call at end I goes on: what is left to show of a step then.
LEMMA CallStep ==
    ASSUME TypeInv, AgreeInv, Up' => Up, UNCHANGED peer, recv'["R"] = recv["R"],
           main'["R"] = main["R"], session'["R"] = session["R"],
           Up => Agreed(session'["I"].state, session'["I"].mux, main'["I"].pc, main["R"].pc, Far, link'["I"], link'["R"])
    PROVE  AgreeInv'
<1>1. Far' = Far
  BY DEF Far, RemoteState
<1> QED
  BY <1>1 DEF AgreeInv

\* Connect() and OpenChannel(), and the end of the channel, at end I
LEMMA CallAgrees ==
    ASSUME TypeInv, AgreeInv,
           \/ Connect \/ OpenChannel \/ PnWake \/ UaWake \/ GrantStore \/ OpenTimeout
           \/ MuxWake("I") \/ CloseChannel("I") \/ CloseWake("I")
    PROVE  AgreeInv'
<1> DEFINE i == session["I"]
           now(state, mux, pc, p, q) == Agreed(state, mux, pc, main["R"].pc, Far, p, q)
<1>0. /\ session \in [End -> SessionState] /\ main \in [End -> MainState] /\ i \in SessionState
      /\ recv \in [End -> RecvState]
  BY DEF TypeInv, TypeOK
<1>1. UNCHANGED <<peer, lost>> /\ main'["R"] = main["R"] /\ session'["R"] = session["R"] /\ recv'["R"] = recv["R"]
  <2>1. CASE Connect \/ PnWake \/ OpenTimeout
    BY <1>0, <2>1 DEF Connect, PnWake, OpenTimeout, Go
  <2>2. CASE OpenChannel
    BY <1>0, <2>2 DEF OpenChannel, Go
  <2>3. CASE UaWake \/ GrantStore
    BY <1>0, <2>3 DEF UaWake, GrantStore, Go
  <2>4. CASE MuxWake("I") \/ CloseChannel("I") \/ CloseWake("I")
    BY <1>0, <2>4 DEF MuxWake, CloseChannel, CloseWake, Go
  <2> QED
    BY <2>1, <2>2, <2>3, <2>4
<1>2. OtherEnd("I") = "R"
  BY DEF OtherEnd
<1>3. Up => /\ link["I"] \in Seq(Frame) /\ link["R"] \in Seq(Frame)
            /\ now(i.state, i.mux, main["I"].pc, link["I"], link["R"])
  BY AgreedNow
<1> DEFINE good == /\ session'["I"].sock = i.sock
                   /\ Up => now(session'["I"].state, session'["I"].mux, main'["I"].pc, link'["I"], link'["R"])
<1>4. SUFFICES good
  <2>1. Up' => Up
    BY <1>1, <1>4 DEF Up
  <2> QED
    BY <1>1, <1>4, <2>1, CallStep
<1>5. CASE Connect
  <2>1. /\ session'["I"].sock = i.sock /\ session'["I"].state = i.state /\ session'["I"].mux = i.mux
        /\ main["I"].pc = "new"
    BY <1>0, <1>5 DEF Connect, SessionState
  <2>2. ASSUME Up PROVE now(i.state, i.mux, main'["I"].pc, link'["I"], link'["R"])
    <3>1. main'["I"].pc = "mux"
      BY <1>0, <1>5, <2>2 DEF Connect, Go
    <3>2. link'["R"] = Append(link["R"], Ctl("SABM", 0)) /\ link'["I"] = link["I"]
      BY <1>2, <1>5, <2>2, Sent DEF Connect
    <3>3. now(i.state, i.mux, "mux", link["I"], Append(link["R"], Ctl("SABM", 0)))
      BY <1>3, <2>1, <2>2, CallGoes
    <3> QED
      BY <3>1, <3>2, <3>3
  <2> QED
    BY <2>1, <2>2
<1>6. CASE OpenChannel
  <2>0. main["I"].pc = "ready"
    BY <1>6 DEF OpenChannel
  <2>1. CASE ~i.mux
    <3>1. session' = session /\ link' = link /\ main'["I"].pc = "leaving"
      BY <1>0, <1>6, <2>1 DEF OpenChannel, Go
    <3>2. Up => now(i.state, i.mux, "leaving", link["I"], link["R"])
      BY <1>3, <2>0, CallEnds
    <3> QED
      BY <3>1, <3>2
  <2>2. CASE i.mux
    <3> DEFINE o == [CreateSem(i) EXCEPT !.state = "OPENING", !.head = 0, !.tail = 0]
               x == [DeleteSem(o) EXCEPT !.state = "CLOSED"]
    <3>1. CreateSem(i) \in SessionState
      BY <1>0, SemType
    <3>2. o \in SessionState
      BY <3>1, OpeningType
    <3>3. o.sock = i.sock /\ o.state = "OPENING" /\ o.mux = i.mux
      BY <1>0, <3>1, SemKeeps DEF SessionState
    <3> HIDE DEF o
    <3>4. x.sock = o.sock
      <4>1. DeleteSem(o) \in SessionState /\ DeleteSem(o).sock = o.sock
        BY <3>2, SemType, SemKeeps
      <4> QED
        BY <4>1 DEF SessionState
    <3> HIDE DEF x
    <3>5. session'["I"] = IF Up THEN o ELSE x
      BY <1>0, <1>6, <2>2 DEF OpenChannel, o, x
    <3>6. ASSUME Up PROVE now("OPENING", i.mux, main'["I"].pc, link'["I"], link'["R"])
      <4> DEFINE pn == [kind |-> "PN", cmd |-> TRUE, cbfc |-> TRUE, credits |-> Grant]
      <4>1. pn \in Negotiation
        BY CreditAssumption DEF Negotiation
      <4>2. pn \in Frame /\ Plain(pn)
        BY <4>1 DEF Frame, Plain
      <4>3. main'["I"].pc = "pn" /\ SendFrame("I", pn)
        BY <1>0, <1>6, <2>2, <3>6 DEF OpenChannel, Go
      <4> HIDE DEF pn
      <4>4. link'["R"] = Append(link["R"], pn) /\ link'["I"] = link["I"]
        BY <1>2, <3>6, <4>3, Sent
      <4>5. now("OPENING", i.mux, "pn", link["I"], link["R"])
        BY <1>3, <2>0, <3>6, CallGoes
      <4>6. now("OPENING", i.mux, "pn", link["I"], Append(link["R"], pn))
        BY <1>3, <3>6, <4>2, <4>5, PlainSent
      <4> QED
        BY <4>3, <4>4, <4>6
    <3> QED
      BY <3>3, <3>4, <3>5, <3>6
  <2> QED
    BY <2>1, <2>2
<1>7. CASE PnWake
  <2> DEFINE r == [i EXCEPT !.units = @ - 1]
             x == [DeleteSem(r) EXCEPT !.state = "CLOSED"]
  <2>0. main["I"].pc = "pn" /\ i.units > 0
    BY <1>7 DEF PnWake
  <2>1. r \in SessionState
    BY <1>0, <2>0, UnitTaken
  <2>2. r.sock = i.sock /\ r.state = i.state /\ r.mux = i.mux
    BY <1>0 DEF SessionState
  <2> HIDE DEF r
  <2>3. x.sock = r.sock
    <3>1. DeleteSem(r) \in SessionState /\ DeleteSem(r).sock = r.sock
      BY <2>1, SemType, SemKeeps
    <3> QED
      BY <3>1 DEF SessionState
  <2> HIDE DEF x
  <2>4. session'["I"] = IF Up THEN r ELSE x
    BY <1>0, <1>7 DEF PnWake, r, x
  <2>5. ASSUME Up PROVE now(i.state, i.mux, main'["I"].pc, link'["I"], link'["R"])
    <3>1. main'["I"].pc = "ua"
      BY <1>0, <1>7, <2>5 DEF PnWake, Go
    <3>2. link'["R"] = Append(link["R"], Ctl("SABM", 1)) /\ link'["I"] = link["I"]
      BY <1>2, <1>7, <2>5, Sent DEF PnWake
    <3>3. now(i.state, i.mux, "ua", link["I"], Append(link["R"], Ctl("SABM", 1)))
      BY <1>3, <2>0, <2>5, CallGoes
    <3> QED
      BY <3>1, <3>2, <3>3
  <2> QED
    BY <2>2, <2>3, <2>4, <2>5
<1>8. CASE UaWake
  <2> DEFINE r == [i EXCEPT !.units = @ - 1]
  <2>0. main["I"].pc = "ua" /\ i.units > 0
    BY <1>8 DEF UaWake
  <2>1. r \in SessionState
    BY <1>0, <2>0, UnitTaken
  <2>2. r.sock = i.sock /\ r.state = i.state /\ r.mux = i.mux
    BY <1>0 DEF SessionState
  <2> HIDE DEF r
  <2>3. CASE r.state = "OPEN" /\ r.cbfc
    <3>1. session'["I"] = r /\ main'["I"].pc = "grant" /\ SendFrame("I", CreditFrame(Grant))
      BY <1>0, <1>8, <2>3 DEF UaWake, r
    <3>2. CreditFrame(Grant) \in Frame /\ Plain(CreditFrame(Grant))
      BY CreditAssumption, FrameKinds DEF CreditFrame, Plain
    <3>3. ASSUME Up PROVE now(i.state, i.mux, "grant", link'["I"], link'["R"])
      <4>1. link'["R"] = Append(link["R"], CreditFrame(Grant)) /\ link'["I"] = link["I"]
        BY <1>2, <3>1, <3>3, Sent
      <4>2. now(i.state, i.mux, "grant", link["I"], link["R"])
        BY <1>3, <2>0, <3>3, CallGoes
      <4>3. now(i.state, i.mux, "grant", link["I"], Append(link["R"], CreditFrame(Grant)))
        BY <1>3, <3>2, <3>3, <4>2, PlainSent
      <4> QED
        BY <4>1, <4>3
    <3> QED
      BY <2>2, <3>1, <3>3
  <2>4. CASE r.state = "OPEN" /\ ~r.cbfc
    <3>1. session'["I"] = r /\ main'["I"].pc = "open" /\ link' = link
      BY <1>0, <1>8, <2>4 DEF UaWake, Go, r
    <3>2. Up => now(i.state, i.mux, "open", link["I"], link["R"])
      BY <1>3, <2>0, CallGoes
    <3> QED
      BY <2>2, <3>1, <3>2
  <2>5. CASE r.state # "OPEN"
    <3>1. session'["I"] = DeleteSem(r) /\ main'["I"].pc = "leaving" /\ link' = link
      BY <1>0, <1>8, <2>5 DEF UaWake, Go, r
    <3>2. Up => now(i.state, i.mux, "leaving", link["I"], link["R"])
      BY <1>3, <2>0, CallEnds
    <3> QED
      BY <2>1, <2>2, <3>1, <3>2, SemKeeps
  <2> QED
    BY <2>3, <2>4, <2>5
<1>9. CASE GrantStore
  <2>1. /\ session'["I"].sock = i.sock /\ session'["I"].state = i.state /\ session'["I"].mux = i.mux
        /\ main["I"].pc = "grant" /\ main'["I"].pc = "open" /\ link' = link
    BY <1>0, <1>9 DEF GrantStore, Go, SessionState
  <2>2. Up => now(i.state, i.mux, "open", link["I"], link["R"])
    BY <1>3, <2>1, CallGoes
  <2> QED
    BY <2>1, <2>2
<1>10. CASE OpenTimeout \/ CloseWake("I")
  <2>1. DeleteSem(i) \in SessionState /\ DeleteSem(i).sock = i.sock /\ DeleteSem(i).mux = i.mux
    BY <1>0, SemType, SemKeeps
  <2>2. session'["I"] = [DeleteSem(i) EXCEPT !.state = "CLOSED"] /\ main'["I"].pc = "leaving" /\ link' = link
    BY <1>0, <1>10 DEF OpenTimeout, CloseWake, Go
  <2>3. session'["I"].sock = i.sock /\ session'["I"].state = "CLOSED" /\ session'["I"].mux = i.mux
    BY <2>1, <2>2 DEF SessionState
  <2>4. main["I"].pc # "new"
    BY <1>10 DEF OpenTimeout, CloseWake
  <2>5. Up => now("CLOSED", i.mux, "leaving", link["I"], link["R"])
    BY <1>3, <2>4, CallEnds
  <2> QED
    BY <2>2, <2>3, <2>5
<1>11. CASE MuxWake("I")
  <2>1. /\ session'["I"].sock = i.sock /\ session'["I"].state = i.state /\ session'["I"].mux = i.mux
        /\ main["I"].pc = "mux" /\ link' = link
    BY <1>0, <1>11 DEF MuxWake, SessionState
  <2>2. main'["I"].pc = "leaving" \/ (main'["I"].pc = "ready" /\ i.mux)
    BY <1>0, <1>11 DEF MuxWake, Go
  <2>3. Up => now(i.state, i.mux, "leaving", link["I"], link["R"])
    BY <1>3, <2>1, CallEnds
  <2>4. Up /\ i.mux => now(i.state, i.mux, "ready", link["I"], link["R"])
    BY <1>3, <2>1, CallGoes, ZenonT(40)
  <2> QED
    BY <2>1, <2>2, <2>3, <2>4
<1>12. CASE CloseChannel("I")
  <2>0. main["I"].pc = "open"
    BY <1>12 DEF CloseChannel
  <2>1. CASE i.state # "OPEN"
    <3>1. session' = session /\ link' = link /\ main'["I"].pc = "leaving"
      BY <1>0, <1>12, <2>1 DEF CloseChannel, Go
    <3>2. Up => now(i.state, i.mux, "leaving", link["I"], link["R"])
      BY <1>3, <2>0, CallEnds
    <3> QED
      BY <3>1, <3>2
  <2>2. CASE i.state = "OPEN"
    <3>1. /\ session'["I"].sock = i.sock /\ session'["I"].state = "CLOSING" /\ session'["I"].mux = i.mux
          /\ main'["I"].pc = "disc" /\ SendFrame("I", Ctl("DISC", 1))
      BY <1>0, <1>12, <2>2 DEF CloseChannel, Go, SessionState
    <3>2. Up => link'["R"] = Append(link["R"], Ctl("DISC", 1)) /\ link'["I"] = link["I"]
      BY <1>2, <3>1, Sent
    <3>3. Up => now("CLOSING", i.mux, "disc", link["I"], Append(link["R"], Ctl("DISC", 1)))
      BY <1>3, <2>0, CallEnds
    <3> QED
      BY <3>1, <3>2, <3>3
  <2> QED
    BY <2>1, <2>2
<1> QED
  BY <1>5, <1>6, <1>7, <1>8, <1>9, <1>10, <1>11, <1>12

\* AcceptFrom(), WaitForChannel() and CloseChannel() at end R
LEMMA OtherAgrees ==
    ASSUME TypeInv, AgreeInv,
           AcceptFrom \/ MuxWake("R") \/ WaitForChannel \/ CloseChannel("R") \/ CloseWake("R")
    PROVE  AgreeInv'
<1> DEFINE r == session["R"]
           now(other, far, p, q) == Agreed(session["I"].state, session["I"].mux, main["I"].pc, other, far, p, q)
<1>0. /\ session \in [End -> SessionState] /\ main \in [End -> MainState] /\ r \in SessionState
  BY DEF TypeInv, TypeOK
<1>1. /\ UNCHANGED <<peer, lost>> /\ main'["I"] = main["I"] /\ session'["I"] = session["I"]
      /\ ~peer.foreign
  <2>1. main["R"].pc # "new" => ~peer.foreign
    BY DEF AgreeInv
  <2>2. CASE AcceptFrom
    BY <1>0, <2>2 DEF AcceptFrom, Go, Ours
  <2>3. CASE MuxWake("R") \/ WaitForChannel
    BY <1>0, <2>1, <2>3 DEF MuxWake, WaitForChannel, Go
  <2>4. CASE CloseChannel("R") \/ CloseWake("R")
    BY <1>0, <2>1, <2>4 DEF CloseChannel, CloseWake, Go
  <2> QED
    BY <2>2, <2>3, <2>4
<1>2. OtherEnd("R") = "I"
  BY DEF OtherEnd
<1>3. Up => /\ link["I"] \in Seq(Frame) /\ link["R"] \in Seq(Frame)
            /\ now(main["R"].pc, Far, link["I"], link["R"])
  BY AgreedNow
<1>f. Far = (r.state \in {"OPEN", "CLOSING"}) /\ Far' = (session'["R"].state \in {"OPEN", "CLOSING"})
  BY <1>1 DEF Far, RemoteState
<1> HIDE DEF now
<1>4. SUFFICES /\ session'["R"].sock = r.sock
               /\ Up => now(main'["R"].pc, Far', link'["I"], link'["R"])
  <2>1. Up' => Up
    BY <1>1, <1>4 DEF Up
  <2>2. ~peer'.foreign
    BY <1>1
  <2> QED
    BY <1>1, <1>4, <2>1, <2>2 DEF AgreeInv, now
<1>5. CASE AcceptFrom \/ MuxWake("R") \/ WaitForChannel
  <2>1. /\ session'["R"].sock = r.sock /\ session'["R"].state = r.state
        /\ main'["R"].pc # "disc" /\ link' = link
    <3>1. CASE AcceptFrom
      BY <1>0, <3>1 DEF AcceptFrom, SessionState, Go
    <3>2. CASE MuxWake("R")
      BY <1>0, <3>2 DEF MuxWake, SessionState, Go
    <3>3. CASE WaitForChannel
      BY <1>0, <3>3 DEF WaitForChannel, SessionState, Go
    <3> QED
      BY <1>5, <3>1, <3>2, <3>3
  <2>2. Far' = Far
    BY <1>f, <2>1
  <2>3. Up => now(main'["R"].pc, Far, link["I"], link["R"])
    BY <1>3, <2>1, OtherGoes DEF now
  <2> QED
    BY <2>1, <2>2, <2>3
<1>6. CASE CloseChannel("R")
  <2>1. CASE r.state # "OPEN"
    <3>1. session' = session /\ main'["R"].pc = "leaving" /\ link' = link
      BY <1>0, <1>6, <2>1 DEF CloseChannel, Go
    <3>2. Far' = Far
      BY <1>f, <3>1
    <3>3. Up => now("leaving", Far, link["I"], link["R"])
      BY <1>3, OtherGoes DEF now
    <3> QED
      BY <3>1, <3>2, <3>3
  <2>2. CASE r.state = "OPEN"
    <3>1. /\ session'["R"].sock = r.sock /\ session'["R"].state = "CLOSING"
          /\ main'["R"].pc = "disc" /\ SendFrame("R", Ctl("DISC", 1))
      BY <1>0, <1>6, <2>2 DEF CloseChannel, Go, SessionState
    <3>2. Far = TRUE /\ Far' = TRUE
      BY <1>f, <2>2, <3>1
    <3>3. Up => link'["I"] = Append(link["I"], Ctl("DISC", 1)) /\ link'["R"] = link["R"]
      BY <1>2, <3>1, Sent
    <3>4. Up => now("disc", Far', Append(link["I"], Ctl("DISC", 1)), link["R"])
      BY <1>3, <3>2, OtherGoes DEF now
    <3> QED
      BY <3>1, <3>2, <3>3, <3>4
  <2> QED
    BY <2>1, <2>2
<1>7. CASE CloseWake("R")
  <2>1. DeleteSem(r) \in SessionState /\ DeleteSem(r).sock = r.sock
    BY <1>0, SemType, SemKeeps
  <2>2. session'["R"] = [DeleteSem(r) EXCEPT !.state = "CLOSED"] /\ main'["R"].pc = "leaving" /\ link' = link
    BY <1>0, <1>7 DEF CloseWake, Go
  <2>3. session'["R"].sock = r.sock /\ session'["R"].state = "CLOSED"
    BY <2>1, <2>2 DEF SessionState
  <2>4. main["R"].pc = "disc"
    BY <1>7 DEF CloseWake
  <2>5. Up => now("leaving", Far', link["I"], link["R"])
    BY <1>3, <2>4, OtherGoes DEF now
  <2> QED
    BY <2>2, <2>3, <2>5
<1> QED
  BY <1>5, <1>6, <1>7

\* The end of a session, or of the connection
LEMMA EndAgrees ==
    ASSUME TypeInv, AgreeInv, LinkLost \/ \E e \in End : Disconnect(e) \/ DisconnectEnd(e)
    PROVE  AgreeInv'
<1>0. /\ session \in [End -> SessionState] /\ main \in [End -> MainState] /\ recv \in [End -> RecvState]
  BY DEF TypeInv, TypeOK
<1>1. CASE LinkLost
  BY <1>1, NothingUp DEF LinkLost, Up
<1>2. ASSUME NEW e \in End, Disconnect(e) \/ DisconnectEnd(e) PROVE AgreeInv'
  <2>1. ~session'[e].sock
    <3>1. CASE Disconnect(e)
      BY <1>0, <3>1 DEF Disconnect, SessionState
    <3>2. CASE DisconnectEnd(e)
      BY <1>0, <3>2 DEF DisconnectEnd, NewSession
    <3> QED
      BY <1>2, <3>1, <3>2
  <2>2. UNCHANGED peer /\ (e = "I" => main'["R"] = main["R"]) /\ recv' = recv /\ main[e].pc # "new"
    BY <1>0, <1>2 DEF Disconnect, DisconnectEnd, Go
  <2>3. peer.foreign => e = "I"
    BY <2>2 DEF AgreeInv
  <2>4. ~Up'
    BY <2>1 DEF Up
  <2> QED
    BY <2>2, <2>3, <2>4, NothingUp
<1> QED
  BY <1>1, <1>2

\* _ParseFrame() at end I
LEMMA CallReadsAgrees ==
    ASSUME TypeInv, AgreeInv, RecvFrame("I")
    PROVE  AgreeInv'
<1> DEFINE i == session["I"]
           f == Head(link["I"])
           s == Handled("I", i, f)
           now(state, mux, p, q) == Agreed(state, mux, main["I"].pc, main["R"].pc, Far, p, q)
<1>0. /\ session \in [End -> SessionState] /\ recv \in [End -> RecvState] /\ i \in SessionState
      /\ link \in [End -> Seq(Frame)] /\ link["I"] # <<>> /\ f \in Frame /\ link["R"] \in Seq(Frame)
      /\ Tail(link["I"]) \in Seq(Frame)
  BY DEF TypeInv, TypeOK, RecvFrame
<1>1. UNCHANGED <<peer, lost, main>> /\ session'["R"] = session["R"] /\ session'["I"] = s
  BY <1>0 DEF RecvFrame
<1>2. recv'["R"] = recv["R"]
  BY <1>0 DEF RecvFrame, Receiving
<1>3. Up => link'["I"] = Tail(link["I"]) /\ link'["R"] = link["R"] \o Answer(f)
  BY <1>0 DEF RecvFrame, OtherEnd
<1>4. Up => now(i.state, i.mux, link["I"], link["R"])
  BY AgreedNow
<1> HIDE DEF now, f, i
<1>5. /\ s.sock = i.sock
      /\ Plain(f) => s.state = i.state /\ s.mux = i.mux
      /\ f = Ctl("UA", 0) => s.state = i.state /\ s.mux = TRUE
      /\ f = Ctl("UA", 1) => /\ s.mux = i.mux
                             /\ s.state = IF i.state = "OPENING" THEN "OPEN"
                                          ELSE IF i.state = "CLOSING" THEN "CLOSED" ELSE i.state
      /\ f = Ctl("DM", 0) \/ f = Ctl("DISC", 0) => s.state = i.state /\ s.mux = FALSE
      /\ f = Ctl("DM", 1) \/ f = Ctl("DISC", 1) => s.state = "CLOSED" /\ s.mux = i.mux
  <2>1. "I" \in End /\ i \in SessionState /\ f \in Frame
    BY <1>0
  <2>2. s.sock = i.sock /\ (Plain(f) => s.state = i.state /\ s.mux = i.mux)
    BY <2>1, HandledSets, ZenonT(40)
  <2>3. f = Ctl("UA", 0) => s.state = i.state /\ s.mux = TRUE
    BY <2>1, HandledSets
  <2>4. f = Ctl("UA", 1) => s.mux = i.mux
    BY <2>1, HandledSets
  <2>5. f = Ctl("UA", 1) => s.state = IF i.state = "OPENING" THEN "OPEN"
                                     ELSE IF i.state = "CLOSING" THEN "CLOSED" ELSE i.state
    BY <2>1, HandledSets
  <2>6. f = Ctl("DM", 0) \/ f = Ctl("DISC", 0) => s.state = i.state /\ s.mux = FALSE
    BY <2>1, HandledSets
  <2>7. f = Ctl("DM", 1) \/ f = Ctl("DISC", 1) => s.state = "CLOSED" /\ s.mux = i.mux
    BY <2>1, HandledSets
  <2> QED
    BY <2>2, <2>3, <2>4, <2>5, <2>6, <2>7
<1> HIDE DEF s
<1> USE DEF i
<1>6. Up' => Up
  BY <1>1, <1>5 DEF Up
<1>7. ASSUME Up PROVE now(s.state, s.mux, Tail(link["I"]), link["R"] \o Answer(f))
  <2>0. now(i.state, i.mux, link["I"], link["R"])
    BY <1>4, <1>7
  <2>1. CASE f = Ctl("UA", 0)
    <3>1. s.state = i.state /\ s.mux = TRUE
      BY <1>5, <2>1
    <3>2. link["R"] \o Answer(f) = link["R"]
      BY <1>0, <2>1, AnswerIs
    <3>3. now(i.state, TRUE, Tail(link["I"]), link["R"])
      BY <1>0, <2>0, <2>1, CallReads DEF now, f
    <3> QED
      BY <3>1, <3>2, <3>3
  <2>2. CASE f = Ctl("UA", 1)
    <3>1. /\ s.mux = i.mux
          /\ s.state = IF i.state = "OPENING" THEN "OPEN" ELSE IF i.state = "CLOSING" THEN "CLOSED" ELSE i.state
      BY <1>5, <2>2
    <3>2. link["R"] \o Answer(f) = link["R"]
      BY <1>0, <2>2, AnswerIs
    <3>3. /\ i.state = "OPENING" => now("OPEN", i.mux, Tail(link["I"]), link["R"])
          /\ i.state = "CLOSING" => now("CLOSED", i.mux, Tail(link["I"]), link["R"])
          /\ i.state # "OPENING" => now(i.state, i.mux, Tail(link["I"]), link["R"])
      BY <1>0, <2>0, <2>2, CallReads DEF now, f
    <3> QED
      BY <3>1, <3>2, <3>3
  <2>3. CASE f = Ctl("DM", 0)
    <3>1. s.state = i.state /\ s.mux = FALSE
      BY <1>5, <2>3
    <3>2. link["R"] \o Answer(f) = link["R"]
      BY <1>0, <2>3, AnswerIs
    <3>3. now(i.state, FALSE, Tail(link["I"]), link["R"])
      BY <1>0, <2>0, <2>3, CallReads DEF now, f
    <3> QED
      BY <3>1, <3>2, <3>3
  <2>4. CASE f = Ctl("DM", 1)
    <3>1. s.state = "CLOSED" /\ s.mux = i.mux
      BY <1>5, <2>4
    <3>2. link["R"] \o Answer(f) = link["R"]
      BY <1>0, <2>4, AnswerIs
    <3>3. now("CLOSED", i.mux, Tail(link["I"]), link["R"])
      BY <1>0, <2>0, <2>4, CallReads DEF now, f
    <3> QED
      BY <3>1, <3>2, <3>3
  <2>5. CASE f = Ctl("DISC", 0)
    <3>1. s.state = i.state /\ s.mux = FALSE
      BY <1>5, <2>5
    <3>2. link["R"] \o Answer(f) = Append(link["R"], Ctl("UA", 0))
      BY <1>0, <2>5, AnswerIs
    <3>3. now(i.state, FALSE, Tail(link["I"]), Append(link["R"], Ctl("UA", 0)))
      BY <1>0, <2>0, <2>5, CallReads DEF now, f
    <3> QED
      BY <3>1, <3>2, <3>3
  <2>6. CASE f = Ctl("DISC", 1)
    <3>1. s.state = "CLOSED" /\ s.mux = i.mux
      BY <1>5, <2>6
    <3>2. link["R"] \o Answer(f) = Append(link["R"], Ctl("UA", 1))
      BY <1>0, <2>6, AnswerIs
    <3>3. now("CLOSED", i.mux, Tail(link["I"]), Append(link["R"], Ctl("UA", 1)))
      BY <1>0, <2>0, <2>6, CallReads DEF now, f
    <3> QED
      BY <3>1, <3>2, <3>3
  <2>7. CASE Plain(f)
    <3>1. s.state = i.state /\ s.mux = i.mux
      BY <1>5, <2>7
    <3>2. now(i.state, i.mux, Tail(link["I"]), link["R"])
      BY <1>0, <2>0, <2>7, CallReads DEF now, f
    <3>3. link["R"] \o Answer(f) = link["R"] \/ \E g \in Frame : Plain(g) /\ link["R"] \o Answer(f) = Append(link["R"], g)
      BY <1>0, <2>7, AnswerIs
    <3>4. \A g \in Frame : Plain(g) => now(i.state, i.mux, Tail(link["I"]), Append(link["R"], g))
      BY <1>0, <3>2, PlainSent DEF now
    <3> QED
      BY <3>1, <3>2, <3>3, <3>4
  <2>8. f # Ctl("SABM", 0) /\ f # Ctl("SABM", 1)
    BY <1>0, <2>0, CallReads DEF now, f
  <2>9. \/ Plain(f) \/ f = Ctl("UA", 0) \/ f = Ctl("UA", 1) \/ f = Ctl("DM", 0) \/ f = Ctl("DM", 1)
        \/ f = Ctl("DISC", 0) \/ f = Ctl("DISC", 1) \/ f = Ctl("SABM", 0) \/ f = Ctl("SABM", 1)
    BY <1>0, CtlIs DEF Kinds, Plain
  <2> QED
    BY <2>1, <2>2, <2>3, <2>4, <2>5, <2>6, <2>7, <2>8, <2>9
<1> QED
  BY <1>1, <1>2, <1>3, <1>6, <1>7, CallStep DEF now

\* End R goes on: what is left to show of a step then.
LEMMA OtherStep ==
    ASSUME TypeInv, AgreeInv, Up' => Up, peer'.foreign = peer.foreign,
           peer.foreign => recv'["R"].pc = recv["R"].pc,
           UNCHANGED main, session'["I"] = session["I"],
           Up => Agreed(session["I"].state, session["I"].mux, main["I"].pc, main["R"].pc, Far', link'["I"], link'["R"])
    PROVE  AgreeInv'
BY DEF AgreeInv

\* _ParseFrame() at end R
LEMMA OtherReadsAgrees ==
    ASSUME TypeInv, AgreeInv, RecvFrame("R")
    PROVE  AgreeInv'
<1> DEFINE r == session["R"]
           f == Head(link["R"])
           s == Handled("R", r, f)
           now(far, p, q) == Agreed(session["I"].state, session["I"].mux, main["I"].pc, main["R"].pc, far, p, q)
<1>0. /\ session \in [End -> SessionState] /\ recv \in [End -> RecvState] /\ r \in SessionState
      /\ link \in [End -> Seq(Frame)] /\ link["R"] # <<>> /\ f \in Frame /\ link["I"] \in Seq(Frame)
      /\ Tail(link["R"]) \in Seq(Frame) /\ link["R"] \in Seq(Frame)
  BY DEF TypeInv, TypeOK, RecvFrame
<1>1. UNCHANGED <<peer, lost, main>> /\ session'["I"] = session["I"] /\ session'["R"] = s
  BY <1>0 DEF RecvFrame
<1>2. ~peer.foreign
  BY DEF RecvFrame, AgreeInv
<1>3. Up => link'["R"] = Tail(link["R"]) /\ link'["I"] = link["I"] \o Answer(f)
  BY <1>0 DEF RecvFrame, OtherEnd
<1>4. Up => now(Far, link["I"], link["R"])
  BY AgreedNow
<1>f. Far = (r.state \in {"OPEN", "CLOSING"}) /\ Far' = (s.state \in {"OPEN", "CLOSING"})
  BY <1>1, <1>2 DEF Far, RemoteState
<1> HIDE DEF now, f, r
<1>5. /\ s.sock = r.sock
      /\ Plain(f) \/ f = Ctl("UA", 0) \/ f = Ctl("DM", 0) \/ f = Ctl("SABM", 0) => s.state = r.state
      /\ f = Ctl("SABM", 1) => s.state = "OPEN"
  <2>1. "R" \in End /\ r \in SessionState /\ f \in Frame
    BY <1>0
  <2>2. s.sock = r.sock
    BY <2>1, HandledSets, ZenonT(40)
  <2>p. Plain(f) => s.state = r.state /\ s.mux = r.mux
    BY <2>1, HandledSets, ZenonT(60)
  <2>3. f = Ctl("UA", 0) => s.state = r.state /\ s.mux = TRUE
    BY <2>1, HandledSets, ZenonT(60)
  <2>m. f = Ctl("SABM", 0) => s.state = r.state
    BY <2>1, HandledSets, ZenonT(60)
  <2>4. f = Ctl("DM", 0) => s.state = r.state
    BY <2>1, HandledSets
  <2>5. f = Ctl("SABM", 1) => s.state = "OPEN"
    BY <2>1, HandledSets
  <2> QED
    BY <2>2, <2>p, <2>3, <2>m, <2>4, <2>5
<1> HIDE DEF s
<1>6. Up' => Up
  BY <1>1, <1>5 DEF Up, r
<1>7. ASSUME Up PROVE now(Far', link["I"] \o Answer(f), Tail(link["R"]))
  <2>0. now(Far, link["I"], link["R"])
    BY <1>4, <1>7
  <2>1. /\ now(Far, link["I"], Tail(link["R"]))
        /\ f # Ctl("DISC", 0) /\ f # Ctl("DM", 1)
    BY <1>0, <2>0, OtherReads DEF now, f
  <2>2. CASE f = Ctl("UA", 0) \/ f = Ctl("DM", 0)
    <3>1. link["I"] \o Answer(f) = link["I"]
      BY <1>0, <2>2, AnswerIs
    <3> QED
      BY <1>5, <1>f, <2>1, <2>2, <3>1
  <2>3. CASE f = Ctl("UA", 1)
    <3>1. link["I"] \o Answer(f) = link["I"]
      BY <1>0, <2>3, AnswerIs
    <3>2. now(Far', link["I"], Tail(link["R"]))
      BY <1>0, <2>0, <2>3, OtherReads DEF now, f
    <3> QED
      BY <3>1, <3>2
  <2>4. CASE f = Ctl("DISC", 1)
    <3>1. link["I"] \o Answer(f) = Append(link["I"], Ctl("UA", 1))
      BY <1>0, <2>4, AnswerIs
    <3>2. now(Far', Append(link["I"], Ctl("UA", 1)), Tail(link["R"]))
      BY <1>0, <2>0, <2>4, OtherReads DEF now, f
    <3> QED
      BY <3>1, <3>2
  <2>5. CASE f = Ctl("SABM", 0)
    <3>1. link["I"] \o Answer(f) = Append(link["I"], Ctl("UA", 0))
      BY <1>0, <2>5, AnswerIs
    <3>2. now(Far, Append(link["I"], Ctl("UA", 0)), Tail(link["R"]))
      BY <1>0, <2>0, <2>5, OtherReads DEF now, f
    <3> QED
      BY <1>5, <1>f, <2>5, <3>1, <3>2
  <2>6. CASE f = Ctl("SABM", 1)
    <3>1. link["I"] \o Answer(f) = Append(link["I"], Ctl("UA", 1))
      BY <1>0, <2>6, AnswerIs
    <3>2. now(TRUE, Append(link["I"], Ctl("UA", 1)), Tail(link["R"]))
      BY <1>0, <2>0, <2>6, OtherReads DEF now, f
    <3>3. Far' = TRUE
      BY <1>5, <1>f, <2>6
    <3> QED
      BY <3>1, <3>2, <3>3
  <2>7. CASE Plain(f)
    <3>1. link["I"] \o Answer(f) = link["I"] \/ \E g \in Frame : Plain(g) /\ link["I"] \o Answer(f) = Append(link["I"], g)
      BY <1>0, <2>7, AnswerIs
    <3>2. \A g \in Frame : Plain(g) => now(Far, Append(link["I"], g), Tail(link["R"]))
      BY <1>0, <2>1, PlainSent DEF now
    <3>3. Far' = Far
      BY <1>5, <1>f, <2>7
    <3> QED
      BY <2>1, <3>1, <3>2, <3>3
  <2>8. \/ Plain(f) \/ f = Ctl("UA", 0) \/ f = Ctl("UA", 1) \/ f = Ctl("DM", 0) \/ f = Ctl("DM", 1)
        \/ f = Ctl("DISC", 0) \/ f = Ctl("DISC", 1) \/ f = Ctl("SABM", 0) \/ f = Ctl("SABM", 1)
    BY <1>0, CtlIs DEF Kinds, Plain
  <2> QED
    BY <2>1, <2>2, <2>3, <2>4, <2>5, <2>6, <2>7, <2>8
<1>8. peer'.foreign = peer.foreign /\ UNCHANGED main
  BY <1>1
<1> QED
  BY <1>1, <1>2, <1>3, <1>6, <1>7, <1>8, OtherStep DEF now

\* Another vendor's stack at end R
LEMMA ForeignAgrees ==
    ASSUME TypeInv, AgreeInv, ForeignReceive \/ ForeignSend \/ ForeignClose
    PROVE  AgreeInv'
<1> DEFINE now(far, p, q) == Agreed(session["I"].state, session["I"].mux, main["I"].pc, main["R"].pc, far, p, q)
<1>0. /\ peer \in [foreign : BOOLEAN, open : BOOLEAN, cbfc : BOOLEAN, credits : Nat]
      /\ link \in [End -> Seq(Frame)] /\ link["R"] \in Seq(Frame) /\ link["I"] \in Seq(Frame)
  BY DEF TypeInv, TypeOK
<1>1. UNCHANGED <<session, main, recv, lost>> /\ peer.foreign /\ Up
  BY DEF ForeignReceive, ForeignSend, ForeignClose
<1>2. now(Far, link["I"], link["R"])
  BY <1>1, AgreedNow
<1>3. peer'.foreign = peer.foreign
  BY <1>0 DEF ForeignReceive, ForeignSend, ForeignClose
<1>p. peer' \in [foreign : BOOLEAN, open : BOOLEAN, cbfc : BOOLEAN, credits : Nat]
  <2>1. TypeInv'
    BY ForeignType
  <2> QED
    BY <2>1 DEF TypeInv, TypeOK
<1>o. (Far <=> peer.open) /\ Far \in BOOLEAN
  BY <1>1 DEF Far, RemoteState
<1>n. (Far' <=> peer'.open) /\ Far' \in BOOLEAN
  BY <1>1, <1>3 DEF Far, RemoteState
<1>q. Far = peer.open
  BY <1>0, <1>o
<1>r. Far' = peer'.open
  BY <1>p, <1>n
<1>f. Far = peer.open /\ Far' = peer'.open
  BY <1>q, <1>r
<1> HIDE DEF now
<1>4. SUFFICES now(Far', link'["I"], link'["R"])
  BY <1>1, <1>3, <1>4, OtherStep DEF now
<1>5. CASE ForeignSend
  <2>1. PICK n \in 0 .. MaxFrame, c \in 0 .. 1 :
           /\ SendFrame("R", [kind |-> "UIH", credits |-> c, first |-> IF n > 0 THEN used.sent["R"] + 1 ELSE 0, len |-> n])
           /\ peer' = IF n > 0 /\ peer.cbfc THEN [peer EXCEPT !.credits = @ - 1] ELSE peer
    BY <1>5 DEF ForeignSend
  <2> DEFINE x == [kind |-> "UIH", credits |-> c, first |-> IF n > 0 THEN used.sent["R"] + 1 ELSE 0, len |-> n]
  <2>2. used.sent["R"] \in Nat /\ MaxFrame \in Nat
    BY BoundAssumption DEF TypeInv, TypeOK
  <2>3. x \in Uih
    BY <2>2 DEF Uih
  <2>4. x \in Frame /\ Plain(x)
    BY <2>3 DEF Frame, Plain
  <2> HIDE DEF x
  <2>5. link'["I"] = Append(link["I"], x) /\ link'["R"] = link["R"]
    BY <1>1, <2>1, Sent DEF x, OtherEnd
  <2>6. Far' = Far
    BY <1>0, <1>f, <2>1
  <2>7. now(Far, Append(link["I"], x), link["R"])
    BY <1>0, <1>2, <2>4, PlainSent DEF now
  <2> QED
    BY <2>5, <2>6, <2>7
<1>6. CASE ForeignClose
  <2>1. SendFrame("R", Ctl("DISC", 1)) /\ Far = TRUE /\ Far' = FALSE
    BY <1>0, <1>f, <1>6 DEF ForeignClose
  <2>2. link'["I"] = Append(link["I"], Ctl("DISC", 1)) /\ link'["R"] = link["R"]
    BY <1>1, <2>1, Sent DEF OtherEnd
  <2>3. now(FALSE, Append(link["I"], Ctl("DISC", 1)), link["R"])
    BY <1>0, <1>2, <2>1, OtherGoes DEF now
  <2> QED
    BY <2>1, <2>2, <2>3
<1>7. CASE ForeignReceive
  <2> DEFINE f == Head(link["R"])
             Replies(q) == link'["R"] = Tail(link["R"]) /\ link'["I"] = q
  <2>1. link["R"] # <<>> /\ f \in Frame /\ Tail(link["R"]) \in Seq(Frame)
    BY <1>0, <1>7, SMTT(20) DEF ForeignReceive
  <2>2. link["I"] \o <<>> = link["I"] /\ \A g \in Frame : link["I"] \o <<g>> = Append(link["I"], g)
    BY <1>0
  <2>3. \/ /\ f.kind = "SABM"
           /\ \/ Replies(link["I"] \o <<Ctl("UA", f.dlci)>>) /\ Far' = (f.dlci = 1)
              \/ Replies(link["I"] \o <<Ctl("DM", f.dlci)>>) /\ Far' = Far
        \/ f.kind = "DISC" /\ Replies(link["I"] \o <<Ctl("UA", f.dlci)>>)
        \/ /\ f.kind = "PN" /\ Far' = Far
           /\ \/ \E n \in 0 .. MaxGrants - used.grants : Replies(link["I"] \o <<PnResponse(TRUE, n)>>)
              \/ \E a \in {PnResponse(FALSE, 0), Ctl("DM", 1)} : Replies(link["I"] \o <<a>>)
        \/ f.kind \in {"UIH", "UA"} /\ Far' = Far /\ Replies(link["I"] \o <<>>)
    BY <1>0, <1>f, <1>7 DEF ForeignReceive
  <2> HIDE DEF f
  <2>4. now(Far, link["I"], Tail(link["R"])) /\ f # Ctl("DISC", 0)
    BY <1>0, <1>2, <2>1, OtherReads DEF now, f
  <2>5. ASSUME NEW d \in {0, 1}, Replies(link["I"] \o <<Ctl("DM", d)>>), Far' = Far
        PROVE  now(Far', link'["I"], link'["R"])
    <3>1. link["I"] \o <<Ctl("DM", d)>> = Append(link["I"], Ctl("DM", d))
      BY <2>2, FrameKinds
    <3>2. now(Far, Append(link["I"], Ctl("DM", d)), Tail(link["R"]))
      BY <1>0, <2>1, <2>4, OtherGoes DEF now
    <3> QED
      BY <2>5, <3>1, <3>2
  <2>6. ASSUME NEW g \in Frame, Plain(g), Replies(link["I"] \o <<g>>), Far' = Far
        PROVE  now(Far', link'["I"], link'["R"])
    <3>1. now(Far, Append(link["I"], g), Tail(link["R"]))
      BY <1>0, <2>1, <2>4, <2>6, PlainSent DEF now
    <3> QED
      BY <2>2, <2>6, <3>1
  <2>7. CASE f.kind = "SABM"
    <3>1. f.dlci \in {0, 1} /\ f = Ctl("SABM", f.dlci)
      BY <2>1, <2>7, CtlIs DEF Plain
    <3>2. CASE Replies(link["I"] \o <<Ctl("DM", f.dlci)>>) /\ Far' = Far
      BY <2>5, <3>1, <3>2
    <3>3. CASE Replies(link["I"] \o <<Ctl("UA", f.dlci)>>) /\ Far' = (f.dlci = 1)
      <4>1. link["I"] \o <<Ctl("UA", f.dlci)>> = Append(link["I"], Ctl("UA", f.dlci))
        BY <2>2, <3>1, FrameKinds
      <4>2. CASE f.dlci = 0
        <5>1. now(FALSE, Append(link["I"], Ctl("UA", 0)), Tail(link["R"]))
          BY <1>0, <1>2, <2>1, <3>1, <4>2, OtherReads DEF now, f
        <5>z. (f.dlci = 1) = FALSE
          BY <4>2
        <5>2. Far' = FALSE
          BY <3>3, <5>z
        <5> QED
          BY <3>3, <4>1, <4>2, <5>1, <5>2
      <4>3. CASE f.dlci = 1
        <5>1. now(TRUE, Append(link["I"], Ctl("UA", 1)), Tail(link["R"]))
          BY <1>0, <1>2, <2>1, <3>1, <4>3, OtherReads DEF now, f
        <5>2. Far' = TRUE
          BY <3>3, <4>3
        <5> QED
          BY <3>3, <4>1, <4>3, <5>1, <5>2
      <4> QED
        BY <3>1, <4>2, <4>3
    <3> QED
      BY <2>3, <2>7, <3>2, <3>3
  <2>8. CASE f.kind = "DISC"
    <3>1. f = Ctl("DISC", 1) /\ f.dlci = 1
      BY <2>1, <2>4, <2>8, CtlIs DEF Plain
    <3>2. Replies(Append(link["I"], Ctl("UA", 1)))
      BY <2>2, <2>3, <2>8, <3>1, FrameKinds
    <3>3. now(Far', Append(link["I"], Ctl("UA", 1)), Tail(link["R"]))
      BY <1>0, <1>2, <2>1, <3>1, OtherReads DEF now, f
    <3> QED
      BY <3>2, <3>3
  <2>9. CASE f.kind = "PN"
    <3>1. Far' = Far
      BY <2>3, <2>9
    <3>2. ASSUME NEW n \in 0 .. MaxGrants - used.grants, Replies(link["I"] \o <<PnResponse(TRUE, n)>>)
          PROVE  now(Far', link'["I"], link'["R"])
      <4>1. n \in Nat
        BY BoundAssumption DEF TypeInv, TypeOK
      <4>2. PnResponse(TRUE, n) \in Frame /\ Plain(PnResponse(TRUE, n))
        BY <4>1, FrameKinds DEF PnResponse, Plain
      <4> QED
        BY <2>6, <3>1, <3>2, <4>2
    <3>3. CASE Replies(link["I"] \o <<PnResponse(FALSE, 0)>>)
      <4>1. PnResponse(FALSE, 0) \in Frame /\ Plain(PnResponse(FALSE, 0))
        BY FrameKinds DEF PnResponse, Plain
      <4> QED
        BY <2>6, <3>1, <3>3, <4>1
    <3>4. CASE Replies(link["I"] \o <<Ctl("DM", 1)>>)
      BY <2>5, <3>1, <3>4
    <3> QED
      BY <2>3, <2>9, <3>2, <3>3, <3>4
  <2>10. CASE f.kind \in {"UIH", "UA"}
    BY <2>2, <2>3, <2>4, <2>10
  <2> QED
    BY <2>3, <2>7, <2>8, <2>9, <2>10
<1> QED
  BY <1>5, <1>6, <1>7

LEMMA InitAgrees == Init => AgreeInv
<1> SUFFICES ASSUME Init PROVE AgreeInv
  OBVIOUS
<1>1. /\ session["I"].state = "CLOSED" /\ session["R"].state = "CLOSED" /\ ~session["I"].mux
      /\ main["I"].pc = "new" /\ main["R"].pc = "new" /\ recv["R"].pc = "none"
      /\ link["I"] = <<>> /\ link["R"] = <<>> /\ ~peer.open
  BY DEF Init, NewSession
<1>2. \A f : ~Has(<<>>, f) /\ Once(<<>>, f)
  BY DEF Has, Once
<1>3. ~Far
  BY <1>1 DEF Far, RemoteState
<1> QED
  BY <1>1, <1>2, <1>3 DEF AgreeInv, Agreed, Wanted, Beginning, Pending

LEMMA NextAgrees == TypeInv /\ AgreeInv /\ [Next]_vars => AgreeInv'
<1> SUFFICES ASSUME TypeInv, AgreeInv, [Next]_vars PROVE AgreeInv'
  OBVIOUS
<1>1. CASE Connect \/ OpenChannel \/ PnWake \/ UaWake \/ GrantStore \/ OpenTimeout
  BY <1>1, CallAgrees
<1>2. CASE AcceptFrom \/ WaitForChannel
  BY <1>2, OtherAgrees
<1>3. ASSUME NEW e \in End, MuxWake(e) \/ CloseChannel(e) \/ CloseWake(e)
      PROVE  AgreeInv'
  BY <1>3, CallAgrees, OtherAgrees
<1>4. ASSUME NEW e \in End, Disconnect(e) \/ DisconnectEnd(e) PROVE AgreeInv'
  BY <1>4, EndAgrees
<1>5. ASSUME NEW e \in End,
             SendData(e) \/ SpendStore(e) \/ Receive(e) \/ ReceiveWake(e) \/ ReceiveFails(e) \/ Copy(e) \/ RecvEnd(e)
      PROVE  AgreeInv'
  BY <1>5, DataAgrees
<1>6. ASSUME NEW e \in End, RecvStep(e) PROVE AgreeInv'
  <2>1. CASE RecvFrame(e)
    BY <2>1, CallReadsAgrees, OtherReadsAgrees
  <2>2. CASE ~RecvFrame(e)
    BY <1>6, <2>2, DataAgrees DEF RecvStep
  <2> QED
    BY <2>1, <2>2
<1>7. CASE ForeignReceive \/ ForeignSend \/ ForeignClose
  BY <1>7, ForeignAgrees
<1>8. CASE LinkLost
  BY <1>8, EndAgrees
<1>9. CASE UNCHANGED vars
  BY <1>9, NothingAgreed DEF vars, Up
<1> QED
  BY <1>1, <1>2, <1>3, <1>4, <1>5, <1>6, <1>7, <1>8, <1>9 DEF Next

\* OpenChannel() and the answers to DISC and DM: while end I has the channel open,
\* the other end, this stack or another vendor's, has it open too, is closing it, or
\* its DISC is on its way, whatever times out and in any order of the threads.
THEOREM BothEndsAgree == Spec => []ChannelAgrees
<1>1. AgreeInv => ChannelAgrees
  <2> SUFFICES ASSUME AgreeInv, session["I"].state = "OPEN", Up PROVE ChannelAgrees
    BY DEF ChannelAgrees
  <2>1. Far \/ Has(link["I"], Ctl("DISC", 1))
    BY DEF AgreeInv, Agreed
  <2> QED
    BY <2>1 DEF Far, Has, ChannelAgrees
<1> QED
  BY <1>1, TypeInvariant, InitAgrees, NextAgrees, PTL DEF Spec

=============================================================================
