-------------------------- MODULE L2capMap_proofs --------------------------
(***************************************************************************)
(* The channel map and the accept queue of L2capChannel, for any number of *)
(* sockets: the first channel of an endpoint stays in the map for as long  *)
(* as it is active, and fAcceptSemaphore counts the connected children.    *)
(* The invariants are MapInv and SemInv.                                   *)
(***************************************************************************)
EXTENDS L2capChannel_proofs, FiniteSetTheorems

\* An active endpoint is in the map.  While Connect() waits for the features
\* it has no peer yet, and only the loss of fConnection takes it out.
Bound(r) ==
    /\ r.state # "CLOSED" => r.cid # NullCid
    /\ r.call \in {"route", "info"} => r.dcid = NullCid
    /\ r.call = "info" => /\ r.state \in {"CLOSED", "WAIT_FOR_INFO_RSP"}
                          /\ r.conn # NoConn => r.cid # NullCid

\* an endpoint that no connect() was called on
Fresh(r) ==
    r.cid = NullCid /\ r.dcid = NullCid /\ r.call = "none" /\ r.state = "CLOSED"

\* Disconnection requests name the channel of their sender.
Named(m) == m.type = "DiscReq" => m.scid # NullCid
AllNamed(s) == \A i \in 1 .. Len(s) : Named(s[i])

MapInv ==
    /\ \A e \in Endpoint : FirstChannel(e) => Bound(ep[e])
    /\ \A e \in Client : used.connects[e] = 0 => Fresh(ep[e])
    /\ \A f \in Child : ep[f].call = "none"
    /\ AllNamed(link["A"])
    /\ rx["A"] # Idle => Named(rx["A"].msg)

\* the children that accept() would find
Waiting == {f \in Child : ep[f].queue = "connected"}

SemInv ==
    /\ \A e \in Client : ep[e].queue = "none"
    /\ \A f \in Child :
          ep[f].sock = "unborn" \/ listener # "LISTEN"
          => ep[f].queue \notin {"pending", "connected"}
    /\ IsFiniteSet(Waiting)
    /\ acceptSem = Cardinality(Waiting)

----------------------------------------------------------------------------
\* The commands on the link to host A

LEMMA NamedSequences ==
    /\ AllNamed(<< >>)
    /\ \A x : x.type # "DiscReq" => AllNamed(<<x>>)
    /\ \A s, t \in Seq(Message) : AllNamed(s) /\ AllNamed(t) => AllNamed(s \o t)
    /\ \A s \in Seq(Message) : s # << >> /\ AllNamed(s) => Named(Head(s)) /\ AllNamed(Tail(s))
<1>1. AllNamed(<< >>)
  BY DEF AllNamed
<1>2. ASSUME NEW x, x.type # "DiscReq" PROVE AllNamed(<<x>>)
  BY <1>2 DEF AllNamed, Named
<1>3. ASSUME NEW s \in Seq(Message), NEW t \in Seq(Message), AllNamed(s), AllNamed(t)
      PROVE  AllNamed(s \o t)
  <2> SUFFICES ASSUME NEW i \in 1 .. Len(s \o t) PROVE Named((s \o t)[i])
    BY DEF AllNamed
  <2>1. CASE i <= Len(s)
    <3>1. (s \o t)[i] = s[i] /\ i \in 1 .. Len(s)
      BY <2>1
    <3> QED
      BY <1>3, <3>1 DEF AllNamed
  <2>2. CASE i > Len(s)
    <3>1. (s \o t)[i] = t[i - Len(s)] /\ i - Len(s) \in 1 .. Len(t)
      BY <2>2
    <3> QED
      BY <1>3, <3>1 DEF AllNamed
  <2> QED
    BY <2>1, <2>2
<1>4. ASSUME NEW s \in Seq(Message), s # << >>, AllNamed(s)
      PROVE  Named(Head(s)) /\ AllNamed(Tail(s))
  <2>1. Head(s) = s[1] /\ 1 \in 1 .. Len(s)
    BY <1>4
  <2>2. \A i \in 1 .. Len(Tail(s)) : Tail(s)[i] = s[i + 1] /\ i + 1 \in 1 .. Len(s)
    BY <1>4
  <2> QED
    BY <1>4, <2>1, <2>2 DEF AllNamed
<1> QED
  BY <1>1, <1>2, <1>3, <1>4

LEMMA PostNames ==
    ASSUME TypeOK, NEW h \in Host, NEW msgs \in Seq(Message), Post(h, msgs),
           AllNamed(link["A"]), h = "B" => AllNamed(msgs)
    PROVE  AllNamed(link'["A"])
<1>1. "A" \in Host /\ link["A"] \in Seq(Message) /\ DOMAIN link = Host
  BY DEF TypeOK, Host
<1>2. CASE h = "B" /\ hci[Peer(h)] # NoConn
  <2>1. link'["A"] = link["A"] \o msgs
    BY <1>1, <1>2 DEF Post, Peer
  <2> QED
    BY <1>1, <1>2, <2>1, NamedSequences
<1>3. CASE ~(h = "B" /\ hci[Peer(h)] # NoConn)
  <2>1. link'["A"] = link["A"]
    BY <1>1, <1>3 DEF Post, Peer, Host
  <2> QED
    BY <2>1
<1> QED
  BY <1>2, <1>3

\* What _SendChannelConfig() sends and writes
LEMMA ConfigSent ==
    ASSUME NEW e \in Endpoint, NEW r \in EndpointRecord, NEW ids \in IdentTable
    PROVE  LET c == SendChannelConfig(e, r, ids)
           IN  /\ c.r \in EndpointRecord
               /\ c.r = r \/ c.r = [r EXCEPT !.out = "SENT"]
               /\ c.msgs \in Seq(Message) /\ AllNamed(c.msgs)
<1> DEFINE i == AllocIdent(ids)
           m == [Command("CfgReq", i) EXCEPT
                    !.dcid = r.dcid,
                    !.mode = IF r.psm = "dynamic" THEN "ERTM" ELSE "none"]
           c == SendChannelConfig(e, r, ids)
<1>0. c.r \in EndpointRecord /\ c.msgs \in Seq(Message)
  BY SendChannelConfigType
<1>1. CASE i = NullIdent
  <2>1. c.r = r /\ c.msgs = << >>
    BY <1>1 DEF SendChannelConfig
  <2> QED
    BY <1>0, <2>1, NamedSequences
<1>2. CASE i # NullIdent
  <2>1. c.r = [r EXCEPT !.out = "SENT"] /\ c.msgs = <<m>>
    BY <1>2 DEF SendChannelConfig
  <2>2. m.type = "CfgReq"
    BY DEF Command
  <2> QED
    BY <1>0, <2>1, <2>2, NamedSequences, ZenonT(40)
<1> QED
  BY <1>1, <1>2

----------------------------------------------------------------------------
\* A step that writes one endpoint

\* What a critical section may do to the queue of an endpoint
QueueMoves(r, old) ==
    \/ r.queue = old.queue
    \/ old.queue = "pending" /\ r.queue = "connected" /\ r.sock # "unborn"

LEMMA MapOneStep ==
    ASSUME TypeOK, MapInv, NEW e \in Endpoint, NEW r,
           ep' = [ep EXCEPT ![e] = r], RxFollows,
           used'.connects = used.connects, AllNamed(link'["A"]),
           FirstChannel(e) => Bound(r),
           e \in Client /\ used.connects[e] = 0 => Fresh(r),
           e \in Child => r.call = "none"
    PROVE  MapInv'
<1>1. ep'[e] = r /\ \A f \in Endpoint : f # e => ep'[f] = ep[f]
  BY DEF TypeOK
<1>4. \A f \in Endpoint : FirstChannel(f)' <=> FirstChannel(f)
  BY DEF FirstChannel
<1>5. ASSUME NEW f \in Endpoint, FirstChannel(f)'
      PROVE  Bound(ep'[f])
  BY <1>1, <1>4, <1>5 DEF MapInv
<1>6. ASSUME NEW f \in Client, used'.connects[f] = 0
      PROVE  Fresh(ep'[f])
  <2>1. f \in Endpoint
    BY EndpointAssumption
  <2> QED
    BY <1>1, <1>6, <2>1 DEF MapInv
<1>7. \A f \in Child : ep'[f].call = "none"
  BY <1>1, EndpointAssumption DEF MapInv
<1>8. rx'["A"] # Idle => Named(rx'["A"].msg)
  BY DEF MapInv, RxFollows, Host
<1> QED
  BY <1>5, <1>6, <1>7, <1>8 DEF MapInv, Bound, Fresh

LEMMA SemOneStep ==
    ASSUME TypeOK, SemInv, NEW e \in Endpoint, NEW r,
           ep' = [ep EXCEPT ![e] = r], listener' = listener,
           QueueMoves(r, ep[e]), r.sock = "unborn" => ep[e].sock = "unborn",
           acceptSem' = acceptSem + Released(ep[e], r)
    PROVE  SemInv'
<1>1. ep'[e] = r /\ \A f \in Endpoint : f # e => ep'[f] = ep[f]
  BY DEF TypeOK
<1>2. Client \subseteq Endpoint /\ Child \subseteq Endpoint
  BY EndpointAssumption
<1>3. \A f \in Client : ep'[f].queue = "none"
  BY <1>1, <1>2 DEF SemInv, QueueMoves
<1>4. ASSUME NEW f \in Child, ep'[f].sock = "unborn" \/ listener # "LISTEN"
      PROVE  ep'[f].queue \notin {"pending", "connected"}
  BY <1>1, <1>2, <1>4 DEF SemInv, QueueMoves
<1>5. IsFiniteSet(Waiting') /\ acceptSem' = Cardinality(Waiting')
  <2>1. CASE ~(ep[e].queue = "pending" /\ r.queue = "connected")
    <3>1. Waiting' = Waiting
      BY <1>1, <1>2, <2>1 DEF Waiting, QueueMoves
    <3>2. Released(ep[e], r) = 0 /\ acceptSem \in Nat
      BY <2>1 DEF Released, TypeOK
    <3>3. acceptSem' = acceptSem
      BY <3>2
    <3> QED
      BY <3>1, <3>3 DEF SemInv
  <2>2. CASE ep[e].queue = "pending" /\ r.queue = "connected"
    <3>1. e \in Child
      BY <1>2, <2>2, EndpointAssumption DEF SemInv
    <3>2. Waiting' = Waiting \cup {e} /\ e \notin Waiting
      BY <1>1, <1>2, <2>2, <3>1 DEF Waiting
    <3>3. acceptSem' = acceptSem + 1
      BY <2>2 DEF Released
    <3>4. /\ IsFiniteSet(Waiting \cup {e})
          /\ Cardinality(Waiting \cup {e}) = Cardinality(Waiting) + 1
      BY <3>2, FS_AddElement DEF SemInv
    <3> QED
      BY <3>2, <3>3, <3>4 DEF SemInv
  <2> QED
    BY <2>1, <2>2
<1> QED
  BY <1>3, <1>4, <1>5 DEF SemInv

\* A step that writes no endpoint
LEMMA MapNoStep ==
    ASSUME MapInv, ep' = ep, RxFollows, used'.connects = used.connects,
           AllNamed(link'["A"])
    PROVE  MapInv'
<1>3. rx'["A"] # Idle => Named(rx'["A"].msg)
  BY DEF MapInv, RxFollows, Host
<1> QED
  BY <1>3, EndpointAssumption DEF MapInv, FirstChannel, Bound, Fresh

LEMMA SemNoStep ==
    ASSUME SemInv, ep' = ep, listener' = listener, acceptSem' = acceptSem
    PROVE  SemInv'
BY DEF SemInv, Waiting

----------------------------------------------------------------------------
\* The handlers

\* What the handler of a command may make of its endpoint
Follows(r, old) ==
    /\ Fresh(old) => Fresh(r)
    /\ Bound(old) => Bound(r)
    /\ r.call = old.call /\ r.sock = old.sock
    /\ QueueMoves(r, old)

\* The handler stops the kernel, or ends as Finish() does.
Effect(h) ==
    \/ UNCHANGED <<ep, listener, acceptSem, link, rx, used>>
    \/ \E r \in EndpointRecord :
          LET e == rx[h].ep
          IN  /\ ep' = [ep EXCEPT ![e] = r] /\ Follows(r, ep[e])
              /\ acceptSem' = acceptSem + Released(ep[e], r)
              /\ rx' = [rx EXCEPT ![h] = Idle]
              /\ AllNamed(link'["A"])
              /\ UNCHANGED <<listener, used>>

LEMMA EffectKeeps ==
    ASSUME IInv, MapInv, SemInv, NEW h \in Host, NEW type, Handling(h, type), Effect(h)
    PROVE  MapInv' /\ SemInv'
<1> DEFINE e == rx[h].ep
<1>1. TypeOK /\ e \in Endpoint /\ Home(e) = h /\ rx[h] # Idle
  BY HandlingInv DEF IInv
<1>2. CASE UNCHANGED <<ep, listener, acceptSem, link, rx, used>>
  BY <1>2, MapNoStep, SemNoStep DEF RxFollows, MapInv
<1>3. ASSUME NEW r \in EndpointRecord,
             ep' = [ep EXCEPT ![e] = r], Follows(r, ep[e]),
             acceptSem' = acceptSem + Released(ep[e], r),
             rx' = [rx EXCEPT ![h] = Idle], AllNamed(link'["A"]),
             UNCHANGED <<listener, used>>
      PROVE  MapInv' /\ SemInv'
  <2>1. RxFollows /\ rx'[h] = Idle
    BY <1>1, <1>3 DEF TypeOK, RxFollows
  <2>2. /\ FirstChannel(e) => Bound(r)
        /\ e \in Client /\ used.connects[e] = 0 => Fresh(r)
        /\ e \in Child => r.call = "none"
        /\ QueueMoves(r, ep[e]) /\ (r.sock = "unborn" => ep[e].sock = "unborn")
    BY <1>1, <1>3 DEF Follows, MapInv
  <2>3. MapInv'
    BY <1>1, <1>3, <2>1, <2>2, MapOneStep
  <2>4. SemInv'
    BY <1>1, <1>3, <2>2, SemOneStep
  <2> QED
    BY <2>3, <2>4
<1> QED
  BY <1>2, <1>3 DEF Effect

LEMMA FinishEffect ==
    ASSUME IInv, MapInv, NEW h \in Host, NEW r \in EndpointRecord,
           Follows(r, ep[rx[h].ep]),
           NEW ids, NEW msgs \in Seq(Message), AllNamed(msgs)
    PROVE  /\ Finish(h, rx[h].ep, r, ids, msgs) => Effect(h)
           /\ FinishOnConn(h, rx[h].ep, r, ids, msgs) => Effect(h)
<1>1. Finish(h, rx[h].ep, r, ids, msgs) => Effect(h)
  <2> SUFFICES ASSUME Finish(h, rx[h].ep, r, ids, msgs) PROVE Effect(h)
    OBVIOUS
  <2>1. AllNamed(link'["A"])
    BY PostNames DEF Finish, IInv, MapInv
  <2> QED
    BY <2>1 DEF Finish, Effect
<1>2. \A why : Panic(why) => Effect(h)
  BY DEF Panic, Effect
<1> QED
  BY <1>1, <1>2 DEF FinishOnConn

\* What _MarkClosed() leaves of an endpoint
LEMMA ClosedFields ==
    ASSUME NEW r \in EndpointRecord
    PROVE  LET c == MarkClosed(r)
           IN  /\ c \in EndpointRecord /\ c.call = r.call /\ c.sock = r.sock
               /\ c.queue = r.queue /\ c.dcid = r.dcid /\ c.conn = r.conn
               /\ c.cid = NullCid /\ c.state = "CLOSED"
<1> DEFINE n == Emptied(r)
<1>1. /\ n \in EndpointRecord /\ n.call = r.call /\ n.sock = r.sock
      /\ n.queue = r.queue /\ n.dcid = r.dcid /\ n.conn = r.conn
  BY EmptiedType
<1>2. MarkClosed(r) = [n EXCEPT !.state = "CLOSED", !.cid = NullCid]
  BY DEF MarkClosed
<1> HIDE DEF n
<1> QED
  BY <1>1, <1>2, RecordTypes DEF EndpointRecord

\* The one-endpoint cases of the handlers: a handler leaves the endpoint in
\* the map, or closes it while Connect() does not wait for the features.
LEMMA FollowsSame ==
    ASSUME NEW r \in EndpointRecord
    PROVE  /\ \A n \in {[r EXCEPT !.woken = TRUE], [r EXCEPT !.state = "CLOSED"],
                        [r EXCEPT !.woken = TRUE, !.state = "CLOSED"]} :
                 Follows(n, r)
           /\ r.call \notin {"route", "info"} => Follows(MarkClosed([r EXCEPT !.woken = TRUE]), r)
<1>1. \A n \in {[r EXCEPT !.woken = TRUE], [r EXCEPT !.state = "CLOSED"],
                 [r EXCEPT !.woken = TRUE, !.state = "CLOSED"]} : Follows(n, r)
  BY DEF Follows, Fresh, Bound, QueueMoves, EndpointRecord
<1>2. r.call \notin {"route", "info"} => Follows(MarkClosed([r EXCEPT !.woken = TRUE]), r)
  <2> DEFINE w == [r EXCEPT !.woken = TRUE]
  <2>1. /\ w \in EndpointRecord /\ w.call = r.call /\ w.sock = r.sock
        /\ w.queue = r.queue /\ w.dcid = r.dcid
    BY DEF EndpointRecord
  <2> HIDE DEF w
  <2>2. LET c == MarkClosed(w)
        IN  /\ c.call = r.call /\ c.sock = r.sock /\ c.queue = r.queue
            /\ c.dcid = r.dcid /\ c.cid = NullCid /\ c.state = "CLOSED"
    BY <2>1, ClosedFields
  <2> QED
    BY <2>2 DEF w, Follows, Fresh, Bound, QueueMoves
<1> QED
  BY <1>1, <1>2

LEMMA FollowsConfiguring ==
    ASSUME NEW r \in EndpointRecord, NEW n \in EndpointRecord,
           r.state \notin {"CLOSED", "WAIT_FOR_INFO_RSP"}, r.call # "route",
           n.cid = r.cid, n.call = r.call, n.sock = r.sock, n.sock = "live",
           n.queue = r.queue \/ (r.queue = "pending" /\ n.queue = "connected")
    PROVE  Follows(n, r)
BY DEF Follows, Fresh, Bound, QueueMoves

\* WithMode() and _MarkEstablished() change nothing that Follows() is about
LEMMA ConfiguredFields ==
    ASSUME NEW r \in EndpointRecord, NEW mode \in Mode \cup {"none"}
    PROVE  LET n == WithMode(r, mode)
               c == ConfigDone(r)
           IN  /\ n \in EndpointRecord /\ n.cid = r.cid /\ n.call = r.call
               /\ n.sock = r.sock /\ n.queue = r.queue /\ n.state = r.state
               /\ c \in EndpointRecord /\ c.cid = r.cid /\ c.call = r.call
               /\ c.sock = r.sock
               /\ c.queue = r.queue \/ (r.queue = "pending" /\ c.queue = "connected")
<1>1. WithMode(r, mode) \in {r, [r EXCEPT !.mode = mode]} /\ (mode = "none" => WithMode(r, mode) = r)
  BY DEF WithMode
<1>2. mode # "none" => [r EXCEPT !.mode = mode] \in EndpointRecord
  BY DEF EndpointRecord
<1>3. ConfigDone(r) \in {r, MarkEstablished(r)}
  BY DEF ConfigDone
<1>4. MarkEstablished(r) \in EndpointRecord
  BY RecordTypes
<1>5. /\ MarkEstablished(r).cid = r.cid /\ MarkEstablished(r).call = r.call
      /\ MarkEstablished(r).sock = r.sock
      /\ \/ MarkEstablished(r).queue = r.queue
         \/ r.queue = "pending" /\ MarkEstablished(r).queue = "connected"
  <2> DEFINE n == Emptied(r)
             q == IF n.queue = "pending" THEN "connected" ELSE n.queue
  <2>1. /\ n \in EndpointRecord /\ n.cid = r.cid /\ n.call = r.call
        /\ n.sock = r.sock /\ n.queue = r.queue
    BY EmptiedType
  <2>2. MarkEstablished(r) = [n EXCEPT !.state = "OPEN", !.woken = TRUE, !.queue = q]
    BY DEF MarkEstablished
  <2>3. q = n.queue \/ (n.queue = "pending" /\ q = "connected")
    OBVIOUS
  <2> HIDE DEF n, q
  <2>4. LET x == [n EXCEPT !.state = "OPEN", !.woken = TRUE, !.queue = q]
        IN  x.cid = n.cid /\ x.call = n.call /\ x.sock = n.sock /\ x.queue = q
    BY <2>1 DEF EndpointRecord
  <2> QED
    BY <2>1, <2>2, <2>3, <2>4
<1> QED
  BY <1>1, <1>2, <1>3, <1>4, <1>5 DEF EndpointRecord

\* What a handler knows when it has the lock of its endpoint
LEMMA Handled ==
    ASSUME IInv, MapInv, NEW h \in Host, NEW type, Handling(h, type)
    PROVE  LET e == rx[h].ep
               m == rx[h].msg
           IN  /\ e \in Endpoint /\ m \in Message
               /\ ep[e] \in EndpointRecord /\ idents[h] \in IdentTable
               /\ ep[e].sock = "live" /\ ep[e].call # "route"
               /\ Notified(e) = [ep[e] EXCEPT !.woken = TRUE]
               /\ Notified(e) \in EndpointRecord /\ Follows(Notified(e), ep[e])
               /\ <<Reject(m.ident)>> \in Seq(Message) /\ AllNamed(<<Reject(m.ident)>>)
               /\ << >> \in Seq(Message) /\ AllNamed(<< >>)
<1> DEFINE e == rx[h].ep
           m == rx[h].msg
<1>1. /\ e \in Endpoint /\ m \in Message
      /\ ep[e] \in EndpointRecord /\ idents[h] \in IdentTable
      /\ ep[e].sock = "live" /\ ep[e].call # "route"
      /\ Notified(e) \in EndpointRecord /\ Reject(m.ident) \in Message
  BY HandlingInv, HandlingType DEF IInv
<1>2. Notified(e) = [ep[e] EXCEPT !.woken = TRUE]
  BY DEF Notified
<1>3. Follows(Notified(e), ep[e])
  BY <1>1, <1>2, FollowsSame
<1>4. Reject(m.ident).type # "DiscReq"
  BY DEF Reject, Command
<1> QED
  BY <1>1, <1>2, <1>3, <1>4, NamedSequences, SequenceTypes

LEMMA ConnectionRspEffect ==
    ASSUME IInv, MapInv, NEW h \in Host, HandleConnectionRsp(h)
    PROVE  Effect(h)
<1> DEFINE m == rx[h].msg
           e == rx[h].ep
           r == Notified(e)
           ids == idents[h]
           n == [r EXCEPT !.state = "CONFIGURATION", !.dcid = m.dcid]
           c == SendChannelConfig(e, n, ids)
           closed == [r EXCEPT !.state = "CLOSED"]
<1>0. Handling(h, "ConnRsp")
  BY DEF HandleConnectionRsp
<1>1. /\ e \in Endpoint /\ m \in Message
      /\ ep[e] \in EndpointRecord /\ ids \in IdentTable
      /\ ep[e].sock = "live" /\ ep[e].call # "route"
      /\ r = [ep[e] EXCEPT !.woken = TRUE]
      /\ r \in EndpointRecord /\ Follows(r, ep[e])
      /\ <<Reject(m.ident)>> \in Seq(Message) /\ AllNamed(<<Reject(m.ident)>>)
      /\ << >> \in Seq(Message) /\ AllNamed(<< >>)
  BY <1>0, Handled
<1>2. closed \in EndpointRecord /\ Follows(closed, ep[e])
  <2>1. closed = [ep[e] EXCEPT !.woken = TRUE, !.state = "CLOSED"]
    BY <1>1 DEF EndpointRecord
  <2> QED
    BY <1>1, <2>1, FollowsSame DEF EndpointRecord, ChannelStatus
<1>3. CASE r.state # "WAIT_FOR_CONNECTION_RSP"
  BY <1>1, <1>3, FinishEffect DEF HandleConnectionRsp
<1>4. CASE r.state = "WAIT_FOR_CONNECTION_RSP"
  <2>1. m.dcid \in Cid \cup {NullCid}
    BY <1>1 DEF Message
  <2>2. n \in EndpointRecord
    BY <1>1, <2>1 DEF EndpointRecord, ChannelStatus, Establishing
  <2>3. /\ c.r \in EndpointRecord /\ c.msgs \in Seq(Message) /\ AllNamed(c.msgs)
        /\ c.r = n \/ c.r = [n EXCEPT !.out = "SENT"]
    BY <1>1, <2>2, ConfigSent, ZenonT(40)
  <2>4. /\ c.r.cid = ep[e].cid /\ c.r.call = ep[e].call /\ c.r.sock = ep[e].sock
        /\ c.r.queue = ep[e].queue
    <3>1. /\ n.cid = ep[e].cid /\ n.call = ep[e].call /\ n.sock = ep[e].sock
          /\ n.queue = ep[e].queue
      BY <1>1 DEF EndpointRecord
    <3> HIDE DEF n, c, e, r, m
    <3>2. LET x == [n EXCEPT !.out = "SENT"]
          IN  x.cid = n.cid /\ x.call = n.call /\ x.sock = n.sock /\ x.queue = n.queue
      BY <2>2 DEF EndpointRecord
    <3> QED
      BY <2>3, <3>1, <3>2
  <2>5. ep[e].state = "WAIT_FOR_CONNECTION_RSP"
    BY <1>1, <1>4 DEF EndpointRecord
  <2>6. Follows(c.r, ep[e])
    BY <1>1, <2>3, <2>4, <2>5, FollowsConfiguring
  <2>7. \/ FinishOnConn(h, e, r, ids, <<Reject(m.ident)>>)
        \/ Finish(h, e, r, ids, << >>)
        \/ Finish(h, e, closed, ids, << >>)
        \/ FinishOnConn(h, e, c.r, c.ids, c.msgs)
    BY DEF HandleConnectionRsp
  <2> HIDE DEF m, e, r, ids, n, c, closed
  <2>8. \A x, s, i : x \in EndpointRecord /\ Follows(x, ep[e]) /\ s \in Seq(Message) /\ AllNamed(s)
        => /\ FinishOnConn(h, e, x, i, s) => Effect(h)
           /\ Finish(h, e, x, i, s) => Effect(h)
    BY FinishEffect DEF e
  <2> QED
    BY <1>1, <1>2, <2>3, <2>6, <2>7, <2>8
<1> QED
  BY <1>3, <1>4

LEMMA DisconnectionEffect ==
    ASSUME IInv, MapInv, NEW h \in Host,
           HandleDisconnectionReq(h) \/ HandleDisconnectionRsp(h)
    PROVE  Effect(h)
<1> DEFINE m == rx[h].msg
           e == rx[h].ep
           r == Notified(e)
           rsp == [Command("DiscRsp", m.ident) EXCEPT !.dcid = r.cid, !.scid = m.scid]
<1>0. Handling(h, m.type)
  BY DEF HandleDisconnectionReq, HandleDisconnectionRsp, Handling
<1>1. /\ e \in Endpoint /\ m \in Message
      /\ ep[e] \in EndpointRecord
      /\ ep[e].call # "route"
      /\ r = [ep[e] EXCEPT !.woken = TRUE]
      /\ r \in EndpointRecord /\ Follows(r, ep[e])
      /\ <<Reject(m.ident)>> \in Seq(Message) /\ AllNamed(<<Reject(m.ident)>>)
      /\ << >> \in Seq(Message) /\ AllNamed(<< >>)
  BY <1>0, Handled
<1>2. \A why : Panic(why) => Effect(h)
  BY DEF Panic, Effect
<1>3. r.state = ep[e].state /\ r.dcid = ep[e].dcid /\ r.cid = ep[e].cid
  BY <1>1 DEF EndpointRecord
<1>4. MarkClosed(r) \in EndpointRecord
  BY <1>1, RecordTypes
<1>5. ep[e].call # "info" => Follows(MarkClosed(r), ep[e])
  BY <1>1, FollowsSame
<1>6. CASE HandleDisconnectionReq(h)
  <2>1. <<rsp>> \in Seq(Message) /\ AllNamed(<<rsp>>)
    <3>1. rsp \in Message /\ rsp.type # "DiscReq"
      <4>1. m.ident \in Ident \cup {NullIdent} /\ m.scid \in Cid \cup {NullCid} /\ r.cid \in Cid \cup {NullCid}
        BY <1>1 DEF Message, EndpointRecord
      <4> QED
        BY <4>1 DEF Command, Message
    <3> QED
      BY <3>1, NamedSequences, SequenceTypes
  <2>2. CASE m.scid # r.dcid
    BY <1>1, <1>6, <2>2, FinishEffect DEF HandleDisconnectionReq
  <2>3. CASE m.scid = r.dcid
    <3>1. Bound(ep[e]) => ep[e].call # "info"
      <4>1. CASE e \in Child
        BY <4>1 DEF MapInv
      <4>2. CASE e \in Client
        <5>1. h = "A"
          BY <1>0, <4>2, HandlingInv DEF Home
        <5>2. m.type = "DiscReq" /\ rx[h] # Idle
          BY <1>6 DEF HandleDisconnectionReq, Handling
        <5>3. ep[e].dcid # NullCid
          BY <1>3, <2>3, <5>1, <5>2 DEF MapInv, Named
        <5> QED
          BY <5>3 DEF Bound
      <4> QED
        BY <1>1, <4>1, <4>2, EndpointAssumption
    <3>2. Follows(MarkClosed(r), ep[e])
      <4>1. /\ Follows(r, ep[e]) /\ MarkClosed(r).call = r.call
            /\ MarkClosed(r).sock = r.sock /\ MarkClosed(r).queue = r.queue
            /\ MarkClosed(r).dcid = r.dcid
            /\ MarkClosed(r).cid = NullCid /\ MarkClosed(r).state = "CLOSED"
        BY <1>1, ClosedFields
      <4> QED
        BY <1>1, <3>1, <4>1 DEF Follows, Bound, Fresh, QueueMoves
    <3>3. \/ \E why : Panic(why)
          \/ FinishOnConn(h, e, MarkClosed(r), idents[h], <<rsp>>)
      BY <1>6, <2>3 DEF HandleDisconnectionReq
    <3> QED
      BY <1>2, <1>4, <2>1, <3>2, <3>3, FinishEffect
  <2> QED
    BY <2>2, <2>3
<1>7. CASE HandleDisconnectionRsp(h)
  <2>1. CASE r.state # "WAIT_FOR_DISCONNECTION_RSP"
    BY <1>1, <1>7, <2>1, FinishEffect DEF HandleDisconnectionRsp
  <2>2. CASE r.state = "WAIT_FOR_DISCONNECTION_RSP"
    <3>1. Bound(ep[e]) => ep[e].call # "info"
      BY <1>3, <2>2 DEF Bound
    <3>2. Follows(MarkClosed(r), ep[e])
      <4>1. /\ MarkClosed(r).call = r.call
            /\ MarkClosed(r).sock = r.sock /\ MarkClosed(r).queue = r.queue
            /\ MarkClosed(r).dcid = r.dcid
            /\ MarkClosed(r).cid = NullCid /\ MarkClosed(r).state = "CLOSED"
        BY <1>1, ClosedFields
      <4> QED
        BY <1>1, <3>1, <4>1 DEF Follows, Bound, Fresh, QueueMoves
    <3>3. \/ \E why : Panic(why)
          \/ Finish(h, e, r, idents[h], << >>)
          \/ Finish(h, e, MarkClosed(r), idents[h], << >>)
      BY <1>7, <2>2 DEF HandleDisconnectionRsp
    <3> QED
      BY <1>1, <1>2, <1>4, <3>2, <3>3, FinishEffect
  <2> QED
    BY <2>1, <2>2
<1> QED
  BY <1>6, <1>7

LEMMA ConfigurationReqEffect ==
    ASSUME IInv, MapInv, NEW h \in Host, HandleConfigurationReq(h)
    PROVE  Effect(h)
<1> DEFINE m == rx[h].msg
           e == rx[h].ep
           old == Notified(e)
           w == WithMode(Reconfigured(old), m.mode)
           told == [w EXCEPT !.state = "CONFIGURATION"]
           r == [told EXCEPT !.in = "DONE"]
           rsp == [Command("CfgRsp", m.ident) EXCEPT
                      !.scid = r.dcid,
                      !.mode = IF m.mode = "ERTM" THEN "ERTM" ELSE "none"]
           no == [rsp EXCEPT !.result = "REJECTED", !.mode = "none"]
           ids == idents[h]
           c == SendChannelConfig(e, r, ids)
           d == ConfigDone(r)
<1>0. Handling(h, "CfgReq")
  BY DEF HandleConfigurationReq
<1>1. /\ e \in Endpoint /\ m \in Message /\ ids \in IdentTable
      /\ ep[e] \in EndpointRecord
      /\ ep[e].call # "route" /\ ep[e].sock = "live"
      /\ old = [ep[e] EXCEPT !.woken = TRUE]
      /\ old \in EndpointRecord /\ Follows(old, ep[e])
  BY <1>0, Handled
<1>2. old.state = ep[e].state /\ old.cid = ep[e].cid /\ old.call = ep[e].call
      /\ old.sock = ep[e].sock /\ old.queue = ep[e].queue
  BY <1>1 DEF EndpointRecord
<1>3. m.ident \in Ident \cup {NullIdent} /\ m.mode \in Mode \cup {"none"}
  BY <1>1 DEF Message
<1>4. /\ w \in EndpointRecord /\ w.cid = ep[e].cid /\ w.call = ep[e].call
      /\ w.sock = ep[e].sock /\ w.queue = ep[e].queue
  <2> DEFINE v == Reconfigured(old)
  <2>1. /\ v \in EndpointRecord /\ v.cid = old.cid /\ v.call = old.call
        /\ v.sock = old.sock /\ v.queue = old.queue
    <3>1. v \in EndpointRecord
      BY <1>1, RecordTypes
    <3>2. v = old \/ v = [old EXCEPT !.in = "NONE", !.out = "NONE"]
      BY DEF Reconfigured
    <3> QED
      BY <1>1, <3>1, <3>2 DEF EndpointRecord
  <2> HIDE DEF v
  <2>2. LET x == WithMode(v, m.mode)
        IN  /\ x \in EndpointRecord /\ x.cid = v.cid /\ x.call = v.call
            /\ x.sock = v.sock /\ x.queue = v.queue
    BY <1>3, <2>1, ConfiguredFields
  <2> QED
    BY <1>2, <2>1, <2>2 DEF v
<1>17. /\ told \in EndpointRecord /\ told.cid = ep[e].cid /\ told.call = ep[e].call
       /\ told.sock = ep[e].sock /\ told.queue = ep[e].queue
  <2> HIDE DEF w
  <2> QED
    BY <1>4 DEF EndpointRecord, ChannelStatus, Establishing
<1>5. /\ r \in EndpointRecord /\ r.cid = ep[e].cid /\ r.call = ep[e].call
      /\ r.sock = ep[e].sock /\ r.queue = ep[e].queue
  <2> HIDE DEF told
  <2> QED
    BY <1>17 DEF EndpointRecord, ConfigState
<1>6. /\ rsp \in Message /\ rsp.type = "CfgRsp"
      /\ no \in Message /\ no.type = "CfgRsp"
  <2>1. r.dcid \in Cid \cup {NullCid}
    BY <1>5 DEF EndpointRecord
  <2> HIDE DEF r
  <2> QED
    BY <1>3, <2>1 DEF Command, Message, Mode
<1>7. /\ <<rsp>> \in Seq(Message) /\ AllNamed(<<rsp>>)
      /\ <<no>> \in Seq(Message) /\ AllNamed(<<no>>)
  <2> HIDE DEF rsp, no
  <2> QED
    BY <1>6, NamedSequences, SequenceTypes
<1>8. /\ c.r \in EndpointRecord /\ c.msgs \in Seq(Message) /\ AllNamed(c.msgs)
      /\ c.r = r \/ c.r = [r EXCEPT !.out = "SENT"]
  <2> HIDE DEF r, ids, e
  <2> QED
    BY <1>1, <1>5, ConfigSent
<1>9. /\ <<rsp>> \o c.msgs \in Seq(Message) /\ AllNamed(<<rsp>> \o c.msgs)
  BY <1>7, <1>8, NamedSequences, SequenceTypes
<1>10. /\ c.r.cid = r.cid /\ c.r.call = r.call /\ c.r.sock = r.sock /\ c.r.queue = r.queue
  <2> HIDE DEF r, c
  <2> QED
    BY <1>5, <1>8 DEF EndpointRecord
<1>11. /\ d \in EndpointRecord /\ d.cid = r.cid /\ d.call = r.call /\ d.sock = r.sock
       /\ d.queue = r.queue \/ (r.queue = "pending" /\ d.queue = "connected")
  <2> HIDE DEF r
  <2>1. "none" \in Mode \cup {"none"}
    OBVIOUS
  <2> QED
    BY <1>5, <2>1, ConfiguredFields
<1>12. \/ FinishOnConn(h, e, old, ids, <<no>>)
       \/ /\ old.state \in {"CONFIGURATION", "OPEN"}
          /\ \/ FinishOnConn(h, e, c.r, c.ids, <<rsp>> \o c.msgs)
             \/ FinishOnConn(h, e, d, ids, <<rsp>>)
             \/ FinishOnConn(h, e, told, ids, <<rsp>>)
  BY DEF HandleConfigurationReq
<1> HIDE DEF m, e, old, w, told, r, rsp, no, ids, c, d
<1>13. \A x, s, i : x \in EndpointRecord /\ Follows(x, ep[e]) /\ s \in Seq(Message) /\ AllNamed(s)
        => (FinishOnConn(h, e, x, i, s) => Effect(h))
  BY FinishEffect DEF e
<1>14. CASE FinishOnConn(h, e, old, ids, <<no>>)
  BY <1>1, <1>7, <1>13, <1>14
<1>15. CASE old.state \in {"CONFIGURATION", "OPEN"}
  <2>1. Follows(c.r, ep[e]) /\ Follows(d, ep[e]) /\ Follows(told, ep[e])
    BY <1>1, <1>2, <1>5, <1>8, <1>10, <1>11, <1>15, <1>17, FollowsConfiguring
  <2> QED
    BY <1>7, <1>8, <1>9, <1>11, <1>12, <1>13, <1>14, <1>17, <2>1
<1> QED
  BY <1>12, <1>14, <1>15

LEMMA ConfigurationRspEffect ==
    ASSUME IInv, MapInv, NEW h \in Host, HandleConfigurationRsp(h)
    PROVE  Effect(h)
<1> DEFINE m == rx[h].msg
           e == rx[h].ep
           r == Notified(e)
           ids == idents[h]
           told == WithMode(r, m.mode)
           n == [told EXCEPT !.out = "DONE"]
           c == SendChannelConfig(e, told, ids)
           again == SendChannelConfig(e, r, ids)
           d == ConfigDone(n)
<1>0. Handling(h, "CfgRsp")
  BY DEF HandleConfigurationRsp
<1>1. /\ e \in Endpoint /\ m \in Message /\ ids \in IdentTable
      /\ ep[e] \in EndpointRecord
      /\ ep[e].call # "route" /\ ep[e].sock = "live"
      /\ r = [ep[e] EXCEPT !.woken = TRUE]
      /\ r \in EndpointRecord /\ Follows(r, ep[e])
      /\ <<Reject(m.ident)>> \in Seq(Message) /\ AllNamed(<<Reject(m.ident)>>)
      /\ << >> \in Seq(Message) /\ AllNamed(<< >>)
  BY <1>0, Handled
<1>2. /\ r.state = ep[e].state /\ r.cid = ep[e].cid /\ r.call = ep[e].call
      /\ r.sock = ep[e].sock /\ r.queue = ep[e].queue
  BY <1>1 DEF EndpointRecord
<1>3. m.mode \in Mode \cup {"none"}
  BY <1>1 DEF Message
<1>4. /\ told \in EndpointRecord /\ told.cid = ep[e].cid /\ told.call = ep[e].call
      /\ told.sock = ep[e].sock /\ told.queue = ep[e].queue
  <2> HIDE DEF r, m, e
  <2>1. LET x == WithMode(r, m.mode)
        IN  /\ x \in EndpointRecord /\ x.cid = r.cid /\ x.call = r.call
            /\ x.sock = r.sock /\ x.queue = r.queue
    BY <1>1, <1>3, ConfiguredFields
  <2> QED
    BY <1>2, <2>1
<1>5. /\ n \in EndpointRecord /\ n.cid = ep[e].cid /\ n.call = ep[e].call
      /\ n.sock = ep[e].sock /\ n.queue = ep[e].queue
  <2> HIDE DEF told
  <2> QED
    BY <1>4 DEF EndpointRecord, ConfigState
<1>8. /\ c.r \in EndpointRecord /\ c.msgs \in Seq(Message) /\ AllNamed(c.msgs)
      /\ c.r = told \/ c.r = [told EXCEPT !.out = "SENT"]
  <2> HIDE DEF told, ids, e
  <2> QED
    BY <1>1, <1>4, ConfigSent
<1>10. /\ c.r.cid = told.cid /\ c.r.call = told.call /\ c.r.sock = told.sock
       /\ c.r.queue = told.queue
  <2> HIDE DEF told, c
  <2> QED
    BY <1>4, <1>8 DEF EndpointRecord
<1>17. /\ again.r \in EndpointRecord /\ again.msgs \in Seq(Message) /\ AllNamed(again.msgs)
       /\ again.r = r \/ again.r = [r EXCEPT !.out = "SENT"]
  <2> HIDE DEF r, ids, e
  <2> QED
    BY <1>1, ConfigSent
<1>18. /\ again.r.cid = r.cid /\ again.r.call = r.call /\ again.r.sock = r.sock
       /\ again.r.queue = r.queue
  <2>1. r \in EndpointRecord
    BY <1>1
  <2> HIDE DEF r, again
  <2> QED
    BY <1>17, <2>1 DEF EndpointRecord
<1>11. /\ d \in EndpointRecord /\ d.cid = n.cid /\ d.call = n.call /\ d.sock = n.sock
       /\ d.queue = n.queue \/ (n.queue = "pending" /\ d.queue = "connected")
  <2> HIDE DEF n
  <2>1. "none" \in Mode \cup {"none"}
    OBVIOUS
  <2> QED
    BY <1>5, <2>1, ConfiguredFields
<1>12. \/ FinishOnConn(h, e, r, ids, <<Reject(m.ident)>>)
       \/ Finish(h, e, r, ids, << >>)
       \/ /\ r.state = "CONFIGURATION"
          /\ \/ FinishOnConn(h, e, c.r, c.ids, c.msgs)
             \/ FinishOnConn(h, e, again.r, again.ids, again.msgs)
             \/ Finish(h, e, told, ids, << >>)
             \/ Finish(h, e, d, ids, << >>)
  BY DEF HandleConfigurationRsp
<1> HIDE DEF m, e, r, ids, told, n, c, again, d
<1>13. \A x, s, i : x \in EndpointRecord /\ Follows(x, ep[e]) /\ s \in Seq(Message) /\ AllNamed(s)
        => /\ FinishOnConn(h, e, x, i, s) => Effect(h)
           /\ Finish(h, e, x, i, s) => Effect(h)
  BY FinishEffect DEF e
<1>15. CASE r.state = "CONFIGURATION"
  <2>1. Follows(c.r, ep[e]) /\ Follows(again.r, ep[e]) /\ Follows(told, ep[e])
        /\ Follows(d, ep[e])
    BY <1>1, <1>2, <1>4, <1>5, <1>8, <1>10, <1>11, <1>15, <1>17, <1>18, FollowsConfiguring
  <2> QED
    BY <1>1, <1>4, <1>8, <1>11, <1>12, <1>13, <1>17, <2>1
<1>16. CASE r.state # "CONFIGURATION"
  BY <1>1, <1>12, <1>13, <1>16
<1> QED
  BY <1>15, <1>16

LEMMA WaitEndsEffect ==
    ASSUME IInv, MapInv, NEW h \in Host, HandleCommandRejected(h) \/ HandleInfoRsp(h)
    PROVE  Effect(h)
<1> DEFINE m == rx[h].msg
           e == rx[h].ep
           r == Notified(e)
           closed == [r EXCEPT !.state = "CLOSED"]
<1>0. Handling(h, m.type)
  BY DEF HandleCommandRejected, HandleInfoRsp, Handling
<1>1. /\ ep[e] \in EndpointRecord
      /\ r = [ep[e] EXCEPT !.woken = TRUE]
      /\ r \in EndpointRecord /\ Follows(r, ep[e])
      /\ << >> \in Seq(Message) /\ AllNamed(<< >>)
  BY <1>0, Handled
<1>2. closed \in EndpointRecord /\ Follows(closed, ep[e])
  <2>1. closed = [ep[e] EXCEPT !.woken = TRUE, !.state = "CLOSED"]
    BY <1>1 DEF EndpointRecord
  <2> QED
    BY <1>1, <2>1, FollowsSame DEF EndpointRecord, ChannelStatus
<1>3. Follows(ep[e], ep[e])
  BY DEF Follows, QueueMoves
<1>4. \E x \in {ep[e], r, closed} : Finish(h, e, x, idents[h], << >>)
  <2>1. CASE HandleInfoRsp(h)
    BY <2>1 DEF HandleInfoRsp
  <2>2. CASE HandleCommandRejected(h)
    <3> DEFINE waiting == r.state \in {"WAIT_FOR_INFO_RSP", "WAIT_FOR_CONNECTION_RSP"}
               x == [r EXCEPT !.state = IF waiting THEN "CLOSED" ELSE @]
    <3>1. Finish(h, e, x, idents[h], << >>)
      BY <2>2 DEF HandleCommandRejected
    <3>2. waiting => x = closed
      OBVIOUS
    <3>3. ~waiting => x = r
      <4> HIDE DEF r
      <4> QED
        BY <1>1 DEF EndpointRecord
    <3> QED
      BY <3>1, <3>2, <3>3
  <2> QED
    BY <2>1, <2>2
<1> QED
  BY <1>1, <1>2, <1>3, <1>4, FinishEffect

LEMMA HandlersKeep ==
    ASSUME IInv, MapInv, SemInv, NEW h \in Host,
           \/ HandleConnectionRsp(h) \/ HandleConfigurationReq(h)
           \/ HandleConfigurationRsp(h) \/ HandleDisconnectionReq(h)
           \/ HandleDisconnectionRsp(h) \/ HandleCommandRejected(h) \/ HandleInfoRsp(h)
    PROVE  MapInv' /\ SemInv'
<1>1. Effect(h)
  BY ConnectionRspEffect, ConfigurationReqEffect, ConfigurationRspEffect,
     DisconnectionEffect, WaitEndsEffect
<1>2. Handling(h, rx[h].msg.type)
  BY DEF HandleConnectionRsp, HandleConfigurationReq, HandleConfigurationRsp,
         HandleDisconnectionReq, HandleDisconnectionRsp, HandleCommandRejected,
         HandleInfoRsp, Handling
<1> QED
  BY <1>1, <1>2, EffectKeeps

----------------------------------------------------------------------------
\* Other steps of the RX thread

LEMMA ReceiveKeeps ==
    ASSUME IInv, MapInv, SemInv, NEW h \in Host, Receive(h)
    PROVE  MapInv' /\ SemInv'
<1> DEFINE m == Head(link[h])
           target == IF m.type \in Responses THEN LookupIdent(idents[h], m.ident)
                     ELSE IF m.type \in {"CfgReq", "DiscReq"}
                     THEN ForChannel(h, m.dcid)
                     ELSE NoEp
           busy == [type |-> "busy", msg |-> m, ep |-> target]
<1>1. /\ rx' = [rx EXCEPT ![h] = busy] /\ link' = [link EXCEPT ![h] = Tail(@)]
      /\ UNCHANGED <<ep, listener, acceptSem, used>> /\ link[h] # << >>
  BY DEF Receive
<1>2. /\ rx \in [Host -> Busy \cup {Idle}] /\ link \in [Host -> Seq(Message)]
      /\ \A e \in Endpoint : Home(e) \in Host
  BY DEF IInv, TypeOK, Home, Host
<1>4. busy.msg = m /\ busy.ep = target
  OBVIOUS
<1> HIDE DEF busy, target
<1>6. AllNamed(link'["A"]) /\ (rx'["A"] # Idle => Named(rx'["A"].msg))
  <2>1. CASE h = "A"
    <3>1. link["A"] \in Seq(Message) /\ link["A"] # << >> /\ AllNamed(link["A"])
      BY <1>1, <1>2, <2>1 DEF MapInv
    <3>2. Named(Head(link["A"])) /\ AllNamed(Tail(link["A"]))
      BY <3>1, NamedSequences
    <3>3. link'["A"] = Tail(link["A"]) /\ rx'["A"] = busy
      BY <1>1, <1>2, <2>1
    <3> QED
      BY <1>4, <2>1, <3>2, <3>3
  <2>2. CASE h # "A"
    <3>1. link'["A"] = link["A"] /\ rx'["A"] = rx["A"]
      BY <1>1, <1>2, <2>2 DEF Host
    <3> QED
      BY <3>1 DEF MapInv
  <2> QED
    BY <2>1, <2>2
<1>7. MapInv'
  <2>1. \A e \in Client : used'.connects[e] = 0 => Fresh(ep[e])'
    BY <1>1, EndpointAssumption DEF MapInv, Fresh
  <2>2. ASSUME NEW e \in Endpoint, FirstChannel(e)'
        PROVE  Bound(ep[e])'
    BY <1>1, <2>2 DEF MapInv, FirstChannel, Bound
  <2> QED
    BY <1>1, <1>6, <2>1, <2>2 DEF MapInv, Fresh
<1>8. SemInv'
  BY <1>1, SemNoStep
<1> QED
  BY <1>7, <1>8

LEMMA StrayKeeps ==
    ASSUME IInv, MapInv, SemInv, NEW h \in Host,
           HandleFreed(h) \/ HandleStray(h) \/ RefuseConnection(h)
    PROVE  MapInv' /\ SemInv'
<1> DEFINE m == rx[h].msg
<1>1. rx \in [Host -> Busy \cup {Idle}] /\ TypeOK
  BY DEF IInv, TypeOK
<1>2. CASE HandleFreed(h)
  BY <1>2, MapNoStep, SemNoStep DEF HandleFreed, Panic, RxFollows, MapInv
<1>3. ASSUME NEW x \in Message, x.type # "DiscReq", Post(h, <<x>>) \/ Post(h, << >>)
      PROVE  AllNamed(link'["A"])
  BY <1>1, <1>3, NamedSequences, SequenceTypes, PostNames DEF MapInv
<1>4. CASE HandleStray(h)
  <2>1. m \in Message /\ m.ident \in Ident \cup {NullIdent}
    BY <1>1, <1>4, RxBusy DEF HandleStray
  <2>2. /\ Reject(m.ident) \in Message /\ Reject(m.ident).type # "DiscReq"
        /\ Command("InfoRsp", m.ident) \in Message
        /\ Command("InfoRsp", m.ident).type # "DiscReq"
    BY <2>1, CommandType DEF Reject, Types, Command
  <2>3. \E x \in Message : x.type # "DiscReq" /\ (Post(h, <<x>>) \/ Post(h, << >>))
    BY <1>4, <2>2 DEF HandleStray
  <2>4. AllNamed(link'["A"])
    BY <1>3, <2>3
  <2> QED
    BY <1>1, <1>4, <2>4, MapNoStep, SemNoStep DEF HandleStray, RxFollows
<1>5. CASE RefuseConnection(h)
  <2> DEFINE x == [Command("ConnRsp", m.ident) EXCEPT !.scid = m.scid, !.result = "REFUSED"]
  <2>1. m \in Message /\ m.ident \in Ident \cup {NullIdent} /\ m.scid \in Cid \cup {NullCid}
    BY <1>1, <1>5, RxBusy DEF RefuseConnection, Message
  <2>2. x \in Message /\ x.type # "DiscReq"
    BY <2>1 DEF Command, Message
  <2>3. AllNamed(link'["A"])
    BY <1>3, <1>5, <2>2 DEF RefuseConnection
  <2> QED
    BY <1>1, <1>5, <2>3, MapNoStep, SemNoStep DEF RefuseConnection, RxFollows
<1> QED
  BY <1>2, <1>4, <1>5

LEMMA HandleConnectionReqKeeps ==
    ASSUME IInv, MapInv, SemInv, NEW h \in Host, NEW f \in Child, HandleConnectionReq(h, f)
    PROVE  MapInv' /\ SemInv'
<1> DEFINE m == rx[h].msg
           born == [ep[f] EXCEPT !.sock = "live", !.queue = "pending"]
           cid == AllocCid(CidsOf(h), nextCid[h])
           new == [born EXCEPT !.state = "CONFIGURATION", !.conn = hci[h],
                               !.psm = m.psm, !.cid = cid, !.dcid = m.scid]
           c == SendChannelConfig(f, new, idents[h])
           rsp == [Command("ConnRsp", m.ident) EXCEPT !.scid = m.scid]
           no == [rsp EXCEPT !.result = "REFUSED"]
           yes == [rsp EXCEPT !.dcid = cid]
<1>1. /\ f \in Endpoint /\ f \notin Client /\ Home(f) = h /\ ep[f] \in EndpointRecord
      /\ EndpointInv(ep[f]) /\ ep[f].sock = "unborn" /\ TypeOK /\ rx[h] # Idle
      /\ ep \in [Endpoint -> EndpointRecord] /\ rx \in [Host -> Busy \cup {Idle}]
      /\ ep[f].call = "none" /\ listener = "LISTEN"
  BY EndpointTypes, EndpointAssumption DEF HandleConnectionReq, IInv, TypeOK, Home, MapInv
<1>2. ep[f].state = "CLOSED" /\ ep[f].queue \notin {"pending", "connected"}
  BY <1>1 DEF EndpointInv, SemInv
<1>3. /\ cid \in Cid \cup {NullCid} /\ hci[h] \in Conn /\ idents[h] \in IdentTable
      /\ m \in Message /\ m.ident \in Ident \cup {NullIdent}
      /\ m.psm \in Psm \cup {"none"} /\ m.scid \in Cid \cup {NullCid}
  <2>1. m \in Message
    BY <1>1, RxBusy
  <2> QED
    BY <1>1, <2>1, AllocCidType DEF TypeOK, Message
<1> HIDE DEF cid, m
<1>4. /\ born \in EndpointRecord /\ born.state = "CLOSED" /\ born.call = "none"
      /\ born.sock = "live" /\ born.queue = "pending"
  BY <1>1, <1>2 DEF EndpointRecord
<1>5. no \in Message /\ yes \in Message /\ no.type = "ConnRsp" /\ yes.type = "ConnRsp"
  BY <1>3 DEF Command, Message
<1> HIDE DEF born, no, yes
<1>6. /\ new \in EndpointRecord /\ new.cid = cid /\ new.call = "none"
      /\ new.sock = "live" /\ new.queue = "pending"
  BY <1>3, <1>4 DEF EndpointRecord, ChannelStatus, Establishing
<1> HIDE DEF new
<1>7. /\ c.r \in EndpointRecord /\ c.msgs \in Seq(Message) /\ AllNamed(c.msgs)
      /\ c.r = new \/ c.r = [new EXCEPT !.out = "SENT"]
  BY <1>1, <1>3, <1>6, ConfigSent
<1> HIDE DEF c
<1>8. c.r.cid = cid /\ c.r.call = "none" /\ c.r.sock = "live" /\ c.r.queue = "pending"
  BY <1>6, <1>7 DEF EndpointRecord
<1>9. \/ ep' = [ep EXCEPT ![f] = born] /\ Post(h, <<no>>)
      \/ cid # NullCid /\ ep' = [ep EXCEPT ![f] = c.r] /\ Post(h, <<yes>> \o c.msgs)
  BY DEF HandleConnectionReq, m, born, cid, new, c, no, yes
<1>10. UNCHANGED <<listener, acceptSem, used>> /\ rx' = [rx EXCEPT ![h] = Idle]
  BY DEF HandleConnectionReq
<1>11. AllNamed(link'["A"])
  <2>1. /\ <<no>> \in Seq(Message) /\ AllNamed(<<no>>)
        /\ <<yes>> \o c.msgs \in Seq(Message) /\ AllNamed(<<yes>> \o c.msgs)
    BY <1>5, <1>7, NamedSequences, SequenceTypes
  <2> QED
    BY <1>1, <1>9, <2>1, PostNames DEF MapInv
<1>12. PICK r \in {born, c.r} : ep' = [ep EXCEPT ![f] = r] /\ (r = born \/ cid # NullCid)
  BY <1>9
<1>13. r.call = "none" /\ Bound(r) /\ r.queue = "pending" /\ r.sock = "live"
  BY <1>4, <1>8, <1>12 DEF Bound
<1>14. RxFollows /\ rx'[h] # rx[h]
  BY <1>1, <1>10 DEF RxFollows
<1>15. MapInv'
  BY <1>1, <1>10, <1>11, <1>12, <1>13, <1>14, MapOneStep
<1>16. SemInv'
  <2>1. ep'[f] = r /\ \A g \in Endpoint : g # f => ep'[g] = ep[g]
    BY <1>1, <1>12
  <2>2. Waiting' = Waiting
    BY <1>2, <1>13, <2>1, EndpointAssumption DEF Waiting
  <2>3. \A e \in Client : ep'[e].queue = "none"
    BY <1>1, <2>1, EndpointAssumption DEF SemInv
  <2>4. \A g \in Child : ep'[g].sock = "unborn" \/ listener # "LISTEN"
                         => ep'[g].queue \notin {"pending", "connected"}
    BY <1>1, <1>13, <2>1, EndpointAssumption DEF SemInv
  <2> QED
    BY <1>10, <2>2, <2>3, <2>4 DEF SemInv
<1> QED
  BY <1>15, <1>16

----------------------------------------------------------------------------
\* The user threads

\* What a user's step may make of an endpoint
Sound(e, r) ==
    /\ FirstChannel(e) => Bound(r)
    /\ Fresh(ep[e]) => Fresh(r)
    /\ e \in Child => r.call = ep[e].call
    /\ r.queue = ep[e].queue
    /\ r.sock = "unborn" => ep[e].sock = "unborn"

LEMMA UserKeeps ==
    ASSUME IInv, MapInv, SemInv, NEW e \in Endpoint, NEW r, Sound(e, r),
           ep' = [ep EXCEPT ![e] = r],
           UNCHANGED <<listener, acceptSem, rx>>,
           used'.connects = used.connects, AllNamed(link'["A"])
    PROVE  MapInv' /\ SemInv'
<1>1. RxFollows
  BY DEF RxFollows
<1>3. e \in Client /\ used.connects[e] = 0 => Fresh(r)
  BY DEF Sound, MapInv
<1>4. MapInv'
  BY <1>1, <1>3, MapOneStep DEF Sound, IInv, MapInv
<1>5. SemInv'
  <2>1. Released(ep[e], r) = 0 /\ acceptSem \in Nat
    BY DEF Released, Sound, IInv, TypeOK
  <2>2. acceptSem' = acceptSem + Released(ep[e], r)
    BY <2>1
  <2> QED
    BY <2>2, SemOneStep DEF Sound, QueueMoves, IInv
<1> QED
  BY <1>4, <1>5

LEMMA StillNamed ==
    ASSUME MapInv
    PROVE  link' = link => AllNamed(link'["A"])
BY DEF MapInv

LEMMA RequestConnectionKeeps ==
    ASSUME IInv, MapInv, SemInv, NEW e \in Client, NEW r \in EndpointRecord,
           RequestConnection(e, r),
           UNCHANGED <<listener, acceptSem, rx, used>>,
           ep[e].call # "none", r.state = "CLOSED", r.conn = ep[e].conn,
           FirstChannel(e) => r.cid # NullCid,
           r.cid # NullCid \/ r.cid = ep[e].cid,
           r.queue = ep[e].queue, r.sock = ep[e].sock
    PROVE  MapInv' /\ SemInv'
<1> DEFINE i == AllocIdent(idents["A"])
           req == [Command("ConnReq", i) EXCEPT !.scid = r.cid, !.psm = r.psm]
           given == [r EXCEPT !.call = "none"]
           asked == [r EXCEPT !.state = "WAIT_FOR_CONNECTION_RSP",
                              !.call = "connect", !.woken = FALSE]
<1>1. e \in Endpoint /\ e \notin Child /\ TypeOK /\ "A" \in Host
  BY EndpointTypes, EndpointAssumption DEF IInv, Host
<1>2. ~Fresh(ep[e])
  BY DEF Fresh
<1>3. Sound(e, given)
  BY <1>1, <1>2 DEF Sound, Bound, EndpointRecord
<1>4. Sound(e, asked)
  BY <1>1, <1>2 DEF Sound, Bound, EndpointRecord
<1>5. CASE i = NullIdent
  <2>1. ep' = [ep EXCEPT ![e] = given] /\ link' = link
    BY <1>5 DEF RequestConnection
  <2> HIDE DEF given
  <2> QED
    BY <1>1, <1>3, <2>1, StillNamed, UserKeeps
<1>6. CASE i # NullIdent
  <2>1. ep' = [ep EXCEPT ![e] = asked] /\ Post("A", <<req>>)
    BY <1>6 DEF RequestConnection
  <2>2. req \in Message
    <3>1. i \in Ident /\ r.cid \in Cid \cup {NullCid} /\ r.psm \in Psm \cup {"none"}
      BY <1>1, <1>6, AllocIdentType DEF EndpointRecord, TypeOK
    <3> HIDE DEF i
    <3> QED
      BY <3>1 DEF Command, Message
  <2>3. AllNamed(link'["A"])
    BY <1>1, <2>1, <2>2, SequenceTypes, PostNames DEF MapInv
  <2> HIDE DEF asked
  <2> QED
    BY <1>1, <1>4, <2>1, <2>3, UserKeeps
<1> QED
  BY <1>5, <1>6

\* connect() is called: from now on the endpoint is one that was connected.
LEMMA ConnectRouteKeeps ==
    ASSUME IInv, MapInv, SemInv, NEW e \in Client, NEW p \in Psm, ConnectRoute(e, p)
    PROVE  MapInv' /\ SemInv'
<1> DEFINE r == [ep[e] EXCEPT !.conn = hci["A"], !.psm = p, !.call = "route"]
<1>1. /\ e \in Endpoint /\ e \notin Child /\ TypeOK /\ ep \in [Endpoint -> EndpointRecord]
      /\ ep[e] \in EndpointRecord /\ used \in Used
  BY EndpointTypes, EndpointAssumption DEF IInv, TypeOK
<1>2. /\ ep' = [ep EXCEPT ![e] = r] /\ ep[e].state = "CLOSED" /\ ep[e].call = "none"
      /\ UNCHANGED <<listener, acceptSem, rx, link>>
      /\ used' = [used EXCEPT !.connects[e] = @ + 1]
  BY <1>1 DEF ConnectRoute, EndpointRecord
<1>3. /\ r.state = "CLOSED" /\ r.cid = ep[e].cid /\ r.dcid = ep[e].dcid
      /\ r.call = "route" /\ r.queue = ep[e].queue /\ r.sock = ep[e].sock
  BY <1>1, <1>2 DEF EndpointRecord
<1> HIDE DEF r
<1>4. /\ used.connects \in [Client -> Nat]
      /\ used'.connects[e] = used.connects[e] + 1
      /\ \A g \in Client : g # e => used'.connects[g] = used.connects[g]
  BY <1>1, <1>2 DEF Used
<1>5. used'.connects[e] <= 1 => used.connects[e] = 0
  BY <1>4
<1>6. ep'[e] = r /\ \A g \in Endpoint : g # e => ep'[g] = ep[g]
  BY <1>1, <1>2
<1>8. ASSUME NEW g \in Endpoint, FirstChannel(g)'
      PROVE  Bound(ep[g])'
  <2>1. CASE g = e
    <3>1. used.connects[e] = 0
      BY <1>1, <1>5, <1>8, <2>1 DEF FirstChannel
    <3>2. Fresh(ep[e])
      BY <3>1 DEF MapInv
    <3> QED
      BY <1>3, <1>6, <2>1, <3>2 DEF Fresh, Bound
  <2>2. CASE g # e
    <3>1. FirstChannel(g)
      BY <1>4, <1>8, <2>2, EndpointAssumption DEF FirstChannel
    <3> QED
      BY <1>6, <2>2, <3>1 DEF MapInv, Bound
  <2> QED
    BY <2>1, <2>2
<1>9. ASSUME NEW g \in Client, used'.connects[g] = 0
      PROVE  Fresh(ep[g])'
  <2>1. g # e /\ g \in Endpoint
    BY <1>4, <1>9, EndpointAssumption
  <2> QED
    BY <1>4, <1>6, <1>9, <2>1 DEF MapInv, Fresh
<1>10. MapInv'
  <2>1. \A f \in Child : ep'[f].call = "none"
    BY <1>1, <1>6, EndpointAssumption DEF MapInv
  <2>2. AllNamed(link'["A"]) /\ (rx'["A"] # Idle => Named(rx'["A"].msg))
    BY <1>2 DEF MapInv
  <2> QED
    BY <1>8, <1>9, <2>1, <2>2 DEF MapInv
<1>11. SemInv'
  <2>1. Released(ep[e], r) = 0 /\ acceptSem \in Nat
    BY <1>1, <1>3 DEF Released, TypeOK
  <2>2. acceptSem' = acceptSem + Released(ep[e], r)
    BY <1>2, <2>1
  <2> QED
    BY <1>1, <1>2, <1>3, <2>2, SemOneStep DEF QueueMoves
<1> QED
  BY <1>10, <1>11

LEMMA ConnectKeeps ==
    ASSUME IInv, MapInv, SemInv, NEW e \in Client,
           ConnectBind(e) \/ ConnectAfterInfo(e) \/ ConnectWake(e) \/ ConnectInterrupted(e)
    PROVE  MapInv' /\ SemInv'
<1>1. /\ e \in Endpoint /\ e \notin Child /\ "A" \in Host /\ TypeOK
      /\ ep[e] \in EndpointRecord /\ EndpointInv(ep[e])
      /\ ep \in [Endpoint -> EndpointRecord]
      /\ FirstChannel(e) => Bound(ep[e])
  BY EndpointTypes, EndpointFacts, EndpointAssumption DEF Host, IInv, TypeOK, MapInv
<1>2. \A why : Panic(why) => MapInv' /\ SemInv'
  BY MapNoStep, SemNoStep DEF Panic, RxFollows, MapInv
<1>3. CASE ConnectBind(e)
  <2> DEFINE cid == AllocCid(CidsOf("A"), nextCid["A"])
             r == [ep[e] EXCEPT !.cid = cid, !.in = "NONE", !.out = "NONE"]
             asking == [r EXCEPT !.state = "WAIT_FOR_INFO_RSP", !.call = "info"]
             given == [ep[e] EXCEPT !.call = "none"]
             i == AllocIdent(idents["A"])
             req == Command("InfoReq", i)
  <2>1. cid \in Cid \cup {NullCid}
    BY <1>1, AllocCidType DEF TypeOK
  <2>2. ep[e].call = "route" /\ ep[e].state = "CLOSED" /\ ~Fresh(ep[e])
    BY <1>1, <1>3 DEF ConnectBind, EndpointInv, Fresh
  <2> HIDE DEF cid
  <2>3. Sound(e, given)
    BY <1>1, <2>2 DEF Sound, Bound, EndpointRecord
  <2>4. /\ r \in EndpointRecord /\ r.cid = cid /\ r.state = "CLOSED" /\ r.dcid = ep[e].dcid
        /\ r.conn = ep[e].conn /\ r.sock = ep[e].sock /\ r.queue = ep[e].queue
    BY <1>1, <2>1, <2>2 DEF EndpointRecord, ConfigState
  <2> HIDE DEF r
  <2>5. cid # NullCid => Sound(e, asking)
    BY <1>1, <2>2, <2>4 DEF Sound, Bound, EndpointRecord
  <2> HIDE DEF given, asking
  <2>6. CASE /\ UNCHANGED <<listener, acceptSem, rx, used>>
             /\ ep' = [ep EXCEPT ![e].call = "none"]
             /\ UNCHANGED <<idents, link>>
    <3>1. ep' = [ep EXCEPT ![e] = given]
      BY <1>1, <2>6 DEF given, EndpointRecord
    <3> QED
      BY <1>1, <2>3, <2>6, <3>1, StillNamed, UserKeeps
  <2>7. CASE /\ UNCHANGED <<listener, acceptSem, rx, used>> /\ cid # NullCid
             /\ i # NullIdent /\ ep' = [ep EXCEPT ![e] = asking] /\ Post("A", <<req>>)
    <3>1. i \in Ident
      BY <1>1, <2>7, AllocIdentType DEF TypeOK
    <3>2. req \in Message
      BY <3>1, CommandType DEF Types
    <3> HIDE DEF req
    <3>3. AllNamed(link'["A"])
      BY <1>1, <2>7, <3>2, SequenceTypes, PostNames DEF MapInv
    <3> QED
      BY <1>1, <2>5, <2>7, <3>3, UserKeeps
  <2>8. CASE /\ UNCHANGED <<listener, acceptSem, rx, used>> /\ cid # NullCid
             /\ RequestConnection(e, r)
    BY <2>2, <2>4, <2>8, RequestConnectionKeeps
  <2>9. \/ \E why : Panic(why)
        \/ /\ UNCHANGED <<listener, acceptSem, rx, used>>
           /\ \/ ep' = [ep EXCEPT ![e].call = "none"] /\ UNCHANGED <<idents, link>>
              \/ /\ cid # NullCid
                 /\ \/ i # NullIdent /\ ep' = [ep EXCEPT ![e] = asking] /\ Post("A", <<req>>)
                    \/ RequestConnection(e, r)
    BY <1>3 DEF ConnectBind, cid, r, asking
  <2> HIDE DEF i, req
  <2> QED
    BY <1>2, <2>6, <2>7, <2>8, <2>9
<1>4. CASE ConnectAfterInfo(e)
  <2> DEFINE r == [ep[e] EXCEPT !.state = "CLOSED"]
  <2>1. /\ r \in EndpointRecord /\ r.cid = ep[e].cid /\ r.conn = ep[e].conn
        /\ r.sock = ep[e].sock /\ r.queue = ep[e].queue
        /\ r.state = "CLOSED"
    BY <1>1 DEF EndpointRecord, ChannelStatus
  <2> HIDE DEF r
  <2>2. \/ \E why : Panic(why)
        \/ /\ UNCHANGED <<listener, acceptSem, rx, used>> /\ ConnValid(e)
           /\ RequestConnection(e, r)
    BY <1>4 DEF ConnectAfterInfo, r
  <2>3. FirstChannel(e) /\ ConnValid(e) => ep[e].cid # NullCid
    BY <1>1, <1>4 DEF Bound, ConnValid, ConnectAfterInfo
  <2>4. ep[e].call # "none"
    BY <1>4 DEF ConnectAfterInfo
  <2> QED
    BY <1>2, <2>1, <2>2, <2>3, <2>4, RequestConnectionKeeps
<1>5. CASE ConnectWake(e) \/ ConnectInterrupted(e)
  <2>1. PICK w \in BOOLEAN, c \in {"none", "connect"} :
           /\ ep' = [ep EXCEPT ![e] = [@ EXCEPT !.woken = w, !.call = c]]
           /\ UNCHANGED <<listener, acceptSem, link, rx, used>> /\ ep[e].call = "connect"
    <3>1. CASE ConnectWake(e)
      BY <1>1, <3>1 DEF ConnectWake, EndpointRecord
    <3>2. CASE ConnectInterrupted(e)
      <4>1. ep[e].woken \in BOOLEAN
            /\ [ep[e] EXCEPT !.woken = ep[e].woken, !.call = "none"]
                  = [ep[e] EXCEPT !.call = "none"]
        BY <1>1 DEF EndpointRecord
      <4> QED
        BY <1>1, <3>2, <4>1 DEF ConnectInterrupted, EndpointRecord
    <3> QED
      BY <1>5, <3>1, <3>2
  <2> DEFINE r == [ep[e] EXCEPT !.woken = w, !.call = c]
  <2>2. Sound(e, r)
    BY <1>1, <2>1 DEF Sound, Bound, Fresh, EndpointRecord
  <2> HIDE DEF r
  <2>3. ep' = [ep EXCEPT ![e] = r]
    BY <1>1, <2>1 DEF r
  <2> QED
    BY <1>1, <2>1, <2>2, <2>3, StillNamed, UserKeeps
<1> QED
  BY <1>3, <1>4, <1>5

----------------------------------------------------------------------------
\* Shutdown(), Free(), the listener, the links and the other vendor's stack

LEMMA CloseKeeps ==
    ASSUME IInv, MapInv, SemInv, NEW e \in Endpoint, CloseStep(e)
    PROVE  MapInv' /\ SemInv'
<1>1. /\ TypeOK /\ ep[e] \in EndpointRecord /\ EndpointInv(ep[e])
      /\ ep \in [Endpoint -> EndpointRecord] /\ Home(e) \in Host
      /\ FirstChannel(e) => Bound(ep[e])
      /\ e \in Child \/ e \in Client
  BY EndpointFacts, EndpointAssumption DEF IInv, TypeOK, MapInv
<1>2. Closing(e) => used'.connects = used.connects
  BY <1>1 DEF Closing, TypeOK, Used
<1>3. used' = used => used'.connects = used.connects
  OBVIOUS
<1>4. ASSUME ep' = ep, UNCHANGED <<listener, acceptSem, rx, link>>,
             used'.connects = used.connects
      PROVE  MapInv' /\ SemInv'
  BY <1>4, StillNamed, MapNoStep, SemNoStep DEF RxFollows
<1>5. CASE ShutdownEstablishing(e)
  <2> DEFINE r == [MarkClosed(ep[e]) EXCEPT !.conn = NoConn, !.drop = "forget",
                                            !.saved = ep[e].conn]
  <2>1. /\ ep' = ep \/ ep' = [ep EXCEPT ![e] = r]
        /\ UNCHANGED <<listener, acceptSem, rx, link>> /\ Closing(e)
        /\ ep[e].state # "CLOSED"
    BY <1>5 DEF ShutdownEstablishing, Establishing
  <2>2. /\ r.state = "CLOSED" /\ r.conn = NoConn /\ r.dcid = ep[e].dcid
        /\ r.call = ep[e].call /\ r.queue = ep[e].queue /\ r.sock = ep[e].sock
    <3> DEFINE c == MarkClosed(ep[e])
    <3>1. /\ c \in EndpointRecord /\ c.call = ep[e].call /\ c.sock = ep[e].sock
          /\ c.queue = ep[e].queue /\ c.dcid = ep[e].dcid /\ c.state = "CLOSED"
      BY <1>1, ClosedFields
    <3> HIDE DEF c
    <3>2. r = [c EXCEPT !.conn = NoConn, !.drop = "forget", !.saved = ep[e].conn]
      BY DEF c
    <3> HIDE DEF r
    <3> QED
      BY <3>1, <3>2 DEF EndpointRecord
  <2> HIDE DEF r
  <2>3. Sound(e, r)
    BY <1>1, <2>1, <2>2 DEF Sound, Bound, Fresh
  <2> QED
    BY <1>1, <1>2, <1>4, <2>1, <2>3, StillNamed, UserKeeps
<1>6. CASE ShutdownForget(e) \/ FreeEnd(e)
  <2>1. PICK r : /\ ep' = [ep EXCEPT ![e] = r] /\ r.conn = ep[e].conn
                 /\ r.state = ep[e].state /\ r.dcid = ep[e].dcid
                 /\ r.call = ep[e].call /\ r.queue = ep[e].queue
                 /\ r.sock = "unborn" => ep[e].sock = "unborn"
                 /\ \/ r.cid = ep[e].cid
                    \/ r.cid = NullCid /\ ep[e].drop = "unmap"
    <3>1. CASE ShutdownForget(e)
      <4> DEFINE r == [ep[e] EXCEPT !.drop = "none", !.saved = NoConn]
      <4>1. ep' = [ep EXCEPT ![e] = r]
        BY <1>1, <3>1 DEF ShutdownForget, EndpointRecord
      <4>2. /\ r.conn = ep[e].conn /\ r.state = ep[e].state /\ r.dcid = ep[e].dcid
            /\ r.cid = ep[e].cid /\ r.call = ep[e].call /\ r.queue = ep[e].queue
            /\ r.sock = ep[e].sock
        BY <1>1 DEF EndpointRecord
      <4> HIDE DEF r
      <4> QED
        BY <4>1, <4>2
    <3>2. CASE FreeEnd(e)
      <4> DEFINE r == [ep[e] EXCEPT !.cid = NullCid, !.drop = "none", !.saved = NoConn,
                                    !.sock = "freed"]
      <4>1. ep' = [ep EXCEPT ![e] = r] /\ ep[e].drop = "unmap"
        BY <1>1, <3>2 DEF FreeEnd, EndpointRecord
      <4>2. /\ r.conn = ep[e].conn /\ r.state = ep[e].state /\ r.dcid = ep[e].dcid
            /\ r.cid = NullCid /\ r.call = ep[e].call /\ r.queue = ep[e].queue
            /\ r.sock = "freed"
        BY <1>1 DEF EndpointRecord
      <4> HIDE DEF r
      <4> QED
        BY <4>1, <4>2
    <3> QED
      BY <1>6, <3>1, <3>2
  <2>2. UNCHANGED <<listener, acceptSem, rx, link, used>>
    BY <1>6 DEF ShutdownForget, FreeEnd
  <2>3. Sound(e, r)
    BY <1>1, <2>1 DEF Sound, Bound, Fresh, EndpointInv
  <2> QED
    BY <2>1, <2>2, <2>3, StillNamed, UserKeeps
<1>7. CASE ShutdownOpen(e)
  <2> DEFINE h == Home(e)
             i == AllocIdent(idents[h])
             r == [ep[e] EXCEPT !.state = "WAIT_FOR_DISCONNECTION_RSP"]
             req == [Command("DiscReq", i) EXCEPT !.dcid = ep[e].dcid, !.scid = ep[e].cid]
  <2>1. /\ UNCHANGED <<listener, acceptSem, rx>> /\ Closing(e) /\ ep[e].state = "OPEN"
        /\ \/ ep' = ep /\ link' = link
           \/ i # NullIdent /\ ep' = [ep EXCEPT ![e] = r] /\ Post(h, <<req>>)
    BY <1>7 DEF ShutdownOpen
  <2>2. /\ r.state # "CLOSED" /\ r.cid = ep[e].cid /\ r.dcid = ep[e].dcid
        /\ r.conn = ep[e].conn /\ r.call = ep[e].call /\ r.queue = ep[e].queue
        /\ r.sock = ep[e].sock
    BY <1>1 DEF EndpointRecord
  <2> HIDE DEF r
  <2>3. ep[e].call # "info" => Sound(e, r)
    BY <1>1, <2>1, <2>2 DEF Sound, Bound, Fresh
  <2>4. FirstChannel(e) => ep[e].call # "info"
    BY <1>1, <2>1 DEF Bound
  <2>5. ep[e].call = "info" => Sound(e, r)
    BY <1>1, <2>1, <2>2, <2>4 DEF Sound, Fresh
  <2>6. CASE i # NullIdent /\ ep' = [ep EXCEPT ![e] = r] /\ Post(h, <<req>>)
    <3>1. req \in Message /\ req.scid = ep[e].cid
      <4>1. i \in Ident /\ ep[e].dcid \in Cid \cup {NullCid} /\ ep[e].cid \in Cid \cup {NullCid}
        BY <1>1, <2>6, AllocIdentType DEF EndpointRecord, TypeOK
      <4> HIDE DEF i
      <4> QED
        BY <4>1 DEF Command, Message
    <3> HIDE DEF req, h, i
    <3>2. h = "B" => ep[e].cid # NullCid
      BY <1>1, <2>1 DEF h, Home, FirstChannel, Bound
    <3>3. <<req>> \in Seq(Message) /\ (h = "B" => AllNamed(<<req>>))
      BY <3>1, <3>2, SequenceTypes DEF AllNamed, Named
    <3>4. AllNamed(link'["A"])
      BY <1>1, <2>6, <3>3, PostNames DEF MapInv, h
    <3> QED
      BY <1>2, <2>1, <2>3, <2>5, <2>6, <3>4, UserKeeps
  <2> QED
    BY <1>2, <1>4, <2>1, <2>6
<1>8. CASE FreeBegin(e)
  <2> DEFINE r == [ep[e] EXCEPT !.state = "CLOSED", !.conn = NoConn,
                                !.drop = "unmap", !.saved = ep[e].conn]
  <2>1. /\ ep' = [ep EXCEPT ![e] = r] /\ ep[e].call = "none"
        /\ UNCHANGED <<listener, acceptSem, rx, link>> /\ Closing(e)
    BY <1>1, <1>8 DEF FreeBegin, EndpointRecord
  <2>2. /\ r.state = "CLOSED" /\ r.conn = NoConn /\ r.dcid = ep[e].dcid
        /\ r.cid = ep[e].cid /\ r.call = ep[e].call /\ r.queue = ep[e].queue
        /\ r.sock = ep[e].sock
    BY <1>1 DEF EndpointRecord
  <2> HIDE DEF r
  <2>3. Sound(e, r)
    BY <1>1, <2>1, <2>2 DEF Sound, Bound, Fresh
  <2> QED
    BY <1>2, <2>1, <2>3, StillNamed, UserKeeps
<1> QED
  BY <1>5, <1>6, <1>7, <1>8 DEF CloseStep

LEMMA ListenerKeeps ==
    ASSUME IInv, MapInv, SemInv, ListenerStep
    PROVE  MapInv' /\ SemInv'
<1>1. TypeOK /\ UNCHANGED <<rx, link, used>> /\ RxFollows
  BY DEF ListenerStep, Bind, Listen, Accept, ListenerShutdown, IInv, RxFollows
<1>2. CASE Bind \/ Listen \/ ListenerShutdown
  <2>1. /\ ep' = ep
        /\ acceptSem' = acceptSem \/ acceptSem' = 0
        /\ listener' = "LISTEN" => listener = "BOUND"
    BY <1>2 DEF Bind, Listen, ListenerShutdown
  <2>2. MapInv'
    BY <1>1, <2>1, StillNamed, MapNoStep
  <2>3. CASE Bind
    BY <2>1, <2>2, <2>3 DEF Bind, SemInv, Waiting
  <2>4. CASE Listen \/ ListenerShutdown
    <3>1. /\ acceptSem' = 0 /\ ep' = ep
          /\ \A f \in Child : ep[f].queue \notin {"pending", "connected"}
      BY <2>4 DEF Listen, ListenerShutdown, SemInv
    <3>2. Waiting' = {}
      BY <3>1 DEF Waiting
    <3>3. IsFiniteSet(Waiting') /\ Cardinality(Waiting') = 0
      BY <3>2, FS_EmptySet
    <3> QED
      BY <2>2, <3>1, <3>3 DEF SemInv
  <2> QED
    BY <1>2, <2>3, <2>4
<1>3. ASSUME NEW f \in Child, Accept(f) PROVE MapInv' /\ SemInv'
  <2> DEFINE r == [ep[f] EXCEPT !.queue = "accepted"]
  <2>1. /\ f \in Endpoint /\ ep[f] \in EndpointRecord
        /\ ep \in [Endpoint -> EndpointRecord]
        /\ Bound(ep[f]) /\ ep[f].call = "none" /\ f \notin Client
    BY <1>1, EndpointAssumption DEF TypeOK, MapInv, FirstChannel
  <2>2. /\ ep' = [ep EXCEPT ![f] = r] /\ ep[f].queue = "connected"
        /\ acceptSem' = acceptSem - 1 /\ listener' = listener
    BY <1>3, <2>1 DEF Accept, EndpointRecord
  <2>3. /\ r.state = ep[f].state /\ r.conn = ep[f].conn /\ r.cid = ep[f].cid
        /\ r.dcid = ep[f].dcid /\ r.call = "none" /\ r.queue = "accepted"
        /\ r.sock = ep[f].sock
    BY <2>1 DEF EndpointRecord
  <2> HIDE DEF r
  <2>4. MapInv'
    <3>1. Bound(r)
      BY <2>1, <2>3 DEF Bound
    <3> QED
      BY <1>1, <2>1, <2>2, <2>3, <3>1, StillNamed, MapOneStep
  <2>5. ep'[f] = r /\ \A g \in Endpoint : g # f => ep'[g] = ep[g]
    BY <2>1, <2>2
  <2>6. Waiting' = Waiting \ {f} /\ f \in Waiting
    BY <2>2, <2>3, <2>5, EndpointAssumption DEF Waiting
  <2>7. IsFiniteSet(Waiting') /\ Cardinality(Waiting') = Cardinality(Waiting) - 1
    BY <2>6, FS_RemoveElement DEF SemInv
  <2>8. \A e \in Client : ep'[e].queue = "none"
    BY <2>1, <2>5, EndpointAssumption DEF SemInv
  <2>9. \A g \in Child : ep'[g].sock = "unborn" \/ listener # "LISTEN"
                         => ep'[g].queue \notin {"pending", "connected"}
    BY <2>3, <2>5, EndpointAssumption DEF SemInv
  <2> QED
    BY <2>2, <2>4, <2>7, <2>8, <2>9 DEF SemInv
<1> QED
  BY <1>2, <1>3 DEF ListenerStep

LEMMA HciKeeps ==
    ASSUME IInv, MapInv, SemInv
    PROVE  /\ HciConnect => MapInv' /\ SemInv'
           /\ \A h \in Host : HciDisconnect(h) => MapInv' /\ SemInv'
<1>1. ASSUME HciConnect PROVE MapInv' /\ SemInv'
  <2>1. /\ UNCHANGED <<ep, listener, acceptSem, link, rx>>
        /\ used'.connects = used.connects
    BY <1>1 DEF HciConnect, IInv, TypeOK, Used
  <2> QED
    BY <2>1, StillNamed, MapNoStep, SemNoStep DEF RxFollows
<1>2. ASSUME NEW h \in Host, HciDisconnect(h) PROVE MapInv' /\ SemInv'
  <2> DEFINE hit == {e \in On(h) : ep[e].cid # NullCid /\ ep[e].conn = hci[h]}
             gone(e) == [ep[e] EXCEPT !.conn = NoConn, !.state = "CLOSED", !.woken = TRUE]
  <2>1. /\ ep' = [e \in Endpoint |-> IF e \in hit THEN gone(e) ELSE ep[e]]
        /\ UNCHANGED <<listener, acceptSem, rx, used>>
        /\ link' = [link EXCEPT ![h] = << >>]
    BY <1>2 DEF HciDisconnect
  <2>2. \A e \in Endpoint :
           /\ gone(e).conn = NoConn /\ gone(e).state = "CLOSED"
           /\ gone(e).cid = ep[e].cid /\ gone(e).dcid = ep[e].dcid
           /\ gone(e).call = ep[e].call /\ gone(e).queue = ep[e].queue
           /\ gone(e).sock = ep[e].sock
    BY ZenonT(40) DEF IInv, TypeOK, EndpointRecord
  <2> HIDE DEF hit, gone
  <2>3. \A e \in Endpoint :
           /\ ep'[e].conn \in {ep[e].conn, NoConn} /\ ep'[e].state \in {ep[e].state, "CLOSED"}
           /\ ep'[e].cid = ep[e].cid /\ ep'[e].dcid = ep[e].dcid
           /\ ep'[e].call = ep[e].call /\ ep'[e].queue = ep[e].queue
           /\ ep'[e].sock = ep[e].sock
    BY <2>1, <2>2
  <2>4. AllNamed(link'["A"])
    <3>1. link \in [Host -> Seq(Message)] /\ "A" \in Host
      BY DEF IInv, TypeOK, Host
    <3> QED
      BY <2>1, <3>1, NamedSequences DEF MapInv
  <2>5. \A e \in Endpoint : FirstChannel(e)' <=> FirstChannel(e)
    BY <2>1 DEF FirstChannel
  <2>6. ASSUME NEW e \in Endpoint, FirstChannel(e)'
        PROVE  Bound(ep[e])'
    <3>1. Bound(ep[e])
      BY <2>5, <2>6 DEF MapInv
    <3> QED
      BY <2>3, <2>5, <3>1 DEF Bound
  <2>7. ASSUME NEW e \in Client, used'.connects[e] = 0
        PROVE  Fresh(ep[e])'
    <3>1. e \in Endpoint /\ Fresh(ep[e])
      BY <2>1, <2>7, EndpointAssumption DEF MapInv
    <3> QED
      BY <2>3, <2>5, <3>1 DEF Fresh
  <2>8. MapInv'
    <3>1. \A f \in Child : ep'[f].call = "none"
      BY <2>3, EndpointAssumption DEF MapInv
    <3>2. rx'["A"] # Idle => Named(rx'["A"].msg)
      BY <2>1 DEF MapInv
    <3> QED
      BY <2>4, <2>6, <2>7, <3>1, <3>2 DEF MapInv
  <2>9. SemInv'
    <3>1. Waiting' = Waiting
      BY <2>3, EndpointAssumption DEF Waiting
    <3> QED
      BY <2>1, <2>3, <3>1, EndpointAssumption DEF SemInv
  <2> QED
    BY <2>8, <2>9
<1> QED
  BY <1>1, <1>2

\* A frame sent, a monitor timeout or too many transmissions
LEMMA ErtmKeeps ==
    ASSUME IInv, MapInv, SemInv, NEW e \in Endpoint, ErtmStep(e)
    PROVE  MapInv' /\ SemInv'
<1> DEFINE sent == [ep[e] EXCEPT !.tx = "queued"]
           closed == [ep[e] EXCEPT !.state = "CLOSED", !.woken = TRUE]
           freed == MarkClosed(ep[e])
<1>1. /\ TypeOK /\ ep[e] \in EndpointRecord /\ ep \in [Endpoint -> EndpointRecord]
      /\ FirstChannel(e) => Bound(ep[e])
  BY DEF IInv, TypeOK, MapInv
<1>2. /\ UNCHANGED <<listener, acceptSem, rx, link>> /\ ep[e].call # "route"
      /\ \/ ep' = ep
         \/ ep' = [ep EXCEPT ![e] = sent] /\ ep[e].state = "OPEN"
         \/ ep' = [ep EXCEPT ![e] = closed] /\ ep[e].cid # NullCid
         \/ ep' = [ep EXCEPT ![e] = freed] /\ ep[e].state = "OPEN"
  BY <1>1 DEF ErtmStep, SendIFrame, MonitorTimeout, MaxTransmitReached, Unlocked, EndpointRecord
<1>3. used'.connects = used.connects
  BY <1>1 DEF ErtmStep, SendIFrame, MonitorTimeout, MaxTransmitReached, TypeOK, Used
<1>4. /\ sent.state = ep[e].state /\ closed.state = "CLOSED"
      /\ \A r \in {sent, closed} :
            /\ r.conn = ep[e].conn /\ r.cid = ep[e].cid /\ r.dcid = ep[e].dcid
            /\ r.call = ep[e].call /\ r.queue = ep[e].queue /\ r.sock = ep[e].sock
  BY <1>1 DEF EndpointRecord
<1>5. /\ freed.call = ep[e].call /\ freed.queue = ep[e].queue /\ freed.sock = ep[e].sock
      /\ freed.dcid = ep[e].dcid /\ freed.cid = NullCid /\ freed.state = "CLOSED"
  BY <1>1, ClosedFields
<1> HIDE DEF sent, closed, freed
<1>6. CASE ep' = ep
  BY <1>2, <1>3, <1>6, StillNamed, MapNoStep, SemNoStep DEF RxFollows
<1>7. CASE ep' = [ep EXCEPT ![e] = sent] /\ ep[e].state = "OPEN"
  <2>1. Sound(e, sent)
    BY <1>1, <1>4, <1>7 DEF Sound, Bound, Fresh
  <2> QED
    BY <1>2, <1>3, <1>7, <2>1, StillNamed, UserKeeps
<1>8. CASE ep' = [ep EXCEPT ![e] = closed] /\ ep[e].cid # NullCid
  <2>1. Sound(e, closed)
    BY <1>1, <1>4, <1>8 DEF Sound, Bound, Fresh
  <2> QED
    BY <1>2, <1>3, <1>8, <2>1, StillNamed, UserKeeps
<1>9. CASE ep' = [ep EXCEPT ![e] = freed] /\ ep[e].state = "OPEN"
  <2>1. Sound(e, freed)
    BY <1>1, <1>2, <1>5, <1>9 DEF Sound, Bound, Fresh
  <2> QED
    BY <1>2, <1>3, <1>9, <2>1, StillNamed, UserKeeps
<1> QED
  BY <1>2, <1>6, <1>7, <1>8, <1>9

\* Whatever the other stack answers to a configuration request, it asks for
\* no disconnection.
LEMMA TurnDownsNamed ==
    ASSUME NEW m \in Message, NEW cid \in Cid \cup {NullCid}
    PROVE  \A rsps \in TurnDowns(m, cid) : AllNamed(rsps)
<1> DEFINE rsp == [Command("CfgRsp", m.ident) EXCEPT !.scid = cid]
           basic == [rsp EXCEPT !.result = "UNACCEPTABLE", !.mode = "BASIC"]
           flow == [rsp EXCEPT !.result = "FLOW_SPEC"]
           no == [rsp EXCEPT !.result = "REJECTED"]
           part == [basic EXCEPT !.more = TRUE]
<1>1. \A x \in {basic, flow, no, part} : x.type = "CfgRsp"
  BY DEF Command
<1>2. TurnDowns(m, cid) \subseteq {<<flow>>, <<no>>, <<basic>>, <<part, basic>>}
  BY DEF TurnDowns
<1> HIDE DEF basic, flow, no, part
<1>3. \A x : x.type = "CfgRsp" => Named(x)
  BY DEF Named
<1>4. \A x, y : Named(x) /\ Named(y) => AllNamed(<<x>>) /\ AllNamed(<<x, y>>)
  BY DEF AllNamed
<1> QED
  BY <1>1, <1>2, <1>3, <1>4

LEMMA ForeignKeeps ==
    ASSUME IInv, MapInv, SemInv, ForeignStep
    PROVE  MapInv' /\ SemInv'
<1>1. TypeOK /\ used'.connects = used.connects /\ "A" \in Host /\ "B" \in Host
  BY DEF ForeignStep, ForeignPending, ForeignTurnsDown, ForeignAnswersTwice,
         ForeignContinues, ForeignReconfigure, ForeignAnswer, IInv, TypeOK, Used, Host
<1>2. ASSUME UNCHANGED <<ep, listener, acceptSem, rx>>, AllNamed(link'["A"])
      PROVE  MapInv' /\ SemInv'
  BY <1>1, <1>2, MapNoStep, SemNoStep DEF RxFollows
<1>3. CASE ForeignPending
  <2> DEFINE m == Head(link["B"])
             rsp == [Command("ConnRsp", m.ident) EXCEPT
                        !.scid = m.scid, !.result = "PENDING"]
  <2>1. Post("B", <<rsp>>) /\ link["B"] # << >> /\ UNCHANGED <<ep, listener, acceptSem, rx>>
    BY <1>3 DEF ForeignPending, ForeignAnswer
  <2>2. link["B"] \in Seq(Message)
    BY <1>1 DEF TypeOK
  <2>3. m \in Message
    BY <2>1, <2>2
  <2> HIDE DEF m
  <2>4. rsp \in Message /\ rsp.type = "ConnRsp"
    BY <2>3 DEF Command, Message
  <2> HIDE DEF rsp
  <2>5. AllNamed(link'["A"])
    BY <1>1, <2>1, <2>4, NamedSequences, SequenceTypes, PostNames DEF MapInv
  <2> QED
    BY <1>2, <2>1, <2>5
<1>4. CASE ForeignTurnsDown
  <2> DEFINE m == Head(link["B"])
             f == ForChannel("B", m.dcid)
  <2>1. /\ link["A"] \in Seq(Message) /\ link["B"] \in Seq(Message)
        /\ DOMAIN link = Host /\ AllNamed(link["A"])
    BY <1>1 DEF TypeOK, MapInv
  <2>2. /\ m \in Message /\ f \in Endpoint /\ UNCHANGED <<ep, listener, acceptSem, rx>>
    BY <1>1, <1>4, <2>1, ForChannelType, SequenceTypes DEF ForeignTurnsDown, ForeignAnswer
  <2>3. PICK rsps \in TurnDowns(m, ep[f].dcid) :
           link' = [link EXCEPT !["B"] = Tail(@), !["A"] = @ \o rsps]
    BY <1>4 DEF ForeignTurnsDown
  <2> HIDE DEF m, f
  <2>4. ep[f].dcid \in Cid \cup {NullCid}
    BY <1>1, <2>2 DEF TypeOK, EndpointRecord
  <2>5. rsps \in Seq(Message) /\ AllNamed(rsps)
    BY <2>2, <2>3, <2>4, TurnDownsType, TurnDownsNamed
  <2>6. link'["A"] = link["A"] \o rsps
    BY <1>1, <2>1, <2>3
  <2>7. AllNamed(link'["A"])
    BY <2>1, <2>5, <2>6, NamedSequences
  <2> QED
    BY <1>2, <2>2, <2>7
<1>6. CASE ForeignAnswersTwice
  <2> DEFINE m == Head(link["B"])
             f == ForChannel("B", m.dcid)
             rsp == [Command("CfgRsp", m.ident) EXCEPT !.scid = ep[f].dcid]
             wait == [rsp EXCEPT !.result = "PENDING"]
             part == [rsp EXCEPT !.more = TRUE]
  <2>1. /\ link["B"] \in Seq(Message) /\ AllNamed(link["A"])
    BY <1>1 DEF TypeOK, MapInv
  <2>2. /\ m \in Message /\ f \in Endpoint /\ UNCHANGED <<ep, listener, acceptSem, rx>>
    BY <1>1, <1>6, <2>1, ForChannelType, SequenceTypes DEF ForeignAnswersTwice, ForeignAnswer
  <2>3. Post("B", <<wait>>) \/ Post("B", <<part>>)
    BY <1>6 DEF ForeignAnswersTwice
  <2>4. ep[f].dcid \in Cid \cup {NullCid}
    <3> HIDE DEF f
    <3> QED
      BY <1>1, <2>2 DEF TypeOK, EndpointRecord
  <2>5. rsp \in Message /\ rsp.type = "CfgRsp"
    <3> HIDE DEF m, f
    <3> QED
      BY <2>2, <2>4 DEF Command, Message
  <2>6. /\ wait \in Message /\ part \in Message
        /\ wait.type # "DiscReq" /\ part.type # "DiscReq"
    <3> HIDE DEF rsp
    <3> QED
      BY <2>5 DEF Message
  <2> HIDE DEF wait, part
  <2>7. AllNamed(link'["A"])
    BY <1>1, <2>1, <2>3, <2>6, NamedSequences, SequenceTypes, PostNames
  <2> QED
    BY <1>2, <2>2, <2>7
<1>7. CASE ForeignContinues
  <2> DEFINE m == Head(link["A"])
             part == [m EXCEPT !.ident = NullIdent, !.more = TRUE]
             rest == [m EXCEPT !.mode = "none"]
  <2>1. /\ link["A"] \in Seq(Message) /\ link["A"] # << >> /\ AllNamed(link["A"])
        /\ DOMAIN link = Host /\ UNCHANGED <<ep, listener, acceptSem, rx>>
        /\ m.type = "CfgReq"
        /\ link' = [link EXCEPT !["A"] = <<part, rest>> \o Tail(@)]
    BY <1>1, <1>7 DEF ForeignContinues, TypeOK, MapInv
  <2>2. m \in Message /\ Tail(link["A"]) \in Seq(Message) /\ AllNamed(Tail(link["A"]))
    BY <2>1, NamedSequences, SequenceTypes
  <2>3. /\ part \in Message /\ rest \in Message
        /\ part.type # "DiscReq" /\ rest.type # "DiscReq"
    <3> HIDE DEF m
    <3> QED
      BY <2>1, <2>2 DEF Message
  <2> HIDE DEF m, part, rest
  <2>4. <<part, rest>> \in Seq(Message) /\ AllNamed(<<part, rest>>)
    <3>1. Named(part) /\ Named(rest)
      BY <2>3 DEF Named
    <3> QED
      BY <2>3, <3>1 DEF AllNamed
  <2>5. link'["A"] = <<part, rest>> \o Tail(link["A"])
    BY <1>1, <2>1
  <2>6. AllNamed(link'["A"])
    BY <2>2, <2>4, <2>5, NamedSequences
  <2> QED
    BY <1>2, <2>1, <2>6
<1>5. ASSUME NEW f \in Child, ForeignReconfigure(f) PROVE MapInv' /\ SemInv'
  <2> DEFINE r == [ep[f] EXCEPT !.state = "CONFIGURATION", !.in = "NONE", !.out = "NONE"]
             c == SendChannelConfig(f, r, idents["B"])
  <2>1. /\ f \in Endpoint /\ ep[f] \in EndpointRecord /\ idents["B"] \in IdentTable
        /\ Bound(ep[f]) /\ ep[f].call = "none"
    BY <1>1, EndpointAssumption DEF TypeOK, MapInv, FirstChannel
  <2>2. /\ ep[f].state = "OPEN" /\ ep' = [ep EXCEPT ![f] = c.r] /\ Post("B", c.msgs)
        /\ UNCHANGED <<listener, acceptSem, rx>>
    BY <1>5 DEF ForeignReconfigure
  <2>3. /\ r \in EndpointRecord /\ r.state = "CONFIGURATION" /\ r.conn = ep[f].conn
        /\ r.cid = ep[f].cid /\ r.dcid = ep[f].dcid /\ r.call = "none"
        /\ r.queue = ep[f].queue /\ r.sock = ep[f].sock
    BY <2>1, ZenonT(40) DEF EndpointRecord, ChannelStatus, Establishing, ConfigState
  <2> HIDE DEF r
  <2>4. /\ c.r = r \/ c.r = [r EXCEPT !.out = "SENT"]
        /\ c.msgs \in Seq(Message) /\ AllNamed(c.msgs)
    BY <2>1, <2>3, ConfigSent
  <2> HIDE DEF c
  <2>5. /\ c.r.state = "CONFIGURATION" /\ c.r.conn = ep[f].conn
        /\ c.r.cid = ep[f].cid /\ c.r.dcid = ep[f].dcid /\ c.r.call = "none"
        /\ c.r.queue = ep[f].queue /\ c.r.sock = ep[f].sock
    BY <2>3, <2>4 DEF EndpointRecord
  <2>6. Sound(f, c.r)
    BY <2>1, <2>2, <2>5 DEF Sound, Bound, Fresh
  <2>7. AllNamed(link'["A"])
    BY <1>1, <2>2, <2>4, PostNames DEF MapInv
  <2> QED
    BY <1>1, <2>1, <2>2, <2>6, <2>7, UserKeeps
<1> QED
  BY <1>3, <1>4, <1>5, <1>6, <1>7 DEF ForeignStep

----------------------------------------------------------------------------
\* The theorems

LEMMA InitKeeps == Init => MapInv /\ SemInv
<1> SUFFICES ASSUME Init PROVE MapInv /\ SemInv
  OBVIOUS
<1>1. \A e \in Endpoint : /\ Fresh(ep[e]) /\ Bound(ep[e]) /\ ep[e].conn = NoConn
                          /\ ep[e].queue = "none"
  BY DEF Init, NewEndpoint, Fresh, Bound
<1>3. link["A"] = << >> /\ rx["A"] = Idle /\ acceptSem = 0
  BY DEF Init, Host
<1>4. Waiting = {}
  BY <1>1, EndpointAssumption DEF Waiting
<1>5. IsFiniteSet(Waiting) /\ Cardinality(Waiting) = 0
  BY <1>4, FS_EmptySet
<1>6. MapInv
  BY <1>1, <1>3, EndpointAssumption, NamedSequences DEF MapInv, Fresh
<1>7. SemInv
  BY <1>1, <1>3, <1>5, EndpointAssumption DEF SemInv
<1> QED
  BY <1>6, <1>7

LEMMA NextKeeps == IInv /\ MapInv /\ SemInv /\ [Next]_vars => MapInv' /\ SemInv'
<1> SUFFICES ASSUME IInv, MapInv, SemInv, [Next]_vars PROVE MapInv' /\ SemInv'
  OBVIOUS
<1>1. CASE \E h \in Host : Receive(h) \/ HandleCommand(h) \/ HciDisconnect(h)
  BY <1>1, ReceiveKeeps, HandlersKeep, StrayKeeps, HandleConnectionReqKeeps, HciKeeps
     DEF HandleCommand
<1>2. CASE HciConnect
  BY <1>2, HciKeeps
<1>3. CASE \E e \in Client : ConnectStep(e)
  BY <1>3, ConnectRouteKeeps, ConnectKeeps DEF ConnectStep
<1>4. CASE \E e \in Endpoint : CloseStep(e) \/ ErtmStep(e)
  BY <1>4, CloseKeeps, ErtmKeeps
<1>5. CASE ListenerStep \/ ForeignStep
  BY <1>5, ListenerKeeps, ForeignKeeps
<1>6. CASE UNCHANGED vars
  BY <1>6, StillNamed, MapNoStep, SemNoStep DEF vars, RxFollows
<1> QED
  BY <1>1, <1>2, <1>3, <1>4, <1>5, <1>6 DEF Next

LEMMA MapInvariant == Spec => [](MapInv /\ SemInv)
<1>1. Init => MapInv /\ SemInv
  BY InitKeeps
<1>2. IInv /\ (MapInv /\ SemInv) /\ [Next]_vars => (MapInv /\ SemInv)'
  BY NextKeeps
<1> QED
  BY <1>1, <1>2, Invariant, PTL DEF Spec

\* An endpoint that carries its first channel is in fChannelMap whenever its
\* fState is not CLOSED, so _MarkClosed() and Disconnected() find it there.
THEOREM FirstChannelStaysMapped == Spec => []MappedWhileActive
<1>1. MapInv => MappedWhileActive
  BY DEF MapInv, Bound, MappedWhileActive
<1> QED
  BY <1>1, MapInvariant, PTL

\* fAcceptSemaphore counts the connected children of the listener, for any
\* number of them and through re-configurations of their channels.
THEOREM AcceptFindsAChild == Spec => []AcceptSemaphoreCounts
<1>1. SemInv => AcceptSemaphoreCounts
  BY DEF SemInv, Waiting, AcceptSemaphoreCounts
<1> QED
  BY <1>1, MapInvariant, PTL

=============================================================================
