------------------------- MODULE AclTransport_proofs -------------------------
(***************************************************************************)
(* What holds of the way of a packet for any plans, any MTU, any transfers *)
(* and any depth of the port: the two levels of assembly find the ends of  *)
(* frames and packets, and a link with one sender delivers its packets     *)
(* whole and in order.  The second part is from "A link with one sender"   *)
(* on: a Flow is all that is known of the frames of one sender, from L2CAP  *)
(* back to the controller; each lemma named ...Served takes it over a step.*)
(***************************************************************************)
EXTENDS AclTransport, NumberLemmas, SequenceTheorems, FiniteSetTheorems

----------------------------------------------------------------------------
\* Frames and units, with connections up to g

RealFrame(g) ==
    {f \in [packet : [from : Senders, n : Nat, total : Nat], part : Nat, gen : 0 .. g] :
        Alen(f) \in Nat}

Unit(g) == {u \in [frame : RealFrame(g), at : Nat] : u.at <= Alen(u.frame)}

Event == [type : {"CONN_COMPLETE", "DISCONNECTION_COMPLETE", "other"}, handle : Handles]

Message(g) == [pipe : {"acl"}, data : Seq(Unit(g)), cut : BOOLEAN]
                \cup [pipe : {"event"}, data : Seq(Event), cut : BOOLEAN]

----------------------------------------------------------------------------
\* What frames carry together

IsSum(f, frames, n) ==
    f = [k \in 0 .. n |-> IF k = 0 THEN 0 ELSE f[k - 1] + Alen(frames[k])]

LEMMA SumsExist ==
    ASSUME NEW frames, NEW n \in Nat
    PROVE  \E f : IsSum(f, frames, n)
<1> DEFINE G(f, k) == IF k = 0 THEN 0 ELSE f[k - 1] + Alen(frames[k])
           Runs(m) == \E f : f = [k \in 0 .. m |-> G(f, k)]
           T == {m \in Nat : ~Runs(m)}
<1>1. \A f, g : G(f, 0) = G(g, 0)
  OBVIOUS
<1>2. ASSUME NEW f, NEW g, NEW k, f[k - 1] = g[k - 1] PROVE G(f, k) = G(g, k)
  BY <1>2
<1>3. SUFFICES ASSUME T # {} PROVE FALSE
  BY DEF IsSum
<1> HIDE DEF G
<1>4. PICK m \in T : \A j \in T : m <= j
  BY <1>3, LeastNumber
<1>5. CASE m = 0
  <2> DEFINE g == [k \in 0 .. 0 |-> G(<< >>, k)]
  <2>1. \A k \in 0 .. 0 : G(<< >>, k) = G(g, k)
    BY <1>1
  <2>2. g = [k \in 0 .. 0 |-> G(g, k)]
    BY <2>1, Zenon
  <2>3. Runs(0)
    BY <2>2, Zenon
  <2> QED
    BY <1>4, <1>5, <2>3
<1>6. CASE m # 0
  <2>1. m - 1 \in Nat /\ m - 1 \notin T /\ m \in Nat
    BY <1>4, <1>6
  <2>2. PICK f : f = [k \in 0 .. m - 1 |-> G(f, k)]
    BY <2>1
  <2> DEFINE g == [k \in 0 .. m |-> IF k < m THEN f[k] ELSE G(f, k)]
  <2>3. \A k \in 0 .. m : k # 0 => g[k - 1] = f[k - 1]
    BY <2>1
  <2>4. \A k \in 0 .. m : k = 0 => G(f, k) = G(g, k)
    BY <1>1
  <2>5. \A k \in 0 .. m : k # 0 => G(f, k) = G(g, k)
    <3> SUFFICES ASSUME NEW k \in 0 .. m, k # 0 PROVE G(f, k) = G(g, k)
      OBVIOUS
    <3>1. f[k - 1] = g[k - 1]
      BY <2>3
    <3> HIDE DEF g
    <3> QED
      BY <3>1, <1>2
  <2>6. \A k \in 0 .. m : k < m => f[k] = G(f, k)
    BY <2>1, <2>2
  <2>7. \A k \in 0 .. m : g[k] = G(g, k)
    BY <2>4, <2>5, <2>6
  <2>8. g = [k \in 0 .. m |-> g[k]]
    OBVIOUS
  <2>9. g = [k \in 0 .. m |-> G(g, k)]
    BY <2>7, <2>8, Zenon
  <2>10. Runs(m)
    BY <2>9, Zenon
  <2> QED
    BY <1>4, <2>10
<1> QED
  BY <1>5, <1>6

LEMMA FilledIsSum ==
    ASSUME NEW frames, Len(frames) \in Nat
    PROVE  \E f : IsSum(f, frames, Len(frames)) /\ Filled(frames) = f[Len(frames)]
<1> DEFINE n == Len(frames)
           f == CHOOSE f : f = [k \in 0 .. n |-> IF k = 0 THEN 0
                                                ELSE f[k - 1] + Alen(frames[k])]
<1>1. IsSum(f, frames, n)
  <2>1. n \in Nat
    OBVIOUS
  <2> HIDE DEF n
  <2>2. \E g : IsSum(g, frames, n)
    BY <2>1, SumsExist
  <2> QED
    BY <2>2, Zenon DEF IsSum
<1>2. Filled(frames) = f[n]
  BY DEF Filled
<1> QED
  BY <1>1, <1>2, Zenon

LEMMA SumAt ==
    ASSUME NEW f, NEW frames, NEW n \in Nat, IsSum(f, frames, n)
    PROVE  f[0] = 0 /\ \A k \in 1 .. n : f[k] = f[k - 1] + Alen(frames[k])
<1> DEFINE G(j) == IF j = 0 THEN 0 ELSE f[j - 1] + Alen(frames[j])
<1>1. f = [j \in 0 .. n |-> G(j)]
  BY Zenon DEF IsSum
<1>2. f[0] = 0
  BY <1>1
<1>3. ASSUME NEW k \in 1 .. n PROVE f[k] = f[k - 1] + Alen(frames[k])
  <2>1. k \in 0 .. n /\ ~(k = 0)
    OBVIOUS
  <2>2. G(k) = f[k - 1] + Alen(frames[k])
    BY <2>1, Zenon
  <2> HIDE DEF G
  <2>3. f[k] = G(k)
    BY <1>1, <2>1
  <2> QED
    BY <2>2, <2>3
<1> QED
  BY <1>2, <1>3

LEMMA FilledOne ==
    ASSUME NEW g, NEW frame \in RealFrame(g)
    PROVE  Filled(<<frame>>) = Alen(frame)
<1> DEFINE s == <<frame>>
<1>1. Len(s) = 1 /\ s[1] = frame
  OBVIOUS
<1> HIDE DEF s
<1>2. PICK f : IsSum(f, s, 1) /\ Filled(s) = f[1]
  <2>1. Len(s) \in Nat
    BY <1>1
  <2>2. \E f : IsSum(f, s, Len(s)) /\ Filled(s) = f[Len(s)]
    BY <2>1, FilledIsSum
  <2> QED
    BY <1>1, <2>2
<1>3. f[0] = 0 /\ f[1] = f[1 - 1] + Alen(s[1])
  BY <1>2, SumAt
<1>4. Alen(frame) \in Nat
  BY DEF RealFrame
<1>5. f[1] = Alen(frame)
  BY <1>1, <1>3, <1>4
<1> QED
  BY <1>2, <1>5 DEF s

LEMMA FilledAppend ==
    ASSUME NEW g, NEW s \in Seq(RealFrame(g)), NEW frame \in RealFrame(g)
    PROVE  Filled(Append(s, frame)) = Filled(s) + Alen(frame) /\ Filled(s) \in Nat
<1> DEFINE a == Append(s, frame)
           n == Len(s)
<1>1. /\ n \in Nat /\ Len(a) = n + 1 /\ a[n + 1] = frame
      /\ \A k \in 1 .. n : a[k] = s[k] /\ s[k] \in RealFrame(g)
  OBVIOUS
<1> HIDE DEF a, n
<1>2. PICK f : IsSum(f, s, n) /\ Filled(s) = f[n]
  BY <1>1, FilledIsSum DEF n
<1>3. PICK e : IsSum(e, a, n + 1) /\ Filled(a) = e[n + 1]
  <2>1. Len(a) \in Nat
    BY <1>1
  <2>2. \E e : IsSum(e, a, Len(a)) /\ Filled(a) = e[Len(a)]
    BY <2>1, FilledIsSum
  <2> QED
    BY <1>1, <2>2
<1>4. f[0] = 0 /\ \A k \in 1 .. n : f[k] = f[k - 1] + Alen(s[k])
  BY <1>1, <1>2, SumAt
<1>5. e[0] = 0 /\ \A k \in 1 .. n + 1 : e[k] = e[k - 1] + Alen(a[k])
  <2>1. n + 1 \in Nat
    BY <1>1
  <2> QED
    BY <1>3, <2>1, SumAt
<1>6. \A k \in 1 .. n : Alen(s[k]) \in Nat
  BY <1>1 DEF RealFrame
<1>7. \A k \in 0 .. n : e[k] = f[k] /\ f[k] \in Nat
  <2> DEFINE T == {k \in Nat : k <= n /\ ~(e[k] = f[k] /\ f[k] \in Nat)}
  <2>1. SUFFICES ASSUME T # {} PROVE FALSE
    BY <1>1
  <2>2. PICK k \in T : \A j \in T : k <= j
    BY <2>1, LeastNumber
  <2>3. k # 0 /\ k - 1 \in Nat /\ k - 1 <= n /\ k - 1 \notin T /\ k \in 1 .. n /\ k \in 1 .. n + 1
    BY <1>1, <1>4, <1>5, <2>2
  <2>4. e[k - 1] = f[k - 1] /\ f[k - 1] \in Nat
    BY <2>3
  <2>5. f[k] = f[k - 1] + Alen(s[k]) /\ e[k] = e[k - 1] + Alen(s[k])
    BY <1>1, <1>4, <1>5, <2>3
  <2>6. Alen(s[k]) \in Nat
    BY <1>6, <2>3
  <2> QED
    BY <2>2, <2>4, <2>5, <2>6
<1>8. e[n + 1] = f[n] + Alen(frame) /\ f[n] \in Nat
  <2>1. n + 1 \in 1 .. n + 1 /\ (n + 1) - 1 = n /\ n \in 0 .. n
    BY <1>1
  <2>2. e[n + 1] = e[(n + 1) - 1] + Alen(a[n + 1])
    BY <1>5, <2>1
  <2>3. e[n] = f[n] /\ f[n] \in Nat
    BY <1>7, <2>1
  <2> QED
    BY <1>1, <2>1, <2>2, <2>3
<1> QED
  BY <1>2, <1>3, <1>8 DEF a

----------------------------------------------------------------------------
\* AclAssembly()

Conn(g) == [listed : BOOLEAN, current : Seq(RealFrame(g)), expected : Nat]

\* The current packet begins with a start, and what is missing is known.
GoodConn(c) ==
    c.current # <<>> => /\ IsStart(c.current[1])
                        /\ c.expected > 0
                        /\ Filled(c.current) + c.expected = c.current[1].packet.total

\* A packet for L2CAP is as long as it announces.
GoodPacket(frames) ==
    frames # <<>> /\ IsStart(frames[1]) /\ Filled(frames) = frames[1].packet.total

LEMMA CurrentGrows ==
    ASSUME NEW g, NEW c \in Conn(g), GoodConn(c), NEW frame \in RealFrame(g),
           c.current # <<>> \/ IsStart(frame)
    PROVE  LET current == Current(c, frame)
           IN  /\ current \in Seq(RealFrame(g)) /\ current # <<>> /\ IsStart(current[1])
               /\ Missing(c, frame) \in Int
               /\ Filled(current) + Missing(c, frame) = current[1].packet.total
               /\ Filled(current) \in Nat
<1>1. Alen(frame) \in Nat /\ frame.packet.total \in Nat
  BY DEF RealFrame
<1>2. CASE IsStart(frame)
  <2>1. Current(c, frame) = <<frame>> /\ Missing(c, frame) = frame.packet.total - Alen(frame)
    BY <1>2 DEF Current, Missing
  <2>2. Filled(<<frame>>) = Alen(frame)
    BY FilledOne
  <2>3. <<frame>> \in Seq(RealFrame(g)) /\ <<frame>> # <<>> /\ <<frame>>[1] = frame
    OBVIOUS
  <2>4. /\ Missing(c, frame) \in Int
        /\ Alen(frame) + Missing(c, frame) = frame.packet.total
    BY <1>1, <2>1
  <2> QED
    BY <1>1, <1>2, <2>1, <2>2, <2>3, <2>4
<1>3. CASE ~IsStart(frame)
  <2> DEFINE s == c.current
             a == Append(s, frame)
  <2>1. s \in Seq(RealFrame(g)) /\ s # <<>> /\ c.expected \in Nat
    BY <1>3 DEF Conn
  <2>2. IsStart(s[1]) /\ Filled(s) + c.expected = s[1].packet.total
    BY <2>1 DEF GoodConn
  <2>3. Current(c, frame) = a /\ Missing(c, frame) = c.expected - Alen(frame)
    BY <1>3 DEF Current, Missing
  <2> HIDE DEF s
  <2>4. Filled(a) = Filled(s) + Alen(frame) /\ Filled(s) \in Nat
    BY <2>1, FilledAppend
  <2>5. a \in Seq(RealFrame(g)) /\ a # <<>> /\ a[1] = s[1]
    BY <2>1
  <2> HIDE DEF a
  <2>6. /\ Missing(c, frame) \in Int
        /\ Filled(a) + Missing(c, frame) = s[1].packet.total /\ Filled(a) \in Nat
    BY <1>1, <2>1, <2>2, <2>3, <2>4
  <2> QED
    BY <2>2, <2>3, <2>5, <2>6
<1> QED
  BY <1>2, <1>3

LEMMA AssembledIsGood ==
    ASSUME NEW g, NEW c \in Conn(g), GoodConn(c), NEW frame \in RealFrame(g)
    PROVE  LET r == Assembled(c, frame)
           IN  /\ r.conn \in Conn(g) /\ GoodConn(r.conn)
               /\ r.packet \in Seq(RealFrame(g))
               /\ r.packet # <<>> => GoodPacket(r.packet)
<1>1. CASE c.current = <<>> /\ ~IsStart(frame)
  <2>1. Assembled(c, frame) = [conn |-> c, packet |-> <<>>]
    BY <1>1 DEF Assembled
  <2> QED
    BY <2>1
<1>2. CASE ~(c.current = <<>> /\ ~IsStart(frame))
  <2> DEFINE s == Current(c, frame)
             m == Missing(c, frame)
             d == IF m > 0 THEN [c EXCEPT !.current = s, !.expected = m]
                  ELSE [c EXCEPT !.current = <<>>, !.expected = 0]
             p == IF m = 0 THEN s ELSE <<>>
  <2>1. /\ s \in Seq(RealFrame(g)) /\ s # <<>> /\ IsStart(s[1]) /\ m \in Int
        /\ Filled(s) + m = s[1].packet.total /\ Filled(s) \in Nat
    BY <1>2, CurrentGrows
  <2>2. Assembled(c, frame) = [conn |-> d, packet |-> p]
    BY <1>2 DEF Assembled, Grown
  <2> HIDE DEF s, m
  <2>4. CASE m > 0
    <3>1. d = [c EXCEPT !.current = s, !.expected = m] /\ p = <<>>
      BY <2>1, <2>4
    <3> HIDE DEF d, p
    <3>2. d \in Conn(g) /\ d.current = s /\ d.expected = m
      <4>1. m \in Nat /\ s \in Seq(RealFrame(g)) /\ d = [c EXCEPT !.current = s, !.expected = m]
        BY <2>1, <2>4, <3>1
      <4> QED
        BY <4>1 DEF Conn
    <3>3. GoodConn(d)
      BY <2>1, <2>4, <3>2 DEF GoodConn
    <3> QED
      BY <2>2, <3>1, <3>2, <3>3
  <2>5. CASE ~(m > 0)
    <3>1. d = [c EXCEPT !.current = <<>>, !.expected = 0]
      BY <2>5
    <3>2. <<>> \in Seq(RealFrame(g))
      OBVIOUS
    <3>3. p \in Seq(RealFrame(g)) /\ (p # <<>> => p = s /\ m = 0)
      BY <2>1
    <3> HIDE DEF d, p
    <3>4. d \in Conn(g) /\ d.current = <<>>
      BY <3>1, <3>2 DEF Conn
    <3>5. GoodConn(d)
      BY <3>4 DEF GoodConn
    <3>6. p # <<>> => GoodPacket(p)
      BY <2>1, <3>3 DEF GoodPacket
    <3> QED
      BY <2>2, <3>3, <3>4, <3>5, <3>6
  <2> QED
    BY <2>4, <2>5
<1> QED
  BY <1>1, <1>2

\* What the handlers of one message thread through.
Desk(g) ==
    [buffer : Seq(Unit(g)), expected : Nat, conns : [Handles -> Conn(g)],
     delivered : [Handles -> Seq(Seq(RealFrame(g)))]]

GoodDesk(d) ==
    \A h \in Handles : /\ GoodConn(d.conns[h])
                       /\ \A i \in DOMAIN d.delivered[h] : GoodPacket(d.delivered[h][i])

LEMMA AddConnectionIsGood ==
    ASSUME NEW g, NEW c \in Conn(g), GoodConn(c)
    PROVE  AddConnection(c) \in Conn(g) /\ GoodConn(AddConnection(c))
<1> DEFINE d == AddConnection(c)
<1>1. d \in Conn(g) /\ d.current = c.current /\ d.expected = c.expected
  BY DEF AddConnection, Conn
<1> HIDE DEF d
<1>2. GoodConn(d)
  BY <1>1 DEF GoodConn
<1> QED
  BY <1>1, <1>2 DEF d

\* The connections of a desk with one of them changed, and with one packet more
\* for its L2CAP at most.
Put(d, h, c, p) ==
    [d EXCEPT !.conns = [d.conns EXCEPT ![h] = c],
              !.delivered = [d.delivered EXCEPT ![h] = IF p = <<>> THEN d.delivered[h]
                                                       ELSE Append(d.delivered[h], p)]]

LEMMA DeskChanged ==
    ASSUME NEW g, NEW d \in Desk(g), GoodDesk(d), NEW h \in Handles,
           NEW c \in Conn(g), GoodConn(c), NEW p \in Seq(RealFrame(g)),
           p # <<>> => GoodPacket(p)
    PROVE  LET y == Put(d, h, c, p)
           IN  y \in Desk(g) /\ GoodDesk(y) /\ y.buffer = d.buffer /\ y.expected = d.expected
<1> DEFINE cs == [d.conns EXCEPT ![h] = c]
           l == IF p = <<>> THEN d.delivered[h] ELSE Append(d.delivered[h], p)
           ds == [d.delivered EXCEPT ![h] = l]
           y == [d EXCEPT !.conns = cs, !.delivered = ds]
<1>1. d.conns \in [Handles -> Conn(g)] /\ d.delivered \in [Handles -> Seq(Seq(RealFrame(g)))]
  BY DEF Desk
<1>2. cs \in [Handles -> Conn(g)] /\ \A k \in Handles : cs[k] = IF k = h THEN c ELSE d.conns[k]
  BY <1>1
<1>3. l \in Seq(Seq(RealFrame(g))) /\ \A i \in DOMAIN l : GoodPacket(l[i])
  <2>1. d.delivered[h] \in Seq(Seq(RealFrame(g)))
        /\ \A i \in DOMAIN d.delivered[h] : GoodPacket(d.delivered[h][i])
    BY <1>1 DEF GoodDesk
  <2>2. CASE p = <<>>
    BY <2>1, <2>2
  <2>3. CASE p # <<>>
    <3> DEFINE a == Append(d.delivered[h], p)
               n == Len(d.delivered[h])
    <3>1. /\ a \in Seq(Seq(RealFrame(g))) /\ DOMAIN a = 1 .. n + 1 /\ a[n + 1] = p
          /\ n \in Nat /\ DOMAIN d.delivered[h] = 1 .. n
          /\ \A i \in 1 .. n : a[i] = d.delivered[h][i]
      BY <2>1
    <3> HIDE DEF a, n
    <3>2. \A i \in DOMAIN a : GoodPacket(a[i])
      <4> SUFFICES ASSUME NEW i \in 1 .. n + 1 PROVE GoodPacket(a[i])
        BY <3>1
      <4>1. CASE i = n + 1
        BY <2>3, <3>1, <4>1
      <4>2. CASE i # n + 1
        <5>1. i \in 1 .. n
          BY <3>1, <4>2
        <5> QED
          BY <2>1, <3>1, <5>1
      <4> QED
        BY <4>1, <4>2
    <3>3. l = a
      BY <2>3 DEF a
    <3> HIDE DEF l
    <3> QED
      BY <3>1, <3>2, <3>3
  <2> QED
    BY <2>2, <2>3
<1> HIDE DEF l
<1>4. ds \in [Handles -> Seq(Seq(RealFrame(g)))]
      /\ \A k \in Handles : ds[k] = IF k = h THEN l ELSE d.delivered[k]
  BY <1>1, <1>3
<1> HIDE DEF cs, ds
<1>5. /\ y \in Desk(g) /\ y.buffer = d.buffer /\ y.expected = d.expected
      /\ y.conns = cs /\ y.delivered = ds
  BY <1>2, <1>4 DEF Desk
<1>6. ASSUME NEW k \in Handles
      PROVE  GoodConn(cs[k]) /\ \A i \in DOMAIN ds[k] : GoodPacket(ds[k][i])
  BY <1>2, <1>3, <1>4 DEF GoodDesk
<1> HIDE DEF y
<1>7. GoodDesk(y)
  BY <1>5, <1>6 DEF GoodDesk
<1> QED
  BY <1>5, <1>7 DEF Put, y, ds, cs, l

LEMMA AclAssemblyIsGood ==
    ASSUME NEW g, plan \in Plans, NEW d \in Desk(g), GoodDesk(d), NEW frame \in RealFrame(g)
    PROVE  LET y == AclAssembly(d, frame)
           IN  y \in Desk(g) /\ GoodDesk(y) /\ y.buffer = d.buffer /\ y.expected = d.expected
<1> DEFINE h == Handle(frame)
           a == AddConnection(d.conns[h])
           r == Assembled(a, frame)
           c == r.conn
           p == r.packet
<1>1. h \in Handles
  BY LinkAssumption DEF Handle, RealFrame
<1>2. d.conns[h] \in Conn(g) /\ GoodConn(d.conns[h])
  BY <1>1 DEF Desk, GoodDesk
<1>3. a \in Conn(g) /\ GoodConn(a)
  BY <1>2, AddConnectionIsGood
<1> HIDE DEF a
<1>4. /\ c \in Conn(g) /\ GoodConn(c) /\ p \in Seq(RealFrame(g))
      /\ p # <<>> => GoodPacket(p)
  BY <1>3, AssembledIsGood
<1>5. AclAssembly(d, frame) = Put(d, h, c, p)
  BY DEF AclAssembly, Put, Desk, a
<1> HIDE DEF h, c, p
<1> QED
  BY <1>1, <1>4, <1>5, DeskChanged

LEMMA PostEventIsGood ==
    ASSUME NEW g, NEW d \in Desk(g), GoodDesk(d), NEW event \in Event
    PROVE  LET y == PostEvent(d, event)
           IN  y \in Desk(g) /\ GoodDesk(y) /\ y.buffer = d.buffer /\ y.expected = d.expected
<1> DEFINE h == event.handle
           c == CASE event.type = "CONN_COMPLETE" -> AddConnection(d.conns[h])
                  [] event.type = "DISCONNECTION_COMPLETE" -> Unlisted
                  [] OTHER -> d.conns[h]
<1>1. h \in Handles
  BY DEF Event
<1>2. d.conns[h] \in Conn(g) /\ GoodConn(d.conns[h])
  BY <1>1 DEF Desk, GoodDesk
<1>3. Unlisted \in Conn(g) /\ GoodConn(Unlisted)
  <2>1. <<>> \in Seq(RealFrame(g))
    OBVIOUS
  <2> QED
    BY <2>1 DEF Unlisted, Conn, GoodConn
<1>4. c \in Conn(g) /\ GoodConn(c)
  BY <1>2, <1>3, AddConnectionIsGood
<1> DEFINE p == <<>>
<1>5. p \in Seq(RealFrame(g)) /\ (p # <<>> => GoodPacket(p))
  OBVIOUS
<1>6. PostEvent(d, event) = Put(d, h, c, p)
  <2>1. /\ [d.delivered EXCEPT ![h] = d.delivered[h]] = d.delivered
        /\ [d EXCEPT !.conns = [d.conns EXCEPT ![h] = c]]
             = [d EXCEPT !.conns = [d.conns EXCEPT ![h] = c], !.delivered = d.delivered]
    BY DEF Desk
  <2>2. PostEvent(d, event) = [d EXCEPT !.conns = [d.conns EXCEPT ![h] = c]]
    BY DEF PostEvent, Desk
  <2> QED
    BY <2>1, <2>2 DEF Put
<1> HIDE DEF c, h, p
<1> QED
  BY <1>1, <1>4, <1>5, <1>6, DeskChanged

----------------------------------------------------------------------------
\* Assemble(): the stream of units

\* After u comes the next unit of its frame, or the header of another.
Follows(u, v) ==
    IF u.at < Alen(u.frame) THEN v = [frame |-> u.frame, at |-> u.at + 1] ELSE v.at = 0

\* Whole frames, one after the other.
Stream(w) ==
    /\ w # <<>> => /\ w[1].at = 0
                   /\ w[Len(w)].at = Alen(w[Len(w)].frame)
    /\ \A i \in 1 .. Len(w) - 1 : Follows(w[i], w[i + 1])

\* The buffer b of a device is the beginning of a frame, whose length is known.
Cut(b, expected) ==
    b # <<>> => /\ expected = Alen(b[1].frame) + 1
                /\ Len(b) < expected
                /\ \A i \in 1 .. Len(b) : b[i] = [frame |-> b[1].frame, at |-> i - 1]

LEMMA UnitType ==
    ASSUME NEW g, NEW u \in Unit(g)
    PROVE  /\ u.frame \in RealFrame(g) /\ u.at \in Nat /\ Alen(u.frame) \in Nat
           /\ u.at <= Alen(u.frame) /\ u = [frame |-> u.frame, at |-> u.at]
BY DEF Unit, RealFrame

\* The rest of a stream, from the header of a frame on.
LEMMA StreamSuffix ==
    ASSUME NEW g, NEW w \in Seq(Unit(g)), Stream(w), NEW c \in 0 .. Len(w),
           c < Len(w) => w[c + 1].at = 0,
           NEW v \in Seq(Unit(g)), Len(v) = Len(w) - c,
           \A i \in 1 .. Len(v) : v[i] = w[c + i]
    PROVE  Stream(v)
<1>1. Len(w) \in Nat /\ Len(v) \in Nat /\ c \in Nat
  OBVIOUS
<1>2. ASSUME v # <<>>
      PROVE  v[1].at = 0 /\ v[Len(v)].at = Alen(v[Len(v)].frame)
  <2>1. Len(v) >= 1
    BY <1>2
  <2>2. w # <<>> /\ c < Len(w) /\ c + Len(v) = Len(w)
    BY <1>1, <2>1
  <2>3. v[1] = w[c + 1] /\ v[Len(v)] = w[Len(w)]
    <3>1. 1 \in 1 .. Len(v) /\ Len(v) \in 1 .. Len(v)
      BY <1>1, <2>1
    <3> QED
      BY <2>2, <3>1
  <2> QED
    BY <2>2, <2>3 DEF Stream
<1>3. ASSUME NEW i \in 1 .. Len(v) - 1 PROVE Follows(v[i], v[i + 1])
  <2>1. /\ i \in 1 .. Len(v) /\ i + 1 \in 1 .. Len(v)
        /\ c + i \in 1 .. Len(w) - 1 /\ c + (i + 1) = (c + i) + 1
    BY <1>1
  <2>2. v[i] = w[c + i] /\ v[i + 1] = w[(c + i) + 1]
    BY <2>1
  <2>3. Follows(w[c + i], w[(c + i) + 1])
    BY <2>1 DEF Stream
  <2> QED
    BY <2>2, <2>3
<1> QED
  BY <1>2, <1>3 DEF Stream

\* A controller adds frames to the stream.
LEMMA StreamGrows ==
    ASSUME NEW g, NEW w \in Seq(Unit(g)), Stream(w), NEW frame \in RealFrame(g)
    PROVE  /\ Units(frame) \in Seq(Unit(g))
           /\ w \o Units(frame) \in Seq(Unit(g)) /\ Stream(w \o Units(frame))
<1> DEFINE a == Alen(frame)
           u == Units(frame)
           v == w \o u
           n == Len(w)
<1>1. a \in Nat /\ n \in Nat
  BY DEF RealFrame
<1>2. u = [i \in 1 .. a + 1 |-> [frame |-> frame, at |-> i - 1]]
  BY DEF Units
<1> HIDE DEF a, u
<1>3. u \in Seq(Unit(g)) /\ Len(u) = a + 1
      /\ \A i \in 1 .. a + 1 : u[i] = [frame |-> frame, at |-> i - 1]
  <2>1. \A i \in 1 .. a + 1 : [frame |-> frame, at |-> i - 1] \in Unit(g)
    BY <1>1 DEF Unit, a
  <2>2. a + 1 \in Nat
    BY <1>1
  <2> QED
    BY <1>2, <2>1, <2>2
<1>4. /\ v \in Seq(Unit(g)) /\ Len(v) = n + (a + 1)
      /\ \A i \in 1 .. n : v[i] = w[i]
      /\ \A i \in 1 .. a + 1 : v[n + i] = [frame |-> frame, at |-> i - 1]
  BY <1>1, <1>3
<1> HIDE DEF v, n
<1>5. v[n + (a + 1)] = [frame |-> frame, at |-> a] /\ v[n + 1] = [frame |-> frame, at |-> 0]
  <2>1. a + 1 \in 1 .. a + 1 /\ 1 \in 1 .. a + 1 /\ (a + 1) - 1 = a /\ 1 - 1 = 0
    BY <1>1
  <2>2. v[n + (a + 1)] = [frame |-> frame, at |-> (a + 1) - 1]
    BY <1>4, <2>1
  <2>3. v[n + 1] = [frame |-> frame, at |-> 1 - 1]
    BY <1>4, <2>1
  <2> QED
    BY <2>1, <2>2, <2>3
<1>6. v[Len(v)].at = Alen(v[Len(v)].frame)
  BY <1>4, <1>5 DEF a
<1>7. v[1].at = 0
  <2>1. CASE n = 0
    BY <1>5, <2>1
  <2>2. CASE n # 0
    <3>1. 1 \in 1 .. n /\ w # <<>>
      BY <1>1, <2>2 DEF n
    <3> QED
      BY <1>4, <3>1 DEF Stream
  <2> QED
    BY <2>1, <2>2
<1>8. ASSUME NEW i \in 1 .. Len(v) - 1 PROVE Follows(v[i], v[i + 1])
  <2>1. CASE i < n
    <3>1. i \in 1 .. n /\ i + 1 \in 1 .. n /\ i \in 1 .. Len(w) - 1
      BY <1>1, <1>4, <2>1 DEF n
    <3> QED
      BY <1>4, <3>1 DEF Stream
  <2>2. CASE i = n
    <3>1. n \in 1 .. n /\ w # <<>>
      BY <1>1, <2>2 DEF n
    <3>2. w[n].at = Alen(w[n].frame)
      BY <3>1 DEF Stream, n
    <3>3. v[i] = w[n] /\ v[i + 1].at = 0
      BY <1>4, <1>5, <2>2, <3>1
    <3>4. w[n] \in Unit(g)
      BY <3>1 DEF n
    <3>5. ~(w[n].at < Alen(w[n].frame))
      BY <3>2, <3>4, UnitType
    <3> QED
      BY <3>3, <3>5 DEF Follows
  <2>3. CASE n < i
    <3> DEFINE j == i - n
    <3>1. /\ j \in 1 .. a /\ j \in 1 .. a + 1 /\ j + 1 \in 1 .. a + 1
          /\ n + j = i /\ n + (j + 1) = i + 1 /\ (j + 1) - 1 = (j - 1) + 1 /\ j - 1 < a
      <4>1. i \in Int /\ n < i /\ i <= n + a
        BY <1>1, <1>4, <2>3
      <4>2. j \in Int /\ 1 <= j /\ j <= a /\ n + j = i
        BY <1>1, <4>1
      <4> HIDE DEF j
      <4> QED
        BY <1>1, <4>1, <4>2
    <3> HIDE DEF j
    <3>2. v[n + j] = [frame |-> frame, at |-> j - 1]
          /\ v[n + (j + 1)] = [frame |-> frame, at |-> (j + 1) - 1]
      BY <1>4, <3>1
    <3>3. v[i] = [frame |-> frame, at |-> j - 1]
          /\ v[i + 1] = [frame |-> frame, at |-> (j - 1) + 1]
      BY <3>1, <3>2
    <3> QED
      BY <3>1, <3>3 DEF Follows, a
  <2> QED
    BY <1>1, <1>4, <2>1, <2>2, <2>3
<1>9. Stream(v)
  BY <1>6, <1>7, <1>8 DEF Stream
<1> QED
  BY <1>3, <1>4, <1>9 DEF v, u

\* The unit that comes next goes on with the frame in the buffer, or begins one.
LEMMA NextUnit ==
    ASSUME NEW g, NEW b \in Seq(Unit(g)), NEW expected \in Nat, Cut(b, expected),
           NEW r \in Seq(Unit(g)), r # <<>>, Stream(b \o r)
    PROVE  /\ r[1] \in Unit(g)
           /\ b = <<>> => r[1].at = 0
           /\ b # <<>> => r[1] = [frame |-> b[1].frame, at |-> Len(b)]
<1> DEFINE w == b \o r
           n == Len(b)
<1>1. /\ n \in Nat /\ Len(r) \in Nat /\ Len(r) >= 1 /\ r[1] \in Unit(g)
      /\ w \in Seq(Unit(g)) /\ Len(w) = n + Len(r)
      /\ \A i \in 1 .. n : w[i] = b[i]
      /\ \A i \in 1 .. Len(r) : w[n + i] = r[i]
  OBVIOUS
<1> HIDE DEF w
<1>2. w[n + 1] = r[1]
  BY <1>1
<1>3. CASE b = <<>>
  <2>1. n = 0 /\ w # <<>>
    BY <1>1, <1>3
  <2>2. w[1].at = 0
    BY <2>1 DEF Stream, w
  <2> QED
    BY <1>1, <1>2, <1>3, <2>1, <2>2
<1>4. CASE b # <<>>
  <2> DEFINE f == b[1].frame
  <2>1. n >= 1 /\ b[1] \in Unit(g)
    BY <1>1, <1>4
  <2>2. /\ expected = Alen(f) + 1 /\ n < expected
        /\ \A i \in 1 .. n : b[i] = [frame |-> f, at |-> i - 1]
    BY <1>4 DEF Cut
  <2>3. Alen(f) \in Nat
    BY <2>1, UnitType
  <2> HIDE DEF f
  <2>4. n \in 1 .. n /\ n \in 1 .. Len(w) - 1
    BY <1>1, <2>1
  <2>5. w[n] = [frame |-> f, at |-> n - 1]
    BY <1>1, <2>2, <2>4
  <2>6. Follows(w[n], w[n + 1])
    BY <2>4 DEF Stream, w
  <2>7. n - 1 < Alen(f) /\ (n - 1) + 1 = n
    BY <1>1, <2>2, <2>3
  <2>8. w[n + 1] = [frame |-> f, at |-> (n - 1) + 1]
    BY <2>5, <2>6, <2>7 DEF Follows
  <2> QED
    BY <1>1, <1>2, <1>4, <2>7, <2>8 DEF f
<1> QED
  BY <1>3, <1>4

LEMMA Appended ==
    ASSUME NEW S, NEW s \in Seq(S), NEW x \in S
    PROVE  /\ Append(s, x) \in Seq(S) /\ Len(Append(s, x)) = Len(s) + 1 /\ Append(s, x) # <<>>
           /\ \A i \in 1 .. Len(s) : Append(s, x)[i] = s[i]
           /\ Append(s, x)[Len(s) + 1] = x
OBVIOUS

\* One round of Assemble(): the buffer and what is left of the stream are as
\* they were with the unit moved, or a frame is complete and another begins.
LEMMA UnitAssembled ==
    ASSUME NEW g, plan \in Plans, NEW d \in Desk(g), GoodDesk(d), Cut(d.buffer, d.expected),
           NEW r \in Seq(Unit(g)), r # <<>>, Stream(d.buffer \o r)
    PROVE  LET y == AssembleUnit(d, r[1])
           IN  /\ y \in Desk(g) /\ GoodDesk(y) /\ Cut(y.buffer, y.expected)
               /\ Stream(y.buffer \o Tail(r))
<1> DEFINE u == r[1]
           b == d.buffer
           e == IF b = <<>> THEN ExpectedPacketSize(u.frame) ELSE d.expected
           a == Append(b, u)
           n == Len(b)
           y == AssembleUnit(d, u)
<1>1. b \in Seq(Unit(g)) /\ d.expected \in Nat /\ n \in Nat
  BY DEF Desk
<1>2. /\ u \in Unit(g)
      /\ b = <<>> => u.at = 0
      /\ b # <<>> => u = [frame |-> b[1].frame, at |-> n]
  BY <1>1, NextUnit
<1>3. u.frame \in RealFrame(g) /\ u.at \in Nat /\ Alen(u.frame) \in Nat
      /\ u = [frame |-> u.frame, at |-> u.at]
  BY <1>2, UnitType
<1>4. /\ a \in Seq(Unit(g)) /\ Len(a) = n + 1 /\ a # <<>>
      /\ \A i \in 1 .. n : a[i] = b[i]
      /\ a[n + 1] = u
  <2> HIDE DEF b, u
  <2> QED
    BY <1>1, <1>2, Appended, Zenon
<1>5. /\ a[1].frame = u.frame /\ e = Alen(u.frame) + 1 /\ u.at = n /\ e \in Nat
      /\ \A i \in 1 .. n + 1 : a[i] = [frame |-> u.frame, at |-> i - 1]
  <2>1. CASE b = <<>>
    <3>1. n = 0 /\ u.at = 0
      BY <1>1, <1>2, <2>1
    <3>2. a[1] = u
      BY <1>4, <3>1
    <3>3. e = 1 + Alen(u.frame)
      BY <2>1 DEF ExpectedPacketSize
    <3> HIDE DEF a, e, n, u
    <3>4. ASSUME NEW i \in 1 .. n + 1 PROVE a[i] = [frame |-> u.frame, at |-> i - 1]
      <4>1. i = 1 /\ i - 1 = 0
        BY <3>1
      <4> QED
        BY <1>3, <3>2, <3>1, <4>1
    <3>5. e = Alen(u.frame) + 1 /\ e \in Nat
      BY <1>3, <3>3
    <3> QED
      BY <3>2, <3>1, <3>4, <3>5
  <2>2. CASE b # <<>>
    <3> DEFINE f == b[1].frame
    <3>1. /\ d.expected = Alen(f) + 1
          /\ \A i \in 1 .. n : b[i] = [frame |-> f, at |-> i - 1]
      BY <2>2 DEF Cut
    <3>2. u.frame = f /\ u.at = n /\ e = d.expected
      BY <1>2, <2>2
    <3>3. a[1] = b[1] /\ n >= 1
      BY <1>1, <1>4, <2>2
    <3> HIDE DEF e
    <3>4. ASSUME NEW i \in 1 .. n + 1 PROVE a[i] = [frame |-> f, at |-> i - 1]
      <4>1. CASE i = n + 1
        BY <1>1, <1>3, <1>4, <3>2, <4>1
      <4>2. CASE i # n + 1
        <5>1. i \in 1 .. n
          BY <1>1, <4>2
        <5> QED
          BY <1>4, <3>1, <5>1
      <4> QED
        BY <4>1, <4>2
    <3>5. a[1].frame = u.frame
      BY <3>2, <3>3
    <3> HIDE DEF a, u, n, f
    <3>6. e = Alen(u.frame) + 1 /\ u.at = n /\ e \in Nat
      BY <1>3, <3>1, <3>2
    <3>7. \A i \in 1 .. n + 1 : a[i] = [frame |-> u.frame, at |-> i - 1]
      BY <3>2, <3>4
    <3> QED
      BY <3>5, <3>6, <3>7
  <2> QED
    BY <2>1, <2>2
<1>6. y = IF Len(a) < e THEN [d EXCEPT !.buffer = a, !.expected = e]
          ELSE AclAssembly([d EXCEPT !.buffer = <<>>, !.expected = 0], a[1].frame)
  BY DEF AssembleUnit
<1>7. /\ Tail(r) \in Seq(Unit(g)) /\ Len(Tail(r)) = Len(r) - 1 /\ Len(r) \in Nat /\ Len(r) >= 1
      /\ \A i \in 1 .. Len(r) - 1 : Tail(r)[i] = r[i + 1]
  OBVIOUS
<1>8. CASE Len(a) < e
  <2>1. y = [d EXCEPT !.buffer = a, !.expected = e]
    BY <1>6, <1>8
  <2> HIDE DEF a, e, y
  <2>2. /\ y \in Desk(g) /\ y.buffer = a /\ y.expected = e
        /\ y.conns = d.conns /\ y.delivered = d.delivered
    BY <1>4, <1>5, <2>1 DEF Desk
  <2>3. GoodDesk(y)
    BY <2>2 DEF GoodDesk
  <2>4. Cut(a, e)
    BY <1>4, <1>5, <1>8 DEF Cut
  <2>5. a \o Tail(r) = b \o r
    BY <1>1, <1>2, <1>7 DEF a
  <2> QED
    BY <2>2, <2>3, <2>4, <2>5 DEF y
<1>9. CASE ~(Len(a) < e)
  <2> DEFINE c == [d EXCEPT !.buffer = <<>>, !.expected = 0]
             f == a[1].frame
  <2>1. y = AclAssembly(c, f)
    BY <1>6, <1>9
  <2>2. f \in RealFrame(g)
    BY <1>3, <1>5
  <2>3. /\ c \in Desk(g) /\ c.buffer = <<>> /\ c.expected = 0
        /\ c.conns = d.conns /\ c.delivered = d.delivered
    <3>1. <<>> \in Seq(Unit(g))
      OBVIOUS
    <3> QED
      BY <3>1 DEF Desk
  <2> HIDE DEF c, f, y
  <2>4. GoodDesk(c)
    BY <2>3 DEF GoodDesk
  <2>5. /\ y \in Desk(g) /\ GoodDesk(y) /\ y.buffer = <<>> /\ y.expected = 0
    BY <2>1, <2>2, <2>3, <2>4, AclAssemblyIsGood
  <2>6. Cut(y.buffer, y.expected)
    BY <2>5 DEF Cut
  <2>7. Stream(Tail(r))
    <3> DEFINE w == b \o r
               t == Tail(r)
    <3>1. /\ w \in Seq(Unit(g)) /\ Len(w) = n + Len(r)
          /\ \A i \in 1 .. Len(r) : w[n + i] = r[i]
      BY <1>1
    <3>2. Stream(w)
      OBVIOUS
    <3> HIDE DEF w
    <3>3. u.at = Alen(u.frame)
      BY <1>2, <1>3, <1>4, <1>5, <1>9, UnitType
    <3>4. w[n + 1] = u
      BY <1>7, <3>1
    <3>5. n + 1 < Len(w) => w[(n + 1) + 1].at = 0
      <4>1. SUFFICES ASSUME n + 1 < Len(w) PROVE w[(n + 1) + 1].at = 0
        OBVIOUS
      <4>2. n + 1 \in 1 .. Len(w) - 1
        BY <1>1, <1>7, <3>1, <4>1
      <4>3. Follows(w[n + 1], w[(n + 1) + 1])
        BY <3>2, <4>2 DEF Stream
      <4>4. ~(u.at < Alen(u.frame))
        BY <1>3, <3>3
      <4> QED
        BY <3>4, <4>3, <4>4 DEF Follows
    <3>6. t \in Seq(Unit(g)) /\ Len(t) = Len(w) - (n + 1) /\ n + 1 \in 0 .. Len(w)
      BY <1>1, <1>7, <3>1
    <3>7. \A i \in 1 .. Len(t) : t[i] = w[(n + 1) + i]
      <4> SUFFICES ASSUME NEW i \in 1 .. Len(t) PROVE t[i] = w[(n + 1) + i]
        OBVIOUS
      <4>1. i \in 1 .. Len(r) - 1 /\ i + 1 \in 1 .. Len(r) /\ (n + 1) + i = n + (i + 1)
        <5>1. i \in 1 .. Len(r) - 1
          BY <1>7
        <5> HIDE DEF n, t
        <5> QED
          BY <1>1, <1>7, <5>1
      <4>2. t[i] = r[i + 1] /\ w[n + (i + 1)] = r[i + 1]
        BY <1>7, <3>1, <4>1
      <4> QED
        BY <4>1, <4>2
    <3> HIDE DEF t, n
    <3>8. Stream(t)
      BY <3>1, <3>2, <3>5, <3>6, <3>7, StreamSuffix
    <3> QED
      BY <3>8 DEF t
  <2>8. <<>> \o Tail(r) = Tail(r)
    BY <1>7
  <2> QED
    BY <2>5, <2>6, <2>7, <2>8 DEF y
<1> QED
  BY <1>8, <1>9

----------------------------------------------------------------------------
\* Assemble(): the loop over a message

\* f is what the desk becomes item by item.
IsAfter(f, start, pipe, data, n) ==
    f = [k \in 0 .. n |-> IF k = 0 THEN start ELSE Handled(pipe, f[k - 1], data[k])]

LEMMA AfterExist ==
    ASSUME NEW start, NEW pipe, NEW data, NEW n \in Nat
    PROVE  \E f : IsAfter(f, start, pipe, data, n)
<1> DEFINE G(f, k) == IF k = 0 THEN start ELSE Handled(pipe, f[k - 1], data[k])
           Runs(m) == \E f : f = [k \in 0 .. m |-> G(f, k)]
           T == {m \in Nat : ~Runs(m)}
<1>1. \A f, g : G(f, 0) = G(g, 0)
  OBVIOUS
<1>2. ASSUME NEW f, NEW g, NEW k, f[k - 1] = g[k - 1] PROVE G(f, k) = G(g, k)
  BY <1>2
<1>3. SUFFICES ASSUME T # {} PROVE FALSE
  BY DEF IsAfter
<1> HIDE DEF G
<1>4. PICK m \in T : \A j \in T : m <= j
  BY <1>3, LeastNumber
<1>5. CASE m = 0
  <2> DEFINE g == [k \in 0 .. 0 |-> G(<< >>, k)]
  <2>1. \A k \in 0 .. 0 : G(<< >>, k) = G(g, k)
    BY <1>1
  <2>2. g = [k \in 0 .. 0 |-> G(g, k)]
    BY <2>1, Zenon
  <2>3. Runs(0)
    BY <2>2, Zenon
  <2> QED
    BY <1>4, <1>5, <2>3
<1>6. CASE m # 0
  <2>1. m - 1 \in Nat /\ m - 1 \notin T /\ m \in Nat
    BY <1>4, <1>6
  <2>2. PICK f : f = [k \in 0 .. m - 1 |-> G(f, k)]
    BY <2>1
  <2> DEFINE g == [k \in 0 .. m |-> IF k < m THEN f[k] ELSE G(f, k)]
  <2>3. \A k \in 0 .. m : k # 0 => g[k - 1] = f[k - 1]
    BY <2>1
  <2>4. \A k \in 0 .. m : k = 0 => G(f, k) = G(g, k)
    BY <1>1
  <2>5. \A k \in 0 .. m : k # 0 => G(f, k) = G(g, k)
    <3> SUFFICES ASSUME NEW k \in 0 .. m, k # 0 PROVE G(f, k) = G(g, k)
      OBVIOUS
    <3>1. f[k - 1] = g[k - 1]
      BY <2>3
    <3> HIDE DEF g
    <3> QED
      BY <3>1, <1>2
  <2>6. \A k \in 0 .. m : k < m => f[k] = G(f, k)
    BY <2>1, <2>2
  <2>7. \A k \in 0 .. m : g[k] = G(g, k)
    BY <2>4, <2>5, <2>6
  <2>8. g = [k \in 0 .. m |-> g[k]]
    OBVIOUS
  <2>9. g = [k \in 0 .. m |-> G(g, k)]
    BY <2>7, <2>8, Zenon
  <2>10. Runs(m)
    BY <2>9, Zenon
  <2> QED
    BY <1>4, <2>10
<1> QED
  BY <1>5, <1>6

LEMMA AfterAt ==
    ASSUME NEW f, NEW start, NEW pipe, NEW data, NEW n \in Nat, IsAfter(f, start, pipe, data, n)
    PROVE  f[0] = start /\ \A k \in 1 .. n : f[k] = Handled(pipe, f[k - 1], data[k])
<1> DEFINE G(j) == IF j = 0 THEN start ELSE Handled(pipe, f[j - 1], data[j])
<1>1. f = [j \in 0 .. n |-> G(j)]
  BY Zenon DEF IsAfter
<1>2. f[0] = start
  BY <1>1
<1>3. ASSUME NEW k \in 1 .. n PROVE f[k] = Handled(pipe, f[k - 1], data[k])
  <2>1. k \in 0 .. n /\ ~(k = 0)
    OBVIOUS
  <2>2. G(k) = Handled(pipe, f[k - 1], data[k])
    BY <2>1, Zenon
  <2> HIDE DEF G
  <2>3. f[k] = G(k)
    BY <1>1, <2>1
  <2> QED
    BY <2>2, <2>3
<1> QED
  BY <1>2, <1>3

LEMMA AssembleIsLast ==
    ASSUME NEW message, Len(message.data) \in Nat
    PROVE  LET d == [buffer |-> device.buffer, expected |-> device.expected,
                     conns |-> conns, delivered |-> delivered]
               n == Len(message.data)
           IN  \E f : IsAfter(f, d, message.pipe, message.data, n) /\ Assemble(message) = f[n]
<1> DEFINE d == [buffer |-> device.buffer, expected |-> device.expected,
                 conns |-> conns, delivered |-> delivered]
           n == Len(message.data)
           f == CHOOSE f : f = [k \in 0 .. n |->
                    IF k = 0 THEN d ELSE Handled(message.pipe, f[k - 1], message.data[k])]
<1>1. IsAfter(f, d, message.pipe, message.data, n)
  <2>1. n \in Nat
    OBVIOUS
  <2> HIDE DEF n, d
  <2>2. \E e : IsAfter(e, d, message.pipe, message.data, n)
    BY <2>1, AfterExist
  <2> QED
    BY <2>2, Zenon DEF IsAfter
<1>2. Assemble(message) = f[n]
  BY DEF Assemble
<1> QED
  BY <1>1, <1>2, Zenon

\* A sequence without its first k elements.
Rest(s, k) == SubSeq(s, k + 1, Len(s))

LEMMA RestOf ==
    ASSUME NEW S, NEW s \in Seq(S), NEW k \in 0 .. Len(s)
    PROVE  /\ Rest(s, k) \in Seq(S) /\ Len(Rest(s, k)) = Len(s) - k
           /\ \A i \in 1 .. Len(s) - k : Rest(s, k)[i] = s[k + i]
<1>1. k + 1 \in Nat /\ Len(s) \in Nat /\ k <= Len(s) /\ k + 1 >= 1
  OBVIOUS
<1>2. \A i \in k + 1 .. Len(s) : s[i] \in S
  BY <1>1
<1>3. /\ SubSeq(s, k + 1, Len(s)) \in Seq(S)
      /\ Len(SubSeq(s, k + 1, Len(s))) = IF k + 1 <= Len(s) THEN Len(s) - (k + 1) + 1 ELSE 0
      /\ \A i \in 1 .. Len(s) - (k + 1) + 1 : SubSeq(s, k + 1, Len(s))[i] = s[(k + 1) + i - 1]
  BY <1>1, <1>2, SubSeqProperties
<1>4. Len(s) - (k + 1) + 1 = Len(s) - k
  BY <1>1
<1>5. ASSUME NEW i \in 1 .. Len(s) - k PROVE (k + 1) + i - 1 = k + i
  BY <1>1
<1>6. Len(Rest(s, k)) = Len(s) - k
  BY <1>1, <1>3 DEF Rest
<1> QED
  BY <1>3, <1>4, <1>5, <1>6 DEF Rest

LEMMA RestStep ==
    ASSUME NEW S, NEW s \in Seq(S), NEW k \in 0 .. Len(s), k < Len(s)
    PROVE  Rest(s, k) # <<>> /\ Rest(s, k)[1] = s[k + 1] /\ Tail(Rest(s, k)) = Rest(s, k + 1)
<1> DEFINE r == Rest(s, k)
           q == Rest(s, k + 1)
           n == Len(s)
<1>1. n \in Nat /\ k \in Nat /\ k + 1 \in 0 .. n /\ k < n
  OBVIOUS
<1>2. r \in Seq(S) /\ Len(r) = n - k /\ \A i \in 1 .. n - k : r[i] = s[k + i]
  BY RestOf
<1>3. /\ q \in Seq(S) /\ Len(q) = n - (k + 1)
      /\ \A i \in 1 .. n - (k + 1) : q[i] = s[(k + 1) + i]
  BY <1>1, RestOf
<1> HIDE DEF r, q, n
<1>4. r # <<>> /\ 1 \in 1 .. n - k
  BY <1>1, <1>2
<1>5. Tail(r) \in Seq(S) /\ Len(Tail(r)) = Len(r) - 1 /\ \A i \in 1 .. Len(r) - 1 : Tail(r)[i] = r[i + 1]
  BY <1>2, <1>4, HeadTailProperties
<1>6. Len(Tail(r)) = Len(q)
  BY <1>1, <1>2, <1>3, <1>5
<1>7. ASSUME NEW i \in 1 .. Len(q) PROVE Tail(r)[i] = q[i]
  <2>1. i \in 1 .. Len(r) - 1 /\ i + 1 \in 1 .. n - k /\ k + (i + 1) = (k + 1) + i
    BY <1>1, <1>2, <1>3
  <2> QED
    BY <1>2, <1>3, <1>5, <2>1
<1>8. Tail(r) = q
  BY <1>3, <1>5, <1>6, <1>7, SeqEqual
<1>9. r[1] = s[k + 1]
  BY <1>2, <1>4
<1> QED
  BY <1>4, <1>8, <1>9 DEF r, q

\* A message of ACL data, with what comes behind it in the stream.
LEMMA AclDataAssembled ==
    ASSUME NEW g, plan \in Plans, NEW d \in Desk(g), GoodDesk(d), Cut(d.buffer, d.expected),
           NEW data \in Seq(Unit(g)), NEW behind \in Seq(Unit(g)),
           Stream(d.buffer \o (data \o behind)),
           NEW f, IsAfter(f, d, "acl", data, Len(data))
    PROVE  LET y == f[Len(data)]
           IN  /\ y \in Desk(g) /\ GoodDesk(y) /\ Cut(y.buffer, y.expected)
               /\ Stream(y.buffer \o behind)
<1> DEFINE n == Len(data)
           v == data \o behind
           R(k) == Rest(v, k)
           P(k) == /\ f[k] \in Desk(g) /\ GoodDesk(f[k]) /\ Cut(f[k].buffer, f[k].expected)
                   /\ Stream(f[k].buffer \o R(k))
           T == {k \in Nat : k <= n /\ ~P(k)}
<1>1. /\ n \in Nat /\ v \in Seq(Unit(g)) /\ Len(v) = n + Len(behind) /\ Len(behind) \in Nat
      /\ \A k \in 1 .. n : v[k] = data[k]
      /\ \A k \in 1 .. Len(behind) : v[n + k] = behind[k]
  OBVIOUS
<1>2. f[0] = d /\ \A k \in 1 .. n : f[k] = Handled("acl", f[k - 1], data[k])
  BY <1>1, AfterAt
<1>3. R(0) = v
  <2> HIDE DEF v
  <2>1. 0 \in 0 .. Len(v) /\ Len(v) - 0 = Len(v) /\ \A i \in 1 .. Len(v) : 0 + i = i
    BY <1>1
  <2>2. Rest(v, 0) \in Seq(Unit(g)) /\ Len(Rest(v, 0)) = Len(v)
        /\ \A i \in 1 .. Len(v) : Rest(v, 0)[i] = v[i]
    BY <1>1, <2>1, RestOf
  <2> QED
    BY <1>1, <2>2, SeqEqual
<1>4. R(n) = behind
  <2> HIDE DEF v, n
  <2>1. n \in 0 .. Len(v) /\ Len(v) - n = Len(behind)
    BY <1>1
  <2>2. Rest(v, n) \in Seq(Unit(g)) /\ Len(Rest(v, n)) = Len(behind)
        /\ \A i \in 1 .. Len(behind) : Rest(v, n)[i] = v[n + i]
    BY <1>1, <2>1, RestOf
  <2> QED
    BY <1>1, <2>2, SeqEqual
<1>5. Stream(d.buffer \o v)
  OBVIOUS
<1> HIDE DEF v, n
<1>6. P(0)
  BY <1>2, <1>3, <1>5
<1>7. ASSUME NEW k \in 1 .. n, P(k - 1) PROVE P(k)
  <2> DEFINE r == R(k - 1)
             b == f[k - 1]
             y == AssembleUnit(b, r[1])
  <2>1. k - 1 \in 0 .. Len(v) /\ k - 1 < Len(v) /\ (k - 1) + 1 = k
    BY <1>1
  <2>2. r \in Seq(Unit(g))
    BY <1>1, <2>1, RestOf
  <2>3. r # <<>> /\ r[1] = v[k] /\ Tail(r) = R(k)
    <3>1. Rest(v, k - 1) # <<>> /\ Rest(v, k - 1)[1] = v[(k - 1) + 1]
          /\ Tail(Rest(v, k - 1)) = Rest(v, (k - 1) + 1)
      BY <1>1, <2>1, RestStep
    <3> QED
      BY <2>1, <3>1
  <2>4. f[k] = AssembleUnit(b, r[1])
    BY <1>1, <1>2, <2>3 DEF Handled
  <2>5. b \in Desk(g) /\ GoodDesk(b) /\ Cut(b.buffer, b.expected) /\ Stream(b.buffer \o r)
    BY <1>7
  <2> HIDE DEF r, b
  <2>6. y \in Desk(g) /\ GoodDesk(y) /\ Cut(y.buffer, y.expected) /\ Stream(y.buffer \o Tail(r))
    BY <2>2, <2>3, <2>5, UnitAssembled
  <2> QED
    BY <2>3, <2>4, <2>6
<1> HIDE DEF P
<1>8. T = {}
  <2>1. SUFFICES ASSUME T # {} PROVE FALSE
    OBVIOUS
  <2>2. PICK k \in T : \A j \in T : k <= j
    BY <2>1, LeastNumber
  <2>3. k # 0 /\ k \in Nat /\ k <= n
    BY <1>6, <2>2
  <2>4. k \in 1 .. n /\ k - 1 \in Nat /\ k - 1 <= n /\ k - 1 \notin T
    BY <1>1, <2>2, <2>3
  <2>5. P(k - 1)
    BY <2>4
  <2>6. P(k)
    BY <1>7, <2>4, <2>5
  <2> QED
    BY <2>2, <2>6
<1>9. P(n)
  BY <1>1, <1>8
<1> QED
  BY <1>4, <1>9 DEF P, n

\* A message of events touches the connections only.
LEMMA EventsPosted ==
    ASSUME NEW g, NEW d \in Desk(g), GoodDesk(d),
           NEW data \in Seq(Event), NEW f, IsAfter(f, d, "event", data, Len(data))
    PROVE  LET y == f[Len(data)]
           IN  /\ y \in Desk(g) /\ GoodDesk(y)
               /\ y.buffer = d.buffer /\ y.expected = d.expected
<1> DEFINE n == Len(data)
           P(k) == /\ f[k] \in Desk(g) /\ GoodDesk(f[k])
                   /\ f[k].buffer = d.buffer /\ f[k].expected = d.expected
           T == {k \in Nat : k <= n /\ ~P(k)}
<1>1. n \in Nat /\ \A k \in 1 .. n : data[k] \in Event
  OBVIOUS
<1>2. f[0] = d /\ \A k \in 1 .. n : f[k] = Handled("event", f[k - 1], data[k])
  BY <1>1, AfterAt
<1> HIDE DEF n
<1>3. P(0)
  BY <1>2
<1>4. ASSUME NEW k \in 1 .. n, P(k - 1) PROVE P(k)
  <2> DEFINE b == f[k - 1]
  <2>1. f[k] = PostEvent(b, data[k]) /\ data[k] \in Event
    BY <1>1, <1>2 DEF Handled
  <2>2. b \in Desk(g) /\ GoodDesk(b) /\ b.buffer = d.buffer /\ b.expected = d.expected
    BY <1>4
  <2> HIDE DEF b
  <2>3. LET y == PostEvent(b, data[k])
        IN  y \in Desk(g) /\ GoodDesk(y) /\ y.buffer = b.buffer /\ y.expected = b.expected
    BY <2>1, <2>2, PostEventIsGood
  <2> QED
    BY <2>1, <2>2, <2>3
<1> HIDE DEF P
<1>5. T = {}
  <2>1. SUFFICES ASSUME T # {} PROVE FALSE
    OBVIOUS
  <2>2. PICK k \in T : \A j \in T : k <= j
    BY <2>1, LeastNumber
  <2>3. k # 0 /\ k \in Nat /\ k <= n
    BY <1>3, <2>2
  <2>4. k \in 1 .. n /\ k - 1 \in Nat /\ k - 1 <= n /\ k - 1 \notin T
    BY <1>1, <2>2, <2>3
  <2>5. P(k - 1)
    BY <2>4
  <2>6. P(k)
    BY <1>4, <2>4, <2>5
  <2> QED
    BY <2>2, <2>6
<1>6. P(n)
  BY <1>1, <1>5
<1> QED
  BY <1>6 DEF P, n

----------------------------------------------------------------------------
\* The invariant

Peak == MaxGen[plan]

\* Senders and links.
SendInv ==
    /\ plan \in Plans
    /\ sender \in [Senders -> [n : Nat, sent : Nat]]
    /\ \A s \in Senders : sender[s].n <= Len(plan[s].packets)
    /\ link \in [Handles -> [up : BOOLEAN, gen : 0 .. Peak]]
    /\ upsets \in 0 .. MaxUpsets

\* The driver and its transfers.
UsbInv ==
    /\ transfer \in [Pipes -> BOOLEAN] /\ deaf \in [Pipes -> BOOLEAN]
    /\ callback \in [pipe : Pipes \cup {"none"}]
    /\ driver \in {"closed", "open", "up", "closing", "gone"}
    /\ PipesArmed

\* How many transfers were cut.
CutsInv == cuts \in 0 .. MaxCuts[plan]

\* What is on its way: nothing before the device is opened.
QueueInv ==
    /\ DOMAIN source = Pipes
    /\ source.acl \in Seq(Unit(Peak)) /\ source.event \in Seq(Event)
    /\ port \in Seq(Message(Peak)) /\ Len(port) <= PortDepth
    /\ rx \in [state : {"waiting", "assembling", "ended", "astray"}, message : Message(Peak)]
    /\ rx.state # "assembling" => rx.message = NoMessage
    /\ driver = "closed" => /\ port = <<>> /\ rx.state = "waiting"
                            /\ source.acl = <<>> /\ source.event = <<>>

TheDesk == [buffer |-> device.buffer, expected |-> device.expected,
            conns |-> conns, delivered |-> delivered]

\* What is assembled.
DeskInv ==
    /\ device \in [registered : BOOLEAN, buffer : Seq(Unit(Peak)), expected : Nat]
    /\ conns \in [Handles -> Conn(Peak)]
    /\ delivered \in [Handles -> Seq(Seq(RealFrame(Peak)))]
    /\ GoodDesk(TheDesk)
    /\ Cut(device.buffer, device.expected)

AclData(m) == IF m.pipe = "acl" THEN m.data ELSE <<>>

\* t[k] is the stream of ACL data behind the k-th message of the port: the data
\* of the later messages and, at the end, what the controller holds.
Behind(g, t, msgs, last) ==
    /\ t \in [0 .. Len(msgs) -> Seq(Unit(g))]
    /\ t[Len(msgs)] = last
    /\ \A k \in 1 .. Len(msgs) : t[k - 1] = AclData(msgs[k]) \o t[k]

\* The buffer, the message in hand, the port and the controller hold whole
\* frames together.
StreamInv ==
    device.registered =>
        \E t : /\ Behind(Peak, t, port, source.acl)
              /\ Stream(device.buffer \o (AclData(rx.message) \o t[0]))

Inv == SendInv /\ UsbInv /\ CutsInv /\ QueueInv /\ DeskInv /\ StreamInv

\* What a step may be.
Step ==
    \/ \E s \in Senders : PostACL(s) \/ SendFrame(s)
    \/ \E h \in Handles : LinkUp(h) \/ LinkFails(h) \/ LinkDown(h)
    \/ \E p \in Pipes : Completed(p) \/ Failed(p)
    \/ Resubmit \/ Open \/ BtUp \/ CloseCancel \/ CloseUnregister
    \/ TakeMessage \/ HandleMessage \/ UNCHANGED vars

LEMMA Steps == [Next]_vars => Step
BY DEF Next, Step, Sending, Links, Callbacks, Server, Receiver

LEMMA PlanKept == [Next]_vars => plan' = plan
<1> SUFFICES ASSUME Step PROVE plan' = plan
  BY Steps
<1> QED
  BY DEF Step, PostACL, SendFrame, LinkUp, LinkFails, LinkDown, Completed, Failed, Resubmit,
         Open, BtUp, CloseCancel, CloseUnregister, TakeMessage, HandleMessage, vars

LEMMA PeakIsNat == ASSUME plan \in Plans PROVE Peak \in Nat
BY BoundAssumption DEF Peak

LEMMA MadeIsMax ==
    ASSUME SendInv, Handles # {}
    PROVE  Made \in 0 .. Peak /\ \A h \in Handles : link[h].gen <= Made
<1> DEFINE S == {link[h].gen : h \in Handles}
           g == Peak
           T == {n \in Nat : \E x \in S : n = g - x}
<1>1. g \in Nat
  BY PeakIsNat DEF SendInv
<1>2. S # {} /\ S \subseteq 0 .. g
  BY DEF SendInv
<1>3. Made = CHOOSE x \in S : \A y \in S : x >= y
  BY DEF Made, Max
<1> HIDE DEF S, g
<1>4. T # {} /\ T \subseteq Nat
  <2>1. PICK x \in S : TRUE
    BY <1>2
  <2>2. x \in 0 .. g /\ g - x \in Nat
    BY <1>1, <1>2, <2>1
  <2> QED
    BY <2>1, <2>2
<1>5. PICK n \in T : \A m \in T : n <= m
  BY <1>4, LeastNumber
<1>6. PICK x \in S : n = g - x
  BY <1>5
<1>7. ASSUME NEW y \in S PROVE x >= y
  <2>1. x \in 0 .. g /\ y \in 0 .. g /\ g - y \in Nat
    BY <1>1, <1>2, <1>6
  <2>2. g - y \in T
    BY <2>1
  <2>3. g - x <= g - y
    BY <1>5, <1>6, <2>2
  <2> QED
    BY <1>1, <2>1, <2>3
<1>8. \E x_1 \in S : \A y \in S : x_1 >= y
  BY <1>7
<1>9. Made \in S /\ \A y \in S : Made >= y
  BY <1>3, <1>8, Zenon
<1>10. \A y \in S : Made \in 0 .. g /\ y \in 0 .. g /\ y <= Made
  BY <1>1, <1>2, <1>9
<1>11. \A h \in Handles : link[h].gen \in S
  BY DEF S
<1> QED
  BY <1>2, <1>9, <1>10, <1>11 DEF g

\* The frames that PostACL() cuts carry something.
LEMMA SentIsReal ==
    ASSUME SendInv, NEW s \in Senders, Busy(s), NEW gen \in 0 .. Peak
    PROVE  [packet |-> Packet(s), part |-> sender[s].sent + 1, gen |-> gen] \in RealFrame(Peak)
<1> DEFINE f == [packet |-> Packet(s), part |-> sender[s].sent + 1, gen |-> gen]
           total == plan[s].packets[sender[s].n]
           sent == sender[s].sent
           parts == Parts(Packet(s))
<1>1. /\ sender[s].n \in Nat /\ sender[s].n > 0 /\ sender[s].n <= Len(plan[s].packets)
      /\ sent \in Nat /\ sent < parts
  BY DEF SendInv, Busy
<1>2. plan[s].packets \in Seq(Nat \ {0})
  BY LinkAssumption DEF SendInv
<1>3. total \in Nat \ {0}
  BY <1>1, <1>2
<1>4. Mtu \in Nat \ {0}
  BY SizeAssumption
<1>5. parts = (total + Mtu - 1) \div Mtu
  BY DEF Parts, Packet
<1>6. Packet(s) = [from |-> s, n |-> sender[s].n, total |-> total]
  BY DEF Packet
<1>7. f \in [packet : [from : Senders, n : Nat, total : Nat], part : Nat, gen : 0 .. Peak]
  BY <1>1, <1>3, <1>6
<1>8. Alen(f) = LET rest == total - sent * Mtu IN IF rest > Mtu THEN Mtu ELSE rest
  <2>1. f.packet.total = total /\ f.part - 1 = sent
    BY <1>1, <1>6
  <2> HIDE DEF f, total, sent
  <2> QED
    BY <2>1 DEF Alen
<1> HIDE DEF f, total, sent, parts
<1>9. total - sent * Mtu \in Nat
  <2> DEFINE a == total + Mtu - 1
  <2>1. a \in Int
    BY <1>3, <1>4
  <2>2. a = total + Mtu - 1
    OBVIOUS
  <2> HIDE DEF a
  <2>3. a = Mtu * (a \div Mtu) + (a % Mtu) /\ a % Mtu \in 0 .. Mtu - 1 /\ a \div Mtu \in Int
    BY <1>4, <2>1, DivMod
  <2>4. parts = a \div Mtu
    BY <1>5, <2>2
  <2>5. parts \in Int /\ sent + 1 <= parts
    BY <1>1, <2>3, <2>4
  <2>6. Mtu * (sent + 1) <= Mtu * parts
    <3>1. sent + 1 \in Int
      BY <1>1
    <3> DEFINE e == sent + 1
    <3>2. e \in Int /\ e <= parts /\ parts - e \in Nat
      BY <2>5, <3>1
    <3> HIDE DEF e
    <3>3. Mtu * (parts - e) >= 0 /\ Mtu * (parts - e) = Mtu * parts - Mtu * e
      BY <1>4, <2>5, <3>2
    <3>4. Mtu * e <= Mtu * parts
      BY <1>4, <2>5, <3>2, <3>3
    <3> QED
      BY <3>4 DEF e
  <2>7. Mtu * (sent + 1) = sent * Mtu + Mtu /\ sent * Mtu \in Int
    BY <1>1, <1>4
  <2>8. Mtu * parts <= a
    BY <1>4, <2>1, <2>3, <2>4
  <2> DEFINE x == sent * Mtu
  <2>9. x + Mtu <= a /\ x \in Int
    <3> DEFINE y == Mtu * parts
    <3>1. y \in Int /\ y <= a /\ Mtu * (sent + 1) <= y
      BY <1>4, <2>5, <2>6, <2>8
    <3> HIDE DEF y
    <3> QED
      BY <1>4, <2>1, <2>7, <3>1
  <2> HIDE DEF x
  <2>10. total - x \in Nat
    BY <1>3, <1>4, <2>2, <2>9
  <2> QED
    BY <2>10 DEF x
<1>10. Alen(f) \in Nat
  BY <1>4, <1>8, <1>9
<1> QED
  BY <1>7, <1>10 DEF RealFrame, f, sent

LEMMA InitInv == Init => Inv
<1> SUFFICES ASSUME Init PROVE Inv
  OBVIOUS
<1>1. plan \in Plans /\ Peak \in Nat
  BY PeakIsNat DEF Init
<1>2. SendInv
  <2>1. upsets \in 0 .. MaxUpsets
    BY BoundAssumption DEF Init
  <2>2. link \in [Handles -> [up : BOOLEAN, gen : 0 .. Peak]]
    BY <1>1 DEF Init
  <2>3. sender \in [Senders -> [n : Nat, sent : Nat]] /\ \A s \in Senders : sender[s].n = 0
    BY DEF Init
  <2>4. ASSUME NEW s \in Senders PROVE sender[s].n <= Len(plan[s].packets)
    <3>1. plan[s].packets \in Seq(Nat \ {0})
      BY <1>1, LinkAssumption
    <3>2. Len(plan[s].packets) \in Nat
      BY <3>1
    <3> QED
      BY <2>3, <3>2
  <2> QED
    BY <1>1, <2>1, <2>2, <2>3, <2>4 DEF SendInv
<1>3. UsbInv
  BY BoundAssumption DEF Init, UsbInv, NoCallback, PipesArmed
<1>4. NoMessage \in Message(Peak) /\ <<>> \in Seq(Unit(Peak)) /\ <<>> \in Seq(Event)
      /\ <<>> \in Seq(Message(Peak)) /\ <<>> \in Seq(RealFrame(Peak))
      /\ <<>> \in Seq(Seq(RealFrame(Peak)))
  BY DEF NoMessage, Message
<1>5. QueueInv
  <2>1. Len(port) = 0 /\ PortDepth \in Nat
    BY SizeAssumption DEF Init
  <2> QED
    BY <1>4, <2>1 DEF Init, QueueInv, Pipes
<1>6. DeskInv
  <2>1. Unlisted \in Conn(Peak) /\ GoodConn(Unlisted)
    BY <1>4 DEF Unlisted, Conn, GoodConn
  <2>2. conns = [h \in Handles |-> Unlisted] /\ delivered = [h \in Handles |-> <<>>]
        /\ device = [registered |-> FALSE, buffer |-> <<>>, expected |-> 0]
    BY DEF Init, NoDevice
  <2>3. GoodDesk(TheDesk)
    BY <2>1, <2>2 DEF GoodDesk, TheDesk
  <2>4. Cut(device.buffer, device.expected)
    BY <2>2 DEF Cut
  <2> QED
    BY <1>4, <2>1, <2>2, <2>3, <2>4 DEF DeskInv
<1>7. StreamInv
  BY DEF Init, StreamInv, NoDevice
<1>8. CutsInv
  BY <1>1, BoundAssumption DEF Init, CutsInv
<1> QED
  BY <1>2, <1>3, <1>5, <1>6, <1>7, <1>8 DEF Inv

\* Senders, links and the driver: the receiver and the server touch none of it.
LEMMA SendStep ==
    ASSUME SendInv, [Next]_vars
    PROVE  SendInv'
<1>1. plan' = plan /\ Peak' = Peak /\ plan \in Plans /\ Peak \in Nat
  BY PlanKept, PeakIsNat DEF Peak, SendInv
<1>2. Step
  BY Steps
<1>3. CASE UNCHANGED <<sender, link, upsets>>
  BY <1>1, <1>3 DEF SendInv
<1>4. CASE UNCHANGED <<sender, link>> /\ upsets < MaxUpsets /\ upsets' = upsets + 1
  BY <1>1, <1>4, BoundAssumption DEF SendInv
<1>5. ASSUME NEW s \in Senders, PostACL(s) PROVE SendInv'
  <2>1. sender' = [sender EXCEPT ![s] = [n |-> sender[s].n + 1, sent |-> 0]]
        /\ sender[s].n < Len(plan[s].packets) /\ UNCHANGED <<link, upsets>>
    BY <1>5 DEF PostACL
  <2>2. Len(plan[s].packets) \in Nat
    <3>1. plan[s].packets \in Seq(Nat \ {0})
      BY <1>1, LinkAssumption
    <3> QED
      BY <3>1
  <2>3. sender' \in [Senders -> [n : Nat, sent : Nat]]
        /\ \A r \in Senders : sender'[r].n = IF r = s THEN sender[s].n + 1 ELSE sender[r].n
    BY <2>1 DEF SendInv
  <2>4. \A r \in Senders : sender'[r].n <= Len(plan[r].packets)
    BY <2>1, <2>2, <2>3 DEF SendInv
  <2> QED
    BY <1>1, <2>1, <2>3, <2>4 DEF SendInv
<1>6. ASSUME NEW s \in Senders, SendFrame(s) PROVE SendInv'
  <2>1. sender' = [sender EXCEPT ![s] = [sender[s] EXCEPT !.sent = sender[s].sent + 1]]
        /\ UNCHANGED link
    BY <1>6 DEF SendFrame
  <2>2. upsets' = upsets \/ (upsets < MaxUpsets /\ upsets' = upsets + 1)
    BY <1>6 DEF SendFrame
  <2>3. sender' \in [Senders -> [n : Nat, sent : Nat]]
        /\ \A r \in Senders : sender'[r].n = sender[r].n
    BY <2>1 DEF SendInv
  <2>4. upsets' \in 0 .. MaxUpsets
    BY <2>2, BoundAssumption DEF SendInv
  <2> QED
    BY <1>1, <2>1, <2>3, <2>4 DEF SendInv
<1>7. ASSUME NEW h \in Handles, LinkUp(h) \/ LinkDown(h) PROVE SendInv'
  <2>1. UNCHANGED <<sender, upsets>>
    BY <1>7 DEF LinkUp, LinkDown
  <2>2. link' \in [Handles -> [up : BOOLEAN, gen : 0 .. Peak]]
    <3>1. CASE LinkDown(h)
      BY <3>1 DEF LinkDown, SendInv
    <3>2. CASE LinkUp(h)
      <4>1. Made \in 0 .. Peak /\ Made < Peak
        BY <3>2, MadeIsMax DEF LinkUp, Peak
      <4>2. Made + 1 \in 0 .. Peak
        BY <1>1, <4>1
      <4>3. link' = [link EXCEPT ![h] = [up |-> TRUE, gen |-> Made + 1]]
        BY <3>2 DEF LinkUp
      <4> QED
        BY <4>2, <4>3 DEF SendInv
    <3> QED
      BY <1>7, <3>1, <3>2
  <2> QED
    BY <1>1, <2>1, <2>2 DEF SendInv
<1>8. ASSUME NEW h \in Handles, LinkFails(h) PROVE SendInv'
  BY <1>4, <1>8 DEF LinkFails
<1>9. ASSUME NEW p \in Pipes, Completed(p) \/ Failed(p) PROVE SendInv'
  BY <1>3, <1>4, <1>9 DEF Completed, Failed
<1>10. CASE Resubmit \/ BtUp
  BY <1>3, <1>4, <1>10 DEF Resubmit, BtUp
<1>11. CASE Open \/ CloseCancel \/ CloseUnregister \/ TakeMessage \/ HandleMessage \/ UNCHANGED vars
  BY <1>3, <1>11 DEF Open, CloseCancel, CloseUnregister, TakeMessage, HandleMessage, vars
<1> QED
  BY <1>2, <1>5, <1>6, <1>7, <1>8, <1>9, <1>10, <1>11 DEF Step

\* A transfer is cut only below the bound.
LEMMA CutsStep ==
    ASSUME SendInv, CutsInv, [Next]_vars
    PROVE  CutsInv'
<1>1. plan' = plan /\ plan \in Plans
  BY PlanKept DEF SendInv
<1>2. cuts' = cuts \/ (cuts' = cuts + 1 /\ cuts < MaxCuts[plan])
  <2>1. Step
    BY Steps
  <2>2. ASSUME NEW p \in Pipes, Completed(p)
        PROVE  cuts' = cuts \/ (cuts' = cuts + 1 /\ cuts < MaxCuts[plan])
    BY <2>2 DEF Completed, CutsHeader, TearsEvent
  <2>3. ASSUME NEW s \in Senders, PostACL(s) \/ SendFrame(s) PROVE cuts' = cuts
    BY <2>3 DEF PostACL, SendFrame, usbVars
  <2>4. ASSUME NEW h \in Handles, LinkUp(h) \/ LinkFails(h) \/ LinkDown(h) PROVE cuts' = cuts
    BY <2>4 DEF LinkUp, LinkFails, LinkDown, usbVars
  <2>5. ASSUME NEW p \in Pipes, Failed(p) PROVE cuts' = cuts
    BY <2>5 DEF Failed
  <2>6. CASE Resubmit \/ Open \/ BtUp \/ CloseCancel \/ CloseUnregister
    BY <2>6 DEF Resubmit, Open, BtUp, CloseCancel, CloseUnregister, usbVars
  <2>7. CASE TakeMessage \/ HandleMessage \/ UNCHANGED vars
    BY <2>7 DEF TakeMessage, HandleMessage, vars, usbVars
  <2> QED
    BY <2>1, <2>2, <2>3, <2>4, <2>5, <2>6, <2>7 DEF Step
<1>3. cuts \in Nat /\ cuts <= MaxCuts[plan] /\ MaxCuts[plan] \in Nat
  BY <1>1, BoundAssumption DEF CutsInv
<1> QED
  BY <1>1, <1>2, <1>3 DEF CutsInv

\* The driver: a transfer that ends leaves the callback that queues the next.
LEMMA UsbStep ==
    ASSUME UsbInv, [Next]_vars
    PROVE  UsbInv'
<1>1. Step
  BY Steps
<1>2. CASE UNCHANGED <<usbVars, driver>>
  BY <1>2 DEF UsbInv, PipesArmed, usbVars
<1>3. ASSUME NEW s \in Senders, PostACL(s) \/ SendFrame(s) PROVE UsbInv'
  BY <1>2, <1>3 DEF PostACL, SendFrame
<1>4. ASSUME NEW h \in Handles, LinkUp(h) \/ LinkFails(h) \/ LinkDown(h) PROVE UsbInv'
  BY <1>2, <1>4 DEF LinkUp, LinkFails, LinkDown
<1>5. ASSUME NEW p \in Pipes, Completed(p) PROVE UsbInv'
  <2>1. /\ callback = NoCallback /\ UNCHANGED <<deaf, driver>>
        /\ transfer' = [transfer EXCEPT ![p] = FALSE] /\ callback' = [pipe |-> p]
    BY <1>5 DEF Completed, CanComplete
  <2>2. ASSUME driver = "up", NEW q \in Pipes PROVE deaf[q] \/ transfer'[q] \/ callback'.pipe = q
    <3>1. deaf[q] \/ transfer[q]
      BY <2>1, <2>2 DEF UsbInv, PipesArmed, NoCallback, Pipes
    <3> QED
      BY <2>1, <3>1 DEF UsbInv
  <2> QED
    BY <2>1, <2>2 DEF UsbInv, PipesArmed
<1>6. ASSUME NEW p \in Pipes, Failed(p) PROVE UsbInv'
  <2>1. /\ callback = NoCallback /\ UNCHANGED <<driver, cuts>>
        /\ transfer' = [transfer EXCEPT ![p] = FALSE]
        /\ \/ callback' = [pipe |-> p] /\ UNCHANGED deaf
           \/ deaf' = [deaf EXCEPT ![p] = TRUE] /\ UNCHANGED callback
    BY <1>6 DEF Failed, Reported
  <2>2. ASSUME driver = "up", NEW q \in Pipes PROVE deaf'[q] \/ transfer'[q] \/ callback'.pipe = q
    <3>1. deaf[q] \/ transfer[q]
      BY <2>1, <2>2 DEF UsbInv, PipesArmed, NoCallback, Pipes
    <3> QED
      BY <2>1, <3>1 DEF UsbInv
  <2>3. /\ transfer' \in [Pipes -> BOOLEAN] /\ deaf' \in [Pipes -> BOOLEAN]
        /\ callback' \in [pipe : Pipes \cup {"none"}]
    <3>1. transfer' \in [Pipes -> BOOLEAN]
      BY <2>1 DEF UsbInv
    <3>2. CASE callback' = [pipe |-> p] /\ UNCHANGED deaf
      BY <3>1, <3>2 DEF UsbInv
    <3>3. CASE deaf' = [deaf EXCEPT ![p] = TRUE] /\ UNCHANGED callback
      BY <3>1, <3>3 DEF UsbInv
    <3> QED
      BY <2>1, <3>2, <3>3
  <2> QED
    BY <2>1, <2>2, <2>3 DEF UsbInv, PipesArmed
<1>7. CASE Resubmit
  <2>1. /\ callback # NoCallback /\ callback' = NoCallback /\ UNCHANGED <<driver, cuts>>
        /\ \/ transfer' = [transfer EXCEPT ![callback.pipe] = TRUE] /\ UNCHANGED deaf
           \/ deaf' = [deaf EXCEPT ![callback.pipe] = TRUE] /\ UNCHANGED transfer
    BY <1>7 DEF Resubmit
  <2>2. callback.pipe \in Pipes
    BY <2>1 DEF UsbInv, NoCallback
  <2>3. ASSUME driver = "up", NEW q \in Pipes PROVE deaf'[q] \/ transfer'[q]
    <3>1. deaf[q] \/ transfer[q] \/ callback.pipe = q
      BY <2>3 DEF UsbInv, PipesArmed
    <3> QED
      BY <2>1, <2>2, <3>1 DEF UsbInv
  <2>4. /\ transfer' \in [Pipes -> BOOLEAN] /\ deaf' \in [Pipes -> BOOLEAN]
        /\ callback' \in [pipe : Pipes \cup {"none"}]
    BY <2>1 DEF UsbInv, NoCallback
  <2> QED
    BY <2>1, <2>3, <2>4 DEF UsbInv, PipesArmed
<1>8. CASE BtUp
  <2>1. driver' = "up" /\ UNCHANGED <<callback, cuts>>
    BY <1>8 DEF BtUp
  <2>2. CASE transfer' = [p \in Pipes |-> TRUE] /\ UNCHANGED deaf
    BY <2>1, <2>2 DEF UsbInv, PipesArmed
  <2>3. ASSUME NEW refused \in {Pipes, {"acl"}},
               deaf' = [p \in Pipes |-> p \in refused],
               transfer' = [p \in Pipes |-> p \notin refused]
        PROVE  UsbInv'
    <3>1. deaf' \in [Pipes -> BOOLEAN] /\ transfer' \in [Pipes -> BOOLEAN]
      BY <2>3
    <3>2. \A q \in Pipes : deaf'[q] \/ transfer'[q]
      BY <2>3
    <3> QED
      BY <2>1, <3>1, <3>2 DEF UsbInv, PipesArmed
  <2> QED
    BY <1>8, <2>2, <2>3 DEF BtUp
<1>9. CASE CloseCancel
  BY <1>9 DEF CloseCancel, UsbInv, PipesArmed
<1>10. CASE Open \/ CloseUnregister
  BY <1>10 DEF Open, CloseUnregister, UsbInv, PipesArmed, usbVars
<1>11. CASE TakeMessage \/ HandleMessage \/ UNCHANGED vars
  BY <1>2, <1>11 DEF TakeMessage, HandleMessage, vars
<1> QED
  BY <1>1, <1>3, <1>4, <1>5, <1>6, <1>7, <1>8, <1>9, <1>10, <1>11 DEF Step

----------------------------------------------------------------------------
\* The port and what the controller holds

\* What each step does to what is on its way to the thread of the port.
LEMMA MessageType ==
    ASSUME NEW g, NEW m \in Message(g)
    PROVE  /\ m.pipe = "acl" => m.data \in Seq(Unit(g))
           /\ m.pipe = "event" => m.data \in Seq(Event)
           /\ m.pipe \in Pipes
BY DEF Message, Pipes

\* Completed() with one message of k units or events.
LEMMA CompletedMessage ==
    ASSUME QueueInv, NEW p \in Pipes, Completed(p)
    PROVE  \E m \in Message(Peak) :
              /\ port' = Append(port, m) /\ Len(port) < PortDepth
              /\ source'.acl \in Seq(Unit(Peak)) /\ source'.event \in Seq(Event)
              /\ source.acl = AclData(m) \o source'.acl
              /\ DOMAIN source' = Pipes
              /\ source[p] # <<>>
              /\ UNCHANGED <<plan, rx, driver, device>>
<1>1. /\ Len(port) < PortDepth /\ source[p] # <<>>
      /\ UNCHANGED <<plan, rx, driver, device>>
  BY DEF Completed, CanComplete
<1>2. PICK k \in 0 .. Len(source[p]), cut \in BOOLEAN :
        /\ PostTransportPacket(p, k, cut)
        /\ \/ source' = [source EXCEPT ![p] = SubSeq(source[p], k + 1, Len(source[p]))]
           \/ TearsEvent(p, k)
  BY DEF Completed, CutsHeader, Fits
<1> DEFINE s == source[p]
           first == SubSeq(s, 1, k)
           rest == SubSeq(s, k + 1, Len(s))
           m == [pipe |-> p, data |-> first, cut |-> cut]
<1>3. port' = Append(port, m)
  BY <1>2 DEF PostTransportPacket, Transferred
<1>4. ASSUME NEW S, s \in Seq(S)
      PROVE  first \in Seq(S) /\ rest \in Seq(S) /\ s = first \o rest
  <2>1. Len(s) \in Nat /\ k \in 0 .. Len(s) /\ \A i \in 1 .. Len(s) : s[i] \in S
    BY <1>4
  <2> HIDE DEF s
  <2>2. 1 \in 1 .. Len(s) + 1 /\ k \in 1 - 1 .. Len(s) /\ Len(s) \in k .. Len(s)
        /\ k \in Int /\ 1 \in Int /\ k + 1 \in Int /\ Len(s) \in Int
    BY <2>1
  <2>3. SubSeq(s, 1, k) \o SubSeq(s, k + 1, Len(s)) = SubSeq(s, 1, Len(s))
    BY <1>4, <2>2, ConcatAdjacentSubSeq
  <2>4. SubSeq(s, 1, Len(s)) = s
    BY <1>4
  <2>5. (\A i \in 1 .. k : s[i] \in S) /\ (\A i \in k + 1 .. Len(s) : s[i] \in S)
    BY <2>1
  <2>6. SubSeq(s, 1, k) \in Seq(S)
    BY <2>2, <2>5, SubSeqProperties
  <2>7. SubSeq(s, k + 1, Len(s)) \in Seq(S)
    BY <2>2, <2>5, SubSeqProperties
  <2> QED
    BY <2>3, <2>4, <2>6, <2>7
<1>5. DOMAIN source = Pipes /\ source.acl \in Seq(Unit(Peak)) /\ source.event \in Seq(Event)
  BY DEF QueueInv
<1>6. \E q : /\ source' = [source EXCEPT ![p] = q]
             /\ p = "acl" => q = rest
             /\ s \in Seq(Event) => q \in Seq(Event)
  <2>1. CASE source' = [source EXCEPT ![p] = rest]
    BY <1>4, <2>1
  <2>2. CASE TearsEvent(p, k)
    <3> DEFINE late == SubSeq(s, k + 2, Len(s))
    <3>1. PICK type \in {"CONN_COMPLETE", "DISCONNECTION_COMPLETE", "other"}, h \in Handles :
             source' = [source EXCEPT ![p] = <<[type |-> type, handle |-> h]>> \o late]
      BY <2>2 DEF TearsEvent
    <3>2. p = "event" /\ k < Len(s)
      BY <2>2 DEF TearsEvent
    <3>3. ASSUME s \in Seq(Event) PROVE late \in Seq(Event)
      <4>1. Len(s) \in Nat /\ k \in Nat /\ \A i \in 1 .. Len(s) : s[i] \in Event
        BY <3>3
      <4> HIDE DEF s
      <4>2. k + 2 \in Int /\ Len(s) \in Int /\ \A i \in k + 2 .. Len(s) : s[i] \in Event
        BY <4>1
      <4> QED
        BY <4>2, SubSeqProperties
    <3>4. <<[type |-> type, handle |-> h]>> \in Seq(Event)
      BY DEF Event
    <3> HIDE DEF late
    <3>5. s \in Seq(Event) => <<[type |-> type, handle |-> h]>> \o late \in Seq(Event)
      BY <3>3, <3>4
    <3> QED
      BY <3>1, <3>2, <3>5
  <2> QED
    BY <1>2, <2>1, <2>2
<1>9. PICK q : /\ source' = [source EXCEPT ![p] = q]
               /\ p = "acl" => q = rest
               /\ s \in Seq(Event) => q \in Seq(Event)
  BY <1>6
<1>7. CASE p = "acl"
  <2>1. first \in Seq(Unit(Peak)) /\ rest \in Seq(Unit(Peak)) /\ s = first \o rest
    BY <1>4, <1>5, <1>7
  <2> HIDE DEF first, rest
  <2>2. source'.acl = rest /\ source'.event = source.event /\ DOMAIN source' = Pipes
    BY <1>5, <1>7, <1>9 DEF Pipes
  <2>3. m \in Message(Peak) /\ AclData(m) = first
    BY <1>7, <2>1 DEF Message, AclData
  <2>4. source.acl = AclData(m) \o source'.acl
    BY <1>7, <2>1, <2>2, <2>3
  <2> HIDE DEF m
  <2> QED
    BY <1>1, <1>3, <1>5, <2>1, <2>2, <2>3, <2>4
<1>8. CASE p = "event"
  <2>1. first \in Seq(Event) /\ q \in Seq(Event)
    BY <1>4, <1>5, <1>8, <1>9
  <2> HIDE DEF first, rest
  <2>2. source'.event = q /\ source'.acl = source.acl /\ DOMAIN source' = Pipes
    BY <1>5, <1>8, <1>9 DEF Pipes
  <2>3. m \in Message(Peak) /\ AclData(m) = <<>>
    BY <1>8, <2>1 DEF Message, AclData
  <2>4. source.acl = AclData(m) \o source'.acl
    <3> DEFINE c == source.acl
    <3>1. c \in Seq(Unit(Peak))
      BY <1>5
    <3> HIDE DEF c
    <3>2. <<>> \o c = c
      BY <3>1, ConcatEmptySeq
    <3> QED
      BY <2>2, <2>3, <3>2 DEF c
  <2> HIDE DEF m
  <2> QED
    BY <1>1, <1>3, <1>5, <2>1, <2>2, <2>3, <2>4
<1> QED
  BY <1>7, <1>8 DEF Pipes

LEMMA Announced ==
    ASSUME QueueInv, NEW h \in Handles, LinkUp(h) \/ LinkFails(h) \/ LinkDown(h)
    PROVE  /\ driver = "up"
           /\ source'.acl = source.acl /\ source'.event \in Seq(Event) /\ DOMAIN source' = Pipes
           /\ UNCHANGED <<plan, port, rx, driver, device, conns, delivered>>
<1>1. /\ driver = "up" /\ UNCHANGED <<plan, port, rx, driver, device, conns, delivered>>
      /\ Announce(h, "CONN_COMPLETE") \/ Announce(h, "DISCONNECTION_COMPLETE")
  BY DEF LinkUp, LinkFails, LinkDown, rxVars
<1>2. PICK type \in {"CONN_COMPLETE", "DISCONNECTION_COMPLETE"} : Announce(h, type)
  BY <1>1
<1> DEFINE e == Append(source.event, [type |-> type, handle |-> h])
<1>3. DOMAIN source = Pipes /\ source.event \in Seq(Event)
  BY DEF QueueInv
<1>4. e \in Seq(Event)
  <2>1. [type |-> type, handle |-> h] \in Event
    BY DEF Event
  <2> QED
    BY <1>3, <2>1
<1>5. source' = [source EXCEPT !.event = e]
  BY <1>2 DEF Announce
<1> HIDE DEF e
<1>6. source'.acl = source.acl /\ source'.event = e /\ DOMAIN source' = Pipes
  BY <1>3, <1>5 DEF Pipes
<1> QED
  BY <1>1, <1>4, <1>6

LEMMA FrameSent ==
    ASSUME SendInv, QueueInv, NEW s \in Senders, SendFrame(s)
    PROVE  /\ driver = "up" /\ UNCHANGED <<plan, port, rx, driver, device, conns, delivered>>
           /\ DOMAIN source' = Pipes /\ source'.event = source.event
           /\ \/ source'.acl = source.acl
              \/ \E frame \in RealFrame(Peak) : source'.acl = source.acl \o Units(frame)
<1> DEFINE l == link[plan[s].link]
           frame == [packet |-> Packet(s), part |-> sender[s].sent + 1, gen |-> l.gen]
           a == source.acl \o Units(frame)
<1>1. /\ driver = "up" /\ Busy(s) /\ UNCHANGED <<plan, port, rx, driver, device, conns, delivered>>
      /\ source' = [source EXCEPT !.acl = a] \/ source' = source
  BY DEF SendFrame, rxVars
<1>2. l.gen \in 0 .. Peak
  <2>1. plan[s].link \in Handles
    BY LinkAssumption DEF SendInv
  <2> QED
    BY <2>1 DEF SendInv
<1>3. frame \in RealFrame(Peak)
  BY <1>1, <1>2, SentIsReal
<1>4. DOMAIN source = Pipes
  BY DEF QueueInv
<1> HIDE DEF a, frame
<1>5. CASE source' = source
  BY <1>1, <1>4, <1>5
<1>6. CASE source' = [source EXCEPT !.acl = a]
  <2>1. source'.acl = a /\ source'.event = source.event /\ DOMAIN source' = Pipes
    BY <1>4, <1>6 DEF Pipes
  <2> QED
    BY <1>1, <1>3, <2>1 DEF a
<1> QED
  BY <1>1, <1>5, <1>6

\* A message taken or posted keeps the port within its depth, and before the
\* device is opened nothing is on its way.
LEMMA QueueStep ==
    ASSUME SendInv, QueueInv, UsbInv, [Next]_vars
    PROVE  QueueInv'
<1>1. plan' = plan /\ Peak' = Peak
  BY PlanKept DEF Peak
<1>2. Step
  BY Steps
<1>3. CASE UNCHANGED <<source, port, rx, driver>>
  BY <1>1, <1>3 DEF QueueInv
<1>4. ASSUME NEW s \in Senders, PostACL(s) PROVE QueueInv'
  BY <1>3, <1>4 DEF PostACL, rxVars
<1>5. ASSUME NEW s \in Senders, SendFrame(s) PROVE QueueInv'
  <2>1. /\ driver' = "up" /\ UNCHANGED <<port, rx>>
        /\ DOMAIN source' = Pipes /\ source'.event = source.event
        /\ \/ source'.acl = source.acl
           \/ \E frame \in RealFrame(Peak) : source'.acl = source.acl \o Units(frame)
    BY <1>5, FrameSent
  <2>2. source'.acl \in Seq(Unit(Peak))
    <3>1. source.acl \in Seq(Unit(Peak))
      BY DEF QueueInv
    <3>2. ASSUME NEW frame \in RealFrame(Peak) PROVE Units(frame) \in Seq(Unit(Peak))
      <4> DEFINE w == <<>>
      <4>1. w \in Seq(Unit(Peak)) /\ Stream(w)
        BY DEF Stream
      <4> HIDE DEF w
      <4> QED
        BY <4>1, StreamGrows
    <3>3. ASSUME NEW c \in Seq(Unit(Peak)), NEW e \in Seq(Unit(Peak)) PROVE c \o e \in Seq(Unit(Peak))
      BY ConcatProperties
    <3> QED
      BY <2>1, <3>1, <3>2, <3>3
  <2> QED
    BY <1>1, <2>1, <2>2 DEF QueueInv
<1>6. ASSUME NEW h \in Handles, LinkUp(h) \/ LinkFails(h) \/ LinkDown(h) PROVE QueueInv'
  <2>1. /\ driver' = "up" /\ UNCHANGED <<port, rx>>
        /\ source'.acl = source.acl /\ source'.event \in Seq(Event) /\ DOMAIN source' = Pipes
    BY <1>6, Announced
  <2> QED
    BY <1>1, <2>1 DEF QueueInv
<1>7. ASSUME NEW p \in Pipes, Completed(p) PROVE QueueInv'
  <2>1. PICK m \in Message(Peak) :
          /\ port' = Append(port, m) /\ Len(port) < PortDepth
          /\ source'.acl \in Seq(Unit(Peak)) /\ source'.event \in Seq(Event)
          /\ DOMAIN source' = Pipes /\ source[p] # <<>>
          /\ UNCHANGED <<rx, driver>>
    BY <1>7, CompletedMessage
  <2>2. port' \in Seq(Message(Peak)) /\ Len(port') = Len(port) + 1 /\ Len(port) \in Nat
    BY <2>1, Appended DEF QueueInv
  <2>3. driver # "closed"
    BY <2>1 DEF QueueInv, Pipes
  <2>4. Len(port') <= PortDepth
    BY <2>1, <2>2, SizeAssumption
  <2> QED
    BY <1>1, <2>1, <2>2, <2>3, <2>4 DEF QueueInv
<1>8. ASSUME NEW p \in Pipes, Failed(p) PROVE QueueInv'
  BY <1>3, <1>8 DEF Failed, rxVars
<1>9. CASE Resubmit
  BY <1>3, <1>9 DEF Resubmit, rxVars
<1>10. CASE Open
  BY <1>1, <1>10 DEF Open, QueueInv
<1>11. CASE BtUp
  BY <1>1, <1>11 DEF BtUp, QueueInv, rxVars
<1>12. CASE CloseCancel \/ CloseUnregister
  BY <1>1, <1>12 DEF CloseCancel, CloseUnregister, QueueInv, rxVars
<1>13. CASE TakeMessage
  <2>1. /\ rx.state = "waiting" /\ port # <<>> /\ port' = Tail(port)
        /\ UNCHANGED <<source, driver>>
        /\ \/ rx' = [state |-> "assembling", message |-> Head(port)]
           \/ rx' = [state |-> "ended", message |-> NoMessage]
    BY <1>13 DEF TakeMessage
  <2>2. /\ Head(port) \in Message(Peak) /\ Tail(port) \in Seq(Message(Peak))
        /\ Len(Tail(port)) = Len(port) - 1 /\ Len(port) \in Nat
    BY <2>1, HeadTailProperties DEF QueueInv
  <2>3. NoMessage \in Message(Peak)
    BY DEF NoMessage, Message
  <2>4. Len(port') <= PortDepth
    BY <2>1, <2>2, SizeAssumption DEF QueueInv
  <2>5. driver # "closed"
    BY <2>1 DEF QueueInv
  <2>6. rx' \in [state : {"waiting", "assembling", "ended", "astray"}, message : Message(Peak)]
        /\ (rx'.state # "assembling" => rx'.message = NoMessage)
    BY <2>1, <2>2, <2>3
  <2> QED
    BY <1>1, <2>1, <2>2, <2>4, <2>5, <2>6 DEF QueueInv
<1>14. CASE HandleMessage
  <2>1. /\ rx.state = "assembling" /\ UNCHANGED <<source, driver, port>>
        /\ \/ rx' = [state |-> "waiting", message |-> NoMessage]
           \/ rx' = [state |-> "ended", message |-> NoMessage]
           \/ rx' = [state |-> "astray", message |-> NoMessage]
    BY <1>14 DEF HandleMessage
  <2>2. NoMessage \in Message(Peak)
    BY DEF NoMessage, Message
  <2>3. rx' \in [state : {"waiting", "assembling", "ended", "astray"}, message : Message(Peak)]
        /\ rx'.message = NoMessage
    BY <2>1, <2>2
  <2>4. driver # "closed"
    BY <2>1 DEF QueueInv
  <2> QED
    BY <1>1, <2>1, <2>3, <2>4 DEF QueueInv
<1>15. CASE UNCHANGED vars
  BY <1>3, <1>15 DEF vars, rxVars
<1> QED
  BY <1>2, <1>4, <1>5, <1>6, <1>7, <1>8, <1>9, <1>10, <1>11, <1>12, <1>13, <1>14, <1>15 DEF Step

----------------------------------------------------------------------------
\* The stream

LEMMA NothingBehind ==
    ASSUME NEW g
    PROVE  \E t : Behind(g, t, <<>>, <<>>) /\ t[0] = <<>>
<1> DEFINE t == [k \in 0 .. 0 |-> <<>>]
<1>1. t \in [0 .. Len(<<>>) -> Seq(Unit(g))] /\ t[Len(<<>>)] = <<>>
  OBVIOUS
<1>2. \A k \in 1 .. Len(<<>>) : FALSE
  OBVIOUS
<1> HIDE DEF t
<1>3. Behind(g, t, <<>>, <<>>)
  BY <1>1, <1>2 DEF Behind
<1>4. t[0] = <<>>
  BY DEF t
<1> QED
  BY <1>3, <1>4

Join(a, b) == a \o b

\* More in the controller is more behind every message.
LEMMA BehindGrows ==
    ASSUME NEW g, NEW msgs \in Seq(Message(g)), NEW last \in Seq(Unit(g)), NEW more \in Seq(Unit(g)),
           NEW t, Behind(g, t, msgs, last)
    PROVE  \E e : Behind(g, e, msgs, Join(last, more)) /\ e[0] = Join(t[0], more)
<1> DEFINE n == Len(msgs)
           e == [k \in 0 .. n |-> t[k] \o more]
<1>1. n \in Nat /\ \A k \in 0 .. n : t[k] \in Seq(Unit(g))
  BY SMTT(20) DEF Behind
<1>2. \A k \in 1 .. n : AclData(msgs[k]) \in Seq(Unit(g))
  <2> SUFFICES ASSUME NEW k \in 1 .. n PROVE AclData(msgs[k]) \in Seq(Unit(g))
    OBVIOUS
  <2>1. msgs[k] \in Message(g) /\ <<>> \in Seq(Unit(g))
    OBVIOUS
  <2> QED
    BY <2>1, MessageType DEF AclData
<1>3. \A k \in 0 .. n : e[k] = t[k] \o more /\ e[k] \in Seq(Unit(g))
  BY <1>1, ConcatProperties
<1>4. e \in [0 .. n -> Seq(Unit(g))]
  BY <1>1, <1>3
<1> HIDE DEF e
<1>5. ASSUME NEW k \in 1 .. n PROVE e[k - 1] = AclData(msgs[k]) \o e[k]
  <2>1. k \in 0 .. n /\ k - 1 \in 0 .. n
    BY <1>1
  <2>2. e[k] = t[k] \o more /\ e[k - 1] = t[k - 1] \o more /\ t[k] \in Seq(Unit(g))
    BY <1>1, <1>3, <2>1
  <2> DEFINE x == AclData(msgs[k])
             y == t[k]
  <2>3. t[k - 1] = x \o y
    <3> HIDE DEF e
    <3>1. \A i \in 1 .. Len(msgs) : t[i - 1] = AclData(msgs[i]) \o t[i]
      BY Zenon DEF Behind
    <3> QED
      BY <3>1, Zenon DEF x, y
  <2>4. x \in Seq(Unit(g)) /\ y \in Seq(Unit(g))
    BY <1>2, <2>2
  <2> HIDE DEF x, y
  <2>5. (x \o y) \o more = x \o (y \o more)
    BY <2>4, ConcatAssociative
  <2> QED
    BY <2>2, <2>3, <2>5 DEF x, y
<1>6. e[n] = last \o more /\ e[0] = t[0] \o more
  <2>1. n \in 0 .. n /\ 0 \in 0 .. n /\ t[n] = last
    BY <1>1 DEF Behind
  <2> QED
    BY <1>3, <2>1
<1>7. Behind(g, e, msgs, last \o more)
  BY <1>4, <1>5, <1>6 DEF Behind, n
<1>8. Behind(g, e, msgs, Join(last, more)) /\ e[0] = Join(t[0], more)
  BY <1>6, <1>7 DEF Join
<1> QED
  BY <1>8

\* What a transfer carries moves from the controller to the port.
LEMMA BehindPosted ==
    ASSUME NEW g, NEW msgs \in Seq(Message(g)), NEW m \in Message(g), NEW last \in Seq(Unit(g)),
           NEW t, Behind(g, t, msgs, AclData(m) \o last)
    PROVE  \E e : Behind(g, e, Append(msgs, m), last) /\ e[0] = t[0]
<1> DEFINE n == Len(msgs)
           a == Append(msgs, m)
           e == [k \in 0 .. n + 1 |-> IF k = n + 1 THEN last ELSE t[k]]
<1>1. /\ n \in Nat /\ \A k \in 0 .. n : t[k] \in Seq(Unit(g))
      /\ t[n] = AclData(m) \o last
      /\ \A k \in 1 .. n : t[k - 1] = AclData(msgs[k]) \o t[k]
  <2> DEFINE l == AclData(m) \o last
  <2>1. Behind(g, t, msgs, l)
    OBVIOUS
  <2> HIDE DEF l, e
  <2>2. /\ t[Len(msgs)] = l
        /\ \A k \in 0 .. Len(msgs) : t[k] \in Seq(Unit(g))
        /\ \A k \in 1 .. Len(msgs) : t[k - 1] = AclData(msgs[k]) \o t[k]
    BY <2>1, Zenon DEF Behind
  <2>3. Len(msgs) \in Nat
    OBVIOUS
  <2> QED
    BY <2>2, <2>3, Zenon DEF l
<1>2. Len(a) = n + 1 /\ (\A k \in 1 .. n : a[k] = msgs[k]) /\ a[n + 1] = m
  BY Appended
<1> HIDE DEF a, n
<1>3. e[n + 1] = last /\ \A k \in 0 .. n : e[k] = t[k]
  BY <1>1
<1>4. e \in [0 .. n + 1 -> Seq(Unit(g))]
  BY <1>1
<1> HIDE DEF e
<1>5. ASSUME NEW k \in 1 .. n + 1 PROVE e[k - 1] = AclData(a[k]) \o e[k]
  <2>1. CASE k = n + 1
    <3>1. k - 1 = n /\ n \in 0 .. n
      BY <1>1, <2>1
    <3> QED
      BY <1>1, <1>2, <1>3, <2>1, <3>1
  <2>2. CASE k # n + 1
    <3>1. k \in 1 .. n /\ k \in 0 .. n /\ k - 1 \in 0 .. n
      BY <1>1, <2>2
    <3> QED
      BY <1>1, <1>2, <1>3, <3>1
  <2> QED
    BY <2>1, <2>2
<1>6. Behind(g, e, a, last)
  BY <1>2, <1>3, <1>4, <1>5 DEF Behind
<1>7. e[0] = t[0]
  BY <1>1, <1>3
<1> QED
  BY <1>6, <1>7 DEF a

\* The thread takes the first message.
LEMMA BehindTaken ==
    ASSUME NEW g, NEW msgs \in Seq(Message(g)), msgs # <<>>, NEW last \in Seq(Unit(g)),
           NEW t, Behind(g, t, msgs, last)
    PROVE  \E e : Behind(g, e, Tail(msgs), last) /\ t[0] = Join(AclData(Head(msgs)), e[0])
<1> DEFINE n == Len(msgs)
           q == Tail(msgs)
           e == [k \in 0 .. n - 1 |-> t[k + 1]]
<1>1. /\ n \in Nat /\ \A k \in 0 .. n : t[k] \in Seq(Unit(g))
      /\ t[n] = last
      /\ \A k \in 1 .. n : t[k - 1] = AclData(msgs[k]) \o t[k]
  <2> HIDE DEF e
  <2>1. /\ t[Len(msgs)] = last
        /\ \A k \in 0 .. Len(msgs) : t[k] \in Seq(Unit(g))
        /\ \A k \in 1 .. Len(msgs) : t[k - 1] = AclData(msgs[k]) \o t[k]
    BY Zenon DEF Behind
  <2>2. Len(msgs) \in Nat
    OBVIOUS
  <2> QED
    BY <2>1, <2>2, Zenon
<1>2. n >= 1 /\ Len(q) = n - 1 /\ (\A k \in 1 .. n - 1 : q[k] = msgs[k + 1]) /\ Head(msgs) = msgs[1]
  BY HeadTailProperties
<1> HIDE DEF q, n
<1>3. \A k \in 0 .. n - 1 : e[k] = t[k + 1] /\ k + 1 \in 0 .. n
  BY <1>1, <1>2
<1>4. e \in [0 .. n - 1 -> Seq(Unit(g))]
  BY <1>1, <1>3
<1> HIDE DEF e
<1>5. ASSUME NEW k \in 1 .. n - 1 PROVE e[k - 1] = AclData(q[k]) \o e[k]
  <2>1. k \in 0 .. n - 1 /\ k - 1 \in 0 .. n - 1 /\ (k - 1) + 1 = k
        /\ k + 1 \in 1 .. n /\ (k + 1) - 1 = k
    BY <1>1, <1>2
  <2>2. e[k - 1] = t[k] /\ e[k] = t[k + 1]
    BY <1>3, <2>1
  <2>3. t[(k + 1) - 1] = AclData(msgs[k + 1]) \o t[k + 1]
    BY <1>1, <2>1
  <2> QED
    BY <1>2, <2>1, <2>2, <2>3
<1>6. e[n - 1] = last
  <2>1. n - 1 \in 0 .. n - 1 /\ (n - 1) + 1 = n
    BY <1>1, <1>2
  <2> QED
    BY <1>1, <1>3, <2>1
<1>7. Behind(g, e, q, last)
  BY <1>2, <1>4, <1>5, <1>6 DEF Behind
<1>8. t[0] = AclData(Head(msgs)) \o e[0]
  <2>1. 0 \in 0 .. n - 1 /\ 1 \in 1 .. n /\ 0 + 1 = 1 /\ 1 - 1 = 0
    BY <1>1, <1>2
  <2>2. e[0] = t[1]
    BY <1>3, <2>1
  <2>3. t[1 - 1] = AclData(msgs[1]) \o t[1]
    BY <1>1, <2>1
  <2> QED
    BY <1>2, <2>1, <2>2, <2>3
<1>9. Behind(g, e, Tail(msgs), last) /\ t[0] = Join(AclData(Head(msgs)), e[0])
  BY <1>7, <1>8 DEF q, Join
<1> QED
  BY <1>9

----------------------------------------------------------------------------
\* A message in hand

LEMMA DeskIsTyped ==
    ASSUME DeskInv
    PROVE  TheDesk \in Desk(Peak) /\ TheDesk.buffer = device.buffer /\ TheDesk.expected = device.expected
BY DEF DeskInv, TheDesk, Desk

LEMMA MessageAssembled ==
    ASSUME SendInv, QueueInv, DeskInv, StreamInv, HandleMessage, device.registered
    PROVE  DeskInv' /\ StreamInv'
<1> DEFINE m == rx.message
           d == TheDesk
           y == Assemble(m)
           n == Len(m.data)
<1>1. plan' = plan /\ Peak' = Peak /\ plan \in Plans
  BY DEF HandleMessage, Peak, SendInv
<1>2. /\ rx' = [state |-> IF m.cut THEN "ended" ELSE "waiting", message |-> NoMessage]
      /\ device' = [device EXCEPT !.buffer = y.buffer, !.expected = y.expected]
      /\ conns' = y.conns /\ delivered' = y.delivered
      /\ UNCHANGED <<port, source>>
  BY DEF HandleMessage
<1>3. m \in Message(Peak) /\ m.pipe \in Pipes
  BY MessageType DEF QueueInv
<1>4. n \in Nat
  BY <1>3 DEF Message
<1>5. d \in Desk(Peak) /\ d.buffer = device.buffer /\ d.expected = device.expected
      /\ GoodDesk(d) /\ Cut(d.buffer, d.expected)
  BY DeskIsTyped DEF DeskInv
<1>6. PICK f : IsAfter(f, d, m.pipe, m.data, n) /\ y = f[n]
  BY <1>4, AssembleIsLast DEF TheDesk
<1>7. PICK t : /\ Behind(Peak, t, port, source.acl)
               /\ Stream(device.buffer \o (AclData(m) \o t[0]))
  BY DEF StreamInv
<1>8. t[0] \in Seq(Unit(Peak))
  <2>1. Len(port) \in Nat
    BY DEF QueueInv
  <2>2. 0 \in 0 .. Len(port)
    BY <2>1
  <2>3. t \in [0 .. Len(port) -> Seq(Unit(Peak))]
    BY <1>7, Zenon DEF Behind
  <2> QED
    BY <2>2, <2>3
<1> DEFINE r == t[0]
<1> HIDE DEF d, y, n, m, r
<1>9. /\ y \in Desk(Peak) /\ GoodDesk(y) /\ Cut(y.buffer, y.expected)
      /\ Stream(y.buffer \o r)
  <2>1. CASE m.pipe = "acl"
    <3> DEFINE c == m.data
    <3>1. c \in Seq(Unit(Peak)) /\ AclData(m) = c /\ r \in Seq(Unit(Peak))
      BY <1>3, <1>8, <2>1, MessageType DEF AclData, r
    <3>2. IsAfter(f, d, "acl", c, Len(c)) /\ n = Len(c)
      BY <1>6, <2>1 DEF n
    <3>3. Stream(d.buffer \o (c \o r))
      BY <1>5, <1>7, <3>1 DEF m, r
    <3> HIDE DEF c
    <3>4. LET z == f[Len(c)]
          IN  /\ z \in Desk(Peak) /\ GoodDesk(z) /\ Cut(z.buffer, z.expected)
              /\ Stream(z.buffer \o r)
      BY <1>1, <1>5, <3>1, <3>2, <3>3, AclDataAssembled
    <3> QED
      BY <1>6, <3>2, <3>4
  <2>2. CASE m.pipe = "event"
    <3> DEFINE c == m.data
    <3>1. c \in Seq(Event) /\ AclData(m) = <<>>
      BY <1>3, <2>2, MessageType DEF AclData
    <3>2. IsAfter(f, d, "event", c, Len(c)) /\ n = Len(c)
      BY <1>6, <2>2 DEF n
    <3> HIDE DEF c
    <3>3. LET z == f[Len(c)]
          IN  z \in Desk(Peak) /\ GoodDesk(z) /\ z.buffer = d.buffer /\ z.expected = d.expected
      BY <1>5, <3>1, <3>2, EventsPosted
    <3>4. y = f[Len(c)]
      BY <1>6, <3>2
    <3>5. y \in Desk(Peak) /\ GoodDesk(y) /\ y.buffer = d.buffer /\ y.expected = d.expected
      BY <3>3, <3>4
    <3>6. <<>> \o r = r
      BY <1>8, ConcatEmptySeq DEF r
    <3>7. Stream(d.buffer \o r)
      BY <1>5, <1>7, <3>1, <3>6 DEF m, r
    <3> QED
      BY <1>5, <3>5, <3>7
  <2> QED
    BY <1>3, <2>1, <2>2 DEF Pipes
<1>10. device \in [registered : BOOLEAN, buffer : Seq(Unit(Peak)), expected : Nat]
  BY DEF DeskInv
<1>11. /\ y.buffer \in Seq(Unit(Peak)) /\ y.expected \in Nat /\ y.conns \in [Handles -> Conn(Peak)]
       /\ y.delivered \in [Handles -> Seq(Seq(RealFrame(Peak)))]
       /\ y = [buffer |-> y.buffer, expected |-> y.expected, conns |-> y.conns, delivered |-> y.delivered]
  BY <1>9 DEF Desk
<1>12. /\ device' \in [registered : BOOLEAN, buffer : Seq(Unit(Peak)), expected : Nat]
       /\ device'.buffer = y.buffer /\ device'.expected = y.expected
  BY <1>2, <1>10, <1>11
<1>13. TheDesk' = y
  BY <1>2, <1>11, <1>12 DEF TheDesk
<1>14. DeskInv'
  BY <1>1, <1>2, <1>9, <1>11, <1>12, <1>13 DEF DeskInv
<1>15. StreamInv'
  <2>1. AclData(rx'.message) = <<>>
    BY <1>2 DEF AclData, NoMessage
  <2>2. <<>> \o r = r
    BY <1>8, ConcatEmptySeq DEF r
  <2>3. Stream(device'.buffer \o (AclData(rx'.message) \o r))
    BY <1>9, <1>12, <2>1, <2>2
  <2>4. Behind(Peak', t, port', source'.acl)
    BY <1>1, <1>2, <1>7
  <2> QED
    BY <2>3, <2>4 DEF StreamInv, r
<1> QED
  BY <1>14, <1>15

LEMMA DeskStep ==
    ASSUME Inv, [Next]_vars
    PROVE  DeskInv'
<1>1. plan' = plan /\ Peak' = Peak
  BY PlanKept DEF Peak
<1>2. Step
  BY Steps
<1>3. CASE UNCHANGED <<device, conns, delivered>>
  <2>1. TheDesk' = TheDesk
    BY <1>3 DEF TheDesk
  <2> QED
    BY <1>1, <1>3, <2>1 DEF DeskInv, Inv
<1>4. ASSUME NEW s \in Senders, PostACL(s) \/ SendFrame(s) PROVE DeskInv'
  BY <1>3, <1>4 DEF PostACL, SendFrame, rxVars
<1>5. ASSUME NEW h \in Handles, LinkUp(h) \/ LinkFails(h) \/ LinkDown(h) PROVE DeskInv'
  BY <1>3, <1>5 DEF LinkUp, LinkFails, LinkDown, rxVars
<1>6. ASSUME NEW p \in Pipes, Completed(p) \/ Failed(p) PROVE DeskInv'
  BY <1>3, <1>6 DEF Completed, Failed, rxVars
<1>7. CASE Resubmit \/ BtUp \/ CloseCancel \/ TakeMessage \/ UNCHANGED vars
  BY <1>3, <1>7 DEF Resubmit, BtUp, CloseCancel, TakeMessage, rxVars, vars
<1>8. CASE Open \/ CloseUnregister
  <2>1. /\ UNCHANGED <<conns, delivered>>
        /\ \/ device' = [registered |-> TRUE, buffer |-> <<>>, expected |-> 0]
           \/ device' = [registered |-> FALSE, buffer |-> <<>>, expected |-> 0]
    <3>1. CASE Open
      BY <3>1 DEF Open, NoDevice
    <3>2. CASE CloseUnregister
      BY <3>2 DEF CloseUnregister, NoDevice
    <3> QED
      BY <1>8, <3>1, <3>2
  <2>2. <<>> \in Seq(Unit(Peak))
    OBVIOUS
  <2>3. device' \in [registered : BOOLEAN, buffer : Seq(Unit(Peak)), expected : Nat]
        /\ device'.buffer = <<>>
    <3>1. CASE device' = [registered |-> TRUE, buffer |-> <<>>, expected |-> 0]
      BY <2>2, <3>1
    <3>2. CASE device' = [registered |-> FALSE, buffer |-> <<>>, expected |-> 0]
      BY <2>2, <3>2
    <3> QED
      BY <2>1, <3>1, <3>2
  <2>4. GoodDesk(TheDesk')
    BY <2>1 DEF Inv, DeskInv, GoodDesk, TheDesk
  <2>5. Cut(device'.buffer, device'.expected)
    BY <2>3 DEF Cut
  <2> QED
    BY <1>1, <2>1, <2>3, <2>4, <2>5 DEF DeskInv, Inv
<1>9. CASE HandleMessage
  <2>1. CASE device.registered
    BY <1>9, <2>1, MessageAssembled DEF Inv
  <2>2. CASE ~device.registered
    BY <1>3, <1>9, <2>2 DEF HandleMessage
  <2> QED
    BY <2>1, <2>2
<1> QED
  BY <1>2, <1>4, <1>5, <1>6, <1>7, <1>8, <1>9 DEF Step

LEMMA StreamStep ==
    ASSUME Inv, [Next]_vars
    PROVE  StreamInv'
<1>1. plan' = plan /\ Peak' = Peak
  BY PlanKept DEF Peak
<1>2. Step
  BY Steps
<1>3. /\ port \in Seq(Message(Peak)) /\ Len(port) \in Nat /\ source.acl \in Seq(Unit(Peak))
      /\ device.buffer \in Seq(Unit(Peak)) /\ AclData(rx.message) \in Seq(Unit(Peak))
  <2>1. rx.message \in Message(Peak) /\ <<>> \in Seq(Unit(Peak))
    BY DEF Inv, QueueInv
  <2>2. AclData(rx.message) \in Seq(Unit(Peak))
    BY <2>1, MessageType DEF AclData
  <2> QED
    BY <2>2 DEF Inv, QueueInv, DeskInv
<1>4. CASE UNCHANGED <<device, port, rx>> /\ source'.acl = source.acl
  BY <1>1, <1>4 DEF StreamInv, Inv
<1>5. ASSUME NEW s \in Senders, PostACL(s) PROVE StreamInv'
  BY <1>4, <1>5 DEF PostACL, rxVars
<1>6. ASSUME NEW s \in Senders, SendFrame(s) PROVE StreamInv'
  <2>1. /\ UNCHANGED <<device, port, rx>>
        /\ \/ source'.acl = source.acl
           \/ \E frame \in RealFrame(Peak) : source'.acl = source.acl \o Units(frame)
    BY <1>6, FrameSent DEF Inv
  <2>2. ASSUME NEW frame \in RealFrame(Peak), source'.acl = source.acl \o Units(frame),
               device'.registered
        PROVE  StreamInv'
    <3> DEFINE u == Units(frame)
               b == device.buffer
               a == AclData(rx.message)
    <3>1. PICK t : Behind(Peak, t, port, source.acl) /\ Stream(b \o (a \o t[0]))
      BY <2>1, <2>2 DEF Inv, StreamInv
    <3>2. t[0] \in Seq(Unit(Peak))
      <4>1. t \in [0 .. Len(port) -> Seq(Unit(Peak))]
        BY <3>1, Zenon DEF Behind
      <4>2. 0 \in 0 .. Len(port)
        BY <1>3
      <4> QED
        BY <4>1, <4>2
    <3> DEFINE r == t[0]
               w == b \o (a \o r)
    <3>3. b \in Seq(Unit(Peak)) /\ a \in Seq(Unit(Peak)) /\ r \in Seq(Unit(Peak))
      BY <1>3, <3>2
    <3>4. Stream(w)
      BY <3>1
    <3> HIDE DEF b, a, r
    <3>5. a \o r \in Seq(Unit(Peak))
      BY <3>3, ConcatProperties
    <3>6. w \in Seq(Unit(Peak))
      BY <3>3, <3>5, ConcatProperties
    <3> HIDE DEF w
    <3>7. u \in Seq(Unit(Peak)) /\ Stream(w \o u)
      BY <3>4, <3>6, StreamGrows
    <3> HIDE DEF u
    <3>8. w \o u = b \o (a \o (r \o u))
      <4> DEFINE x == a \o r
      <4>1. (b \o x) \o u = b \o (x \o u)
        <5> HIDE DEF x
        <5>1. x \in Seq(Unit(Peak))
          BY <3>5 DEF x
        <5> QED
          BY <3>3, <3>7, <5>1, ConcatAssociative
      <4>2. (a \o r) \o u = a \o (r \o u)
        BY <3>3, <3>7, ConcatAssociative
      <4> QED
        BY <4>1, <4>2 DEF w
    <3> DEFINE l == source.acl
    <3>9. l \in Seq(Unit(Peak)) /\ Behind(Peak, t, port, l)
      BY <1>3, <3>1
    <3> HIDE DEF l
    <3>10. PICK e : Behind(Peak, e, port, Join(l, u)) /\ e[0] = Join(t[0], u)
      BY <1>3, <3>7, <3>9, BehindGrows
    <3>11. Stream(b \o (a \o e[0]))
      BY <3>7, <3>8, <3>10 DEF r, Join
    <3>12. Behind(Peak', e, port', source'.acl) /\ Stream(device'.buffer \o (AclData(rx'.message) \o e[0]))
      BY <1>1, <2>1, <2>2, <3>10, <3>11 DEF u, b, a, l, Join
    <3> QED
      BY <3>12 DEF StreamInv
  <2>3. CASE ~device'.registered
    BY <2>3 DEF StreamInv
  <2> QED
    BY <1>4, <2>1, <2>2, <2>3
<1>7. ASSUME NEW h \in Handles, LinkUp(h) \/ LinkFails(h) \/ LinkDown(h) PROVE StreamInv'
  <2>1. UNCHANGED <<device, port, rx>> /\ source'.acl = source.acl
    BY <1>7, Announced DEF Inv
  <2> QED
    BY <1>4, <2>1
<1>8. ASSUME NEW p \in Pipes, Completed(p) PROVE StreamInv'
  <2>1. PICK m \in Message(Peak) :
          /\ port' = Append(port, m)
          /\ source'.acl \in Seq(Unit(Peak))
          /\ source.acl = AclData(m) \o source'.acl
          /\ UNCHANGED <<rx, device>>
    BY <1>8, CompletedMessage DEF Inv
  <2>2. SUFFICES ASSUME device'.registered
        PROVE  \E e : /\ Behind(Peak', e, port', source'.acl)
                      /\ Stream(device'.buffer \o (AclData(rx'.message) \o e[0]))
    BY DEF StreamInv
  <2>3. PICK t : /\ Behind(Peak, t, port, source.acl)
                 /\ Stream(device.buffer \o (AclData(rx.message) \o t[0]))
    BY <2>1, <2>2 DEF Inv, StreamInv
  <2> DEFINE l == source'.acl
  <2>4. Behind(Peak, t, port, AclData(m) \o l) /\ l \in Seq(Unit(Peak))
    BY <2>1, <2>3
  <2> HIDE DEF l
  <2>5. PICK e : Behind(Peak, e, Append(port, m), l) /\ e[0] = t[0]
    BY <1>3, <2>4, BehindPosted
  <2> QED
    BY <1>1, <2>1, <2>3, <2>5 DEF l
<1>9. ASSUME NEW p \in Pipes, Failed(p) PROVE StreamInv'
  BY <1>4, <1>9 DEF Failed, rxVars
<1>10. CASE Resubmit \/ BtUp \/ CloseCancel \/ UNCHANGED vars
  BY <1>4, <1>10 DEF Resubmit, BtUp, CloseCancel, rxVars, vars
<1>11. CASE Open
  <2>1. /\ driver = "closed" /\ UNCHANGED <<source, port, rx>> /\ device'.buffer = <<>>
    BY <1>11 DEF Open, NoDevice
  <2>2. port = <<>> /\ source.acl = <<>> /\ rx.message = NoMessage
    BY <2>1 DEF Inv, QueueInv
  <2>3. AclData(rx.message) = <<>>
    BY <2>2 DEF AclData, NoMessage
  <2>4. PICK t : Behind(Peak, t, <<>>, <<>>) /\ t[0] = <<>>
    BY NothingBehind
  <2>5. Stream(<<>> \o (<<>> \o <<>>))
    BY DEF Stream
  <2>6. Stream(device'.buffer \o (AclData(rx'.message) \o t[0]))
    BY <2>1, <2>3, <2>4, <2>5
  <2>7. Behind(Peak', t, port', source'.acl)
    BY <1>1, <2>1, <2>2, <2>4
  <2> QED
    BY <2>6, <2>7 DEF StreamInv
<1>12. CASE CloseUnregister
  BY <1>12 DEF CloseUnregister, NoDevice, StreamInv
<1>13. CASE TakeMessage
  <2>1. /\ rx.state = "waiting" /\ port # <<>> /\ port' = Tail(port)
        /\ UNCHANGED <<source, device>>
        /\ device.registered => rx' = [state |-> "assembling", message |-> Head(port)]
    BY <1>13 DEF TakeMessage
  <2>2. SUFFICES ASSUME device.registered
        PROVE  \E e : /\ Behind(Peak', e, port', source'.acl)
                      /\ Stream(device'.buffer \o (AclData(rx'.message) \o e[0]))
    BY <2>1 DEF StreamInv
  <2>3. PICK t : /\ Behind(Peak, t, port, source.acl)
                 /\ Stream(device.buffer \o (AclData(rx.message) \o t[0]))
    BY <2>2 DEF Inv, StreamInv
  <2>4. AclData(rx.message) = <<>>
    BY <2>1 DEF Inv, QueueInv, AclData, NoMessage
  <2>5. t[0] \in Seq(Unit(Peak))
    <3>1. t \in [0 .. Len(port) -> Seq(Unit(Peak))]
      BY <2>3, Zenon DEF Behind
    <3>2. 0 \in 0 .. Len(port)
      BY <1>3
    <3> QED
      BY <3>1, <3>2
  <2>6. <<>> \o t[0] = t[0]
    BY <2>5, ConcatEmptySeq
  <2>7. PICK e : Behind(Peak, e, Tail(port), source.acl) /\ t[0] = Join(AclData(Head(port)), e[0])
    <3> DEFINE l == source.acl
    <3>1. l \in Seq(Unit(Peak)) /\ Behind(Peak, t, port, l)
      BY <1>3, <2>3
    <3> HIDE DEF l
    <3>2. \E e : Behind(Peak, e, Tail(port), l) /\ t[0] = Join(AclData(Head(port)), e[0])
      BY <1>3, <2>1, <3>1, BehindTaken
    <3> QED
      BY <3>2 DEF l
  <2>8. Stream(device.buffer \o (AclData(Head(port)) \o e[0]))
    BY <2>3, <2>4, <2>6, <2>7 DEF Join
  <2>9. rx'.message = Head(port)
    BY <2>1, <2>2
  <2> QED
    BY <1>1, <2>1, <2>7, <2>8, <2>9
<1>14. CASE HandleMessage
  <2>1. CASE device.registered
    BY <1>14, <2>1, MessageAssembled DEF Inv
  <2>2. CASE ~device.registered
    <3>1. device' = device
      BY <1>14, <2>2 DEF HandleMessage
    <3> QED
      BY <2>2, <3>1 DEF StreamInv
  <2> QED
    BY <2>1, <2>2
<1> QED
  BY <1>2, <1>5, <1>6, <1>7, <1>8, <1>9, <1>10, <1>11, <1>12, <1>13, <1>14 DEF Step

----------------------------------------------------------------------------
\* What follows

LEMMA Invariant == Spec => []Inv
<1>1. Init => Inv
  BY InitInv
<1>2. Inv /\ [Next]_vars => Inv'
  <2> SUFFICES ASSUME Inv, [Next]_vars PROVE Inv'
    OBVIOUS
  <2>1. SendInv'
    BY SendStep DEF Inv
  <2>2. UsbInv'
    BY UsbStep DEF Inv
  <2>3. QueueInv'
    BY QueueStep DEF Inv
  <2>4. DeskInv'
    BY DeskStep
  <2>5. StreamInv'
    BY StreamStep
  <2>6. CutsInv'
    BY CutsStep DEF Inv
  <2> QED
    BY <2>1, <2>2, <2>3, <2>4, <2>5, <2>6 DEF Inv
<1> QED
  BY <1>1, <1>2, PTL DEF Spec

LEMMA SetOfSeq ==
    ASSUME NEW S, NEW T, S \subseteq T, NEW s \in Seq(S)
    PROVE  ToSet(s) \subseteq T
BY DEF ToSet

LEMMA TypesHold == Inv => TypeOK
<1> SUFFICES ASSUME Inv PROVE TypeOK
  OBVIOUS
<1>1. RealFrame(Peak) \subseteq Frames
  BY DEF RealFrame, Frames, Peak
<1>2. /\ plan \in Plans
      /\ sender \in [Senders -> [n : Nat, sent : Nat]]
      /\ link \in [Handles -> [up : BOOLEAN, gen : 0 .. MaxGen[plan]]]
      /\ upsets \in 0 .. MaxUpsets
  BY DEF Inv, SendInv, Peak
<1>3. /\ transfer \in [Pipes -> BOOLEAN] /\ deaf \in [Pipes -> BOOLEAN]
      /\ callback.pipe \in Pipes \cup {"none"}
      /\ driver \in {"closed", "open", "up", "closing", "gone"} /\ cuts \in 0 .. MaxCuts[plan]
  BY DEF Inv, UsbInv, CutsInv
<1>4. /\ DOMAIN source = Pipes /\ Len(port) <= PortDepth
      /\ rx.state \in {"waiting", "assembling", "ended", "astray"}
  BY DEF Inv, QueueInv
<1>5. device.registered \in BOOLEAN /\ device.expected \in Nat
  BY DEF Inv, DeskInv
<1>6. ASSUME NEW h \in Handles
      PROVE  /\ conns[h].listed \in BOOLEAN /\ conns[h].expected \in Nat
             /\ ToSet(conns[h].current) \subseteq Frames
             /\ \A i \in DOMAIN delivered[h] : ToSet(delivered[h][i]) \subseteq Frames
  <2>1. conns[h] \in Conn(Peak) /\ delivered[h] \in Seq(Seq(RealFrame(Peak)))
    BY DEF Inv, DeskInv
  <2>2. /\ conns[h].listed \in BOOLEAN /\ conns[h].expected \in Nat
        /\ conns[h].current \in Seq(RealFrame(Peak))
    BY <2>1 DEF Conn
  <2>3. \A i \in DOMAIN delivered[h] : delivered[h][i] \in Seq(RealFrame(Peak))
    BY <2>1
  <2> QED
    BY <1>1, <2>2, <2>3, SetOfSeq
<1> QED
  BY <1>2, <1>3, <1>4, <1>5, <1>6 DEF TypeOK

LEMMA CutHolds == Inv => FramesAreCutRight
<1> SUFFICES ASSUME Inv, device.buffer # <<>> PROVE FramesAreCutRight
  BY DEF FramesAreCutRight
<1> DEFINE b == device.buffer
           frame == b[1].frame
           n == Len(b)
           u == Units(frame)
           a == Alen(frame)
<1>1. b \in Seq(Unit(Peak)) /\ n \in Nat /\ n >= 1 /\ b[1] \in Unit(Peak)
  BY DEF Inv, DeskInv
<1>2. /\ device.expected = a + 1 /\ n < device.expected
      /\ \A i \in 1 .. n : b[i] = [frame |-> frame, at |-> i - 1]
  BY DEF Inv, DeskInv, Cut
<1>3. a \in Nat
  BY <1>1, UnitType
<1>4. u = [i \in 1 .. a + 1 |-> [frame |-> frame, at |-> i - 1]]
  BY DEF Units
<1> HIDE DEF b, frame, n, u, a
<1>5. /\ \A i \in 1 .. n : u[i] = b[i] /\ b[i] \in Unit(Peak)
  BY <1>1, <1>2, <1>3, <1>4 DEF n
<1>6. /\ SubSeq(u, 1, n) \in Seq(Unit(Peak)) /\ Len(SubSeq(u, 1, n)) = n
      /\ \A i \in 1 .. n : SubSeq(u, 1, n)[i] = u[i]
  <2>1. \A i \in 1 .. n : u[i] \in Unit(Peak)
    BY <1>5
  <2>2. 1 \in Int /\ n \in Int /\ 1 <= n /\ n - 1 + 1 = n /\ \A i \in 1 .. n : 1 + i - 1 = i
    BY <1>1
  <2>3. /\ SubSeq(u, 1, n) \in Seq(Unit(Peak))
        /\ Len(SubSeq(u, 1, n)) = IF 1 <= n THEN n - 1 + 1 ELSE 0
        /\ \A i \in 1 .. n - 1 + 1 : SubSeq(u, 1, n)[i] = u[1 + i - 1]
    BY <2>1, <2>2, SubSeqProperties
  <2> QED
    BY <2>2, <2>3
<1>7. b = SubSeq(u, 1, n)
  BY <1>1, <1>5, <1>6, SeqEqual DEF n
<1> QED
  BY <1>2, <1>7 DEF FramesAreCutRight, b, frame, n, u, a

LEMMA LengthsHold == Inv => LengthsAgree
<1> SUFFICES ASSUME Inv, NEW h \in Handles
    PROVE  /\ conns[h].current # <<>> =>
               /\ IsStart(conns[h].current[1])
               /\ conns[h].expected > 0
               /\ Filled(conns[h].current) + conns[h].expected = conns[h].current[1].packet.total
           /\ \A i \in DOMAIN delivered[h] :
               LET frames == delivered[h][i]
               IN  IsStart(frames[1]) /\ Filled(frames) = frames[1].packet.total
  BY DEF LengthsAgree
<1>1. GoodConn(conns[h]) /\ \A i \in DOMAIN delivered[h] : GoodPacket(delivered[h][i])
  BY DEF Inv, DeskInv, GoodDesk, TheDesk
<1> QED
  BY <1>1 DEF GoodConn, GoodPacket

\* Whatever is sent, refused, cut into transfers and closed under way: the port
\* keeps within its depth, the lengths that are missing are numbers that are not
\* negative, and L2CAP and the records of connections hold frames that a sender
\* cut.
THEOREM TypeCorrect == Spec => []TypeOK
<1>1. Inv => TypeOK
  BY TypesHold
<1> QED
  BY <1>1, Invariant, PTL

\* Assemble() finds the ends of the frames wherever the transfers end, with every
\* MTU, until one that ends inside a header has ended the RX thread, and a packet that AclAssembly() delivers has the length it announces, even
\* when frames are missing, two senders interleave or a connection ends.
THEOREM AssemblyFindsTheEnds == Spec => []AssemblyIsRight
<1>1. Inv => AssemblyIsRight
  BY CutHolds, LengthsHold DEF AssemblyIsRight
<1> QED
  BY <1>1, Invariant, PTL

\* An endpoint of a device that is up never waits for nobody: a transfer is
\* queued, or the callback that queues it runs, or the queueing was refused.
THEOREM EndpointsStayArmed == Spec => []PipesArmed
<1>1. Inv => PipesArmed
  BY DEF Inv, UsbInv
<1> QED
  BY <1>1, Invariant, PTL

----------------------------------------------------------------------------
\* A link with one sender

\* What of the n-th packet of q is left with part p, and the parts there are.
Left(q, n, p) == q[n] - (p - 1) * Mtu
Place(q, n, p) == n \in 1 .. Len(q) /\ p \in Nat \ {0} /\ Left(q, n, p) > 0

Earlier(n, p, m, k) == n < m \/ (n = m /\ p < k)
Before(f, e) == Earlier(f.packet.n, f.part, e.packet.n, e.part)

\* A frame that s cuts from its packets q; one that is no later than where s is.
Genuine(s, q, f) ==
    /\ f.packet.from = s /\ Place(q, f.packet.n, f.part)
    /\ f.packet.total = q[f.packet.n]
Sent(at, n, p) == n < at.n \/ (n = at.n /\ p <= at.sent)

\* The part p of packet n did not come with connection g: not all of what s
\* sent before it and, in the same connection, after it is missing in X.
Lost(q, X, at, l, g, n, p) ==
    /\ Place(q, n, p)
    /\ \A x \in X : x.gen = g => x.packet.n # n \/ x.part # p
    /\ \E x \in X : x.gen = g /\ Earlier(x.packet.n, x.part, n, p)
    /\ \/ \E x \in X : x.gen = g /\ Earlier(n, p, x.packet.n, x.part)
       \/ l.up /\ l.gen = g /\ Sent(at, n, p)

\* A frame is lost for an upset.
FewLost(q, X, at, l, ups) ==
    \A g, n, p : Lost(q, X, at, l, g, n, p) =>
        ups > 0 /\ (ups = 1 => \A m, k : Lost(q, X, at, l, g, m, k) => m = n /\ k = p)

Held(cur, F) == {cur[i] : i \in 1 .. Len(cur)} \cup F

Sound(s, q, H, at, l) ==
    \A f \in H : Genuine(s, q, f) /\ Sent(at, f.packet.n, f.part) /\ f.gen <= l.gen

\* The current packet, then what is on its way.
Ranked(cur, F) ==
    /\ \A i, j \in 1 .. Len(cur) : i < j => Before(cur[i], cur[j])
    /\ \A i \in 1 .. Len(cur) : \A f \in F : Before(cur[i], f)
    /\ \A i \in 2 .. Len(cur) : cur[i].part # 1

\* Before both, what L2CAP has.
Handed(dl, H, at) ==
    /\ \A i \in 1 .. Len(dl) : /\ Sent(at, dl[i][1].packet.n, dl[i][1].part)
                               /\ \A f \in H : Before(dl[i][1], f)
    /\ \A i, j \in 1 .. Len(dl) : i < j => dl[i][1].packet.n < dl[j][1].packet.n

\* A current packet of one connection has all its parts so far, or misses one
\* and will wait for more than is to come.
Packed(q, cur, expected) ==
    cur # <<>> /\ OneConnection(cur) =>
        LET n == cur[1].packet.n
            last == cur[Len(cur)].part
        IN  /\ \A i \in 1 .. Len(cur) : cur[i].packet.n = n
            /\ \/ /\ \A i \in 1 .. Len(cur) : cur[i].part = i
                  /\ expected = Left(q, n, last + 1)
               \/ /\ \E m \in 2 .. last - 1 : \A i \in 1 .. Len(cur) : cur[i].part # m
                  /\ expected > Left(q, n, last + 1)

AllWhole(dl) == \A i \in 1 .. Len(dl) : OneConnection(dl[i]) => Whole(dl[i])

\* The packets of one sender, from the queue of L2CAP to the controller.
Flow(s, q, cur, expected, dl, F, at, l, ups) ==
    /\ Sound(s, q, Held(cur, F), at, l)
    /\ Ranked(cur, F)
    /\ Handed(dl, Held(cur, F), at)
    /\ FewLost(q, Held(cur, F), at, l, ups)
    /\ ups <= 1 => Packed(q, cur, expected) /\ AllWhole(dl)

Packets == Seq(Nat \ {0})

----------------------------------------------------------------------------
\* Parts

LEMMA PartsThere ==
    ASSUME NEW t \in Nat \ {0}, NEW p \in Nat
    PROVE  p < (t + Mtu - 1) \div Mtu <=> t - p * Mtu > 0
<1> DEFINE a == t + Mtu - 1
           k == a \div Mtu
           r == a % Mtu
<1>1. Mtu \in Nat \ {0}
  BY SizeAssumption
<1>2. a \in Int /\ a = t + Mtu - 1
  BY <1>1
<1> HIDE DEF a
<1>3. a = Mtu * k + r /\ r \in 0 .. Mtu - 1 /\ k \in Int
  BY <1>1, <1>2, DivMod
<1> DEFINE x == Mtu * k
           y == p * Mtu
<1>4. x \in Int /\ y \in Int
  BY <1>1, <1>3
<1> HIDE DEF k, r
<1>5. CASE p < k
  <2> DEFINE d == k - (p + 1)
  <2>1. d \in Nat /\ k = d + (p + 1)
    BY <1>3, <1>5
  <2> HIDE DEF d
  <2>2. Mtu * d \in Nat /\ x = Mtu * d + y + Mtu
    BY <1>1, <1>3, <2>1
  <2> HIDE DEF x, y
  <2>3. a = x + r
    BY <1>3 DEF x
  <2>4. t - y > 0
    BY <1>1, <1>2, <1>3, <1>4, <2>2, <2>3
  <2> QED
    BY <1>5, <2>4 DEF k, y, a
<1>6. CASE ~(p < k)
  <2> DEFINE d == p - k
  <2>1. d \in Nat /\ p = d + k
    BY <1>3, <1>6
  <2> HIDE DEF d
  <2>2. Mtu * d \in Nat /\ y = Mtu * d + x
    BY <1>1, <1>3, <2>1
  <2> HIDE DEF x, y
  <2>3. a = x + r
    BY <1>3 DEF x
  <2>4. ~(t - y > 0)
    BY <1>1, <1>2, <1>3, <1>4, <2>2, <2>3
  <2> QED
    BY <1>6, <2>4 DEF k, y, a
<1> QED
  BY <1>5, <1>6

LEMMA LeftSteps ==
    ASSUME NEW q \in Packets, NEW n \in 1 .. Len(q), NEW p \in Nat \ {0}
    PROVE  /\ Left(q, n, p) \in Int /\ Left(q, n, p + 1) = Left(q, n, p) - Mtu
           /\ \A k \in Nat \ {0} : k <= p => Left(q, n, p) <= Left(q, n, k)
           /\ \A k \in Nat \ {0} : k < p => Left(q, n, p) + Mtu <= Left(q, n, k)
<1>1. Mtu \in Nat \ {0} /\ q[n] \in Nat \ {0}
  BY SizeAssumption DEF Packets
<1> DEFINE t == q[n]
<1>2. t \in Nat
  BY <1>1
<1>3. \A k \in Nat \ {0} : Left(q, n, k) = t - (k - 1) * Mtu /\ (k - 1) * Mtu \in Int
  BY <1>1 DEF Left
<1> HIDE DEF t
<1>4. ASSUME NEW k \in Nat \ {0}, NEW d \in Nat, p = k + d
      PROVE  Left(q, n, p) = Left(q, n, k) - d * Mtu /\ d * Mtu \in Nat
  <2>1. (p - 1) * Mtu = (k - 1) * Mtu + d * Mtu /\ d * Mtu \in Nat
    BY <1>1, <1>4
  <2> QED
    BY <1>2, <1>3, <2>1
<1>5. Left(q, n, p) \in Int
  BY <1>2, <1>3
<1>6. Left(q, n, p + 1) = Left(q, n, p) - Mtu
  <2>1. p + 1 \in Nat \ {0} /\ ((p + 1) - 1) * Mtu = (p - 1) * Mtu + Mtu
    BY <1>1
  <2>2. Left(q, n, p + 1) = t - ((p + 1) - 1) * Mtu
    BY <1>3, <2>1
  <2> QED
    BY <1>1, <1>2, <1>3, <2>1, <2>2
<1>7. ASSUME NEW k \in Nat \ {0}, k <= p PROVE Left(q, n, p) <= Left(q, n, k)
  <2>1. p - k \in Nat /\ p = k + (p - k)
    BY <1>7
  <2>2. Left(q, n, p) = Left(q, n, k) - (p - k) * Mtu /\ (p - k) * Mtu \in Nat
    BY <1>4, <2>1
  <2>3. Left(q, n, k) \in Int
    BY <1>2, <1>3
  <2> QED
    BY <1>5, <2>2, <2>3
<1>8. ASSUME NEW k \in Nat \ {0}, k < p PROVE Left(q, n, p) + Mtu <= Left(q, n, k)
  <2> DEFINE d == p - (k + 1)
  <2>1. d \in Nat /\ d + 1 \in Nat /\ p = k + (d + 1)
    BY <1>8
  <2> HIDE DEF d
  <2>2. Left(q, n, p) = Left(q, n, k) - (d + 1) * Mtu
    BY <1>4, <2>1
  <2>3. (d + 1) * Mtu = d * Mtu + Mtu /\ d * Mtu \in Nat
    BY <1>1, <2>1
  <2>4. Left(q, n, k) \in Int
    BY <1>2, <1>3
  <2> QED
    BY <1>1, <1>5, <2>2, <2>3, <2>4
<1> QED
  BY <1>5, <1>6, <1>7, <1>8

LEMMA GenuineIs ==
    ASSUME NEW s, NEW q \in Packets, NEW g, NEW f \in RealFrame(g), Genuine(s, q, f)
    PROVE  /\ f.packet.n \in 1 .. Len(q) /\ f.packet.n \in Nat /\ f.part \in Nat \ {0}
           /\ Left(q, f.packet.n, f.part) > 0
           /\ f.packet = [from |-> s, n |-> f.packet.n, total |-> q[f.packet.n]]
           /\ Alen(f) = IF Left(q, f.packet.n, f.part) > Mtu THEN Mtu ELSE Left(q, f.packet.n, f.part)
<1>1. f.packet \in [from : Senders, n : Nat, total : Nat]
  BY DEF RealFrame
<1>2. f.packet.n \in 1 .. Len(q) /\ f.part \in Nat \ {0} /\ Left(q, f.packet.n, f.part) > 0
      /\ f.packet.from = s /\ f.packet.total = q[f.packet.n]
  BY DEF Genuine, Place
<1>3. f.packet = [from |-> s, n |-> f.packet.n, total |-> q[f.packet.n]]
  BY <1>1, <1>2
<1>4. Alen(f) = IF Left(q, f.packet.n, f.part) > Mtu THEN Mtu ELSE Left(q, f.packet.n, f.part)
  BY <1>2 DEF Alen, Left
<1> QED
  BY <1>1, <1>2, <1>3, <1>4

\* What goes from the front of the line does not make others lost.
LEMMA LossShrinks ==
    ASSUME NEW g, NEW q \in Packets, NEW X \in SUBSET RealFrame(g), NEW Y \in SUBSET X,
           \A x \in X \ Y : \A y \in Y : Before(x, y),
           NEW at, NEW l, NEW ups, FewLost(q, X, at, l, ups)
    PROVE  FewLost(q, Y, at, l, ups)
<1>1. \A x \in X : x.packet.n \in Nat /\ x.part \in Nat
  BY DEF RealFrame
<1>2. ASSUME NEW c, NEW n, NEW p, Lost(q, Y, at, l, c, n, p) PROVE Lost(q, X, at, l, c, n, p)
  <2>1. Place(q, n, p) /\ n \in Nat /\ p \in Nat
    BY <1>2 DEF Lost, Place, Packets
  <2>2. PICK y \in Y : y.gen = c /\ Earlier(y.packet.n, y.part, n, p)
    BY <1>2 DEF Lost
  <2>3. ASSUME NEW x \in X, x.gen = c PROVE x.packet.n # n \/ x.part # p
    <3>1. CASE x \in Y
      BY <1>2, <2>3, <3>1 DEF Lost
    <3>2. CASE x \notin Y
      <4>1. Before(x, y)
        BY <2>2, <3>2
      <4> QED
        BY <1>1, <2>1, <2>2, <4>1 DEF Before, Earlier
    <3> QED
      BY <3>1, <3>2
  <2>4. \/ \E x \in X : x.gen = c /\ Earlier(n, p, x.packet.n, x.part)
        \/ l.up /\ l.gen = c /\ Sent(at, n, p)
    BY <1>2 DEF Lost
  <2> QED
    BY <2>1, <2>2, <2>3, <2>4 DEF Lost
<1> QED
  BY <1>2 DEF FewLost

\* a is cur with one more frame, of the same packet, and m is missing.
Continued(q, cur, f, a, m) ==
    LET n == cur[1].packet.n
    IN  /\ f.packet.n = n /\ \A i \in 1 .. Len(cur) : cur[i].packet.n = n
        /\ \/ /\ \A i \in 1 .. Len(a) : a[i].part = i
              /\ \/ Left(q, n, f.part + 1) > 0 /\ m = Left(q, n, f.part + 1)
                 \/ Left(q, n, f.part + 1) <= 0 /\ m = 0
           \/ /\ \E k \in 2 .. f.part - 1 : \A i \in 1 .. Len(a) : a[i].part # k
              /\ m > 0 /\ m > Left(q, n, f.part + 1)

\* One more frame of the current packet: all of one packet still.
LEMMA PacketGrows ==
    ASSUME NEW g, NEW s, NEW q \in Packets, NEW cur \in Seq(RealFrame(g)), cur # <<>>,
           IsStart(cur[1]), NEW expected \in Nat, expected > 0, Packed(q, cur, expected),
           NEW f \in RealFrame(g), ~IsStart(f), NEW F \in SUBSET RealFrame(g),
           \A x \in F : Before(f, x), \A i \in 1 .. Len(cur) : Before(cur[i], f),
           \A i, j \in 1 .. Len(cur) : i < j => Before(cur[i], cur[j]),
           Genuine(s, q, f), \A i \in 1 .. Len(cur) : Genuine(s, q, cur[i]),
           NEW at, NEW l, NEW ups, ups = 0 \/ ups = 1,
           FewLost(q, Held(cur, {f} \cup F), at, l, ups), OneConnection(Append(cur, f))
    PROVE  Continued(q, cur, f, Append(cur, f), expected - Alen(f))
<1> DEFINE n == cur[1].packet.n
           m == expected - Alen(f)
           a == Append(cur, f)
           z == Len(cur)
           last == cur[z].part
           c == cur[1].gen
           X == Held(cur, {f} \cup F)
<1>1. /\ z \in Nat /\ z >= 1 /\ 1 \in 1 .. z /\ z \in 1 .. z
      /\ Len(a) = z + 1 /\ a[z + 1] = f /\ \A i \in 1 .. z : a[i] = cur[i]
      /\ \A i \in 1 .. z : cur[i] \in RealFrame(g)
  <2>1. z \in Nat /\ z >= 1 /\ \A i \in 1 .. z : cur[i] \in RealFrame(g)
    OBVIOUS
  <2>2. Len(a) = z + 1 /\ a[z + 1] = f /\ \A i \in 1 .. z : a[i] = cur[i]
    BY Appended
  <2> HIDE DEF z, a
  <2> QED
    BY <2>1, <2>2
<1>2. /\ f.gen = c /\ \A i \in 1 .. z : cur[i].gen = c
  <2>1. \A i \in 1 .. z + 1 : a[i].gen = a[1].gen
    <3>1. DOMAIN a = 1 .. z + 1
      <4>1. a \in Seq(RealFrame(g))
        BY Appended
      <4> QED
        BY <1>1, <4>1
    <3> QED
      BY <3>1 DEF OneConnection
  <2> HIDE DEF a, z
  <2>2. z + 1 \in 1 .. z + 1 /\ \A i \in 1 .. z : i \in 1 .. z + 1
    BY <1>1
  <2> QED
    BY <1>1, <2>1, <2>2
<1>3. OneConnection(cur)
  BY <1>2 DEF OneConnection
<1>4. /\ \A i \in 1 .. z : cur[i].packet.n = n
      /\ \/ /\ \A i \in 1 .. z : cur[i].part = i
            /\ expected = Left(q, n, last + 1)
         \/ /\ \E k \in 2 .. last - 1 : \A i \in 1 .. z : cur[i].part # k
            /\ expected > Left(q, n, last + 1)
  BY <1>3 DEF Packed
<1>5. /\ \A i \in 1 .. z : cur[i] \in X
      /\ f \in X
      /\ \A x \in X : x = f \/ Before(f, x) \/ \E i \in 1 .. z : x = cur[i]
  BY DEF Held
<1>6. /\ f.packet.n \in Nat /\ f.part \in Nat \ {0} /\ f.part > 1
      /\ f.packet.n \in 1 .. Len(q) /\ Left(q, f.packet.n, f.part) > 0
      /\ Alen(f) = IF Left(q, f.packet.n, f.part) > Mtu THEN Mtu ELSE Left(q, f.packet.n, f.part)
  <2>1. f.part # 1
    BY DEF IsStart
  <2> HIDE DEF a, z, X, n, last, c, m
  <2>2. f.packet.n \in 1 .. Len(q) /\ f.packet.n \in Nat /\ f.part \in Nat \ {0}
    BY GenuineIs
  <2>3. Left(q, f.packet.n, f.part) > 0
    BY GenuineIs
  <2>4. Alen(f) = IF Left(q, f.packet.n, f.part) > Mtu THEN Mtu ELSE Left(q, f.packet.n, f.part)
    BY GenuineIs
  <2> QED
    BY <2>1, <2>2, <2>3, <2>4
<1>7. /\ n \in Nat /\ n \in 1 .. Len(q) /\ last \in Nat \ {0}
      /\ cur[1].part = 1 /\ Left(q, n, last) > 0
  <2>1. Genuine(s, q, cur[1]) /\ Genuine(s, q, cur[z]) /\ cur[z].packet.n = n
        /\ cur[1] \in RealFrame(g) /\ cur[z] \in RealFrame(g)
    BY <1>1, <1>4
  <2>2. n \in Nat /\ n \in 1 .. Len(q)
    BY <2>1, GenuineIs
  <2>3. last \in Nat \ {0} /\ Left(q, n, last) > 0
    BY <2>1, GenuineIs
  <2> QED
    BY <2>2, <2>3 DEF IsStart
<1>8. n < f.packet.n \/ (n = f.packet.n /\ last < f.part)
  <2>1. Before(cur[z], f) /\ cur[z].packet.n = n
    BY <1>1, <1>4
  <2> QED
    BY <2>1 DEF Before, Earlier
<1>9. \A x \in F : x.packet.n \in Nat /\ x.part \in Nat
  BY DEF RealFrame
<1> HIDE DEF a, z, X, n, last, c, m
<1>10. \A x \in X : x.packet.n \in Nat /\ x.part \in Nat
  <2>1. \A i \in 1 .. z : cur[i].packet.n \in Nat /\ cur[i].part \in Nat
    BY <1>1 DEF RealFrame
  <2> QED
    BY <1>6, <1>9, <2>1 DEF X, Held, z
<1>11. f.packet.n = n
  <2> SUFFICES ASSUME f.packet.n # n PROVE FALSE
    OBVIOUS
  <2> DEFINE e == f.packet.n
  <2>1. n < e /\ e \in Nat
    BY <1>6, <1>8
  <2>2. Lost(q, X, at, l, c, e, 1)
    <3>1. Place(q, e, 1)
      <4>0. e \in 1 .. Len(q) /\ f.part \in Nat \ {0} /\ 1 \in Nat \ {0} /\ 1 <= f.part
        BY <1>6
      <4> HIDE DEF e
      <4>1. Left(q, e, f.part) <= Left(q, e, 1) /\ Left(q, e, f.part) \in Int
        BY <4>0, LeftSteps
      <4>2. Left(q, e, 1) \in Int
        BY <4>0, LeftSteps
      <4>3. Left(q, e, f.part) > 0
        BY <1>6 DEF e
      <4> QED
        BY <4>0, <4>1, <4>2, <4>3 DEF Place
    <3>2. \A x \in X : x.packet.n # e \/ x.part # 1
      <4> SUFFICES ASSUME NEW x \in X PROVE x.packet.n # e \/ x.part # 1
        OBVIOUS
      <4>1. CASE x = f
        BY <1>6, <4>1
      <4>2. CASE Before(f, x)
        BY <1>6, <1>10, <4>2 DEF Before, Earlier
      <4>3. CASE \E i \in 1 .. z : x = cur[i]
        BY <1>4, <2>1, <4>3
      <4> QED
        BY <1>5, <4>1, <4>2, <4>3
    <3>3. cur[1] \in X /\ cur[1].gen = c /\ Earlier(cur[1].packet.n, cur[1].part, e, 1)
      BY <1>1, <1>2, <1>5, <2>1 DEF Earlier, n
    <3>4. f \in X /\ f.gen = c /\ Earlier(e, 1, f.packet.n, f.part)
      BY <1>2, <1>5, <1>6 DEF Earlier
    <3> QED
      BY <3>1, <3>2, <3>3, <3>4 DEF Lost
  <2>3. ASSUME NEW k \in Nat \ {0}, Left(q, n, k) > 0, k > 1, \A i \in 1 .. z : cur[i].part # k
        PROVE  Lost(q, X, at, l, c, n, k)
    <3>1. Place(q, n, k)
      BY <1>7, <2>3 DEF Place
    <3>2. \A x \in X : x.packet.n # n \/ x.part # k
      <4> SUFFICES ASSUME NEW x \in X PROVE x.packet.n # n \/ x.part # k
        OBVIOUS
      <4>1. CASE x = f
        BY <4>1
      <4>2. CASE Before(f, x)
        BY <1>7, <1>10, <2>1, <4>2 DEF Before, Earlier
      <4>3. CASE \E i \in 1 .. z : x = cur[i]
        BY <2>3, <4>3
      <4> QED
        BY <1>5, <4>1, <4>2, <4>3
    <3>3. cur[1] \in X /\ cur[1].gen = c /\ Earlier(cur[1].packet.n, cur[1].part, n, k)
      BY <1>1, <1>2, <1>5, <1>7, <2>3 DEF Earlier, n
    <3>4. f \in X /\ f.gen = c /\ Earlier(n, k, f.packet.n, f.part)
      BY <1>2, <1>5, <2>1 DEF Earlier
    <3> QED
      BY <3>1, <3>2, <3>3, <3>4 DEF Lost
  <2>4. \E k : Lost(q, X, at, l, c, n, k)
    <3>1. CASE (\A i \in 1 .. z : cur[i].part = i) /\ expected = Left(q, n, last + 1)
      <4>1. last = z
        BY <1>1, <3>1 DEF last
      <4>2. last + 1 \in Nat \ {0} /\ last + 1 > 1 /\ \A i \in 1 .. z : cur[i].part # last + 1
        BY <1>1, <1>7, <3>1, <4>1
      <4> QED
        BY <2>3, <3>1, <4>2
    <3>2. CASE \E k \in 2 .. last - 1 : \A i \in 1 .. z : cur[i].part # k
      <4>1. PICK k \in 2 .. last - 1 : \A i \in 1 .. z : cur[i].part # k
        BY <3>2
      <4>2. k \in Nat \ {0} /\ k > 1 /\ k <= last
        BY <1>7, <4>1
      <4>3. Left(q, n, last) <= Left(q, n, k) /\ Left(q, n, k) \in Int /\ Left(q, n, last) \in Int
        BY <1>7, <4>2, LeftSteps
      <4>4. Left(q, n, k) > 0
        BY <1>7, <4>3
      <4> QED
        BY <2>3, <4>1, <4>2, <4>4
    <3> QED
      BY <1>4, <3>1, <3>2
  <2>5. FewLost(q, X, at, l, ups)
    BY DEF X
  <2>6. ups = 1
    BY <2>2, <2>5 DEF FewLost
  <2>7. \A u, k : Lost(q, X, at, l, c, u, k) => u = e /\ k = 1
    BY <2>2, <2>5, <2>6 DEF FewLost
  <2> QED
    BY <2>1, <2>4, <2>7
<1> DEFINE k == f.part
           L(p) == Left(q, n, p)
<1>12. /\ last < k /\ k \in Nat \ {0} /\ k > 1 /\ L(k) > 0
       /\ Alen(f) = IF L(k) > Mtu THEN Mtu ELSE L(k)
  BY <1>6, <1>7, <1>8, <1>11
<1>13. /\ L(k) \in Int /\ L(k + 1) = L(k) - Mtu /\ L(last + 1) \in Int /\ Mtu \in Nat \ {0}
       /\ L(k) <= L(last + 1) /\ (last + 1 < k => L(k) + Mtu <= L(last + 1))
  <2>1. last + 1 \in Nat \ {0} /\ last + 1 <= k
    BY <1>7, <1>12
  <2>2. L(k) \in Int /\ L(k + 1) = L(k) - Mtu /\ L(k) <= L(last + 1)
    BY <1>7, <1>12, <2>1, LeftSteps
  <2>3. last + 1 < k => L(k) + Mtu <= L(last + 1)
    BY <1>7, <1>12, <2>1, LeftSteps
  <2>4. L(last + 1) \in Int
    BY <1>7, <2>1, LeftSteps
  <2> QED
    BY <2>2, <2>3, <2>4, SizeAssumption
<1>14. m = expected - Alen(f)
  BY DEF m
<1> HIDE DEF k, L
<1>15. CASE (\A i \in 1 .. z : cur[i].part = i) /\ expected = L(last + 1)
  <2>1. last = z
    BY <1>1, <1>15 DEF last
  <2>2. CASE k = last + 1
    <3>1. \A i \in 1 .. z + 1 : a[i].part = i
      BY <1>1, <1>15, <2>1, <2>2 DEF k
    <3>2. \/ L(k + 1) > 0 /\ m = L(k + 1)
          \/ L(k + 1) <= 0 /\ m = 0
      BY <1>12, <1>13, <1>14, <1>15, <2>2
    <3> QED
      BY <1>1, <1>4, <1>11, <3>1, <3>2 DEF Continued, k, L, a, z, n, m
  <2>3. CASE k # last + 1
    <3>1. last + 1 < k /\ last + 1 \in 2 .. k - 1
      BY <1>7, <1>12, <2>3
    <3>2. \A i \in 1 .. z + 1 : a[i].part # last + 1
      <4> SUFFICES ASSUME NEW i \in 1 .. z + 1 PROVE a[i].part # last + 1
        OBVIOUS
      <4>1. CASE i = z + 1
        BY <1>1, <2>3, <4>1 DEF k
      <4>2. CASE i # z + 1
        <5>1. i \in 1 .. z
          BY <1>1, <4>2
        <5> QED
          BY <1>1, <1>15, <2>1, <5>1
      <4> QED
        BY <4>1, <4>2
    <3>3. m > 0 /\ m > L(k + 1)
      BY <1>12, <1>13, <1>14, <1>15, <3>1
    <3>4. \E j \in 2 .. k - 1 : \A i \in 1 .. z + 1 : a[i].part # j
      BY <3>1, <3>2
    <3> QED
      BY <1>1, <1>4, <1>11, <3>3, <3>4 DEF Continued, k, L, a, z, n, m
  <2> QED
    BY <2>2, <2>3
<1>16. CASE (\E j \in 2 .. last - 1 : \A i \in 1 .. z : cur[i].part # j) /\ expected > L(last + 1)
  <2>1. PICK j \in 2 .. last - 1 : \A i \in 1 .. z : cur[i].part # j
    BY <1>16
  <2>2. j \in 2 .. k - 1 /\ j # k
    BY <1>7, <1>12, <2>1
  <2>3. \A i \in 1 .. z + 1 : a[i].part # j
    <3> SUFFICES ASSUME NEW i \in 1 .. z + 1 PROVE a[i].part # j
      OBVIOUS
    <3>1. CASE i = z + 1
      BY <1>1, <2>2, <3>1 DEF k
    <3>2. CASE i # z + 1
      <4>1. i \in 1 .. z
        BY <1>1, <3>2
      <4> QED
        BY <1>1, <2>1, <4>1
    <3> QED
      BY <3>1, <3>2
  <2>4. m > 0 /\ m > L(k + 1)
    BY <1>12, <1>13, <1>14, <1>16
  <2>5. \E i_1 \in 2 .. k - 1 : \A i \in 1 .. z + 1 : a[i].part # i_1
    BY <2>2, <2>3
  <2> QED
    BY <1>1, <1>4, <1>11, <2>4, <2>5 DEF Continued, k, L, a, z, n, m
<1>17. Continued(q, cur, f, a, m)
  BY <1>4, <1>15, <1>16 DEF L, a, m, n
<1> QED
  BY <1>17 DEF a, m

\* What is lost or not, whatever expected says and L2CAP has got.
Line(s, q, cur, dl, F, at, l, ups) ==
    /\ Sound(s, q, Held(cur, F), at, l)
    /\ Ranked(cur, F)
    /\ Handed(dl, Held(cur, F), at)
    /\ FewLost(q, Held(cur, F), at, l, ups)

LEMMA HeldType ==
    ASSUME NEW g, NEW cur \in Seq(RealFrame(g)), NEW F \in SUBSET RealFrame(g)
    PROVE  Held(cur, F) \in SUBSET RealFrame(g)
BY DEF Held

\* The current packet is dropped, and the front of the line.
LEMMA LineNarrows ==
    ASSUME NEW g, NEW s, NEW q \in Packets, NEW cur \in Seq(RealFrame(g)),
           NEW F \in SUBSET RealFrame(g), NEW dl, NEW at, NEW l, NEW ups,
           Line(s, q, cur, dl, F, at, l, ups),
           NEW G \in SUBSET F, \A x \in F \ G : \A y \in G : Before(x, y)
    PROVE  Line(s, q, <<>>, dl, G, at, l, ups)
<1> DEFINE X == Held(cur, F)
<1>1. Held(<<>>, G) = G /\ G \subseteq X /\ X \in SUBSET RealFrame(g)
  <2>1. X \in SUBSET RealFrame(g)
    BY HeldType
  <2>2. Len(<<>>) = 0 /\ 1 .. 0 = {}
    OBVIOUS
  <2>3. Held(<<>>, G) = G
    BY <2>2 DEF Held
  <2>4. G \subseteq X
    BY DEF Held
  <2> QED
    BY <2>1, <2>3, <2>4
<1>2. \A x \in X \ G : \A y \in G : Before(x, y)
  <2> SUFFICES ASSUME NEW x \in X \ G, NEW y \in G PROVE Before(x, y)
    OBVIOUS
  <2>1. CASE x \in F
    BY <2>1
  <2>2. CASE x \notin F
    <3>1. PICK i \in 1 .. Len(cur) : x = cur[i]
      BY <2>2 DEF Held
    <3> QED
      BY <3>1 DEF Line, Ranked
  <2> QED
    BY <2>1, <2>2
<1>3. Sound(s, q, X, at, l) /\ Handed(dl, X, at) /\ FewLost(q, X, at, l, ups)
  BY DEF Line
<1> HIDE DEF X
<1>4. FewLost(q, G, at, l, ups)
  BY <1>1, <1>2, <1>3, LossShrinks
<1>5. Sound(s, q, G, at, l) /\ Handed(dl, G, at)
  BY <1>1, <1>3 DEF Sound, Handed
<1>6. Ranked(<<>>, G)
  BY DEF Ranked
<1> QED
  BY <1>1, <1>4, <1>5, <1>6 DEF Line

\* The first of the line goes to the current packet, or begins one.
LEMMA LineMoves ==
    ASSUME NEW g, NEW s, NEW q \in Packets, NEW cur \in Seq(RealFrame(g)),
           NEW F \in SUBSET RealFrame(g), NEW f \in RealFrame(g), \A x \in F : Before(f, x),
           NEW dl, NEW at, NEW l, NEW ups, Line(s, q, cur, dl, {f} \cup F, at, l, ups)
    PROVE  /\ Line(s, q, <<f>>, dl, F, at, l, ups)
           /\ ~IsStart(f) => Line(s, q, Append(cur, f), dl, F, at, l, ups)
<1> DEFINE z == Len(cur)
           X == Held(cur, {f} \cup F)
<1>1. z \in Nat /\ \A i \in 1 .. z : cur[i] \in RealFrame(g)
  OBVIOUS
<1>2. /\ \A i, j \in 1 .. z : i < j => Before(cur[i], cur[j])
      /\ \A i \in 1 .. z : Before(cur[i], f) /\ \A x \in F : Before(cur[i], x)
      /\ \A i \in 2 .. z : cur[i].part # 1
  BY DEF Line, Ranked
<1>3. Line(s, q, <<f>>, dl, F, at, l, ups)
  <2> DEFINE G == {f} \cup F
             o == <<f>>
  <2>1. G \in SUBSET RealFrame(g)
    OBVIOUS
  <2>2. Line(s, q, cur, dl, G, at, l, ups)
    OBVIOUS
  <2>3. Len(o) = 1 /\ o[1] = f
    OBVIOUS
  <2>4. Held(o, F) = G
    <3> HIDE DEF o
    <3>1. 1 .. 1 = {1}
      OBVIOUS
    <3>2. {o[i] : i \in 1 .. Len(o)} = {f}
      BY <2>3, <3>1
    <3> QED
      BY <3>2 DEF Held
  <2>5. Held(<<>>, G) = G
    <3>1. Len(<<>>) = 0 /\ 1 .. 0 = {}
      OBVIOUS
    <3> QED
      BY <3>1 DEF Held
  <2> HIDE DEF o, G
  <2>6. Line(s, q, <<>>, dl, G, at, l, ups)
    BY <2>1, <2>2, LineNarrows
  <2>7. Ranked(o, F)
    <3>1. \A i \in 1 .. Len(o) : i = 1 /\ o[i] = f
      BY <2>3
    <3>2. \A i, j \in 1 .. Len(o) : ~(i < j)
      BY <2>3
    <3>3. \A i \in 2 .. Len(o) : FALSE
      BY <2>3
    <3> QED
      BY <3>1, <3>2, <3>3 DEF Ranked
  <2> QED
    BY <2>4, <2>5, <2>6, <2>7 DEF Line, o
<1>4. ASSUME ~IsStart(f) PROVE Line(s, q, Append(cur, f), dl, F, at, l, ups)
  <2> DEFINE a == Append(cur, f)
  <2>1. Len(a) = z + 1 /\ a[z + 1] = f /\ \A i \in 1 .. z : a[i] = cur[i]
    BY Appended
  <2> HIDE DEF a, z
  <2>2. Held(a, F) = X
    <3>1. \A i \in 1 .. z : i \in 1 .. z + 1
      BY <1>1
    <3>2. z + 1 \in 1 .. z + 1 /\ \A i \in 1 .. z + 1 : i = z + 1 \/ i \in 1 .. z
      BY <1>1
    <3> QED
      BY <2>1, <3>1, <3>2 DEF Held, z
  <2>3. Ranked(a, F)
    <3>1. ASSUME NEW i \in 1 .. z + 1, NEW j \in 1 .. z + 1, i < j PROVE Before(a[i], a[j])
      <4>1. i \in 1 .. z /\ (j = z + 1 \/ j \in 1 .. z)
        BY <1>1, <3>1
      <4> QED
        BY <1>2, <2>1, <3>1, <4>1
    <3>2. ASSUME NEW i \in 1 .. z + 1, NEW x \in F PROVE Before(a[i], x)
      <4>1. i = z + 1 \/ i \in 1 .. z
        BY <1>1
      <4> QED
        BY <1>2, <2>1, <4>1
    <3>3. ASSUME NEW i \in 2 .. z + 1 PROVE a[i].part # 1
      <4>1. CASE i = z + 1
        BY <1>4, <2>1, <4>1 DEF IsStart
      <4>2. CASE i # z + 1
        <5>1. i \in 1 .. z /\ i \in 2 .. z
          BY <1>1, <4>2
        <5> QED
          BY <1>2, <2>1, <5>1
      <4> QED
        BY <4>1, <4>2
    <3> QED
      BY <2>1, <3>1, <3>2, <3>3 DEF Ranked
  <2> QED
    BY <2>2, <2>3 DEF Line, a
<1> QED
  BY <1>3, <1>4

\* L2CAP gets the current packet.
LEMMA LineHands ==
    ASSUME NEW g, NEW s, NEW q \in Packets, NEW cur \in Seq(RealFrame(g)), cur # <<>>, IsStart(cur[1]),
           NEW F \in SUBSET RealFrame(g), NEW dl \in Seq(Seq(RealFrame(g))),
           \A i \in 1 .. Len(dl) : GoodPacket(dl[i]), NEW at, NEW l, NEW ups,
           Line(s, q, cur, dl, F, at, l, ups)
    PROVE  Line(s, q, <<>>, Append(dl, cur), F, at, l, ups)
<1> DEFINE z == Len(dl)
           a == Append(dl, cur)
           o == cur[1]
           X == Held(cur, F)
<1>1. z \in Nat /\ 1 \in 1 .. Len(cur) /\ o \in RealFrame(g) /\ o \in X /\ F \subseteq X
  BY DEF Held
<1>2. Len(a) = z + 1 /\ a[z + 1] = cur /\ \A i \in 1 .. z : a[i] = dl[i]
  BY Appended
<1>3. \A i \in 1 .. z : IsStart(dl[i][1]) /\ dl[i][1] \in RealFrame(g)
  <2> SUFFICES ASSUME NEW i \in 1 .. z PROVE IsStart(dl[i][1]) /\ dl[i][1] \in RealFrame(g)
    OBVIOUS
  <2>1. GoodPacket(dl[i]) /\ dl[i] \in Seq(RealFrame(g))
    OBVIOUS
  <2> QED
    BY <2>1 DEF GoodPacket
<1> HIDE DEF a, z
<1>4. /\ \A i \in 1 .. z : /\ Sent(at, dl[i][1].packet.n, dl[i][1].part)
                           /\ \A f \in X : Before(dl[i][1], f)
      /\ \A i, j \in 1 .. z : i < j => dl[i][1].packet.n < dl[j][1].packet.n
  BY DEF Line, Handed, z
<1>5. Sent(at, o.packet.n, o.part) /\ \A f \in F : Before(o, f)
  BY <1>1 DEF Line, Sound, Ranked
<1>6. \A i \in 1 .. z : dl[i][1].packet.n < o.packet.n
  <2> SUFFICES ASSUME NEW i \in 1 .. z PROVE dl[i][1].packet.n < o.packet.n
    OBVIOUS
  <2>1. Before(dl[i][1], o)
    BY <1>1, <1>4
  <2> QED
    BY <1>3, <2>1 DEF Before, Earlier, IsStart
<1> HIDE DEF o, X
<1>7. Handed(a, F, at)
  <2>1. ASSUME NEW i \in 1 .. z + 1
        PROVE  Sent(at, a[i][1].packet.n, a[i][1].part) /\ \A f \in F : Before(a[i][1], f)
    <3>1. CASE i = z + 1
      BY <1>2, <1>5, <3>1 DEF o
    <3>2. CASE i # z + 1
      <4>1. i \in 1 .. z
        BY <1>1, <3>2
      <4> QED
        BY <1>1, <1>2, <1>4, <4>1
    <3> QED
      BY <3>1, <3>2
  <2>2. ASSUME NEW i \in 1 .. z + 1, NEW j \in 1 .. z + 1, i < j
        PROVE  a[i][1].packet.n < a[j][1].packet.n
    <3>1. i \in 1 .. z /\ (j = z + 1 \/ j \in 1 .. z)
      BY <1>1, <2>2
    <3>2. CASE j = z + 1
      BY <1>2, <1>6, <3>1, <3>2 DEF o
    <3>3. CASE j \in 1 .. z
      BY <1>2, <1>4, <2>2, <3>1, <3>3
    <3> QED
      BY <3>1, <3>2, <3>3
  <2> QED
    BY <1>2, <2>1, <2>2 DEF Handed
<1>8. Line(s, q, <<>>, dl, F, at, l, ups)
  BY LineNarrows
<1>9. Held(<<>>, F) = F
  <2>1. Len(<<>>) = 0 /\ 1 .. 0 = {}
    OBVIOUS
  <2> QED
    BY <2>1 DEF Held
<1> QED
  BY <1>7, <1>8, <1>9 DEF Line, a

LEMMA WholeIs ==
    ASSUME NEW g, NEW s, NEW q \in Packets, NEW a \in Seq(RealFrame(g)), a # <<>>,
           NEW n, \A i \in 1 .. Len(a) : Genuine(s, q, a[i]) /\ a[i].packet.n = n /\ a[i].part = i,
           Left(q, n, Len(a) + 1) <= 0
    PROVE  Whole(a)
<1> DEFINE z == Len(a)
           t == q[n]
           k == (t + Mtu - 1) \div Mtu
<1>1. z \in Nat \ {0} /\ 1 \in 1 .. z /\ z \in 1 .. z /\ DOMAIN a = 1 .. z
  OBVIOUS
<1>2. \A i \in 1 .. z : a[i].packet = [from |-> s, n |-> n, total |-> t]
  <2> SUFFICES ASSUME NEW i \in 1 .. z PROVE a[i].packet = [from |-> s, n |-> n, total |-> t]
    OBVIOUS
  <2>1. a[i] \in RealFrame(g) /\ Genuine(s, q, a[i]) /\ a[i].packet.n = n
    OBVIOUS
  <2>2. a[i].packet = [from |-> s, n |-> a[i].packet.n, total |-> q[a[i].packet.n]]
    BY <2>1, GenuineIs
  <2> QED
    BY <2>1, <2>2
<1>3. t \in Nat \ {0} /\ Left(q, n, z) > 0 /\ n \in 1 .. Len(q)
  <2> DEFINE e == a[z]
  <2>1. e \in RealFrame(g) /\ Genuine(s, q, e) /\ e.packet.n = n /\ e.part = z
    BY <1>1
  <2> HIDE DEF e
  <2>2. e.packet.n \in 1 .. Len(q) /\ Left(q, e.packet.n, e.part) > 0
    BY <2>1, GenuineIs
  <2> HIDE DEF z
  <2>3. n \in 1 .. Len(q) /\ Left(q, n, z) > 0
    BY <2>1, <2>2
  <2> QED
    BY <2>3 DEF Packets
<1>4. Left(q, n, z) = t - (z - 1) * Mtu /\ Left(q, n, z + 1) = t - z * Mtu
  <2>1. (z + 1) - 1 = z
    BY <1>1
  <2> QED
    BY <2>1 DEF Left
<1> HIDE DEF t, k
<1>5. z - 1 < k
  <2>1. z - 1 \in Nat
    BY <1>1
  <2> QED
    BY <1>3, <1>4, <2>1, PartsThere DEF k
<1>6. ~(z < k)
  <2>1. Left(q, n, z + 1) <= 0
    OBVIOUS
  <2> HIDE DEF z
  <2>2. z < k <=> t - z * Mtu > 0
    BY <1>1, <1>3, PartsThere DEF k
  <2>3. z * Mtu \in Int
    BY <1>1, SizeAssumption
  <2> DEFINE x == z * Mtu
  <2>4. ~(t - x > 0)
    <3> HIDE DEF x
    <3>1. t - x <= 0 /\ x \in Int
      BY <1>4, <2>1, <2>3 DEF x
    <3> QED
      BY <1>3, <3>1
  <2> QED
    BY <2>2, <2>4
<1>7. k \in Int
  <2>1. t + Mtu - 1 \in Int /\ Mtu \in Nat \ {0}
    BY <1>3, SizeAssumption
  <2> QED
    BY <2>1, DivMod DEF k
<1>8. z = k
  <2> HIDE DEF z
  <2>1. z \in Nat
    BY <1>1
  <2> QED
    BY <1>5, <1>6, <1>7, <2>1
<1>9. Parts(a[1].packet) = k
  BY <1>1, <1>2 DEF Parts, k
<1>10. \A i \in 1 .. z : a[i].packet = a[1].packet /\ a[i].part = i
  BY <1>1, <1>2
<1> QED
  BY <1>1, <1>8, <1>9, <1>10 DEF Whole

\* A start: the first part of a packet, or all of it.
LEMMA PacketBegins ==
    ASSUME NEW g, NEW s, NEW q \in Packets, NEW f \in RealFrame(g), Genuine(s, q, f), IsStart(f)
    PROVE  LET m == f.packet.total - Alen(f)
           IN  m >= 0 /\ (m > 0 => Packed(q, <<f>>, m)) /\ (m = 0 => Whole(<<f>>))
<1> DEFINE m == f.packet.total - Alen(f)
           n == f.packet.n
           o == <<f>>
<1>1. n \in 1 .. Len(q) /\ Left(q, n, 1) > 0 /\ f.part = 1
      /\ Alen(f) = IF Left(q, n, 1) > Mtu THEN Mtu ELSE Left(q, n, 1)
  <2>1. f.part = 1
    BY DEF IsStart
  <2>2. n \in 1 .. Len(q) /\ Left(q, n, f.part) > 0
    BY GenuineIs
  <2>3. Alen(f) = IF Left(q, n, f.part) > Mtu THEN Mtu ELSE Left(q, n, f.part)
    BY GenuineIs
  <2> QED
    BY <2>1, <2>2, <2>3
<1>2. f.packet.total = q[n] /\ q[n] \in Nat \ {0} /\ Mtu \in Nat \ {0}
  BY <1>1, SizeAssumption DEF Genuine, Packets
<1>3. Left(q, n, 1) = q[n]
  <2>1. (1 - 1) * Mtu = 0
    BY <1>2
  <2> QED
    BY <1>2, <2>1 DEF Left
<1> HIDE DEF n
<1>4. Left(q, n, 1 + 1) = Left(q, n, 1) - Mtu
  <2>1. 1 \in Nat \ {0}
    OBVIOUS
  <2> QED
    BY <1>1, <2>1, LeftSteps
<1>5. m = Left(q, n, 1) - Alen(f)
  BY <1>2, <1>3
<1>6. Len(o) = 1 /\ o[1] = f /\ o \in Seq(RealFrame(g)) /\ o # <<>>
  OBVIOUS
<1> HIDE DEF m, o
<1>7. \/ Left(q, n, 1 + 1) > 0 /\ m = Left(q, n, 1 + 1)
      \/ Left(q, n, 1 + 1) <= 0 /\ m = 0
  BY <1>1, <1>2, <1>3, <1>4, <1>5
<1>8. m >= 0
  BY <1>2, <1>3, <1>4, <1>7
<1>9. ASSUME m > 0 PROVE Packed(q, o, m)
  <2>1. m = Left(q, n, f.part + 1)
    BY <1>1, <1>7, <1>9
  <2>2. \A i \in 1 .. Len(o) : i = 1 /\ o[i].packet.n = n /\ o[i].part = i
    BY <1>1, <1>6 DEF n
  <2>3. o[Len(o)].part = f.part /\ o[1].packet.n = n
    BY <1>6 DEF n
  <2> QED
    BY <2>1, <2>2, <2>3 DEF Packed
<1>10. ASSUME m = 0 PROVE Whole(o)
  <2>1. Left(q, n, Len(o) + 1) <= 0
    BY <1>6, <1>7, <1>10
  <2>2. \A i \in 1 .. Len(o) : Genuine(s, q, o[i]) /\ o[i].packet.n = n /\ o[i].part = i
    <3>1. \A i \in 1 .. Len(o) : i = 1 /\ o[i] = f
      BY <1>6
    <3> QED
      BY <1>1, <3>1 DEF n
  <2> QED
    BY <1>6, <2>1, <2>2, WholeIs
<1> QED
  BY <1>8, <1>9, <1>10 DEF m, o

LEMMA WholeAdded ==
    ASSUME NEW S, NEW dl \in Seq(S), NEW p \in S, AllWhole(dl), OneConnection(p) => Whole(p)
    PROVE  AllWhole(Append(dl, p))
<1> DEFINE a == Append(dl, p)
           z == Len(dl)
<1>1. z \in Nat /\ Len(a) = z + 1 /\ a[z + 1] = p /\ \A i \in 1 .. z : a[i] = dl[i]
  BY Appended
<1>2. \A i \in 1 .. z : OneConnection(dl[i]) => Whole(dl[i])
  BY DEF AllWhole
<1> HIDE DEF a, z
<1>3. ASSUME NEW i \in 1 .. z + 1, OneConnection(a[i]) PROVE Whole(a[i])
  <2>1. i = z + 1 \/ i \in 1 .. z
    BY <1>1
  <2> QED
    BY <1>1, <1>2, <1>3, <2>1
<1> QED
  BY <1>1, <1>3 DEF AllWhole, a

\* AclAssembly() for the first frame of the line.
LEMMA FrameTaken ==
    ASSUME NEW g, NEW s, NEW q \in Packets, NEW c \in Conn(g), GoodConn(c),
           NEW F \in SUBSET RealFrame(g), NEW f \in RealFrame(g), \A x \in F : Before(f, x),
           NEW dl \in Seq(Seq(RealFrame(g))), \A i \in 1 .. Len(dl) : GoodPacket(dl[i]),
           NEW at, NEW l, NEW ups \in Nat,
           Flow(s, q, c.current, c.expected, dl, {f} \cup F, at, l, ups)
    PROVE  LET r == Assembled(AddConnection(c), f)
           IN  Flow(s, q, r.conn.current, r.conn.expected,
                    IF r.packet = <<>> THEN dl ELSE Append(dl, r.packet), F, at, l, ups)
<1> DEFINE d == AddConnection(c)
           cur == c.current
           expected == c.expected
           r == Assembled(d, f)
           a == IF IsStart(f) THEN <<f>> ELSE Append(cur, f)
           m == Missing(d, f)
<1>1. /\ cur \in Seq(RealFrame(g)) /\ expected \in Nat
      /\ d.current = cur /\ d.expected = expected /\ d \in Conn(g)
  BY DEF AddConnection, Conn
<1>2. Line(s, q, cur, dl, {f} \cup F, at, l, ups) /\ (ups <= 1 => Packed(q, cur, expected) /\ AllWhole(dl))
  BY DEF Flow, Line
<1>3. cur # <<>> => IsStart(cur[1]) /\ expected > 0
  BY DEF GoodConn
<1> HIDE DEF d, cur, expected
<1>4. \A e : Packed(q, <<>>, e)
  BY DEF Packed
<1>5. CASE cur = <<>> /\ ~IsStart(f)
  <2>1. r = [conn |-> d, packet |-> <<>>]
    BY <1>1, <1>5 DEF Assembled
  <2>2. r.conn.current = <<>> /\ r.conn.expected = expected /\ r.packet = <<>>
    BY <1>1, <1>5, <2>1
  <2> HIDE DEF r
  <2>3. Line(s, q, <<>>, dl, F, at, l, ups)
    <3> DEFINE G == {f} \cup F
    <3>1. G \in SUBSET RealFrame(g) /\ F \in SUBSET G /\ \A x \in G \ F : \A y \in F : Before(x, y)
      OBVIOUS
    <3>2. Line(s, q, cur, dl, G, at, l, ups)
      BY <1>2
    <3> HIDE DEF G
    <3> QED
      BY <1>1, <3>1, <3>2, LineNarrows
  <2>4. Flow(s, q, <<>>, expected, dl, F, at, l, ups)
    BY <1>2, <1>4, <2>3 DEF Flow, Line
  <2> QED
    BY <2>2, <2>4 DEF r, d
<1>6. CASE ~(cur = <<>> /\ ~IsStart(f))
  <2>1. Line(s, q, <<f>>, dl, F, at, l, ups)
        /\ (~IsStart(f) => Line(s, q, Append(cur, f), dl, F, at, l, ups))
    <3>1. cur \in Seq(RealFrame(g)) /\ Line(s, q, cur, dl, {f} \cup F, at, l, ups)
      BY <1>1, <1>2
    <3> QED
      BY <3>1, LineMoves
  <2>2. a \in Seq(RealFrame(g)) /\ a # <<>> /\ Line(s, q, a, dl, F, at, l, ups)
    <3>1. <<f>> \in Seq(RealFrame(g)) /\ <<f>> # <<>>
      OBVIOUS
    <3>2. Append(cur, f) \in Seq(RealFrame(g)) /\ Append(cur, f) # <<>>
      BY <1>1, Appended
    <3> QED
      BY <2>1, <3>1, <3>2
  <2>3. Genuine(s, q, f) /\ \A i \in 1 .. Len(cur) : Genuine(s, q, cur[i])
    <3>1. f \in Held(cur, {f} \cup F) /\ \A i \in 1 .. Len(cur) : cur[i] \in Held(cur, {f} \cup F)
      BY DEF Held
    <3> QED
      BY <1>2, <3>1 DEF Line, Sound
  <2>4. m \in Int /\ IsStart(a[1])
    <3>1. Alen(f) \in Nat /\ f.packet.total \in Nat
      BY DEF RealFrame
    <3>2. m \in Int
      BY <1>1, <3>1 DEF Missing
    <3>3. CASE IsStart(f)
      BY <3>2, <3>3
    <3>4. CASE ~IsStart(f)
      <4>1. cur # <<>> /\ Len(cur) \in Nat
        BY <1>1, <1>6, <3>4
      <4>2. 1 \in 1 .. Len(cur)
        BY <1>1, <4>1
      <4>3. Append(cur, f)[1] = cur[1]
        BY <1>1, <4>2, Appended
      <4> QED
        BY <1>3, <3>2, <3>4, <4>1, <4>3
    <3> QED
      BY <3>3, <3>4
  <2>5. ASSUME ups <= 1 PROVE (m > 0 => Packed(q, a, m)) /\ (m = 0 /\ OneConnection(a) => Whole(a))
    <3>1. CASE IsStart(f)
      <4>1. m = f.packet.total - Alen(f) /\ a = <<f>>
        BY <3>1 DEF Missing
      <4> HIDE DEF m, a
      <4> QED
        BY <2>3, <3>1, <4>1, PacketBegins
    <3>2. CASE ~IsStart(f)
      <4> SUFFICES ASSUME OneConnection(a) PROVE (m > 0 => Packed(q, a, m)) /\ (m = 0 => Whole(a))
        BY DEF Packed
      <4>1. /\ m = expected - Alen(f) /\ a = Append(cur, f) /\ cur # <<>>
        BY <1>1, <1>6, <3>2 DEF Missing
      <4> DEFINE n == cur[1].packet.n
                 z == Len(cur)
      <4>2. /\ Ranked(cur, {f} \cup F) /\ FewLost(q, Held(cur, {f} \cup F), at, l, ups)
            /\ Packed(q, cur, expected) /\ IsStart(cur[1]) /\ expected > 0 /\ (ups = 0 \/ ups = 1)
        BY <1>2, <1>3, <2>5, <4>1 DEF Line
      <4>3. /\ \A i \in 1 .. z : Before(cur[i], f)
            /\ \A i, j \in 1 .. z : i < j => Before(cur[i], cur[j])
        BY <4>2 DEF Ranked
      <4>4. /\ Len(a) = z + 1 /\ a[z + 1] = f /\ \A i \in 1 .. z : a[i] = cur[i]
            /\ z \in Nat /\ z > 0
        <5>1. Len(Append(cur, f)) = z + 1 /\ Append(cur, f)[z + 1] = f
              /\ \A i \in 1 .. z : Append(cur, f)[i] = cur[i]
          BY <1>1, Appended
        <5> QED
          BY <1>1, <4>1, <5>1
      <4> HIDE DEF m, a
      <4>5. OneConnection(Append(cur, f))
        BY <4>1
      <4>6. /\ f.packet.n = n /\ \A i \in 1 .. z : cur[i].packet.n = n
            /\ \/ /\ \A i \in 1 .. Len(a) : a[i].part = i
                  /\ \/ Left(q, n, f.part + 1) > 0 /\ m = Left(q, n, f.part + 1)
                     \/ Left(q, n, f.part + 1) <= 0 /\ m = 0
               \/ /\ \E k \in 2 .. f.part - 1 : \A i \in 1 .. Len(a) : a[i].part # k
                  /\ m > 0 /\ m > Left(q, n, f.part + 1)
        <5>1. /\ cur \in Seq(RealFrame(g)) /\ cur # <<>> /\ IsStart(cur[1])
              /\ expected \in Nat /\ expected > 0 /\ Packed(q, cur, expected)
              /\ \A x \in F : Before(f, x)
              /\ FewLost(q, Held(cur, {f} \cup F), at, l, ups) /\ (ups = 0 \/ ups = 1)
          BY <1>1, <4>1, <4>2
        <5>2. Continued(q, cur, f, Append(cur, f), expected - Alen(f))
          BY <2>3, <3>2, <4>3, <4>5, <5>1, PacketGrows
        <5> QED
          BY <4>1, <5>2 DEF Continued
      <4> HIDE DEF n, z
      <4>7. /\ \A i \in 1 .. Len(a) : Genuine(s, q, a[i]) /\ a[i].packet.n = n
        <5> SUFFICES ASSUME NEW i \in 1 .. z + 1 PROVE Genuine(s, q, a[i]) /\ a[i].packet.n = n
          BY <4>4
        <5>1. i = z + 1 \/ i \in 1 .. z
          BY <4>4
        <5>2. \A j \in 1 .. z : Genuine(s, q, cur[j])
          BY <2>3 DEF z
        <5> QED
          BY <2>3, <4>4, <4>6, <5>1, <5>2
      <4>8. a[1].packet.n = n /\ a[Len(a)].part = f.part
        <5>1. 1 \in 1 .. Len(a)
          BY <4>4
        <5> QED
          BY <4>4, <4>7, <5>1
      <4>9. ASSUME m > 0 PROVE Packed(q, a, m)
        <5>1. \/ (\A i \in 1 .. Len(a) : a[i].part = i) /\ m = Left(q, n, f.part + 1)
              \/ /\ \E k \in 2 .. f.part - 1 : \A i \in 1 .. Len(a) : a[i].part # k
                 /\ m > Left(q, n, f.part + 1)
          BY <4>6, <4>9
        <5> QED
          BY <4>7, <4>8, <5>1 DEF Packed
      <4>10. ASSUME m = 0 PROVE Whole(a)
        <5>1. (\A i \in 1 .. Len(a) : a[i].part = i) /\ Left(q, n, f.part + 1) <= 0
          BY <2>4, <4>6, <4>10
        <5>2. f.part = Len(a)
          <6>1. Len(a) \in 1 .. Len(a)
            BY <4>4
          <6> QED
            BY <4>8, <5>1, <6>1
        <5> QED
          BY <2>2, <4>7, <5>1, <5>2, WholeIs
      <4> QED
        BY <4>9, <4>10
    <3> QED
      BY <3>1, <3>2
  <2>6. r = [conn |-> IF m > 0 THEN [d EXCEPT !.current = a, !.expected = m]
                      ELSE [d EXCEPT !.current = <<>>, !.expected = 0],
             packet |-> IF m = 0 THEN a ELSE <<>>]
    BY <1>1, <1>6 DEF Assembled, Grown, Current
  <2> HIDE DEF r, m, a
  <2>7. CASE m > 0
    <3>1. r.conn.current = a /\ r.conn.expected = m /\ r.packet = <<>>
      <4>1. r.conn = [d EXCEPT !.current = a, !.expected = m] /\ r.packet = <<>>
        BY <2>4, <2>6, <2>7
      <4> QED
        BY <1>1, <4>1 DEF Conn
    <3>2. Flow(s, q, a, m, dl, F, at, l, ups)
      BY <1>2, <2>2, <2>5, <2>7 DEF Flow, Line
    <3> QED
      BY <3>1, <3>2 DEF r, d
  <2>8. CASE ~(m > 0)
    <3>1. r.conn.current = <<>> /\ r.conn.expected = 0 /\ r.packet = IF m = 0 THEN a ELSE <<>>
      <4>1. r.conn = [d EXCEPT !.current = <<>>, !.expected = 0] /\ r.packet = IF m = 0 THEN a ELSE <<>>
        BY <2>4, <2>6, <2>8
      <4> QED
        BY <1>1, <4>1 DEF Conn
    <3>2. CASE m = 0
      <4>1. Line(s, q, <<>>, Append(dl, a), F, at, l, ups)
        BY <2>2, <2>4, LineHands
      <4>2. ups <= 1 => AllWhole(Append(dl, a))
        BY <1>2, <2>2, <2>5, <3>2, WholeAdded
      <4>3. Flow(s, q, <<>>, 0, Append(dl, a), F, at, l, ups)
        BY <1>4, <4>1, <4>2 DEF Flow, Line
      <4> QED
        BY <2>2, <3>1, <3>2, <4>3 DEF r, d
    <3>3. CASE m # 0
      <4>1. Line(s, q, <<>>, dl, F, at, l, ups)
        <5>1. F \in SUBSET F /\ F \ F = {}
          OBVIOUS
        <5> QED
          BY <2>2, <5>1, LineNarrows
      <4>2. Flow(s, q, <<>>, 0, dl, F, at, l, ups)
        BY <1>2, <1>4, <4>1 DEF Flow, Line
      <4> QED
        BY <3>1, <3>3, <4>2 DEF r, d
    <3> QED
      BY <3>2, <3>3
  <2> QED
    BY <2>7, <2>8
<1> QED
  BY <1>5, <1>6

----------------------------------------------------------------------------
\* Senders and links

LEMMA FewLostKept ==
    ASSUME NEW q, NEW X, NEW at, NEW l, NEW ups \in Nat, FewLost(q, X, at, l, ups),
           NEW at2, NEW l2, NEW ups2 \in {ups, ups + 1},
           \A c, n, p : Lost(q, X, at2, l2, c, n, p) => Lost(q, X, at, l, c, n, p)
    PROVE  FewLost(q, X, at2, l2, ups2)
<1> SUFFICES ASSUME NEW c, NEW n, NEW p, Lost(q, X, at2, l2, c, n, p)
    PROVE  ups2 > 0 /\ (ups2 = 1 => \A m, k : Lost(q, X, at2, l2, c, m, k) => m = n /\ k = p)
  BY DEF FewLost
<1>1. Lost(q, X, at, l, c, n, p)
  OBVIOUS
<1>2. ups > 0 /\ (ups = 1 => \A m, k : Lost(q, X, at, l, c, m, k) => m = n /\ k = p)
  BY <1>1 DEF FewLost
<1>3. ups2 > 0 /\ (ups2 = 1 => ups = 1)
  BY <1>2
<1> QED
  BY <1>2, <1>3

\* Where the sender stands and what the link is, not what is on its way.
LEMMA FlowKept ==
    ASSUME NEW g, NEW s, NEW q \in Packets, NEW cur \in Seq(RealFrame(g)), NEW expected,
           NEW dl \in Seq(Seq(RealFrame(g))), \A i \in 1 .. Len(dl) : GoodPacket(dl[i]),
           NEW F \in SUBSET RealFrame(g), NEW at, NEW l, NEW ups \in Nat, l.gen \in Nat,
           Flow(s, q, cur, expected, dl, F, at, l, ups),
           NEW at2, NEW l2, NEW ups2 \in Nat, ups <= ups2, l2.gen \in Nat, l.gen <= l2.gen,
           \A n, p \in Nat : Sent(at, n, p) => Sent(at2, n, p),
           FewLost(q, Held(cur, F), at2, l2, ups2), g \in Nat
    PROVE  Flow(s, q, cur, expected, dl, F, at2, l2, ups2)
<1> DEFINE X == Held(cur, F)
<1>1. X \in SUBSET RealFrame(g)
  BY HeldType
<1>2. Sound(s, q, X, at, l) /\ Handed(dl, X, at) /\ Ranked(cur, F)
      /\ (ups <= 1 => Packed(q, cur, expected) /\ AllWhole(dl))
  BY DEF Flow
<1> HIDE DEF X
<1>3. \A f \in X : f.packet.n \in Nat /\ f.part \in Nat /\ f.gen \in Nat
  BY <1>1 DEF RealFrame
<1>4. Sound(s, q, X, at2, l2)
  BY <1>2, <1>3 DEF Sound
<1>5. ASSUME NEW i \in 1 .. Len(dl) PROVE Sent(at2, dl[i][1].packet.n, dl[i][1].part)
  <2>1. dl[i] \in Seq(RealFrame(g)) /\ dl[i] # <<>>
    BY DEF GoodPacket
  <2>2. dl[i][1] \in RealFrame(g)
    BY <2>1
  <2>3. dl[i][1].packet.n \in Nat /\ dl[i][1].part \in Nat
    BY <2>2 DEF RealFrame
  <2>4. Sent(at, dl[i][1].packet.n, dl[i][1].part)
    BY <1>2 DEF Handed
  <2> QED
    BY <2>3, <2>4
<1>6. Handed(dl, X, at2)
  BY <1>2, <1>5 DEF Handed
<1>7. ups2 <= 1 => ups <= 1
  OBVIOUS
<1> QED
  BY <1>2, <1>4, <1>6, <1>7 DEF Flow, X

\* Something else went wrong.
LEMMA FlowUpset ==
    ASSUME NEW g \in Nat, NEW s, NEW q \in Packets, NEW cur \in Seq(RealFrame(g)), NEW expected,
           NEW dl \in Seq(Seq(RealFrame(g))), \A i \in 1 .. Len(dl) : GoodPacket(dl[i]),
           NEW F \in SUBSET RealFrame(g), NEW at, NEW l, NEW ups \in Nat, l.gen \in Nat,
           Flow(s, q, cur, expected, dl, F, at, l, ups)
    PROVE  Flow(s, q, cur, expected, dl, F, at, l, ups + 1)
<1>1. FewLost(q, Held(cur, F), at, l, ups)
  BY DEF Flow
<1>2. FewLost(q, Held(cur, F), at, l, ups + 1)
  BY <1>1, FewLostKept
<1>3. ups + 1 \in Nat /\ ups <= ups + 1 /\ l.gen <= l.gen
  OBVIOUS
<1> QED
  BY <1>2, <1>3, FlowKept

\* The sender begins with its next packet.
LEMMA FlowPosted ==
    ASSUME NEW g \in Nat, NEW s, NEW q \in Packets, NEW cur \in Seq(RealFrame(g)), NEW expected,
           NEW dl \in Seq(Seq(RealFrame(g))), \A i \in 1 .. Len(dl) : GoodPacket(dl[i]),
           NEW F \in SUBSET RealFrame(g), NEW at \in [n : Nat, sent : Nat], NEW l, NEW ups \in Nat,
           l.gen \in Nat, Flow(s, q, cur, expected, dl, F, at, l, ups),
           at.n > 0 => at.n \in 1 .. Len(q) /\ at.sent >= (q[at.n] + Mtu - 1) \div Mtu
    PROVE  Flow(s, q, cur, expected, dl, F, [n |-> at.n + 1, sent |-> 0], l, ups)
<1> DEFINE X == Held(cur, F)
           e == [n |-> at.n + 1, sent |-> 0]
<1>1. at.n \in Nat /\ at.sent \in Nat /\ e.n = at.n + 1 /\ e.sent = 0
  OBVIOUS
<1>2. FewLost(q, X, at, l, ups)
  BY DEF Flow
<1> HIDE DEF X, e
<1>3. \A n, p \in Nat : Sent(at, n, p) => Sent(e, n, p)
  BY <1>1 DEF Sent
<1>4. ASSUME NEW n, NEW p, Place(q, n, p), Sent(e, n, p) PROVE Sent(at, n, p)
  <2>1. n \in 1 .. Len(q) /\ p \in Nat \ {0} /\ Left(q, n, p) > 0 /\ n \in Nat
    BY <1>4 DEF Place, Packets
  <2>2. n <= at.n
    BY <1>1, <1>4, <2>1 DEF Sent
  <2>3. CASE n < at.n
    BY <2>3 DEF Sent
  <2>4. CASE n = at.n
    <3> DEFINE t == q[n]
               k == (t + Mtu - 1) \div Mtu
    <3>1. at.sent >= k
      BY <2>1, <2>4
    <3>2. t \in Nat \ {0} /\ p - 1 \in Nat
      BY <2>1 DEF Packets
    <3>3. t - (p - 1) * Mtu > 0
      BY <2>1 DEF Left
    <3> HIDE DEF t
    <3>4. p - 1 < k
      BY <3>2, <3>3, PartsThere
    <3>5. k \in Int
      <4>1. t + Mtu - 1 \in Int /\ Mtu \in Nat \ {0}
        BY <3>2, SizeAssumption
      <4> QED
        BY <4>1, DivMod
    <3> HIDE DEF k
    <3>6. p <= at.sent
      BY <1>1, <2>1, <3>1, <3>4, <3>5
    <3> QED
      BY <2>4, <3>6 DEF Sent
  <2> QED
    BY <1>1, <2>1, <2>2, <2>3, <2>4
<1>5. \A c, n, p : Lost(q, X, e, l, c, n, p) => Lost(q, X, at, l, c, n, p)
  BY <1>4 DEF Lost
<1>6. FewLost(q, X, e, l, ups)
  BY <1>2, <1>5, FewLostKept
<1>7. ups <= ups /\ l.gen <= l.gen
  OBVIOUS
<1>8. Flow(s, q, cur, expected, dl, F, e, l, ups)
  BY <1>3, <1>6, <1>7, FlowKept DEF X
<1> QED
  BY <1>8 DEF e

\* The next part of the packet.
Next1(at) == [n |-> at.n, sent |-> at.sent + 1]

LEMMA SentOneMore ==
    ASSUME NEW at \in [n : Nat, sent : Nat]
    PROVE  /\ Next1(at).n = at.n /\ Next1(at).sent = at.sent + 1
           /\ \A n, p \in Nat : Sent(at, n, p) => Sent(Next1(at), n, p)
           /\ \A n, p \in Nat : Sent(Next1(at), n, p) =>
                  Sent(at, n, p) \/ (n = at.n /\ p = at.sent + 1)
           /\ \A n, p \in Nat : Sent(at, n, p) => Earlier(n, p, at.n, at.sent + 1)
           /\ \A n, p \in Nat : Earlier(n, p, at.n, at.sent + 1) => Sent(at, n, p)
<1> DEFINE e == Next1(at)
<1>1. at.n \in Nat /\ at.sent \in Nat /\ e.n = at.n /\ e.sent = at.sent + 1
  BY DEF Next1
<1> HIDE DEF e
<1>2. \A n, p \in Nat : Sent(at, n, p) => Sent(e, n, p)
  BY <1>1 DEF Sent
<1>3. \A n, p \in Nat : Sent(e, n, p) => Sent(at, n, p) \/ (n = at.n /\ p = at.sent + 1)
  BY <1>1 DEF Sent
<1>4. \A n, p \in Nat : Sent(at, n, p) => Earlier(n, p, at.n, at.sent + 1)
  BY <1>1 DEF Sent, Earlier
<1>5. \A n, p \in Nat : Earlier(n, p, at.n, at.sent + 1) => Sent(at, n, p)
  BY <1>1 DEF Sent, Earlier
<1> QED
  BY <1>1, <1>2, <1>3, <1>4, <1>5 DEF e

\* What goes out for a link that is down does not count as lost.
LEMMA FlowSkipped ==
    ASSUME NEW g \in Nat, NEW s, NEW q \in Packets, NEW cur \in Seq(RealFrame(g)), NEW expected,
           NEW dl \in Seq(Seq(RealFrame(g))), \A i \in 1 .. Len(dl) : GoodPacket(dl[i]),
           NEW F \in SUBSET RealFrame(g), NEW at \in [n : Nat, sent : Nat], NEW l, NEW ups \in Nat,
           l.gen \in Nat, ~l.up, Flow(s, q, cur, expected, dl, F, at, l, ups)
    PROVE  Flow(s, q, cur, expected, dl, F, Next1(at), l, ups)
<1> DEFINE X == Held(cur, F)
           e == Next1(at)
<1>1. FewLost(q, X, at, l, ups)
  BY DEF Flow
<1>2. \A n, p \in Nat : Sent(at, n, p) => Sent(e, n, p)
  BY SentOneMore
<1> HIDE DEF X, e
<1>3. \A c, n, p : Lost(q, X, e, l, c, n, p) => Lost(q, X, at, l, c, n, p)
  BY DEF Lost
<1>4. FewLost(q, X, e, l, ups)
  BY <1>1, <1>3, FewLostKept
<1>5. ups <= ups /\ l.gen <= l.gen
  OBVIOUS
<1>6. Flow(s, q, cur, expected, dl, F, e, l, ups)
  BY <1>2, <1>4, <1>5, FlowKept DEF X
<1> QED
  BY <1>6 DEF e

\* The driver refuses a frame: with nothing lost before, only that is.
LEMMA FlowRefused ==
    ASSUME NEW g \in Nat, NEW s, NEW q \in Packets, NEW cur \in Seq(RealFrame(g)), NEW expected,
           NEW dl \in Seq(Seq(RealFrame(g))), \A i \in 1 .. Len(dl) : GoodPacket(dl[i]),
           NEW F \in SUBSET RealFrame(g), NEW at \in [n : Nat, sent : Nat], NEW l, NEW ups \in Nat,
           l.gen \in Nat, Flow(s, q, cur, expected, dl, F, at, l, ups)
    PROVE  Flow(s, q, cur, expected, dl, F, Next1(at), l, ups + 1)
<1> DEFINE X == Held(cur, F)
           e == Next1(at)
<1>1. FewLost(q, X, at, l, ups)
  BY DEF Flow
<1>2. /\ \A n, p \in Nat : Sent(at, n, p) => Sent(e, n, p)
      /\ \A n, p \in Nat : Sent(e, n, p) => Sent(at, n, p) \/ (n = at.n /\ p = at.sent + 1)
  BY SentOneMore
<1> HIDE DEF X, e
<1>3. ASSUME NEW c, NEW n, NEW p, Lost(q, X, e, l, c, n, p)
      PROVE  Lost(q, X, at, l, c, n, p) \/ (n = at.n /\ p = at.sent + 1)
  <2>1. n \in Nat /\ p \in Nat
    BY <1>3 DEF Lost, Place, Packets
  <2> QED
    BY <1>2, <1>3, <2>1 DEF Lost
<1>4. FewLost(q, X, e, l, ups + 1)
  <2> SUFFICES ASSUME NEW c, NEW n, NEW p, Lost(q, X, e, l, c, n, p)
      PROVE  ups + 1 > 0 /\ (ups + 1 = 1 => \A m, k : Lost(q, X, e, l, c, m, k) => m = n /\ k = p)
    BY DEF FewLost
  <2>1. ups + 1 > 0
    OBVIOUS
  <2>2. ASSUME ups + 1 = 1, NEW m, NEW k, Lost(q, X, e, l, c, m, k) PROVE m = n /\ k = p
    <3>1. ~(ups > 0)
      BY <2>2
    <3>2. ~Lost(q, X, at, l, c, m, k) /\ ~Lost(q, X, at, l, c, n, p)
      BY <1>1, <3>1 DEF FewLost
    <3> QED
      BY <1>3, <2>2, <3>2
  <2> QED
    BY <2>1, <2>2
<1>5. ups + 1 \in Nat /\ ups <= ups + 1 /\ l.gen <= l.gen
  OBVIOUS
<1>6. Flow(s, q, cur, expected, dl, F, e, l, ups + 1)
  BY <1>2, <1>4, <1>5, FlowKept, ZenonT(40) DEF X
<1> QED
  BY <1>6 DEF e

\* The link goes up, with a connection that nothing was sent in, or down.
LEMMA FlowRelinked ==
    ASSUME NEW g \in Nat, NEW s, NEW q \in Packets, NEW cur \in Seq(RealFrame(g)), NEW expected,
           NEW dl \in Seq(Seq(RealFrame(g))), \A i \in 1 .. Len(dl) : GoodPacket(dl[i]),
           NEW F \in SUBSET RealFrame(g), NEW at, NEW l, NEW ups \in Nat,
           l.gen \in Nat, NEW k, k.gen \in Nat, l.gen <= k.gen, k.up => l.gen < k.gen,
           Flow(s, q, cur, expected, dl, F, at, l, ups)
    PROVE  Flow(s, q, cur, expected, dl, F, at, k, ups)
<1> DEFINE X == Held(cur, F)
<1>1. FewLost(q, X, at, l, ups) /\ Sound(s, q, X, at, l)
  BY DEF Flow
<1>2. X \in SUBSET RealFrame(g)
  BY HeldType
<1> HIDE DEF X
<1>3. \A f \in X : f.gen \in Nat /\ f.gen <= l.gen
  BY <1>1, <1>2 DEF Sound, RealFrame
<1>4. ASSUME NEW c, NEW n, NEW p, Lost(q, X, at, k, c, n, p) PROVE Lost(q, X, at, l, c, n, p)
  <2>1. PICK x \in X : x.gen = c /\ Earlier(x.packet.n, x.part, n, p)
    BY <1>4 DEF Lost
  <2>2. ~(k.up /\ k.gen = c)
    BY <1>3, <2>1
  <2> QED
    BY <1>4, <2>2 DEF Lost
<1>5. FewLost(q, X, at, k, ups)
  BY <1>1, <1>4, FewLostKept
<1>6. ups <= ups
  OBVIOUS
<1> QED
  BY <1>5, <1>6, FlowKept DEF X

\* The controller takes the frame, behind all that the sender sent.
LEMMA FlowSent ==
    ASSUME NEW g \in Nat, NEW s, NEW q \in Packets, NEW cur \in Seq(RealFrame(g)), NEW expected,
           NEW dl \in Seq(Seq(RealFrame(g))), \A i \in 1 .. Len(dl) : GoodPacket(dl[i]),
           NEW F \in SUBSET RealFrame(g), NEW at \in [n : Nat, sent : Nat], NEW l, NEW ups \in Nat,
           l.gen \in Nat, l.up, Flow(s, q, cur, expected, dl, F, at, l, ups),
           NEW f \in RealFrame(g), Genuine(s, q, f), f.packet.n = at.n, f.part = at.sent + 1,
           f.gen = l.gen
    PROVE  /\ \A x \in F : Before(x, f)
           /\ Flow(s, q, cur, expected, dl, F \cup {f}, Next1(at), l, ups)
<1> DEFINE X == Held(cur, F)
           Y == Held(cur, F \cup {f})
           e == Next1(at)
<1>1. /\ Sound(s, q, X, at, l) /\ Handed(dl, X, at) /\ Ranked(cur, F) /\ FewLost(q, X, at, l, ups)
      /\ (ups <= 1 => Packed(q, cur, expected) /\ AllWhole(dl))
  BY DEF Flow
<1>2. X \in SUBSET RealFrame(g)
  BY HeldType
<1>3. Y = X \cup {f} /\ F \subseteq X /\ \A i \in 1 .. Len(cur) : cur[i] \in X
  BY DEF Held
<1>4. /\ \A n, p \in Nat : Sent(at, n, p) => Sent(e, n, p)
      /\ \A n, p \in Nat : Sent(e, n, p) => Sent(at, n, p) \/ (n = at.n /\ p = at.sent + 1)
      /\ \A n, p \in Nat : Sent(at, n, p) => Earlier(n, p, at.n, at.sent + 1)
      /\ \A n, p \in Nat : Earlier(n, p, at.n, at.sent + 1) => Sent(at, n, p)
      /\ e.n = at.n /\ e.sent = at.sent + 1
  BY SentOneMore
<1> HIDE DEF X, Y, e
<1>5. \A x \in X : x.packet.n \in Nat /\ x.part \in Nat
  BY <1>2 DEF RealFrame
<1>6. \A x \in X : Before(x, f)
  <2> SUFFICES ASSUME NEW x \in X PROVE Before(x, f)
    OBVIOUS
  <2>1. Sent(at, x.packet.n, x.part)
    BY <1>1 DEF Sound
  <2>2. Earlier(x.packet.n, x.part, at.n, at.sent + 1)
    BY <1>4, <1>5, <2>1
  <2> QED
    BY <2>2 DEF Before
<1>7. at.n \in Nat /\ at.sent \in Nat
  OBVIOUS
<1>8. Sent(e, f.packet.n, f.part)
  BY <1>4, <1>7 DEF Sent
<1>9. Sound(s, q, Y, e, l)
  <2> SUFFICES ASSUME NEW x \in Y
      PROVE  Genuine(s, q, x) /\ Sent(e, x.packet.n, x.part) /\ x.gen <= l.gen
    BY DEF Sound
  <2>1. CASE x \in X
    <3>1. Genuine(s, q, x) /\ Sent(at, x.packet.n, x.part) /\ x.gen <= l.gen
      BY <1>1, <2>1 DEF Sound
    <3> QED
      BY <1>4, <1>5, <2>1, <3>1
  <2>2. CASE x = f
    BY <1>8, <2>2
  <2> QED
    BY <1>3, <2>1, <2>2
<1>10. Ranked(cur, F \cup {f})
  BY <1>1, <1>3, <1>6 DEF Ranked
<1>11. ASSUME NEW i \in 1 .. Len(dl)
       PROVE  Sent(e, dl[i][1].packet.n, dl[i][1].part) /\ \A x \in Y : Before(dl[i][1], x)
  <2> DEFINE o == dl[i][1]
  <2>1. dl[i] \in Seq(RealFrame(g)) /\ dl[i] # <<>>
    BY DEF GoodPacket
  <2>2. o \in RealFrame(g)
    BY <2>1
  <2>3. o.packet.n \in Nat /\ o.part \in Nat
    BY <2>2 DEF RealFrame
  <2>4. Sent(at, o.packet.n, o.part) /\ \A x \in X : Before(o, x)
    BY <1>1 DEF Handed
  <2> HIDE DEF o
  <2>5. Sent(e, o.packet.n, o.part) /\ Earlier(o.packet.n, o.part, at.n, at.sent + 1)
    BY <1>4, <2>3, <2>4
  <2>6. Before(o, f)
    BY <2>5 DEF Before
  <2>7. \A x \in Y : Before(o, x)
    BY <1>3, <2>4, <2>6
  <2> QED
    BY <2>5, <2>7 DEF o
<1>12. Handed(dl, Y, e)
  BY <1>1, <1>11 DEF Handed
<1>13. ASSUME NEW c, NEW n, NEW p, Lost(q, Y, e, l, c, n, p) PROVE Lost(q, X, at, l, c, n, p)
  <2>1. n \in Nat /\ p \in Nat /\ Place(q, n, p)
    BY <1>13 DEF Lost, Place, Packets
  <2>2. \A x \in Y : x.gen = c => x.packet.n # n \/ x.part # p
    BY <1>13 DEF Lost
  <2>3. PICK x \in Y : x.gen = c /\ Earlier(x.packet.n, x.part, n, p)
    BY <1>13 DEF Lost
  <2>4. \/ \E y \in Y : y.gen = c /\ Earlier(n, p, y.packet.n, y.part)
        \/ l.up /\ l.gen = c /\ Sent(e, n, p)
    BY <1>13 DEF Lost
  <2>5. f \in Y /\ f.packet.n \in Nat /\ f.part \in Nat
    BY <1>3, <1>7
  <2>6. (\E y \in X : y.gen = c /\ Earlier(n, p, y.packet.n, y.part))
        \/ (l.gen = c /\ Sent(at, n, p))
    <3>1. CASE \E y \in Y : y.gen = c /\ Earlier(n, p, y.packet.n, y.part)
      <4>1. PICK y \in Y : y.gen = c /\ Earlier(n, p, y.packet.n, y.part)
        BY <3>1
      <4>2. CASE y \in X
        BY <4>1, <4>2
      <4>3. CASE y = f
        <5>1. Earlier(n, p, at.n, at.sent + 1) /\ l.gen = c
          BY <4>1, <4>3
        <5> QED
          BY <1>4, <2>1, <5>1
      <4> QED
        BY <1>3, <4>1, <4>2, <4>3
    <3>2. CASE l.gen = c /\ Sent(e, n, p)
      <4>1. ~(n = at.n /\ p = at.sent + 1)
        BY <2>2, <2>5, <3>2
      <4> QED
        BY <1>4, <2>1, <3>2, <4>1
    <3> QED
      BY <2>4, <3>1, <3>2
  <2>7. x # f
    <3> SUFFICES ASSUME x = f PROVE FALSE
      OBVIOUS
    <3>1. Earlier(at.n, at.sent + 1, n, p)
      BY <2>3
    <3>2. Earlier(n, p, at.n, at.sent + 1)
      <4>1. CASE \E y \in X : y.gen = c /\ Earlier(n, p, y.packet.n, y.part)
        <5>1. PICK y \in X : Earlier(n, p, y.packet.n, y.part)
          BY <4>1
        <5>2. Before(y, f) /\ y.packet.n \in Nat /\ y.part \in Nat
          BY <1>5, <1>6
        <5> QED
          BY <1>7, <2>1, <5>1, <5>2 DEF Before, Earlier
      <4>2. CASE Sent(at, n, p)
        BY <1>4, <2>1, <4>2
      <4> QED
        BY <2>6, <4>1, <4>2
    <3> QED
      BY <1>7, <2>1, <3>1, <3>2 DEF Earlier
  <2>8. x \in X
    BY <1>3, <2>7
  <2>9. \A y \in X : y.gen = c => y.packet.n # n \/ y.part # p
    BY <1>3, <2>2
  <2>10. \E y \in X : y.gen = c /\ Earlier(y.packet.n, y.part, n, p)
    BY <2>3, <2>8
  <2>11. \/ \E y \in X : y.gen = c /\ Earlier(n, p, y.packet.n, y.part)
         \/ l.up /\ l.gen = c /\ Sent(at, n, p)
    BY <2>6
  <2> QED
    BY <2>1, <2>9, <2>10, <2>11 DEF Lost
<1>14. FewLost(q, Y, e, l, ups)
  <2> SUFFICES ASSUME NEW c, NEW n, NEW p, Lost(q, Y, e, l, c, n, p)
      PROVE  ups > 0 /\ (ups = 1 => \A m, k : Lost(q, Y, e, l, c, m, k) => m = n /\ k = p)
    BY DEF FewLost
  <2>1. Lost(q, X, at, l, c, n, p)
    BY <1>13
  <2>2. ups > 0 /\ (ups = 1 => \A m, k : Lost(q, X, at, l, c, m, k) => m = n /\ k = p)
    BY <1>1, <2>1 DEF FewLost
  <2> QED
    BY <1>13, <2>2
<1>15. Flow(s, q, cur, expected, dl, F \cup {f}, e, l, ups)
  BY <1>1, <1>9, <1>10, <1>12, <1>14 DEF Flow, Y
<1> QED
  BY <1>3, <1>6, <1>15 DEF e

----------------------------------------------------------------------------
\* The way of the frames on a link

Follow(u, v) == Before(u.frame, v.frame) \/ (u.frame = v.frame /\ u.at < v.at)

Ordered(h, w) ==
    \A i, j \in 1 .. Len(w) :
        i < j /\ Handle(w[i].frame) = h /\ Handle(w[j].frame) = h => Follow(w[i], w[j])

Road(h, w) == {w[i].frame : i \in {j \in 1 .. Len(w) : Handle(w[j].frame) = h}}

Sole(s, h) ==
    /\ plan[s].link = h /\ plan[s].packets # <<>>
    /\ \A r \in Senders : plan[r].link = h /\ plan[r].packets # <<>> => r = s

\* w is what is on its way, d what has arrived.
Way(w, d, at, l, ups) ==
    \A s \in Senders, h \in Handles : Sole(s, h) =>
        /\ Ordered(h, w)
        /\ Flow(s, plan[s].packets, d.conns[h].current, d.conns[h].expected, d.delivered[h],
                Road(h, w), at[s], l[h], ups)

LEMMA RoadType ==
    ASSUME NEW g, NEW w \in Seq(Unit(g)), NEW h
    PROVE  Road(h, w) \in SUBSET RealFrame(g)
<1>1. \A i \in 1 .. Len(w) : w[i].frame \in RealFrame(g)
  BY UnitType
<1> QED
  BY <1>1 DEF Road

\* On the way to h, v is w without the frame f at its beginning.
Passed(h, f, w, v) ==
    /\ Ordered(h, w) => Ordered(h, v)
    /\ Handle(f) # h => Road(h, v) = Road(h, w)
    /\ Handle(f) = h => Road(h, w) = {f} \cup Road(h, v)
    /\ Handle(f) = h /\ Ordered(h, w) => \A x \in Road(h, v) : Before(f, x)

\* The frame f ends with the k-th unit of w; v is the rest.
LEMMA RoadShrinks ==
    ASSUME NEW g, NEW w \in Seq(Unit(g)), NEW k \in 1 .. Len(w), NEW f,
           \A i \in 1 .. k : w[i].frame = f, w[k].at = Alen(f),
           NEW v \in Seq(Unit(g)), Len(v) = Len(w) - k, \A i \in 1 .. Len(v) : v[i] = w[k + i],
           NEW h
    PROVE  Passed(h, f, w, v)
<1> DEFINE n == Len(w)
           m == Len(v)
<1>1. n \in Nat /\ m \in Nat /\ k \in Nat /\ k >= 1 /\ n = k + m /\ k <= n
  OBVIOUS
<1> HIDE DEF n, m
<1>2. \A i \in 1 .. m : k + i \in 1 .. n /\ v[i] = w[k + i]
  <2>1. \A i \in 1 .. m : k + i \in 1 .. n
    BY <1>1
  <2>2. \A i \in 1 .. m : v[i] = w[k + i]
    BY DEF m
  <2> QED
    BY <2>1, <2>2
<1>3. ASSUME Ordered(h, w) PROVE Ordered(h, v)
  <2>1. \A i, j \in 1 .. n :
            i < j /\ Handle(w[i].frame) = h /\ Handle(w[j].frame) = h => Follow(w[i], w[j])
    BY <1>3 DEF Ordered, n
  <2>2. ASSUME NEW i \in 1 .. m, NEW j \in 1 .. m, i < j,
               Handle(v[i].frame) = h, Handle(v[j].frame) = h
        PROVE  Follow(v[i], v[j])
    <3>1. k + i < k + j /\ k + i \in 1 .. n /\ k + j \in 1 .. n
      BY <1>1, <1>2, <2>2
    <3> QED
      BY <1>2, <2>1, <2>2, <3>1
  <2> QED
    BY <2>2 DEF Ordered, m
<1>4. \A x : x \in Road(h, v) <=> \E i \in 1 .. m : x = v[i].frame /\ Handle(v[i].frame) = h
  BY DEF Road, m
<1>5. \A x : x \in Road(h, w) <=> \E i \in 1 .. n : x = w[i].frame /\ Handle(w[i].frame) = h
  BY DEF Road, n
<1>6. Road(h, v) \subseteq Road(h, w)
  BY <1>2, <1>4, <1>5
<1>7. ASSUME NEW x \in Road(h, w) PROVE x \in Road(h, v) \/ (x = f /\ Handle(f) = h)
  <2>1. PICK i \in 1 .. n : x = w[i].frame /\ Handle(w[i].frame) = h
    BY <1>5
  <2>2. CASE i \in 1 .. k
    BY <2>1, <2>2
  <2>3. CASE i \notin 1 .. k
    <3>1. i - k \in 1 .. m /\ k + (i - k) = i
      BY <1>1, <2>3
    <3>2. v[i - k] = w[i]
      BY <1>2, <3>1
    <3> QED
      BY <1>4, <2>1, <3>1, <3>2
  <2> QED
    BY <2>2, <2>3
<1>8. ASSUME Handle(f) = h PROVE f \in Road(h, w)
  <2>1. k \in 1 .. n /\ w[k].frame = f
    BY <1>1
  <2> QED
    BY <1>5, <1>8, <2>1
<1>9. ASSUME Handle(f) = h, Ordered(h, w), NEW x \in Road(h, v) PROVE Before(f, x)
  <2>1. PICK i \in 1 .. m : x = v[i].frame /\ Handle(v[i].frame) = h
    BY <1>4, <1>9
  <2>2. k \in 1 .. n /\ k + i \in 1 .. n /\ k < k + i /\ v[i] = w[k + i]
    BY <1>1, <1>2
  <2>3. Follow(w[k], w[k + i])
    BY <1>9, <2>1, <2>2 DEF Ordered, n
  <2>4. w[k].frame = f /\ w[k].at = Alen(f) /\ v[i] \in Unit(g)
    BY <2>2 DEF m, n
  <2>5. CASE Before(w[k].frame, w[k + i].frame)
    BY <2>1, <2>2, <2>4, <2>5
  <2>6. CASE w[k].frame = w[k + i].frame /\ w[k].at < w[k + i].at
    <3>1. v[i].frame = f /\ Alen(f) < v[i].at
      BY <2>2, <2>4, <2>6
    <3>2. v[i].at \in Nat /\ Alen(v[i].frame) \in Nat /\ v[i].at <= Alen(v[i].frame)
      BY <2>4, UnitType
    <3> QED
      BY <3>1, <3>2
  <2> QED
    BY <2>3, <2>5, <2>6 DEF Follow
<1>10. ASSUME Handle(f) # h PROVE Road(h, v) = Road(h, w)
  BY <1>6, <1>7, <1>10
<1>11. ASSUME Handle(f) = h PROVE Road(h, w) = {f} \cup Road(h, v)
  BY <1>6, <1>7, <1>8, <1>11
<1> QED
  BY <1>3, <1>9, <1>10, <1>11 DEF Passed

\* One round of Assemble(): a unit more in the buffer, or the frame is there.
LEMMA UnitEnds ==
    ASSUME NEW g, NEW d \in Desk(g), Cut(d.buffer, d.expected),
           NEW r \in Seq(Unit(g)), r # <<>>, Stream(d.buffer \o r)
    PROVE  LET u == r[1]
               y == AssembleUnit(d, u)
           IN  \/ y.conns = d.conns /\ y.delivered = d.delivered /\ y.buffer \o Tail(r) = d.buffer \o r
               \/ /\ u.at = Alen(u.frame)
                  /\ \A i \in 1 .. Len(d.buffer) : d.buffer[i].frame = u.frame
                  /\ y = AclAssembly([d EXCEPT !.buffer = <<>>, !.expected = 0], u.frame)
<1> DEFINE u == r[1]
           b == d.buffer
           n == Len(b)
           e == IF b = <<>> THEN ExpectedPacketSize(u.frame) ELSE d.expected
           a == Append(b, u)
           y == AssembleUnit(d, u)
<1>1. b \in Seq(Unit(g)) /\ d.expected \in Nat /\ n \in Nat
  BY DEF Desk
<1>2. /\ u \in Unit(g)
      /\ b = <<>> => u.at = 0
      /\ b # <<>> => u = [frame |-> b[1].frame, at |-> n]
  BY <1>1, NextUnit
<1>3. u.at \in Nat /\ Alen(u.frame) \in Nat /\ u.at <= Alen(u.frame)
  BY <1>2, UnitType
<1>4. /\ a \in Seq(Unit(g)) /\ Len(a) = n + 1
      /\ \A i \in 1 .. n : a[i] = b[i]
      /\ a[n + 1] = u
  <2> HIDE DEF b, u
  <2> QED
    BY <1>1, <1>2, Appended, ZenonT(40)
<1>5. u.at = n /\ e = Alen(u.frame) + 1 /\ \A i \in 1 .. n : b[i].frame = u.frame
  <2>1. CASE b = <<>>
    <3>1. n = 0 /\ u.at = 0 /\ e = 1 + Alen(u.frame)
      BY <1>2, <2>1 DEF ExpectedPacketSize
    <3> HIDE DEF n, b, e, u, a
    <3>2. \A i \in 1 .. n : FALSE
      BY <3>1
    <3> QED
      BY <1>3, <3>1, <3>2
  <2>2. CASE b # <<>>
    <3>1. /\ d.expected = Alen(b[1].frame) + 1
          /\ \A i \in 1 .. n : b[i] = [frame |-> b[1].frame, at |-> i - 1]
      BY <2>2 DEF Cut
    <3>2. u.frame = b[1].frame /\ u.at = n /\ e = d.expected
      BY <1>2, <2>2
    <3> HIDE DEF n, b, e, u, a
    <3>3. \A i \in 1 .. n : b[i].frame = u.frame
      <4> SUFFICES ASSUME NEW i \in 1 .. n PROVE b[i].frame = u.frame
        OBVIOUS
      <4>1. b[i] = [frame |-> b[1].frame, at |-> i - 1]
        BY <3>1
      <4>2. b[i].frame = b[1].frame
        BY <4>1
      <4> QED
        BY <3>2, <4>2
    <3>4. e = Alen(u.frame) + 1
      <4>1. d.expected = Alen(b[1].frame) + 1 /\ u.frame = b[1].frame /\ e = d.expected
        BY <3>1, <3>2
      <4> QED
        BY <4>1
    <3> QED
      BY <3>2, <3>3, <3>4
  <2> QED
    BY <2>1, <2>2
<1>6. a[1].frame = u.frame
  <2> HIDE DEF a, b, u, e
  <2>1. CASE n = 0
    BY <1>4, <2>1
  <2>2. CASE n # 0
    <3>1. 1 \in 1 .. n
      BY <1>1, <2>2
    <3> QED
      BY <1>4, <1>5, <3>1
  <2> QED
    BY <2>1, <2>2
<1>7. y = IF Len(a) < e THEN [d EXCEPT !.buffer = a, !.expected = e]
          ELSE AclAssembly([d EXCEPT !.buffer = <<>>, !.expected = 0], a[1].frame)
  BY DEF AssembleUnit
<1>8. Tail(r) \in Seq(Unit(g)) /\ Len(Tail(r)) = Len(r) - 1 /\ Len(r) \in Nat /\ Len(r) >= 1
      /\ \A i \in 1 .. Len(r) - 1 : Tail(r)[i] = r[i + 1]
  OBVIOUS
<1>9. CASE Len(a) < e
  <2>1. y = [d EXCEPT !.buffer = a, !.expected = e]
    BY <1>7, <1>9
  <2>2. a \o Tail(r) = b \o r
    BY <1>1, <1>2, <1>8 DEF a
  <2> HIDE DEF a, e, y
  <2>3. y.buffer = a /\ y.conns = d.conns /\ y.delivered = d.delivered
    BY <2>1 DEF Desk
  <2> QED
    BY <2>2, <2>3 DEF y
<1>10. CASE ~(Len(a) < e)
  <2>1. y = AclAssembly([d EXCEPT !.buffer = <<>>, !.expected = 0], u.frame)
    BY <1>6, <1>7, <1>10
  <2> HIDE DEF a, e, y, u, b
  <2>2. u.at = Alen(u.frame)
    BY <1>1, <1>3, <1>4, <1>5, <1>10
  <2> QED
    BY <1>5, <2>1, <2>2 DEF y, u, b
<1> QED
  BY <1>9, <1>10

LEMMA PacketsOf ==
    ASSUME plan \in Plans, NEW s \in Senders
    PROVE  plan[s].link \in Handles /\ plan[s].packets \in Packets
BY LinkAssumption DEF Packets

\* AclAssembly() when the frame f is all of w but v.
LEMMA FrameServed ==
    ASSUME NEW g, plan \in Plans, NEW d \in Desk(g), GoodDesk(d), NEW f \in RealFrame(g),
           NEW w, NEW v \in Seq(Unit(g)), NEW at, NEW l, NEW ups \in Nat, Way(w, d, at, l, ups),
           \A h \in Handles : Passed(h, f, w, v)
    PROVE  Way(v, AclAssembly(d, f), at, l, ups)
<1> DEFINE k == Handle(f)
           c == d.conns[k]
           r == Assembled(AddConnection(c), f)
           o == IF r.packet = <<>> THEN d.delivered[k] ELSE Append(d.delivered[k], r.packet)
           y == AclAssembly(d, f)
<1>1. y = [d EXCEPT !.conns[k] = r.conn, !.delivered[k] = o]
  BY DEF AclAssembly
<1>2. d.conns \in [Handles -> Conn(g)] /\ d.delivered \in [Handles -> Seq(Seq(RealFrame(g)))]
  BY DEF Desk
<1>3. y.conns = [d.conns EXCEPT ![k] = r.conn] /\ y.delivered = [d.delivered EXCEPT ![k] = o]
  <2> HIDE DEF r, o, y, k
  <2> QED
    BY <1>1 DEF Desk
<1> HIDE DEF k, r, o, y, c
<1> SUFFICES ASSUME NEW s \in Senders, NEW h \in Handles, Sole(s, h)
    PROVE  /\ Ordered(h, v)
           /\ Flow(s, plan[s].packets, y.conns[h].current, y.conns[h].expected, y.delivered[h],
                   Road(h, v), at[s], l[h], ups)
  BY DEF Way, y
<1>4. /\ Ordered(h, w)
      /\ Flow(s, plan[s].packets, d.conns[h].current, d.conns[h].expected, d.delivered[h],
              Road(h, w), at[s], l[h], ups)
  BY DEF Way
<1>5. Ordered(h, v)
  BY <1>4 DEF Passed
<1>6. CASE k # h
  <2>1. y.conns[h] = d.conns[h] /\ y.delivered[h] = d.delivered[h]
    BY <1>2, <1>3, <1>6
  <2>2. Road(h, v) = Road(h, w)
    BY <1>6 DEF k, Passed
  <2> QED
    BY <1>4, <1>5, <2>1, <2>2
<1>7. CASE k = h
  <2>1. y.conns[h] = r.conn /\ y.delivered[h] = o
    BY <1>2, <1>3, <1>7
  <2>2. Road(h, w) = {f} \cup Road(h, v) /\ \A x \in Road(h, v) : Before(f, x)
    BY <1>4, <1>7 DEF k, Passed
  <2> DEFINE F == Road(h, v)
             q == plan[s].packets
             dl == d.delivered[h]
             a == at[s]
             b == l[h]
  <2>3. F \in SUBSET RealFrame(g)
    BY RoadType
  <2>4. q \in Packets
    BY PacketsOf
  <2>5. /\ c \in Conn(g) /\ GoodConn(c) /\ dl \in Seq(Seq(RealFrame(g)))
        /\ \A i \in 1 .. Len(dl) : GoodPacket(dl[i]) /\ d.conns[h] = c
    <3>1. c = d.conns[h]
      BY <1>7 DEF c
    <3>2. GoodConn(d.conns[h]) /\ \A i \in DOMAIN d.delivered[h] : GoodPacket(d.delivered[h][i])
      BY DEF GoodDesk
    <3>3. dl \in Seq(Seq(RealFrame(g)))
      BY <1>2
    <3>4. DOMAIN dl = 1 .. Len(dl)
      BY <3>3
    <3> QED
      BY <1>2, <3>1, <3>2, <3>3, <3>4
  <2>6. Flow(s, q, c.current, c.expected, dl, {f} \cup F, a, b, ups)
    BY <1>4, <1>7, <2>2 DEF c
  <2>7. /\ o = IF r.packet = <<>> THEN dl ELSE Append(dl, r.packet)
        /\ r = Assembled(AddConnection(c), f) /\ \A x \in F : Before(f, x)
    BY <1>7, <2>2 DEF o, r
  <2> HIDE DEF F, q, dl, a, b
  <2>8. LET z == Assembled(AddConnection(c), f)
        IN  Flow(s, q, z.conn.current, z.conn.expected,
                 IF z.packet = <<>> THEN dl ELSE Append(dl, z.packet), F, a, b, ups)
    BY <2>3, <2>4, <2>5, <2>6, <2>7, FrameTaken
  <2>9. Flow(s, q, r.conn.current, r.conn.expected, o, F, a, b, ups)
    BY <2>7, <2>8
  <2> QED
    BY <1>5, <2>1, <2>9 DEF F, q, a, b
<1> QED
  BY <1>6, <1>7

LEMMA UnitServed ==
    ASSUME NEW g, plan \in Plans, NEW d \in Desk(g), GoodDesk(d), Cut(d.buffer, d.expected),
           NEW r \in Seq(Unit(g)), r # <<>>, Stream(d.buffer \o r),
           NEW at, NEW l, NEW ups \in Nat, Way(d.buffer \o r, d, at, l, ups)
    PROVE  LET y == AssembleUnit(d, r[1])
           IN  Way(y.buffer \o Tail(r), y, at, l, ups)
<1> DEFINE u == r[1]
           f == u.frame
           b == d.buffer
           n == Len(b)
           y == AssembleUnit(d, u)
           v == Tail(r)
           w == b \o r
           e == [d EXCEPT !.buffer = <<>>, !.expected = 0]
<1>1. /\ b \in Seq(Unit(g)) /\ n \in Nat /\ u \in Unit(g)
      /\ w \in Seq(Unit(g)) /\ Len(w) = n + Len(r) /\ Len(r) \in Nat /\ Len(r) >= 1
      /\ \A i \in 1 .. n : w[i] = b[i]
      /\ \A i \in 1 .. Len(r) : w[n + i] = r[i]
      /\ v \in Seq(Unit(g)) /\ Len(v) = Len(r) - 1 /\ \A i \in 1 .. Len(r) - 1 : v[i] = r[i + 1]
  BY DEF Desk
<1>2. \/ y.conns = d.conns /\ y.delivered = d.delivered /\ y.buffer \o v = w
      \/ /\ u.at = Alen(f)
         /\ \A i \in 1 .. n : b[i].frame = f
         /\ y = AclAssembly(e, f)
  BY UnitEnds
<1>3. Way(w, d, at, l, ups)
  OBVIOUS
<1>4. f \in RealFrame(g)
  BY <1>1, UnitType
<1>5. /\ e \in Desk(g) /\ e.conns = d.conns /\ e.delivered = d.delivered
      /\ e.buffer = <<>> /\ GoodDesk(e)
  <2>1. /\ e \in Desk(g) /\ e.conns = d.conns /\ e.delivered = d.delivered /\ e.buffer = <<>>
    <3>1. <<>> \in Seq(Unit(g))
      OBVIOUS
    <3> QED
      BY <3>1 DEF Desk
  <2> HIDE DEF e
  <2> QED
    BY <2>1 DEF GoodDesk
<1> HIDE DEF y, e, w, v
<1>6. CASE y.conns = d.conns /\ y.delivered = d.delivered /\ y.buffer \o v = w
  <2>1. Way(y.buffer \o v, y, at, l, ups)
    BY <1>3, <1>6 DEF Way
  <2> QED
    BY <2>1 DEF y, v
<1>7. CASE /\ u.at = Alen(f)
           /\ \A i \in 1 .. n : b[i].frame = f
           /\ y = AclAssembly(e, f)
  <2> DEFINE k == n + 1
  <2>1. k \in 1 .. Len(w) /\ w[k] = u /\ Len(v) = Len(w) - k /\ k - 1 = n
    <3>1. 1 \in 1 .. Len(r) /\ k \in 1 .. Len(w)
      BY <1>1
    <3>2. w[n + 1] = r[1]
      BY <1>1, <3>1
    <3> QED
      BY <1>1, <3>1, <3>2
  <2>2. \A i \in 1 .. k : w[i].frame = f
    <3> SUFFICES ASSUME NEW i \in 1 .. k PROVE w[i].frame = f
      OBVIOUS
    <3>1. CASE i = k
      BY <2>1, <3>1
    <3>2. CASE i # k
      <4>1. i \in 1 .. n
        BY <1>1, <3>2
      <4> QED
        BY <1>1, <1>7, <4>1
    <3> QED
      BY <3>1, <3>2
  <2>3. w[k].at = Alen(f)
    BY <1>7, <2>1
  <2>4. \A i \in 1 .. Len(v) : v[i] = w[k + i]
    <3> SUFFICES ASSUME NEW i \in 1 .. Len(v) PROVE v[i] = w[k + i]
      OBVIOUS
    <3> HIDE DEF b, n
    <3>1. i \in 1 .. Len(r) - 1 /\ i + 1 \in 1 .. Len(r) /\ k + i = n + (i + 1)
      BY <1>1
    <3>2. v[i] = r[i + 1] /\ w[n + (i + 1)] = r[i + 1]
      BY <1>1, <3>1
    <3> QED
      BY <3>1, <3>2
  <2> HIDE DEF k, f
  <2>5. ASSUME NEW h \in Handles
        PROVE  Passed(h, f, w, v)
    BY <1>1, <2>1, <2>2, <2>3, <2>4, RoadShrinks
  <2>6. Way(w, e, at, l, ups)
    BY <1>3, <1>5 DEF Way
  <2>7. Way(v, AclAssembly(e, f), at, l, ups)
    BY <1>1, <1>4, <1>5, <2>5, <2>6, FrameServed
  <2>8. y.buffer = <<>>
    <3>1. AclAssembly(e, f).buffer = e.buffer
      BY <1>4, <1>5, AclAssemblyIsGood
    <3> QED
      BY <1>5, <1>7, <3>1
  <2>9. y.buffer \o v = v
    BY <1>1, <2>8
  <2> QED
    BY <1>7, <2>7, <2>9 DEF y, v
<1> QED
  BY <1>2, <1>6, <1>7

\* A message of ACL data.
LEMMA DataServed ==
    ASSUME NEW g, plan \in Plans, NEW d \in Desk(g), GoodDesk(d), Cut(d.buffer, d.expected),
           NEW data \in Seq(Unit(g)), NEW behind \in Seq(Unit(g)),
           Stream(d.buffer \o (data \o behind)),
           NEW at, NEW l, NEW ups \in Nat, Way(d.buffer \o (data \o behind), d, at, l, ups),
           NEW f, IsAfter(f, d, "acl", data, Len(data))
    PROVE  LET y == f[Len(data)]
           IN  Way(y.buffer \o behind, y, at, l, ups)
<1> DEFINE n == Len(data)
           v == data \o behind
           R(k) == Rest(v, k)
           P(k) == /\ f[k] \in Desk(g) /\ GoodDesk(f[k]) /\ Cut(f[k].buffer, f[k].expected)
                   /\ Stream(f[k].buffer \o R(k))
                   /\ Way(f[k].buffer \o R(k), f[k], at, l, ups)
           T == {k \in Nat : k <= n /\ ~P(k)}
<1>1. /\ n \in Nat /\ v \in Seq(Unit(g)) /\ Len(v) = n + Len(behind) /\ Len(behind) \in Nat
      /\ \A k \in 1 .. n : v[k] = data[k]
      /\ \A k \in 1 .. Len(behind) : v[n + k] = behind[k]
  OBVIOUS
<1>2. f[0] = d /\ \A k \in 1 .. n : f[k] = Handled("acl", f[k - 1], data[k])
  BY <1>1, AfterAt
<1>3. R(0) = v
  <2> HIDE DEF v
  <2>1. 0 \in 0 .. Len(v) /\ Len(v) - 0 = Len(v) /\ \A i \in 1 .. Len(v) : 0 + i = i
    BY <1>1
  <2>2. Rest(v, 0) \in Seq(Unit(g)) /\ Len(Rest(v, 0)) = Len(v)
        /\ \A i \in 1 .. Len(v) : Rest(v, 0)[i] = v[i]
    BY <1>1, <2>1, RestOf
  <2> QED
    BY <1>1, <2>2, SeqEqual
<1>4. R(n) = behind
  <2> HIDE DEF v, n
  <2>1. n \in 0 .. Len(v) /\ Len(v) - n = Len(behind)
    BY <1>1
  <2>2. Rest(v, n) \in Seq(Unit(g)) /\ Len(Rest(v, n)) = Len(behind)
        /\ \A i \in 1 .. Len(behind) : Rest(v, n)[i] = v[n + i]
    BY <1>1, <2>1, RestOf
  <2> QED
    BY <1>1, <2>2, SeqEqual
<1>5. Stream(d.buffer \o v) /\ Way(d.buffer \o v, d, at, l, ups)
  OBVIOUS
<1> HIDE DEF v, n
<1>6. P(0)
  BY <1>2, <1>3, <1>5
<1>7. ASSUME NEW k \in 1 .. n, P(k - 1) PROVE P(k)
  <2> DEFINE r == R(k - 1)
             b == f[k - 1]
             y == AssembleUnit(b, r[1])
  <2>1. k - 1 \in 0 .. Len(v) /\ k - 1 < Len(v) /\ (k - 1) + 1 = k
    BY <1>1
  <2>2. r \in Seq(Unit(g))
    BY <1>1, <2>1, RestOf
  <2>3. r # <<>> /\ r[1] = v[k] /\ Tail(r) = R(k)
    <3>1. Rest(v, k - 1) # <<>> /\ Rest(v, k - 1)[1] = v[(k - 1) + 1]
          /\ Tail(Rest(v, k - 1)) = Rest(v, (k - 1) + 1)
      BY <1>1, <2>1, RestStep
    <3> QED
      BY <2>1, <3>1
  <2>4. f[k] = AssembleUnit(b, r[1])
    BY <1>1, <1>2, <2>3 DEF Handled
  <2>5. /\ b \in Desk(g) /\ GoodDesk(b) /\ Cut(b.buffer, b.expected) /\ Stream(b.buffer \o r)
        /\ Way(b.buffer \o r, b, at, l, ups)
    BY <1>7
  <2> HIDE DEF r, b
  <2>6. y \in Desk(g) /\ GoodDesk(y) /\ Cut(y.buffer, y.expected) /\ Stream(y.buffer \o Tail(r))
    BY <2>2, <2>3, <2>5, UnitAssembled
  <2>7. Way(y.buffer \o Tail(r), y, at, l, ups)
    BY <2>2, <2>3, <2>5, UnitServed
  <2> QED
    BY <2>3, <2>4, <2>6, <2>7
<1> HIDE DEF P
<1>8. T = {}
  <2>1. SUFFICES ASSUME T # {} PROVE FALSE
    OBVIOUS
  <2>2. PICK k \in T : \A j \in T : k <= j
    BY <2>1, LeastNumber
  <2>3. k # 0 /\ k \in Nat /\ k <= n
    BY <1>6, <2>2
  <2>4. k \in 1 .. n /\ k - 1 \in Nat /\ k - 1 <= n /\ k - 1 \notin T
    BY <1>1, <2>2, <2>3
  <2>5. P(k - 1)
    BY <2>4
  <2>6. P(k)
    BY <1>7, <2>4, <2>5
  <2> QED
    BY <2>2, <2>6
<1>9. P(n)
  BY <1>1, <1>8, SMTT(20)
<1> QED
  BY <1>4, <1>9 DEF P, n

\* An event adds a connection, with what it had, or drops it.
LEMMA EventServed ==
    ASSUME NEW g, plan \in Plans, NEW d \in Desk(g), NEW event \in Event,
           NEW w \in Seq(Unit(g)), NEW at, NEW l, NEW ups \in Nat, Way(w, d, at, l, ups)
    PROVE  Way(w, PostEvent(d, event), at, l, ups)
<1> DEFINE k == event.handle
           c == CASE event.type = "CONN_COMPLETE" -> AddConnection(d.conns[k])
                  [] event.type = "DISCONNECTION_COMPLETE" -> Unlisted
                  [] OTHER -> d.conns[k]
           y == PostEvent(d, event)
<1>1. k \in Handles /\ d.conns \in [Handles -> Conn(g)]
  BY DEF Event, Desk
<1>2. y.conns = [d.conns EXCEPT ![k] = c] /\ y.delivered = d.delivered
  BY DEF PostEvent, Desk
<1>3. \/ c.current = d.conns[k].current /\ c.expected = d.conns[k].expected
      \/ c.current = <<>>
  <2>1. d.conns[k] \in Conn(g)
    BY <1>1
  <2>2. CASE event.type = "CONN_COMPLETE"
    BY <2>1, <2>2 DEF AddConnection, Conn
  <2>3. CASE event.type = "DISCONNECTION_COMPLETE"
    BY <2>3 DEF Unlisted
  <2>4. CASE event.type = "other"
    BY <2>4
  <2> QED
    BY <2>2, <2>3, <2>4 DEF Event
<1> HIDE DEF k, c, y
<1> SUFFICES ASSUME NEW s \in Senders, NEW h \in Handles, Sole(s, h)
    PROVE  /\ Ordered(h, w)
           /\ Flow(s, plan[s].packets, y.conns[h].current, y.conns[h].expected, y.delivered[h],
                   Road(h, w), at[s], l[h], ups)
  BY DEF Way, y
<1>4. /\ Ordered(h, w)
      /\ Flow(s, plan[s].packets, d.conns[h].current, d.conns[h].expected, d.delivered[h],
              Road(h, w), at[s], l[h], ups)
  BY DEF Way
<1>5. CASE /\ y.conns[h].current = d.conns[h].current
           /\ y.conns[h].expected = d.conns[h].expected
  BY <1>2, <1>4, <1>5
<1>6. CASE y.conns[h].current = <<>>
  <2> DEFINE q == plan[s].packets
             cur == d.conns[h].current
             F == Road(h, w)
             dl == d.delivered[h]
             a == at[s]
             b == l[h]
             e == y.conns[h].expected
  <2>1. q \in Packets /\ F \in SUBSET RealFrame(g)
    BY PacketsOf, RoadType
  <2>2. cur \in Seq(RealFrame(g))
    BY <1>1 DEF Conn
  <2>3. Line(s, q, cur, dl, F, a, b, ups) /\ (ups <= 1 => AllWhole(dl))
    BY <1>4 DEF Flow, Line
  <2> HIDE DEF q, cur, F, dl, a, b, e
  <2>4. F \in SUBSET F /\ \A x \in F \ F : \A z \in F : Before(x, z)
    OBVIOUS
  <2>5. Line(s, q, <<>>, dl, F, a, b, ups)
    BY <2>1, <2>2, <2>3, <2>4, LineNarrows
  <2>6. Packed(q, <<>>, e)
    BY DEF Packed
  <2>7. Flow(s, q, <<>>, e, dl, F, a, b, ups)
    BY <2>3, <2>5, <2>6 DEF Flow, Line
  <2> QED
    BY <1>2, <1>4, <1>6, <2>7 DEF q, F, dl, a, b, e
<1>7. k = h \/ y.conns[h] = d.conns[h]
  BY <1>1, <1>2
<1>8. k = h => y.conns[h] = c
  BY <1>1, <1>2
<1> QED
  BY <1>3, <1>5, <1>6, <1>7, <1>8

LEMMA EventsServed ==
    ASSUME NEW g, plan \in Plans, NEW d \in Desk(g), GoodDesk(d), NEW w \in Seq(Unit(g)),
           NEW at, NEW l, NEW ups \in Nat, Way(w, d, at, l, ups),
           NEW data \in Seq(Event), NEW f, IsAfter(f, d, "event", data, Len(data))
    PROVE  Way(w, f[Len(data)], at, l, ups)
<1> DEFINE n == Len(data)
           P(k) == f[k] \in Desk(g) /\ GoodDesk(f[k]) /\ Way(w, f[k], at, l, ups)
           T == {k \in Nat : k <= n /\ ~P(k)}
<1>1. n \in Nat /\ \A k \in 1 .. n : data[k] \in Event
  OBVIOUS
<1>2. f[0] = d /\ \A k \in 1 .. n : f[k] = Handled("event", f[k - 1], data[k])
  BY <1>1, AfterAt
<1> HIDE DEF n
<1>3. P(0)
  BY <1>2
<1>4. ASSUME NEW k \in 1 .. n, P(k - 1) PROVE P(k)
  <2> DEFINE b == f[k - 1]
             y == PostEvent(b, data[k])
  <2>1. f[k] = y /\ data[k] \in Event
    BY <1>1, <1>2 DEF Handled
  <2>2. b \in Desk(g) /\ GoodDesk(b) /\ Way(w, b, at, l, ups)
    BY <1>4
  <2> HIDE DEF b
  <2>3. y \in Desk(g) /\ GoodDesk(y)
    BY <2>1, <2>2, PostEventIsGood
  <2>4. Way(w, y, at, l, ups)
    BY <2>1, <2>2, EventServed
  <2> QED
    BY <2>1, <2>3, <2>4
<1> HIDE DEF P
<1>5. T = {}
  <2>1. SUFFICES ASSUME T # {} PROVE FALSE
    OBVIOUS
  <2>2. PICK k \in T : \A j \in T : k <= j
    BY <2>1, LeastNumber
  <2>3. k # 0 /\ k \in Nat /\ k <= n
    BY <1>3, <2>2
  <2>4. k \in 1 .. n /\ k - 1 \in Nat /\ k - 1 <= n /\ k - 1 \notin T
    BY <1>1, <2>2, <2>3
  <2>5. P(k - 1)
    BY <2>4
  <2>6. P(k)
    BY <1>4, <2>4, <2>5
  <2> QED
    BY <2>2, <2>6
<1>6. P(n)
  BY <1>1, <1>5
<1> QED
  BY <1>6 DEF P, n

----------------------------------------------------------------------------
\* What is on its way

\* w is the buffer, the data of the message in hand and what is behind it.
OnWay(g, b, m, msgs, last, w) ==
    \E t : Behind(g, t, msgs, last) /\ w = b \o (AclData(m) \o t[0])

LEMMA DataType ==
    ASSUME NEW g, NEW m \in Message(g)
    PROVE  AclData(m) \in Seq(Unit(g))
<1>1. <<>> \in Seq(Unit(g))
  OBVIOUS
<1> QED
  BY <1>1, MessageType DEF AclData

LEMMA BehindType ==
    ASSUME NEW g, NEW t, NEW msgs \in Seq(Message(g)), NEW last, Behind(g, t, msgs, last)
    PROVE  t[0] \in Seq(Unit(g))
<1>1. t \in [0 .. Len(msgs) -> Seq(Unit(g))]
  BY Zenon DEF Behind
<1>2. Len(msgs) \in Nat
  OBVIOUS
<1>3. 0 \in 0 .. Len(msgs)
  BY <1>2
<1> QED
  BY <1>1, <1>3

\* r is behind the message in hand, whatever the buffer becomes.
Rear(g, msgs, last, r) ==
    \A c \in Seq(Unit(g)), k \in Message(g) :
        AclData(k) = <<>> => OnWay(g, c, k, msgs, last, c \o r)

\* So much is behind it.
Follower(g, b, m, msgs, last, w) ==
    \E r \in Seq(Unit(g)) : w = b \o (AclData(m) \o r) /\ Rear(g, msgs, last, r)

LEMMA OnWayRest ==
    ASSUME NEW g, NEW b \in Seq(Unit(g)), NEW m \in Message(g), NEW msgs \in Seq(Message(g)),
           NEW last \in Seq(Unit(g)), NEW w, OnWay(g, b, m, msgs, last, w)
    PROVE  Follower(g, b, m, msgs, last, w)
<1>1. PICK t : Behind(g, t, msgs, last) /\ w = b \o (AclData(m) \o t[0])
  BY DEF OnWay
<1> DEFINE r == t[0]
<1>2. r \in Seq(Unit(g))
  BY <1>1, BehindType
<1>3. w = b \o (AclData(m) \o r)
  BY <1>1
<1>4. ASSUME NEW c \in Seq(Unit(g)), NEW k \in Message(g), AclData(k) = <<>>
      PROVE  OnWay(g, c, k, msgs, last, c \o r)
  <2>1. AclData(k) \o r = r
    BY <1>2, <1>4, ConcatEmptySeq DEF r
  <2>2. c \o r = c \o (AclData(k) \o t[0])
    BY <2>1 DEF r
  <2> QED
    BY <1>1, <2>2 DEF OnWay
<1>5. Rear(g, msgs, last, r)
  BY <1>4 DEF Rear
<1> HIDE DEF r
<1> QED
  BY <1>2, <1>3, <1>5 DEF Follower

LEMMA OnWayType ==
    ASSUME NEW g, NEW b \in Seq(Unit(g)), NEW m \in Message(g), NEW msgs \in Seq(Message(g)),
           NEW last \in Seq(Unit(g)), NEW w, OnWay(g, b, m, msgs, last, w)
    PROVE  w \in Seq(Unit(g))
<1> DEFINE a == AclData(m)
<1>1. PICK t : Behind(g, t, msgs, last) /\ w = b \o (a \o t[0])
  BY DEF OnWay
<1> DEFINE r == t[0]
<1>2. a \in Seq(Unit(g))
  BY DataType
<1>4. r \in Seq(Unit(g))
  BY <1>1, BehindType
<1> HIDE DEF a
<1>3. a \o r \in Seq(Unit(g))
  BY <1>2, <1>4, ConcatProperties
<1> QED
  BY <1>1, <1>3, ConcatProperties

LEMMA OnWayGrows ==
    ASSUME NEW g, NEW b \in Seq(Unit(g)), NEW m \in Message(g), NEW msgs \in Seq(Message(g)),
           NEW last \in Seq(Unit(g)), NEW w, OnWay(g, b, m, msgs, last, w),
           NEW u \in Seq(Unit(g))
    PROVE  OnWay(g, b, m, msgs, Join(last, u), Join(w, u))
<1> DEFINE a == AclData(m)
<1>1. PICK t : Behind(g, t, msgs, last) /\ w = b \o (a \o t[0])
  BY DEF OnWay
<1> DEFINE r == t[0]
<1>2. r \in Seq(Unit(g))
  BY <1>1, BehindType
<1>3. a \in Seq(Unit(g))
  BY DataType
<1>4. PICK e : Behind(g, e, msgs, Join(last, u)) /\ e[0] = Join(t[0], u)
  BY <1>1, BehindGrows
<1>5. w = b \o (a \o r) /\ e[0] = r \o u
  BY <1>1, <1>4 DEF Join
<1> HIDE DEF a, r
<1> DEFINE x == a \o r
<1>6. x \in Seq(Unit(g)) /\ w = b \o x
  BY <1>2, <1>3, <1>5, ConcatProperties
<1>7. x \o u = a \o (r \o u)
  <2> DEFINE S == Unit(g)
  <2>1. a \in Seq(S) /\ r \in Seq(S) /\ u \in Seq(S)
    BY <1>2, <1>3
  <2> HIDE DEF S
  <2> QED
    BY <2>1, ConcatAssociative
<1> HIDE DEF x
<1>8. (b \o x) \o u = b \o (x \o u)
  BY <1>6, ConcatAssociative, SMTT(20)
<1>9. Join(w, u) = b \o (a \o e[0])
  BY <1>5, <1>6, <1>7, <1>8 DEF Join
<1> QED
  BY <1>4, <1>9 DEF OnWay, a

LEMMA OnWayPosted ==
    ASSUME NEW g, NEW b, NEW m, NEW msgs \in Seq(Message(g)), NEW x \in Message(g),
           NEW last \in Seq(Unit(g)), NEW w, OnWay(g, b, m, msgs, AclData(x) \o last, w)
    PROVE  OnWay(g, b, m, Append(msgs, x), last, w)
<1> DEFINE z == AclData(x) \o last
<1>1. PICK t : Behind(g, t, msgs, z) /\ w = b \o (AclData(m) \o t[0])
  BY DEF OnWay
<1>2. PICK e : Behind(g, e, Append(msgs, x), last) /\ e[0] = t[0]
  BY <1>1, BehindPosted
<1> QED
  BY <1>1, <1>2 DEF OnWay

LEMMA OnWayTaken ==
    ASSUME NEW g, NEW b, NEW m, AclData(m) = <<>>, NEW msgs \in Seq(Message(g)), msgs # <<>>,
           NEW last \in Seq(Unit(g)), NEW w, OnWay(g, b, m, msgs, last, w)
    PROVE  OnWay(g, b, Head(msgs), Tail(msgs), last, w)
<1>1. PICK t : Behind(g, t, msgs, last) /\ w = b \o (AclData(m) \o t[0])
  BY DEF OnWay
<1>2. t[0] \in Seq(Unit(g))
  BY <1>1, BehindType
<1>3. <<>> \o t[0] = t[0]
  BY <1>2, ConcatEmptySeq
<1>4. PICK e : Behind(g, e, Tail(msgs), last) /\ t[0] = Join(AclData(Head(msgs)), e[0])
  BY <1>1, BehindTaken
<1>5. w = b \o (AclData(Head(msgs)) \o e[0])
  BY <1>1, <1>3, <1>4 DEF Join
<1> QED
  BY <1>4, <1>5 DEF OnWay

LEMMA OnWayNothing ==
    ASSUME NEW g, NEW m, AclData(m) = <<>>
    PROVE  OnWay(g, <<>>, m, <<>>, <<>>, <<>>)
<1>1. PICK t : Behind(g, t, <<>>, <<>>) /\ t[0] = <<>>
  BY NothingBehind
<1>2. <<>> = <<>> \o (<<>> \o <<>>)
  OBVIOUS
<1>3. <<>> = <<>> \o (AclData(m) \o t[0])
  BY <1>1, <1>2
<1> QED
  BY <1>1, <1>3 DEF OnWay

----------------------------------------------------------------------------
\* What a step of a sender or a link changes

LEMMA DeskAt ==
    ASSUME NEW g, plan \in Plans, NEW d \in Desk(g), GoodDesk(d), NEW w \in Seq(Unit(g)),
           NEW s \in Senders, NEW h \in Handles
    PROVE  /\ plan[s].packets \in Packets
           /\ d.conns[h].current \in Seq(RealFrame(g))
           /\ d.delivered[h] \in Seq(Seq(RealFrame(g)))
           /\ \A i \in 1 .. Len(d.delivered[h]) : GoodPacket(d.delivered[h][i])
           /\ Road(h, w) \in SUBSET RealFrame(g)
<1>1. d.conns[h] \in Conn(g) /\ d.delivered[h] \in Seq(Seq(RealFrame(g)))
  BY DEF Desk
<1>2. \A i \in DOMAIN d.delivered[h] : GoodPacket(d.delivered[h][i])
  BY DEF GoodDesk
<1>3. DOMAIN d.delivered[h] = 1 .. Len(d.delivered[h])
  BY <1>1
<1> QED
  BY <1>1, <1>2, <1>3, PacketsOf, RoadType DEF Conn

\* The flow on the way w to h.
FlowAt(s, h, w, d, a, b, ups) ==
    Flow(s, plan[s].packets, d.conns[h].current, d.conns[h].expected, d.delivered[h],
         Road(h, w), a, b, ups)

LEMMA WayIs ==
    ASSUME NEW w, NEW d, NEW at, NEW l, NEW ups
    PROVE  Way(w, d, at, l, ups) <=>
               \A s \in Senders, h \in Handles :
                   Sole(s, h) => Ordered(h, w) /\ FlowAt(s, h, w, d, at[s], l[h], ups)
BY DEF Way, FlowAt

\* What the flow at a handle becomes.
LEMMA FlowAtSteps ==
    ASSUME NEW g \in Nat, plan \in Plans, NEW d \in Desk(g), GoodDesk(d), NEW w \in Seq(Unit(g)),
           NEW s \in Senders, NEW h \in Handles, NEW a \in [n : Nat, sent : Nat],
           NEW b \in [up : BOOLEAN, gen : 0 .. g], NEW ups \in Nat, FlowAt(s, h, w, d, a, b, ups)
    PROVE  /\ FlowAt(s, h, w, d, a, b, ups + 1)
           /\ (a.n > 0 => a.n \in 1 .. Len(plan[s].packets)
                          /\ a.sent >= (plan[s].packets[a.n] + Mtu - 1) \div Mtu) =>
                  FlowAt(s, h, w, d, [n |-> a.n + 1, sent |-> 0], b, ups)
           /\ ~b.up => FlowAt(s, h, w, d, Next1(a), b, ups)
           /\ FlowAt(s, h, w, d, Next1(a), b, ups + 1)
           /\ \A k \in [up : BOOLEAN, gen : Nat] :
                  b.gen <= k.gen /\ (k.up => b.gen < k.gen) => FlowAt(s, h, w, d, a, k, ups)
<1> DEFINE q == plan[s].packets
           cur == d.conns[h].current
           e == d.conns[h].expected
           dl == d.delivered[h]
           F == Road(h, w)
<1>1. /\ q \in Packets /\ cur \in Seq(RealFrame(g)) /\ dl \in Seq(Seq(RealFrame(g)))
      /\ \A i \in 1 .. Len(dl) : GoodPacket(dl[i])
      /\ F \in SUBSET RealFrame(g)
  BY DeskAt
<1>2. b.gen \in Nat
  OBVIOUS
<1>3. Flow(s, q, cur, e, dl, F, a, b, ups)
  BY DEF FlowAt
<1>4. \A x, y, z : FlowAt(s, h, w, d, x, y, z) <=> Flow(s, q, cur, e, dl, F, x, y, z)
  BY DEF FlowAt
<1>5. ASSUME a.n > 0 => a.n \in 1 .. Len(q) /\ a.sent >= (q[a.n] + Mtu - 1) \div Mtu
      PROVE  FlowAt(s, h, w, d, [n |-> a.n + 1, sent |-> 0], b, ups)
  <2> HIDE DEF q, cur, e, dl, F
  <2>1. Flow(s, q, cur, e, dl, F, [n |-> a.n + 1, sent |-> 0], b, ups)
    BY <1>1, <1>2, <1>3, <1>5, FlowPosted
  <2> QED
    BY <1>4, <2>1
<1> HIDE DEF q, cur, e, dl, F
<1>6. Flow(s, q, cur, e, dl, F, a, b, ups + 1)
  BY <1>1, <1>2, <1>3, FlowUpset
<1>7. ASSUME ~b.up PROVE Flow(s, q, cur, e, dl, F, Next1(a), b, ups)
  BY <1>1, <1>2, <1>3, <1>7, FlowSkipped
<1>8. Flow(s, q, cur, e, dl, F, Next1(a), b, ups + 1)
  BY <1>1, <1>2, <1>3, FlowRefused
<1>9. ASSUME NEW k \in [up : BOOLEAN, gen : Nat], b.gen <= k.gen, k.up => b.gen < k.gen
      PROVE  Flow(s, q, cur, e, dl, F, a, k, ups)
  <2>1. k.gen \in Nat
    OBVIOUS
  <2> QED
    BY <1>1, <1>2, <1>3, <1>9, <2>1, FlowRelinked
<1> QED
  BY <1>4, <1>5, <1>6, <1>7, <1>8, <1>9 DEF q

LEMMA WayUpset ==
    ASSUME NEW g \in Nat, plan \in Plans, NEW d \in Desk(g), GoodDesk(d), NEW w \in Seq(Unit(g)),
           NEW at \in [Senders -> [n : Nat, sent : Nat]],
           NEW l \in [Handles -> [up : BOOLEAN, gen : 0 .. g]], NEW ups \in Nat,
           Way(w, d, at, l, ups)
    PROVE  Way(w, d, at, l, ups + 1)
<1> SUFFICES ASSUME NEW s \in Senders, NEW h \in Handles, Sole(s, h)
    PROVE  Ordered(h, w) /\ FlowAt(s, h, w, d, at[s], l[h], ups + 1)
  BY WayIs
<1> DEFINE a == at[s]
           b == l[h]
<1>1. a \in [n : Nat, sent : Nat] /\ b \in [up : BOOLEAN, gen : 0 .. g]
  OBVIOUS
<1>2. Ordered(h, w) /\ FlowAt(s, h, w, d, a, b, ups)
  BY WayIs
<1> HIDE DEF a, b
<1>3. FlowAt(s, h, w, d, a, b, ups + 1)
  BY <1>1, <1>2, FlowAtSteps
<1> QED
  BY <1>2, <1>3 DEF a, b

\* One sender goes on.
LEMMA WayGoesOn ==
    ASSUME NEW g \in Nat, plan \in Plans, NEW d \in Desk(g), GoodDesk(d), NEW w \in Seq(Unit(g)),
           NEW at \in [Senders -> [n : Nat, sent : Nat]],
           NEW l \in [Handles -> [up : BOOLEAN, gen : 0 .. g]], NEW ups \in Nat,
           Way(w, d, at, l, ups), NEW r \in Senders, NEW at2, NEW ups2 \in {ups, ups + 1},
           \A s \in Senders \ {r} : at2[s] = at[s],
           \A h \in Handles : Sole(r, h) /\ FlowAt(r, h, w, d, at[r], l[h], ups) =>
               FlowAt(r, h, w, d, at2[r], l[h], ups2)
    PROVE  Way(w, d, at2, l, ups2)
<1> SUFFICES ASSUME NEW s \in Senders, NEW h \in Handles, Sole(s, h)
    PROVE  Ordered(h, w) /\ FlowAt(s, h, w, d, at2[s], l[h], ups2)
  BY WayIs
<1>1. Way(w, d, at, l, ups + 1)
  BY WayUpset
<1>2. /\ Ordered(h, w) /\ FlowAt(s, h, w, d, at[s], l[h], ups)
      /\ FlowAt(s, h, w, d, at[s], l[h], ups + 1)
  BY <1>1, WayIs
<1>3. CASE s = r
  BY <1>2, <1>3
<1>4. CASE s # r
  <2>1. at2[s] = at[s]
    BY <1>4
  <2> QED
    BY <1>2, <2>1
<1> QED
  BY <1>3, <1>4

\* The loop of PostACL() goes round without a frame for the controller.
LEMMA WayWithout ==
    ASSUME NEW g \in Nat, plan \in Plans, NEW d \in Desk(g), GoodDesk(d), NEW w \in Seq(Unit(g)),
           NEW at \in [Senders -> [n : Nat, sent : Nat]],
           NEW l \in [Handles -> [up : BOOLEAN, gen : 0 .. g]], NEW ups \in Nat,
           Way(w, d, at, l, ups), NEW r \in Senders
    PROVE  LET at2 == [at EXCEPT ![r].sent = @ + 1]
           IN  /\ ~l[plan[r].link].up => Way(w, d, at2, l, ups)
               /\ Way(w, d, at2, l, ups + 1)
<1> DEFINE at2 == [at EXCEPT ![r].sent = @ + 1]
           a == at[r]
<1>1. a \in [n : Nat, sent : Nat]
  OBVIOUS
<1>2. at2[r] = Next1(a) /\ \A s \in Senders \ {r} : at2[s] = at[s]
  BY DEF Next1
<1> HIDE DEF at2, a
<1>3. ASSUME NEW h \in Handles, Sole(r, h), FlowAt(r, h, w, d, at[r], l[h], ups)
      PROVE  /\ ~l[plan[r].link].up => FlowAt(r, h, w, d, at2[r], l[h], ups)
             /\ FlowAt(r, h, w, d, at2[r], l[h], ups + 1)
  <2> DEFINE b == l[h]
  <2>1. b \in [up : BOOLEAN, gen : 0 .. g] /\ FlowAt(r, h, w, d, a, b, ups)
    BY <1>3 DEF a
  <2>2. plan[r].link = h
    BY <1>3 DEF Sole
  <2> HIDE DEF b
  <2>3. /\ ~b.up => FlowAt(r, h, w, d, Next1(a), b, ups)
        /\ FlowAt(r, h, w, d, Next1(a), b, ups + 1)
    BY <1>1, <2>1, FlowAtSteps
  <2> QED
    BY <1>2, <2>2, <2>3 DEF b
<1>4. Way(w, d, at2, l, ups + 1)
  BY <1>2, <1>3, WayGoesOn
<1>5. ASSUME ~l[plan[r].link].up PROVE Way(w, d, at2, l, ups)
  BY <1>2, <1>3, <1>5, WayGoesOn
<1> QED
  BY <1>4, <1>5 DEF at2

LEMMA WayRelinked ==
    ASSUME NEW g \in Nat, plan \in Plans, NEW d \in Desk(g), GoodDesk(d), NEW w \in Seq(Unit(g)),
           NEW at \in [Senders -> [n : Nat, sent : Nat]],
           NEW l \in [Handles -> [up : BOOLEAN, gen : 0 .. g]], NEW ups \in Nat,
           Way(w, d, at, l, ups), NEW k \in Handles, NEW c \in [up : BOOLEAN, gen : Nat],
           l[k].gen <= c.gen, c.up => l[k].gen < c.gen
    PROVE  Way(w, d, at, [l EXCEPT ![k] = c], ups)
<1> DEFINE m == [l EXCEPT ![k] = c]
<1>1. m[k] = c /\ \A h \in Handles \ {k} : m[h] = l[h]
  OBVIOUS
<1> HIDE DEF m
<1> SUFFICES ASSUME NEW s \in Senders, NEW h \in Handles, Sole(s, h)
    PROVE  Ordered(h, w) /\ FlowAt(s, h, w, d, at[s], m[h], ups)
  BY WayIs DEF m
<1>2. Ordered(h, w) /\ FlowAt(s, h, w, d, at[s], l[h], ups)
  BY WayIs
<1>3. CASE h = k
  <2> DEFINE a == at[s]
             b == l[h]
  <2>1. a \in [n : Nat, sent : Nat] /\ b \in [up : BOOLEAN, gen : 0 .. g]
    OBVIOUS
  <2>2. FlowAt(s, h, w, d, a, b, ups) /\ b.gen <= c.gen /\ (c.up => b.gen < c.gen)
    BY <1>2, <1>3
  <2> HIDE DEF a, b
  <2>3. FlowAt(s, h, w, d, a, c, ups)
    BY <2>1, <2>2, FlowAtSteps
  <2> QED
    BY <1>1, <1>2, <1>3, <2>3 DEF a
<1>4. CASE h # k
  <2>1. m[h] = l[h]
    BY <1>1, <1>4
  <2> QED
    BY <1>2, <2>1
<1> QED
  BY <1>3, <1>4

\* On the way to h, v is w with the frame f behind it.
Extended(h, f, w, v) ==
    /\ Handle(f) # h => Road(h, v) = Road(h, w) /\ (Ordered(h, w) => Ordered(h, v))
    /\ Handle(f) = h => Road(h, v) = Road(h, w) \cup {f}
    /\ Handle(f) = h /\ Ordered(h, w) /\ (\A x \in Road(h, w) : Before(x, f)) => Ordered(h, v)

LEMMA RoadExtends ==
    ASSUME NEW g, NEW w \in Seq(Unit(g)), NEW f \in RealFrame(g), NEW h
    PROVE  Extended(h, f, w, w \o Units(f))
<1> DEFINE u == Units(f)
           v == w \o u
           n == Len(w)
           m == Alen(f) + 1
<1>1. m \in Nat /\ m >= 1 /\ n \in Nat
  BY DEF RealFrame
<1>2. u \in Seq(Unit(g))
  <2>1. <<>> \in Seq(Unit(g)) /\ Stream(<<>>)
    BY DEF Stream
  <2> QED
    BY <2>1, StreamGrows
<1>3. Len(u) = m /\ \A i \in 1 .. m : u[i] = [frame |-> f, at |-> i - 1]
  <2>1. u = [i \in 1 .. m |-> [frame |-> f, at |-> i - 1]]
    BY DEF Units
  <2> HIDE DEF u, m
  <2> QED
    BY <1>1, <1>2, <2>1
<1> HIDE DEF u, m
<1>4. Len(v) = n + m /\ (\A i \in 1 .. n : v[i] = w[i]) /\ \A i \in 1 .. m : v[n + i] = u[i]
  <2> DEFINE S == Unit(g)
  <2>1. w \in Seq(S) /\ u \in Seq(S) /\ Len(u) = m
    BY <1>2, <1>3
  <2> HIDE DEF S
  <2> QED
    BY <1>1, <2>1
<1> HIDE DEF n, v
<1>5. \A i \in 1 .. n + m : i \in 1 .. n \/ (i - n \in 1 .. m /\ n + (i - n) = i)
  BY <1>1
<1>6. \A i \in 1 .. n + m : i \in 1 .. n \/ (v[i].frame = f /\ v[i].at = (i - n) - 1)
  <2> SUFFICES ASSUME NEW i \in 1 .. n + m, i \notin 1 .. n
      PROVE v[i].frame = f /\ v[i].at = (i - n) - 1
    OBVIOUS
  <2>1. i - n \in 1 .. m /\ n + (i - n) = i
    BY <1>5
  <2>2. v[n + (i - n)] = u[i - n] /\ u[i - n] = [frame |-> f, at |-> (i - n) - 1]
    BY <1>3, <1>4, <2>1
  <2>3. v[i] = [frame |-> f, at |-> (i - n) - 1]
    BY <2>1, <2>2
  <2> QED
    BY <2>3
<1>7. \A x : x \in Road(h, w) <=> \E i \in 1 .. n : x = w[i].frame /\ Handle(w[i].frame) = h
  BY DEF Road, n
<1>8. \A x : x \in Road(h, v) <=> \E i \in 1 .. n + m : x = v[i].frame /\ Handle(v[i].frame) = h
  BY <1>4 DEF Road
<1>9. Road(h, w) \subseteq Road(h, v)
  <2> SUFFICES ASSUME NEW x \in Road(h, w) PROVE x \in Road(h, v)
    OBVIOUS
  <2>1. PICK i \in 1 .. n : x = w[i].frame /\ Handle(w[i].frame) = h
    BY <1>7
  <2>2. i \in 1 .. n + m /\ v[i] = w[i]
    BY <1>1, <1>4
  <2> QED
    BY <1>8, <2>1, <2>2
<1>10. ASSUME NEW x \in Road(h, v) PROVE x \in Road(h, w) \/ (x = f /\ Handle(f) = h)
  <2>1. PICK i \in 1 .. n + m : x = v[i].frame /\ Handle(v[i].frame) = h
    BY <1>8
  <2>2. CASE i \in 1 .. n
    BY <1>4, <1>7, <2>1, <2>2
  <2>3. CASE i \notin 1 .. n
    BY <1>6, <2>1, <2>3
  <2> QED
    BY <2>2, <2>3
<1>11. ASSUME Handle(f) = h PROVE f \in Road(h, v)
  <2>1. n + 1 \in 1 .. n + m /\ 1 \in 1 .. m
    BY <1>1
  <2>2. v[n + 1].frame = f
    BY <1>3, <1>4, <2>1
  <2> QED
    BY <1>8, <1>11, <2>1, <2>2
<1>12. ASSUME Ordered(h, w), Handle(f) = h => \A x \in Road(h, w) : Before(x, f)
       PROVE  Ordered(h, v)
  <2> SUFFICES ASSUME NEW i \in 1 .. n + m, NEW j \in 1 .. n + m, i < j,
                      Handle(v[i].frame) = h, Handle(v[j].frame) = h
               PROVE  Follow(v[i], v[j])
    BY <1>4 DEF Ordered
  <2>1. CASE j \in 1 .. n
    <3>1. i \in 1 .. n
      BY <1>1, <2>1
    <3>2. v[i] = w[i] /\ v[j] = w[j]
      BY <1>4, <2>1, <3>1
    <3> QED
      BY <1>12, <2>1, <3>1, <3>2 DEF Ordered, n
  <2>2. CASE j \notin 1 .. n
    <3>1. v[j].frame = f /\ v[j].at = (j - n) - 1 /\ Handle(f) = h
      BY <1>6, <2>2
    <3>2. CASE i \in 1 .. n
      <4>1. v[i].frame \in Road(h, w)
        BY <1>4, <1>7, <3>2
      <4> QED
        BY <1>12, <3>1, <4>1 DEF Follow
    <3>3. CASE i \notin 1 .. n
      <4>1. v[i].frame = f /\ v[i].at = (i - n) - 1
        BY <1>6, <3>3
      <4>2. (i - n) - 1 < (j - n) - 1
        BY <1>1
      <4> QED
        BY <3>1, <4>1, <4>2 DEF Follow
    <3> QED
      BY <3>2, <3>3
  <2> QED
    BY <2>1, <2>2
<1>13. ASSUME Handle(f) # h PROVE Road(h, v) = Road(h, w)
  BY <1>9, <1>10, <1>13
<1>14. ASSUME Handle(f) = h PROVE Road(h, v) = Road(h, w) \cup {f}
  BY <1>9, <1>10, <1>11, <1>14
<1>15. Extended(h, f, w, v)
  BY <1>12, <1>13, <1>14 DEF Extended
<1> QED
  BY <1>15 DEF v, u

\* The controller takes a frame of r.
LEMMA WaySent ==
    ASSUME NEW g \in Nat, plan \in Plans, NEW d \in Desk(g), GoodDesk(d), NEW w \in Seq(Unit(g)),
           NEW at \in [Senders -> [n : Nat, sent : Nat]],
           NEW l \in [Handles -> [up : BOOLEAN, gen : 0 .. g]], NEW ups \in Nat,
           Way(w, d, at, l, ups), NEW r \in Senders, l[plan[r].link].up,
           NEW f \in RealFrame(g), Genuine(r, plan[r].packets, f), f.packet.n = at[r].n,
           f.part = at[r].sent + 1, f.gen = l[plan[r].link].gen
    PROVE  Way(w \o Units(f), d, [at EXCEPT ![r].sent = @ + 1], l, ups)
<1> DEFINE at2 == [at EXCEPT ![r].sent = @ + 1]
           v == w \o Units(f)
<1>1. at2[r] = Next1(at[r]) /\ \A s \in Senders \ {r} : at2[s] = at[s]
  BY DEF Next1
<1>2. Handle(f) = plan[r].link /\ plan[r].packets # <<>>
  <2>1. f.packet.from = r /\ f.packet.n \in 1 .. Len(plan[r].packets)
    BY DEF Genuine, Place
  <2> QED
    BY <2>1 DEF Handle
<1>3. \A h : Extended(h, f, w, v)
  BY RoadExtends
<1> HIDE DEF at2, v
<1> SUFFICES ASSUME NEW s \in Senders, NEW h \in Handles, Sole(s, h)
    PROVE  Ordered(h, v) /\ FlowAt(s, h, v, d, at2[s], l[h], ups)
  BY WayIs DEF at2, v
<1>4. Ordered(h, w) /\ FlowAt(s, h, w, d, at[s], l[h], ups)
  BY WayIs
<1>5. CASE s # r
  <2>1. Handle(f) # h
    BY <1>2, <1>5 DEF Sole
  <2>2. Road(h, v) = Road(h, w) /\ Ordered(h, v)
    BY <1>3, <1>4, <2>1 DEF Extended
  <2>3. at2[s] = at[s]
    BY <1>1, <1>5
  <2> QED
    BY <1>4, <2>2, <2>3 DEF FlowAt
<1>6. CASE s = r
  <2>1. Handle(f) = h /\ plan[r].link = h
    BY <1>2, <1>6 DEF Sole
  <2> DEFINE q == plan[r].packets
             cur == d.conns[h].current
             e == d.conns[h].expected
             dl == d.delivered[h]
             F == Road(h, w)
             a == at[r]
             b == l[h]
  <2>2. /\ q \in Packets /\ cur \in Seq(RealFrame(g)) /\ dl \in Seq(Seq(RealFrame(g)))
        /\ \A i \in 1 .. Len(dl) : GoodPacket(dl[i])
        /\ F \in SUBSET RealFrame(g)
    BY DeskAt
  <2>3. a \in [n : Nat, sent : Nat] /\ b.gen \in Nat /\ b.up
    BY <2>1
  <2>4. Flow(r, q, cur, e, dl, F, a, b, ups)
    BY <1>4, <1>6 DEF FlowAt
  <2>5. Genuine(r, q, f) /\ f.packet.n = a.n /\ f.part = a.sent + 1 /\ f.gen = b.gen
    BY <2>1
  <2> HIDE DEF q, cur, e, dl, F, a, b
  <2>6. \A x \in F : Before(x, f)
    BY <2>2, <2>3, <2>4, <2>5, FlowSent
  <2>7. Flow(r, q, cur, e, dl, F \cup {f}, Next1(a), b, ups)
    BY <2>2, <2>3, <2>4, <2>5, FlowSent
  <2>8. Road(h, v) = F \cup {f}
    BY <1>3, <2>1 DEF Extended, F
  <2>9. Ordered(h, v)
    BY <1>3, <1>4, <2>1, <2>6 DEF Extended, F
  <2> QED
    BY <1>1, <1>6, <2>7, <2>8, <2>9 DEF FlowAt, q, cur, e, dl, F, a, b
<1> QED
  BY <1>5, <1>6

----------------------------------------------------------------------------
\* The invariant of a link with one sender

TheWay(w) == OnWay(Peak, device.buffer, rx.message, port, source.acl, w)

Served(w) == TheWay(w) /\ Stream(w) /\ Way(w, TheDesk, sender, link, upsets)

\* Packets in order, all of them whole until something went wrong twice.
Done(dl, ups) ==
    /\ \A i, j \in 1 .. Len(dl) : i < j => dl[i][1].packet.n < dl[j][1].packet.n
    /\ ups <= 1 => AllWhole(dl)

WayInv ==
    /\ device.registered => \E w : Served(w)
    /\ driver = "closed" => /\ ~device.registered
                            /\ \A h \in Handles : conns[h] = Unlisted /\ delivered[h] = <<>>
    /\ \A s \in Senders, h \in Handles : Sole(s, h) => Done(delivered[h], upsets)

\* What Inv says of the parts of a Way.
LEMMA Typed ==
    ASSUME Inv
    PROVE  /\ Peak \in Nat /\ plan \in Plans /\ TheDesk \in Desk(Peak) /\ GoodDesk(TheDesk)
           /\ sender \in [Senders -> [n : Nat, sent : Nat]]
           /\ link \in [Handles -> [up : BOOLEAN, gen : 0 .. Peak]] /\ upsets \in Nat
           /\ device.buffer \in Seq(Unit(Peak)) /\ rx.message \in Message(Peak)
           /\ port \in Seq(Message(Peak)) /\ source.acl \in Seq(Unit(Peak))
<1>1. plan \in Plans /\ Peak \in Nat
  BY PeakIsNat DEF Inv, SendInv
<1>2. upsets \in Nat
  BY BoundAssumption DEF Inv, SendInv
<1>3. TheDesk \in Desk(Peak)
  BY DeskIsTyped DEF Inv
<1> QED
  BY <1>1, <1>2, <1>3 DEF Inv, SendInv, DeskInv, QueueInv

LEMMA WayTyped ==
    ASSUME Inv, NEW w, TheWay(w)
    PROVE  w \in Seq(Unit(Peak))
<1> DEFINE g == Peak
           b == device.buffer
           m == rx.message
           p == port
           a == source.acl
<1>1. b \in Seq(Unit(g)) /\ m \in Message(g) /\ p \in Seq(Message(g)) /\ a \in Seq(Unit(g))
  BY Typed
<1>2. OnWay(g, b, m, p, a, w)
  BY DEF TheWay
<1> HIDE DEF g, b, m, p, a
<1>3. w \in Seq(Unit(g))
  BY <1>1, <1>2, OnWayType
<1> QED
  BY <1>3 DEF g

LEMMA ServedAfter ==
    ASSUME plan' = plan, NEW v, TheWay(v)', Stream(v),
           Way(v, TheDesk', sender', link', upsets')
    PROVE  Served(v)'
<1>1. ASSUME NEW f PROVE Handle(f)' = Handle(f)
  BY DEF Handle
<1>2. ASSUME NEW h PROVE Road(h, v)' = Road(h, v) /\ (Ordered(h, v)' <=> Ordered(h, v))
  <2>1. \A f : Handle(f)' = Handle(f)
    BY <1>1
  <2> QED
    BY <2>1 DEF Road, Ordered
<1>3. ASSUME NEW s \in Senders, NEW h \in Handles PROVE Sole(s, h)' <=> Sole(s, h)
  BY DEF Sole
<1>4. Stream(v)'
  OBVIOUS
<1>5. Way(v, TheDesk, sender, link, upsets)'
  <2> SUFFICES ASSUME NEW s \in Senders, NEW h \in Handles, Sole(s, h)'
      PROVE  /\ Ordered(h, v)'
             /\ Flow(s, plan'[s].packets, TheDesk'.conns[h].current, TheDesk'.conns[h].expected,
                     TheDesk'.delivered[h], Road(h, v)', sender'[s], link'[h], upsets')
    BY DEF Way
  <2>1. Sole(s, h)
    BY <1>3
  <2>2. /\ Ordered(h, v)
        /\ Flow(s, plan[s].packets, TheDesk'.conns[h].current, TheDesk'.conns[h].expected,
                TheDesk'.delivered[h], Road(h, v), sender'[s], link'[h], upsets')
    BY <2>1 DEF Way
  <2> QED
    BY <1>2, <2>2
<1> QED
  BY <1>4, <1>5 DEF Served

\* Nothing moves between the controller and the desk.
LEMMA QuietServed ==
    ASSUME NEW w, Served(w), UNCHANGED <<plan, device, port, rx, conns, delivered>>,
           source'.acl = source.acl, Way(w, TheDesk, sender', link', upsets')
    PROVE  \E v : Served(v)'
<1>1. TheDesk' = TheDesk
  BY DEF TheDesk
<1>2. TheWay(w)'
  BY DEF Served, TheWay, Peak
<1>3. Served(w)'
  BY <1>1, <1>2, ServedAfter DEF Served
<1> QED
  BY <1>3

LEMMA PostServed ==
    ASSUME Inv, NEW w, Served(w), NEW r \in Senders, PostACL(r)
    PROVE  \E v : Served(v)'
<1> DEFINE d == TheDesk
           g == Peak
           a == sender[r]
           q == plan[r].packets
<1>1. /\ ~Busy(r)
      /\ sender' = [sender EXCEPT ![r] = [n |-> a.n + 1, sent |-> 0]]
      /\ UNCHANGED <<plan, link, source, port, rx, device, conns, delivered, upsets>>
  BY DEF PostACL, rxVars
<1>2. /\ g \in Nat /\ plan \in Plans /\ d \in Desk(g) /\ GoodDesk(d)
      /\ sender \in [Senders -> [n : Nat, sent : Nat]]
      /\ link \in [Handles -> [up : BOOLEAN, gen : 0 .. g]] /\ upsets \in Nat
      /\ w \in Seq(Unit(g)) /\ Way(w, d, sender, link, upsets)
  BY Typed, WayTyped DEF Served
<1>3. sender'[r] = [n |-> a.n + 1, sent |-> 0] /\ \A s \in Senders \ {r} : sender'[s] = sender[s]
  BY <1>1, <1>2
<1>4. a.n > 0 => a.n \in 1 .. Len(q) /\ a.sent >= (q[a.n] + Mtu - 1) \div Mtu
  <2> SUFFICES ASSUME a.n > 0 PROVE a.n \in 1 .. Len(q) /\ a.sent >= (q[a.n] + Mtu - 1) \div Mtu
    OBVIOUS
  <2>1. a.n \in Nat /\ a.sent \in Nat /\ a.n <= Len(q) /\ q \in Packets
    BY <1>2, PacketsOf DEF Inv, SendInv
  <2>2. a.n \in 1 .. Len(q)
    BY <2>1 DEF Packets
  <2> DEFINE k == (q[a.n] + Mtu - 1) \div Mtu
  <2>3. ~(a.sent < k)
    BY <1>1 DEF Busy, Parts, Packet
  <2>4. k \in Int
    <3>1. q[a.n] + Mtu - 1 \in Int /\ Mtu \in Nat \ {0}
      BY <2>1, <2>2, SizeAssumption DEF Packets
    <3> QED
      BY <3>1, DivMod
  <2> HIDE DEF k
  <2>5. a.sent >= k
    BY <2>1, <2>3, <2>4
  <2> QED
    BY <2>2, <2>5 DEF k
<1> HIDE DEF d, g
<1>5. ASSUME NEW h \in Handles, Sole(r, h), FlowAt(r, h, w, d, sender[r], link[h], upsets)
      PROVE  FlowAt(r, h, w, d, sender'[r], link[h], upsets)
  <2> DEFINE b == link[h]
  <2>1. a \in [n : Nat, sent : Nat] /\ b \in [up : BOOLEAN, gen : 0 .. g]
        /\ FlowAt(r, h, w, d, a, b, upsets)
    BY <1>2, <1>5
  <2> HIDE DEF a, b
  <2>2. (a.n > 0 => a.n \in 1 .. Len(plan[r].packets)
                    /\ a.sent >= (plan[r].packets[a.n] + Mtu - 1) \div Mtu) =>
            FlowAt(r, h, w, d, [n |-> a.n + 1, sent |-> 0], b, upsets)
    BY <1>2, <2>1, FlowAtSteps
  <2> QED
    BY <1>3, <1>4, <2>2 DEF b
<1>6. Way(w, d, sender', link, upsets)
  BY <1>2, <1>3, <1>5, WayGoesOn
<1> QED
  BY <1>1, <1>6, QuietServed DEF d

LEMMA CutIsGenuine ==
    ASSUME SendInv, NEW r \in Senders, Busy(r)
    PROVE  LET f == [packet |-> Packet(r), part |-> sender[r].sent + 1,
                     gen |-> link[plan[r].link].gen]
           IN  f \in RealFrame(Peak) /\ Genuine(r, plan[r].packets, f)
<1> DEFINE f == [packet |-> Packet(r), part |-> sender[r].sent + 1, gen |-> link[plan[r].link].gen]
           n == sender[r].n
           p == sender[r].sent
           q == plan[r].packets
<1>1. n \in Nat /\ n > 0 /\ n <= Len(q) /\ p \in Nat /\ p < Parts(Packet(r))
  BY DEF SendInv, Busy
<1>2. plan[r].link \in Handles /\ q \in Packets
  BY PacketsOf DEF SendInv
<1>3. link[plan[r].link].gen \in 0 .. Peak
  BY <1>2 DEF SendInv
<1>4. f \in RealFrame(Peak)
  BY <1>3, SentIsReal
<1>5. n \in 1 .. Len(q)
  BY <1>1, <1>2 DEF Packets
<1>6. q[n] \in Nat \ {0}
  BY <1>2, <1>5 DEF Packets
<1>7. f.packet.from = r /\ f.packet.n = n /\ f.packet.total = q[n] /\ f.part = p + 1
  BY DEF Packet
<1>8. p < (q[n] + Mtu - 1) \div Mtu
  BY <1>1 DEF Parts, Packet
<1> HIDE DEF f, n, p, q
<1>9. q[n] - p * Mtu > 0
  <2> DEFINE t == q[n]
  <2>1. t \in Nat \ {0} /\ p < (t + Mtu - 1) \div Mtu
    BY <1>6, <1>8
  <2> HIDE DEF t
  <2>2. t - p * Mtu > 0
    BY <1>1, <2>1, PartsThere
  <2> QED
    BY <2>2 DEF t
<1>10. (p + 1) - 1 = p
  BY <1>1
<1>11. Left(q, n, p + 1) > 0
  BY <1>9, <1>10 DEF Left
<1>12. Place(q, n, p + 1)
  BY <1>1, <1>5, <1>11 DEF Place
<1>13. Genuine(r, q, f)
  BY <1>7, <1>12 DEF Genuine
<1> QED
  BY <1>4, <1>13 DEF f, q

LEMMA SendServed ==
    ASSUME Inv, NEW w, Served(w), NEW r \in Senders, SendFrame(r)
    PROVE  \E v : Served(v)'
<1> DEFINE d == TheDesk
           g == Peak
           k == plan[r].link
           f == [packet |-> Packet(r), part |-> sender[r].sent + 1, gen |-> link[k].gen]
<1>1. /\ Busy(r) /\ UNCHANGED <<plan, link, port, rx, device, conns, delivered>>
      /\ sender' = [sender EXCEPT ![r].sent = @ + 1]
      /\ \/ upsets' = upsets /\ source' = IF link[k].up
                                          THEN [source EXCEPT !.acl = @ \o Units(f)] ELSE source
         \/ upsets' = upsets + 1 /\ source' = source
  BY DEF SendFrame, rxVars
<1>2. /\ g \in Nat /\ plan \in Plans /\ d \in Desk(g) /\ GoodDesk(d)
      /\ sender \in [Senders -> [n : Nat, sent : Nat]]
      /\ link \in [Handles -> [up : BOOLEAN, gen : 0 .. g]] /\ upsets \in Nat
      /\ w \in Seq(Unit(g)) /\ Way(w, d, sender, link, upsets)
  BY Typed, WayTyped DEF Served
<1>3. f \in RealFrame(g) /\ Genuine(r, plan[r].packets, f)
  BY <1>1, CutIsGenuine DEF Inv
<1>4. f.packet.n = sender[r].n /\ f.part = sender[r].sent + 1 /\ f.gen = link[k].gen
  BY DEF Packet
<1>5. source.acl \in Seq(Unit(g)) /\ DOMAIN source = Pipes /\ TheWay(w) /\ Stream(w)
  BY Typed DEF Inv, QueueInv, Served
<1>6. TheDesk' = d
  BY <1>1 DEF TheDesk
<1> DEFINE at2 == [sender EXCEPT ![r].sent = @ + 1]
<1>13. PICK v : v = w \o Units(f)
  OBVIOUS
<1> HIDE DEF d, g, f
<1>7. (~link[k].up => Way(w, d, at2, link, upsets)) /\ Way(w, d, at2, link, upsets + 1)
  BY <1>2, WayWithout
<1>8. link[k].up => Way(v, d, at2, link, upsets)
  BY <1>2, <1>3, <1>4, <1>13, WaySent
<1> HIDE DEF at2
<1>9. sender' = at2
  BY <1>1 DEF at2
<1> HIDE DEF k
<1>10. CASE upsets' = upsets + 1 /\ source' = source
  <2>1. Way(w, TheDesk, sender', link', upsets') /\ source'.acl = source.acl
    BY <1>1, <1>7, <1>9, <1>10 DEF d
  <2> QED
    BY <1>1, <2>1, QuietServed
<1>11. CASE upsets' = upsets /\ source' = source /\ ~link[k].up
  <2>1. Way(w, TheDesk, sender', link', upsets') /\ source'.acl = source.acl
    BY <1>1, <1>7, <1>9, <1>11 DEF d
  <2> QED
    BY <1>1, <2>1, QuietServed
<1>12. CASE upsets' = upsets /\ source' = [source EXCEPT !.acl = @ \o Units(f)] /\ link[k].up
  <2> DEFINE u == Units(f)
             b == device.buffer
             m == rx.message
             l == source.acl
  <2>1. u \in Seq(Unit(g)) /\ Stream(v)
    BY <1>2, <1>3, <1>5, <1>13, StreamGrows
  <2>2. b \in Seq(Unit(g)) /\ m \in Message(g) /\ port \in Seq(Message(g)) /\ l \in Seq(Unit(g))
    BY Typed DEF g
  <2>3. OnWay(g, b, m, port, l, w)
    BY <1>5 DEF TheWay, g
  <2>4. v = Join(w, u)
    BY <1>13 DEF Join
  <2>5. source'.acl = Join(l, u)
    BY <1>5, <1>12 DEF Join, Pipes
  <2> HIDE DEF u, b, m, l
  <2>6. OnWay(g, b, m, port, Join(l, u), v)
    BY <2>1, <2>2, <2>3, <2>4, OnWayGrows
  <2>7. TheWay(v)'
    BY <1>1, <2>5, <2>6 DEF TheWay, g, Peak, b, m
  <2>8. Way(v, TheDesk', sender', link', upsets')
    BY <1>1, <1>6, <1>8, <1>9, <1>12
  <2>9. Served(v)'
    BY <1>1, <2>1, <2>7, <2>8, ServedAfter
  <2> QED
    BY <2>9
<1> QED
  BY <1>1, <1>10, <1>11, <1>12 DEF k

LEMMA LinkServed ==
    ASSUME Inv, NEW w, Served(w), NEW h \in Handles, LinkUp(h) \/ LinkFails(h) \/ LinkDown(h)
    PROVE  \E v : Served(v)'
<1> DEFINE d == TheDesk
           g == Peak
<1>1. /\ source'.acl = source.acl /\ sender' = sender
      /\ UNCHANGED <<plan, port, rx, device, conns, delivered>>
  <2>1. sender' = sender
    BY DEF LinkUp, LinkFails, LinkDown
  <2> QED
    BY <2>1, Announced DEF Inv
<1>2. /\ g \in Nat /\ plan \in Plans /\ d \in Desk(g) /\ GoodDesk(d)
      /\ sender \in [Senders -> [n : Nat, sent : Nat]]
      /\ link \in [Handles -> [up : BOOLEAN, gen : 0 .. g]] /\ upsets \in Nat
      /\ w \in Seq(Unit(g)) /\ Way(w, d, sender, link, upsets)
  BY Typed, WayTyped DEF Served
<1>3. Made \in 0 .. g /\ link[h].gen <= Made /\ link[h] \in [up : BOOLEAN, gen : 0 .. g]
  BY <1>2, MadeIsMax DEF Inv
<1> HIDE DEF d, g
<1>4. ASSUME NEW c \in [up : BOOLEAN, gen : Nat], link[h].gen <= c.gen, c.up => link[h].gen < c.gen
      PROVE  Way(w, d, sender, [link EXCEPT ![h] = c], upsets)
  BY <1>2, <1>4, WayRelinked
<1>5. Way(w, d, sender', link', upsets')
  <2>1. CASE LinkUp(h)
    <3> DEFINE c == [up |-> TRUE, gen |-> Made + 1]
    <3>1. link' = [link EXCEPT ![h] = c] /\ upsets' = upsets
      BY <2>1 DEF LinkUp
    <3>2. c \in [up : BOOLEAN, gen : Nat] /\ link[h].gen <= c.gen /\ link[h].gen < c.gen
      BY <1>2, <1>3
    <3> HIDE DEF c
    <3>3. Way(w, d, sender, [link EXCEPT ![h] = c], upsets)
      BY <1>4, <3>2
    <3> QED
      BY <1>1, <3>1, <3>3
  <2>2. CASE LinkDown(h)
    <3> DEFINE c == [up |-> FALSE, gen |-> link[h].gen]
    <3>1. link' = [link EXCEPT ![h].up = FALSE] /\ upsets' = upsets
      BY <2>2 DEF LinkDown
    <3>2. link' = [link EXCEPT ![h] = c]
      <4> DEFINE b == link[h]
                 z == [b EXCEPT !.up = FALSE]
      <4>1. link' = [link EXCEPT ![h] = z]
        BY <3>1, Zenon
      <4>2. b \in [up : BOOLEAN, gen : 0 .. g]
        BY <1>3
      <4> HIDE DEF b
      <4>3. z = [up |-> FALSE, gen |-> b.gen]
        <5>1. PICK x \in BOOLEAN, y \in 0 .. g : b = [up |-> x, gen |-> y]
          BY <4>2
        <5>2. \A f : [[up |-> x, gen |-> y] EXCEPT !.up = f] = [up |-> f, gen |-> y]
          OBVIOUS
        <5>3. b.gen = y
          BY <5>1
        <5> QED
          BY <5>1, <5>2, <5>3, Zenon
      <4>4. z = c
        BY <4>3, Zenon DEF b
      <4> QED
        BY <4>1, <4>4, Zenon
    <3>3. c \in [up : BOOLEAN, gen : Nat] /\ link[h].gen <= c.gen /\ ~c.up
      BY <1>2, <1>3
    <3> HIDE DEF c
    <3>4. Way(w, d, sender, [link EXCEPT ![h] = c], upsets)
      BY <1>4, <3>3
    <3> QED
      BY <1>1, <3>1, <3>2, <3>4
  <2>3. CASE LinkFails(h)
    <3>1. link' = link /\ upsets' = upsets + 1
      BY <2>3 DEF LinkFails
    <3>2. Way(w, d, sender, link, upsets + 1)
      BY <1>2, WayUpset
    <3> QED
      BY <1>1, <3>1, <3>2
  <2> QED
    BY <2>1, <2>2, <2>3
<1> QED
  BY <1>1, <1>5, QuietServed DEF d

\* Something goes wrong at most.
LEMMA RestServed ==
    ASSUME Inv, NEW w, Served(w), UNCHANGED <<plan, sender, link, device, port, rx, conns, delivered>>,
           source'.acl = source.acl, upsets' \in {upsets, upsets + 1}
    PROVE  \E v : Served(v)'
<1> DEFINE d == TheDesk
           g == Peak
<1>1. /\ g \in Nat /\ plan \in Plans /\ d \in Desk(g) /\ GoodDesk(d)
      /\ sender \in [Senders -> [n : Nat, sent : Nat]]
      /\ link \in [Handles -> [up : BOOLEAN, gen : 0 .. g]] /\ upsets \in Nat
      /\ w \in Seq(Unit(g)) /\ Way(w, d, sender, link, upsets)
  BY Typed, WayTyped DEF Served
<1> HIDE DEF d, g
<1>2. Way(w, d, sender, link, upsets + 1)
  BY <1>1, WayUpset
<1>3. Way(w, d, sender', link', upsets')
  BY <1>1, <1>2
<1> QED
  BY <1>3, QuietServed DEF d

LEMMA CompletedServed ==
    ASSUME Inv, NEW w, Served(w), NEW p \in Pipes, Completed(p)
    PROVE  \E v : Served(v)'
<1> DEFINE g == Peak
<1>1. PICK x \in Message(g) :
        /\ port' = Append(port, x)
        /\ source'.acl \in Seq(Unit(g))
        /\ source.acl = AclData(x) \o source'.acl
        /\ UNCHANGED <<plan, rx, device>>
  BY CompletedMessage DEF Inv
<1>2. UNCHANGED <<sender, link, conns, delivered, upsets>>
  BY DEF Completed
<1>3. TheDesk' = TheDesk /\ g' = g
  BY <1>1, <1>2 DEF TheDesk, Peak
<1>4. port \in Seq(Message(g))
  BY Typed
<1> DEFINE l == source'.acl
           b == device.buffer
           m == rx.message
<1>5. OnWay(g, b, m, port, AclData(x) \o l, w)
  BY <1>1 DEF Served, TheWay
<1>6. l \in Seq(Unit(g))
  BY <1>1
<1> HIDE DEF l, b, m, g
<1>7. OnWay(g, b, m, Append(port, x), l, w)
  BY <1>4, <1>5, <1>6, OnWayPosted
<1>8. TheWay(w)'
  BY <1>1, <1>3, <1>7 DEF l, b, m, g, TheWay, Peak
<1>9. Way(w, TheDesk', sender', link', upsets') /\ Stream(w)
  BY <1>2, <1>3 DEF Served
<1>10. Served(w)'
  BY <1>1, <1>8, <1>9, ServedAfter
<1> QED
  BY <1>10

LEMMA TakenServed ==
    ASSUME Inv, NEW w, Served(w), device.registered, TakeMessage
    PROVE  \E v : Served(v)'
<1> DEFINE g == Peak
           b == device.buffer
           m == rx.message
           l == source.acl
<1>1. /\ rx.state = "waiting" /\ port # <<>> /\ port' = Tail(port)
      /\ UNCHANGED <<plan, sender, link, source, device, conns, delivered, upsets>>
      /\ rx'.message = Head(port)
  BY DEF TakeMessage
<1>2. port \in Seq(Message(g)) /\ l \in Seq(Unit(g)) /\ AclData(m) = <<>>
  BY <1>1, Typed DEF Inv, QueueInv, AclData, NoMessage
<1>3. OnWay(g, b, m, port, l, w)
  BY DEF Served, TheWay
<1> HIDE DEF l, b, m, g
<1>4. OnWay(g, b, Head(port), Tail(port), l, w)
  BY <1>1, <1>2, <1>3, OnWayTaken
<1>5. TheDesk' = TheDesk /\ g' = g
  BY <1>1 DEF TheDesk, Peak, g
<1>6. TheWay(w)'
  BY <1>1, <1>4, <1>5 DEF l, b, g, TheWay
<1>7. Way(w, TheDesk', sender', link', upsets') /\ Stream(w)
  BY <1>1, <1>5 DEF Served
<1>8. Served(w)'
  BY <1>1, <1>6, <1>7, ServedAfter
<1> QED
  BY <1>8

LEMMA HandledServed ==
    ASSUME Inv, NEW w, Served(w), device.registered, HandleMessage
    PROVE  \E v : Served(v)'
<1> DEFINE g == Peak
           m == rx.message
           d == TheDesk
           y == Assemble(m)
           n == Len(m.data)
           b == device.buffer
           l == source.acl
<1>1. plan' = plan /\ Peak' = Peak /\ plan \in Plans
  BY DEF HandleMessage, Peak, Inv, SendInv
<1>2. /\ rx' = [state |-> IF m.cut THEN "ended" ELSE "waiting", message |-> NoMessage]
      /\ device' = [device EXCEPT !.buffer = y.buffer, !.expected = y.expected]
      /\ conns' = y.conns /\ delivered' = y.delivered
      /\ UNCHANGED <<sender, link, port, source, upsets>>
  BY DEF HandleMessage
<1>3. /\ m \in Message(g) /\ m.pipe \in Pipes /\ b \in Seq(Unit(g)) /\ l \in Seq(Unit(g))
      /\ port \in Seq(Message(g)) /\ upsets \in Nat
  BY Typed, MessageType
<1>4. n \in Nat
  BY <1>3 DEF Message
<1>5. d \in Desk(g) /\ d.buffer = b /\ GoodDesk(d) /\ Cut(d.buffer, d.expected)
  BY DeskIsTyped DEF Inv, DeskInv
<1>6. PICK f : IsAfter(f, d, m.pipe, m.data, n) /\ y = f[n]
  BY <1>4, AssembleIsLast DEF TheDesk
<1>7. OnWay(g, b, m, port, l, w) /\ Stream(w) /\ Way(w, d, sender, link, upsets)
  BY DEF Served, TheWay
<1> HIDE DEF d, y, n, m, g, b, l
<1>8. PICK r \in Seq(Unit(g)) : w = b \o (AclData(m) \o r) /\ Rear(g, port, l, r)
  <2>1. b \in Seq(Unit(g)) /\ m \in Message(g) /\ port \in Seq(Message(g)) /\ l \in Seq(Unit(g))
    BY <1>3
  <2>2. OnWay(g, b, m, port, l, w)
    BY <1>7
  <2>3. Follower(g, b, m, port, l, w)
    BY <2>1, <2>2, OnWayRest
  <2> QED
    BY <2>3 DEF Follower
<1>9. /\ y \in Desk(g) /\ Stream(y.buffer \o r)
      /\ Way(y.buffer \o r, y, sender, link, upsets)
  <2>1. CASE m.pipe = "acl"
    <3> DEFINE c == m.data
    <3>1. c \in Seq(Unit(g)) /\ AclData(m) = c
      BY <1>3, <2>1, MessageType DEF AclData
    <3>2. IsAfter(f, d, "acl", c, Len(c)) /\ n = Len(c)
      BY <1>6, <2>1 DEF n
    <3>3. Stream(d.buffer \o (c \o r)) /\ Way(d.buffer \o (c \o r), d, sender, link, upsets)
      BY <1>5, <1>7, <1>8, <3>1
    <3> HIDE DEF c
    <3>4. LET z == f[Len(c)]
          IN  /\ z \in Desk(g) /\ GoodDesk(z) /\ Cut(z.buffer, z.expected)
              /\ Stream(z.buffer \o r)
      BY <1>1, <1>5, <3>1, <3>2, <3>3, AclDataAssembled
    <3>5. LET z == f[Len(c)] IN Way(z.buffer \o r, z, sender, link, upsets)
      BY <1>1, <1>3, <1>5, <3>1, <3>2, <3>3, DataServed
    <3> QED
      BY <1>6, <3>2, <3>4, <3>5
  <2>2. CASE m.pipe = "event"
    <3> DEFINE c == m.data
    <3>1. c \in Seq(Event) /\ AclData(m) = <<>>
      BY <1>3, <2>2, MessageType DEF AclData
    <3>2. IsAfter(f, d, "event", c, Len(c)) /\ n = Len(c)
      BY <1>6, <2>2 DEF n
    <3> HIDE DEF c
    <3>3. LET z == f[Len(c)]
          IN  z \in Desk(g) /\ GoodDesk(z) /\ z.buffer = d.buffer /\ z.expected = d.expected
      BY <1>5, <3>1, <3>2, EventsPosted
    <3>4. y = f[Len(c)]
      BY <1>6, <3>2
    <3>5. y \in Desk(g) /\ y.buffer = b
      BY <1>5, <3>3, <3>4
    <3>6. <<>> \o r = r
      BY <1>8, ConcatEmptySeq
    <3>7. w = y.buffer \o r
      BY <1>8, <3>1, <3>5, <3>6
    <3>8. w \in Seq(Unit(g))
      BY <1>3, <1>7, OnWayType
    <3>9. Way(w, f[Len(c)], sender, link, upsets)
      BY <1>1, <1>3, <1>5, <1>7, <3>1, <3>2, <3>8, EventsServed
    <3> QED
      BY <1>7, <3>4, <3>5, <3>7, <3>9
  <2> QED
    BY <1>3, <2>1, <2>2 DEF Pipes
<1>10. device \in [registered : BOOLEAN, buffer : Seq(Unit(g)), expected : Nat]
  BY DEF Inv, DeskInv, g
<1>11. /\ y.buffer \in Seq(Unit(g)) /\ y.expected \in Nat
       /\ y = [buffer |-> y.buffer, expected |-> y.expected, conns |-> y.conns, delivered |-> y.delivered]
  BY <1>9 DEF Desk
<1>12. device'.buffer = y.buffer /\ device'.expected = y.expected
  BY <1>2, <1>10, <1>11
<1>13. TheDesk' = y
  BY <1>2, <1>11, <1>12 DEF TheDesk
<1>14. PICK v : v = y.buffer \o r
  OBVIOUS
<1>15. TheWay(v)'
  <2>1. NoMessage \in Message(g) /\ AclData(NoMessage) = <<>>
    BY DEF NoMessage, Message, AclData
  <2>2. OnWay(g, y.buffer, NoMessage, port, l, v)
    BY <1>8, <1>11, <1>14, <2>1 DEF Rear
  <2>3. rx'.message = NoMessage
    BY <1>2
  <2> QED
    BY <1>1, <1>2, <1>12, <2>2, <2>3 DEF TheWay, g, l
<1>16. Stream(v) /\ Way(v, TheDesk', sender', link', upsets')
  BY <1>2, <1>9, <1>13, <1>14
<1>17. Served(v)'
  BY <1>1, <1>15, <1>16, ServedAfter
<1> QED
  BY <1>17

\* A device is opened when nothing is on its way and nothing has arrived.
LEMMA OpenServed ==
    ASSUME Inv, WayInv, Open
    PROVE  \E v : Served(v)'
<1> DEFINE w == <<>>
<1>1. /\ driver = "closed" /\ UNCHANGED <<plan, sender, link, source, port, rx, conns, delivered, upsets>>
      /\ device'.buffer = <<>>
  BY DEF Open, NoDevice
<1>2. port = <<>> /\ source.acl = <<>> /\ rx.message = NoMessage
  BY <1>1 DEF Inv, QueueInv
<1>3. \A h \in Handles : conns[h] = Unlisted /\ delivered[h] = <<>>
  BY <1>1 DEF WayInv
<1>4. AclData(NoMessage) = <<>>
  BY DEF AclData, NoMessage
<1>5. OnWay(Peak', <<>>, NoMessage, <<>>, <<>>, <<>>)
  BY <1>4, OnWayNothing
<1>6. TheWay(<<>>)'
  BY <1>1, <1>2, <1>5 DEF TheWay
<1>7. Stream(<<>>)
  BY DEF Stream
<1>8. ASSUME NEW s \in Senders, NEW h \in Handles
      PROVE  Ordered(h, w) /\ FlowAt(s, h, w, TheDesk', sender'[s], link'[h], upsets')
  <2>1. TheDesk'.conns = conns /\ TheDesk'.delivered = delivered
    BY <1>1 DEF TheDesk
  <2>2. TheDesk'.conns[h].current = <<>> /\ TheDesk'.delivered[h] = <<>>
    BY <1>3, <2>1 DEF Unlisted
  <2>3. Len(w) = 0 /\ 1 .. Len(w) = {}
    OBVIOUS
  <2> HIDE DEF w
  <2>4. Road(h, w) = {} /\ Ordered(h, w)
    BY <2>3 DEF Road, Ordered
  <2>5. Len(<<>>) = 0 /\ 1 .. Len(<<>>) = {} /\ 2 .. Len(<<>>) = {}
    OBVIOUS
  <2>6. Held(<<>>, {}) = {}
    BY <2>5 DEF Held
  <2>7. \A q, e, a, b, u : Flow(s, q, <<>>, e, <<>>, {}, a, b, u)
    <3> SUFFICES ASSUME NEW q, NEW e, NEW a, NEW b, NEW u PROVE Flow(s, q, <<>>, e, <<>>, {}, a, b, u)
      OBVIOUS
    <3>1. Sound(s, q, {}, a, b)
      BY DEF Sound
    <3>2. Ranked(<<>>, {})
      BY <2>5 DEF Ranked
    <3>3. Handed(<<>>, {}, a)
      BY <2>5 DEF Handed
    <3>4. FewLost(q, {}, a, b, u)
      BY DEF FewLost, Lost
    <3>5. Packed(q, <<>>, e) /\ AllWhole(<<>>)
      BY <2>5 DEF Packed, AllWhole
    <3> QED
      BY <2>6, <3>1, <3>2, <3>3, <3>4, <3>5 DEF Flow
  <2> QED
    BY <2>2, <2>4, <2>7 DEF FlowAt
<1>9. Way(<<>>, TheDesk', sender', link', upsets')
  BY <1>8, WayIs
<1>10. Served(<<>>)'
  BY <1>1, <1>6, <1>7, <1>9, ServedAfter
<1> QED
  BY <1>10

LEMMA ServedStep ==
    ASSUME Inv, WayInv, [Next]_vars, device'.registered
    PROVE  \E v : Served(v)'
<1>1. CASE Open
  BY <1>1, OpenServed
<1>2. CASE ~Open
  <2>1. Step
    BY Steps
  <2>2. device.registered
    <3>1. CASE HandleMessage
      BY <3>1 DEF HandleMessage, Inv, DeskInv
    <3>2. CASE CloseUnregister
      BY <3>2 DEF CloseUnregister, NoDevice
    <3>3. CASE ~HandleMessage /\ ~CloseUnregister
      <4>1. device' = device
        BY <1>2, <2>1, <3>3 DEF Step, PostACL, SendFrame, LinkUp, LinkFails, LinkDown, Completed,
           Failed, Resubmit, BtUp, CloseCancel, TakeMessage, vars, rxVars
      <4> QED
        BY <4>1
    <3> QED
      BY <3>1, <3>2, <3>3
  <2>3. PICK w : Served(w)
    BY <2>2 DEF WayInv
  <2>4. ASSUME NEW r \in Senders, PostACL(r) \/ SendFrame(r) PROVE \E v : Served(v)'
    BY <2>3, <2>4, PostServed, SendServed
  <2>5. ASSUME NEW h \in Handles, LinkUp(h) \/ LinkFails(h) \/ LinkDown(h) PROVE \E v : Served(v)'
    BY <2>3, <2>5, LinkServed
  <2>6. ASSUME NEW p \in Pipes, Completed(p) PROVE \E v : Served(v)'
    BY <2>3, <2>6, CompletedServed
  <2>7. ASSUME UNCHANGED <<plan, sender, link, source, device, port, rx, conns, delivered>>,
               upsets' \in {upsets, upsets + 1}
        PROVE  \E v : Served(v)'
    BY <2>3, <2>7, RestServed
  <2>8. ASSUME NEW p \in Pipes, Failed(p) PROVE \E v : Served(v)'
    BY <2>7, <2>8 DEF Failed, rxVars
  <2>9. CASE Resubmit \/ BtUp \/ CloseCancel \/ UNCHANGED vars
    BY <2>7, <2>9 DEF Resubmit, BtUp, CloseCancel, vars, rxVars
  <2>10. CASE TakeMessage
    BY <2>2, <2>3, <2>10, TakenServed
  <2>11. CASE HandleMessage
    BY <2>2, <2>3, <2>11, HandledServed
  <2>12. ~CloseUnregister
    BY DEF CloseUnregister, NoDevice
  <2> QED
    BY <1>2, <2>1, <2>4, <2>5, <2>6, <2>8, <2>9, <2>10, <2>11, <2>12 DEF Step
<1> QED
  BY <1>1, <1>2

\* What every step leaves of what is done.
LEMMA DoneKept ==
    ASSUME [Next]_vars
    PROVE  /\ upsets' \in {upsets, upsets + 1}
           /\ ~HandleMessage => conns' = conns /\ delivered' = delivered
           /\ HandleMessage /\ ~device.registered =>
                  conns' = conns /\ delivered' = delivered /\ device' = device
           /\ driver' = "closed" => driver = "closed" /\ (~HandleMessage => device' = device)
<1>1. Step
  BY Steps
<1>2. upsets' \in {upsets, upsets + 1}
  BY <1>1 DEF Step, PostACL, SendFrame, LinkUp, LinkFails, LinkDown, Completed, Failed, Resubmit,
     Open, BtUp, CloseCancel, CloseUnregister, TakeMessage, HandleMessage, vars
<1>3. ASSUME ~HandleMessage PROVE conns' = conns /\ delivered' = delivered
  BY <1>1, <1>3 DEF Step, PostACL, SendFrame, LinkUp, LinkFails, LinkDown, Completed, Failed,
     Resubmit, Open, BtUp, CloseCancel, CloseUnregister, TakeMessage, vars, rxVars
<1>4. ASSUME HandleMessage, ~device.registered
      PROVE  conns' = conns /\ delivered' = delivered /\ device' = device
  BY <1>4 DEF HandleMessage
<1>5. ASSUME driver' = "closed" PROVE driver = "closed" /\ (~HandleMessage => device' = device)
  <2>1. ~Open /\ ~BtUp /\ ~CloseCancel /\ ~CloseUnregister
    BY <1>5 DEF Open, BtUp, CloseCancel, CloseUnregister
  <2>2. driver' = driver
    BY <1>1, <2>1 DEF Step, PostACL, SendFrame, LinkUp, LinkFails, LinkDown, Completed, Failed,
       Resubmit, TakeMessage, HandleMessage, vars
  <2>3. ASSUME ~HandleMessage PROVE device' = device
    BY <1>1, <2>1, <2>3 DEF Step, PostACL, SendFrame, LinkUp, LinkFails, LinkDown, Completed,
       Failed, Resubmit, TakeMessage, vars, rxVars
  <2> QED
    BY <1>5, <2>2, <2>3
<1> QED
  BY <1>2, <1>3, <1>4, <1>5

LEMMA WayStep ==
    ASSUME Inv, WayInv, [Next]_vars
    PROVE  WayInv'
<1>1. plan' = plan
  BY PlanKept
<1>2. device'.registered => \E w : Served(w)'
  BY ServedStep
<1>3. ASSUME driver' = "closed"
      PROVE  /\ ~device'.registered
             /\ \A h \in Handles : conns'[h] = Unlisted /\ delivered'[h] = <<>>
  <2>1. driver = "closed"
    BY <1>3, DoneKept
  <2>2. ~HandleMessage
    BY <2>1 DEF HandleMessage, Inv, QueueInv
  <2>3. UNCHANGED <<device, conns, delivered>>
    BY <1>3, <2>2, DoneKept
  <2> QED
    BY <2>1, <2>3 DEF WayInv
<1>4. ASSUME NEW s \in Senders, NEW h \in Handles, Sole(s, h)' PROVE Done(delivered'[h], upsets')
  <2>1. Sole(s, h)
    BY <1>1, <1>4 DEF Sole
  <2>2. CASE device'.registered
    <3>1. PICK w : Served(w)'
      BY <1>2, <2>2
    <3>2. Way(w, TheDesk, sender, link, upsets)'
      BY <3>1 DEF Served
    <3>3. TheDesk'.delivered = delivered'
      BY DEF TheDesk
    <3>4. Flow(s, plan'[s].packets, TheDesk'.conns[h].current, TheDesk'.conns[h].expected,
               TheDesk'.delivered[h], Road(h, w)', sender'[s], link'[h], upsets')
      BY <1>4, <3>2 DEF Way
    <3> QED
      BY <3>3, <3>4 DEF Flow, Handed, Done
  <2>3. CASE ~device'.registered
    <3>1. delivered' = delivered
      <4>1. ~(HandleMessage /\ device.registered)
        BY <2>3 DEF HandleMessage, Inv, DeskInv
      <4> QED
        BY <4>1, DoneKept
    <3>2. upsets \in Nat /\ upsets' \in {upsets, upsets + 1}
      BY Typed, DoneKept
    <3>3. upsets' <= 1 => upsets <= 1
      BY <3>2
    <3>4. Done(delivered[h], upsets)
      BY <2>1 DEF WayInv
    <3> QED
      BY <3>1, <3>3, <3>4 DEF Done
  <2> QED
    BY <2>2, <2>3
<1> QED
  BY <1>2, <1>3, <1>4 DEF WayInv

LEMMA InitWay == Init => WayInv
<1> SUFFICES ASSUME Init PROVE WayInv
  OBVIOUS
<1>1. ~device.registered
  BY DEF Init, NoDevice
<1>2. \A h \in Handles : conns[h] = Unlisted /\ delivered[h] = <<>>
  BY DEF Init
<1>3. Done(<<>>, upsets)
  <2>1. Len(<<>>) = 0 /\ 1 .. Len(<<>>) = {}
    OBVIOUS
  <2> QED
    BY <2>1 DEF Done, AllWhole
<1> QED
  BY <1>1, <1>2, <1>3 DEF WayInv

LEMMA WayInvariant == Spec => []WayInv
<1>1. Init => WayInv
  BY InitWay
<1>2. Inv /\ WayInv /\ [Next]_vars => WayInv'
  BY WayStep
<1> QED
  BY <1>1, <1>2, Invariant, PTL DEF Spec

LEMMA SoleSenderIs ==
    ASSUME Inv, NEW h \in Handles, SoleSender(h)
    PROVE  \E s \in Senders : Sole(s, h)
<1> DEFINE S == {s \in Senders : plan[s].link = h /\ plan[s].packets # <<>>}
<1>1. IsFiniteSet(S)
  <2>1. S \subseteq Senders /\ IsFiniteSet(Senders)
    BY LinkAssumption
  <2> HIDE DEF S
  <2> QED
    BY <2>1, FS_Subset
<1>2. Cardinality(S) = 1
  BY DEF SoleSender
<1> HIDE DEF S
<1>3. PICK s : S = {s}
  BY <1>1, <1>2, FS_Singleton
<1> QED
  BY <1>3 DEF S, Sole

LEMMA ServedHolds == Inv /\ WayInv => SoleSenderIsServed
<1> SUFFICES ASSUME Inv, WayInv, NEW h \in Handles, SoleSender(h)
    PROVE  /\ upsets <= 1 => \A i \in DOMAIN delivered[h] :
                  OneConnection(delivered[h][i]) => Whole(delivered[h][i])
           /\ \A i, j \in DOMAIN delivered[h] :
                  i < j => delivered[h][i][1].packet.n < delivered[h][j][1].packet.n
  BY DEF SoleSenderIsServed, SoleSenderIsWhole, DeliveredInOrder
<1>1. PICK s \in Senders : Sole(s, h)
  BY SoleSenderIs
<1>2. Done(delivered[h], upsets)
  BY <1>1 DEF WayInv
<1>3. DOMAIN delivered[h] = 1 .. Len(delivered[h])
  <2>1. delivered[h] \in Seq(Seq(RealFrame(Peak)))
    BY DEF Inv, DeskInv
  <2> QED
    BY <2>1
<1> QED
  BY <1>2, <1>3 DEF Done, AllWhole

\* On a link with one sending thread, for all plans, MTUs, transfers and depths of
\* the port: what L2CAP gets are packets in the order in which PostACL() took
\* them, none twice, and, unless something went wrong twice, one that came in one
\* connection is whole.
THEOREM SoleSendersAreServed == Spec => []SoleSenderIsServed
<1>1. Inv /\ WayInv => SoleSenderIsServed
  BY ServedHolds
<1> QED
  BY <1>1, Invariant, WayInvariant, PTL

=============================================================================
