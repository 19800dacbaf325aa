-------------------------- MODULE L2capErtm_proofs --------------------------
(***************************************************************************)
(* What holds of Enhanced Retransmission Mode for any number of sequence   *)
(* numbers and retries, any traffic and any damage to the frames.          *)
(***************************************************************************)
EXTENDS L2capErtm, NumberLemmas, SequenceTheorems

Frame == IFrame \cup SFrame

\* What the operators that may add a timer take and give.
Outcome == [ep : ErtmState, out : Seq(Frame), twice : BOOLEAN]

----------------------------------------------------------------------------
\* The loop of _RetransmitFrom()

\* y is x with frames sent again and state c: no slot is filled or emptied.
Resent(x, y, c) ==
    /\ y \in Outcome
    /\ y.twice = x.twice
    /\ \E q \in [SeqNo -> TxEntry] :
          /\ y.ep = [x.ep EXCEPT !.txQueue = q, !.state = c]
          /\ \A s \in SeqNo : q[s] = NoFrame <=> x.ep.txQueue[s] = NoFrame

LEMMA ResentType ==
    ASSUME NEW r \in ErtmState, NEW q \in [SeqNo -> TxEntry], NEW c \in {"OPEN", "CLOSED"}
    PROVE  LET y == [r EXCEPT !.txQueue = q, !.state = c]
           IN  /\ y \in ErtmState /\ y.txQueue = q /\ y.state = c
               /\ \A p \in [SeqNo -> TxEntry], d \in {"OPEN", "CLOSED"} :
                     [y EXCEPT !.txQueue = p, !.state = d] = [r EXCEPT !.txQueue = p, !.state = d]
               /\ \A p \in [SeqNo -> TxEntry] :
                     [y EXCEPT !.txQueue = p] = [r EXCEPT !.txQueue = p, !.state = c]
               /\ \A d \in {"OPEN", "CLOSED"} :
                     [y EXCEPT !.state = d] = [r EXCEPT !.txQueue = q, !.state = d]
BY DEF ErtmState

LEMMA ResentSelf == ASSUME NEW x \in Outcome PROVE Resent(x, x, x.ep.state)
<1>1. x.ep = [x.ep EXCEPT !.txQueue = x.ep.txQueue, !.state = x.ep.state]
      /\ x.ep.txQueue \in [SeqNo -> TxEntry]
  BY DEF Outcome, ErtmState
<1> QED
  BY <1>1 DEF Resent

LEMMA EmitType ==
    ASSUME NEW x \in Outcome, NEW f \in Frame
    PROVE  Emit(x, f) \in Outcome /\ Emit(x, f).ep = x.ep /\ Emit(x, f).twice = x.twice
BY DEF Emit, Outcome

\* One more try of a frame.
LEMMA TriedAgain ==
    ASSUME NEW e \in TxEntry, e # NoFrame
    PROVE  /\ e.retry \in Nat /\ e.frame \in IFrame
           /\ [e EXCEPT !.retry = @ + 1] \in TxEntry
           /\ [e EXCEPT !.retry = @ + 1] # NoFrame
<1>1. e \in [retry : Nat, frame : IFrame]
  BY DEF TxEntry
<1>2. [e EXCEPT !.retry = @ + 1] \in [retry : Nat, frame : IFrame]
      /\ [e EXCEPT !.retry = @ + 1].retry = e.retry + 1 /\ e.retry \in Nat
  BY <1>1
<1>3. e.retry + 1 # NoFrame.retry
  BY <1>2 DEF NoFrame
<1> QED
  BY <1>1, <1>2, <1>3 DEF TxEntry

LEMMA RetryResends ==
    ASSUME NEW x \in Outcome, NEW y, Resent(x, y, x.ep.state), NEW s \in SeqNo,
           y.ep.txQueue[s] # NoFrame
    PROVE  Resent(x, Retry(y, s),
                  IF y.ep.txQueue[s].retry >= MaxTransmit THEN "CLOSED" ELSE x.ep.state)
<1> DEFINE e == y.ep.txQueue[s]
           r == x.ep
<1>1. PICK q \in [SeqNo -> TxEntry] :
          /\ y.ep = [r EXCEPT !.txQueue = q, !.state = r.state]
          /\ \A z \in SeqNo : q[z] = NoFrame <=> r.txQueue[z] = NoFrame
  BY DEF Resent
<1>2. r \in ErtmState /\ r.state \in {"OPEN", "CLOSED"} /\ y \in Outcome
  BY DEF Outcome, ErtmState, Resent
<1>3. y.ep.txQueue = q /\ e = q[s] /\ e \in TxEntry
  <2>1. [r EXCEPT !.txQueue = q, !.state = r.state].txQueue = q
    BY <1>2 DEF ErtmState
  <2> QED
    BY <1>1, <2>1
<1>4. /\ e.retry \in Nat /\ e.frame \in IFrame
      /\ [e EXCEPT !.retry = @ + 1] \in TxEntry
      /\ [e EXCEPT !.retry = @ + 1] # NoFrame
  BY <1>3, TriedAgain
<1>5. CASE e.retry >= MaxTransmit
  <2>1. Retry(y, s) = [y EXCEPT !.ep.state = "CLOSED"]
    BY <1>5 DEF Retry
  <2>2. [y.ep EXCEPT !.state = "CLOSED"] = [r EXCEPT !.txQueue = q, !.state = "CLOSED"]
    BY <1>1, <1>2, ResentType
  <2>3. [r EXCEPT !.txQueue = q, !.state = "CLOSED"] \in ErtmState
    BY <1>1, <1>2, ResentType
  <2>4. /\ Retry(y, s) \in Outcome /\ Retry(y, s).twice = y.twice
        /\ Retry(y, s).ep = [r EXCEPT !.txQueue = q, !.state = "CLOSED"]
    BY <2>1, <2>2, <2>3, <1>2 DEF Outcome
  <2> QED
    BY <2>4, <1>1, <1>5 DEF Resent
<1>6. CASE ~(e.retry >= MaxTransmit)
  <2> DEFINE p == [q EXCEPT ![s] = [e EXCEPT !.retry = @ + 1]]
  <2>1. p \in [SeqNo -> TxEntry] /\ \A z \in SeqNo : p[z] = NoFrame <=> q[z] = NoFrame
    BY <1>3, <1>4
  <2>2. [q EXCEPT ![s].retry = @ + 1] = p
    BY <1>3
  <2>3. [y EXCEPT !.ep.txQueue[s].retry = @ + 1]
          = [y EXCEPT !.ep = [y.ep EXCEPT !.txQueue = p]]
    BY <2>2, <1>3, <1>2
  <2> HIDE DEF p
  <2>4. Retry(y, s) = Emit([y EXCEPT !.ep = [y.ep EXCEPT !.txQueue = p]], e.frame)
    BY <2>3, <1>6 DEF Retry
  <2>5. [y.ep EXCEPT !.txQueue = p] = [r EXCEPT !.txQueue = p, !.state = r.state]
    BY <1>1, <1>2, <2>1, ResentType
  <2>6. [r EXCEPT !.txQueue = p, !.state = r.state] \in ErtmState
    BY <1>2, <2>1, ResentType
  <2>7. e.frame \in Frame
    BY <1>4 DEF Frame
  <2>8. /\ Retry(y, s) \in Outcome /\ Retry(y, s).twice = y.twice
        /\ Retry(y, s).ep = [r EXCEPT !.txQueue = p, !.state = r.state]
    <3> DEFINE z == [y EXCEPT !.ep = [y.ep EXCEPT !.txQueue = p]]
    <3>1. z \in Outcome /\ z.ep = [y.ep EXCEPT !.txQueue = p] /\ z.twice = y.twice
      BY <2>5, <2>6, <1>2 DEF Outcome
    <3>2. Retry(y, s) = Emit(z, e.frame)
      BY <2>4
    <3> HIDE DEF z, e
    <3> QED
      BY <2>5, <2>7, <3>1, <3>2, EmitType
  <2> QED
    BY <2>8, <2>1, <1>1, <1>6, ZenonT(40) DEF Resent
<1> QED
  BY <1>5, <1>6

\* f is the loop from fromSeq, as a function of the rounds done.
IsLoop(f, x, fromSeq, n) ==
    f = [k \in 0 .. n |-> IF k = 0 THEN [x |-> x, spent |-> FALSE]
                          ELSE Round(f[k - 1], (fromSeq + k - 1) % SeqMod)]

LEMMA RoundsExist ==
    ASSUME NEW x, NEW fromSeq, NEW n \in Nat
    PROVE  \E f : IsLoop(f, x, fromSeq, n)
<1> DEFINE G(f, k) == IF k = 0 THEN [x |-> x, spent |-> FALSE]
                      ELSE Round(f[k - 1], (fromSeq + k - 1) % SeqMod)
           Runs(m) == \E f : f = [k \in 0 .. m |-> G(f, k)]
           T == {m \in Nat : ~Runs(m)}
<1>1. \A f, g : G(f, 0) = G(g, 0)
  OBVIOUS
<1>2. ASSUME NEW f, NEW g, NEW k, f[k - 1] = g[k - 1] PROVE G(f, k) = G(g, k)
  BY <1>2
<1>3. SUFFICES ASSUME T # {} PROVE FALSE
  BY DEF IsLoop
<1> HIDE DEF G
<1>4. PICK m \in T : \A j \in T : m <= j
  BY <1>3, LeastNumber
<1>5. CASE m = 0
  <2> DEFINE g == [k \in 0 .. 0 |-> G(<< >>, k)]
  <2>1. \A k \in 0 .. 0 : G(<< >>, k) = G(g, k)
    BY <1>1
  <2>2. g = [k \in 0 .. 0 |-> G(g, k)]
    BY <2>1, Zenon
  <2>3. Runs(0)
    BY <2>2, Zenon
  <2> QED
    BY <1>4, <1>5, <2>3
<1>6. CASE m # 0
  <2>1. m - 1 \in Nat /\ m - 1 \notin T /\ m \in Nat
    BY <1>4, <1>6
  <2>2. PICK f : f = [k \in 0 .. m - 1 |-> G(f, k)]
    BY <2>1
  <2> DEFINE g == [k \in 0 .. m |-> IF k < m THEN f[k] ELSE G(f, k)]
  <2>3. \A k \in 0 .. m : k # 0 => g[k - 1] = f[k - 1]
    BY <2>1
  <2>4. \A k \in 0 .. m : k = 0 => G(f, k) = G(g, k)
    BY <1>1
  <2>5. \A k \in 0 .. m : k # 0 => G(f, k) = G(g, k)
    <3> SUFFICES ASSUME NEW k \in 0 .. m, k # 0 PROVE G(f, k) = G(g, k)
      OBVIOUS
    <3>1. f[k - 1] = g[k - 1]
      BY <2>3
    <3> HIDE DEF g
    <3> QED
      BY <3>1, <1>2
  <2>6. \A k \in 0 .. m : k < m => f[k] = G(f, k)
    BY <2>1, <2>2
  <2>7. \A k \in 0 .. m : g[k] = G(g, k)
    BY <2>4, <2>5, <2>6
  <2>8. g = [k \in 0 .. m |-> g[k]]
    OBVIOUS
  <2>9. g = [k \in 0 .. m |-> G(g, k)]
    BY <2>7, <2>8, Zenon
  <2>10. Runs(m)
    BY <2>9, Zenon
  <2> QED
    BY <1>4, <2>10
<1> QED
  BY <1>5, <1>6

\* What the loop does, its rounds given as a function.
LEMMA RoundsDone ==
    ASSUME NEW x, NEW fromSeq, (x.ep.txSeq - fromSeq) % SeqMod \in Nat
    PROVE  LET n == (x.ep.txSeq - fromSeq) % SeqMod
           IN  \E f :
                 /\ IsLoop(f, x, fromSeq, n)
                 /\ RetransmitFrom(x, fromSeq) =
                      IF f[n].spent THEN f[n].x ELSE Start(f[n].x, "retransmit")
<1> DEFINE n == (x.ep.txSeq - fromSeq) % SeqMod
           f == CHOOSE f : f = [k \in 0 .. n |->
                          IF k = 0 THEN [x |-> x, spent |-> FALSE]
                          ELSE Round(f[k - 1], (fromSeq + k - 1) % SeqMod)]
<1>1. IsLoop(f, x, fromSeq, n)
  <2>1. n \in Nat
    OBVIOUS
  <2> HIDE DEF n
  <2>2. \E g : IsLoop(g, x, fromSeq, n)
    BY <2>1, RoundsExist
  <2> QED
    BY <2>2, Zenon DEF IsLoop
<1>2. RetransmitFrom(x, fromSeq) =
                      IF f[n].spent THEN f[n].x ELSE Start(f[n].x, "retransmit")
  BY DEF RetransmitFrom
<1> QED
  BY <1>1, <1>2, Zenon

\* _RetransmitFrom() sends frames again; then it starts the timer, unless a frame
\* out of retries has closed the channel.
LEMMA RetransmitFromResends ==
    ASSUME NEW x \in Outcome, NEW fromSeq \in SeqNo
    PROVE  \/ Resent(x, RetransmitFrom(x, fromSeq), "CLOSED")
           \/ \E y : /\ Resent(x, y, x.ep.state)
                     /\ RetransmitFrom(x, fromSeq) = Start(y, "retransmit")
<1> DEFINE n == (x.ep.txSeq - fromSeq) % SeqMod
           Fine(v) == /\ v.spent \in BOOLEAN
                      /\ Resent(x, v.x, IF v.spent THEN "CLOSED" ELSE x.ep.state)
<1>1. SeqMod \in Nat \ {0} /\ fromSeq \in Int /\ x.ep.txSeq \in Int
  BY SeqModAssumption DEF SeqNo, Outcome, ErtmState
<1>2. n \in Nat
  BY <1>1, DivMod, SMTT(20)
<1> HIDE DEF n
<1>3. PICK f : /\ IsLoop(f, x, fromSeq, n)
               /\ RetransmitFrom(x, fromSeq) =
                    IF f[n].spent THEN f[n].x ELSE Start(f[n].x, "retransmit")
  BY <1>2, RoundsDone DEF n
<1>4. f[0] = [x |-> x, spent |-> FALSE]
  BY <1>2, <1>3 DEF IsLoop
<1>5. \A k \in 1 .. n : f[k] = Round(f[k - 1], (fromSeq + k - 1) % SeqMod)
  <2> SUFFICES ASSUME NEW k \in 1 .. n
               PROVE  f[k] = Round(f[k - 1], (fromSeq + k - 1) % SeqMod)
    OBVIOUS
  <2>1. k \in 0 .. n /\ ~(k = 0)
    BY <1>2
  <2> DEFINE G(j) == IF j = 0 THEN [x |-> x, spent |-> FALSE]
                     ELSE Round(f[j - 1], (fromSeq + j - 1) % SeqMod)
  <2>2. f = [j \in 0 .. n |-> G(j)]
    BY <1>3, Zenon DEF IsLoop
  <2>3. G(k) = Round(f[k - 1], (fromSeq + k - 1) % SeqMod)
    BY <2>1, Zenon
  <2> HIDE DEF G
  <2>4. f[k] = G(k)
    BY <2>1, <2>2
  <2> QED
    BY <2>3, <2>4
<1>6. Fine(f[0])
  BY <1>4, ResentSelf
<1>7. ASSUME NEW v, Fine(v), NEW s \in SeqNo
      PROVE  Fine(Round(v, s))
  <2>1. CASE v.spent \/ v.x.ep.txQueue[s] = NoFrame
    BY <1>7, <2>1 DEF Round
  <2>2. CASE ~v.spent /\ v.x.ep.txQueue[s] # NoFrame
    <3> DEFINE b == v.x.ep.txQueue[s].retry >= MaxTransmit
    <3>1. Resent(x, v.x, x.ep.state)
      BY <1>7, <2>2
    <3>2. Resent(x, Retry(v.x, s), IF b THEN "CLOSED" ELSE x.ep.state)
      BY <2>2, <3>1, RetryResends
    <3>3. Round(v, s) = [x |-> Retry(v.x, s), spent |-> b] /\ b \in BOOLEAN
      BY <2>2 DEF Round
    <3> HIDE DEF b
    <3>4. Round(v, s).x = Retry(v.x, s) /\ Round(v, s).spent = b
      BY <3>3
    <3> QED
      BY <3>2, <3>3, <3>4
  <2> QED
    BY <1>7, <2>1, <2>2
<1> HIDE DEF Fine
<1>8. \A k \in 0 .. n : Fine(f[k])
  <2> DEFINE T == {k \in Nat : k <= n /\ ~Fine(f[k])}
  <2>1. SUFFICES ASSUME T # {} PROVE FALSE
    BY <1>2
  <2>2. PICK k \in T : \A j \in T : k <= j
    BY <2>1, LeastNumber
  <2>3. k # 0 /\ k - 1 \in Nat /\ k - 1 <= n /\ k - 1 \notin T /\ k \in 1 .. n
    BY <1>2, <1>6, <2>2
  <2>4. Fine(f[k - 1])
    BY <2>3
  <2>5. (fromSeq + k - 1) % SeqMod \in SeqNo
    <3>1. fromSeq + k - 1 \in Int /\ SeqMod \in Nat \ {0}
      BY <1>1, <2>3 DEF SeqNo
    <3>2. (fromSeq + k - 1) % SeqMod \in 0 .. SeqMod - 1
      BY <3>1, DivMod
    <3> QED
      BY <3>2 DEF SeqNo
  <2>6. Fine(f[k])
    BY <1>5, <1>7, <2>3, <2>4, <2>5
  <2> QED
    BY <2>2, <2>6
<1>9. Fine(f[n])
  BY <1>2, <1>8
<1> QED
  BY <1>3, <1>9 DEF Fine

----------------------------------------------------------------------------
\* What is shown of each operator: it has an outcome, sends no segment of the
\* user's, and keeps the invariants of an end.

\* A timer is there for the frames that are not acknowledged.
Armed(r) ==
    r.state = "OPEN" /\ r.unacked > 0 => r.armed \cup r.flags \cup r.taken # {}

\* The monitor timer is only active while the answer to a poll is awaited: the
\* end of another exchange then stops no timer that is needed.
Awaits(r) == ~r.waitF => "monitor" \notin r.active

Occupied(r) == {s \in SeqNo : r.txQueue[s] # NoFrame}

Window(r) ==
    r.state = "OPEN" => /\ r.txSeq = (r.expAck + r.unacked) % SeqMod
                        /\ Occupied(r) \subseteq Slots(r.expAck, r.unacked)

KeepsWindow(r, q) == Window(r) => Window(q)

Keeps(x, y) ==
    /\ y \in Outcome /\ y.ep.sent = x.ep.sent
    /\ y.ep.state = "OPEN" => x.ep.state = "OPEN"
    /\ Awaits(x.ep) => Awaits(y.ep)
    /\ Armed(x.ep) /\ Awaits(x.ep) => Armed(y.ep)
    /\ KeepsWindow(x.ep, y.ep)

LEMMA KeepsTwice ==
    ASSUME NEW x, NEW y, NEW z, Keeps(x, y), Keeps(y, z)
    PROVE  Keeps(x, z)
BY DEF Keeps, KeepsWindow

LEMMA KeepsSelf == ASSUME NEW x \in Outcome PROVE Keeps(x, x)
BY DEF Keeps, KeepsWindow

LEMMA StartType ==
    ASSUME NEW x \in Outcome, NEW t \in TimerFlag
    PROVE  LET r == x.ep
               y == Start(x, t)
           IN  /\ y \in Outcome /\ y.out = x.out
               /\ y.ep.state = r.state /\ y.ep.mapped = r.mapped
               /\ y.ep.txSeq = r.txSeq /\ y.ep.expTx = r.expTx
               /\ y.ep.expAck = r.expAck /\ y.ep.unacked = r.unacked
               /\ y.ep.txQueue = r.txQueue /\ y.ep.waitF = r.waitF
               /\ y.ep.active = r.active \cup {t} /\ y.ep.armed = r.armed \cup {t}
               /\ y.ep.flags = r.flags /\ y.ep.taken = r.taken
               /\ y.ep.partial = r.partial /\ y.ep.sent = r.sent
<1> DEFINE r == x.ep
           q == [r EXCEPT !.active = @ \cup {t}, !.armed = @ \cup {t}]
           b == x.twice \/ (t \in r.armed /\ t \notin r.active)
<1>1. Start(x, t) = [x EXCEPT !.ep = q, !.twice = b] /\ b \in BOOLEAN /\ r \in ErtmState
  BY DEF Start, Outcome
<1>2. /\ q \in ErtmState
      /\ q.state = r.state /\ q.mapped = r.mapped
      /\ q.txSeq = r.txSeq /\ q.expTx = r.expTx
      /\ q.expAck = r.expAck /\ q.unacked = r.unacked
      /\ q.txQueue = r.txQueue /\ q.waitF = r.waitF
      /\ q.active = r.active \cup {t} /\ q.armed = r.armed \cup {t}
      /\ q.flags = r.flags /\ q.taken = r.taken
      /\ q.partial = r.partial /\ q.sent = r.sent
  BY <1>1 DEF ErtmState
<1> HIDE DEF q, b
<1>3. Start(x, t) \in Outcome /\ Start(x, t).ep = q /\ Start(x, t).out = x.out
  BY <1>1, <1>2 DEF Outcome
<1> QED
  BY <1>2, <1>3

LEMMA StartKeeps ==
    ASSUME NEW x \in Outcome
    PROVE  Keeps(x, Start(x, "retransmit")) /\ Armed(Start(x, "retransmit").ep)
<1> DEFINE y == Start(x, "retransmit")
<1>1. /\ y \in Outcome /\ y.ep.sent = x.ep.sent /\ y.ep.state = x.ep.state
      /\ y.ep.waitF = x.ep.waitF /\ y.ep.txQueue = x.ep.txQueue
      /\ y.ep.txSeq = x.ep.txSeq /\ y.ep.expAck = x.ep.expAck
      /\ y.ep.unacked = x.ep.unacked
      /\ y.ep.active = x.ep.active \cup {"retransmit"}
      /\ y.ep.armed = x.ep.armed \cup {"retransmit"}
  BY StartType DEF TimerFlag
<1> HIDE DEF y
<1>2. Armed(y.ep)
  BY <1>1 DEF Armed
<1>3. Awaits(x.ep) => Awaits(y.ep)
  BY <1>1 DEF Awaits
<1>4. KeepsWindow(x.ep, y.ep)
  BY <1>1 DEF KeepsWindow, Window, Occupied
<1> QED
  BY <1>1, <1>2, <1>3, <1>4 DEF Keeps, y

LEMMA StopType ==
    ASSUME NEW r \in ErtmState, NEW t \in TimerFlag
    PROVE  LET q == Stop(r, t)
           IN  /\ q \in ErtmState
               /\ q.state = r.state /\ q.mapped = r.mapped
               /\ q.txSeq = r.txSeq /\ q.expTx = r.expTx
               /\ q.expAck = r.expAck /\ q.unacked = r.unacked
               /\ q.txQueue = r.txQueue /\ q.waitF = r.waitF
               /\ q.active = r.active \ {t}
               /\ (t \notin r.active => q.armed = r.armed)
               /\ q.flags = r.flags /\ q.taken = r.taken
               /\ q.partial = r.partial /\ q.sent = r.sent
<1>1. CASE t \in r.active
  <2>1. Stop(r, t) = [r EXCEPT !.active = r.active \ {t}, !.armed = r.armed \ {t}]
    BY <1>1 DEF Stop, ErtmState
  <2> QED
    BY <1>1, <2>1 DEF ErtmState
<1>2. CASE t \notin r.active
  <2>1. Stop(r, t) = r /\ r.active = r.active \ {t}
    BY <1>2 DEF Stop
  <2> QED
    BY <1>2, <2>1
<1> QED
  BY <1>1, <1>2

LEMMA ResentKeeps ==
    ASSUME NEW x \in Outcome, NEW y, NEW c \in {"CLOSED", x.ep.state}, Resent(x, y, c)
    PROVE  Keeps(x, y)
<1>1. x.ep \in ErtmState /\ c \in {"OPEN", "CLOSED"}
  BY DEF Outcome, ErtmState
<1>2. PICK q \in [SeqNo -> TxEntry] :
          /\ y.ep = [x.ep EXCEPT !.txQueue = q, !.state = c]
          /\ \A s \in SeqNo : q[s] = NoFrame <=> x.ep.txQueue[s] = NoFrame
  BY DEF Resent
<1>3. /\ y.ep.sent = x.ep.sent /\ y.ep.state = c /\ y.ep.unacked = x.ep.unacked
      /\ y.ep.waitF = x.ep.waitF /\ y.ep.txQueue = q
      /\ y.ep.txSeq = x.ep.txSeq /\ y.ep.expAck = x.ep.expAck
      /\ y.ep.active = x.ep.active /\ y.ep.armed = x.ep.armed
      /\ y.ep.flags = x.ep.flags /\ y.ep.taken = x.ep.taken
  BY <1>1, <1>2 DEF ErtmState
<1>4. Occupied(y.ep) = Occupied(x.ep)
  BY <1>2, <1>3 DEF Occupied
<1>5. y \in Outcome /\ (c = "OPEN" => x.ep.state = "OPEN")
  BY DEF Resent
<1>6. (Awaits(x.ep) => Awaits(y.ep)) /\ (Armed(x.ep) => Armed(y.ep))
  BY <1>3, <1>5 DEF Armed, Awaits
<1>7. KeepsWindow(x.ep, y.ep)
  BY <1>3, <1>4, <1>5 DEF KeepsWindow, Window
<1> QED
  BY <1>3, <1>5, <1>6, <1>7 DEF Keeps

\* Besides keeping the invariants, _RetransmitFrom() leaves a timer.
LEMMA RetransmitFromKeeps ==
    ASSUME NEW x \in Outcome, NEW fromSeq \in SeqNo
    PROVE  LET y == RetransmitFrom(x, fromSeq)
           IN  Keeps(x, y) /\ Armed(y.ep)
<1> DEFINE y == RetransmitFrom(x, fromSeq)
<1>1. CASE Resent(x, y, "CLOSED")
  <2>1. Keeps(x, y)
    BY <1>1, ResentKeeps
  <2>2. y.ep.state = "CLOSED"
    BY <1>1 DEF Resent, Outcome, ErtmState
  <2> QED
    BY <2>1, <2>2 DEF Armed
<1>2. ASSUME NEW z, Resent(x, z, x.ep.state), y = Start(z, "retransmit")
      PROVE  Keeps(x, y) /\ Armed(y.ep)
  <2>1. Keeps(x, z) /\ z \in Outcome
    BY <1>2, ResentKeeps DEF Resent
  <2>2. Keeps(z, y) /\ Armed(y.ep)
    BY <1>2, <2>1, StartKeeps
  <2> QED
    BY <2>1, <2>2, KeepsTwice
<1> QED
  BY <1>1, <1>2, RetransmitFromResends

LEMMA RetransmitSingleKeeps ==
    ASSUME NEW x \in Outcome, NEW s \in SeqNo
    PROVE  Keeps(x, RetransmitSingle(x, s))
<1>1. CASE x.ep.txQueue[s] = NoFrame
  BY <1>1, KeepsSelf DEF RetransmitSingle
<1>2. CASE x.ep.txQueue[s] # NoFrame
  <2>1. Resent(x, x, x.ep.state)
    BY ResentSelf
  <2> DEFINE c == IF x.ep.txQueue[s].retry >= MaxTransmit THEN "CLOSED" ELSE x.ep.state
  <2>2. Resent(x, Retry(x, s), c)
    BY <1>2, <2>1, RetryResends
  <2>3. c \in {"CLOSED", x.ep.state}
    OBVIOUS
  <2> HIDE DEF c
  <2>4. Keeps(x, Retry(x, s))
    BY <2>2, <2>3, ResentKeeps
  <2> QED
    BY <1>2, <2>4 DEF RetransmitSingle
<1> QED
  BY <1>1, <1>2

LEMMA SendSFrameKeeps ==
    ASSUME NEW x \in Outcome, NEW type \in SType, NEW poll \in BOOLEAN, NEW final \in BOOLEAN
    PROVE  LET y == SendSFrame(x, type, poll, final)
           IN  /\ y \in Outcome /\ y.ep = x.ep /\ y.twice = x.twice
               /\ Keeps(x, y)
<1> DEFINE y == SendSFrame(x, type, poll, final)
           f == [kind |-> "S", type |-> type, reqSeq |-> x.ep.expTx,
                 poll |-> poll, final |-> final]
<1>1. f \in Frame
  BY DEF Frame, SFrame, Outcome, ErtmState
<1>2. y = x \/ y = Emit(x, f)
  BY DEF SendSFrame
<1> HIDE DEF y, f
<1>3. y \in Outcome /\ y.ep = x.ep /\ y.twice = x.twice
  BY <1>1, <1>2, EmitType
<1>4. Keeps(x, y)
  BY <1>3, KeepsSelf DEF Keeps
<1> QED
  BY <1>3, <1>4 DEF y

----------------------------------------------------------------------------
\* The window

LEMMA SlotsPushed ==
    ASSUME NEW e \in SeqNo, NEW u \in Nat
    PROVE  /\ Slots(e, u) \cup {(e + u) % SeqMod} = Slots(e, u + 1)
           /\ Next64((e + u) % SeqMod) = (e + (u + 1)) % SeqMod
<1>1. SeqMod \in Nat \ {0} /\ e \in Int
  BY SeqModAssumption DEF SeqNo
<1>2. Slots(e, u) \cup {(e + u) % SeqMod} = Slots(e, u + 1)
  <2>1. ASSUME NEW s \in Slots(e, u) PROVE s \in Slots(e, u + 1)
    <3>1. PICK k \in 0 .. u - 1 : s = (e + k) % SeqMod
      BY DEF Slots
    <3>2. k \in 0 .. (u + 1) - 1
      OBVIOUS
    <3> QED
      BY <3>1, <3>2 DEF Slots
  <2>2. (e + u) % SeqMod \in Slots(e, u + 1)
    <3>1. u \in 0 .. (u + 1) - 1
      OBVIOUS
    <3> QED
      BY <3>1 DEF Slots
  <2>3. ASSUME NEW s \in Slots(e, u + 1), s # (e + u) % SeqMod PROVE s \in Slots(e, u)
    <3>1. PICK k \in 0 .. (u + 1) - 1 : s = (e + k) % SeqMod
      BY DEF Slots
    <3>2. k \in 0 .. u - 1
      BY <2>3, <3>1
    <3> QED
      BY <3>1, <3>2 DEF Slots
  <2> QED
    BY <2>1, <2>2, <2>3
<1>3. Next64((e + u) % SeqMod) = (e + (u + 1)) % SeqMod
  <2> DEFINE a == e + u
  <2>1. a \in Int /\ 1 \in Int /\ a + 1 = e + (u + 1)
    BY <1>1
  <2> HIDE DEF a
  <2>2. ((a % SeqMod) + 1) % SeqMod = (a + 1) % SeqMod
    BY <1>1, <2>1, ModShift
  <2> QED
    BY <2>1, <2>2 DEF Next64, a
<1> QED
  BY <1>2, <1>3

LEMMA SlotsPopped ==
    ASSUME NEW e \in SeqNo, NEW u \in Nat, NEW n \in 0 .. u
    PROVE  /\ Slots(e, u) \ Slots(e, n) \subseteq Slots((e + n) % SeqMod, u - n)
           /\ (((e + n) % SeqMod) + (u - n)) % SeqMod = (e + u) % SeqMod
<1>1. SeqMod \in Nat \ {0} /\ e \in Int /\ n \in Int /\ u \in Int
  BY SeqModAssumption DEF SeqNo
<1>2. \A k \in Int : (((e + n) % SeqMod) + k) % SeqMod = (e + (n + k)) % SeqMod
  <2> SUFFICES ASSUME NEW k \in Int
               PROVE  (((e + n) % SeqMod) + k) % SeqMod = (e + (n + k)) % SeqMod
    OBVIOUS
  <2> DEFINE a == e + n
  <2>1. a \in Int /\ a + k = e + (n + k)
    BY <1>1
  <2> HIDE DEF a
  <2>2. ((a % SeqMod) + k) % SeqMod = (a + k) % SeqMod
    BY <1>1, <2>1, ModShift
  <2> QED
    BY <2>1, <2>2 DEF a
<1>3. ASSUME NEW s \in Slots(e, u), s \notin Slots(e, n)
      PROVE  s \in Slots((e + n) % SeqMod, u - n)
  <2>1. PICK k \in 0 .. u - 1 : s = (e + k) % SeqMod
    BY DEF Slots
  <2>2. k \notin 0 .. n - 1
    BY <1>3, <2>1 DEF Slots
  <2>3. k - n \in 0 .. (u - n) - 1 /\ k - n \in Int /\ n + (k - n) = k
    BY <1>1, <2>2
  <2>4. s = (((e + n) % SeqMod) + (k - n)) % SeqMod
    BY <1>2, <2>1, <2>3
  <2> QED
    BY <2>3, <2>4 DEF Slots
<1>5. (((e + n) % SeqMod) + (u - n)) % SeqMod = (e + u) % SeqMod
  <2>1. n + (u - n) = u /\ u - n \in Int
    BY <1>1
  <2> QED
    BY <1>2, <2>1
<1> QED
  BY <1>3, <1>5

LEMMA AckedType ==
    ASSUME NEW r \in ErtmState, NEW reqSeq \in SeqNo
    PROVE  Acked(r, reqSeq) \in 0 .. r.unacked
<1>1. SeqMod \in Nat \ {0} /\ reqSeq - r.expAck \in Int /\ r.unacked \in Nat
  BY SeqModAssumption DEF SeqNo, ErtmState
<1> DEFINE d == (reqSeq - r.expAck) % SeqMod
<1>2. d \in Nat
  BY <1>1, DivMod
<1>3. Acked(r, reqSeq) = IF d < r.unacked THEN d ELSE r.unacked
  BY DEF Acked
<1> HIDE DEF d
<1> QED
  BY <1>1, <1>2, <1>3

LEMMA PoppedType ==
    ASSUME NEW r \in ErtmState, NEW n \in 0 .. r.unacked
    PROVE  LET q == Popped(r, n)
           IN  /\ q \in ErtmState
               /\ q.state = r.state /\ q.mapped = r.mapped
               /\ q.txSeq = r.txSeq /\ q.expTx = r.expTx
               /\ q.expAck = (r.expAck + n) % SeqMod /\ q.unacked = r.unacked - n
               /\ q.txQueue = [s \in SeqNo |-> IF s \in Slots(r.expAck, n)
                                               THEN NoFrame ELSE r.txQueue[s]]
               /\ q.waitF = r.waitF /\ q.active = r.active /\ q.armed = r.armed
               /\ q.flags = r.flags /\ q.taken = r.taken
               /\ q.partial = r.partial /\ q.sent = r.sent
<1> DEFINE a == (r.expAck + n) % SeqMod
           u == r.unacked - n
           tq == [s \in SeqNo |-> IF s \in Slots(r.expAck, n) THEN NoFrame
                                  ELSE r.txQueue[s]]
<1>1. Popped(r, n) = [r EXCEPT !.expAck = a, !.unacked = u, !.txQueue = tq]
  BY DEF Popped, ErtmState
<1>2. a \in SeqNo
  <2>1. SeqMod \in Nat \ {0} /\ r.expAck + n \in Int
    BY SeqModAssumption DEF ErtmState, SeqNo
  <2> QED
    BY <2>1, DivMod DEF SeqNo
<1>3. u \in Nat
  BY DEF ErtmState
<1>4. tq \in [SeqNo -> TxEntry]
  BY DEF ErtmState, TxEntry
<1> HIDE DEF a, u, tq
<1> SUFFICES LET q == Popped(r, n)
             IN  /\ q \in ErtmState
                 /\ q.state = r.state /\ q.mapped = r.mapped
                 /\ q.txSeq = r.txSeq /\ q.expTx = r.expTx
                 /\ q.expAck = a /\ q.unacked = u /\ q.txQueue = tq
                 /\ q.waitF = r.waitF /\ q.active = r.active /\ q.armed = r.armed
                 /\ q.flags = r.flags /\ q.taken = r.taken
                 /\ q.partial = r.partial /\ q.sent = r.sent
  BY DEF a, u, tq
<1> QED
  BY <1>1, <1>2, <1>3, <1>4 DEF ErtmState

LEMMA PoppedKeepsWindow ==
    ASSUME NEW r \in ErtmState, NEW n \in 0 .. r.unacked
    PROVE  KeepsWindow(r, Popped(r, n))
<1> SUFFICES ASSUME Window(r) PROVE Window(Popped(r, n))
  BY DEF KeepsWindow
<1> DEFINE q == Popped(r, n)
<1>1. /\ q.state = r.state /\ q.txSeq = r.txSeq
      /\ q.expAck = (r.expAck + n) % SeqMod /\ q.unacked = r.unacked - n
      /\ q.txQueue = [s \in SeqNo |-> IF s \in Slots(r.expAck, n)
                                      THEN NoFrame ELSE r.txQueue[s]]
  BY PoppedType
<1> HIDE DEF q
<1>2. r.expAck \in SeqNo /\ r.unacked \in Nat
  BY DEF ErtmState
<1>4. Occupied(q) = Occupied(r) \ Slots(r.expAck, n)
  BY <1>1 DEF Occupied
<1>5. /\ Slots(r.expAck, r.unacked) \ Slots(r.expAck, n)
           \subseteq Slots((r.expAck + n) % SeqMod, r.unacked - n)
      /\ (((r.expAck + n) % SeqMod) + (r.unacked - n)) % SeqMod
           = (r.expAck + r.unacked) % SeqMod
  BY <1>2, SlotsPopped
<1>6. ASSUME r.state = "OPEN"
      PROVE  /\ q.txSeq = (q.expAck + q.unacked) % SeqMod
             /\ Occupied(q) \subseteq Slots(q.expAck, q.unacked)
  <2>1. r.txSeq = (r.expAck + r.unacked) % SeqMod
        /\ Occupied(r) \subseteq Slots(r.expAck, r.unacked)
    BY <1>6 DEF Window
  <2> QED
    BY <2>1, <1>1, <1>4, <1>5
<1> QED
  BY <1>1, <1>6 DEF Window, q

LEMMA ProcessAckKeeps ==
    ASSUME NEW x \in Outcome, NEW reqSeq \in SeqNo
    PROVE  Keeps(x, ProcessAck(x, reqSeq))
<1> DEFINE n == Acked(x.ep, reqSeq)
           r == x.ep
           q == Popped(r, n)
<1>1. r \in ErtmState /\ n \in 0 .. r.unacked /\ r.unacked \in Nat
  BY AckedType DEF Outcome, ErtmState
<1>2. /\ q \in ErtmState /\ q.state = r.state /\ q.sent = r.sent
      /\ q.waitF = r.waitF /\ q.active = r.active
      /\ q.unacked = r.unacked - n
  BY <1>1, PoppedType
<1>3. KeepsWindow(r, q)
  BY <1>1, PoppedKeepsWindow
<1>4. ProcessAck(x, reqSeq) =
        IF q.unacked = 0 THEN [x EXCEPT !.ep = Stop(q, "retransmit")]
        ELSE IF n > 0 THEN Start([x EXCEPT !.ep = q], "retransmit") ELSE x
  BY DEF ProcessAck
<1> HIDE DEF n, q
<1>5. CASE q.unacked = 0
  <2> DEFINE p == Stop(q, "retransmit")
             y == [x EXCEPT !.ep = p]
  <2>1. /\ p \in ErtmState /\ p.state = q.state /\ p.sent = q.sent
        /\ p.waitF = q.waitF /\ p.active = q.active \ {"retransmit"}
        /\ p.txSeq = q.txSeq /\ p.expAck = q.expAck /\ p.unacked = q.unacked
        /\ p.txQueue = q.txQueue
    BY <1>2, StopType DEF TimerFlag
  <2> HIDE DEF p
  <2>2. y \in Outcome /\ y.ep = p
    BY <2>1 DEF Outcome
  <2> HIDE DEF y
  <2>3. KeepsWindow(q, p)
    BY <2>1 DEF KeepsWindow, Window, Occupied
  <2>4. Armed(p) /\ (Awaits(r) => Awaits(p))
    BY <1>2, <1>5, <2>1 DEF Armed, Awaits
  <2>5. Keeps(x, y)
    BY <1>2, <1>3, <2>1, <2>2, <2>3, <2>4 DEF Keeps, KeepsWindow
  <2> QED
    BY <1>4, <1>5, <2>5 DEF y, p
<1>6. CASE q.unacked # 0 /\ n > 0
  <2> DEFINE z == [x EXCEPT !.ep = q]
  <2>1. z \in Outcome /\ z.ep = q
    BY <1>2 DEF Outcome
  <2> HIDE DEF z
  <2>2. Keeps(z, Start(z, "retransmit")) /\ Armed(Start(z, "retransmit").ep)
    BY <2>1, StartKeeps
  <2>3. Awaits(r) => Awaits(q)
    BY <1>2 DEF Awaits
  <2>4. Keeps(x, Start(z, "retransmit"))
    BY <1>2, <1>3, <2>1, <2>2, <2>3 DEF Keeps, KeepsWindow
  <2> QED
    BY <1>4, <1>6, <2>4 DEF z
<1>7. CASE q.unacked # 0 /\ ~(n > 0)
  BY <1>4, <1>7, KeepsSelf
<1> QED
  BY <1>5, <1>6, <1>7

----------------------------------------------------------------------------
\* The other operators

LEMMA FinalKeeps == ASSUME NEW x \in Outcome PROVE Keeps(x, Final(x))
<1> DEFINE p == Stop(x.ep, "monitor")
           r == [p EXCEPT !.waitF = FALSE]
           z == [x EXCEPT !.ep = r]
<1>1. /\ p \in ErtmState /\ p.state = x.ep.state /\ p.sent = x.ep.sent
      /\ p.active = x.ep.active \ {"monitor"}
      /\ ("monitor" \notin x.ep.active => p.armed = x.ep.armed)
      /\ p.flags = x.ep.flags /\ p.taken = x.ep.taken
      /\ p.txSeq = x.ep.txSeq /\ p.expAck = x.ep.expAck /\ p.unacked = x.ep.unacked
      /\ p.txQueue = x.ep.txQueue
  BY StopType DEF TimerFlag, Outcome
<1> HIDE DEF p
<1>2. /\ r \in ErtmState /\ r.state = x.ep.state /\ r.sent = x.ep.sent
      /\ r.active = x.ep.active \ {"monitor"} /\ r.waitF = FALSE
      /\ ("monitor" \notin x.ep.active => r.armed = x.ep.armed)
      /\ r.flags = x.ep.flags /\ r.taken = x.ep.taken
      /\ r.txSeq = x.ep.txSeq /\ r.expAck = x.ep.expAck /\ r.unacked = x.ep.unacked
      /\ r.txQueue = x.ep.txQueue
  BY <1>1 DEF ErtmState
<1>3. Final(x) = IF x.ep.waitF /\ r.unacked > 0 THEN RetransmitFrom(z, r.expAck) ELSE z
  BY DEF Final, p
<1> HIDE DEF r
<1>4. z \in Outcome /\ z.ep = r
  BY <1>2 DEF Outcome
<1> HIDE DEF z
<1>5. Awaits(r)
  BY <1>2 DEF Awaits
<1>6. KeepsWindow(x.ep, r)
  BY <1>2 DEF KeepsWindow, Window, Occupied
<1>7. CASE x.ep.waitF /\ r.unacked > 0
  <2> DEFINE y == RetransmitFrom(z, r.expAck)
  <2>1. r.expAck \in SeqNo
    BY <1>2 DEF ErtmState
  <2>2. Keeps(z, y) /\ Armed(y.ep)
    BY <1>4, <2>1, RetransmitFromKeeps
  <2> HIDE DEF y
  <2>3. Keeps(x, y)
    BY <1>2, <1>4, <1>5, <1>6, <2>2 DEF Keeps, KeepsWindow
  <2> QED
    BY <1>3, <1>7, <2>3 DEF y
<1>8. CASE ~(x.ep.waitF /\ r.unacked > 0)
  <2>1. Armed(x.ep) /\ Awaits(x.ep) => Armed(r)
    <3>1. r.unacked \in Nat /\ x.ep.waitF \in BOOLEAN
      BY <1>2 DEF ErtmState, Outcome
    <3>2. CASE ~(r.unacked > 0)
      BY <3>2 DEF Armed
    <3>3. CASE ~x.ep.waitF
      BY <1>2, <3>3 DEF Armed, Awaits
    <3> QED
      BY <1>8, <3>1, <3>2, <3>3
  <2> QED
    BY <1>2, <1>3, <1>4, <1>5, <1>6, <1>8, <2>1 DEF Keeps
<1> QED
  BY <1>7, <1>8

LEMMA SuperviseKeeps ==
    ASSUME NEW x \in Outcome, NEW f \in SFrame
    PROVE  Keeps(x, Supervise(x, f))
<1>1. f.reqSeq \in SeqNo /\ f.type \in SType /\ f.final \in BOOLEAN
  BY DEF SFrame
<1> DEFINE a == ProcessAck(x, f.reqSeq)
<1>2. Keeps(x, a) /\ a \in Outcome
  BY <1>1, ProcessAckKeeps DEF Keeps
<1> HIDE DEF a
<1>3. Keeps(a, Final(a))
  BY <1>2, FinalKeeps
<1>4. Keeps(a, RetransmitFrom(a, f.reqSeq))
  BY <1>1, <1>2, RetransmitFromKeeps
<1>5. Keeps(x, RetransmitSingle(x, f.reqSeq))
  BY <1>1, RetransmitSingleKeeps
<1>6. Keeps(x, Final(a)) /\ Keeps(x, RetransmitFrom(a, f.reqSeq))
  BY <1>2, <1>3, <1>4, KeepsTwice
<1>7. CASE f.type = "RR"
  <2>1. Supervise(x, f) = IF f.final THEN Final(a) ELSE a
    BY <1>7 DEF Supervise, a
  <2> QED
    BY <1>2, <1>6, <2>1
<1>8. CASE f.type = "REJ"
  <2>1. Supervise(x, f) = RetransmitFrom(a, f.reqSeq)
    BY <1>8 DEF Supervise, a
  <2> QED
    BY <1>6, <2>1
<1>9. CASE f.type = "RNR"
  <2>1. Supervise(x, f) = a
    BY <1>9 DEF Supervise, a
  <2> QED
    BY <1>2, <2>1
<1>10. CASE f.type = "SREJ"
  <2>1. Supervise(x, f) = RetransmitSingle(x, f.reqSeq)
    BY <1>10 DEF Supervise
  <2> QED
    BY <1>5, <2>1
<1> QED
  BY <1>1, <1>7, <1>8, <1>9, <1>10 DEF SType

LEMMA AnswerPollKeeps == ASSUME NEW x \in Outcome PROVE Keeps(x, AnswerPoll(x))
<1> DEFINE a == IF x.ep.unacked > 0 THEN RetransmitFrom(x, x.ep.expAck) ELSE x
<1>1. x.ep.expAck \in SeqNo
  BY DEF Outcome, ErtmState
<1>2. Keeps(x, RetransmitFrom(x, x.ep.expAck)) /\ Keeps(x, x)
  BY <1>1, RetransmitFromKeeps, KeepsSelf
<1>3. Keeps(x, a) /\ a \in Outcome
  BY <1>2 DEF Keeps
<1>4. AnswerPoll(x) = SendSFrame(a, "RR", FALSE, TRUE)
  BY DEF AnswerPoll
<1> HIDE DEF a
<1>5. Keeps(a, SendSFrame(a, "RR", FALSE, TRUE))
  BY <1>3, SendSFrameKeeps DEF SType
<1> QED
  BY <1>3, <1>4, <1>5, KeepsTwice

\* A segment of the user's is sent.
LEMMA SendIFrameSends ==
    ASSUME NEW x \in Outcome, NEW data \in Piece, NEW sar \in Sar
    PROVE  LET y == SendIFrame(x, data, sar)
           IN  /\ y \in Outcome /\ y.ep.sent = data
               /\ y.ep.state = x.ep.state /\ y.ep.unacked = x.ep.unacked + 1
               /\ Awaits(x.ep) => Awaits(y.ep)
               /\ Armed(y.ep)
               /\ KeepsWindow(x.ep, y.ep)
<1> DEFINE r == x.ep
           f == [kind |-> "I", txSeq |-> r.txSeq, reqSeq |-> r.expTx,
                 sar |-> sar, data |-> data]
           e == [retry |-> 0, frame |-> f]
           tq == [r.txQueue EXCEPT ![r.txSeq] = e]
           u == r.unacked + 1
           s == Next64(r.txSeq)
           q == [r EXCEPT !.txQueue = tq, !.unacked = u, !.txSeq = s, !.sent = data]
           z == [x EXCEPT !.ep = q]
<1>1. /\ r \in ErtmState /\ r.txSeq \in SeqNo /\ r.expTx \in SeqNo
      /\ r.expAck \in SeqNo /\ r.unacked \in Nat /\ r.txQueue \in [SeqNo -> TxEntry]
  BY DEF Outcome, ErtmState
<1>2. f \in IFrame
  BY <1>1 DEF IFrame
<1>3. e \in TxEntry /\ e # NoFrame
  <2>1. DOMAIN f # {} /\ DOMAIN << >> = {}
    <3>1. "kind" \in DOMAIN f
      OBVIOUS
    <3>2. DOMAIN << >> = {}
      OBVIOUS
    <3> QED
      BY <3>1, <3>2
  <2> HIDE DEF f
  <2>2. f # << >>
    BY <2>1
  <2>3. e.frame = f /\ NoFrame.frame = << >>
    BY DEF NoFrame
  <2> QED
    BY <1>2, <2>2, <2>3 DEF TxEntry
<1> HIDE DEF e
<1>4. tq \in [SeqNo -> TxEntry] /\ u \in Nat /\ s \in SeqNo /\ data \in 0 .. MaxData
  <2>1. SeqMod \in Nat \ {0} /\ r.txSeq + 1 \in Int /\ MaxData \in Nat
    BY <1>1, SeqModAssumption, BoundAssumption DEF SeqNo
  <2>2. s \in SeqNo
    BY <2>1, DivMod DEF SeqNo, Next64
  <2> QED
    BY <1>1, <1>3, <2>1, <2>2 DEF Piece
<1>5. SendIFrame(x, data, sar) = Emit(Start(z, "retransmit"), f)
  BY DEF SendIFrame, e
<1> HIDE DEF f, tq, u, s
<1>6. /\ q \in ErtmState /\ q.sent = data /\ q.state = r.state
      /\ q.unacked = u /\ q.txSeq = s /\ q.txQueue = tq /\ q.expAck = r.expAck
      /\ q.waitF = r.waitF /\ q.active = r.active
  BY <1>1, <1>4 DEF ErtmState
<1> HIDE DEF q
<1>7. z \in Outcome /\ z.ep = q
  BY <1>6 DEF Outcome
<1> HIDE DEF z
<1>8. ASSUME Window(r) PROVE Window(q)
  <2>2. ASSUME r.state = "OPEN"
        PROVE  q.txSeq = (q.expAck + q.unacked) % SeqMod
               /\ Occupied(q) \subseteq Slots(q.expAck, q.unacked)
    <3>1. /\ r.txSeq = (r.expAck + r.unacked) % SeqMod
          /\ Occupied(r) \subseteq Slots(r.expAck, r.unacked)
      BY <1>8, <2>2 DEF Window
    <3>2. /\ Slots(r.expAck, r.unacked) \cup {(r.expAck + r.unacked) % SeqMod}
                = Slots(r.expAck, r.unacked + 1)
          /\ Next64((r.expAck + r.unacked) % SeqMod)
                = (r.expAck + (r.unacked + 1)) % SeqMod
      BY <1>1, SlotsPushed
    <3>3. Occupied(q) = Occupied(r) \cup {r.txSeq}
      BY <1>1, <1>3, <1>6 DEF Occupied, tq
    <3>4. q.txSeq = (r.expAck + u) % SeqMod
      BY <3>1, <3>2, <1>6 DEF u, s
    <3> QED
      BY <3>1, <3>2, <3>3, <3>4, <1>6 DEF u
  <2> QED
    BY <1>6, <2>2 DEF Window
<1> DEFINE v == Start(z, "retransmit")
<1>9. Keeps(z, v) /\ Armed(v.ep) /\ v \in Outcome /\ v.ep.sent = data
      /\ v.ep.state = q.state /\ v.ep.unacked = q.unacked
  BY <1>6, <1>7, StartKeeps, StartType DEF Keeps, TimerFlag
<1> HIDE DEF v
<1> DEFINE y == SendIFrame(x, data, sar)
<1>10. y \in Outcome /\ y.ep = v.ep
  <2>1. f \in Frame
    BY <1>2 DEF Frame
  <2>2. y = Emit(v, f)
    BY <1>5 DEF v
  <2> HIDE DEF y
  <2> QED
    BY <1>9, <2>1, <2>2, EmitType
<1> HIDE DEF y
<1>11. Awaits(x.ep) => Awaits(y.ep)
  BY <1>6, <1>7, <1>9, <1>10 DEF Keeps, Awaits
<1>12. KeepsWindow(x.ep, y.ep)
  BY <1>7, <1>8, <1>9, <1>10 DEF Keeps, KeepsWindow
<1> QED
  BY <1>6, <1>9, <1>10, <1>11, <1>12 DEF y, u

LEMMA MarkClosedType ==
    ASSUME NEW r \in ErtmState
    PROVE  LET q == MarkClosed(r)
           IN  q \in ErtmState /\ q.sent = r.sent /\ Armed(q) /\ Awaits(q) /\ Window(q)
<1> DEFINE a == Stop(r, "retransmit")
           b == Stop(a, "monitor")
           tq == [s \in SeqNo |-> NoFrame]
           q == MarkClosed(r)
<1>1. a \in ErtmState /\ a.sent = r.sent /\ b \in ErtmState /\ b.sent = a.sent
      /\ b.active = a.active \ {"monitor"}
  BY StopType DEF TimerFlag
<1>2. q = [b EXCEPT !.state = "CLOSED", !.mapped = FALSE, !.unacked = 0, !.txQueue = tq]
  BY DEF MarkClosed
<1>3. tq \in [SeqNo -> TxEntry]
  BY DEF TxEntry
<1> HIDE DEF a, b, tq, q
<1>4. /\ q \in ErtmState /\ q.sent = b.sent /\ q.active = b.active
      /\ q.state = "CLOSED" /\ q.unacked = 0
  BY <1>1, <1>2, <1>3 DEF ErtmState
<1>5. Armed(q) /\ Awaits(q)
  BY <1>1, <1>4 DEF Armed, Awaits
<1>6. Window(q)
  BY <1>4 DEF Window
<1> QED
  BY <1>1, <1>4, <1>5, <1>6 DEF q

\* A poll leaves the monitor timer.
LEMMA PollKeeps ==
    ASSUME NEW x \in Outcome
    PROVE  LET y == Poll(x)
           IN  /\ y \in Outcome /\ y.ep.sent = x.ep.sent
               /\ y.ep.state = x.ep.state
               /\ Awaits(x.ep) => Awaits(y.ep)
               /\ Armed(y.ep) /\ KeepsWindow(x.ep, y.ep)
<1>1. CASE x.ep.state # "OPEN"
  <2>1. Poll(x) = x
    BY <1>1 DEF Poll
  <2> QED
    BY <1>1, <2>1 DEF Armed, KeepsWindow
<1>2. CASE x.ep.state = "OPEN"
  <2> DEFINE p == SendSFrame(x, "RR", TRUE, FALSE)
             r == [p.ep EXCEPT !.waitF = TRUE]
             z == [p EXCEPT !.ep = r]
             y == Start(z, "monitor")
  <2>1. p \in Outcome /\ p.ep = x.ep
    BY SendSFrameKeeps DEF SType
  <2>2. Poll(x) = y
    BY <1>2 DEF Poll
  <2> HIDE DEF p
  <2>3. /\ r \in ErtmState /\ r.sent = x.ep.sent /\ r.state = x.ep.state
        /\ r.waitF = TRUE /\ r.active = x.ep.active /\ r.txSeq = x.ep.txSeq
        /\ r.expAck = x.ep.expAck /\ r.unacked = x.ep.unacked
        /\ r.txQueue = x.ep.txQueue
    BY <2>1 DEF Outcome, ErtmState
  <2> HIDE DEF r
  <2>4. z \in Outcome /\ z.ep = r
    BY <2>1, <2>3 DEF Outcome
  <2> HIDE DEF z
  <2>5. /\ y \in Outcome /\ y.ep.sent = r.sent /\ y.ep.state = r.state
        /\ y.ep.waitF = r.waitF /\ y.ep.txSeq = r.txSeq
        /\ y.ep.expAck = r.expAck /\ y.ep.unacked = r.unacked
        /\ y.ep.txQueue = r.txQueue /\ y.ep.armed = r.armed \cup {"monitor"}
    BY <2>4, StartType DEF TimerFlag
  <2> HIDE DEF y
  <2>6. Awaits(y.ep) /\ Armed(y.ep)
    BY <2>3, <2>5 DEF Awaits, Armed
  <2>7. KeepsWindow(x.ep, y.ep)
    BY <2>3, <2>5 DEF KeepsWindow, Window, Occupied
  <2> QED
    BY <2>2, <2>3, <2>5, <2>6, <2>7
<1> QED
  BY <1>1, <1>2

LEMMA ReassembleType ==
    ASSUME NEW partial \in SUBSET Piece, NEW f \in IFrame
    PROVE  LET d == Reassemble(partial, f)
           IN  d.partial \in SUBSET Piece /\ d.sdu \in SUBSET Piece
<1>1. f.sar \in Sar /\ f.data \in Piece
  BY DEF IFrame
<1> QED
  BY <1>1 DEF Reassemble, Sar

LEMMA OtherEndType == ASSUME NEW h \in End PROVE OtherEnd(h) \in End \ {h}
<1>1. \E g \in End : g # h
  BY EndAssumption
<1> QED
  BY <1>1 DEF OtherEnd

----------------------------------------------------------------------------
\* The invariant

EndInv(r, data) ==
    /\ r \in ErtmState /\ r.sent <= data
    /\ Armed(r) /\ Awaits(r) /\ Window(r)

ErtmInv ==
    /\ TypeOK
    /\ \A h \in End : EndInv(ep[h], used.data)

\* A step of one end: nothing changes at the other.
LEMMA EndStep ==
    ASSUME ErtmInv, NEW h \in End, NEW r,
           ep' = [ep EXCEPT ![h] = r], EndInv(r, used'.data),
           used' \in [data : 0 .. MaxData, upsets : 0 .. MaxUpsets],
           used.data <= used'.data,
           link' \in [End -> Seq(Frame)],
           got' \in [End -> SUBSET Piece], lists' \in BOOLEAN
    PROVE  ErtmInv'
<1>1. ep \in [End -> ErtmState] /\ r \in ErtmState
      /\ used \in [data : 0 .. MaxData, upsets : 0 .. MaxUpsets]
  BY DEF ErtmInv, TypeOK, EndInv
<1>2. ep' \in [End -> ErtmState]
  BY <1>1
<1>3. TypeOK'
  BY <1>2 DEF TypeOK, Frame
<1>4. ASSUME NEW g \in End PROVE EndInv(ep'[g], used'.data)
  <2>1. CASE g = h
    <3>1. ep'[g] = r
      BY <1>1, <2>1
    <3> QED
      BY <3>1
  <2>2. CASE g # h
    <3>1. ep'[g] = ep[g]
      BY <1>1, <2>2
    <3>2. EndInv(ep[g], used.data)
      BY DEF ErtmInv
    <3>3. ep[g].sent \in Int /\ used.data \in Int /\ used'.data \in Int
      BY <1>1 DEF ErtmState
    <3> QED
      BY <3>1, <3>2, <3>3 DEF EndInv
  <2> QED
    BY <2>1, <2>2
<1> QED
  BY <1>3, <1>4 DEF ErtmInv

\* The frames an end sends join those on their way to the other.
LEMMA SentType ==
    ASSUME link \in [End -> Seq(Frame)], NEW h \in End, NEW out \in Seq(Frame)
    PROVE  /\ [link EXCEPT ![OtherEnd(h)] = @ \o out] \in [End -> Seq(Frame)]
           /\ link[h] # << >> =>
                 [link EXCEPT ![h] = Tail(@), ![OtherEnd(h)] = @ \o out]
                    \in [End -> Seq(Frame)]
<1>1. OtherEnd(h) \in End /\ OtherEnd(h) # h
  BY OtherEndType
<1>2. link[OtherEnd(h)] \o out \in Seq(Frame)
  BY <1>1
<1>3. link[h] # << >> => Tail(link[h]) \in Seq(Frame)
  BY <1>1
<1> QED
  BY <1>1, <1>2, <1>3

\* What an operator keeps of the state of an end is the invariant of the step.
LEMMA KeptInv ==
    ASSUME NEW r, NEW data, EndInv(r, data), NEW y, Keeps(On(r), y)
    PROVE  EndInv(y.ep, data)
<1>1. On(r).ep = r
  BY DEF On
<1> QED
  BY <1>1 DEF EndInv, Keeps, KeepsWindow, Outcome

LEMMA OnType ==
    ASSUME NEW r \in ErtmState PROVE On(r) \in Outcome /\ On(r).ep = r
<1>1. << >> \in Seq(Frame)
  OBVIOUS
<1> QED
  BY <1>1 DEF On, Outcome

LEMMA InitInv == Init => ErtmInv
<1> SUFFICES ASSUME Init PROVE ErtmInv
  OBVIOUS
<1>1. PICK s \in SeqNo : ep = [h \in End |-> Quiet(s)]
  BY DEF Init
<1> DEFINE r == Quiet(s)
<1>2. MaxData \in Nat /\ MaxUpsets \in Nat /\ MaxUnacked \in Nat
  BY BoundAssumption
<1>3. /\ r.state = "OPEN" /\ r.mapped = TRUE /\ r.txSeq = s /\ r.expTx = s
      /\ r.expAck = s /\ r.unacked = 0 /\ r.txQueue = [q \in SeqNo |-> NoFrame]
      /\ r.waitF = FALSE /\ r.active = {} /\ r.sent = 0
  BY DEF Quiet
<1>4. [q \in SeqNo |-> NoFrame] \in [SeqNo -> TxEntry]
  BY DEF TxEntry
<1>5. r \in ErtmState
  BY <1>2, <1>4 DEF Quiet, ErtmState
<1>6. Window(r)
  <2>1. (s + 0) % SeqMod = s
    <3>1. SeqMod \in Nat \ {0} /\ s \in Int /\ 0 <= s /\ s < SeqMod
      BY SeqModAssumption DEF SeqNo
    <3> QED
      BY <3>1, ModStep
  <2>2. Slots(s, 0) = {}
    BY DEF Slots
  <2>3. Occupied(r) = {}
    BY <1>3 DEF Occupied
  <2> HIDE DEF r
  <2> QED
    BY <1>2, <1>3, <2>1, <2>2, <2>3 DEF Window
<1> HIDE DEF r
<1>7. EndInv(r, 0)
  BY <1>2, <1>3, <1>5, <1>6 DEF EndInv, Armed, Awaits
<1>8. \A h \in End : ep[h] = r
  BY <1>1 DEF r
<1>9. TypeOK
  <2>1. ep \in [End -> ErtmState]
    BY <1>1, <1>5 DEF r
  <2>2. link \in [End -> Seq(IFrame \cup SFrame)]
    BY DEF Init
  <2> QED
    BY <1>2, <2>1, <2>2 DEF Init, TypeOK
<1> QED
  BY <1>7, <1>8, <1>9 DEF ErtmInv, Init

LEMMA ReceiveInv ==
    ASSUME ErtmInv, NEW h \in End, Receive(h)
    PROVE  ErtmInv'
<1> DEFINE r == ep[h]
           f == Head(link[h])
           s == Supervise(On(r), f)
           a == ProcessAck(On(r), f.reqSeq)
           d == Reassemble(r.partial, f)
           z == [a EXCEPT !.ep.expTx = Next64(f.txSeq), !.ep.partial = d.partial]
           i == SendSFrame(z, "RR", FALSE, FALSE)
           x == IF f.kind = "S" THEN (IF f.poll THEN AnswerPoll(s) ELSE s) ELSE i
<1>1. /\ ep' = [ep EXCEPT ![h] = x.ep] /\ lists' = ~x.twice
      /\ link' = [link EXCEPT ![h] = Tail(@), ![OtherEnd(h)] = @ \o x.out]
      /\ got' = IF f.kind = "I" THEN [got EXCEPT ![h] = @ \cup d.sdu] ELSE got
      /\ used' = used /\ link[h] # << >>
  BY DEF Receive
<1>2. /\ r \in ErtmState /\ link \in [End -> Seq(Frame)] /\ got \in [End -> SUBSET Piece]
      /\ used \in [data : 0 .. MaxData, upsets : 0 .. MaxUpsets]
      /\ EndInv(r, used.data)
  BY DEF ErtmInv, TypeOK, Frame
<1>3. f \in Frame
  <2>1. link[h] \in Seq(Frame) /\ link[h] # << >>
    BY <1>1, <1>2
  <2> QED
    BY <2>1, HeadTailProperties
<1>4. f \in IFrame \/ f \in SFrame
  BY <1>3 DEF Frame
<1>5. On(r) \in Outcome /\ On(r).ep = r
  BY <1>2, OnType
<1> HIDE DEF f, r
<1>6. CASE f \in SFrame
  <2>1. f.kind = "S"
    BY <1>6 DEF SFrame
  <2>2. Keeps(On(r), s) /\ s \in Outcome
    BY <1>5, <1>6, SuperviseKeeps DEF Keeps
  <2> HIDE DEF s
  <2>3. Keeps(s, AnswerPoll(s))
    BY <2>2, AnswerPollKeeps
  <2>4. Keeps(On(r), AnswerPoll(s))
    BY <2>2, <2>3, KeepsTwice
  <2>5. Keeps(On(r), x)
    BY <2>1, <2>2, <2>4
  <2> HIDE DEF x
  <2>6. x \in Outcome /\ EndInv(x.ep, used.data)
    BY <1>2, <2>5, KeptInv DEF Keeps
  <2>7. x.out \in Seq(Frame) /\ x.twice \in BOOLEAN
    BY <2>6 DEF Outcome
  <2>8. link' \in [End -> Seq(Frame)]
    BY <1>1, <1>2, <2>7, SentType
  <2>9. got' \in [End -> SUBSET Piece]
    BY <1>1, <1>2, <2>1
  <2>10. lists' \in BOOLEAN
    BY <1>1
  <2>11. used.data <= used'.data
    BY <1>1, <1>2
  <2> QED
    BY <1>1, <1>2, <2>6, <2>8, <2>9, <2>10, <2>11, EndStep
<1>7. CASE f \in IFrame
  <2>1. f.kind = "I" /\ f.reqSeq \in SeqNo /\ f.txSeq \in SeqNo
    BY <1>7 DEF IFrame
  <2>2. Keeps(On(r), a) /\ a \in Outcome
    BY <1>5, <2>1, ProcessAckKeeps DEF Keeps
  <2>3. d.partial \in SUBSET Piece /\ d.sdu \in SUBSET Piece
    BY <1>2, <1>7, ReassembleType DEF ErtmState
  <2>4. Next64(f.txSeq) \in SeqNo
    <3>1. SeqMod \in Nat \ {0} /\ f.txSeq + 1 \in Int
      BY <2>1, SeqModAssumption DEF SeqNo
    <3> QED
      BY <3>1, DivMod DEF Next64, SeqNo
  <2> DEFINE n == Next64(f.txSeq)
             p == d.partial
             q == [a.ep EXCEPT !.expTx = n, !.partial = p]
  <2>5. z = [a EXCEPT !.ep = q]
    BY <2>2 DEF Outcome, ErtmState
  <2>6. x = i
    BY <2>1
  <2> HIDE DEF a, d, n, p
  <2>7. /\ q \in ErtmState /\ q.sent = a.ep.sent /\ q.state = a.ep.state
        /\ q.unacked = a.ep.unacked /\ q.expAck = a.ep.expAck
        /\ q.txSeq = a.ep.txSeq /\ q.txQueue = a.ep.txQueue
        /\ q.waitF = a.ep.waitF /\ q.active = a.ep.active /\ q.armed = a.ep.armed
        /\ q.flags = a.ep.flags /\ q.taken = a.ep.taken
    BY <2>2, <2>3, <2>4 DEF Outcome, ErtmState, n, p
  <2> HIDE DEF q, z
  <2>8. z \in Outcome /\ z.ep = q
    BY <2>2, <2>5, <2>7 DEF Outcome
  <2>9. Keeps(a, z)
    <3>1. KeepsWindow(a.ep, z.ep)
      BY <2>7, <2>8 DEF KeepsWindow, Window, Occupied
    <3>2. (Awaits(a.ep) => Awaits(z.ep)) /\ (Armed(a.ep) => Armed(z.ep))
      BY <2>7, <2>8 DEF Awaits, Armed
    <3> QED
      BY <2>7, <2>8, <3>1, <3>2 DEF Keeps
  <2>10. Keeps(z, x)
    BY <2>6, <2>8, SendSFrameKeeps DEF SType
  <2> HIDE DEF x
  <2>11. Keeps(On(r), x)
    BY <2>2, <2>9, <2>10, KeepsTwice
  <2>12. x \in Outcome /\ EndInv(x.ep, used.data)
    BY <1>2, <2>11, KeptInv DEF Keeps
  <2>13. x.out \in Seq(Frame) /\ x.twice \in BOOLEAN
    BY <2>12 DEF Outcome
  <2>14. link' \in [End -> Seq(Frame)]
    BY <1>1, <1>2, <2>13, SentType
  <2>15. got' \in [End -> SUBSET Piece]
    BY <1>1, <1>2, <2>1, <2>3
  <2>16. lists' \in BOOLEAN
    BY <1>1
  <2>17. used.data <= used'.data
    BY <1>1, <1>2
  <2> QED
    BY <1>1, <1>2, <2>12, <2>14, <2>15, <2>16, <2>17, EndStep
<1> QED
  BY <1>4, <1>6, <1>7

\* A frame that is dropped: no end changes.
LEMMA DropInv ==
    ASSUME ErtmInv, NEW h \in End, ReceiveDamaged(h) \/ ReceiveUnmapped(h)
    PROVE  ErtmInv'
<1>1. /\ link \in [End -> Seq(Frame)]
      /\ used \in [data : 0 .. MaxData, upsets : 0 .. MaxUpsets]
  BY DEF ErtmInv, TypeOK, Frame
<1>2. /\ link' = [link EXCEPT ![h] = Tail(@)] /\ link[h] # << >>
      /\ ep' = ep /\ got' = got /\ lists' = lists
  BY DEF ReceiveDamaged, ReceiveUnmapped
<1>3. Tail(link[h]) \in Seq(Frame)
  BY <1>1, <1>2
<1>4. link' \in [End -> Seq(Frame)]
  BY <1>1, <1>2, <1>3
<1>5. used' \in [data : 0 .. MaxData, upsets : 0 .. MaxUpsets] /\ used'.data = used.data
  <2>1. CASE ReceiveDamaged(h)
    <3>1. used.upsets < MaxUpsets /\ used' = [used EXCEPT !.upsets = used.upsets + 1]
      BY <2>1 DEF ReceiveDamaged
    <3>2. MaxUpsets \in Nat /\ used.upsets \in 0 .. MaxUpsets
      BY <1>1, BoundAssumption
    <3> QED
      BY <1>1, <3>1, <3>2
  <2>2. CASE ReceiveUnmapped(h)
    BY <1>1, <2>2 DEF ReceiveUnmapped
  <2> QED
    BY <2>1, <2>2
<1> QED
  BY <1>2, <1>4, <1>5 DEF ErtmInv, TypeOK, Frame, EndInv

\* A step that sends, with an outcome whose end keeps the invariant.
LEMMA StepInv ==
    ASSUME ErtmInv, NEW h \in End, NEW x \in Outcome, Step(h, x), got' = got,
           EndInv(x.ep, used'.data), used.data <= used'.data,
           used' \in [data : 0 .. MaxData, upsets : 0 .. MaxUpsets]
    PROVE  ErtmInv'
<1>1. /\ link \in [End -> Seq(Frame)] /\ got \in [End -> SUBSET Piece]
      /\ x.out \in Seq(Frame) /\ x.twice \in BOOLEAN
  BY DEF ErtmInv, TypeOK, Frame, Outcome
<1>2. /\ ep' = [ep EXCEPT ![h] = x.ep]
      /\ lists' = (lists /\ ~x.twice)
      /\ link' = [link EXCEPT ![OtherEnd(h)] = @ \o x.out]
  BY DEF Step
<1>3. link' \in [End -> Seq(Frame)]
  BY <1>1, <1>2, SentType
<1>4. lists' \in BOOLEAN
  BY <1>2
<1> QED
  BY <1>1, <1>2, <1>3, <1>4, EndStep

LEMMA SendDataInv ==
    ASSUME ErtmInv, NEW h \in End, SendData(h)
    PROVE  ErtmInv'
<1> DEFINE r == ep[h]
           x == SendIFrame(On(r), r.sent + 1, "UNSEGMENTED")
<1>1. /\ r \in ErtmState /\ used \in [data : 0 .. MaxData, upsets : 0 .. MaxUpsets]
      /\ EndInv(r, used.data)
  BY DEF ErtmInv, TypeOK
<1>2. /\ used.data + 1 <= MaxData
      /\ used' = [used EXCEPT !.data = used.data + 1] /\ got' = got /\ Step(h, x)
  BY DEF SendData, Sending
<1>3. /\ r.sent \in Nat /\ r.sent <= used.data /\ used.data \in Nat /\ MaxData \in Nat
  BY <1>1, BoundAssumption DEF ErtmState, EndInv
<1>4. used' \in [data : 0 .. MaxData, upsets : 0 .. MaxUpsets] /\ used'.data = used.data + 1
  BY <1>1, <1>2, <1>3
<1>5. r.sent + 1 \in Piece
  BY <1>2, <1>3 DEF Piece
<1>6. On(r) \in Outcome /\ On(r).ep = r
  BY <1>1, OnType
<1>7. /\ x \in Outcome /\ x.ep.sent = r.sent + 1
      /\ Awaits(r) => Awaits(x.ep)
      /\ Armed(x.ep) /\ KeepsWindow(r, x.ep)
  BY <1>2, <1>5, <1>6, SendIFrameSends DEF Sar
<1> HIDE DEF x, r
<1>8. EndInv(x.ep, used'.data)
  BY <1>1, <1>3, <1>4, <1>7 DEF EndInv, KeepsWindow, Outcome
<1>9. used.data <= used'.data
  BY <1>3, <1>4
<1> QED
  BY <1>2, <1>4, <1>7, <1>8, <1>9, StepInv

LEMMA ForeignSendInv ==
    ASSUME ErtmInv, NEW h \in End, ForeignSend(h)
    PROVE  ErtmInv'
<1> DEFINE r == ep[h]
           a == SendIFrame(On(r), r.sent + 1, "START")
           x == SendIFrame(a, r.sent + 2, "END")
<1>1. /\ r \in ErtmState /\ used \in [data : 0 .. MaxData, upsets : 0 .. MaxUpsets]
      /\ EndInv(r, used.data)
  BY DEF ErtmInv, TypeOK
<1>2. /\ used.data + 2 <= MaxData
      /\ used' = [used EXCEPT !.data = used.data + 2] /\ got' = got /\ Step(h, x)
  BY DEF ForeignSend, Sending
<1>3. /\ r.sent \in Nat /\ r.sent <= used.data /\ used.data \in Nat /\ MaxData \in Nat
  BY <1>1, BoundAssumption DEF ErtmState, EndInv
<1>4. used' \in [data : 0 .. MaxData, upsets : 0 .. MaxUpsets] /\ used'.data = used.data + 2
  BY <1>1, <1>2, <1>3
<1>5. r.sent + 1 \in Piece /\ r.sent + 2 \in Piece
  BY <1>2, <1>3 DEF Piece
<1>6. On(r) \in Outcome /\ On(r).ep = r
  BY <1>1, OnType
<1>7. /\ a \in Outcome /\ a.ep.unacked = r.unacked + 1
      /\ Awaits(r) => Awaits(a.ep)
      /\ KeepsWindow(r, a.ep)
  <2> DEFINE n == r.sent + 1
             o == On(r)
  <2>1. n \in Piece /\ "START" \in Sar /\ o \in Outcome /\ o.ep = r
    BY <1>5, <1>6 DEF Sar
  <2> HIDE DEF n, o
  <2>2. LET y == SendIFrame(o, n, "START")
        IN  /\ y \in Outcome /\ y.ep.unacked = o.ep.unacked + 1
            /\ Awaits(o.ep) => Awaits(y.ep)
            /\ KeepsWindow(o.ep, y.ep)
    BY <2>1, SendIFrameSends
  <2> QED
    BY <1>6, <2>1, <2>2 DEF n, o
<1> HIDE DEF a, r
<1>9. /\ x \in Outcome /\ x.ep.sent = r.sent + 2
      /\ Awaits(a.ep) => Awaits(x.ep)
      /\ Armed(x.ep) /\ KeepsWindow(a.ep, x.ep)
  BY <1>5, <1>7, SendIFrameSends DEF Sar
<1> HIDE DEF x
<1>10. EndInv(x.ep, used'.data)
  BY <1>1, <1>3, <1>4, <1>7, <1>9 DEF EndInv, KeepsWindow, Outcome
<1>11. used.data <= used'.data
  BY <1>3, <1>4
<1> QED
  BY <1>2, <1>4, <1>9, <1>10, <1>11, StepInv

LEMMA ForeignSuperviseInv ==
    ASSUME ErtmInv, NEW h \in End, ForeignSupervise(h)
    PROVE  ErtmInv'
<1> DEFINE r == ep[h]
<1>1. /\ r \in ErtmState /\ used \in [data : 0 .. MaxData, upsets : 0 .. MaxUpsets]
      /\ EndInv(r, used.data)
  BY DEF ErtmInv, TypeOK
<1>2. /\ used.upsets < MaxUpsets /\ used' = [used EXCEPT !.upsets = used.upsets + 1]
      /\ got' = got
  BY DEF ForeignSupervise
<1>3. PICK type \in {"REJ", "SREJ"} : Step(h, SendSFrame(On(r), type, FALSE, FALSE))
  BY DEF ForeignSupervise
<1> DEFINE x == SendSFrame(On(r), type, FALSE, FALSE)
<1>4. On(r) \in Outcome
  BY <1>1, OnType
<1>5. x \in Outcome /\ Keeps(On(r), x)
  BY <1>4, SendSFrameKeeps DEF SType
<1> HIDE DEF x, r
<1>6. EndInv(x.ep, used.data)
  BY <1>1, <1>5, KeptInv
<1>7. /\ used' \in [data : 0 .. MaxData, upsets : 0 .. MaxUpsets]
      /\ used'.data = used.data /\ used.data <= used'.data
  <2>1. MaxUpsets \in Nat /\ used.upsets \in 0 .. MaxUpsets
    BY <1>1, BoundAssumption
  <2> QED
    BY <1>1, <1>2, <2>1
<1> QED
  BY <1>2, <1>3, <1>5, <1>6, <1>7, StepInv DEF x

LEMMA ExpireInv ==
    ASSUME ErtmInv, NEW h \in End, NEW t \in TimerFlag, Expire(h, t)
    PROVE  ErtmInv'
<1> DEFINE r == ep[h]
           q == [r EXCEPT !.armed = r.armed \ {t}, !.flags = r.flags \cup {t}]
<1>1. /\ ep \in [End -> ErtmState] /\ r \in ErtmState /\ EndInv(r, used.data)
      /\ link \in [End -> Seq(Frame)] /\ got \in [End -> SUBSET Piece] /\ lists \in BOOLEAN
      /\ used \in [data : 0 .. MaxData, upsets : 0 .. MaxUpsets]
  BY DEF ErtmInv, TypeOK, Frame
<1>2. /\ ep' = [ep EXCEPT ![h] = q]
      /\ link' = link /\ got' = got /\ lists' = lists /\ used' = used
  BY <1>1 DEF Expire, ErtmState
<1>3. /\ q \in ErtmState /\ q.sent = r.sent /\ q.state = r.state /\ q.unacked = r.unacked
      /\ q.expAck = r.expAck /\ q.txSeq = r.txSeq /\ q.txQueue = r.txQueue
      /\ q.waitF = r.waitF /\ q.active = r.active
      /\ q.flags = r.flags \cup {t}
  BY <1>1 DEF ErtmState
<1> HIDE DEF q, r
<1>4. Armed(q) /\ (Awaits(r) => Awaits(q))
  BY <1>3 DEF Armed, Awaits
<1>5. KeepsWindow(r, q)
  BY <1>3 DEF KeepsWindow, Window, Occupied
<1>6. EndInv(q, used.data)
  BY <1>1, <1>3, <1>4, <1>5 DEF EndInv, KeepsWindow
<1>7. used.data <= used'.data
  BY <1>1, <1>2
<1> QED
  BY <1>1, <1>2, <1>6, <1>7, EndStep

LEMMA TimerTakeInv ==
    ASSUME ErtmInv, NEW h \in End, TimerTake(h)
    PROVE  ErtmInv'
<1> DEFINE r == ep[h]
           q == [r EXCEPT !.taken = r.flags, !.flags = {}]
<1>1. /\ ep \in [End -> ErtmState] /\ r \in ErtmState /\ EndInv(r, used.data)
      /\ link \in [End -> Seq(Frame)] /\ got \in [End -> SUBSET Piece] /\ lists \in BOOLEAN
      /\ used \in [data : 0 .. MaxData, upsets : 0 .. MaxUpsets]
  BY DEF ErtmInv, TypeOK, Frame
<1>2. /\ ep' = [ep EXCEPT ![h] = q] /\ r.flags # {}
      /\ link' = link /\ got' = got /\ lists' = lists /\ used' = used
  BY <1>1 DEF TimerTake, ErtmState
<1>3. /\ q \in ErtmState /\ q.sent = r.sent /\ q.state = r.state /\ q.unacked = r.unacked
      /\ q.expAck = r.expAck /\ q.txSeq = r.txSeq /\ q.txQueue = r.txQueue
      /\ q.waitF = r.waitF /\ q.active = r.active
      /\ q.taken = r.flags
  BY <1>1 DEF ErtmState
<1> HIDE DEF q, r
<1>4. Armed(q) /\ (Awaits(r) => Awaits(q))
  BY <1>2, <1>3 DEF Armed, Awaits
<1>5. KeepsWindow(r, q)
  BY <1>3 DEF KeepsWindow, Window, Occupied
<1>6. EndInv(q, used.data)
  BY <1>1, <1>3, <1>4, <1>5 DEF EndInv, KeepsWindow
<1>7. used.data <= used'.data
  BY <1>1, <1>2
<1> QED
  BY <1>1, <1>2, <1>6, <1>7, EndStep

\* The timer thread polls after the one timer; after the other it gives the
\* channel up.  Whichever it has taken, it leaves no frame without a timer.
LEMMA TimerActInv ==
    ASSUME ErtmInv, NEW h \in End, TimerAct(h)
    PROVE  ErtmInv'
<1> DEFINE taken == ep[h].taken
           r == [ep[h] EXCEPT !.taken = {},
                              !.active = ep[h].active \ (taken \cap {"retransmit"})]
           p == IF "retransmit" \in taken THEN Poll(On(r)) ELSE On(r)
           i == [p EXCEPT !.ep.active = @ \ {"monitor"}]
           m == [i EXCEPT !.ep = MarkClosed(@)]
           x == IF "monitor" \notin taken THEN p
                ELSE IF p.ep.state = "OPEN" THEN m ELSE i
<1>1. /\ ep[h] \in ErtmState /\ EndInv(ep[h], used.data)
      /\ used \in [data : 0 .. MaxData, upsets : 0 .. MaxUpsets]
  BY DEF ErtmInv, TypeOK
<1>2. Step(h, x) /\ got' = got /\ used' = used /\ taken # {} /\ taken \subseteq TimerFlag
  BY <1>1 DEF TimerAct, ErtmState
<1>3. /\ r \in ErtmState /\ r.sent = ep[h].sent /\ r.state = ep[h].state
      /\ r.unacked = ep[h].unacked /\ r.expAck = ep[h].expAck
      /\ r.txSeq = ep[h].txSeq /\ r.txQueue = ep[h].txQueue
      /\ r.waitF = ep[h].waitF /\ r.active = ep[h].active \ (taken \cap {"retransmit"})
  BY <1>1 DEF ErtmState
<1>4. (Awaits(ep[h]) => Awaits(r)) /\ KeepsWindow(ep[h], r)
  BY <1>3 DEF Awaits, KeepsWindow, Window, Occupied
<1> HIDE DEF r, taken
<1>5. On(r) \in Outcome /\ On(r).ep = r
  BY <1>3, OnType
<1>6. /\ p \in Outcome /\ p.ep.sent = r.sent /\ p.ep.state = r.state
      /\ Awaits(r) => Awaits(p.ep)
      /\ KeepsWindow(r, p.ep)
      /\ "retransmit" \in taken => Armed(p.ep)
  <2>1. CASE "retransmit" \in taken
    BY <1>5, <2>1, PollKeeps
  <2>2. CASE "retransmit" \notin taken
    BY <1>5, <2>2 DEF KeepsWindow
  <2> QED
    BY <2>1, <2>2
<1> HIDE DEF p
<1> DEFINE pe == p.ep
           a == [pe EXCEPT !.active = pe.active \ {"monitor"}]
<1>7. i = [p EXCEPT !.ep = a] /\ pe \in ErtmState
  BY <1>6 DEF Outcome, ErtmState
<1>8. /\ a \in ErtmState /\ a.sent = pe.sent /\ a.state = pe.state
      /\ a.unacked = pe.unacked /\ a.expAck = pe.expAck /\ a.txSeq = pe.txSeq
      /\ a.txQueue = pe.txQueue /\ a.active = pe.active \ {"monitor"}
  BY <1>7 DEF ErtmState
<1> HIDE DEF a, i
<1>9. i \in Outcome /\ i.ep = a
  BY <1>6, <1>7, <1>8 DEF Outcome
<1>10. /\ MarkClosed(a) \in ErtmState /\ MarkClosed(a).sent = a.sent
       /\ Armed(MarkClosed(a)) /\ Awaits(MarkClosed(a)) /\ Window(MarkClosed(a))
  BY <1>8, MarkClosedType
<1>11. m \in Outcome /\ m.ep = MarkClosed(a)
  BY <1>9, <1>10 DEF Outcome
<1> HIDE DEF m
<1>12. x \in Outcome /\ EndInv(x.ep, used.data)
  <2>1. CASE "monitor" \notin taken
    <3>1. "retransmit" \in taken
      BY <1>2, <2>1 DEF TimerFlag
    <3> QED
      BY <1>1, <1>3, <1>4, <1>6, <2>1, <3>1 DEF EndInv, KeepsWindow, Outcome
  <2>2. CASE "monitor" \in taken /\ p.ep.state = "OPEN"
    <3>1. x = m
      BY <2>2
    <3> QED
      BY <1>1, <1>3, <1>6, <1>8, <1>10, <1>11, <3>1 DEF EndInv
  <2>3. CASE "monitor" \in taken /\ p.ep.state # "OPEN"
    <3>1. x = i
      BY <2>3
    <3>2. Armed(a) /\ Awaits(a) /\ KeepsWindow(pe, a)
      BY <1>8, <2>3 DEF Armed, Awaits, KeepsWindow, Window, Occupied
    <3> QED
      BY <1>1, <1>3, <1>4, <1>6, <1>8, <1>9, <3>1, <3>2 DEF EndInv, KeepsWindow
  <2> QED
    BY <2>1, <2>2, <2>3
<1> HIDE DEF x
<1>13. used.data <= used'.data
  BY <1>1, <1>2
<1> QED
  BY <1>1, <1>2, <1>12, <1>13, StepInv

LEMMA NextInv == ErtmInv /\ [Next]_vars => ErtmInv'
<1> SUFFICES ASSUME ErtmInv, [Next]_vars PROVE ErtmInv'
  OBVIOUS
<1>1. CASE UNCHANGED vars
  BY <1>1 DEF vars, ErtmInv, TypeOK, EndInv
<1>2. ASSUME NEW h \in End, Receive(h) PROVE ErtmInv'
  BY <1>2, ReceiveInv
<1>3. ASSUME NEW h \in End, ReceiveDamaged(h) \/ ReceiveUnmapped(h) PROVE ErtmInv'
  BY <1>3, DropInv
<1>4. ASSUME NEW h \in End, SendData(h) PROVE ErtmInv'
  BY <1>4, SendDataInv
<1>5. ASSUME NEW h \in End, ForeignSend(h) PROVE ErtmInv'
  BY <1>5, ForeignSendInv
<1>6. ASSUME NEW h \in End, ForeignSupervise(h) PROVE ErtmInv'
  BY <1>6, ForeignSuperviseInv
<1>7. ASSUME NEW h \in End, NEW t \in TimerFlag, Expire(h, t) PROVE ErtmInv'
  BY <1>7, ExpireInv
<1>8. ASSUME NEW h \in End, TimerTake(h) PROVE ErtmInv'
  BY <1>8, TimerTakeInv
<1>9. ASSUME NEW h \in End, TimerAct(h) PROVE ErtmInv'
  BY <1>9, TimerActInv
<1> QED
  BY <1>1, <1>2, <1>3, <1>4, <1>5, <1>6, <1>7, <1>8, <1>9 DEF Next

LEMMA Invariance == Spec => []ErtmInv
<1> QED
  BY InitInv, NextInv, PTL DEF Spec

----------------------------------------------------------------------------
\* The results

\* Every variable has its type: no retry count, sequence number or frame is
\* ever made up by the retransmissions, the timers or the reassembly.
THEOREM TypeCorrect == Spec => []TypeOK
<1>1. ErtmInv => TypeOK
  BY DEF ErtmInv
<1> QED
  BY <1>1, Invariance, PTL

\* While a frame is not acknowledged, a timer runs, has expired or is being
\* handled, whatever the order of frames, damage, expiries and the timer
\* thread: _RetransmitTimeout() or _MonitorTimeout() is still to come.
THEOREM RecoveryIsArmed == Spec => []RecoveryArmed
<1>1. ErtmInv => RecoveryArmed
  BY DEF ErtmInv, EndInv, Armed, RecoveryArmed
<1> QED
  BY <1>1, Invariance, PTL

\* However many frames the users keep in flight, and however late, twice or
\* out of date the acknowledgements come, the window ends at fTxSeq and every
\* clone in fTxQueue is that of a frame in it: _ProcessAck() leaves none behind.
THEOREM NoCloneOutlivesItsWindow == Spec => []QueueInWindow
<1>1. ErtmInv => QueueInWindow
  BY DEF ErtmInv, EndInv, Window, Occupied, QueueInWindow
<1> QED
  BY <1>1, Invariance, PTL

=============================================================================
