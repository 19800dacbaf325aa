------------------------- MODULE LocalDevice_proofs -------------------------
(***************************************************************************)
(* What holds of a local device of the server for any number of remote     *)
(* devices, clients and events: each caller waits exactly while one        *)
(* petition of its request is in the list, connections are asked for, and  *)
(* the table of connections keeps none that has ended.                     *)
(***************************************************************************)
EXTENDS LocalDevice, NumberLemmas, FiniteSetTheorems, SequenceTheorems

----------------------------------------------------------------------------
\* Numbers, and sequences without one element

LEMMA LeastIn ==
    ASSUME NEW S \in SUBSET Nat, S # {}
    PROVE  Least(S) \in S /\ \A j \in S : Least(S) <= j
<1>1. \E i \in S : \A j \in S : i <= j
  BY LeastNumber
<1> QED
  BY <1>1 DEF Least

\* RemoveAt(s, i) has the other elements in their order.
LEMMA RemoveAtFacts ==
    ASSUME NEW S, NEW s \in Seq(S), NEW i \in 1 .. Len(s)
    PROVE  /\ RemoveAt(s, i) \in Seq(S) /\ Len(RemoveAt(s, i)) = Len(s) - 1
           /\ \A j \in 1 .. Len(s) - 1 :
                 RemoveAt(s, i)[j] = IF j < i THEN s[j] ELSE s[j + 1]
<1> DEFINE a == SubSeq(s, 1, i - 1)
           b == SubSeq(s, i + 1, Len(s))
<1>1. Len(s) \in Nat /\ \A j \in 1 .. Len(s) : s[j] \in S
  OBVIOUS
<1>2. a \in Seq(S) /\ Len(a) = i - 1 /\ \A j \in 1 .. i - 1 : a[j] = s[j]
  <2>1. \A j \in 1 .. i - 1 : s[j] \in S
    BY <1>1
  <2>2. /\ SubSeq(s, 1, i - 1) \in Seq(S)
        /\ Len(SubSeq(s, 1, i - 1)) = IF 1 <= i - 1 THEN (i - 1) - 1 + 1 ELSE 0
        /\ \A j \in 1 .. (i - 1) - 1 + 1 : SubSeq(s, 1, i - 1)[j] = s[1 + j - 1]
    BY <2>1, SubSeqProperties
  <2> QED
    BY <2>2
<1>3. b \in Seq(S) /\ Len(b) = Len(s) - i /\ \A j \in 1 .. Len(s) - i : b[j] = s[i + j]
  <2>1. \A j \in i + 1 .. Len(s) : s[j] \in S
    BY <1>1
  <2>2. /\ SubSeq(s, i + 1, Len(s)) \in Seq(S)
        /\ Len(SubSeq(s, i + 1, Len(s))) = IF i + 1 <= Len(s) THEN Len(s) - (i + 1) + 1 ELSE 0
        /\ \A j \in 1 .. Len(s) - (i + 1) + 1 : SubSeq(s, i + 1, Len(s))[j] = s[(i + 1) + j - 1]
    BY <1>1, <2>1, SubSeqProperties
  <2> QED
    BY <1>1, <2>2
<1> HIDE DEF a, b
<1>4. /\ a \o b \in Seq(S) /\ Len(a \o b) = Len(a) + Len(b)
      /\ \A j \in 1 .. Len(a) + Len(b) : (a \o b)[j] = IF j <= Len(a) THEN a[j] ELSE b[j - Len(a)]
  BY <1>2, <1>3, ConcatProperties
<1>5. RemoveAt(s, i) = a \o b
  BY DEF RemoveAt, a, b
<1>6. ASSUME NEW j \in 1 .. Len(s) - 1
      PROVE  (a \o b)[j] = IF j < i THEN s[j] ELSE s[j + 1]
  <2>1. CASE j < i
    BY <1>1, <1>2, <1>3, <1>4, <2>1
  <2>2. CASE j >= i
    <3>1. (a \o b)[j] = b[j - (i - 1)] /\ j - (i - 1) \in 1 .. Len(s) - i
      BY <1>1, <1>2, <1>3, <1>4, <2>2
    <3>2. b[j - (i - 1)] = s[i + (j - (i - 1))] /\ i + (j - (i - 1)) = j + 1
      BY <1>1, <1>3, <3>1
    <3> QED
      BY <2>2, <3>1, <3>2
  <2>3. j < i \/ j >= i
    BY <1>1
  <2> QED
    BY <2>1, <2>2, <2>3, Zenon
<1> QED
  BY <1>1, <1>2, <1>3, <1>4, <1>5, <1>6

----------------------------------------------------------------------------
\* Petitions and calls

EventName == {"CMD_STATUS", "CMD_COMPLETE", "LINK_KEY_REQ", "IO_CAPABILITY_REQUEST",
              "USER_CONFIRMATION_REQUEST", "SIMPLE_PAIRING_COMPLETE", "LINK_KEY_NOTIFY",
              "CONN_COMPLETE", "AUTH_COMPLETE", "NAME_COMPLETE", "DISCONNECTION_COMPLETE",
              "INQUIRY_RESULT", "INQUIRY_COMPLETE", "RMT_FEATURES", "EXT_FEATURES",
              "ENCRYPT_CHANGE", "CONN_REQUEST"}
OpName == {"CREATE_CONN", "LINK_KEY_REPLY", "LINK_KEY_NEG_REPLY", "AUTH_REQUESTED",
           "REMOTE_NAME_REQUEST", "DISCONNECT", "INQUIRY", "READ_LOCAL",
           "USER_CONFIRMATION_REPLY", "USER_CONFIRMATION_NEG_REPLY", "ACCEPT_CONN_REQ",
           "REJECT_CONN_REQ", "READ_REMOTE_FEATURES", "READ_REMOTE_EXT_FEATURES",
           "SET_CONN_ENCRYPT", "IO_CAPABILITY_REPLY"}

Device == Devices \cup {NoDevice}
Handle0 == {0} \cup Handle

PetitionRec == [ev : Seq(EventName), op : Seq(OpName), call : Nat, dev : Device, handle : Handle0]
CallRec == [kind : DOMAIN Expected, dev : Device, handle : Handle0, issued : BOOLEAN, res : Result]

Wants == ServerWants \cup {Expected[x] : x \in DOMAIN Expected}

\* Events that an opcode may belong to, and those that only the server awaits
WithOpcode == {"CMD_STATUS", "CMD_COMPLETE", "NAME_COMPLETE"}
OfServer == {"RMT_FEATURES", "EXT_FEATURES"}

\* The events and opcodes of p are left of those of w.
LeftOf(p, w) ==
    /\ \A i \in 1 .. Len(p.ev) : \E j \in 1 .. Len(w.ev) : p.ev[i] = w.ev[j]
    /\ \A i \in 1 .. Len(p.op) : \E j \in 1 .. Len(w.op) : p.op[i] = w.op[j]

\* No step of the pairing chain answers a caller, and an event that is taken
\* out without its opcode never had one.
Sound(p) ==
    /\ Len(p.op) <= Len(p.ev)
    /\ \A i \in 1 .. Len(p.op) : p.ev[i] \in WithOpcode
    /\ \E w \in Wants : LeftOf(p, w)
    /\ p.call # 0 => p.handle = 0 /\ \A i \in 1 .. Len(p.ev) : p.ev[i] \notin OfServer

\* An authentication is requested for a connection.
SoundCall(c) == c.kind = "Reauthenticate" => c.handle # 0

\* A call c of cs has a petition in ps while it is not answered, and only then.
Waits(ps, c) == \E i \in 1 .. Len(ps) : ps[i].call = c

ListOk(ps, cs) ==
    /\ ps \in Seq(PetitionRec) /\ cs \in Seq(CallRec)
    /\ \A i \in 1 .. Len(ps) : Sound(ps[i]) /\ ps[i].call <= Len(cs)
    /\ \A c \in 1 .. Len(cs) : SoundCall(cs[c])
    /\ \A b, c \in 1 .. Len(cs) : ~cs[b].issued /\ ~cs[c].issued => b = c
    /\ \A i, j \in 1 .. Len(ps) : ps[i].call # 0 /\ ps[i].call = ps[j].call => i = j
    /\ \A c \in 1 .. Len(cs) :
          /\ cs[c].res = "none" => Waits(ps, c)
          /\ cs[c].res \in {"ok", "fail", "exists"} => ~Waits(ps, c)

----------------------------------------------------------------------------
\* What petitions are made of

Kind == {"Authenticate", "Reauthenticate", "GetFriendlyName", "Disconnect",
         "StartInquiry", "ReadLocal", "Confirm", "Deny"}

LEMMA Kinds8 == DOMAIN Expected = Kind
BY DEF Expected, Kind

GoodWant(w) ==
    /\ w.ev \in Seq(EventName) /\ w.op \in Seq(OpName)
    /\ Len(w.op) <= Len(w.ev)
    /\ \A i \in 1 .. Len(w.op) : w.ev[i] \in WithOpcode
    /\ \A i \in 1 .. Len(w.ev) : w.ev[i] # "CONN_REQUEST"

\* The opcodes of petitions are those of their first events.
LEMMA ExpectedIsGood ==
    ASSUME NEW x \in Kind
    PROVE  /\ GoodWant(Expected[x]) /\ Len(Expected[x].op) > 0
           /\ \A i \in 1 .. Len(Expected[x].ev) : Expected[x].ev[i] \notin OfServer
<1> DEFINE Good(w) == /\ GoodWant(w) /\ Len(w.op) > 0
                      /\ \A i \in 1 .. Len(w.ev) : w.ev[i] \notin OfServer
<1>1. Good(Connecting)
  BY DEF Connecting, GoodWant, WithOpcode, EventName, OpName, OfServer
<1>2. Good(Reconnecting)
  BY DEF Reconnecting, GoodWant, WithOpcode, EventName, OpName, OfServer
<1>3. Good(NameAsking)
  BY DEF NameAsking, GoodWant, WithOpcode, EventName, OpName, OfServer
<1>4. Good(Disconnecting)
  BY DEF Disconnecting, GoodWant, WithOpcode, EventName, OpName, OfServer
<1>5. Good(Inquiring)
  BY DEF Inquiring, GoodWant, WithOpcode, EventName, OpName, OfServer
<1>6. Good(LocalReading)
  BY DEF LocalReading, GoodWant, WithOpcode, EventName, OpName, OfServer
<1>7. Good(Confirming)
  BY DEF Confirming, GoodWant, WithOpcode, EventName, OpName, OfServer
<1>8. Good(Denying)
  BY DEF Denying, GoodWant, WithOpcode, EventName, OpName, OfServer
<1> HIDE DEF Good
<1>9. Good(Expected[x])
  BY <1>1, <1>2, <1>3, <1>4, <1>5, <1>6, <1>7, <1>8 DEF Expected, Kind
<1> QED
  BY <1>9 DEF Good

LEMMA ServerIsGood ==
    ASSUME NEW w \in ServerWants
    PROVE  GoodWant(w)
<1>1. CASE w = Accepting
  BY <1>1 DEF Accepting, GoodWant, WithOpcode, EventName, OpName
<1>2. CASE w = FeatureReading
  BY <1>2 DEF FeatureReading, GoodWant, WithOpcode, EventName, OpName
<1>3. CASE w = ExtFeatureReading
  BY <1>3 DEF ExtFeatureReading, GoodWant, WithOpcode, EventName, OpName
<1>4. CASE w = NameReading
  BY <1>4 DEF NameReading, GoodWant, WithOpcode, EventName, OpName
<1>5. CASE w = Authenticating
  BY <1>5 DEF Authenticating, GoodWant, WithOpcode, EventName, OpName
<1>6. CASE w = Encrypting
  BY <1>6 DEF Encrypting, GoodWant, WithOpcode, EventName, OpName
<1>7. CASE w = IoReplying
  BY <1>7 DEF IoReplying, GoodWant, WithOpcode, EventName, OpName
<1>8. CASE w = NameKeeping
  BY <1>8 DEF NameKeeping, GoodWant, WithOpcode, EventName, OpName
<1> QED
  BY <1>1, <1>2, <1>3, <1>4, <1>5, <1>6, <1>7, <1>8 DEF ServerWants

LEMMA WantsAreGood == \A w \in Wants : GoodWant(w)
BY ExpectedIsGood, ServerIsGood, Kinds8 DEF Wants

\* Nobody expects a request to connect.
LEMMA NobodyExpects ==
    ASSUME NEW p, Sound(p)
    PROVE  \A i \in 1 .. Len(p.ev) : p.ev[i] # "CONN_REQUEST"
BY WantsAreGood DEF Sound, LeftOf, GoodWant

\* A petition as it is added.
LEMMA NewPetition ==
    ASSUME NEW w \in Wants, NEW c \in Nat, NEW d \in Device, NEW h \in Handle0,
           c # 0 => h = 0 /\ \A i \in 1 .. Len(w.ev) : w.ev[i] \notin OfServer
    PROVE  /\ Petition(w, c, d, h) \in PetitionRec /\ Sound(Petition(w, c, d, h))
           /\ Petition(w, c, d, h).call = c
<1> DEFINE p == Petition(w, c, d, h)
<1>1. GoodWant(w)
  BY WantsAreGood
<1>2. p.ev = w.ev /\ p.op = w.op /\ p.call = c /\ p.dev = d /\ p.handle = h
  BY DEF Petition
<1>3. p \in PetitionRec
  BY <1>1 DEF Petition, PetitionRec, GoodWant
<1> HIDE DEF p
<1>4. LeftOf(p, w)
  BY <1>2 DEF LeftOf
<1>5. Sound(p)
  BY <1>1, <1>2, <1>4 DEF Sound, GoodWant
<1> QED
  BY <1>2, <1>3, <1>5 DEF p

----------------------------------------------------------------------------
\* The list of petitions and the calls: what each change keeps

LEMMA RecordTypes ==
    /\ \A p \in PetitionRec : /\ p.ev \in Seq(EventName) /\ p.op \in Seq(OpName) /\ p.call \in Nat
                             /\ p.dev \in Device /\ p.handle \in Handle0
    /\ \A r \in CallRec : /\ r.kind \in Kind /\ r.dev \in Device /\ r.handle \in Handle0
                         /\ r.issued \in BOOLEAN /\ r.res \in Result
BY Kinds8 DEF PetitionRec, CallRec

\* What a list that is in order gives of each element
LEMMA ListTypes ==
    ASSUME NEW ps, NEW cs, ListOk(ps, cs)
    PROVE  /\ ps \in Seq(PetitionRec) /\ cs \in Seq(CallRec)
           /\ Len(ps) \in Nat /\ Len(cs) \in Nat
           /\ \A i \in 1 .. Len(ps) : ps[i] \in PetitionRec /\ ps[i].call \in 0 .. Len(cs)
           /\ \A c \in 1 .. Len(cs) : cs[c] \in CallRec
<1>1. ps \in Seq(PetitionRec) /\ cs \in Seq(CallRec) /\ \A i \in 1 .. Len(ps) : ps[i].call <= Len(cs)
  BY DEF ListOk
<1>2. \A i \in 1 .. Len(ps) : ps[i] \in PetitionRec
  BY <1>1
<1>3. \A i \in 1 .. Len(ps) : ps[i].call \in Nat
  BY <1>2, RecordTypes
<1> QED
  BY <1>1, <1>2, <1>3

\* A call that is told something else
LEMMA CallUpdate ==
    ASSUME NEW r \in CallRec, NEW x \in Result
    PROVE  LET s == [r EXCEPT !.res = x]
           IN  /\ s \in CallRec /\ s.res = x /\ s.kind = r.kind /\ s.dev = r.dev
               /\ s.handle = r.handle /\ s.issued = r.issued
BY DEF CallRec

\* A petition of the server is added.
LEMMA ServerAdds ==
    ASSUME NEW ps, NEW cs, ListOk(ps, cs), NEW p \in PetitionRec, Sound(p), p.call = 0
    PROVE  ListOk(Append(ps, p), cs)
<1> DEFINE qs == Append(ps, p)
<1>1. ps \in Seq(PetitionRec) /\ cs \in Seq(CallRec) /\ Len(ps) \in Nat /\ Len(cs) \in Nat
      /\ \A i \in 1 .. Len(ps) : ps[i] \in PetitionRec /\ ps[i].call \in 0 .. Len(cs)
  BY ListTypes
<1>2. /\ qs \in Seq(PetitionRec) /\ Len(qs) = Len(ps) + 1
      /\ \A i \in 1 .. Len(ps) : qs[i] = ps[i]
      /\ qs[Len(ps) + 1] = p
  BY <1>1
<1> HIDE DEF qs
<1>3. \A i \in 1 .. Len(qs) : i \in 1 .. Len(ps) \/ i = Len(ps) + 1
  BY <1>1, <1>2
<1>4. \A i \in 1 .. Len(qs) : Sound(qs[i]) /\ qs[i].call <= Len(cs)
  BY <1>1, <1>2, <1>3 DEF ListOk
<1>5. \A i, j \in 1 .. Len(qs) : qs[i].call # 0 /\ qs[i].call = qs[j].call => i = j
  BY <1>1, <1>2, <1>3 DEF ListOk
<1>6. ASSUME NEW c \in 1 .. Len(cs)
      PROVE  Waits(qs, c) <=> Waits(ps, c)
  <2>1. \A i \in 1 .. Len(qs) : qs[i].call = c => i \in 1 .. Len(ps) /\ ps[i].call = c
    BY <1>2, <1>3
  <2>2. \A i \in 1 .. Len(ps) : i \in 1 .. Len(qs) /\ qs[i].call = ps[i].call
    BY <1>1, <1>2
  <2> QED
    BY <2>1, <2>2 DEF Waits
<1>7. \A c \in 1 .. Len(cs) :
         /\ cs[c].res = "none" => Waits(qs, c)
         /\ cs[c].res \in {"ok", "fail", "exists"} => ~Waits(qs, c)
  BY <1>6 DEF ListOk
<1> QED
  BY <1>1, <1>2, <1>4, <1>5, <1>7 DEF ListOk, qs

\* Entries are taken out of a petition.
LEMMA PetitionShrinks ==
    ASSUME NEW ps, NEW cs, ListOk(ps, cs), NEW k \in 1 .. Len(ps),
           NEW p \in PetitionRec, Sound(p), p.call = ps[k].call
    PROVE  ListOk([ps EXCEPT ![k] = p], cs)
<1> DEFINE qs == [ps EXCEPT ![k] = p]
<1>1. ps \in Seq(PetitionRec) /\ cs \in Seq(CallRec) /\ Len(ps) \in Nat
  BY DEF ListOk
<1>2. /\ qs \in Seq(PetitionRec) /\ Len(qs) = Len(ps)
      /\ \A i \in 1 .. Len(ps) : qs[i] = IF i = k THEN p ELSE ps[i]
  BY <1>1, ExceptSeq
<1> HIDE DEF qs
<1>3. \A i \in 1 .. Len(qs) : Sound(qs[i]) /\ qs[i].call = ps[i].call
  BY <1>2 DEF ListOk
<1>4. \A c \in 1 .. Len(cs) : Waits(qs, c) <=> Waits(ps, c)
  BY <1>2, <1>3 DEF Waits
<1>5. \A c \in 1 .. Len(cs) :
         /\ cs[c].res = "none" => Waits(qs, c)
         /\ cs[c].res \in {"ok", "fail", "exists"} => ~Waits(qs, c)
  BY <1>4 DEF ListOk
<1>6. \A i, j \in 1 .. Len(qs) : qs[i].call # 0 /\ qs[i].call = qs[j].call => i = j
  BY <1>2, <1>3 DEF ListOk
<1>7. \A i \in 1 .. Len(qs) : Sound(qs[i]) /\ qs[i].call <= Len(cs)
  BY <1>2, <1>3 DEF ListOk
<1> QED
  BY <1>1, <1>2, <1>5, <1>6, <1>7 DEF ListOk, qs

\* SendReply() to the caller of a petition
Reply(cs, c, res) ==
    IF c # 0 /\ cs[c].res = "none" THEN [cs EXCEPT ![c].res = res] ELSE cs

\* A petition is answered and cleared.
LEMMA PetitionEnds ==
    ASSUME NEW ps, NEW cs, ListOk(ps, cs), NEW k \in 1 .. Len(ps), NEW res,
           res \in {"ok", "fail", "exists"} \/ ps[k].call = 0
    PROVE  ListOk(RemoveAt(ps, k), Reply(cs, ps[k].call, res))
<1> DEFINE qs == RemoveAt(ps, k)
           c == ps[k].call
           ds == Reply(cs, c, res)
<1>1. ps \in Seq(PetitionRec) /\ cs \in Seq(CallRec) /\ Len(ps) \in Nat /\ Len(cs) \in Nat
      /\ \A i \in 1 .. Len(ps) : ps[i] \in PetitionRec /\ ps[i].call \in 0 .. Len(cs)
  BY ListTypes
<1>2. /\ qs \in Seq(PetitionRec) /\ Len(qs) = Len(ps) - 1
      /\ \A j \in 1 .. Len(qs) : qs[j] = IF j < k THEN ps[j] ELSE ps[j + 1]
  BY <1>1, RemoveAtFacts
<1> HIDE DEF qs
<1>3. \A j \in 1 .. Len(qs) : \E i \in 1 .. Len(ps) :
         /\ i # k /\ qs[j] = ps[i] /\ i = IF j < k THEN j ELSE j + 1
  BY <1>1, <1>2
<1>4. \A i \in 1 .. Len(ps) : i # k => \E j \in 1 .. Len(qs) : qs[j] = ps[i]
  <2> SUFFICES ASSUME NEW i \in 1 .. Len(ps), i # k
               PROVE  \E j \in 1 .. Len(qs) : qs[j] = ps[i]
    OBVIOUS
  <2>1. CASE i < k
    BY <1>1, <1>2, <2>1, SMTT(20)
  <2>2. CASE i > k
    <3>1. i - 1 \in 1 .. Len(qs) /\ ~(i - 1 < k) /\ (i - 1) + 1 = i
      BY <1>1, <1>2, <2>2
    <3> QED
      BY <1>2, <3>1
  <2> QED
    BY <1>1, <2>1, <2>2
<1>5. \A j \in 1 .. Len(qs) : Sound(qs[j]) /\ qs[j].call <= Len(cs)
  BY <1>3 DEF ListOk
<1>6. \A i, j \in 1 .. Len(qs) : qs[i].call # 0 /\ qs[i].call = qs[j].call => i = j
  <2> SUFFICES ASSUME NEW i \in 1 .. Len(qs), NEW j \in 1 .. Len(qs),
                      qs[i].call # 0, qs[i].call = qs[j].call
               PROVE  i = j
    OBVIOUS
  <2>1. PICK a \in 1 .. Len(ps) : a # k /\ qs[i] = ps[a] /\ a = IF i < k THEN i ELSE i + 1
    BY <1>3
  <2>2. PICK b \in 1 .. Len(ps) : b # k /\ qs[j] = ps[b] /\ b = IF j < k THEN j ELSE j + 1
    BY <1>3
  <2>3. a = b
    BY <2>1, <2>2 DEF ListOk
  <2> QED
    BY <1>1, <1>2, <2>1, <2>2, <2>3
<1>7. c \in 0 .. Len(cs)
  BY <1>1
<1>8. ASSUME NEW b \in 1 .. Len(cs), b # c
      PROVE  Waits(qs, b) <=> Waits(ps, b)
  BY <1>3, <1>4, <1>8 DEF Waits
<1>9. c # 0 => ~Waits(qs, c)
  <2> SUFFICES ASSUME c # 0, NEW j \in 1 .. Len(qs), qs[j].call = c PROVE FALSE
    BY DEF Waits
  <2>1. PICK i \in 1 .. Len(ps) : i # k /\ qs[j] = ps[i]
    BY <1>3
  <2> QED
    BY <2>1 DEF ListOk
<1>10. CASE c # 0 /\ cs[c].res = "none"
  <2>1. c \in 1 .. Len(cs) /\ res \in {"ok", "fail", "exists"}
    BY <1>1, <1>7, <1>10
  <2>2. ds = [cs EXCEPT ![c].res = res]
    BY <1>10 DEF Reply
  <2> HIDE DEF c
  <2>3. cs[c] \in CallRec /\ [cs[c] EXCEPT !.res = res] \in CallRec
        /\ [cs[c] EXCEPT !.res = res].res = res
        /\ [cs[c] EXCEPT !.res = res].kind = cs[c].kind
        /\ [cs[c] EXCEPT !.res = res].handle = cs[c].handle
        /\ [cs[c] EXCEPT !.res = res].issued = cs[c].issued
    <3>1. cs[c] \in CallRec /\ res \in Result
      BY <1>1, <2>1 DEF Result
    <3> QED
      BY <3>1, CallUpdate
  <2>4. /\ ds \in Seq(CallRec) /\ Len(ds) = Len(cs)
        /\ \A b \in 1 .. Len(cs) : ds[b] = IF b = c THEN [cs[c] EXCEPT !.res = res] ELSE cs[b]
    BY <1>1, <2>1, <2>2, <2>3, ExceptSeq
  <2> HIDE DEF ds
  <2>5. \A b \in 1 .. Len(ds) :
           /\ ds[b].kind = cs[b].kind /\ ds[b].handle = cs[b].handle
           /\ ds[b].issued = cs[b].issued
           /\ ds[b].res = IF b = c THEN res ELSE cs[b].res
    BY <2>3, <2>4
  <2>6. \A b \in 1 .. Len(ds) : SoundCall(ds[b])
    BY <2>4, <2>5 DEF ListOk, SoundCall
  <2>7. \A a, b \in 1 .. Len(ds) : ~ds[a].issued /\ ~ds[b].issued => a = b
    BY <2>4, <2>5 DEF ListOk
  <2>8. \A b \in 1 .. Len(ds) :
           /\ ds[b].res = "none" => Waits(qs, b)
           /\ ds[b].res \in {"ok", "fail", "exists"} => ~Waits(qs, b)
    BY <1>8, <1>9, <1>10, <2>1, <2>4, <2>5 DEF ListOk
  <2> QED
    BY <1>2, <1>5, <1>6, <2>4, <2>6, <2>7, <2>8 DEF ListOk, qs, ds, c
<1>11. CASE ~(c # 0 /\ cs[c].res = "none")
  <2>1. ds = cs
    BY <1>11 DEF Reply
  <2>2. \A b \in 1 .. Len(cs) :
           /\ cs[b].res = "none" => Waits(qs, b)
           /\ cs[b].res \in {"ok", "fail", "exists"} => ~Waits(qs, b)
    BY <1>1, <1>8, <1>9, <1>11 DEF ListOk
  <2> QED
    BY <1>1, <1>2, <1>5, <1>6, <2>1, <2>2 DEF ListOk, qs
<1> QED
  BY <1>10, <1>11

\* A client's request is added, when no other is about to be issued.
LEMMA ClientAdds ==
    ASSUME NEW ps, NEW cs, ListOk(ps, cs), \A c \in 1 .. Len(cs) : cs[c].issued,
           NEW p \in PetitionRec, Sound(p), p.call = Len(cs) + 1,
           NEW r \in CallRec, SoundCall(r), r.res = "none"
    PROVE  ListOk(Append(ps, p), Append(cs, r))
<1> DEFINE qs == Append(ps, p)
           ds == Append(cs, r)
<1>1. ps \in Seq(PetitionRec) /\ cs \in Seq(CallRec) /\ Len(ps) \in Nat /\ Len(cs) \in Nat
      /\ \A i \in 1 .. Len(ps) : ps[i] \in PetitionRec /\ ps[i].call \in 0 .. Len(cs)
  BY ListTypes
<1>2. /\ qs \in Seq(PetitionRec) /\ Len(qs) = Len(ps) + 1
      /\ \A i \in 1 .. Len(ps) : qs[i] = ps[i]
      /\ qs[Len(ps) + 1] = p
  BY <1>1
<1>3. /\ ds \in Seq(CallRec) /\ Len(ds) = Len(cs) + 1
      /\ \A c \in 1 .. Len(cs) : ds[c] = cs[c]
      /\ ds[Len(cs) + 1] = r
  BY <1>1
<1> HIDE DEF qs, ds
<1>4. \A i \in 1 .. Len(qs) : i \in 1 .. Len(ps) \/ i = Len(ps) + 1
  BY <1>1, <1>2
<1>5. \A c \in 1 .. Len(ds) : c \in 1 .. Len(cs) \/ c = Len(cs) + 1
  BY <1>1, <1>3
<1>6. \A i \in 1 .. Len(qs) : Sound(qs[i]) /\ qs[i].call <= Len(ds)
  BY <1>1, <1>2, <1>3, <1>4 DEF ListOk
<1>7. \A c \in 1 .. Len(ds) : SoundCall(ds[c])
  BY <1>3, <1>5 DEF ListOk
<1>8. \A b, c \in 1 .. Len(ds) : ~ds[b].issued /\ ~ds[c].issued => b = c
  BY <1>3, <1>5
<1>9. \A i, j \in 1 .. Len(qs) : qs[i].call # 0 /\ qs[i].call = qs[j].call => i = j
  <2>1. \A i \in 1 .. Len(ps) : qs[i].call # qs[Len(ps) + 1].call
    BY <1>1, <1>2
  <2>2. \A i, j \in 1 .. Len(ps) : qs[i].call # 0 /\ qs[i].call = qs[j].call => i = j
    BY <1>2 DEF ListOk
  <2> QED
    BY <1>4, <2>1, <2>2
<1>10. ASSUME NEW c \in 1 .. Len(cs)
       PROVE  Waits(qs, c) <=> Waits(ps, c)
  <2>1. \A i \in 1 .. Len(qs) : qs[i].call = c => i \in 1 .. Len(ps) /\ ps[i].call = c
    BY <1>1, <1>2, <1>4
  <2>2. \A i \in 1 .. Len(ps) : i \in 1 .. Len(qs) /\ qs[i].call = ps[i].call
    BY <1>1, <1>2
  <2> QED
    BY <2>1, <2>2 DEF Waits
<1>11. Waits(qs, Len(cs) + 1)
  <2>1. Len(ps) + 1 \in 1 .. Len(qs)
    BY <1>1, <1>2
  <2> QED
    BY <1>2, <2>1 DEF Waits
<1>12. \A c \in 1 .. Len(ds) :
         /\ ds[c].res = "none" => Waits(qs, c)
         /\ ds[c].res \in {"ok", "fail", "exists"} => ~Waits(qs, c)
  BY <1>3, <1>5, <1>10, <1>11 DEF ListOk
<1> QED
  BY <1>2, <1>3, <1>6, <1>7, <1>8, <1>9, <1>12 DEF ListOk, qs, ds

\* A caller that was told that the connection exists asks again.
LEMMA ClientAsksAgain ==
    ASSUME NEW ps, NEW cs, ListOk(ps, cs), \A c \in 1 .. Len(cs) : cs[c].issued,
           NEW a \in 1 .. Len(cs), cs[a].res = "exists",
           NEW p \in PetitionRec, Sound(p), p.call = a,
           NEW r \in CallRec, SoundCall(r), r.res = "none"
    PROVE  ListOk(Append(ps, p), [cs EXCEPT ![a] = r])
<1> DEFINE qs == Append(ps, p)
           ds == [cs EXCEPT ![a] = r]
<1>1. ps \in Seq(PetitionRec) /\ cs \in Seq(CallRec) /\ Len(ps) \in Nat /\ Len(cs) \in Nat
      /\ \A i \in 1 .. Len(ps) : ps[i] \in PetitionRec /\ ps[i].call \in 0 .. Len(cs)
  BY ListTypes
<1>2. /\ qs \in Seq(PetitionRec) /\ Len(qs) = Len(ps) + 1
      /\ \A i \in 1 .. Len(ps) : qs[i] = ps[i]
      /\ qs[Len(ps) + 1] = p
  BY <1>1
<1>3. /\ ds \in Seq(CallRec) /\ Len(ds) = Len(cs)
      /\ \A c \in 1 .. Len(cs) : ds[c] = IF c = a THEN r ELSE cs[c]
  BY <1>1, ExceptSeq
<1> HIDE DEF qs, ds
<1>4. \A i \in 1 .. Len(qs) : i \in 1 .. Len(ps) \/ i = Len(ps) + 1
  BY <1>1, <1>2
<1>5. ~Waits(ps, a)
  BY DEF ListOk
<1>6. \A i \in 1 .. Len(qs) : Sound(qs[i]) /\ qs[i].call <= Len(ds)
  BY <1>1, <1>2, <1>3, <1>4 DEF ListOk
<1>7. \A c \in 1 .. Len(ds) : SoundCall(ds[c])
  BY <1>3 DEF ListOk
<1>8. \A b, c \in 1 .. Len(ds) : ~ds[b].issued /\ ~ds[c].issued => b = c
  BY <1>3
<1>9. \A i, j \in 1 .. Len(qs) : qs[i].call # 0 /\ qs[i].call = qs[j].call => i = j
  <2>1. \A i \in 1 .. Len(ps) : qs[i].call # qs[Len(ps) + 1].call
    BY <1>2, <1>5 DEF Waits
  <2>2. \A i, j \in 1 .. Len(ps) : qs[i].call # 0 /\ qs[i].call = qs[j].call => i = j
    BY <1>2 DEF ListOk
  <2> QED
    BY <1>4, <2>1, <2>2
<1>10. ASSUME NEW c \in 1 .. Len(cs), c # a
       PROVE  Waits(qs, c) <=> Waits(ps, c)
  <2>1. \A i \in 1 .. Len(qs) : qs[i].call = c => i \in 1 .. Len(ps) /\ ps[i].call = c
    BY <1>2, <1>4, <1>10
  <2>2. \A i \in 1 .. Len(ps) : i \in 1 .. Len(qs) /\ qs[i].call = ps[i].call
    BY <1>1, <1>2
  <2> QED
    BY <2>1, <2>2 DEF Waits
<1>11. Waits(qs, a)
  <2>1. Len(ps) + 1 \in 1 .. Len(qs)
    BY <1>1, <1>2
  <2> QED
    BY <1>2, <2>1 DEF Waits
<1>12. \A c \in 1 .. Len(ds) :
         /\ ds[c].res = "none" => Waits(qs, c)
         /\ ds[c].res \in {"ok", "fail", "exists"} => ~Waits(qs, c)
  BY <1>3, <1>10, <1>11 DEF ListOk
<1> QED
  BY <1>2, <1>3, <1>6, <1>7, <1>8, <1>9, <1>12 DEF ListOk, qs, ds

\* A call is issued, given up or fails: its petition stays or was not there.
LEMMA CallMoves ==
    ASSUME NEW ps, NEW cs, ListOk(ps, cs), NEW a \in 1 .. Len(cs),
           NEW r \in CallRec, SoundCall(r), r.issued \/ r.issued = cs[a].issued,
           \/ r.res = cs[a].res \/ r.res = "gaveup"
           \/ {r.res, cs[a].res} \subseteq {"ok", "fail", "exists"}
    PROVE  ListOk(ps, [cs EXCEPT ![a] = r])
<1> DEFINE ds == [cs EXCEPT ![a] = r]
<1>1. ps \in Seq(PetitionRec) /\ cs \in Seq(CallRec) /\ Len(ps) \in Nat /\ Len(cs) \in Nat
  BY ListTypes
<1>2. /\ ds \in Seq(CallRec) /\ Len(ds) = Len(cs)
      /\ \A c \in 1 .. Len(cs) : ds[c] = IF c = a THEN r ELSE cs[c]
  BY <1>1, ExceptSeq
<1> HIDE DEF ds
<1>3. \A c \in 1 .. Len(ds) : SoundCall(ds[c])
  BY <1>2 DEF ListOk
<1>4. \A b, c \in 1 .. Len(ds) : ~ds[b].issued /\ ~ds[c].issued => b = c
  BY <1>2 DEF ListOk
<1>5. \A c \in 1 .. Len(ds) :
         /\ ds[c].res = "none" => Waits(ps, c)
         /\ ds[c].res \in {"ok", "fail", "exists"} => ~Waits(ps, c)
  BY <1>2 DEF ListOk
<1> QED
  BY <1>1, <1>2, <1>3, <1>4, <1>5 DEF ListOk, ds

----------------------------------------------------------------------------
\* Entries of a petition, and where an event goes

LEMMA FindFacts ==
    ASSUME NEW e, NEW o, ListOk(petitions, calls), NEW k, k = FindPetition(e, o), k # 0
    PROVE  /\ k \in 1 .. Len(petitions)
           /\ \E i \in 1 .. Len(petitions[k].ev) : petitions[k].ev[i] = e
<1> DEFINE fit == {j \in DOMAIN petitions : Entries(petitions[j], e, o) # {}}
<1>1. petitions \in Seq(PetitionRec) /\ DOMAIN petitions = 1 .. Len(petitions)
      /\ \A i \in 1 .. Len(petitions) : petitions[i] \in PetitionRec
  BY ListTypes
<1>2. fit # {} /\ k = Least(fit)
  BY DEF FindPetition
<1>3. fit \in SUBSET Nat
  BY <1>1
<1>4. k \in fit
  BY <1>2, <1>3, LeastIn
<1>5. k \in 1 .. Len(petitions) /\ Entries(petitions[k], e, o) # {}
  BY <1>1, <1>4
<1>6. DOMAIN petitions[k].ev = 1 .. Len(petitions[k].ev)
  BY <1>1, <1>5, RecordTypes
<1> QED
  BY <1>5, <1>6 DEF Entries

\* ClearWantedEvent() with an opcode takes an event out with its opcode.
LEMMA ClearOpcodeKeeps ==
    ASSUME NEW k \in 1 .. Len(petitions), NEW e, NEW o, ListOk(petitions, calls)
    PROVE  /\ ListOk(ClearOpcode(k, e, o), calls)
           /\ Len(ClearOpcode(k, e, o)) = Len(petitions)
<1> DEFINE p == petitions[k]
           fit == {i \in DOMAIN p.op : p.ev[i] = e /\ p.op[i] = o}
           n == Least(fit)
           q == [p EXCEPT !.ev = RemoveAt(@, n), !.op = RemoveAt(@, n)]
<1>1. CASE fit = {}
  BY <1>1 DEF ClearOpcode
<1>2. CASE fit # {}
  <2>1. petitions \in Seq(PetitionRec) /\ p \in PetitionRec /\ Sound(p)
        /\ p.ev \in Seq(EventName) /\ p.op \in Seq(OpName) /\ DOMAIN p.op = 1 .. Len(p.op)
    <3>1. petitions \in Seq(PetitionRec) /\ p \in PetitionRec
      BY ListTypes
    <3>2. p.ev \in Seq(EventName) /\ p.op \in Seq(OpName)
      BY <3>1, RecordTypes
    <3> QED
      BY <3>1, <3>2 DEF ListOk
  <2>2. n \in 1 .. Len(p.op)
    <3>1. fit \in SUBSET Nat
      BY <2>1
    <3>2. n \in fit
      BY <1>2, <3>1, LeastIn
    <3> QED
      BY <2>1, <3>2
  <2>3. ClearOpcode(k, e, o) = [petitions EXCEPT ![k] = q]
    BY <1>2, <2>1 DEF ClearOpcode
  <2> HIDE DEF n
  <2> DEFINE v == RemoveAt(p.ev, n)
             w == RemoveAt(p.op, n)
  <2>4. Len(p.ev) \in Nat /\ Len(p.op) \in Nat /\ Len(p.op) <= Len(p.ev) /\ n \in 1 .. Len(p.ev)
    BY <2>1, <2>2 DEF Sound
  <2>5. /\ v \in Seq(EventName) /\ Len(v) = Len(p.ev) - 1
        /\ \A j \in 1 .. Len(v) : v[j] = IF j < n THEN p.ev[j] ELSE p.ev[j + 1]
    BY <2>1, <2>4, RemoveAtFacts
  <2>6. /\ w \in Seq(OpName) /\ Len(w) = Len(p.op) - 1
        /\ \A j \in 1 .. Len(w) : w[j] = IF j < n THEN p.op[j] ELSE p.op[j + 1]
    BY <2>1, <2>2, RemoveAtFacts
  <2>7. q = [p EXCEPT !.ev = v, !.op = w]
    OBVIOUS
  <2> HIDE DEF v, w, q
  <2>8. /\ q \in PetitionRec /\ q.ev = v /\ q.op = w /\ q.call = p.call /\ q.handle = p.handle
    BY <2>1, <2>5, <2>6, <2>7 DEF PetitionRec
  <2>9. \A j \in 1 .. Len(v) : \E i \in 1 .. Len(p.ev) : v[j] = p.ev[i]
    BY <2>4, <2>5
  <2>10. \A j \in 1 .. Len(w) : \E i \in 1 .. Len(p.op) : w[j] = p.op[i]
    BY <2>4, <2>6
  <2>11. \A j \in 1 .. Len(w) : \E i \in 1 .. Len(p.op) : v[j] = p.ev[i]
    BY <2>2, <2>4, <2>5, <2>6
  <2>12. \A j \in 1 .. Len(w) : v[j] \in WithOpcode
    BY <2>1, <2>11 DEF Sound
  <2>13. Sound(q)
    <3>1. PICK a \in Wants : LeftOf(p, a)
      BY <2>1 DEF Sound
    <3>2. LeftOf(q, a)
      BY <2>8, <2>9, <2>10, <3>1 DEF LeftOf
    <3>3. p.call # 0 => p.handle = 0 /\ \A j \in 1 .. Len(v) : v[j] \notin OfServer
      BY <2>1, <2>9 DEF Sound
    <3>4. Len(w) <= Len(v)
      BY <2>4, <2>5, <2>6
    <3> QED
      BY <2>8, <2>12, <3>2, <3>3, <3>4 DEF Sound
  <2>14. ListOk([petitions EXCEPT ![k] = q], calls)
    BY <2>8, <2>13, PetitionShrinks
  <2> QED
    BY <2>1, <2>3, <2>14
<1> QED
  BY <1>1, <1>2

\* Without one it takes an event out that no opcode belongs to.
LEMMA ClearEventKeeps ==
    ASSUME NEW k \in 1 .. Len(petitions), NEW e, e \notin WithOpcode, ListOk(petitions, calls)
    PROVE  /\ ListOk(ClearEvent(k, e), calls)
           /\ Len(ClearEvent(k, e)) = Len(petitions)
<1> DEFINE p == petitions[k]
           fit == {i \in DOMAIN p.ev : p.ev[i] = e}
           n == Least(fit)
           q == [p EXCEPT !.ev = RemoveAt(@, n)]
<1>1. CASE fit = {}
  BY <1>1 DEF ClearEvent
<1>2. CASE fit # {}
  <2>1. petitions \in Seq(PetitionRec) /\ p \in PetitionRec /\ Sound(p)
        /\ p.ev \in Seq(EventName) /\ p.op \in Seq(OpName) /\ DOMAIN p.ev = 1 .. Len(p.ev)
    <3>1. petitions \in Seq(PetitionRec) /\ p \in PetitionRec
      BY ListTypes
    <3>2. p.ev \in Seq(EventName) /\ p.op \in Seq(OpName)
      BY <3>1, RecordTypes
    <3> QED
      BY <3>1, <3>2 DEF ListOk
  <2>2. n \in 1 .. Len(p.ev) /\ p.ev[n] = e
    <3>1. fit \in SUBSET Nat
      BY <2>1
    <3>2. n \in fit
      BY <1>2, <3>1, LeastIn
    <3> QED
      BY <2>1, <3>2
  <2>3. ClearEvent(k, e) = [petitions EXCEPT ![k] = q]
    BY <1>2, <2>1 DEF ClearEvent
  <2> HIDE DEF n
  <2> DEFINE v == RemoveAt(p.ev, n)
  <2>4. /\ Len(p.ev) \in Nat /\ Len(p.op) \in Nat /\ Len(p.op) <= Len(p.ev)
        /\ \A i \in 1 .. Len(p.op) : p.ev[i] \in WithOpcode
    BY <2>1 DEF Sound
  <2>5. /\ v \in Seq(EventName) /\ Len(v) = Len(p.ev) - 1
        /\ \A j \in 1 .. Len(v) : v[j] = IF j < n THEN p.ev[j] ELSE p.ev[j + 1]
    BY <2>1, <2>2, RemoveAtFacts
  <2>6. Len(p.op) < n
    BY <2>2, <2>4
  <2>7. q = [p EXCEPT !.ev = v]
    OBVIOUS
  <2> HIDE DEF v, q
  <2>8. /\ q \in PetitionRec /\ q.ev = v /\ q.op = p.op /\ q.call = p.call /\ q.handle = p.handle
    BY <2>1, <2>5, <2>7 DEF PetitionRec
  <2>9. \A j \in 1 .. Len(v) : \E i \in 1 .. Len(p.ev) : v[j] = p.ev[i]
    BY <2>2, <2>4, <2>5
  <2>10. Len(p.op) <= Len(v) /\ \A j \in 1 .. Len(p.op) : v[j] \in WithOpcode
    <3>1. Len(p.op) <= Len(v)
      BY <2>2, <2>4, <2>5, <2>6
    <3>2. \A j \in 1 .. Len(p.op) : j \in 1 .. Len(v) /\ j < n
      BY <2>2, <2>4, <2>5, <2>6
    <3>3. \A j \in 1 .. Len(p.op) : v[j] = p.ev[j]
      BY <2>5, <3>2
    <3> QED
      BY <2>4, <3>1, <3>3
  <2>11. Sound(q)
    <3>1. PICK a \in Wants : LeftOf(p, a)
      BY <2>1 DEF Sound
    <3>2. LeftOf(q, a)
      BY <2>8, <2>9, <3>1 DEF LeftOf
    <3>3. p.call # 0 => p.handle = 0 /\ \A j \in 1 .. Len(v) : v[j] \notin OfServer
      BY <2>1, <2>9 DEF Sound
    <3> QED
      BY <2>8, <2>10, <3>2, <3>3 DEF Sound
  <2>12. ListOk([petitions EXCEPT ![k] = q], calls)
    BY <2>8, <2>11, PetitionShrinks
  <2> QED
    BY <2>1, <2>3, <2>12
<1> QED
  BY <1>1, <1>2

----------------------------------------------------------------------------
\* Commands, events and the rest of the state

Cmd == [op : OpName, dev : Device, h : Handle0]
Todo == [cmd : Cmd, req : Nat, res : {"none", "ok", "fail", "exists"}]
Ev == [ev : EventName, op : OpName \cup {"none"}, dev : Device, h : Handle0,
       st : {"ok", "fail", "exists", "ext"}]

\* An authentication is requested on a connection; events about a device name
\* one.
SoundCmd(c) == c.op = "AUTH_REQUESTED" => c.h # 0
SoundEv(e) ==
    /\ e.ev \in {"CONN_REQUEST", "LINK_KEY_NOTIFY", "USER_CONFIRMATION_REQUEST"} => e.dev \in Devices
    /\ e.st = "ext" => e.ev = "RMT_FEATURES"

\* What the listener is about to issue: a step of the chain answers no caller.
TodoOk(t, ps) ==
    /\ t \in Todo /\ SoundCmd(t.cmd) /\ t.req <= Len(ps)
    /\ t.req # 0 /\ t.res = "none" => ps[t.req].call = 0
ListenerOk(l, ps) == l = <<>> \/ \E t \in Todo : l = <<t>> /\ TodoOk(t, ps)

StoreInv ==
    /\ conns \in [1 .. MaxConnections -> [active : BOOLEAN, handle : Handle0, dev : Device]]
    /\ keys \subseteq Devices /\ names \subseteq keys /\ dialogs \subseteq Devices

EventsInv == events \in Seq(Ev) /\ \A n \in 1 .. Len(events) : SoundEv(events[n])

ListInv == ListOk(petitions, calls) /\ ListenerOk(listener, petitions)

----------------------------------------------------------------------------
\* What a handler does

\* Somebody has asked to pair with d.
Wanted(d) ==
    \E c \in 1 .. Len(calls) :
        calls[c].dev = d /\ calls[c].kind \in {"Authenticate", "Reauthenticate"}

Replies == {"ACCEPT_CONN_REQ", "REJECT_CONN_REQ"}

\* The command t that the handler of e leaves to do: only a device that asks is
\* answered, and it is accepted when it has a key.
Follows(t, e) ==
    /\ t.cmd.op # "CREATE_CONN"
    /\ t.cmd.op = "ACCEPT_CONN_REQ" => e.dev \in keys
    /\ t.cmd.op \in Replies => e.ev = "CONN_REQUEST" /\ t.cmd.dev = e.dev

ListEffect ==
    /\ ListOk(petitions', calls')
    /\ \A d : Wanted(d) => Wanted(d)'

IssueEffect(e) ==
    listener' = <<>> \/ \E t \in Todo : listener' = <<t>> /\ TodoOk(t, petitions') /\ Follows(t, e)

HandlerEffect(e) ==
    /\ listener = <<>> /\ events # <<>> /\ e = Head(events) /\ events' = Tail(events)
    /\ UNCHANGED <<ctrl, outside>>
    /\ ListEffect /\ IssueEffect(e)
    /\ keys \subseteq keys' /\ keys' \subseteq Devices
    /\ names' \subseteq keys' /\ dialogs' \subseteq Devices
    /\ CASE e.ev = "DISCONNECTION_COMPLETE" -> conns' = Untrack(e.h)
         [] e.ev = "CONN_COMPLETE" -> conns' = conns \/ (e.st = "ok" /\ conns' = Track(e.h, e.dev))
         [] OTHER -> conns' = conns

LEMMA CommandType ==
    ASSUME NEW o \in OpName, NEW d \in Device, NEW h \in Handle0
    PROVE  /\ Command(o, d, h) \in Cmd /\ Command(o, d, h).op = o
           /\ Command(o, d, h).dev = d /\ Command(o, d, h).h = h
BY DEF Command, Cmd

LEMMA TodoType ==
    ASSUME NEW c \in Cmd, NEW r \in Nat, NEW s \in {"none", "ok", "fail", "exists"}
    PROVE  LET t == [cmd |-> c, req |-> r, res |-> s]
           IN  t \in Todo /\ t.cmd = c /\ t.req = r /\ t.res = s
BY DEF Todo

LEMMA EvType ==
    \A e \in Ev : /\ e.ev \in EventName /\ e.op \in OpName \cup {"none"} /\ e.dev \in Device
                  /\ e.h \in Handle0 /\ e.st \in {"ok", "fail", "exists", "ext"}
BY DEF Ev

LEMMA CmdType ==
    \A c \in Cmd : c.op \in OpName /\ c.dev \in Device /\ c.h \in Handle0
BY DEF Cmd

LEMMA HeadEvent ==
    ASSUME EventsInv, events # <<>>
    PROVE  Head(events) \in Ev /\ SoundEv(Head(events))
<1>1. events \in Seq(Ev) /\ Len(events) \in Nat /\ Len(events) # 0
  BY DEF EventsInv
<1>2. Head(events) = events[1] /\ 1 \in 1 .. Len(events)
  BY <1>1
<1> QED
  BY <1>1, <1>2 DEF EventsInv

\* A handler that issues a command
LEMMA Issues ==
    ASSUME NEW e, NEW o \in OpName, NEW d \in Device, NEW h \in Handle0,
           NEW k \in Nat, NEW s \in {"none", "ok", "fail", "exists"},
           Issue(Command(o, d, h), k, s),
           k <= Len(petitions'), k # 0 /\ s = "none" => petitions'[k].call = 0,
           o = "AUTH_REQUESTED" => h # 0,
           o # "CREATE_CONN", o = "ACCEPT_CONN_REQ" => e.dev \in keys,
           o \in Replies => e.ev = "CONN_REQUEST" /\ d = e.dev
    PROVE  IssueEffect(e)
<1> DEFINE c == Command(o, d, h)
           t == [cmd |-> c, req |-> k, res |-> s]
<1>1. c \in Cmd /\ c.op = o /\ c.dev = d /\ c.h = h
  BY CommandType
<1>2. listener' = <<t>>
  BY DEF Issue
<1> HIDE DEF c
<1>3. t \in Todo /\ t.cmd = c /\ t.req = k /\ t.res = s
  BY <1>1, TodoType
<1> HIDE DEF t
<1>4. TodoOk(t, petitions') /\ Follows(t, e)
  BY <1>1, <1>3 DEF TodoOk, SoundCmd, Follows
<1> QED
  BY <1>2, <1>3, <1>4 DEF IssueEffect

\* A handler that only touches the list
LEMMA SameCallers ==
    ASSUME UNCHANGED calls
    PROVE  \A d : Wanted(d) => Wanted(d)'
BY DEF Wanted

LEMMA ReplyFacts ==
    ASSUME NEW cs \in Seq(CallRec), NEW c \in 0 .. Len(cs), NEW s \in Result
    PROVE  /\ Reply(cs, c, s) \in Seq(CallRec) /\ Len(Reply(cs, c, s)) = Len(cs)
           /\ \A b \in 1 .. Len(cs) : /\ Reply(cs, c, s)[b].dev = cs[b].dev
                                      /\ Reply(cs, c, s)[b].kind = cs[b].kind
<1>1. CASE c # 0 /\ cs[c].res = "none"
  <2> DEFINE r == [cs[c] EXCEPT !.res = s]
             ds == [cs EXCEPT ![c] = r]
  <2>1. c \in 1 .. Len(cs) /\ cs[c] \in CallRec
    BY <1>1
  <2>2. r \in CallRec /\ r.kind = cs[c].kind /\ r.dev = cs[c].dev
    BY <2>1, CallUpdate
  <2>3. Reply(cs, c, s) = ds
    BY <1>1, <2>1 DEF Reply
  <2> HIDE DEF r
  <2>4. /\ ds \in Seq(CallRec) /\ Len(ds) = Len(cs)
        /\ \A b \in 1 .. Len(cs) : ds[b] = IF b = c THEN r ELSE cs[b]
    BY <2>1, <2>2, ExceptSeq
  <2> HIDE DEF ds
  <2> QED
    BY <2>2, <2>3, <2>4
<1>2. CASE ~(c # 0 /\ cs[c].res = "none")
  BY <1>2 DEF Reply
<1> QED
  BY <1>1, <1>2

LEMMA Answers ==
    ASSUME ListOk(petitions, calls), NEW k \in 0 .. Len(petitions),
           NEW s, s \in {"ok", "fail", "exists"}, Answer(k, s)
    PROVE  ListEffect
<1>1. CASE k = 0
  BY <1>1, SameCallers DEF Answer, ListEffect
<1>2. CASE k # 0
  <2> DEFINE c == petitions[k].call
  <2>1. k \in 1 .. Len(petitions) /\ calls \in Seq(CallRec) /\ c \in 0 .. Len(calls)
    BY <1>2, ListTypes
  <2>2. calls' = Reply(calls, c, s) /\ petitions' = RemoveAt(petitions, k)
    BY <1>2 DEF Answer, Replied, Reply
  <2>3. ListOk(petitions', calls')
    BY <2>1, <2>2, PetitionEnds
  <2> HIDE DEF c
  <2>4. /\ Len(calls') = Len(calls)
        /\ \A b \in 1 .. Len(calls) : calls'[b].dev = calls[b].dev /\ calls'[b].kind = calls[b].kind
    BY <2>1, <2>2, ReplyFacts DEF Result
  <2>5. \A d : Wanted(d) => Wanted(d)'
    BY <2>4 DEF Wanted
  <2> QED
    BY <2>3, <2>5 DEF ListEffect
<1> QED
  BY <1>1, <1>2

\* The server adds a petition.
LEMMA Adds ==
    ASSUME ListOk(petitions, calls), NEW w \in ServerWants, NEW d \in Device, NEW h \in Handle0,
           AddWantedEvent(Petition(w, 0, d, h)), UNCHANGED calls
    PROVE  /\ ListEffect /\ Len(petitions') = Len(petitions) + 1
           /\ \A i \in 1 .. Len(petitions) : petitions'[i] = petitions[i]
<1> DEFINE p == Petition(w, 0, d, h)
<1>1. p \in PetitionRec /\ Sound(p) /\ p.call = 0
  BY NewPetition DEF Wants
<1>2. petitions' = Append(petitions, p) /\ petitions \in Seq(PetitionRec)
  BY ListTypes DEF AddWantedEvent
<1> HIDE DEF p
<1>3. ListOk(Append(petitions, p), calls)
  BY <1>1, ServerAdds
<1>4. /\ Len(Append(petitions, p)) = Len(petitions) + 1
      /\ \A i \in 1 .. Len(petitions) : Append(petitions, p)[i] = petitions[i]
  BY <1>1, <1>2
<1> QED
  BY <1>2, <1>3, <1>4, SameCallers DEF ListEffect

----------------------------------------------------------------------------
\* The handlers, one by one

LEMMA TakeFacts ==
    ASSUME ListInv, EventsInv, NEW e, NEW k, Take(e, k)
    PROVE  /\ listener = <<>> /\ events # <<>> /\ e = Head(events) /\ events' = Tail(events)
           /\ UNCHANGED <<ctrl, outside>>
           /\ e \in Ev /\ SoundEv(e) /\ ListOk(petitions, calls)
           /\ k \in 0 .. Len(petitions)
           /\ k # 0 => /\ k \in 1 .. Len(petitions) /\ petitions[k] \in PetitionRec /\ Sound(petitions[k])
                       /\ \E i \in 1 .. Len(petitions[k].ev) : petitions[k].ev[i] = e.ev
<1>1. /\ listener = <<>> /\ events # <<>> /\ e = Head(events) /\ events' = Tail(events)
      /\ UNCHANGED <<ctrl, outside>> /\ k = FindPetition(e.ev, e.op)
  BY DEF Take
<1>2. e \in Ev /\ SoundEv(e)
  BY <1>1, HeadEvent
<1>3. ListOk(petitions, calls)
  BY DEF ListInv
<1>4. Len(petitions) \in Nat /\ \A i \in 1 .. Len(petitions) : petitions[i] \in PetitionRec
  BY <1>3, ListTypes
<1>5. CASE k = 0
  BY <1>1, <1>2, <1>3, <1>4, <1>5
<1>6. CASE k # 0
  <2>1. /\ k \in 1 .. Len(petitions)
        /\ \E i \in 1 .. Len(petitions[k].ev) : petitions[k].ev[i] = e.ev
    BY <1>1, <1>3, <1>6, FindFacts
  <2>2. petitions[k] \in PetitionRec /\ Sound(petitions[k])
    BY <1>3, <1>4, <2>1 DEF ListOk
  <2>3. k \in 0 .. Len(petitions)
    BY <1>4, <2>1
  <2> QED
    BY <1>1, <1>2, <1>3, <2>1, <2>2, <2>3
<1> QED
  BY <1>5, <1>6

\* What a handler keeps of the store when it does not touch it
LEMMA StoreStays ==
    ASSUME StoreInv, UNCHANGED <<keys, names, dialogs>>
    PROVE  keys \subseteq keys' /\ keys' \subseteq Devices /\ names' \subseteq keys' /\ dialogs' \subseteq Devices
BY DEF StoreInv

\* A handler that issues nothing, and one that touches neither list
LEMMA IssuesNothing ==
    ASSUME NEW e, listener = <<>>, UNCHANGED listener
    PROVE  IssueEffect(e)
BY DEF IssueEffect

LEMMA ListStays ==
    ASSUME ListOk(petitions, calls), UNCHANGED <<petitions, calls>>
    PROVE  ListEffect
<1>1. ListOk(petitions', calls')
  OBVIOUS
<1> QED
  BY <1>1, SameCallers DEF ListEffect

LEMMA CommandCompleteEffect ==
    ASSUME ListInv, StoreInv, EventsInv, NEW e, NEW k, CommandComplete(e, k)
    PROVE  HandlerEffect(e)
<1>1. Take(e, k) /\ e.ev = "CMD_COMPLETE" /\ UNCHANGED <<listener, conns, keys, names, dialogs>>
  BY DEF CommandComplete
<1>2. ListEffect
  <2>0. /\ ListOk(petitions, calls) /\ k \in 0 .. Len(petitions)
        /\ k # 0 => k \in 1 .. Len(petitions)
        /\ e.st \in {"ok", "fail", "exists"}
    BY <1>1, TakeFacts, EvType DEF SoundEv
  <2>1. CASE k # 0 /\ e.op \in {"LINK_KEY_REPLY", "LINK_KEY_NEG_REPLY"}
    <3>1. petitions' = ClearOpcode(k, "CMD_COMPLETE", e.op) /\ UNCHANGED calls
      BY <2>1 DEF CommandComplete
    <3>2. ListOk(petitions', calls')
      BY <2>0, <2>1, <3>1, ClearOpcodeKeeps
    <3> QED
      BY <3>1, <3>2, SameCallers DEF ListEffect
  <2>2. CASE ~(k # 0 /\ e.op \in {"LINK_KEY_REPLY", "LINK_KEY_NEG_REPLY"})
    <3>1. Answer(k, e.st)
      BY <2>2 DEF CommandComplete
    <3> QED
      BY <2>0, <3>1, Answers
  <2> QED
    BY <2>1, <2>2
<1> QED
  BY <1>1, <1>2, TakeFacts, StoreStays, IssuesNothing DEF HandlerEffect

LEMMA CommandStatusEffect ==
    ASSUME ListInv, StoreInv, EventsInv, NEW e, NEW k, CommandStatus(e, k)
    PROVE  HandlerEffect(e)
<1>1. Take(e, k) /\ e.ev = "CMD_STATUS" /\ UNCHANGED <<listener, conns, keys, names, dialogs>>
  BY DEF CommandStatus
<1>2. ListEffect
  <2>0. /\ ListOk(petitions, calls) /\ k \in 0 .. Len(petitions)
        /\ k # 0 => k \in 1 .. Len(petitions)
        /\ e.st \in {"ok", "fail", "exists"}
    BY <1>1, TakeFacts, EvType DEF SoundEv
  <2>1. \/ k # 0 /\ petitions' = ClearOpcode(k, "CMD_STATUS", e.op) /\ UNCHANGED calls
        \/ Answer(k, e.st)
        \/ UNCHANGED <<petitions, calls>>
    BY DEF CommandStatus
  <2>2. CASE k # 0 /\ petitions' = ClearOpcode(k, "CMD_STATUS", e.op) /\ UNCHANGED calls
    <3>1. ListOk(petitions', calls')
      BY <2>0, <2>2, ClearOpcodeKeeps
    <3> QED
      BY <2>2, <3>1, SameCallers DEF ListEffect
  <2>3. CASE Answer(k, e.st)
    BY <2>0, <2>3, Answers
  <2>4. CASE UNCHANGED <<petitions, calls>>
    BY <2>0, <2>4, ListStays
  <2> QED
    BY <2>1, <2>2, <2>3, <2>4
<1> QED
  BY <1>1, <1>2, TakeFacts, StoreStays, IssuesNothing DEF HandlerEffect

LEMMA AnswerEventEffect ==
    ASSUME ListInv, StoreInv, EventsInv, NEW e, NEW k, AnswerEvent(e, k)
    PROVE  HandlerEffect(e)
<1>1. /\ Take(e, k) /\ e.ev \in {"INQUIRY_RESULT", "INQUIRY_COMPLETE", "ENCRYPT_CHANGE"}
      /\ UNCHANGED <<listener, conns, keys, names, dialogs>>
      /\ UNCHANGED <<petitions, calls>> \/ Answer(k, e.st)
  BY DEF AnswerEvent
<1>2. ListOk(petitions, calls) /\ k \in 0 .. Len(petitions) /\ e.st \in {"ok", "fail", "exists"}
  BY <1>1, TakeFacts, EvType DEF SoundEv
<1>3. ListEffect
  BY <1>1, <1>2, ListStays, Answers
<1> QED
  BY <1>1, <1>3, TakeFacts, StoreStays, IssuesNothing DEF HandlerEffect

LEMMA DisconnectionCompleteEffect ==
    ASSUME ListInv, StoreInv, EventsInv, NEW e, NEW k, DisconnectionComplete(e, k)
    PROVE  HandlerEffect(e)
<1>1. /\ Take(e, k) /\ e.ev = "DISCONNECTION_COMPLETE"
      /\ UNCHANGED <<listener, keys, names, dialogs>>
      /\ conns' = Untrack(e.h) /\ Answer(k, e.st)
  BY DEF DisconnectionComplete
<1>2. ListOk(petitions, calls) /\ k \in 0 .. Len(petitions) /\ e.st \in {"ok", "fail", "exists"}
  BY <1>1, TakeFacts, EvType DEF SoundEv
<1>3. ListEffect
  BY <1>1, <1>2, Answers
<1> QED
  BY <1>1, <1>3, TakeFacts, StoreStays, IssuesNothing DEF HandlerEffect

LEMMA UserConfirmationRequestEffect ==
    ASSUME ListInv, StoreInv, EventsInv, NEW e, NEW k, UserConfirmationRequest(e, k)
    PROVE  HandlerEffect(e)
<1>1. /\ Take(e, k) /\ e.ev = "USER_CONFIRMATION_REQUEST"
      /\ UNCHANGED <<petitions, calls, listener, conns, keys, names>>
      /\ dialogs' = dialogs \cup {e.dev}
  BY DEF UserConfirmationRequest
<1>2. ListOk(petitions, calls) /\ e.dev \in Devices
  BY <1>1, TakeFacts DEF SoundEv
<1>3. keys \subseteq keys' /\ keys' \subseteq Devices /\ names' \subseteq keys' /\ dialogs' \subseteq Devices
  BY <1>1, <1>2 DEF StoreInv
<1>4. ListEffect
  BY <1>1, <1>2, ListStays
<1> QED
  BY <1>1, <1>3, <1>4, TakeFacts, IssuesNothing DEF HandlerEffect

LEMMA SimplePairingCompleteEffect ==
    ASSUME ListInv, StoreInv, EventsInv, NEW e, NEW k, SimplePairingComplete(e, k)
    PROVE  HandlerEffect(e)
<1>1. /\ Take(e, k) /\ e.ev = "SIMPLE_PAIRING_COMPLETE"
      /\ UNCHANGED <<calls, listener, conns, keys, names, dialogs>>
      /\ petitions' = IF k = 0 THEN petitions ELSE ClearEvent(k, e.ev)
  BY DEF SimplePairingComplete
<1>2. ListOk(petitions, calls) /\ (k # 0 => k \in 1 .. Len(petitions))
  BY <1>1, TakeFacts
<1>3. ListOk(petitions', calls')
  <2>1. e.ev \notin WithOpcode
    BY <1>1 DEF WithOpcode
  <2>2. CASE k # 0
    BY <1>1, <1>2, <2>1, <2>2, ClearEventKeeps
  <2>3. CASE k = 0
    BY <1>1, <1>2, <2>3, ListStays DEF ListEffect
  <2> QED
    BY <2>2, <2>3
<1>4. ListEffect
  BY <1>1, <1>3, SameCallers DEF ListEffect
<1> QED
  BY <1>1, <1>4, TakeFacts, StoreStays, IssuesNothing DEF HandlerEffect

LEMMA ConnectionRequestEffect ==
    ASSUME ListInv, StoreInv, EventsInv, NEW e, NEW k, ConnectionRequest(e, k)
    PROVE  HandlerEffect(e)
<1>1. /\ Take(e, k) /\ e.ev = "CONN_REQUEST"
      /\ UNCHANGED <<calls, conns, keys, names, dialogs>>
  BY DEF ConnectionRequest
<1>2. ListOk(petitions, calls) /\ e.dev \in Device /\ Len(petitions) \in Nat /\ 0 \in Handle0
  BY <1>1, TakeFacts, EvType, ListTypes DEF Handle0
<1>3. k = 0
  BY <1>1, TakeFacts, NobodyExpects
<1>4. ListEffect /\ IssueEffect(e)
  <2>1. CASE e.dev \in keys
    <3>1. /\ AddWantedEvent(Petition(Accepting, 0, NoDevice, 0))
          /\ Issue(Command("ACCEPT_CONN_REQ", e.dev, 0), 0, "none")
      BY <2>1 DEF ConnectionRequest
    <3>2. ListEffect /\ Len(petitions') = Len(petitions) + 1
      BY <1>1, <1>2, <3>1, Adds DEF ServerWants, Device
    <3>3. 0 <= Len(petitions')
      BY <1>2, <3>2
    <3>4. IssueEffect(e)
      BY <1>1, <1>2, <2>1, <3>1, <3>3, Issues DEF OpName, Replies
    <3> QED
      BY <3>2, <3>4
  <2>2. CASE e.dev \notin keys
    <3>1. /\ Issue(Command("REJECT_CONN_REQ", e.dev, 0), 0, "none")
          /\ UNCHANGED petitions
      BY <1>3, <2>2 DEF ConnectionRequest
    <3>2. ListEffect
      BY <1>1, <1>2, <3>1, ListStays
    <3>3. 0 <= Len(petitions')
      BY <1>2, <3>1
    <3>4. IssueEffect(e)
      BY <1>1, <1>2, <3>1, <3>3, Issues DEF OpName, Replies
    <3> QED
      BY <3>2, <3>4
  <2> QED
    BY <2>1, <2>2
<1> QED
  BY <1>1, <1>4, TakeFacts, StoreStays DEF HandlerEffect

LEMMA ConnectionCompleteEffect ==
    ASSUME ListInv, StoreInv, EventsInv, NEW e, NEW k, ConnectionComplete(e, k)
    PROVE  HandlerEffect(e)
<1>1. /\ Take(e, k) /\ e.ev = "CONN_COMPLETE" /\ UNCHANGED <<keys, names, dialogs>>
  BY DEF ConnectionComplete
<1>2. /\ ListOk(petitions, calls) /\ Len(petitions) \in Nat /\ k \in 0 .. Len(petitions)
      /\ (k # 0 => k \in 1 .. Len(petitions))
      /\ e.dev \in Device /\ e.h \in Handle0 /\ e.st \in {"ok", "fail", "exists"}
  BY <1>1, TakeFacts, EvType, ListTypes DEF SoundEv
<1>3. CASE k # 0 /\ e.st = "ok"
  <2>1. /\ conns' = Track(e.h, e.dev) /\ UNCHANGED calls
        /\ AddWantedEvent(Petition(FeatureReading, 0, e.dev, e.h))
        /\ Issue(Command("READ_REMOTE_FEATURES", NoDevice, e.h), k, "ok")
    BY <1>3 DEF ConnectionComplete
  <2>2. ListEffect /\ Len(petitions') = Len(petitions) + 1
    BY <1>2, <2>1, Adds DEF ServerWants
  <2>3. k <= Len(petitions') /\ k \in Nat
    BY <1>2, <2>2
  <2>4. IssueEffect(e)
    BY <1>1, <1>2, <2>1, <2>3, Issues DEF OpName, Replies, Device
  <2> QED
    BY <1>1, <1>3, <2>1, <2>2, <2>4, TakeFacts, StoreStays DEF HandlerEffect
<1>4. CASE ~(k # 0 /\ e.st = "ok")
  <2>1. Answer(k, e.st) /\ UNCHANGED <<conns, listener>>
    BY <1>4 DEF ConnectionComplete
  <2>2. ListEffect
    BY <1>2, <2>1, Answers
  <2> QED
    BY <1>1, <2>1, <2>2, TakeFacts, StoreStays, IssuesNothing DEF HandlerEffect
<1> QED
  BY <1>3, <1>4

\* IssueRemoteNameThenAuth(), of a petition of the chain
LEMMA NameThenAuth ==
    ASSUME ListOk(petitions, calls), NEW k \in 1 .. Len(petitions), petitions[k].call = 0,
           NEW e, IssueRemoteNameThenAuth(petitions[k].dev, petitions[k].handle, k), UNCHANGED calls
    PROVE  ListEffect /\ IssueEffect(e)
<1> DEFINE d == petitions[k].dev
           h == petitions[k].handle
<1>1. Len(petitions) \in Nat /\ d \in Device /\ h \in Handle0 /\ 0 \in Handle0
  BY ListTypes, RecordTypes DEF Handle0
<1>2. /\ AddWantedEvent(Petition(NameReading, 0, d, h))
      /\ Issue(Command("REMOTE_NAME_REQUEST", d, 0), k, "none")
  BY DEF IssueRemoteNameThenAuth
<1> HIDE DEF d, h
<1>3. ListEffect /\ Len(petitions') = Len(petitions) + 1 /\ petitions'[k] = petitions[k]
  BY <1>1, <1>2, Adds DEF ServerWants
<1>4. k <= Len(petitions') /\ k \in Nat /\ petitions'[k].call = 0
  BY <1>1, <1>3
<1>5. IssueEffect(e)
  BY <1>1, <1>2, <1>4, Issues DEF OpName, Replies
<1> QED
  BY <1>3, <1>5

LEMMA FeaturesCompleteEffect ==
    ASSUME ListInv, StoreInv, EventsInv, NEW e, NEW k, FeaturesComplete(e, k)
    PROVE  HandlerEffect(e)
<1>1. /\ Take(e, k) /\ e.ev = "RMT_FEATURES" /\ UNCHANGED <<calls, conns, keys, names, dialogs>>
  BY DEF FeaturesComplete
<1>2. /\ ListOk(petitions, calls) /\ Len(petitions) \in Nat /\ listener = <<>>
      /\ k # 0 => k \in 1 .. Len(petitions) /\ petitions[k] \in PetitionRec
  BY <1>1, TakeFacts, ListTypes
<1>3. ListEffect /\ IssueEffect(e)
  <2>1. CASE k = 0
    <3>1. UNCHANGED <<petitions, listener>>
      BY <2>1 DEF FeaturesComplete
    <3> QED
      BY <1>1, <1>2, <3>1, ListStays, IssuesNothing
  <2>2. CASE k # 0
    <3> DEFINE p == petitions[k]
    <3>1. p.call = 0
      BY <1>1, <2>2, TakeFacts DEF Sound, OfServer
    <3>2. CASE e.st = "ext"
      <4>1. /\ AddWantedEvent(Petition(ExtFeatureReading, 0, p.dev, p.handle))
            /\ Issue(Command("READ_REMOTE_EXT_FEATURES", NoDevice, p.handle), k, "none")
        BY <2>2, <3>2 DEF FeaturesComplete
      <4>2. p.dev \in Device /\ p.handle \in Handle0
        BY <1>2, <2>2, RecordTypes
      <4>3. ListEffect /\ Len(petitions') = Len(petitions) + 1 /\ petitions'[k] = petitions[k]
        BY <1>1, <1>2, <2>2, <4>1, <4>2, Adds DEF ServerWants
      <4>4. k <= Len(petitions') /\ k \in Nat /\ petitions'[k].call = 0
        BY <1>2, <2>2, <3>1, <4>3
      <4> HIDE DEF p
      <4>5. IssueEffect(e)
        BY <4>1, <4>2, <4>4, Issues DEF OpName, Replies, Device
      <4> QED
        BY <4>3, <4>5
    <3>3. CASE e.st # "ext"
      <4>1. IssueRemoteNameThenAuth(p.dev, p.handle, k)
        BY <2>2, <3>3 DEF FeaturesComplete
      <4> QED
        BY <1>1, <1>2, <2>2, <3>1, <4>1, NameThenAuth
    <3> QED
      BY <3>2, <3>3
  <2> QED
    BY <2>1, <2>2
<1> QED
  BY <1>1, <1>3, TakeFacts, StoreStays DEF HandlerEffect

LEMMA ExtFeaturesCompleteEffect ==
    ASSUME ListInv, StoreInv, EventsInv, NEW e, NEW k, ExtFeaturesComplete(e, k)
    PROVE  HandlerEffect(e)
<1>1. /\ Take(e, k) /\ e.ev = "EXT_FEATURES" /\ UNCHANGED <<calls, conns, keys, names, dialogs>>
  BY DEF ExtFeaturesComplete
<1>2. /\ ListOk(petitions, calls) /\ listener = <<>>
      /\ k # 0 => k \in 1 .. Len(petitions)
  BY <1>1, TakeFacts
<1>3. ListEffect /\ IssueEffect(e)
  <2>1. CASE k = 0
    <3>1. UNCHANGED <<petitions, listener>>
      BY <2>1 DEF ExtFeaturesComplete
    <3> QED
      BY <1>1, <1>2, <3>1, ListStays, IssuesNothing
  <2>2. CASE k # 0
    <3>1. petitions[k].call = 0
      BY <1>1, <2>2, TakeFacts DEF Sound, OfServer
    <3>2. IssueRemoteNameThenAuth(petitions[k].dev, petitions[k].handle, k)
      BY <2>2 DEF ExtFeaturesComplete
    <3> QED
      BY <1>1, <1>2, <2>2, <3>1, <3>2, NameThenAuth
  <2> QED
    BY <2>1, <2>2
<1> QED
  BY <1>1, <1>3, TakeFacts, StoreStays DEF HandlerEffect

LEMMA RemoteNameRequestCompleteEffect ==
    ASSUME ListInv, StoreInv, EventsInv, NEW e, NEW k, RemoteNameRequestComplete(e, k)
    PROVE  HandlerEffect(e)
<1>1. /\ Take(e, k) /\ e.ev = "NAME_COMPLETE" /\ UNCHANGED <<conns, keys, dialogs>>
      /\ names' = Named(e, k)
  BY DEF RemoteNameRequestComplete
<1>2. /\ ListOk(petitions, calls) /\ petitions \in Seq(PetitionRec) /\ k \in 0 .. Len(petitions)
      /\ (k # 0 => k \in 1 .. Len(petitions) /\ petitions[k] \in PetitionRec /\ Sound(petitions[k]))
      /\ e.st \in {"ok", "fail", "exists"} /\ listener = <<>>
  BY <1>1, TakeFacts, EvType, ListTypes DEF SoundEv
<1>3. keys \subseteq keys' /\ keys' \subseteq Devices /\ names' \subseteq keys' /\ dialogs' \subseteq Devices
  BY <1>1 DEF StoreInv, Named
<1>4. ListEffect /\ IssueEffect(e)
  <2>1. CASE k # 0 /\ petitions[k].handle # 0
    <3> DEFINE h == petitions[k].handle
               p == Petition(Authenticating, 0, NoDevice, 0)
               qs == RemoveAt(petitions, k)
    <3>1. petitions' = Append(qs, p) /\ UNCHANGED calls
          /\ Issue(Command("AUTH_REQUESTED", NoDevice, h), 0, "none")
      BY <2>1 DEF RemoteNameRequestComplete
    <3>2. k \in 1 .. Len(petitions) /\ petitions[k].call = 0 /\ h \in Handle0 /\ h # 0
          /\ NoDevice \in Device /\ 0 \in Handle0
      BY <1>2, <2>1, RecordTypes DEF Sound, Device, Handle0
    <3>3. p \in PetitionRec /\ Sound(p) /\ p.call = 0
      <4>1. Authenticating \in Wants
        BY DEF Wants, ServerWants
      <4> QED
        BY <3>2, <4>1, NewPetition
    <3> HIDE DEF p, h
    <3>4. ListOk(qs, calls) /\ Len(qs) \in Nat /\ qs \in Seq(PetitionRec)
      <4>1. ListOk(qs, Reply(calls, petitions[k].call, "ok"))
        BY <1>2, <3>2, PetitionEnds
      <4>2. Reply(calls, petitions[k].call, "ok") = calls
        BY <3>2 DEF Reply
      <4> QED
        BY <4>1, <4>2, ListTypes
    <3> HIDE DEF qs
    <3>5. ListOk(Append(qs, p), calls)
      BY <3>3, <3>4, ServerAdds
    <3>6. ListEffect
      BY <3>1, <3>5, SameCallers DEF ListEffect
    <3>7. Len(petitions') = Len(qs) + 1
      BY <3>1, <3>3, <3>4
    <3>8. 0 <= Len(petitions')
      BY <3>4, <3>7
    <3>9. IssueEffect(e)
      BY <3>1, <3>2, <3>8, Issues DEF OpName, Replies
    <3> QED
      BY <3>6, <3>9
  <2>2. CASE ~(k # 0 /\ petitions[k].handle # 0)
    <3>1. Answer(k, e.st) /\ UNCHANGED listener
      BY <2>2 DEF RemoteNameRequestComplete
    <3> QED
      BY <1>2, <3>1, Answers, IssuesNothing
  <2> QED
    BY <2>1, <2>2
<1> QED
  BY <1>1, <1>3, <1>4, TakeFacts DEF HandlerEffect

LEMMA AuthCompleteEffect ==
    ASSUME ListInv, StoreInv, EventsInv, NEW e, NEW k, AuthComplete(e, k)
    PROVE  HandlerEffect(e)
<1>1. /\ Take(e, k) /\ e.ev = "AUTH_COMPLETE" /\ UNCHANGED <<conns, keys, names, dialogs>>
  BY DEF AuthComplete
<1>2. /\ ListOk(petitions, calls) /\ Len(petitions) \in Nat /\ k \in 0 .. Len(petitions)
      /\ e.h \in Handle0 /\ e.st \in {"ok", "fail", "exists"} /\ listener = <<>>
      /\ NoDevice \in Device /\ 0 \in Handle0
  BY <1>1, TakeFacts, EvType, ListTypes DEF SoundEv, Device, Handle0
<1>3. ListEffect /\ IssueEffect(e)
  <2>1. CASE e.st = "ok"
    <3>1. /\ AddWantedEvent(Petition(Encrypting, 0, NoDevice, 0)) /\ UNCHANGED calls
          /\ Issue(Command("SET_CONN_ENCRYPT", NoDevice, e.h), k, "ok")
      BY <2>1 DEF AuthComplete
    <3>2. ListEffect /\ Len(petitions') = Len(petitions) + 1
      BY <1>2, <3>1, Adds DEF ServerWants
    <3>3. k <= Len(petitions') /\ k \in Nat
      BY <1>2, <3>2
    <3>4. IssueEffect(e)
      BY <1>2, <3>1, <3>3, Issues DEF OpName, Replies
    <3> QED
      BY <3>2, <3>4
  <2>2. CASE e.st # "ok"
    <3>1. Answer(k, e.st) /\ UNCHANGED listener
      BY <2>2 DEF AuthComplete
    <3> QED
      BY <1>2, <3>1, Answers, IssuesNothing
  <2> QED
    BY <2>1, <2>2
<1> QED
  BY <1>1, <1>3, TakeFacts, StoreStays DEF HandlerEffect

LEMMA LinkKeyRequestedEffect ==
    ASSUME ListInv, StoreInv, EventsInv, NEW e, NEW k, LinkKeyRequested(e, k)
    PROVE  HandlerEffect(e)
<1> DEFINE o == IF e.dev \in keys THEN "LINK_KEY_REPLY" ELSE "LINK_KEY_NEG_REPLY"
<1>1. /\ Take(e, k) /\ e.ev = "LINK_KEY_REQ" /\ UNCHANGED <<calls, conns, keys, names, dialogs>>
      /\ Issue(Command(o, e.dev, 0), 0, "none")
      /\ petitions' = IF k = 0 THEN petitions ELSE ClearEvent(k, e.ev)
  BY DEF LinkKeyRequested
<1>2. /\ ListOk(petitions, calls) /\ Len(petitions) \in Nat
      /\ (k # 0 => k \in 1 .. Len(petitions))
      /\ e.dev \in Device /\ 0 \in Handle0
  BY <1>1, TakeFacts, EvType, ListTypes DEF Handle0
<1>3. ListOk(petitions', calls') /\ Len(petitions') = Len(petitions)
  <2>1. e.ev \notin WithOpcode
    BY <1>1 DEF WithOpcode
  <2>2. CASE k # 0
    BY <1>1, <1>2, <2>1, <2>2, ClearEventKeeps
  <2>3. CASE k = 0
    BY <1>1, <1>2, <2>3, ListStays DEF ListEffect
  <2> QED
    BY <2>2, <2>3
<1>4. ListEffect
  BY <1>1, <1>3, SameCallers DEF ListEffect
<1>5. o \in OpName /\ o \notin {"AUTH_REQUESTED", "CREATE_CONN", "ACCEPT_CONN_REQ", "REJECT_CONN_REQ"}
  BY DEF OpName
<1>6. 0 <= Len(petitions')
  BY <1>2, <1>3
<1> HIDE DEF o
<1>7. IssueEffect(e)
  BY <1>1, <1>2, <1>5, <1>6, Issues DEF Replies
<1> QED
  BY <1>1, <1>4, <1>7, TakeFacts, StoreStays DEF HandlerEffect

LEMMA LinkKeyNotifyEffect ==
    ASSUME ListInv, StoreInv, EventsInv, NEW e, NEW k, LinkKeyNotify(e, k)
    PROVE  HandlerEffect(e)
<1>1. /\ Take(e, k) /\ e.ev = "LINK_KEY_NOTIFY" /\ UNCHANGED <<calls, conns, names, dialogs>>
      /\ keys' = keys \cup {e.dev}
      /\ AddWantedEvent(Petition(NameKeeping, 0, NoDevice, 0))
      /\ Issue(Command("REMOTE_NAME_REQUEST", e.dev, 0), 0, "none")
  BY DEF LinkKeyNotify
<1>2. /\ ListOk(petitions, calls) /\ Len(petitions) \in Nat
      /\ e.dev \in Devices /\ e.dev \in Device /\ NoDevice \in Device /\ 0 \in Handle0
  BY <1>1, TakeFacts, EvType, ListTypes DEF SoundEv, Device, Handle0
<1>3. keys \subseteq keys' /\ keys' \subseteq Devices /\ names' \subseteq keys' /\ dialogs' \subseteq Devices
  BY <1>1, <1>2 DEF StoreInv
<1>4. ListEffect /\ Len(petitions') = Len(petitions) + 1
  BY <1>1, <1>2, Adds DEF ServerWants
<1>5. 0 <= Len(petitions')
  BY <1>2, <1>4
<1>6. IssueEffect(e)
  BY <1>1, <1>2, <1>5, Issues DEF OpName, Replies
<1> QED
  BY <1>1, <1>3, <1>4, <1>6, TakeFacts DEF HandlerEffect

LEMMA IoCapabilityRequestEffect ==
    ASSUME ListInv, StoreInv, EventsInv, NEW e, NEW k, IoCapabilityRequest(e, k)
    PROVE  HandlerEffect(e)
<1>1. /\ Take(e, k) /\ e.ev = "IO_CAPABILITY_REQUEST"
      /\ UNCHANGED <<calls, conns, keys, names, dialogs>>
      /\ AddWantedEvent(Petition(IoReplying, 0, NoDevice, 0))
      /\ Issue(Command("IO_CAPABILITY_REPLY", e.dev, 0), 0, "none")
  BY DEF IoCapabilityRequest
<1>2. /\ ListOk(petitions, calls) /\ Len(petitions) \in Nat
      /\ e.dev \in Device /\ NoDevice \in Device /\ 0 \in Handle0
  BY <1>1, TakeFacts, EvType, ListTypes DEF Device, Handle0
<1>3. ListEffect /\ Len(petitions') = Len(petitions) + 1
  BY <1>1, <1>2, Adds DEF ServerWants
<1>4. 0 <= Len(petitions')
  BY <1>2, <1>3
<1>5. IssueEffect(e)
  BY <1>1, <1>2, <1>4, Issues DEF OpName, Replies
<1> QED
  BY <1>1, <1>3, <1>5, TakeFacts, StoreStays DEF HandlerEffect

\* Whatever handler it is
LEMMA HandlersDo ==
    ASSUME ListInv, StoreInv, EventsInv, NEW e, NEW k, Handle1(e, k)
    PROVE  HandlerEffect(e)
BY CommandCompleteEffect, CommandStatusEffect, AnswerEventEffect, ConnectionRequestEffect,
   ConnectionCompleteEffect, DisconnectionCompleteEffect, FeaturesCompleteEffect,
   ExtFeaturesCompleteEffect, RemoteNameRequestCompleteEffect, AuthCompleteEffect,
   LinkKeyRequestedEffect, LinkKeyNotifyEffect, IoCapabilityRequestEffect,
   UserConfirmationRequestEffect, SimplePairingCompleteEffect, Zenon DEF Handle1

----------------------------------------------------------------------------
\* The controller, and what is on its way to and from it

ActKind == AuthStages \cup LinkActs \cup {"NAME_COMPLETE", "INQUIRY_COMPLETE"}
ActRec == [kind : ActKind, dev : Device, h : Handle0]
LinkState == {"down", "paging", "accepted", "rejected", "asking", "up", "closing"}
LinkRec == [st : LinkState, h : Handle0, asked : BOOLEAN]
CtrlRec == [cmds : Seq(Cmd), acts : SUBSET ActRec, link : [Devices -> LinkRec],
            on : BOOLEAN, refused : SUBSET OpName]

SoundAct(a) == a.kind \in AuthStages => a.dev \in Devices
HasHandle == {"up", "closing"}

\* Handles are those of connections, one each.
CtrlInv ==
    /\ ctrl \in CtrlRec
    /\ \A n \in 1 .. Len(ctrl.cmds) : SoundCmd(ctrl.cmds[n])
    /\ \A a \in ctrl.acts : SoundAct(a)
    /\ \A d \in Devices : ctrl.link[d].h # 0 <=> ctrl.link[d].st \in HasHandle
    /\ \A d, f \in Devices : ctrl.link[d].h # 0 /\ ctrl.link[d].h = ctrl.link[f].h => d = f

\* A request of device d to connect, in one of the places where it waits for an
\* answer: as an event, or as the answer about to be issued or on its way.
RequestAt(n, d) == events[n].ev = "CONN_REQUEST" /\ events[n].dev = d
Reply1(c, d) == c.op \in Replies /\ c.dev = d
AnsweredNext(d) == listener # <<>> /\ Reply1(listener[1].cmd, d)

\* A device whose request is under way is asking, and it has asked once.
AskInv ==
    ctrl.on => \A d \in Device :
        /\ \A n \in 1 .. Len(events) : RequestAt(n, d) =>
              /\ d \in Devices /\ ctrl.link[d].st = "asking"
              /\ ~AnsweredNext(d)
              /\ \A m \in 1 .. Len(events) : RequestAt(m, d) => m = n
              /\ \A m \in 1 .. Len(ctrl.cmds) : ~Reply1(ctrl.cmds[m], d)
        /\ AnsweredNext(d) =>
              /\ d \in Devices /\ ctrl.link[d].st = "asking"
              /\ \A m \in 1 .. Len(ctrl.cmds) : ~Reply1(ctrl.cmds[m], d)
        /\ \A n \in 1 .. Len(ctrl.cmds) : Reply1(ctrl.cmds[n], d) =>
              /\ d \in Devices /\ ctrl.link[d].st = "asking"
              /\ \A m \in 1 .. Len(ctrl.cmds) : Reply1(ctrl.cmds[m], d) => m = n

\* A connection is made for a client that has asked to pair, or with a device
\* that has a key.
Grounded(c) ==
    /\ c.op = "CREATE_CONN" => Wanted(c.dev)
    /\ c.op = "ACCEPT_CONN_REQ" => c.dev \in keys
WantInv ==
    /\ \A n \in 1 .. Len(ctrl.cmds) : Grounded(ctrl.cmds[n])
    /\ listener # <<>> => Grounded(listener[1].cmd)
    /\ \A d \in Devices : ctrl.link[d].st \in {"paging", "accepted", "up"} => d \in keys \/ Wanted(d)

\* Events that begin and end a connection, in the order in which the controller
\* sent them: a handle is used again only when the end of its connection is
\* sent, so the table has each handle once when the beginning is handled.
Ends(es, h, n) == es[n].ev = "DISCONNECTION_COMPLETE" /\ es[n].h = h
Begins(es, n) == es[n].ev = "CONN_COMPLETE" /\ es[n].st = "ok"
EndBetween(es, h, a, b) == \E m \in a .. b : Ends(es, h, m)
IsUp(links, d, h) == d \in Devices /\ links[d].st \in HasHandle /\ links[d].h = h

Slot == 1 .. MaxConnections
Orderly(table, es, links, n) ==
    /\ IsUp(links, es[n].dev, es[n].h) \/ EndBetween(es, es[n].h, n + 1, Len(es))
    /\ \A i \in Slot : table[i].active /\ table[i].handle = es[n].h =>
          EndBetween(es, es[n].h, 1, n - 1)
    /\ \A k \in 1 .. n - 1 : Begins(es, k) /\ es[k].h = es[n].h =>
          EndBetween(es, es[n].h, k + 1, n - 1)
TrackOk(table, es, links) ==
    /\ \A i, j \in Slot :
          table[i].active /\ table[j].active /\ table[i].handle = table[j].handle => i = j
    /\ \A i \in Slot : table[i].active =>
          IsUp(links, table[i].dev, table[i].handle) \/ EndBetween(es, table[i].handle, 1, Len(es))
    /\ \A n \in 1 .. Len(es) : Begins(es, n) => Orderly(table, es, links, n)
TrackInv == ctrl.on => TrackOk(conns, events, ctrl.link)

IInv ==
    /\ ListInv /\ StoreInv /\ EventsInv /\ CtrlInv
    /\ AskInv /\ WantInv /\ TrackInv

----------------------------------------------------------------------------
\* What a handler keeps

LEMMA TailEvents ==
    ASSUME EventsInv, events # <<>>, events' = Tail(events)
    PROVE  /\ Len(events) \in Nat /\ Len(events) >= 1 /\ Head(events) = events[1]
           /\ events' \in Seq(Ev) /\ Len(events') = Len(events) - 1
           /\ \A n \in 1 .. Len(events') : n + 1 \in 1 .. Len(events) /\ events'[n] = events[n + 1]
<1>1. events \in Seq(Ev)
  BY DEF EventsInv
<1>2. Len(events) \in Nat /\ Len(events) >= 1 /\ Head(events) = events[1]
  BY <1>1
<1>3. events' \in Seq(Ev) /\ Len(events') = Len(events) - 1
  BY <1>1
<1>4. \A n \in 1 .. Len(events) - 1 : Tail(events)[n] = events[n + 1]
  BY <1>1
<1> QED
  BY <1>2, <1>3, <1>4

SlotRec == [active : BOOLEAN, handle : Handle0, dev : Device]

\* _UntrackConnection() frees the slot of a handle, if there is one.
LEMMA UntrackFacts ==
    ASSUME StoreInv, NEW h
    PROVE  /\ Untrack(h) \in [Slot -> SlotRec]
           /\ \/ /\ Untrack(h) = conns
                 /\ \A i \in Slot : ~(conns[i].active /\ conns[i].handle = h)
              \/ \E s \in Slot : /\ conns[s].active /\ conns[s].handle = h
                                 /\ ~Untrack(h)[s].active
                                 /\ \A i \in Slot : i # s => Untrack(h)[i] = conns[i]
<1> DEFINE fit == {i \in DOMAIN conns : conns[i].active /\ conns[i].handle = h}
<1>1. conns \in [Slot -> SlotRec] /\ DOMAIN conns = Slot
  BY DEF StoreInv, Slot, SlotRec
<1>2. CASE fit = {}
  <2>1. Untrack(h) = conns
    BY <1>2 DEF Untrack
  <2>2. \A i \in Slot : ~(conns[i].active /\ conns[i].handle = h)
    BY <1>1, <1>2
  <2> QED
    BY <1>1, <2>1, <2>2
<1>3. CASE fit # {}
  <2> DEFINE s == Least(fit)
             c == [conns[s] EXCEPT !.active = FALSE]
  <2>1. s \in fit
    <3>1. fit \in SUBSET Nat
      BY <1>1 DEF Slot
    <3> QED
      BY <1>3, <3>1, LeastIn
  <2>2. s \in Slot /\ conns[s].active /\ conns[s].handle = h
    BY <1>1, <2>1
  <2>3. Untrack(h) = [conns EXCEPT ![s] = c]
    BY <1>3 DEF Untrack
  <2> HIDE DEF fit, s
  <2>4. conns[s] \in SlotRec
    BY <1>1, <2>2
  <2>5. c \in SlotRec /\ ~c.active
    BY <2>4 DEF SlotRec
  <2> HIDE DEF c
  <2>6. /\ [conns EXCEPT ![s] = c] \in [Slot -> SlotRec]
        /\ \A i \in Slot : [conns EXCEPT ![s] = c][i] = IF i = s THEN c ELSE conns[i]
    BY <1>1, <2>5
  <2> QED
    BY <2>2, <2>3, <2>5, <2>6
<1> QED
  BY <1>2, <1>3

\* _TrackConnection() takes a free slot, if there is one.
LEMMA TrackFacts ==
    ASSUME StoreInv, NEW h \in Handle0, NEW d \in Device
    PROVE  /\ Track(h, d) \in [Slot -> SlotRec]
           /\ \/ Track(h, d) = conns
              \/ \E s \in Slot : /\ ~conns[s].active
                                 /\ Track(h, d)[s].handle = h /\ Track(h, d)[s].dev = d
                                 /\ \A i \in Slot : i # s => Track(h, d)[i] = conns[i]
<1> DEFINE free == {i \in DOMAIN conns : ~conns[i].active}
<1>1. conns \in [Slot -> SlotRec] /\ DOMAIN conns = Slot
  BY DEF StoreInv, Slot, SlotRec
<1>2. CASE free = {}
  BY <1>1, <1>2 DEF Track
<1>3. CASE free # {}
  <2> DEFINE s == Least(free)
             c == [active |-> TRUE, handle |-> h, dev |-> d]
  <2>1. s \in free
    <3>1. free \in SUBSET Nat
      BY <1>1 DEF Slot
    <3> QED
      BY <1>3, <3>1, LeastIn
  <2>2. s \in Slot /\ ~conns[s].active
    BY <1>1, <2>1
  <2>3. Track(h, d) = [conns EXCEPT ![s] = c]
    BY <1>3 DEF Track
  <2> HIDE DEF free, s
  <2>4. c \in SlotRec /\ c.handle = h /\ c.dev = d
    BY DEF SlotRec
  <2> HIDE DEF c
  <2>5. /\ [conns EXCEPT ![s] = c] \in [Slot -> SlotRec]
        /\ \A i \in Slot : [conns EXCEPT ![s] = c][i] = IF i = s THEN c ELSE conns[i]
    BY <1>1, <2>4
  <2> QED
    BY <2>2, <2>3, <2>4, <2>5
<1> QED
  BY <1>2, <1>3

LEMMA HandlerKeepsTypes ==
    ASSUME IInv, NEW e, HandlerEffect(e)
    PROVE  ListInv' /\ StoreInv' /\ EventsInv' /\ CtrlInv'
<1>1. events # <<>> /\ e = Head(events) /\ events' = Tail(events) /\ UNCHANGED ctrl
      /\ ListEffect /\ IssueEffect(e)
  BY DEF HandlerEffect
<1>2. EventsInv /\ StoreInv /\ CtrlInv
  BY DEF IInv
<1>3. e \in Ev
  BY <1>1, <1>2, HeadEvent
<1>4. ListInv'
  BY <1>1 DEF ListInv, ListEffect, IssueEffect, ListenerOk
<1>5. EventsInv'
  <2>1. \A n \in 1 .. Len(events') : SoundEv(events'[n])
    BY <1>1, <1>2, TailEvents DEF EventsInv
  <2> QED
    BY <1>1, <1>2, <2>1, TailEvents DEF EventsInv
<1>6. CtrlInv'
  BY <1>1, <1>2 DEF CtrlInv
<1>7. conns' \in [Slot -> SlotRec]
  <2>1. e.h \in Handle0 /\ e.dev \in Device
    BY <1>3, EvType
  <2>2. Untrack(e.h) \in [Slot -> SlotRec] /\ Track(e.h, e.dev) \in [Slot -> SlotRec]
    BY <1>2, <2>1, UntrackFacts, TrackFacts
  <2>3. conns \in [Slot -> SlotRec]
    BY <1>2 DEF StoreInv, Slot, SlotRec
  <2>4. conns' \in {conns, Untrack(e.h), Track(e.h, e.dev)}
    BY DEF HandlerEffect
  <2> QED
    BY <2>2, <2>3, <2>4
<1>8. StoreInv'
  BY <1>7 DEF StoreInv, HandlerEffect, Slot, SlotRec
<1> QED
  BY <1>4, <1>5, <1>6, <1>8

LEMMA HandlerKeepsAsk ==
    ASSUME IInv, NEW e, HandlerEffect(e)
    PROVE  AskInv'
<1>1. events # <<>> /\ e = Head(events) /\ events' = Tail(events) /\ UNCHANGED ctrl /\ IssueEffect(e)
  BY DEF HandlerEffect
<1>2. EventsInv /\ AskInv
  BY DEF IInv
<1>3. /\ e = events[1] /\ 1 \in 1 .. Len(events)
      /\ \A n \in 1 .. Len(events') : n + 1 \in 1 .. Len(events) /\ n + 1 # 1 /\ events'[n] = events[n + 1]
  BY <1>1, <1>2, TailEvents
<1>4. SUFFICES ASSUME ctrl.on, NEW d \in Device
               PROVE  /\ \A n \in 1 .. Len(events') : RequestAt(n, d)' =>
                            /\ d \in Devices /\ ctrl.link[d].st = "asking"
                            /\ ~AnsweredNext(d)'
                            /\ \A m \in 1 .. Len(events') : RequestAt(m, d)' => m = n
                            /\ \A m \in 1 .. Len(ctrl.cmds) : ~Reply1(ctrl.cmds[m], d)
                      /\ AnsweredNext(d)' =>
                            /\ d \in Devices /\ ctrl.link[d].st = "asking"
                            /\ \A m \in 1 .. Len(ctrl.cmds) : ~Reply1(ctrl.cmds[m], d)
  BY <1>1, <1>2 DEF AskInv, Reply1
<1>5. \A n \in 1 .. Len(events') : RequestAt(n, d)' <=> RequestAt(n + 1, d)
  BY <1>3 DEF RequestAt
<1>6. AnsweredNext(d)' => RequestAt(1, d)
  <2> SUFFICES ASSUME AnsweredNext(d)' PROVE RequestAt(1, d)
    OBVIOUS
  <2>1. listener' # <<>> /\ listener'[1].cmd.op \in Replies /\ listener'[1].cmd.dev = d
    BY DEF AnsweredNext, Reply1
  <2>2. PICK t \in Todo : listener' = <<t>> /\ Follows(t, e)
    BY <1>1, <2>1 DEF IssueEffect
  <2> QED
    BY <1>3, <2>1, <2>2 DEF Follows, RequestAt
<1>7. \A n \in 1 .. Len(events) : RequestAt(n, d) =>
         /\ d \in Devices /\ ctrl.link[d].st = "asking"
         /\ \A m \in 1 .. Len(events) : RequestAt(m, d) => m = n
         /\ \A m \in 1 .. Len(ctrl.cmds) : ~Reply1(ctrl.cmds[m], d)
  BY <1>2, <1>4 DEF AskInv
<1>8. ASSUME NEW n \in 1 .. Len(events'), RequestAt(n, d)'
      PROVE  /\ d \in Devices /\ ctrl.link[d].st = "asking"
             /\ ~AnsweredNext(d)'
             /\ \A m \in 1 .. Len(events') : RequestAt(m, d)' => m = n
             /\ \A m \in 1 .. Len(ctrl.cmds) : ~Reply1(ctrl.cmds[m], d)
  <2>1. n + 1 \in 1 .. Len(events) /\ n + 1 # 1 /\ RequestAt(n + 1, d)
    BY <1>3, <1>5, <1>8
  <2>2. ~AnsweredNext(d)'
    BY <1>3, <1>6, <1>7, <2>1
  <2>3. \A m \in 1 .. Len(events') : RequestAt(m, d)' => m + 1 = n + 1
    BY <1>3, <1>5, <1>7, <2>1
  <2> QED
    BY <1>7, <2>1, <2>2, <2>3
<1> QED
  BY <1>3, <1>6, <1>7, <1>8

LEMMA HandlerKeepsWant ==
    ASSUME IInv, NEW e, HandlerEffect(e)
    PROVE  WantInv'
<1>1. /\ UNCHANGED ctrl /\ IssueEffect(e) /\ keys \subseteq keys'
      /\ \A d : Wanted(d) => Wanted(d)'
  BY DEF HandlerEffect, ListEffect
<1>2. WantInv
  BY DEF IInv
<1>3. (\A n \in 1 .. Len(ctrl.cmds) : Grounded(ctrl.cmds[n]))'
  BY <1>1, <1>2 DEF WantInv, Grounded
<1>4. (listener # <<>> => Grounded(listener[1].cmd))'
  <2> SUFFICES ASSUME listener' # <<>> PROVE Grounded(listener[1].cmd)'
    OBVIOUS
  <2>1. PICK t \in Todo : listener' = <<t>> /\ TodoOk(t, petitions') /\ Follows(t, e)
    BY <1>1 DEF IssueEffect
  <2>2. listener'[1].cmd = t.cmd
    BY <2>1
  <2>3. t.cmd.op # "CREATE_CONN" /\ (t.cmd.op = "ACCEPT_CONN_REQ" => t.cmd.dev \in keys)
    BY <2>1 DEF Follows, Replies
  <2> QED
    BY <1>1, <2>2, <2>3 DEF Grounded
<1>5. \A d \in Devices : ctrl'.link[d].st \in {"paging", "accepted", "up"} => d \in keys' \/ Wanted(d)'
  BY <1>1, <1>2 DEF WantInv
<1> QED
  BY <1>3, <1>4, <1>5 DEF WantInv

\* A slot keeps a connection that the first event does not end, or takes the one
\* that it begins.
Keeps(table, es, new, i) ==
    /\ table[i].active /\ ~Ends(es, table[i].handle, 1)
    /\ new[i].handle = table[i].handle /\ new[i].dev = table[i].dev
Enters(es, new, i) ==
    Begins(es, 1) /\ new[i].handle = es[1].h /\ new[i].dev = es[1].dev

\* The first event is handled: a connection that it ends leaves the table, and
\* one that it begins may take a slot.
LEMMA TrackTakes ==
    ASSUME NEW es \in Seq(Ev), es # <<>>, NEW table, NEW links, TrackOk(table, es, links), NEW new,
           \A i \in Slot : new[i].active => Keeps(table, es, new, i) \/ Enters(es, new, i),
           \A i, j \in Slot :
              new[i].active /\ new[j].active /\ ~Keeps(table, es, new, i) /\ ~Keeps(table, es, new, j) => i = j
    PROVE  TrackOk(new, Tail(es), links)
<1> DEFINE fs == Tail(es)
           Kept(i) == Keeps(table, es, new, i)
           Added(i) == Enters(es, new, i) /\ ~Keeps(table, es, new, i)
<1>1. /\ Len(es) \in Nat /\ 1 \in 1 .. Len(es) /\ Len(fs) = Len(es) - 1
      /\ \A n \in 1 .. Len(fs) : fs[n] = es[n + 1]
  BY HeadTailProperties
<1> HIDE DEF fs
<1>2. \A i \in Slot : new[i].active => Kept(i) \/ Added(i)
  OBVIOUS
<1> HIDE DEF Kept, Added
<1>3. /\ \A i, j \in Slot :
            table[i].active /\ table[j].active /\ table[i].handle = table[j].handle => i = j
      /\ \A i \in Slot : table[i].active =>
            IsUp(links, table[i].dev, table[i].handle) \/ EndBetween(es, table[i].handle, 1, Len(es))
      /\ \A n \in 1 .. Len(es) : Begins(es, n) => Orderly(table, es, links, n)
  BY DEF TrackOk
<1>4. \A n \in 1 .. Len(fs) : /\ n + 1 \in 1 .. Len(es) /\ fs[n] = es[n + 1]
                              /\ Begins(fs, n) => Begins(es, n + 1)
  BY <1>1 DEF Begins
<1>5. ASSUME NEW h, NEW a \in Nat, a >= 1, NEW b \in Nat, b <= Len(es), EndBetween(es, h, a + 1, b)
      PROVE  EndBetween(fs, h, a, b - 1)
  <2>1. PICK m \in a + 1 .. b : Ends(es, h, m)
    BY <1>5 DEF EndBetween
  <2>2. m - 1 \in a .. b - 1 /\ m - 1 \in 1 .. Len(fs) /\ (m - 1) + 1 = m
    BY <1>1, <1>5, <2>1
  <2>3. fs[m - 1] = es[m]
    BY <1>1, <2>2
  <2>4. Ends(fs, h, m - 1)
    BY <2>1, <2>3 DEF Ends
  <2> QED
    BY <2>2, <2>4 DEF EndBetween
\* The end of a connection that is kept is not the first event.
<1>6. ASSUME NEW i \in Slot, Kept(i), NEW b \in Nat, EndBetween(es, table[i].handle, 1, b)
      PROVE  EndBetween(es, table[i].handle, 1 + 1, b)
  BY <1>6 DEF EndBetween, Kept, Keeps
<1>7. ASSUME NEW i \in Slot, Added(i)
      PROVE  /\ IsUp(links, new[i].dev, new[i].handle) \/ EndBetween(es, new[i].handle, 1 + 1, Len(es))
             /\ \A j \in Slot : ~(table[j].active /\ table[j].handle = new[i].handle)
             /\ \A n \in 1 .. Len(fs) : Begins(es, n + 1) /\ es[n + 1].h = new[i].handle =>
                   EndBetween(es, new[i].handle, 1 + 1, n)
  <2>1. Begins(es, 1) /\ new[i].handle = es[1].h /\ new[i].dev = es[1].dev
    BY <1>7 DEF Added, Enters
  <2>2. Orderly(table, es, links, 1)
    BY <1>1, <1>3, <2>1
  <2>3. \A h : ~EndBetween(es, h, 1, 1 - 1)
    BY DEF EndBetween
  <2>4. ASSUME NEW n \in 1 .. Len(fs), Begins(es, n + 1), es[n + 1].h = new[i].handle
        PROVE  EndBetween(es, new[i].handle, 1 + 1, n)
    <3>1. Orderly(table, es, links, n + 1) /\ 1 \in 1 .. (n + 1) - 1 /\ (n + 1) - 1 = n
      BY <1>1, <1>3, <1>4, <2>4
    <3> QED
      BY <2>1, <2>4, <3>1 DEF Orderly
  <2> QED
    BY <2>1, <2>2, <2>3, <2>4 DEF Orderly
<1>8. ASSUME NEW i \in Slot, NEW j \in Slot, new[i].active, new[j].active, new[i].handle = new[j].handle
      PROVE  i = j
  <2>1. CASE Kept(i) /\ Kept(j)
    BY <1>3, <1>8, <2>1 DEF Kept, Keeps
  <2>2. CASE Kept(i) /\ Added(j)
    BY <1>7, <1>8, <2>2 DEF Kept, Keeps
  <2>3. CASE Added(i) /\ Kept(j)
    BY <1>7, <1>8, <2>3 DEF Kept, Keeps
  <2>4. CASE Added(i) /\ Added(j)
    BY <1>8, <2>4 DEF Added
  <2> QED
    BY <1>2, <1>8, <2>1, <2>2, <2>3, <2>4
<1>9. ASSUME NEW i \in Slot, new[i].active
      PROVE  IsUp(links, new[i].dev, new[i].handle) \/ EndBetween(fs, new[i].handle, 1, Len(fs))
  <2>1. IsUp(links, new[i].dev, new[i].handle) \/ EndBetween(es, new[i].handle, 1 + 1, Len(es))
    <3>1. CASE Kept(i)
      <4>1. table[i].active /\ new[i].handle = table[i].handle /\ new[i].dev = table[i].dev
        BY <3>1 DEF Kept, Keeps
      <4> QED
        BY <1>1, <1>3, <1>6, <3>1, <4>1
    <3>2. CASE Added(i)
      BY <1>7, <3>2
    <3> QED
      BY <1>2, <1>9, <3>1, <3>2
  <2> QED
    BY <1>1, <1>5, <2>1
<1>10. ASSUME NEW n \in 1 .. Len(fs), Begins(fs, n)
       PROVE  Orderly(new, fs, links, n)
  <2> DEFINE h == es[n + 1].h
  <2>1. n + 1 \in 1 .. Len(es) /\ fs[n] = es[n + 1] /\ Begins(es, n + 1)
    BY <1>4, <1>10
  <2>2. Orderly(table, es, links, n + 1) /\ (n + 1) - 1 = n /\ n <= Len(es) /\ n \in Nat /\ n >= 1
    BY <1>1, <1>3, <2>1
  <2>3. /\ IsUp(links, es[n + 1].dev, h) \/ EndBetween(es, h, (n + 1) + 1, Len(es))
        /\ \A i \in Slot : table[i].active /\ table[i].handle = h => EndBetween(es, h, 1, n)
        /\ \A k \in 1 .. n : Begins(es, k) /\ es[k].h = h => EndBetween(es, h, k + 1, n)
    BY <2>2 DEF Orderly
  <2>4. fs[n].h = h /\ fs[n].dev = es[n + 1].dev
    BY <2>1
  <2>5. h = es[n + 1].h
    OBVIOUS
  <2> HIDE DEF h
  <2>6. IsUp(links, fs[n].dev, h) \/ EndBetween(fs, h, n + 1, Len(fs))
    <3>1. CASE IsUp(links, es[n + 1].dev, h)
      BY <2>4, <3>1
    <3>2. CASE EndBetween(es, h, (n + 1) + 1, Len(es))
      <4>1. EndBetween(fs, h, n + 1, Len(es) - 1)
        BY <1>1, <1>5, <2>2, <3>2
      <4> QED
        BY <1>1, <4>1
    <3> QED
      BY <2>3, <3>1, <3>2
  <2>7. ASSUME NEW i \in Slot, new[i].active, new[i].handle = h
        PROVE  EndBetween(fs, h, 1, n - 1)
    <3>1. EndBetween(es, h, 1 + 1, n)
      <4>1. CASE Kept(i)
        <5>1. table[i].active /\ table[i].handle = h
          BY <2>7, <4>1 DEF Kept, Keeps
        <5> QED
          BY <1>6, <2>2, <2>3, <4>1, <5>1
      <4>2. CASE Added(i)
        BY <1>7, <2>1, <2>5, <2>7, <4>2
      <4> QED
        BY <1>2, <2>7, <4>1, <4>2
    <3> QED
      BY <1>5, <2>2, <3>1
  <2>8. ASSUME NEW k \in 1 .. n - 1, Begins(fs, k), fs[k].h = h
        PROVE  EndBetween(fs, h, k + 1, n - 1)
    <3>1. k \in 1 .. Len(fs) /\ k + 1 \in 1 .. n /\ k + 1 \in Nat /\ k + 1 >= 1
      BY <1>1, <2>2
    <3>2. Begins(es, k + 1) /\ es[k + 1].h = h
      BY <1>4, <2>8, <3>1
    <3>3. EndBetween(es, h, (k + 1) + 1, n)
      BY <2>3, <3>1, <3>2
    <3> QED
      BY <1>5, <2>2, <3>1, <3>3
  <2> QED
    BY <2>4, <2>6, <2>7, <2>8 DEF Orderly
<1> QED
  BY <1>8, <1>9, <1>10 DEF TrackOk, fs

LEMMA HandlerKeepsTrack ==
    ASSUME IInv, NEW e, HandlerEffect(e)
    PROVE  TrackInv'
<1>1. events # <<>> /\ e = Head(events) /\ events' = Tail(events) /\ UNCHANGED ctrl
  BY DEF HandlerEffect
<1>2. EventsInv /\ TrackInv /\ StoreInv
  BY DEF IInv
<1>3. e = events[1] /\ e \in Ev /\ events \in Seq(Ev)
  BY <1>1, <1>2, TailEvents, HeadEvent DEF EventsInv
<1>4. e.h \in Handle0 /\ e.dev \in Device
  BY <1>3, EvType
<1> SUFFICES ASSUME ctrl.on PROVE TrackOk(conns', Tail(events), ctrl.link)
  BY <1>1 DEF TrackInv
<1>5. TrackOk(conns, events, ctrl.link)
  BY <1>2 DEF TrackInv
<1>6. CASE e.ev = "DISCONNECTION_COMPLETE"
  <2>1. conns' = Untrack(e.h)
    BY <1>6 DEF HandlerEffect
  <2>2. \A h : Ends(events, h, 1) => h = e.h
    BY <1>3 DEF Ends
  <2>3. CASE \A i \in Slot : ~(conns[i].active /\ conns[i].handle = e.h) /\ conns' = conns
    <3>1. \A i \in Slot : conns'[i].active =>
             Keeps(conns, events, conns', i)
      BY <2>2, <2>3 DEF Keeps
    <3> QED
      BY <1>1, <1>3, <1>5, <3>1, TrackTakes
  <2>4. ASSUME NEW s \in Slot, conns[s].active, conns[s].handle = e.h, ~conns'[s].active,
               \A i \in Slot : i # s => conns'[i] = conns[i]
        PROVE  TrackOk(conns', Tail(events), ctrl.link)
    <3>1. \A i \in Slot : i # s => ~(conns[i].active /\ conns[i].handle = e.h)
      BY <1>5, <2>4 DEF TrackOk
    <3>2. \A i \in Slot : conns'[i].active =>
             Keeps(conns, events, conns', i)
      BY <2>2, <2>4, <3>1 DEF Keeps
    <3> QED
      BY <1>1, <1>3, <1>5, <3>2, TrackTakes
  <2> QED
    BY <1>2, <2>1, <2>3, <2>4, UntrackFacts
<1>7. CASE e.ev # "DISCONNECTION_COMPLETE"
  <2>1. \A h : ~Ends(events, h, 1)
    BY <1>3, <1>7 DEF Ends
  <2>2. CASE conns' = conns
    <3>1. \A i \in Slot : conns'[i].active => Keeps(conns, events, conns', i)
      BY <2>1, <2>2 DEF Keeps
    <3> QED
      BY <1>1, <1>3, <1>5, <3>1, TrackTakes
  <2>3. CASE e.ev = "CONN_COMPLETE" /\ e.st = "ok" /\ conns' = Track(e.h, e.dev)
    <3>1. Begins(events, 1)
      BY <1>3, <2>3 DEF Begins
    <3>2. CASE Track(e.h, e.dev) = conns
      BY <2>2, <2>3, <3>2
    <3>3. ASSUME NEW s \in Slot, ~conns[s].active, conns'[s].handle = e.h, conns'[s].dev = e.dev,
                 \A i \in Slot : i # s => conns'[i] = conns[i]
          PROVE  TrackOk(conns', Tail(events), ctrl.link)
      <4>1. \A i \in Slot : conns'[i].active =>
               Keeps(conns, events, conns', i) \/ Enters(events, conns', i)
        BY <1>3, <2>1, <3>1, <3>3 DEF Keeps, Enters
      <4>2. \A i \in Slot : conns'[i].active /\ ~Keeps(conns, events, conns', i) => i = s
        BY <2>1, <3>3 DEF Keeps
      <4> QED
        BY <1>1, <1>3, <1>5, <4>1, <4>2, TrackTakes
    <3> QED
      BY <1>2, <1>4, <2>3, <3>2, <3>3, TrackFacts
  <2>4. conns' = conns \/ (e.ev = "CONN_COMPLETE" /\ e.st = "ok" /\ conns' = Track(e.h, e.dev))
    BY <1>7 DEF HandlerEffect
  <2> QED
    BY <2>2, <2>3, <2>4
<1> QED
  BY <1>6, <1>7

LEMMA HandlerKeeps ==
    ASSUME IInv, NEW e, NEW k, Handle1(e, k)
    PROVE  IInv'
<1>1. HandlerEffect(e)
  BY HandlersDo DEF IInv
<1> QED
  BY <1>1, HandlerKeepsTypes, HandlerKeepsAsk, HandlerKeepsWant, HandlerKeepsTrack DEF IInv

----------------------------------------------------------------------------
\* The looper and the clients

\* A step that touches only the list: what is to be issued still refers to it,
\* and nobody's wish is forgotten.
LEMMA ListStepKeeps ==
    ASSUME IInv, ListEffect, ListenerOk(listener, petitions'), dialogs' \subseteq dialogs,
           UNCHANGED <<listener, conns, keys, names, ctrl, events>>
    PROVE  IInv'
<1>1. ListInv' /\ StoreInv' /\ EventsInv' /\ CtrlInv'
  BY DEF IInv, ListInv, ListEffect, StoreInv, EventsInv, CtrlInv
<1>2. AskInv'
  <2>1. \A d, n : RequestAt(n, d)' <=> RequestAt(n, d)
    BY DEF RequestAt
  <2>2. \A d : AnsweredNext(d)' <=> AnsweredNext(d)
    BY DEF AnsweredNext
  <2> QED
    BY <2>1, <2>2 DEF IInv, AskInv
<1>3. WantInv'
  <2>1. \A d : Wanted(d) => Wanted(d)'
    BY DEF ListEffect
  <2>2. \A c : Grounded(c) => Grounded(c)'
    BY <2>1 DEF Grounded
  <2> QED
    BY <2>1, <2>2 DEF IInv, WantInv
<1>4. TrackInv'
  BY DEF IInv, TrackInv
<1> QED
  BY <1>1, <1>2, <1>3, <1>4 DEF IInv

\* A petition that is added leaves what is to be issued as it was.
LEMMA ListenerStays ==
    ASSUME NEW ps \in Seq(PetitionRec), NEW p \in PetitionRec, NEW l, ListenerOk(l, ps)
    PROVE  ListenerOk(l, Append(ps, p))
<1>1. CASE l = <<>>
  BY <1>1 DEF ListenerOk
<1>2. CASE \E t \in Todo : l = <<t>> /\ TodoOk(t, ps)
  <2>1. PICK t \in Todo : l = <<t>> /\ TodoOk(t, ps)
    BY <1>2
  <2>2. t.req \in Nat /\ t.req <= Len(ps) /\ Len(ps) \in Nat
    BY <2>1 DEF TodoOk, Todo
  <2>3. t.req <= Len(Append(ps, p)) /\ (t.req # 0 => Append(ps, p)[t.req] = ps[t.req])
    BY <2>2
  <2>4. TodoOk(t, Append(ps, p))
    BY <2>1, <2>3 DEF TodoOk
  <2> QED
    BY <2>1, <2>4 DEF ListenerOk
<1> QED
  BY <1>1, <1>2 DEF ListenerOk

\* All requests are issued when none is about to be.
LEMMA AllIssued ==
    ASSUME ListOk(petitions, calls), Adding = {}
    PROVE  \A c \in 1 .. Len(calls) : calls[c].issued
<1>1. DOMAIN calls = 1 .. Len(calls) /\ \A c \in 1 .. Len(calls) : calls[c].issued \in BOOLEAN
  BY ListTypes, RecordTypes
<1> QED
  BY <1>1 DEF Adding

LEMMA AskedType ==
    ASSUME NEW kind \in Kind, NEW d \in Device, NEW h \in Handle0
    PROVE  LET r == Asked(kind, d, h)
           IN  /\ r \in CallRec /\ r.kind = kind /\ r.dev = d /\ r.handle = h
               /\ ~r.issued /\ r.res = "none"
BY Kinds8 DEF Asked, CallRec, Result

LEMMA RequestKeeps ==
    ASSUME IInv, NEW kind \in Kind, kind # "Reauthenticate", NEW d \in Device, NEW h \in Handle0,
           Request(kind, d, h), dialogs' \subseteq dialogs
    PROVE  IInv'
<1> DEFINE p == Petition(Expected[kind], Len(calls) + 1, NoDevice, 0)
           r == Asked(kind, d, h)
<1>1. /\ Adding = {} /\ calls' = Append(calls, r) /\ petitions' = Append(petitions, p)
      /\ UNCHANGED <<listener, conns, keys, names, ctrl, events>>
  BY DEF Request, AddWantedEvent
<1>2. ListOk(petitions, calls) /\ ListenerOk(listener, petitions)
  BY DEF IInv, ListInv
<1>3. petitions \in Seq(PetitionRec) /\ calls \in Seq(CallRec) /\ Len(calls) \in Nat
  BY <1>2, ListTypes
<1>4. r \in CallRec /\ r.res = "none" /\ SoundCall(r)
  BY AskedType DEF SoundCall
<1>5. p \in PetitionRec /\ Sound(p) /\ p.call = Len(calls) + 1
  <2>1. /\ Expected[kind] \in Wants /\ NoDevice \in Device /\ 0 \in Handle0 /\ Len(calls) + 1 \in Nat
        /\ \A i \in 1 .. Len(Expected[kind].ev) : Expected[kind].ev[i] \notin OfServer
    BY <1>3, Kinds8, ExpectedIsGood DEF Wants, Device, Handle0
  <2> QED
    BY <2>1, NewPetition
<1> HIDE DEF p, r
<1>6. ListOk(petitions', calls')
  BY <1>1, <1>2, <1>4, <1>5, AllIssued, ClientAdds
<1>7. \A x : Wanted(x) => Wanted(x)'
  <2>1. Len(calls') = Len(calls) + 1 /\ \A c \in 1 .. Len(calls) : calls'[c] = calls[c]
    BY <1>1, <1>3, <1>4
  <2> QED
    BY <1>3, <2>1 DEF Wanted
<1>8. ListenerOk(listener, petitions')
  BY <1>1, <1>2, <1>3, <1>5, ListenerStays
<1> QED
  BY <1>1, <1>6, <1>7, <1>8, ListStepKeeps DEF ListEffect

LEMMA ClientRequestKeeps ==
    ASSUME IInv, NEW kind, NEW d \in Devices \cup {NoDevice}, NEW h \in {0} \cup Handle,
           ClientRequest(kind, d, h)
    PROVE  IInv'
<1>1. /\ kind \in ToDevice \cup ToHandle \cup ToController /\ Request(kind, d, h) /\ UNCHANGED dialogs
  BY DEF ClientRequest
<1>2. kind \in Kind /\ kind # "Reauthenticate"
  BY <1>1 DEF ToDevice, ToHandle, ToController, Kind
<1> QED
  BY <1>1, <1>2, RequestKeeps DEF Device, Handle0

LEMMA DialogRequestKeeps ==
    ASSUME IInv, NEW d \in dialogs, NEW kind, DialogRequest(kind, d)
    PROVE  IInv'
<1>1. kind \in FromDialog /\ dialogs' = dialogs \ {d} /\ Request(kind, d, 0)
  BY DEF DialogRequest
<1>2. kind \in Kind /\ kind # "Reauthenticate"
  BY <1>1 DEF FromDialog, Kind
<1>3. d \in Device /\ 0 \in Handle0
  BY DEF IInv, StoreInv, Device, Handle0
<1> QED
  BY <1>1, <1>2, <1>3, RequestKeeps

\* A call that changes: the device and the kind of wish stay.
LEMMA WishStays ==
    ASSUME NEW a \in 1 .. Len(calls), NEW r \in CallRec, calls \in Seq(CallRec),
           calls' = [calls EXCEPT ![a] = r], r.dev = calls[a].dev,
           calls[a].kind \in {"Authenticate", "Reauthenticate"} =>
              r.kind \in {"Authenticate", "Reauthenticate"}
    PROVE  \A x : Wanted(x) => Wanted(x)'
<1>1. Len(calls') = Len(calls) /\ \A c \in 1 .. Len(calls) : calls'[c] = IF c = a THEN r ELSE calls[c]
  BY ExceptSeq
<1> QED
  BY <1>1 DEF Wanted

LEMMA GiveUpKeeps ==
    ASSUME IInv, NEW c \in DOMAIN calls, GiveUp(c)
    PROVE  IInv'
<1> DEFINE r == [calls[c] EXCEPT !.res = "gaveup"]
<1>1. /\ calls' = [calls EXCEPT ![c].res = "gaveup"]
      /\ UNCHANGED <<petitions, listener, conns, keys, names, dialogs, ctrl, events>>
  BY DEF GiveUp
<1>2. ListOk(petitions, calls) /\ ListenerOk(listener, petitions)
  BY DEF IInv, ListInv
<1>3. c \in 1 .. Len(calls) /\ calls \in Seq(CallRec) /\ calls[c] \in CallRec /\ SoundCall(calls[c])
  BY <1>2, ListTypes DEF ListOk
<1>4. r \in CallRec /\ r.res = "gaveup" /\ r.kind = calls[c].kind /\ r.dev = calls[c].dev
      /\ r.handle = calls[c].handle /\ r.issued = calls[c].issued
  BY <1>3, CallUpdate DEF Result
<1>5. calls' = [calls EXCEPT ![c] = r]
  BY <1>1, <1>3
<1> HIDE DEF r
<1>6. ListOk(petitions', calls')
  <2>1. SoundCall(r)
    BY <1>3, <1>4 DEF SoundCall
  <2>2. ListOk(petitions, [calls EXCEPT ![c] = r])
    BY <1>2, <1>3, <1>4, <2>1, CallMoves
  <2> QED
    BY <1>1, <1>5, <2>2
<1>7. \A x : Wanted(x) => Wanted(x)'
  BY <1>3, <1>4, <1>5, WishStays
<1> QED
  BY <1>1, <1>2, <1>6, <1>7, ListStepKeeps DEF ListEffect

\* _FindConnectionHandleByAddress(): the handle of a connection, or none
LEMMA FoundHandle ==
    ASSUME StoreInv, NEW d
    PROVE  FindHandleByAddress(d) \in Handle0
<1> DEFINE fit == {i \in DOMAIN conns : conns[i].active /\ conns[i].dev = d}
<1>1. conns \in [Slot -> SlotRec] /\ DOMAIN conns = Slot
  BY DEF StoreInv, Slot, SlotRec
<1>2. CASE fit = {}
  BY <1>2 DEF FindHandleByAddress, Handle0
<1>3. CASE fit # {}
  <2>1. Least(fit) \in fit
    <3>1. fit \in SUBSET Nat
      BY <1>1 DEF Slot
    <3> QED
      BY <1>3, <3>1, LeastIn
  <2>2. FindHandleByAddress(d) = conns[Least(fit)].handle
    BY <1>3 DEF FindHandleByAddress
  <2>3. conns[Least(fit)] \in SlotRec
    BY <1>1, <2>1
  <2> QED
    BY <2>2, <2>3 DEF SlotRec
<1> QED
  BY <1>2, <1>3

LEMMA ReauthenticateKeeps ==
    ASSUME IInv, NEW c \in DOMAIN calls, Reauthenticate(c)
    PROVE  IInv'
<1> DEFINE h == FindHandleByAddress(calls[c].dev)
<1>1. /\ calls[c].kind = "Authenticate" /\ calls[c].res = "exists" /\ Adding = {}
      /\ UNCHANGED <<listener, conns, keys, names, dialogs, ctrl, events>>
  BY DEF Reauthenticate
<1>2. ListOk(petitions, calls) /\ ListenerOk(listener, petitions) /\ h \in Handle0
  BY FoundHandle DEF IInv, ListInv
<1>3. /\ c \in 1 .. Len(calls) /\ calls \in Seq(CallRec) /\ calls[c] \in CallRec /\ SoundCall(calls[c])
      /\ petitions \in Seq(PetitionRec)
  BY <1>2, ListTypes DEF ListOk
<1>4. CASE h = 0
  <2> DEFINE r == [calls[c] EXCEPT !.res = "fail"]
  <2>1. calls' = [calls EXCEPT ![c].res = "fail"] /\ UNCHANGED petitions
    BY <1>4 DEF Reauthenticate
  <2>2. r \in CallRec /\ r.res = "fail" /\ r.kind = calls[c].kind /\ r.dev = calls[c].dev
        /\ r.handle = calls[c].handle /\ r.issued = calls[c].issued
    BY <1>3, CallUpdate DEF Result
  <2>3. calls' = [calls EXCEPT ![c] = r]
    BY <1>3, <2>1
  <2> HIDE DEF r
  <2>4. SoundCall(r) /\ {r.res, calls[c].res} \subseteq {"ok", "fail", "exists"}
    BY <1>1, <1>3, <2>2 DEF SoundCall
  <2>5. ListOk(petitions', calls')
    <3>1. ListOk(petitions, [calls EXCEPT ![c] = r])
      BY <1>2, <1>3, <2>2, <2>4, CallMoves
    <3> QED
      BY <2>1, <2>3, <3>1
  <2>6. \A x : Wanted(x) => Wanted(x)'
    BY <1>3, <2>2, <2>3, WishStays
  <2> QED
    BY <1>1, <1>2, <2>1, <2>5, <2>6, ListStepKeeps DEF ListEffect
<1>5. CASE h # 0
  <2> DEFINE r == Asked("Reauthenticate", calls[c].dev, h)
             p == Petition(Expected["Reauthenticate"], c, NoDevice, 0)
  <2>1. calls' = [calls EXCEPT ![c] = r] /\ petitions' = Append(petitions, p)
    BY <1>5 DEF Reauthenticate, AddWantedEvent
  <2>2. r \in CallRec /\ r.res = "none" /\ r.kind = "Reauthenticate" /\ r.dev = calls[c].dev /\ r.handle = h
    <3>1. calls[c].dev \in Device /\ "Reauthenticate" \in Kind
      BY <1>3, RecordTypes DEF Kind
    <3> QED
      BY <1>2, <3>1, AskedType
  <2>3. p \in PetitionRec /\ Sound(p) /\ p.call = c
    <3>1. "Reauthenticate" \in Kind
      BY DEF Kind
    <3>2. /\ Expected["Reauthenticate"] \in Wants /\ NoDevice \in Device /\ 0 \in Handle0 /\ c \in Nat
          /\ \A i \in 1 .. Len(Expected["Reauthenticate"].ev) : Expected["Reauthenticate"].ev[i] \notin OfServer
      BY <1>3, <3>1, Kinds8, ExpectedIsGood DEF Wants, Device, Handle0
    <3> QED
      BY <3>2, NewPetition
  <2>4. SoundCall(r)
    BY <1>5, <2>2 DEF SoundCall
  <2> HIDE DEF r, p, h
  <2>5. ListOk(petitions', calls')
    BY <1>1, <1>2, <1>3, <2>1, <2>2, <2>3, <2>4, AllIssued, ClientAsksAgain
  <2>6. \A x : Wanted(x) => Wanted(x)'
    BY <1>3, <2>1, <2>2, WishStays
  <2>7. ListenerOk(listener, petitions')
    BY <1>2, <1>3, <2>1, <2>3, ListenerStays
  <2> QED
    BY <1>1, <2>5, <2>6, <2>7, ListStepKeeps DEF ListEffect
<1> QED
  BY <1>4, <1>5

----------------------------------------------------------------------------
\* A command is issued

LEMMA CtrlParts ==
    ASSUME NEW c \in CtrlRec
    PROVE  /\ c.cmds \in Seq(Cmd) /\ c.acts \in SUBSET ActRec /\ c.link \in [Devices -> LinkRec]
           /\ c.on \in BOOLEAN /\ c.refused \in SUBSET OpName
BY DEF CtrlRec

LEMMA CtrlIssues ==
    ASSUME NEW c \in CtrlRec, NEW cmd \in Cmd
    PROVE  LET e == [c EXCEPT !.cmds = Append(@, cmd)]
           IN  /\ e \in CtrlRec /\ e.cmds = Append(c.cmds, cmd) /\ e.acts = c.acts
               /\ e.link = c.link /\ e.on = c.on
<1>1. Append(c.cmds, cmd) \in Seq(Cmd)
  BY CtrlParts
<1> QED
  BY <1>1 DEF CtrlRec

LEMMA IssueKeeps ==
    ASSUME IInv, NEW cmd \in Cmd, SoundCmd(cmd), IssueCommand(cmd), Grounded(cmd), ListEffect,
           ListenerOk(listener', petitions'),
           UNCHANGED <<conns, keys, names, dialogs, events>>,
           \/ UNCHANGED listener /\ cmd.op \notin Replies
           \/ listener # <<>> /\ cmd = listener[1].cmd /\ listener' = <<>>
    PROVE  IInv'
<1>1. CtrlInv /\ AskInv /\ WantInv /\ TrackInv /\ ctrl \in CtrlRec
  BY DEF IInv, CtrlInv
<1>2. ListInv' /\ StoreInv' /\ EventsInv'
  BY DEF IInv, ListInv, ListEffect, StoreInv, EventsInv
<1>3. \A x : Wanted(x) => Wanted(x)'
  BY DEF ListEffect
<1>4. \A c : Grounded(c) => Grounded(c)'
  BY <1>3 DEF Grounded
<1>5. listener' = <<>> \/ listener' = listener
  OBVIOUS
<1>6. (listener # <<>> => Grounded(listener[1].cmd))'
  BY <1>1, <1>4, <1>5 DEF WantInv
<1>7. CASE ~ctrl.on
  <2>1. UNCHANGED ctrl
    BY <1>7 DEF IssueCommand
  <2>2. CtrlInv' /\ AskInv' /\ TrackInv'
    BY <1>1, <1>7, <2>1 DEF CtrlInv, AskInv, TrackInv
  <2>3. WantInv'
    BY <1>1, <1>3, <1>4, <1>6, <2>1 DEF WantInv
  <2> QED
    BY <1>2, <2>2, <2>3 DEF IInv
<1>8. CASE ctrl.on
  <2> DEFINE cs == ctrl.cmds
  <2>1. /\ ctrl' \in CtrlRec /\ ctrl'.cmds = Append(cs, cmd) /\ ctrl'.acts = ctrl.acts
        /\ ctrl'.link = ctrl.link /\ ctrl'.on
    BY <1>1, <1>8, CtrlIssues DEF IssueCommand
  <2>2. cs \in Seq(Cmd)
    BY <1>1, CtrlParts
  <2>3. /\ Len(cs) \in Nat /\ Len(ctrl'.cmds) = Len(cs) + 1
        /\ \A n \in 1 .. Len(cs) : ctrl'.cmds[n] = cs[n]
        /\ ctrl'.cmds[Len(cs) + 1] = cmd
    BY <2>1, <2>2
  <2> HIDE DEF cs
  <2>4. \A n \in 1 .. Len(ctrl'.cmds) : n \in 1 .. Len(cs) \/ n = Len(cs) + 1
    BY <2>3
  <2>5. CtrlInv'
    BY <1>1, <2>1, <2>3, <2>4 DEF CtrlInv, cs
  <2>6. TrackInv'
    BY <1>1, <1>8, <2>1 DEF TrackInv
  <2>7. WantInv'
    <3>1. (\A n \in 1 .. Len(ctrl.cmds) : Grounded(ctrl.cmds[n]))'
      <4> DEFINE es == Append(cs, cmd)
      <4>1. /\ Len(es) = Len(cs) + 1 /\ es[Len(cs) + 1] = cmd
            /\ \A n \in 1 .. Len(cs) : es[n] = cs[n] /\ Grounded(cs[n])
        BY <1>1, <2>1, <2>2 DEF WantInv, cs
      <4>2. es = ctrl'.cmds
        BY <2>1
      <4> HIDE DEF es
      <4>3. \A n \in 1 .. Len(es) : Grounded(es[n])
        BY <2>3, <4>1
      <4> QED
        BY <1>3, <4>2, <4>3 DEF Grounded
    <3>2. (\A d \in Devices : ctrl.link[d].st \in {"paging", "accepted", "up"} => d \in keys \/ Wanted(d))'
      BY <1>1, <1>3, <2>1 DEF WantInv
    <3> QED
      BY <1>6, <3>1, <3>2 DEF WantInv
  <2>8. AskInv'
    <3> SUFFICES ASSUME NEW d \in Device
                 PROVE  /\ \A n \in 1 .. Len(events) : RequestAt(n, d) =>
                              /\ d \in Devices /\ ctrl.link[d].st = "asking"
                              /\ ~AnsweredNext(d)'
                              /\ \A m \in 1 .. Len(events) : RequestAt(m, d) => m = n
                              /\ \A m \in 1 .. Len(ctrl'.cmds) : ~Reply1(ctrl'.cmds[m], d)
                        /\ AnsweredNext(d)' =>
                              /\ d \in Devices /\ ctrl.link[d].st = "asking"
                              /\ \A m \in 1 .. Len(ctrl'.cmds) : ~Reply1(ctrl'.cmds[m], d)
                        /\ \A n \in 1 .. Len(ctrl'.cmds) : Reply1(ctrl'.cmds[n], d) =>
                              /\ d \in Devices /\ ctrl.link[d].st = "asking"
                              /\ \A m \in 1 .. Len(ctrl'.cmds) : Reply1(ctrl'.cmds[m], d) => m = n
      <4>1. \A n, d : RequestAt(n, d)' <=> RequestAt(n, d)
        BY DEF RequestAt
      <4> QED
        BY <2>1 DEF AskInv, RequestAt, Reply1
    <3>1. /\ \A n \in 1 .. Len(events) : RequestAt(n, d) =>
                /\ d \in Devices /\ ctrl.link[d].st = "asking"
                /\ ~AnsweredNext(d)
                /\ \A m \in 1 .. Len(events) : RequestAt(m, d) => m = n
                /\ \A m \in 1 .. Len(cs) : ~Reply1(cs[m], d)
          /\ AnsweredNext(d) =>
                /\ d \in Devices /\ ctrl.link[d].st = "asking"
                /\ \A m \in 1 .. Len(cs) : ~Reply1(cs[m], d)
          /\ \A n \in 1 .. Len(cs) : Reply1(cs[n], d) =>
                /\ d \in Devices /\ ctrl.link[d].st = "asking"
                /\ \A m \in 1 .. Len(cs) : Reply1(cs[m], d) => m = n
      BY <1>1, <1>8 DEF AskInv, cs
    <3>2. \A n \in 1 .. Len(ctrl'.cmds) :
             \/ n \in 1 .. Len(cs) /\ (Reply1(ctrl'.cmds[n], d) <=> Reply1(cs[n], d))
             \/ n = Len(cs) + 1 /\ (Reply1(ctrl'.cmds[n], d) <=> Reply1(cmd, d))
      BY <2>3, <2>4
    <3>3. CASE UNCHANGED listener /\ cmd.op \notin Replies
      <4>1. ~Reply1(cmd, d) /\ (AnsweredNext(d)' <=> AnsweredNext(d))
        BY <3>3 DEF Reply1, AnsweredNext
      <4> QED
        BY <3>1, <3>2, <4>1
    <3>4. CASE listener # <<>> /\ cmd = listener[1].cmd /\ listener' = <<>>
      <4>1. (Reply1(cmd, d) <=> AnsweredNext(d)) /\ ~AnsweredNext(d)'
        BY <3>4 DEF AnsweredNext
      <4> QED
        BY <3>1, <3>2, <4>1
    <3> QED
      BY <3>3, <3>4
  <2> QED
    BY <1>2, <2>5, <2>6, <2>7, <2>8 DEF IInv
<1> QED
  BY <1>1, <1>7, <1>8, CtrlParts

\* The commands that clients' requests begin with
LEMMA FirstCommands ==
    ASSUME NEW kind \in Kind
    PROVE  LET o == Expected[kind].op[1]
           IN  /\ o \in OpName /\ o \notin Replies
               /\ o = "CREATE_CONN" => kind = "Authenticate"
               /\ o = "AUTH_REQUESTED" => kind = "Reauthenticate"
<1> DEFINE Good(x, w) == /\ w.op[1] \in OpName /\ w.op[1] \notin Replies
                         /\ w.op[1] = "CREATE_CONN" => x = "Authenticate"
                         /\ w.op[1] = "AUTH_REQUESTED" => x = "Reauthenticate"
<1>1. Good("Authenticate", Connecting)
  BY DEF Connecting, OpName, Replies
<1>2. Good("Reauthenticate", Reconnecting)
  BY DEF Reconnecting, OpName, Replies
<1>3. Good("GetFriendlyName", NameAsking)
  BY DEF NameAsking, OpName, Replies
<1>4. Good("Disconnect", Disconnecting)
  BY DEF Disconnecting, OpName, Replies
<1>5. Good("StartInquiry", Inquiring)
  BY DEF Inquiring, OpName, Replies
<1>6. Good("ReadLocal", LocalReading)
  BY DEF LocalReading, OpName, Replies
<1>7. Good("Confirm", Confirming)
  BY DEF Confirming, OpName, Replies
<1>8. Good("Deny", Denying)
  BY DEF Denying, OpName, Replies
<1> HIDE DEF Good
<1>9. Good(kind, Expected[kind])
  BY <1>1, <1>2, <1>3, <1>4, <1>5, <1>6, <1>7, <1>8 DEF Expected, Kind
<1> QED
  BY <1>9 DEF Good

LEMMA IssuedCall ==
    ASSUME NEW r \in CallRec
    PROVE  LET s == [r EXCEPT !.issued = TRUE]
           IN  /\ s \in CallRec /\ s.issued /\ s.kind = r.kind /\ s.dev = r.dev
               /\ s.handle = r.handle /\ s.res = r.res
BY DEF CallRec

LEMMA IssueCallKeeps ==
    ASSUME IInv, NEW c \in DOMAIN calls, IssueCall(c)
    PROVE  IInv'
<1> DEFINE r == [calls[c] EXCEPT !.issued = TRUE]
           o == Expected[calls[c].kind].op[1]
           cmd == Command(o, calls[c].dev, calls[c].handle)
<1>1. /\ calls' = [calls EXCEPT ![c].issued = TRUE] /\ IssueCommand(cmd)
      /\ UNCHANGED <<petitions, listener, conns, keys, names, dialogs, events>>
  BY DEF IssueCall
<1>2. ListOk(petitions, calls) /\ ListenerOk(listener, petitions)
  BY DEF IInv, ListInv
<1>3. /\ c \in 1 .. Len(calls) /\ calls \in Seq(CallRec) /\ calls[c] \in CallRec /\ SoundCall(calls[c])
      /\ calls[c].kind \in Kind /\ calls[c].dev \in Device /\ calls[c].handle \in Handle0
  BY <1>2, ListTypes, RecordTypes DEF ListOk
<1>4. /\ r \in CallRec /\ r.issued /\ r.kind = calls[c].kind /\ r.dev = calls[c].dev
      /\ r.handle = calls[c].handle /\ r.res = calls[c].res
  BY <1>3, IssuedCall
<1>5. calls' = [calls EXCEPT ![c] = r]
  BY <1>1, <1>3
<1>6. /\ o \in OpName /\ o \notin Replies
      /\ o = "CREATE_CONN" => calls[c].kind = "Authenticate"
      /\ o = "AUTH_REQUESTED" => calls[c].kind = "Reauthenticate"
  BY <1>3, FirstCommands
<1> HIDE DEF o
<1>7. cmd \in Cmd /\ cmd.op = o /\ cmd.dev = calls[c].dev /\ cmd.h = calls[c].handle
  BY <1>3, <1>6, CommandType
<1> HIDE DEF r, cmd
<1>8. ListEffect
  <2>1. SoundCall(r)
    BY <1>3, <1>4 DEF SoundCall
  <2>2. ListOk(petitions, [calls EXCEPT ![c] = r])
    BY <1>2, <1>3, <1>4, <2>1, CallMoves
  <2>3. \A x : Wanted(x) => Wanted(x)'
    BY <1>3, <1>4, <1>5, WishStays
  <2> QED
    BY <1>1, <1>5, <2>2, <2>3 DEF ListEffect
<1>9. SoundCmd(cmd)
  BY <1>3, <1>6, <1>7 DEF SoundCmd, SoundCall
<1>10. Grounded(cmd)
  BY <1>3, <1>6, <1>7 DEF Grounded, Wanted, Replies
<1> QED
  BY <1>1, <1>2, <1>6, <1>7, <1>8, <1>9, <1>10, IssueKeeps

LEMMA IssueNextKeeps ==
    ASSUME IInv, IssueNext
    PROVE  IInv'
<1> DEFINE todo == listener[1]
<1>1. /\ listener # <<>> /\ listener' = <<>> /\ IssueCommand(todo.cmd)
      /\ UNCHANGED <<conns, keys, names, dialogs, events>>
      /\ IF todo.req = 0 THEN UNCHANGED <<petitions, calls>>
         ELSE /\ calls' = Replied(petitions[todo.req].call, todo.res)
              /\ petitions' = RemoveAt(petitions, todo.req)
  BY DEF IssueNext
<1>2. ListOk(petitions, calls) /\ ListenerOk(listener, petitions) /\ Grounded(todo.cmd)
  BY <1>1 DEF IInv, ListInv, WantInv
<1>3. todo \in Todo /\ TodoOk(todo, petitions)
  BY <1>1, <1>2 DEF ListenerOk
<1> HIDE DEF todo
<1>4. /\ todo.cmd \in Cmd /\ SoundCmd(todo.cmd) /\ todo.req \in Nat /\ todo.req <= Len(petitions)
      /\ todo.res \in {"none", "ok", "fail", "exists"}
      /\ (todo.req # 0 /\ todo.res = "none" => petitions[todo.req].call = 0)
  BY <1>3 DEF TodoOk, Todo
<1>5. ListEffect
  <2>1. CASE todo.req = 0
    BY <1>1, <1>2, <2>1, ListStays
  <2>2. CASE todo.req # 0
    <3> DEFINE c == petitions[todo.req].call
    <3>1. /\ todo.req \in 1 .. Len(petitions) /\ calls \in Seq(CallRec)
          /\ c \in 0 .. Len(calls)
      <4>1. todo.req \in 1 .. Len(petitions)
        BY <1>2, <1>4, <2>2, ListTypes
      <4> QED
        BY <1>2, <4>1, ListTypes
    <3>2. calls' = Reply(calls, c, todo.res) /\ petitions' = RemoveAt(petitions, todo.req)
      BY <1>1, <2>2 DEF Replied, Reply
    <3>3. ListOk(petitions', calls')
      BY <1>2, <1>4, <2>2, <3>1, <3>2, PetitionEnds
    <3> HIDE DEF c
    <3>4. todo.res \in Result
      BY <1>4 DEF Result
    <3>5. /\ Len(calls') = Len(calls)
          /\ \A b \in 1 .. Len(calls) : calls'[b].dev = calls[b].dev /\ calls'[b].kind = calls[b].kind
      BY <3>1, <3>2, <3>4, ReplyFacts
    <3>6. \A d : Wanted(d) => Wanted(d)'
      BY <3>5 DEF Wanted
    <3> QED
      BY <3>3, <3>6 DEF ListEffect
  <2> QED
    BY <2>1, <2>2
<1>6. ListenerOk(listener', petitions')
  BY <1>1 DEF ListenerOk
<1> QED
  BY <1>1, <1>2, <1>4, <1>5, <1>6, IssueKeeps DEF todo

----------------------------------------------------------------------------
\* The controller: what its steps have in common

\* Events are only added behind those on their way.
Grows(es, fs) ==
    /\ fs \in Seq(Ev) /\ Len(es) <= Len(fs)
    /\ \A n \in 1 .. Len(es) : fs[n] = es[n]

LEMMA TrackGrows ==
    ASSUME NEW es \in Seq(Ev), NEW fs, Grows(es, fs), NEW table, NEW links, TrackOk(table, es, links),
           NEW new,
           \A d, h : IsUp(links, d, h) => IsUp(new, d, h) \/ EndBetween(fs, h, Len(es) + 1, Len(fs)),
           \A n \in Len(es) + 1 .. Len(fs) : Begins(fs, n) =>
              n = Len(es) + 1 /\ IsUp(new, fs[n].dev, fs[n].h) /\ \A d : ~IsUp(links, d, fs[n].h)
    PROVE  TrackOk(table, fs, new)
<1>1. /\ Len(es) \in Nat /\ Len(fs) \in Nat /\ Len(es) <= Len(fs)
      /\ \A n \in 1 .. Len(es) : fs[n] = es[n]
  BY DEF Grows
<1>2. /\ \A i, j \in Slot :
            table[i].active /\ table[j].active /\ table[i].handle = table[j].handle => i = j
      /\ \A i \in Slot : table[i].active =>
            IsUp(links, table[i].dev, table[i].handle) \/ EndBetween(es, table[i].handle, 1, Len(es))
      /\ \A n \in 1 .. Len(es) : Begins(es, n) => Orderly(table, es, links, n)
  BY DEF TrackOk
<1>3. ASSUME NEW h, NEW a \in Nat, a >= 1, NEW b \in Nat, b <= Len(es), EndBetween(es, h, a, b),
             NEW z \in Nat, b <= z
      PROVE  EndBetween(fs, h, a, z)
  <2>1. PICK m \in a .. b : Ends(es, h, m)
    BY <1>3 DEF EndBetween
  <2>2. m \in a .. z /\ m \in 1 .. Len(es)
    BY <1>1, <1>3, <2>1
  <2>3. Ends(fs, h, m)
    BY <1>1, <2>1, <2>2 DEF Ends
  <2> QED
    BY <2>2, <2>3 DEF EndBetween
<1>4. ASSUME NEW h, NEW a \in Nat, a <= Len(es) + 1, EndBetween(fs, h, Len(es) + 1, Len(fs))
      PROVE  EndBetween(fs, h, a, Len(fs))
  BY <1>1, <1>4 DEF EndBetween
<1>5. ASSUME NEW i \in Slot, table[i].active
      PROVE  IsUp(new, table[i].dev, table[i].handle) \/ EndBetween(fs, table[i].handle, 1, Len(fs))
  <2>1. CASE IsUp(links, table[i].dev, table[i].handle)
    BY <1>1, <1>4, <2>1
  <2>2. CASE EndBetween(es, table[i].handle, 1, Len(es))
    BY <1>1, <1>3, <2>2
  <2> QED
    BY <1>2, <1>5, <2>1, <2>2
<1>6. ASSUME NEW n \in 1 .. Len(es), Begins(fs, n)
      PROVE  Orderly(table, fs, new, n)
  <2> DEFINE h == es[n].h
  <2>1. fs[n].h = h /\ fs[n].dev = es[n].dev /\ Begins(es, n)
    BY <1>1, <1>6 DEF Begins
  <2>2. /\ IsUp(links, es[n].dev, h) \/ EndBetween(es, h, n + 1, Len(es))
        /\ \A i \in Slot : table[i].active /\ table[i].handle = h => EndBetween(es, h, 1, n - 1)
        /\ \A k \in 1 .. n - 1 : Begins(es, k) /\ es[k].h = h => EndBetween(es, h, k + 1, n - 1)
    BY <1>2, <2>1 DEF Orderly
  <2> HIDE DEF h
  <2>3. IsUp(new, fs[n].dev, h) \/ EndBetween(fs, h, n + 1, Len(fs))
    <3>1. CASE IsUp(links, es[n].dev, h)
      <4>1. n + 1 \in Nat /\ n + 1 <= Len(es) + 1
        BY <1>1
      <4> QED
        BY <1>4, <2>1, <3>1, <4>1
    <3>2. CASE EndBetween(es, h, n + 1, Len(es))
      BY <1>1, <1>3, <3>2
    <3> QED
      BY <2>2, <3>1, <3>2
  <2>4. n - 1 \in Nat /\ n - 1 <= Len(es)
    BY <1>1
  <2>5. \A i \in Slot : table[i].active /\ table[i].handle = h => EndBetween(fs, h, 1, n - 1)
    BY <1>3, <2>2, <2>4
  <2>6. ASSUME NEW k \in 1 .. n - 1, Begins(fs, k), fs[k].h = h
        PROVE  EndBetween(fs, h, k + 1, n - 1)
    <3>1. k \in 1 .. Len(es) /\ k + 1 \in Nat /\ k + 1 >= 1
      BY <1>1
    <3>2. Begins(es, k) /\ es[k].h = h
      BY <1>1, <2>6, <3>1 DEF Begins
    <3> QED
      BY <1>3, <2>2, <2>4, <3>1, <3>2
  <2> QED
    BY <2>1, <2>3, <2>5, <2>6 DEF Orderly
<1>7. ASSUME NEW n \in Len(es) + 1 .. Len(fs), Begins(fs, n)
      PROVE  Orderly(table, fs, new, n)
  <2> DEFINE h == fs[n].h
  <2>1. n = Len(es) + 1 /\ IsUp(new, fs[n].dev, h) /\ \A d : ~IsUp(links, d, h)
    BY <1>7
  <2> HIDE DEF h
  <2>2. n - 1 = Len(es)
    BY <1>1, <2>1
  <2>3. \A i \in Slot : table[i].active /\ table[i].handle = h => EndBetween(fs, h, 1, n - 1)
    BY <1>1, <1>2, <1>3, <2>1, <2>2
  <2>4. ASSUME NEW k \in 1 .. n - 1, Begins(fs, k), fs[k].h = h
        PROVE  EndBetween(fs, h, k + 1, n - 1)
    <3>1. k \in 1 .. Len(es) /\ k + 1 \in Nat /\ k + 1 >= 1
      BY <1>1, <2>2
    <3>2. Begins(es, k) /\ es[k].h = h
      BY <1>1, <2>4, <3>1 DEF Begins
    <3>3. EndBetween(es, h, k + 1, Len(es))
      BY <1>2, <2>1, <3>1, <3>2 DEF Orderly
    <3> QED
      BY <1>1, <1>3, <2>2, <3>1, <3>3
  <2> QED
    BY <2>1, <2>3, <2>4 DEF Orderly, h
<1>8. \A n \in 1 .. Len(fs) : n \in 1 .. Len(es) \/ n \in Len(es) + 1 .. Len(fs)
  BY <1>1
<1> QED
  BY <1>2, <1>5, <1>6, <1>7, <1>8 DEF TrackOk

\* A step of the controller: it may take its first command, and what asks and
\* what is connected stays so unless the step says otherwise.
LEMMA CtrlStepKeeps ==
    ASSUME IInv, ctrl.on, UNCHANGED Hosted, CtrlInv', Grows(events, events'),
           \A n \in Len(events) + 1 .. Len(events') :
              SoundEv(events'[n]) /\ events'[n].ev # "CONN_REQUEST",
           NEW taken \in BOOLEAN, taken => ctrl.cmds # <<>>,
           ctrl'.cmds = IF taken THEN Tail(ctrl.cmds) ELSE ctrl.cmds,
           \A d \in Devices : ctrl.link[d].st = "asking" =>
              ctrl'.link[d].st = "asking" \/ (taken /\ Reply1(ctrl.cmds[1], d)),
           \A d \in Devices : ctrl'.link[d].st \in {"paging", "accepted", "up"} => d \in keys \/ Wanted(d),
           TrackOk(conns, events', ctrl'.link)
    PROVE  IInv'
<1>1. UNCHANGED <<petitions, calls, listener, conns, keys, names, dialogs>>
  BY DEF Hosted
<1>2. /\ ListInv /\ StoreInv /\ EventsInv /\ CtrlInv /\ AskInv /\ WantInv
      /\ events \in Seq(Ev) /\ ctrl.cmds \in Seq(Cmd)
  BY CtrlParts DEF IInv, EventsInv, CtrlInv
<1>3. ListInv' /\ StoreInv'
  BY <1>1, <1>2 DEF ListInv, StoreInv
<1>4. /\ Len(events) \in Nat /\ Len(events') \in Nat /\ events' \in Seq(Ev)
      /\ \A n \in 1 .. Len(events') : \/ n \in 1 .. Len(events) /\ events'[n] = events[n]
                                      \/ n \in Len(events) + 1 .. Len(events')
  BY <1>2 DEF Grows
<1>5. EventsInv'
  BY <1>2, <1>4 DEF EventsInv
<1>6. /\ Len(ctrl.cmds) \in Nat
      /\ \A n \in 1 .. Len(ctrl'.cmds) :
            IF taken THEN n + 1 \in 1 .. Len(ctrl.cmds) /\ ctrl'.cmds[n] = ctrl.cmds[n + 1]
            ELSE n \in 1 .. Len(ctrl.cmds) /\ ctrl'.cmds[n] = ctrl.cmds[n]
  BY <1>2, HeadTailProperties
<1>7. WantInv'
  <2>1. \A x : Wanted(x)' <=> Wanted(x)
    BY <1>1 DEF Wanted
  <2> DEFINE cs == ctrl'.cmds
  <2>2. \A n \in 1 .. Len(cs) : Grounded(cs[n])
    BY <1>2, <1>6 DEF WantInv
  <2>3. \A c : Grounded(c)' <=> Grounded(c)
    BY <1>1, <2>1 DEF Grounded
  <2>4. cs = ctrl'.cmds
    OBVIOUS
  <2> HIDE DEF cs
  <2>5. (\A n \in 1 .. Len(ctrl.cmds) : Grounded(ctrl.cmds[n]))'
    BY <1>1, <2>1, <2>2, <2>4 DEF Grounded
  <2>6. (listener # <<>> => Grounded(listener[1].cmd))'
    BY <1>1, <1>2, <2>3 DEF WantInv
  <2>7. (\A d \in Devices : ctrl.link[d].st \in {"paging", "accepted", "up"} => d \in keys \/ Wanted(d))'
    BY <1>1, <2>1
  <2> QED
    BY <2>5, <2>6, <2>7 DEF WantInv
<1>8. TrackInv'
  BY <1>1 DEF TrackInv
<1>9. AskInv'
  <2>1. SUFFICES ASSUME NEW d \in Device
               PROVE  /\ \A n \in 1 .. Len(events') : RequestAt(n, d)' =>
                            /\ d \in Devices /\ ctrl'.link[d].st = "asking"
                            /\ ~AnsweredNext(d)
                            /\ \A m \in 1 .. Len(events') : RequestAt(m, d)' => m = n
                            /\ \A m \in 1 .. Len(ctrl'.cmds) : ~Reply1(ctrl'.cmds[m], d)
                      /\ AnsweredNext(d) =>
                            /\ d \in Devices /\ ctrl'.link[d].st = "asking"
                            /\ \A m \in 1 .. Len(ctrl'.cmds) : ~Reply1(ctrl'.cmds[m], d)
                      /\ \A n \in 1 .. Len(ctrl'.cmds) : Reply1(ctrl'.cmds[n], d) =>
                            /\ d \in Devices /\ ctrl'.link[d].st = "asking"
                            /\ \A m \in 1 .. Len(ctrl'.cmds) : Reply1(ctrl'.cmds[m], d) => m = n
    <3>1. \A x : AnsweredNext(x)' <=> AnsweredNext(x)
      BY <1>1 DEF AnsweredNext
    <3> QED
      BY <3>1 DEF AskInv, Reply1
  <2>2. \A n \in 1 .. Len(events') : RequestAt(n, d)' => n \in 1 .. Len(events) /\ RequestAt(n, d)
    BY <1>4 DEF RequestAt
  <2>3. /\ \A n \in 1 .. Len(events) : RequestAt(n, d) =>
              /\ d \in Devices /\ ctrl.link[d].st = "asking"
              /\ ~AnsweredNext(d)
              /\ \A m \in 1 .. Len(events) : RequestAt(m, d) => m = n
              /\ \A m \in 1 .. Len(ctrl.cmds) : ~Reply1(ctrl.cmds[m], d)
        /\ AnsweredNext(d) =>
              /\ d \in Devices /\ ctrl.link[d].st = "asking"
              /\ \A m \in 1 .. Len(ctrl.cmds) : ~Reply1(ctrl.cmds[m], d)
        /\ \A n \in 1 .. Len(ctrl.cmds) : Reply1(ctrl.cmds[n], d) =>
              /\ d \in Devices /\ ctrl.link[d].st = "asking"
              /\ \A m \in 1 .. Len(ctrl.cmds) : Reply1(ctrl.cmds[m], d) => m = n
    BY <1>2 DEF AskInv
  <2>4. CASE ~taken
    <3>1. ctrl'.cmds = ctrl.cmds
      BY <2>4
    <3>2. d \in Devices /\ ctrl.link[d].st = "asking" => ctrl'.link[d].st = "asking"
      BY <2>4
    <3> QED
      BY <2>2, <2>3, <3>1, <3>2
  <2>5. CASE taken
    <3>1. 1 \in 1 .. Len(ctrl.cmds)
      BY <1>2, <2>5
    <3>2. \A n \in 1 .. Len(ctrl'.cmds) :
             n + 1 \in 1 .. Len(ctrl.cmds) /\ n + 1 # 1 /\ ctrl'.cmds[n] = ctrl.cmds[n + 1]
      BY <1>6, <2>5
    <3>3. CASE Reply1(ctrl.cmds[1], d)
      BY <2>2, <2>3, <3>1, <3>2, <3>3
    <3>4. CASE ~Reply1(ctrl.cmds[1], d)
      <4>1. d \in Devices /\ ctrl.link[d].st = "asking" => ctrl'.link[d].st = "asking"
        BY <3>4
      <4>2. /\ \A n \in 1 .. Len(events') : RequestAt(n, d)' =>
                  /\ d \in Devices /\ ctrl'.link[d].st = "asking"
                  /\ ~AnsweredNext(d)
                  /\ \A m \in 1 .. Len(events') : RequestAt(m, d)' => m = n
                  /\ \A m \in 1 .. Len(ctrl'.cmds) : ~Reply1(ctrl'.cmds[m], d)
            /\ AnsweredNext(d) =>
                  /\ d \in Devices /\ ctrl'.link[d].st = "asking"
                  /\ \A m \in 1 .. Len(ctrl'.cmds) : ~Reply1(ctrl'.cmds[m], d)
        BY <2>2, <2>3, <3>2, <4>1
      <4>3. ASSUME NEW n \in 1 .. Len(ctrl'.cmds), Reply1(ctrl'.cmds[n], d)
            PROVE  /\ d \in Devices /\ ctrl'.link[d].st = "asking"
                   /\ \A m \in 1 .. Len(ctrl'.cmds) : Reply1(ctrl'.cmds[m], d) => m = n
        <5>1. n + 1 \in 1 .. Len(ctrl.cmds) /\ Reply1(ctrl.cmds[n + 1], d)
          BY <3>2, <4>3
        <5>2. \A m \in 1 .. Len(ctrl'.cmds) : Reply1(ctrl'.cmds[m], d) => m + 1 = n + 1
          BY <2>3, <3>2, <5>1
        <5> QED
          BY <2>3, <4>1, <5>1, <5>2
      <4> QED
        BY <4>2, <4>3
    <3> QED
      BY <3>3, <3>4
  <2> QED
    BY <2>4, <2>5
<1> QED
  BY <1>3, <1>5, <1>7, <1>8, <1>9 DEF IInv

SameLinks(a, b) == \A d \in Devices : a[d].st = b[d].st /\ a[d].h = b[d].h

\* A step that makes and ends no connection
LEMMA QuietStepKeeps ==
    ASSUME IInv, ctrl.on, UNCHANGED Hosted, ctrl' \in CtrlRec, SameLinks(ctrl.link, ctrl'.link),
           NEW taken \in BOOLEAN, taken => ctrl.cmds # <<>>,
           ctrl'.cmds = IF taken THEN Tail(ctrl.cmds) ELSE ctrl.cmds,
           \A a \in ctrl'.acts : SoundAct(a),
           Grows(events, events'),
           \A n \in Len(events) + 1 .. Len(events') : /\ SoundEv(events'[n])
              /\ events'[n].ev \notin {"CONN_REQUEST", "CONN_COMPLETE", "DISCONNECTION_COMPLETE"}
    PROVE  IInv'
<1>1. /\ CtrlInv /\ AskInv /\ WantInv /\ TrackOk(conns, events, ctrl.link) /\ ctrl.cmds \in Seq(Cmd)
      /\ events \in Seq(Ev)
  BY CtrlParts DEF IInv, CtrlInv, TrackInv, EventsInv
<1>2. CtrlInv'
  <2>1. \A n \in 1 .. Len(ctrl'.cmds) : SoundCmd(ctrl'.cmds[n])
    <3>1. \A n \in 1 .. Len(ctrl.cmds) : SoundCmd(ctrl.cmds[n])
      BY <1>1 DEF CtrlInv
    <3>2. CASE taken
      BY <1>1, <3>1, <3>2, HeadTailProperties
    <3>3. CASE ~taken
      BY <3>1, <3>3
    <3> QED
      BY <3>2, <3>3
  <2>2. \A d \in Devices : ctrl'.link[d].h # 0 <=> ctrl'.link[d].st \in HasHandle
    BY <1>1 DEF CtrlInv, SameLinks
  <2>3. \A d, f \in Devices : ctrl'.link[d].h # 0 /\ ctrl'.link[d].h = ctrl'.link[f].h => d = f
    BY <1>1 DEF CtrlInv, SameLinks
  <2> QED
    BY <2>1, <2>2, <2>3 DEF CtrlInv
<1>3. TrackOk(conns, events', ctrl'.link)
  <2>1. \A d, h : IsUp(ctrl.link, d, h) => IsUp(ctrl'.link, d, h)
    BY DEF IsUp, SameLinks
  <2>2. \A n \in Len(events) + 1 .. Len(events') : ~Begins(events', n)
    BY DEF Begins
  <2> QED
    BY <1>1, <2>1, <2>2, TrackGrows
<1>4. /\ \A d \in Devices : ctrl.link[d].st = "asking" => ctrl'.link[d].st = "asking"
      /\ \A d \in Devices : ctrl'.link[d].st \in {"paging", "accepted", "up"} => d \in keys \/ Wanted(d)
  BY <1>1 DEF SameLinks, WantInv
<1>5. \A n \in Len(events) + 1 .. Len(events') : SoundEv(events'[n]) /\ events'[n].ev # "CONN_REQUEST"
  OBVIOUS
<1> QED
  BY <1>2, <1>3, <1>4, <1>5, CtrlStepKeeps

LEMMA Emitted ==
    ASSUME EventsInv, NEW e \in Ev, Emit(e)
    PROVE  /\ Grows(events, events') /\ Len(events') = Len(events) + 1 /\ Len(events) \in Nat
           /\ events'[Len(events) + 1] = e
           /\ \A n \in Len(events) + 1 .. Len(events') : n = Len(events) + 1 /\ events'[n] = e
<1>1. events \in Seq(Ev) /\ events' = Append(events, e)
  BY DEF EventsInv, Emit
<1>2. /\ events' \in Seq(Ev) /\ Len(events') = Len(events) + 1 /\ Len(events) \in Nat
      /\ \A n \in 1 .. Len(events) : events'[n] = events[n]
      /\ events'[Len(events) + 1] = e
  BY <1>1
<1> QED
  BY <1>2 DEF Grows

LEMMA EventType ==
    ASSUME NEW n \in EventName, NEW o \in OpName \cup {"none"}, NEW d \in Device, NEW h \in Handle0,
           NEW s \in {"ok", "fail", "exists", "ext"}
    PROVE  LET e == Event(n, o, d, h, s)
           IN  e \in Ev /\ e.ev = n /\ e.op = o /\ e.dev = d /\ e.h = h /\ e.st = s
BY DEF Event, Ev

\* A quiet step that sends one event
LEMMA QuietEmitKeeps ==
    ASSUME IInv, ctrl.on, UNCHANGED Hosted, ctrl' \in CtrlRec, SameLinks(ctrl.link, ctrl'.link),
           NEW taken \in BOOLEAN, taken => ctrl.cmds # <<>>,
           ctrl'.cmds = IF taken THEN Tail(ctrl.cmds) ELSE ctrl.cmds,
           \A a \in ctrl'.acts : SoundAct(a),
           NEW e \in Ev, Emit(e), SoundEv(e),
           e.ev \notin {"CONN_REQUEST", "CONN_COMPLETE", "DISCONNECTION_COMPLETE"}
    PROVE  IInv'
<1>1. EventsInv
  BY DEF IInv
<1>2. Grows(events, events') /\ \A n \in Len(events) + 1 .. Len(events') : events'[n] = e
  BY <1>1, Emitted
<1>3. \A n \in Len(events) + 1 .. Len(events') : /\ SoundEv(events'[n])
         /\ events'[n].ev \notin {"CONN_REQUEST", "CONN_COMPLETE", "DISCONNECTION_COMPLETE"}
  BY <1>2
<1> QED
  BY <1>2, <1>3, QuietStepKeeps

\* DeviceAt(): the device that is connected with a handle
LEMMA DeviceAtFacts ==
    ASSUME NEW h
    PROVE  \/ DeviceAt(h) = NoDevice
           \/ /\ DeviceAt(h) \in Devices /\ h # 0
              /\ ctrl.link[DeviceAt(h)].h = h /\ ctrl.link[DeviceAt(h)].st = "up"
<1>1. CASE h # 0 /\ DevicesAt(h) # {}
  <2>1. (CHOOSE d \in DevicesAt(h) : TRUE) \in DevicesAt(h)
    BY <1>1
  <2>2. DeviceAt(h) = CHOOSE d \in DevicesAt(h) : TRUE
    BY <1>1 DEF DeviceAt
  <2>3. DeviceAt(h) \in DevicesAt(h)
    BY <2>1, <2>2
  <2> QED
    BY <1>1, <2>3 DEF DevicesAt
<1>2. CASE ~(h # 0 /\ DevicesAt(h) # {})
  BY <1>2 DEF DeviceAt
<1> QED
  BY <1>1, <1>2

\* What a step of the controller changes of it
LEMMA CtrlTakes ==
    ASSUME NEW c \in CtrlRec, c.cmds # <<>>
    PROVE  LET t == [c EXCEPT !.cmds = Tail(@)]
           IN  /\ t \in CtrlRec /\ t.cmds = Tail(c.cmds) /\ t.acts = c.acts
               /\ t.link = c.link /\ t.on = c.on /\ t.refused = c.refused
<1>1. Tail(c.cmds) \in Seq(Cmd)
  BY CtrlParts, HeadTailProperties
<1> QED
  BY <1>1 DEF CtrlRec

LEMMA CtrlActs ==
    ASSUME NEW c \in CtrlRec, NEW as \in SUBSET ActRec
    PROVE  LET t == [c EXCEPT !.acts = as]
           IN  /\ t \in CtrlRec /\ t.cmds = c.cmds /\ t.acts = as
               /\ t.link = c.link /\ t.on = c.on
BY DEF CtrlRec

LEMMA CtrlRefuses ==
    ASSUME NEW c \in CtrlRec, NEW rs \in SUBSET OpName
    PROVE  LET t == [c EXCEPT !.refused = rs]
           IN  /\ t \in CtrlRec /\ t.cmds = c.cmds /\ t.acts = c.acts
               /\ t.link = c.link /\ t.on = c.on
BY DEF CtrlRec

LEMMA CtrlLinks ==
    ASSUME NEW c \in CtrlRec, NEW d \in Devices, NEW l \in LinkRec
    PROVE  LET t == [c EXCEPT !.link[d] = l]
           IN  /\ t \in CtrlRec /\ t.cmds = c.cmds /\ t.acts = c.acts /\ t.on = c.on
               /\ t.refused = c.refused
               /\ \A f \in Devices : t.link[f] = IF f = d THEN l ELSE c.link[f]
<1> DEFINE m == [c.link EXCEPT ![d] = l]
           t == [c EXCEPT !.link = m]
<1>1. c.link \in [Devices -> LinkRec]
  BY CtrlParts
<1>2. m \in [Devices -> LinkRec] /\ \A f \in Devices : m[f] = IF f = d THEN l ELSE c.link[f]
  BY <1>1
<1>3. [c EXCEPT !.link[d] = l] = t
  OBVIOUS
<1> HIDE DEF m
<1>4. t \in CtrlRec /\ t.cmds = c.cmds /\ t.acts = c.acts /\ t.on = c.on /\ t.refused = c.refused /\ t.link = m
  BY <1>2 DEF CtrlRec
<1> QED
  BY <1>2, <1>3, <1>4

LEMMA LinkTypes ==
    /\ \A l \in LinkRec : l.st \in LinkState /\ l.h \in Handle0 /\ l.asked \in BOOLEAN
    /\ \A l \in LinkRec, s \in LinkState :
          LET m == [l EXCEPT !.st = s] IN m \in LinkRec /\ m.st = s /\ m.h = l.h
    /\ \A l \in LinkRec :
          LET m == [l EXCEPT !.asked = TRUE] IN m \in LinkRec /\ m.st = l.st /\ m.h = l.h
BY DEF LinkRec

----------------------------------------------------------------------------
\* The controller, step by step

LEMMA CommandTaken ==
    ASSUME IInv, NEW cmd, TakeCommand(cmd)
    PROVE  /\ ctrl.on /\ ctrl.cmds # <<>> /\ cmd = ctrl.cmds[1] /\ UNCHANGED Hosted
           /\ cmd \in Cmd /\ SoundCmd(cmd) /\ Grounded(cmd) /\ ctrl \in CtrlRec
           /\ Taken \in CtrlRec /\ Taken.cmds = Tail(ctrl.cmds) /\ Taken.acts = ctrl.acts
           /\ Taken.link = ctrl.link /\ Taken.on = ctrl.on
<1>1. ctrl.on /\ ctrl.cmds # <<>> /\ cmd = Head(ctrl.cmds) /\ UNCHANGED Hosted
  BY DEF TakeCommand
<1>2. CtrlInv /\ WantInv /\ ctrl \in CtrlRec /\ ctrl.cmds \in Seq(Cmd)
  BY CtrlParts DEF IInv, CtrlInv
<1>3. cmd = ctrl.cmds[1] /\ 1 \in 1 .. Len(ctrl.cmds) /\ cmd \in Cmd
  BY <1>1, <1>2
<1>4. SoundCmd(cmd) /\ Grounded(cmd)
  BY <1>2, <1>3 DEF CtrlInv, WantInv
<1>5. /\ Taken \in CtrlRec /\ Taken.cmds = Tail(ctrl.cmds) /\ Taken.acts = ctrl.acts
      /\ Taken.link = ctrl.link /\ Taken.on = ctrl.on
  BY <1>1, <1>2, CtrlTakes DEF Taken
<1> QED
  BY <1>1, <1>2, <1>3, <1>4, <1>5

LEMMA TakenOnFacts ==
    ASSUME IInv, NEW cmd, TakeCommand(cmd)
    PROVE  /\ TakenOn(cmd) \in CtrlRec /\ TakenOn(cmd).cmds = Tail(ctrl.cmds)
           /\ TakenOn(cmd).acts = ctrl.acts /\ SameLinks(ctrl.link, TakenOn(cmd).link)
<1>1. /\ Taken \in CtrlRec /\ Taken.cmds = Tail(ctrl.cmds) /\ Taken.acts = ctrl.acts
      /\ Taken.link = ctrl.link /\ ctrl.link \in [Devices -> LinkRec]
  BY CommandTaken, CtrlParts
<1> DEFINE d == DeviceAt(cmd.h)
<1>2. CASE cmd.op # "AUTH_REQUESTED" \/ d = NoDevice
  BY <1>1, <1>2 DEF TakenOn, SameLinks
<1>3. CASE ~(cmd.op # "AUTH_REQUESTED" \/ d = NoDevice)
  <2> DEFINE l == [ctrl.link[d] EXCEPT !.asked = TRUE]
  <2>1. d \in Devices
    BY <1>3, DeviceAtFacts
  <2>2. TakenOn(cmd) = [Taken EXCEPT !.link[d].asked = TRUE]
    BY <1>3 DEF TakenOn
  <2> HIDE DEF d
  <2>3. ctrl.link[d] \in LinkRec
    BY <1>1, <2>1
  <2>4. l \in LinkRec /\ l.st = ctrl.link[d].st /\ l.h = ctrl.link[d].h
    BY <2>3, LinkTypes
  <2>5. TakenOn(cmd) = [Taken EXCEPT !.link[d] = l]
    BY <1>1, <2>1, <2>2
  <2> HIDE DEF l
  <2>6. /\ TakenOn(cmd) \in CtrlRec /\ TakenOn(cmd).cmds = Taken.cmds /\ TakenOn(cmd).acts = Taken.acts
        /\ \A f \in Devices : TakenOn(cmd).link[f] = IF f = d THEN l ELSE Taken.link[f]
    BY <1>1, <2>1, <2>4, <2>5, CtrlLinks
  <2>7. SameLinks(ctrl.link, TakenOn(cmd).link)
    BY <1>1, <2>4, <2>6 DEF SameLinks
  <2> QED
    BY <1>1, <2>6, <2>7
<1> QED
  BY <1>2, <1>3

\* What the controller sends about a command
LEMMA StatusFacts ==
    ASSUME NEW cmd \in Cmd, NEW s \in {"ok", "fail", "exists"}
    PROVE  /\ Status(cmd, s) \in Ev /\ SoundEv(Status(cmd, s)) /\ Status(cmd, s).ev = "CMD_STATUS"
           /\ Complete(cmd) \in Ev /\ SoundEv(Complete(cmd)) /\ Complete(cmd).ev = "CMD_COMPLETE"
<1>1. cmd.op \in OpName \cup {"none"} /\ NoDevice \in Device /\ 0 \in Handle0
      /\ "CMD_STATUS" \in EventName /\ "CMD_COMPLETE" \in EventName
  BY CmdType DEF Device, Handle0, EventName
<1>2. /\ Status(cmd, s) \in Ev /\ Status(cmd, s).ev = "CMD_STATUS" /\ Status(cmd, s).st = s
      /\ Complete(cmd) \in Ev /\ Complete(cmd).ev = "CMD_COMPLETE" /\ Complete(cmd).st = "ok"
  BY <1>1, EventType DEF Status, Complete
<1> QED
  BY <1>2 DEF SoundEv

LEMMA RefuseKeeps ==
    ASSUME IInv, NEW cmd, Refuse(cmd)
    PROVE  IInv'
<1> DEFINE t == TakenOn(cmd)
<1>1. TakeCommand(cmd) /\ ctrl' = [t EXCEPT !.refused = @ \cup {cmd.op}] /\ Emit(Status(cmd, "fail"))
  BY DEF Refuse
<1>2. /\ ctrl.on /\ ctrl.cmds # <<>> /\ UNCHANGED Hosted /\ cmd \in Cmd /\ cmd.op \in OpName
      /\ t \in CtrlRec /\ t.cmds = Tail(ctrl.cmds) /\ t.acts = ctrl.acts /\ SameLinks(ctrl.link, t.link)
  BY <1>1, CommandTaken, TakenOnFacts, CmdType
<1> HIDE DEF t
<1>3. /\ ctrl' \in CtrlRec /\ ctrl'.cmds = t.cmds /\ ctrl'.acts = t.acts /\ ctrl'.link = t.link
  <2>1. t.refused \cup {cmd.op} \in SUBSET OpName
    BY <1>2, CtrlParts
  <2> QED
    BY <1>1, <1>2, <2>1, CtrlRefuses
<1>4. \A a \in ctrl'.acts : SoundAct(a)
  BY <1>2, <1>3 DEF IInv, CtrlInv
<1>5. Status(cmd, "fail") \in Ev /\ SoundEv(Status(cmd, "fail")) /\ Status(cmd, "fail").ev = "CMD_STATUS"
  BY <1>2, StatusFacts
<1>6. SameLinks(ctrl.link, ctrl'.link) /\ ctrl'.cmds = Tail(ctrl.cmds)
  BY <1>2, <1>3
<1> QED
  BY <1>1, <1>2, <1>3, <1>4, <1>5, <1>6, QuietEmitKeeps

LEMMA ActType ==
    ASSUME NEW n \in ActKind, NEW d \in Device, NEW h \in Handle0
    PROVE  Act(n, d, h) \in ActRec /\ Act(n, d, h).kind = n /\ Act(n, d, h).dev = d /\ Act(n, d, h).h = h
BY DEF Act, ActRec

\* An authentication is started for a device that is connected.
LEMMA StartedFacts ==
    ASSUME NEW cmd \in Cmd, SoundCmd(cmd), Possible(cmd),
           cmd.op \in EndsWithStatus \cup {"INQUIRY"}, cmd.op # "CREATE_CONN"
    PROVE  Started(cmd) \in ActRec /\ SoundAct(Started(cmd))
<1> DEFINE d == DeviceAt(cmd.h)
<1>1. /\ cmd.dev \in Device /\ cmd.h \in Handle0 /\ d \in Device /\ NoDevice \in Device /\ 0 \in Handle0
  BY CmdType, DeviceAtFacts DEF Device, Handle0
<1>2. {"NAME_COMPLETE", "INQUIRY_COMPLETE", "RMT_FEATURES", "EXT_FEATURES", "ENCRYPT_CHANGE", "start"}
         \subseteq ActKind
  BY DEF ActKind, LinkActs, AuthStages
<1> HIDE DEF d
<1>3. CASE cmd.op = "REMOTE_NAME_REQUEST"
  <2>1. Started(cmd) = Act("NAME_COMPLETE", cmd.dev, 0)
    BY <1>3 DEF Started
  <2> QED
    BY <1>1, <1>2, <2>1, ActType DEF SoundAct, AuthStages
<1>4. CASE cmd.op = "INQUIRY"
  <2>1. Started(cmd) = Act("INQUIRY_COMPLETE", NoDevice, 0)
    BY <1>4 DEF Started
  <2> QED
    BY <1>1, <1>2, <2>1, ActType DEF SoundAct, AuthStages
<1>5. CASE cmd.op = "READ_REMOTE_FEATURES"
  <2>1. Started(cmd) = Act("RMT_FEATURES", d, cmd.h)
    BY <1>5 DEF Started, d
  <2> QED
    BY <1>1, <1>2, <2>1, ActType DEF SoundAct, AuthStages
<1>6. CASE cmd.op = "READ_REMOTE_EXT_FEATURES"
  <2>1. Started(cmd) = Act("EXT_FEATURES", d, cmd.h)
    BY <1>6 DEF Started, d
  <2> QED
    BY <1>1, <1>2, <2>1, ActType DEF SoundAct, AuthStages
<1>7. CASE cmd.op = "SET_CONN_ENCRYPT"
  <2>1. Started(cmd) = Act("ENCRYPT_CHANGE", d, cmd.h)
    BY <1>7 DEF Started, d
  <2> QED
    BY <1>1, <1>2, <2>1, ActType DEF SoundAct, AuthStages
<1>8. CASE cmd.op = "AUTH_REQUESTED"
  <2>1. Started(cmd) = Act("start", d, cmd.h)
    BY <1>8 DEF Started, d
  <2>2. Started(cmd) \in ActRec /\ Started(cmd).dev = d
    BY <1>1, <1>2, <2>1, ActType
  <2>3. d # NoDevice
    BY <1>8, <2>2 DEF Possible, SoundCmd
  <2>4. d \in Devices
    BY <2>3, DeviceAtFacts DEF d
  <2> QED
    BY <2>2, <2>4 DEF SoundAct
<1> QED
  BY <1>3, <1>4, <1>5, <1>6, <1>7, <1>8 DEF EndsWithStatus

LEMMA StartActKeeps ==
    ASSUME IInv, NEW cmd, StartAct(cmd)
    PROVE  IInv'
<1> DEFINE t == TakenOn(cmd)
<1>1. /\ TakeCommand(cmd) /\ ctrl' = [t EXCEPT !.acts = @ \cup {Started(cmd)}] /\ Emit(Status(cmd, "ok"))
      /\ Possible(cmd) /\ cmd.op \in EndsWithStatus \cup {"INQUIRY"} /\ cmd.op # "CREATE_CONN"
  BY DEF StartAct
<1>2. /\ ctrl.on /\ ctrl.cmds # <<>> /\ UNCHANGED Hosted /\ cmd \in Cmd /\ SoundCmd(cmd)
      /\ t \in CtrlRec /\ t.cmds = Tail(ctrl.cmds) /\ t.acts = ctrl.acts /\ SameLinks(ctrl.link, t.link)
  BY <1>1, CommandTaken, TakenOnFacts
<1> HIDE DEF t
<1>3. Started(cmd) \in ActRec /\ SoundAct(Started(cmd))
  BY <1>1, <1>2, StartedFacts
<1>4. /\ ctrl' \in CtrlRec /\ ctrl'.cmds = t.cmds /\ ctrl'.acts = t.acts \cup {Started(cmd)}
      /\ ctrl'.link = t.link
  <2>1. t.acts \cup {Started(cmd)} \in SUBSET ActRec
    BY <1>2, <1>3, CtrlParts
  <2> QED
    BY <1>1, <1>2, <2>1, CtrlActs
<1>5. \A a \in ctrl'.acts : SoundAct(a)
  BY <1>2, <1>3, <1>4 DEF IInv, CtrlInv
<1>6. Status(cmd, "ok") \in Ev /\ SoundEv(Status(cmd, "ok")) /\ Status(cmd, "ok").ev = "CMD_STATUS"
  BY <1>2, StatusFacts
<1>7. SameLinks(ctrl.link, ctrl'.link) /\ ctrl'.cmds = Tail(ctrl.cmds)
  BY <1>2, <1>4
<1> QED
  BY <1>1, <1>2, <1>4, <1>5, <1>6, <1>7, QuietEmitKeeps

\* An act goes on to another stage.
LEMMA ActMoves ==
    ASSUME NEW a \in ActRec, SoundAct(a), a.kind \in AuthStages, NEW n \in AuthStages
    PROVE  LET b == [a EXCEPT !.kind = n] IN b \in ActRec /\ SoundAct(b)
<1>1. a.dev \in Devices /\ n \in ActKind
  BY DEF SoundAct, ActKind
<1>2. [a EXCEPT !.kind = n] \in ActRec /\ [a EXCEPT !.kind = n].dev = a.dev
  BY <1>1 DEF ActRec
<1> QED
  BY <1>1, <1>2 DEF SoundAct

LEMMA CompleteCommandKeeps ==
    ASSUME IInv, NEW cmd, CompleteCommand(cmd)
    PROVE  IInv'
<1> DEFINE as == {IF a.kind = Asking[cmd.op] /\ a.dev = cmd.dev
                  THEN [a EXCEPT !.kind = NextStage[cmd.op]] ELSE a : a \in Taken.acts}
<1>1. /\ TakeCommand(cmd) /\ cmd.op \in DOMAIN NextStage /\ Emit(Complete(cmd))
      /\ ctrl' = [Taken EXCEPT !.acts = as]
  BY DEF CompleteCommand
<1>2. /\ ctrl.on /\ ctrl.cmds # <<>> /\ UNCHANGED Hosted /\ cmd \in Cmd
      /\ Taken \in CtrlRec /\ Taken.cmds = Tail(ctrl.cmds) /\ Taken.acts = ctrl.acts
      /\ Taken.link = ctrl.link
  BY <1>1, CommandTaken
<1>3. \A b \in Taken.acts : b \in ActRec /\ SoundAct(b) /\ b.kind \in ActKind
  <2>1. Taken.acts \in SUBSET ActRec /\ \A b \in Taken.acts : SoundAct(b)
    BY <1>2, CtrlParts DEF IInv, CtrlInv
  <2> QED
    BY <2>1 DEF ActRec
<1>4. \A b \in Taken.acts : b.kind = Asking[cmd.op] =>
         b.kind \in AuthStages /\ NextStage[cmd.op] \in AuthStages
  <2>1. cmd.op \in {"LINK_KEY_REPLY", "LINK_KEY_NEG_REPLY", "IO_CAPABILITY_REPLY",
                    "USER_CONFIRMATION_REPLY", "USER_CONFIRMATION_NEG_REPLY", "READ_LOCAL"}
    BY <1>1 DEF NextStage
  <2>2. cmd.op # "READ_LOCAL" => Asking[cmd.op] \in AuthStages /\ NextStage[cmd.op] \in AuthStages
    BY <2>1 DEF Asking, NextStage, AuthStages
  <2>3. cmd.op = "READ_LOCAL" => Asking[cmd.op] \notin ActKind
    BY DEF Asking, ActKind, AuthStages, LinkActs
  <2> QED
    BY <1>3, <2>2, <2>3
<1>5. \A b \in as : b \in ActRec /\ SoundAct(b)
  BY <1>3, <1>4, ActMoves
<1> HIDE DEF as
<1>6. /\ ctrl' \in CtrlRec /\ ctrl'.cmds = Taken.cmds /\ ctrl'.acts = as /\ ctrl'.link = Taken.link
  <2>1. as \in SUBSET ActRec
    BY <1>5
  <2> QED
    BY <1>1, <1>2, <2>1, CtrlActs
<1>7. Complete(cmd) \in Ev /\ SoundEv(Complete(cmd)) /\ Complete(cmd).ev = "CMD_COMPLETE"
  BY <1>2, StatusFacts
<1>8. SameLinks(ctrl.link, ctrl'.link) /\ ctrl'.cmds = Tail(ctrl.cmds) /\ \A a \in ctrl'.acts : SoundAct(a)
  BY <1>2, <1>5, <1>6 DEF SameLinks
<1> QED
  BY <1>1, <1>2, <1>6, <1>7, <1>8, QuietEmitKeeps

\* What a step of the controller that takes no command finds
LEMMA CtrlFacts ==
    ASSUME IInv
    PROVE  /\ ctrl \in CtrlRec /\ EventsInv /\ events \in Seq(Ev)
           /\ \A a \in ctrl.acts : a \in ActRec /\ SoundAct(a)
           /\ NoDevice \in Device /\ 0 \in Handle0 /\ Devices \subseteq Device
<1>1. ctrl \in CtrlRec /\ EventsInv /\ events \in Seq(Ev) /\ \A a \in ctrl.acts : SoundAct(a)
  BY DEF IInv, CtrlInv, EventsInv
<1> QED
  BY <1>1, CtrlParts DEF Device, Handle0

LEMMA ActParts == \A a \in ActRec : a.kind \in ActKind /\ a.dev \in Device /\ a.h \in Handle0
BY DEF ActRec

\* A step that changes what the controller is doing, and sends one event
LEMMA ActsStepKeeps ==
    ASSUME IInv, ctrl.on, UNCHANGED Hosted, NEW as, ctrl' = [ctrl EXCEPT !.acts = as],
           \A a \in as : a \in ActRec /\ SoundAct(a),
           Grows(events, events'),
           \A n \in Len(events) + 1 .. Len(events') : /\ SoundEv(events'[n])
              /\ events'[n].ev \notin {"CONN_REQUEST", "CONN_COMPLETE", "DISCONNECTION_COMPLETE"}
    PROVE  IInv'
<1>1. ctrl \in CtrlRec
  BY CtrlFacts
<1>2. /\ ctrl' \in CtrlRec /\ ctrl'.cmds = ctrl.cmds /\ ctrl'.acts = as /\ ctrl'.link = ctrl.link
  <2>1. as \in SUBSET ActRec
    OBVIOUS
  <2> QED
    BY <1>1, <2>1, CtrlActs
<1>3. SameLinks(ctrl.link, ctrl'.link) /\ \A a \in ctrl'.acts : SoundAct(a)
  BY <1>2 DEF SameLinks
<1>4. ctrl'.cmds = IF FALSE THEN Tail(ctrl.cmds) ELSE ctrl.cmds
  BY <1>2
<1> QED
  BY <1>2, <1>3, <1>4, QuietStepKeeps

LEMMA EndActKeeps ==
    ASSUME IInv, NEW a \in ctrl.acts, NEW st \in {"ok", "fail", "ext"}, NEW ext, EndAct(a, st, ext)
    PROVE  IInv'
<1> DEFINE e == Event(a.kind, "none", a.dev, a.h, st)
<1>1. /\ ctrl.on /\ UNCHANGED Hosted /\ ctrl' = [ctrl EXCEPT !.acts = ctrl.acts \ {a}] /\ Emit(e)
  BY DEF EndAct
<1>2. /\ a.kind \in LinkActs \cup {"NAME_COMPLETE", "INQUIRY_COMPLETE"}
      /\ st = "ext" => a.kind = "RMT_FEATURES"
  BY DEF EndAct
<1>3. /\ EventsInv /\ a.dev \in Device /\ a.h \in Handle0
      /\ \A b \in ctrl.acts \ {a} : b \in ActRec /\ SoundAct(b)
  BY CtrlFacts, ActParts
<1>4. a.kind \in EventName
         /\ a.kind \notin {"CONN_REQUEST", "CONN_COMPLETE", "DISCONNECTION_COMPLETE",
                           "LINK_KEY_NOTIFY", "USER_CONFIRMATION_REQUEST"}
  BY <1>2 DEF LinkActs, EventName
<1>5. e \in Ev /\ e.ev = a.kind /\ e.st = st
  BY <1>3, <1>4, EventType
<1> HIDE DEF e
<1>6. SoundEv(e)
  BY <1>2, <1>4, <1>5 DEF SoundEv
<1>7. Grows(events, events') /\ \A n \in Len(events) + 1 .. Len(events') : events'[n] = e
  BY <1>1, <1>3, <1>5, Emitted
<1>8. \A n \in Len(events) + 1 .. Len(events') : /\ SoundEv(events'[n])
         /\ events'[n].ev \notin {"CONN_REQUEST", "CONN_COMPLETE", "DISCONNECTION_COMPLETE"}
  BY <1>4, <1>5, <1>6, <1>7
<1> QED
  BY <1>1, <1>3, <1>7, <1>8, ActsStepKeeps

\* Events about a device
LEMMA AboutFacts ==
    ASSUME NEW n \in EventName, NEW d \in Device, NEW s \in {"ok", "fail"},
           n \in {"CONN_REQUEST", "LINK_KEY_NOTIFY", "USER_CONFIRMATION_REQUEST"} => d \in Devices
    PROVE  About(n, d, s) \in Ev /\ SoundEv(About(n, d, s)) /\ About(n, d, s).ev = n
           /\ About(n, d, s).dev = d /\ About(n, d, s).st = s
<1>1. 0 \in Handle0
  BY DEF Handle0
<1>2. About(n, d, s) \in Ev /\ About(n, d, s).ev = n /\ About(n, d, s).dev = d /\ About(n, d, s).st = s
  BY <1>1, EventType DEF About
<1> QED
  BY <1>2 DEF SoundEv

LEMMA OnFacts ==
    ASSUME NEW n \in EventName, NEW h \in Handle0, NEW s \in {"ok", "fail"},
           n \notin {"CONN_REQUEST", "LINK_KEY_NOTIFY", "USER_CONFIRMATION_REQUEST"}
    PROVE  On(n, h, s) \in Ev /\ SoundEv(On(n, h, s)) /\ On(n, h, s).ev = n /\ On(n, h, s).h = h
<1>1. NoDevice \in Device
  BY DEF Device
<1>2. On(n, h, s) \in Ev /\ On(n, h, s).ev = n /\ On(n, h, s).h = h /\ On(n, h, s).st = s
  BY <1>1, EventType DEF On
<1> QED
  BY <1>2 DEF SoundEv

LEMMA AskHostKeeps ==
    ASSUME IInv, NEW a \in ctrl.acts, AskHost(a)
    PROVE  IInv'
<1> DEFINE b == [a EXCEPT !.kind = AfterAsking[a.kind]]
           as == (ctrl.acts \ {a}) \cup {b}
           e == About(Asks[a.kind], a.dev, "ok")
<1>1. /\ ctrl.on /\ UNCHANGED Hosted /\ a.kind \in DOMAIN Asks
      /\ ctrl' = [ctrl EXCEPT !.acts = as] /\ Emit(e)
  BY DEF AskHost
<1>2. a.kind \in {"start", "ssp", "confirm"}
  BY <1>1 DEF Asks
<1>3. /\ Asks[a.kind] \in EventName /\ AfterAsking[a.kind] \in AuthStages /\ a.kind \in AuthStages
      /\ Asks[a.kind] \notin {"CONN_REQUEST", "CONN_COMPLETE", "DISCONNECTION_COMPLETE"}
  BY <1>2 DEF Asks, AfterAsking, EventName, AuthStages
<1>4. EventsInv /\ a \in ActRec /\ SoundAct(a) /\ \A x \in ctrl.acts : x \in ActRec /\ SoundAct(x)
  BY CtrlFacts
<1>5. b \in ActRec /\ SoundAct(b)
  BY <1>3, <1>4, ActMoves
<1> HIDE DEF b
<1>6. \A x \in as : x \in ActRec /\ SoundAct(x)
  BY <1>4, <1>5
<1>7. e \in Ev /\ SoundEv(e) /\ e.ev = Asks[a.kind]
  <2>1. a.dev \in Devices /\ a.dev \in Device
    BY <1>3, <1>4 DEF SoundAct, Device
  <2> QED
    BY <1>3, <2>1, AboutFacts
<1> HIDE DEF as, e
<1>8. Grows(events, events') /\ \A n \in Len(events) + 1 .. Len(events') : events'[n] = e
  BY <1>1, <1>4, <1>7, Emitted
<1>9. \A n \in Len(events) + 1 .. Len(events') : /\ SoundEv(events'[n])
         /\ events'[n].ev \notin {"CONN_REQUEST", "CONN_COMPLETE", "DISCONNECTION_COMPLETE"}
  BY <1>3, <1>7, <1>8
<1> QED
  BY <1>1, <1>6, <1>8, <1>9, ActsStepKeeps

\* Several events are sent.
LEMMA Sent ==
    ASSUME EventsInv, NEW fs \in Seq(Ev), events' = events \o fs
    PROVE  /\ Grows(events, events')
           /\ \A n \in Len(events) + 1 .. Len(events') : \E m \in 1 .. Len(fs) : events'[n] = fs[m]
<1>1. events \in Seq(Ev) /\ Len(events) \in Nat /\ Len(fs) \in Nat
  BY DEF EventsInv
<1>2. /\ events' \in Seq(Ev) /\ Len(events') = Len(events) + Len(fs)
      /\ \A n \in 1 .. Len(events) + Len(fs) :
            events'[n] = IF n <= Len(events) THEN events[n] ELSE fs[n - Len(events)]
  BY <1>1, ConcatProperties
<1>3. Grows(events, events')
  BY <1>1, <1>2 DEF Grows
<1>4. ASSUME NEW n \in Len(events) + 1 .. Len(events')
      PROVE  \E m \in 1 .. Len(fs) : events'[n] = fs[m]
  <2>1. n - Len(events) \in 1 .. Len(fs) /\ n \in 1 .. Len(events) + Len(fs) /\ ~(n <= Len(events))
    BY <1>1, <1>2
  <2> QED
    BY <1>2, <2>1
<1> QED
  BY <1>3, <1>4

LEMMA EndAuthenticationKeeps ==
    ASSUME IInv, NEW a \in ctrl.acts, EndAuthentication(a)
    PROVE  IInv'
<1> DEFINE done(st) == On("AUTH_COMPLETE", a.h, st)
           paired(st) == About("SIMPLE_PAIRING_COMPLETE", a.dev, st)
           noted == About("LINK_KEY_NOTIFY", a.dev, "ok")
           Quiet1(e) == /\ e \in Ev /\ SoundEv(e)
                        /\ e.ev \notin {"CONN_REQUEST", "CONN_COMPLETE", "DISCONNECTION_COMPLETE"}
<1>1. /\ ctrl.on /\ UNCHANGED Hosted /\ a.kind \in AuthStages
      /\ ctrl' = [ctrl EXCEPT !.acts = ctrl.acts \ {a}]
  BY DEF EndAuthentication
<1>2. EventsInv /\ a.dev \in Devices /\ a.dev \in Device /\ a.h \in Handle0
      /\ \A x \in ctrl.acts \ {a} : x \in ActRec /\ SoundAct(x)
  BY <1>1, CtrlFacts, ActParts DEF SoundAct
<1>3. /\ Quiet1(done("ok")) /\ Quiet1(done("fail")) /\ Quiet1(paired("ok")) /\ Quiet1(paired("fail"))
      /\ Quiet1(noted)
  <2>1. {"AUTH_COMPLETE", "SIMPLE_PAIRING_COMPLETE", "LINK_KEY_NOTIFY"} \subseteq EventName
    BY DEF EventName
  <2> QED
    BY <1>2, <2>1, AboutFacts, OnFacts
<1>4. \E fs : /\ events' = events \o fs
              /\ fs \in {<<paired("ok"), noted, done("ok")>>, <<done("ok")>>,
                         <<paired("fail"), done("fail")>>, <<done("fail")>>}
  <2>1. EventsInv /\ (Emit(done("ok")) => events' = events \o <<done("ok")>>)
    BY <1>2 DEF EventsInv, Emit
  <2> QED
    BY <2>1 DEF EndAuthentication
<1> HIDE DEF done, paired, noted
<1>5. PICK fs : /\ events' = events \o fs
                /\ fs \in {<<paired("ok"), noted, done("ok")>>, <<done("ok")>>,
                           <<paired("fail"), done("fail")>>, <<done("fail")>>}
  BY <1>4
<1>6. fs \in Seq(Ev) /\ \A m \in 1 .. Len(fs) : Quiet1(fs[m])
  <2> DEFINE Fine(s) == s \in Seq(Ev) /\ \A m \in 1 .. Len(s) : Quiet1(s[m])
  <2>1. \A x : Quiet1(x) => x \in Ev
    OBVIOUS
  <2> HIDE DEF Quiet1
  <2>2. ASSUME NEW x, NEW y, NEW z, Quiet1(x), Quiet1(y), Quiet1(z)
        PROVE  Fine(<<x>>) /\ Fine(<<x, y>>) /\ Fine(<<x, y, z>>)
    <3>1. x \in Ev /\ y \in Ev /\ z \in Ev
      BY <2>1, <2>2
    <3>2. Fine(<<x>>)
      BY <2>2, <3>1
    <3>3. Fine(<<x, y>>)
      BY <2>2, <3>1
    <3>4. Fine(<<x, y, z>>)
      BY <2>2, <3>1
    <3> QED
      BY <3>2, <3>3, <3>4
  <2> HIDE DEF Fine
  <2>3. Fine(fs)
    BY <1>3, <1>5, <2>2
  <2> QED
    BY <2>3 DEF Fine
<1>7. /\ Grows(events, events')
      /\ \A n \in Len(events) + 1 .. Len(events') : Quiet1(events'[n])
  BY <1>2, <1>5, <1>6, Sent
<1> QED
  BY <1>1, <1>2, <1>7, ActsStepKeeps

LEMMA InquireKeeps ==
    ASSUME IInv, NEW d \in Devices, Inquire(d)
    PROVE  IInv'
<1> DEFINE e == About("INQUIRY_RESULT", d, "ok")
<1>1. ctrl.on /\ UNCHANGED Hosted /\ UNCHANGED ctrl /\ Emit(e)
  BY DEF Inquire
<1>2. ctrl \in CtrlRec /\ EventsInv /\ d \in Device /\ \A a \in ctrl.acts : SoundAct(a)
  BY CtrlFacts
<1>3. e \in Ev /\ SoundEv(e) /\ e.ev = "INQUIRY_RESULT"
  <2>1. "INQUIRY_RESULT" \in EventName
    BY DEF EventName
  <2> QED
    BY <1>2, <2>1, AboutFacts
<1> HIDE DEF e
<1>4. /\ ctrl' \in CtrlRec /\ SameLinks(ctrl.link, ctrl'.link) /\ \A a \in ctrl'.acts : SoundAct(a)
      /\ ctrl'.cmds = IF FALSE THEN Tail(ctrl.cmds) ELSE ctrl.cmds
  BY <1>1, <1>2 DEF SameLinks
<1>5. e.ev \notin {"CONN_REQUEST", "CONN_COMPLETE", "DISCONNECTION_COMPLETE"}
  BY <1>3
<1> QED
  BY <1>1, <1>3, <1>4, <1>5, QuietEmitKeeps

LEMMA SoundTail ==
    ASSUME NEW s \in Seq(Cmd), s # <<>>, \A n \in 1 .. Len(s) : SoundCmd(s[n])
    PROVE  \A n \in 1 .. Len(Tail(s)) : SoundCmd(Tail(s)[n])
<1>1. /\ Len(s) \in Nat /\ Len(Tail(s)) = Len(s) - 1
      /\ \A n \in 1 .. Len(s) - 1 : Tail(s)[n] = s[n + 1] /\ n + 1 \in 1 .. Len(s)
  BY HeadTailProperties
<1> QED
  BY <1>1

\* A step that changes the connection of one device, and sends one event
LEMMA LinkStepKeeps ==
    ASSUME IInv, ctrl.on, UNCHANGED Hosted, NEW d \in Devices, NEW l \in LinkRec,
           NEW taken \in BOOLEAN, taken => ctrl.cmds # <<>>,
           NEW c \in CtrlRec, c.cmds = IF taken THEN Tail(ctrl.cmds) ELSE ctrl.cmds,
           c.acts = ctrl.acts, c.link = ctrl.link, ctrl' = [c EXCEPT !.link[d] = l],
           l.h # 0 <=> l.st \in HasHandle,
           l.h # 0 => \A f \in Devices : f # d => ctrl.link[f].h # l.h,
           NEW e \in Ev, Emit(e), SoundEv(e), e.ev # "CONN_REQUEST",
           ctrl.link[d].st = "asking" => l.st = "asking" \/ (taken /\ Reply1(ctrl.cmds[1], d)),
           l.st \in {"paging", "accepted", "up"} => d \in keys \/ Wanted(d),
           ctrl.link[d].st \in HasHandle =>
              \/ l.st \in HasHandle /\ l.h = ctrl.link[d].h
              \/ e.ev = "DISCONNECTION_COMPLETE" /\ e.h = ctrl.link[d].h,
           e.ev = "CONN_COMPLETE" /\ e.st = "ok" =>
              /\ e.dev = d /\ e.h = l.h /\ l.st \in HasHandle
              /\ \A f \in Devices : ctrl.link[f].h # l.h
    PROVE  IInv'
<1>1. /\ CtrlInv /\ AskInv /\ WantInv /\ TrackOk(conns, events, ctrl.link) /\ ctrl.cmds \in Seq(Cmd)
      /\ events \in Seq(Ev) /\ EventsInv
  BY CtrlParts DEF IInv, CtrlInv, TrackInv, EventsInv
<1>2. /\ ctrl' \in CtrlRec /\ ctrl'.cmds = c.cmds /\ ctrl'.acts = c.acts
      /\ \A f \in Devices : ctrl'.link[f] = IF f = d THEN l ELSE ctrl.link[f]
  BY CtrlLinks
<1>3. CtrlInv'
  <2>1. \A n \in 1 .. Len(ctrl'.cmds) : SoundCmd(ctrl'.cmds[n])
    <3>1. \A n \in 1 .. Len(ctrl.cmds) : SoundCmd(ctrl.cmds[n])
      BY <1>1 DEF CtrlInv
    <3>2. CASE taken
      <4>1. ctrl'.cmds = Tail(ctrl.cmds) /\ ctrl.cmds # <<>>
        BY <1>2, <3>2
      <4> QED
        BY <1>1, <3>1, <4>1, SoundTail
    <3>3. CASE ~taken
      BY <1>2, <3>1, <3>3
    <3> QED
      BY <3>2, <3>3
  <2>2. \A f \in Devices : ctrl'.link[f].h # 0 <=> ctrl'.link[f].st \in HasHandle
    BY <1>1, <1>2 DEF CtrlInv
  <2>3. \A f, g \in Devices : ctrl'.link[f].h # 0 /\ ctrl'.link[f].h = ctrl'.link[g].h => f = g
    BY <1>1, <1>2 DEF CtrlInv
  <2>4. \A a \in ctrl'.acts : SoundAct(a)
    BY <1>1, <1>2 DEF CtrlInv
  <2> QED
    BY <1>2, <2>1, <2>2, <2>3, <2>4 DEF CtrlInv
<1>4. /\ Grows(events, events') /\ Len(events') = Len(events) + 1 /\ Len(events) \in Nat
      /\ events'[Len(events) + 1] = e
      /\ \A n \in Len(events) + 1 .. Len(events') : n = Len(events) + 1 /\ events'[n] = e
  BY <1>1, Emitted
<1>5. TrackOk(conns, events', ctrl'.link)
  <2>1. ASSUME NEW f, NEW h, IsUp(ctrl.link, f, h)
        PROVE  IsUp(ctrl'.link, f, h) \/ EndBetween(events', h, Len(events) + 1, Len(events'))
    <3>1. f \in Devices /\ ctrl.link[f].st \in HasHandle /\ ctrl.link[f].h = h
      BY <2>1 DEF IsUp
    <3>2. CASE f # d \/ (l.st \in HasHandle /\ l.h = ctrl.link[d].h)
      BY <1>2, <3>1, <3>2 DEF IsUp
    <3>3. CASE f = d /\ e.ev = "DISCONNECTION_COMPLETE" /\ e.h = ctrl.link[d].h
      <4>1. Ends(events', h, Len(events) + 1)
        BY <1>4, <3>1, <3>3 DEF Ends
      <4>2. Len(events) + 1 \in Len(events) + 1 .. Len(events')
        BY <1>4
      <4> QED
        BY <4>1, <4>2 DEF EndBetween
    <3> QED
      BY <3>1, <3>2, <3>3
  <2>2. ASSUME NEW n \in Len(events) + 1 .. Len(events'), Begins(events', n)
        PROVE  /\ n = Len(events) + 1 /\ IsUp(ctrl'.link, events'[n].dev, events'[n].h)
               /\ \A f : ~IsUp(ctrl.link, f, events'[n].h)
    <3>1. n = Len(events) + 1 /\ events'[n] = e /\ e.ev = "CONN_COMPLETE" /\ e.st = "ok"
      BY <1>4, <2>2 DEF Begins
    <3>2. e.dev = d /\ e.h = l.h /\ l.st \in HasHandle /\ \A f \in Devices : ctrl.link[f].h # l.h
      BY <3>1
    <3> QED
      BY <1>2, <3>1, <3>2 DEF IsUp
  <2> QED
    BY <1>1, <1>4, <2>1, <2>2, TrackGrows
<1>6. \A f \in Devices : ctrl.link[f].st = "asking" =>
         ctrl'.link[f].st = "asking" \/ (taken /\ Reply1(ctrl.cmds[1], f))
  BY <1>2
<1>7. \A f \in Devices : ctrl'.link[f].st \in {"paging", "accepted", "up"} => f \in keys \/ Wanted(f)
  BY <1>1, <1>2 DEF WantInv
<1>8. \A n \in Len(events) + 1 .. Len(events') : SoundEv(events'[n]) /\ events'[n].ev # "CONN_REQUEST"
  BY <1>4
<1>9. ctrl'.cmds = IF taken THEN Tail(ctrl.cmds) ELSE ctrl.cmds
  BY <1>2
<1> QED
  BY <1>3, <1>4, <1>5, <1>6, <1>7, <1>8, <1>9, CtrlStepKeeps

\* What is known of the device of an answer
LEMMA AnsweredAsks ==
    ASSUME IInv, ctrl.on, ctrl.cmds # <<>>, ctrl.cmds[1].op \in Replies, ctrl.cmds[1] \in Cmd
    PROVE  /\ ctrl.cmds[1].dev \in Devices /\ ctrl.link[ctrl.cmds[1].dev].st = "asking"
           /\ Reply1(ctrl.cmds[1], ctrl.cmds[1].dev)
<1> DEFINE d == ctrl.cmds[1].dev
<1>1. ctrl.cmds \in Seq(Cmd) /\ AskInv
  BY CtrlParts DEF IInv, CtrlInv
<1>2. 1 \in 1 .. Len(ctrl.cmds) /\ d \in Device
  BY <1>1, CmdType
<1>3. Reply1(ctrl.cmds[1], d)
  BY DEF Reply1
<1> HIDE DEF d
<1>4. d \in Devices /\ ctrl.link[d].st = "asking"
  BY <1>1, <1>2, <1>3 DEF AskInv
<1> QED
  BY <1>3, <1>4 DEF d

LEMMA LinkCommandKeeps ==
    ASSUME IInv, NEW cmd, LinkCommand(cmd)
    PROVE  IInv'
<1>1. TakeCommand(cmd)
  BY DEF LinkCommand
<1>2. /\ ctrl.on /\ ctrl.cmds # <<>> /\ UNCHANGED Hosted /\ cmd = ctrl.cmds[1]
      /\ cmd \in Cmd /\ Grounded(cmd) /\ ctrl \in CtrlRec
      /\ Taken \in CtrlRec /\ Taken.cmds = Tail(ctrl.cmds) /\ Taken.acts = ctrl.acts
      /\ Taken.link = ctrl.link
  BY <1>1, CommandTaken
<1>3. \A s \in {"ok", "fail", "exists"} :
         Status(cmd, s) \in Ev /\ SoundEv(Status(cmd, s)) /\ Status(cmd, s).ev = "CMD_STATUS"
  BY <1>2, StatusFacts
<1>4. /\ CtrlInv /\ WantInv /\ ctrl.link \in [Devices -> LinkRec]
      /\ \A d \in Devices : ctrl.link[d].h # 0 <=> ctrl.link[d].st \in HasHandle
      /\ \A d, f \in Devices : ctrl.link[d].h # 0 /\ ctrl.link[d].h = ctrl.link[f].h => d = f
  BY <1>2, CtrlParts DEF IInv, CtrlInv
\* The connection of d goes on to s with the handle it has.
<1>5. ASSUME NEW d \in Devices, NEW s \in LinkState, ctrl' = [Taken EXCEPT !.link[d].st = s],
             Emit(Status(cmd, "ok")), ctrl.link[d].st \in HasHandle <=> s \in HasHandle,
             ctrl.link[d].st = "asking" => Reply1(ctrl.cmds[1], d),
             s \in {"paging", "accepted", "up"} => d \in keys \/ Wanted(d)
      PROVE  IInv'
  <2> DEFINE l == [ctrl.link[d] EXCEPT !.st = s]
             e == Status(cmd, "ok")
  <2>1. l \in LinkRec /\ l.st = s /\ l.h = ctrl.link[d].h
    BY <1>4, LinkTypes
  <2>2. ctrl' = [Taken EXCEPT !.link[d] = l]
    BY <1>2, <1>5
  <2>3. e \in Ev /\ Emit(e) /\ SoundEv(e) /\ e.ev = "CMD_STATUS"
    BY <1>3, <1>5
  <2> HIDE DEF l, e
  <2>4. /\ l.h # 0 <=> l.st \in HasHandle
        /\ l.h # 0 => \A f \in Devices : f # d => ctrl.link[f].h # l.h
        /\ ctrl.link[d].st \in HasHandle => l.st \in HasHandle /\ l.h = ctrl.link[d].h
        /\ l.st \in {"paging", "accepted", "up"} => d \in keys \/ Wanted(d)
    BY <1>4, <1>5, <2>1
  <2>5. Taken.cmds = IF TRUE THEN Tail(ctrl.cmds) ELSE ctrl.cmds
    BY <1>2
  <2>6. /\ e.ev # "CONN_REQUEST" /\ ~(e.ev = "CONN_COMPLETE" /\ e.st = "ok")
    BY <2>3
  <2> QED
    BY <1>2, <1>5, <2>1, <2>2, <2>3, <2>4, <2>5, <2>6, LinkStepKeeps
\* No connection changes.
<1>6. ASSUME NEW s \in {"ok", "exists"}, ctrl' = Taken, Emit(Status(cmd, s))
      PROVE  IInv'
  <2> DEFINE e == Status(cmd, s)
  <2>1. e \in Ev /\ Emit(e) /\ SoundEv(e) /\ e.ev = "CMD_STATUS"
    BY <1>3, <1>6
  <2> HIDE DEF e
  <2>2. /\ ctrl' \in CtrlRec /\ SameLinks(ctrl.link, ctrl'.link)
        /\ ctrl'.cmds = IF TRUE THEN Tail(ctrl.cmds) ELSE ctrl.cmds
        /\ \A a \in ctrl'.acts : SoundAct(a)
    BY <1>2, <1>4, <1>6 DEF SameLinks, CtrlInv
  <2>3. e.ev \notin {"CONN_REQUEST", "CONN_COMPLETE", "DISCONNECTION_COMPLETE"}
    BY <2>1
  <2> QED
    BY <1>2, <2>1, <2>2, <2>3, QuietEmitKeeps
<1>7. CASE cmd.op = "CREATE_CONN"
  <2>1. Wanted(cmd.dev)
    BY <1>2, <1>7 DEF Grounded
  <2>2. \/ ctrl.link[cmd.dev].st = "down" /\ ctrl' = [Taken EXCEPT !.link[cmd.dev].st = "paging"]
           /\ Emit(Status(cmd, "ok"))
        \/ ctrl' = Taken /\ Emit(Status(cmd, "exists"))
    BY <1>7 DEF LinkCommand
  <2>3. CASE ctrl' = Taken /\ Emit(Status(cmd, "exists"))
    BY <1>6, <2>3
  <2>4. CASE /\ ctrl.link[cmd.dev].st = "down" /\ ctrl' = [Taken EXCEPT !.link[cmd.dev].st = "paging"]
             /\ Emit(Status(cmd, "ok"))
    <3>1. CASE cmd.dev \in Devices
      <4>1. "paging" \in LinkState /\ "paging" \notin HasHandle /\ ctrl.link[cmd.dev].st \notin HasHandle
        BY <2>4 DEF LinkState, HasHandle
      <4> QED
        BY <1>5, <2>1, <2>4, <3>1, <4>1
    <3>2. CASE cmd.dev \notin Devices
      <4>1. ctrl' = [Taken EXCEPT !.link = Taken.link]
        BY <1>2, <1>4, <2>4, <3>2
      <4>2. ctrl' = Taken
        BY <1>2, <4>1 DEF CtrlRec
      <4> QED
        BY <1>6, <2>4, <4>2
    <3> QED
      BY <3>1, <3>2
  <2> QED
    BY <2>2, <2>3, <2>4
<1>8. CASE cmd.op \in Replies
  <2> DEFINE s == IF cmd.op = "ACCEPT_CONN_REQ" THEN "accepted" ELSE "rejected"
  <2>1. ctrl' = [Taken EXCEPT !.link[cmd.dev].st = s] /\ Emit(Status(cmd, "ok"))
    BY <1>8 DEF LinkCommand, Replies
  <2>2. cmd.dev \in Devices /\ ctrl.link[cmd.dev].st = "asking" /\ Reply1(ctrl.cmds[1], cmd.dev)
    BY <1>2, <1>8, AnsweredAsks
  <2>3. s \in LinkState /\ s \notin HasHandle /\ ctrl.link[cmd.dev].st \notin HasHandle
    BY <2>2 DEF LinkState, HasHandle
  <2>4. s \in {"paging", "accepted", "up"} => cmd.dev \in keys
    BY <1>2 DEF Grounded
  <2> HIDE DEF s
  <2> QED
    BY <1>5, <2>1, <2>2, <2>3, <2>4
<1>9. CASE cmd.op = "DISCONNECT" /\ cmd.op \notin Replies
  <2> DEFINE d == DeviceAt(cmd.h)
  <2>1. d # NoDevice /\ ctrl' = [Taken EXCEPT !.link[d].st = "closing"] /\ Emit(Status(cmd, "ok"))
    BY <1>9 DEF LinkCommand
  <2>2. d \in Devices /\ ctrl.link[d].st = "up"
    BY <2>1, DeviceAtFacts
  <2> HIDE DEF d
  <2>3. "closing" \in LinkState /\ "closing" \in HasHandle /\ ctrl.link[d].st \in HasHandle
    BY <2>2 DEF LinkState, HasHandle
  <2> QED
    BY <1>5, <2>1, <2>2, <2>3
<1> QED
  BY <1>7, <1>8, <1>9 DEF LinkCommand, Replies

\* There is a handle for a device that has none: there are as many as devices.
LEMMA FreeHandleFacts ==
    ASSUME CtrlInv, NEW x \in Devices, ctrl.link[x].h = 0
    PROVE  FreeHandle \in Handle /\ FreeHandle # 0 /\ \A d \in Devices : ctrl.link[d].h # FreeHandle
<1> DEFINE used == {ctrl.link[d].h : d \in Devices}
           N == Cardinality(Devices)
<1>1. IsFiniteSet(Devices) /\ N \in Nat
  BY DeviceAssumption, FS_CardinalityType
<1>2. Handle = 1 .. N /\ IsFiniteSet(1 .. N) /\ Cardinality(1 .. N) = N
  BY <1>1, FS_Interval DEF Handle
<1>3. IsFiniteSet(Devices \ {x}) /\ Cardinality(Devices \ {x}) = N - 1
  BY <1>1, FS_RemoveElement
<1> HIDE DEF N
<1>4. ASSUME Handle \subseteq used
      PROVE  FALSE
  <2>1. \A h \in 1 .. N : \E d \in Devices \ {x} : ctrl.link[d].h = h
    BY <1>1, <1>2, <1>4
  <2> DEFINE g == [h \in 1 .. N |-> CHOOSE d \in Devices \ {x} : ctrl.link[d].h = h]
  <2>2. \A h \in 1 .. N : g[h] \in Devices \ {x} /\ ctrl.link[g[h]].h = h
    BY <2>1
  <2>3. g \in [1 .. N -> Devices \ {x}]
    BY <2>1
  <2> HIDE DEF g
  <2>4. Cardinality(Devices \ {x}) < Cardinality(1 .. N)
    BY <1>1, <1>2, <1>3
  <2>5. \E a, b \in 1 .. N : a # b /\ g[a] = g[b]
    <3> DEFINE S == 1 .. N
               T == Devices \ {x}
    <3>1. IsFiniteSet(S) /\ IsFiniteSet(T) /\ Cardinality(T) < Cardinality(S) /\ g \in [S -> T]
      BY <1>2, <1>3, <2>3, <2>4
    <3> HIDE DEF S, T
    <3>2. \E a, b \in S : a # b /\ g[a] = g[b]
      BY <3>1, FS_PigeonHole
    <3> QED
      BY <3>2 DEF S
  <2> QED
    BY <2>2, <2>5
<1> HIDE DEF used
<1>5. Handle \ used \in SUBSET Nat /\ Handle \ used # {}
  <2>1. Handle \in SUBSET Nat
    BY <1>1, <1>2
  <2>2. ~(Handle \subseteq used)
    BY <1>4
  <2> QED
    BY <2>1, <2>2
<1>6. Least(Handle \ used) \in Handle \ used
  BY <1>5, LeastIn
<1>7. FreeHandle \in Handle \ used
  BY <1>6 DEF FreeHandle, used
<1> QED
  BY <1>1, <1>2, <1>7 DEF used

\* NoLink and the connection that is made
LEMMA LinkMade ==
    /\ NoLink \in LinkRec /\ NoLink.st = "down" /\ NoLink.h = 0
    /\ \A h \in Handle : LET l == [NoLink EXCEPT !.st = "up", !.h = h]
                         IN  l \in LinkRec /\ l.st = "up" /\ l.h = h
BY DEF NoLink, LinkRec, LinkState, Handle0

LEMMA EndConnectingKeeps ==
    ASSUME IInv, NEW d \in Devices, NEW ok \in BOOLEAN, EndConnecting(d, ok)
    PROVE  IInv'
<1> DEFINE l == IF ok THEN [NoLink EXCEPT !.st = "up", !.h = FreeHandle] ELSE NoLink
           h == IF ok THEN FreeHandle ELSE 0
           s == IF ok THEN "ok" ELSE "fail"
           e == Event("CONN_COMPLETE", "none", d, h, s)
<1>1. /\ ctrl.on /\ ctrl.link[d].st \in {"paging", "accepted", "rejected"} /\ UNCHANGED Hosted
      /\ ctrl.link[d].st = "rejected" => ~ok
      /\ ctrl' = [ctrl EXCEPT !.link[d] = l] /\ Emit(e)
  BY DEF EndConnecting
<1>2. /\ ctrl \in CtrlRec /\ CtrlInv /\ WantInv /\ d \in Device /\ 0 \in Handle0
      /\ ctrl.link[d].h # 0 <=> ctrl.link[d].st \in HasHandle
  BY CtrlFacts DEF IInv, CtrlInv
<1>3. ctrl.link[d].st \notin HasHandle /\ ctrl.link[d].h = 0 /\ ctrl.link[d].st # "asking"
  BY <1>1, <1>2 DEF HasHandle
<1>4. FreeHandle \in Handle /\ FreeHandle # 0 /\ \A f \in Devices : ctrl.link[f].h # FreeHandle
  BY <1>2, <1>3, FreeHandleFacts
<1>5. /\ l \in LinkRec /\ l.st = (IF ok THEN "up" ELSE "down") /\ l.h = h
  BY <1>4, LinkMade
<1>6. e \in Ev /\ SoundEv(e) /\ e.ev = "CONN_COMPLETE" /\ e.dev = d /\ e.h = h /\ e.st = s
  <2>1. "CONN_COMPLETE" \in EventName /\ h \in Handle0 /\ s \in {"ok", "fail", "exists", "ext"}
    BY <1>2, <1>4 DEF EventName, Handle0
  <2> HIDE DEF h
  <2>2. e \in Ev /\ e.ev = "CONN_COMPLETE" /\ e.dev = d /\ e.h = h /\ e.st = s
    BY <1>2, <2>1, EventType
  <2> QED
    BY <2>2 DEF SoundEv
<1>7. /\ l.h # 0 <=> l.st \in HasHandle
      /\ \A f \in Devices : l.h # 0 => ctrl.link[f].h # l.h
      /\ l.st \in {"paging", "accepted", "up"} => d \in keys \/ Wanted(d)
  <2>1. ctrl.link[d].st \in {"paging", "accepted"} => d \in keys \/ Wanted(d)
    BY <1>2 DEF WantInv
  <2> HIDE DEF l
  <2>2. CASE ok
    BY <1>1, <1>4, <1>5, <2>1, <2>2 DEF HasHandle
  <2>3. CASE ~ok
    BY <1>5, <2>3 DEF HasHandle
  <2> QED
    BY <2>2, <2>3
<1>8. e.ev = "CONN_COMPLETE" /\ e.st = "ok" =>
         e.dev = d /\ e.h = l.h /\ l.st \in HasHandle /\ \A f \in Devices : ctrl.link[f].h # l.h
  <2> HIDE DEF l, e
  <2> QED
    BY <1>4, <1>5, <1>6 DEF HasHandle
<1> HIDE DEF l, e, h, s
<1>9. ctrl.cmds = IF FALSE THEN Tail(ctrl.cmds) ELSE ctrl.cmds
  OBVIOUS
<1>10. /\ e \in Ev /\ SoundEv(e) /\ Emit(e) /\ e.ev # "CONN_REQUEST"
       /\ l \in LinkRec /\ ctrl' = [ctrl EXCEPT !.link[d] = l]
  BY <1>1, <1>5, <1>6
<1>11. /\ l.h # 0 => \A f \in Devices : f # d => ctrl.link[f].h # l.h
       /\ ctrl.link[d].st \in HasHandle =>
             \/ l.st \in HasHandle /\ l.h = ctrl.link[d].h
             \/ e.ev = "DISCONNECTION_COMPLETE" /\ e.h = ctrl.link[d].h
       /\ ctrl.link[d].st = "asking" => l.st = "asking" \/ (FALSE /\ Reply1(ctrl.cmds[1], d))
  BY <1>3, <1>7
<1>12. ctrl.on /\ UNCHANGED Hosted /\ ctrl \in CtrlRec
  BY <1>1, <1>2
<1>13. /\ l.h # 0 <=> l.st \in HasHandle
       /\ l.st \in {"paging", "accepted", "up"} => d \in keys \/ Wanted(d)
  BY <1>7
<1> QED
  BY <1>8, <1>9, <1>10, <1>11, <1>12, <1>13, LinkStepKeeps

LEMMA EndLinkKeeps ==
    ASSUME IInv, NEW d \in Devices, EndLink(d)
    PROVE  IInv'
<1> DEFINE h == ctrl.link[d].h
           e == On("DISCONNECTION_COMPLETE", h, "ok")
<1>1. /\ ctrl.on /\ ctrl.link[d].st \in HasHandle /\ UNCHANGED Hosted
      /\ ctrl' = [ctrl EXCEPT !.link[d] = NoLink] /\ Emit(e)
  BY DEF EndLink, HasHandle
<1>2. ctrl \in CtrlRec /\ ctrl.link \in [Devices -> LinkRec]
  BY CtrlFacts, CtrlParts
<1>3. e \in Ev /\ SoundEv(e) /\ e.ev = "DISCONNECTION_COMPLETE" /\ e.h = h
  <2>1. "DISCONNECTION_COMPLETE" \in EventName /\ h \in Handle0
    BY <1>2, LinkTypes DEF EventName
  <2> QED
    BY <2>1, OnFacts
<1> HIDE DEF e
<1>4. ctrl.link[d].st # "asking"
  BY <1>1 DEF HasHandle
<1>5. NoLink \in LinkRec /\ NoLink.h = 0 /\ NoLink.st \notin HasHandle /\ NoLink.st \notin {"paging", "accepted", "up"}
  BY LinkMade DEF HasHandle
<1>6. ctrl.cmds = IF FALSE THEN Tail(ctrl.cmds) ELSE ctrl.cmds
  OBVIOUS
<1>7. /\ e.ev # "CONN_REQUEST" /\ ~(e.ev = "CONN_COMPLETE" /\ e.st = "ok")
      /\ e.ev = "DISCONNECTION_COMPLETE" /\ e.h = ctrl.link[d].h
  BY <1>3
<1> DEFINE l == NoLink
<1>8. /\ l \in LinkRec /\ ctrl' = [ctrl EXCEPT !.link[d] = l] /\ l.h = 0
      /\ l.st \notin HasHandle /\ l.st \notin {"paging", "accepted", "up"}
  BY <1>1, <1>5
<1> HIDE DEF l, h
<1>9. /\ l.h # 0 <=> l.st \in HasHandle
      /\ l.h # 0 => \A f \in Devices : f # d => ctrl.link[f].h # l.h
      /\ l.st \in {"paging", "accepted", "up"} => d \in keys \/ Wanted(d)
      /\ ctrl.link[d].st \in HasHandle =>
            \/ l.st \in HasHandle /\ l.h = ctrl.link[d].h
            \/ e.ev = "DISCONNECTION_COMPLETE" /\ e.h = ctrl.link[d].h
  BY <1>7, <1>8
<1>10. e \in Ev /\ SoundEv(e) /\ Emit(e)
  BY <1>1, <1>3
<1> QED
  BY <1>1, <1>2, <1>4, <1>6, <1>7, <1>8, <1>9, <1>10, LinkStepKeeps

\* A device asks to connect: nothing of an earlier request is under way.
LEMMA IncomingKeeps ==
    ASSUME IInv, NEW x \in Devices, Incoming(x)
    PROVE  IInv'
<1> DEFINE e == About("CONN_REQUEST", x, "ok")
           l == [ctrl.link[x] EXCEPT !.st = "asking"]
<1>1. /\ ctrl.on /\ ctrl.link[x] = NoLink /\ UNCHANGED Hosted /\ Emit(e)
      /\ ctrl' = [ctrl EXCEPT !.link[x].st = "asking"]
  BY DEF Incoming
<1>2. /\ ListInv /\ StoreInv /\ EventsInv /\ CtrlInv /\ AskInv /\ WantInv /\ ctrl \in CtrlRec
      /\ TrackOk(conns, events, ctrl.link) /\ events \in Seq(Ev)
      /\ ctrl.link \in [Devices -> LinkRec] /\ x \in Device
  BY <1>1, CtrlFacts, CtrlParts DEF IInv, TrackInv
<1>3. UNCHANGED <<petitions, calls, listener, conns, keys, names, dialogs>>
  BY <1>1 DEF Hosted
<1>4. e \in Ev /\ SoundEv(e) /\ e.ev = "CONN_REQUEST" /\ e.dev = x
  <2>1. "CONN_REQUEST" \in EventName
    BY DEF EventName
  <2> QED
    BY <1>2, <2>1, AboutFacts
<1>5. l \in LinkRec /\ l.st = "asking" /\ l.h = 0 /\ ctrl.link[x].h = 0 /\ ctrl.link[x].st = "down"
      /\ ctrl' = [ctrl EXCEPT !.link[x] = l]
  <2>1. "asking" \in LinkState
    BY DEF LinkState
  <2>2. ctrl.link[x] \in LinkRec /\ ctrl.link[x].h = 0 /\ ctrl.link[x].st = "down"
    BY <1>1, LinkMade
  <2>3. l \in LinkRec /\ l.st = "asking" /\ l.h = ctrl.link[x].h
    BY <2>1, <2>2, LinkTypes
  <2>4. ctrl' = [ctrl EXCEPT !.link[x] = l]
    BY <1>1, <1>2
  <2> QED
    BY <2>2, <2>3, <2>4
<1> HIDE DEF e, l
<1>6. /\ ctrl' \in CtrlRec /\ ctrl'.cmds = ctrl.cmds /\ ctrl'.acts = ctrl.acts
      /\ \A f \in Devices : ctrl'.link[f] = IF f = x THEN l ELSE ctrl.link[f]
  BY <1>2, <1>5, CtrlLinks
<1>7. /\ Grows(events, events') /\ Len(events') = Len(events) + 1 /\ Len(events) \in Nat
      /\ events' \in Seq(Ev) /\ events'[Len(events) + 1] = e
      /\ \A n \in 1 .. Len(events) : events'[n] = events[n]
      /\ \A n \in 1 .. Len(events') : n \in 1 .. Len(events) \/ n = Len(events) + 1
  <2>1. Grows(events, events') /\ Len(events') = Len(events) + 1 /\ Len(events) \in Nat
        /\ events'[Len(events) + 1] = e
    BY <1>1, <1>2, <1>4, Emitted
  <2> QED
    BY <2>1 DEF Grows
<1>8. ListInv' /\ StoreInv'
  BY <1>2, <1>3 DEF ListInv, StoreInv
<1>9. EventsInv'
  BY <1>2, <1>4, <1>7 DEF EventsInv
<1>10. CtrlInv'
  <2>1. \A f \in Devices : ctrl'.link[f].h # 0 <=> ctrl'.link[f].st \in HasHandle
    BY <1>2, <1>5, <1>6 DEF CtrlInv, HasHandle
  <2>2. \A f, g \in Devices : ctrl'.link[f].h # 0 /\ ctrl'.link[f].h = ctrl'.link[g].h => f = g
    BY <1>2, <1>5, <1>6 DEF CtrlInv
  <2> QED
    BY <1>2, <1>6, <2>1, <2>2 DEF CtrlInv
<1>11. WantInv'
  <2>1. \A f : Wanted(f)' <=> Wanted(f)
    BY <1>3 DEF Wanted
  <2>2. \A c : Grounded(c)' <=> Grounded(c)
    BY <1>3, <2>1 DEF Grounded
  <2>3. (\A n \in 1 .. Len(ctrl.cmds) : Grounded(ctrl.cmds[n]))'
    <3> DEFINE cs == ctrl'.cmds
    <3>1. \A n \in 1 .. Len(cs) : Grounded(cs[n])
      BY <1>2, <1>6 DEF WantInv
    <3>2. cs = ctrl'.cmds
      OBVIOUS
    <3> HIDE DEF cs
    <3> QED
      BY <1>3, <2>1, <3>1, <3>2 DEF Grounded
  <2>4. (listener # <<>> => Grounded(listener[1].cmd))'
    BY <1>2, <1>3, <2>2 DEF WantInv
  <2>5. (\A f \in Devices : ctrl.link[f].st \in {"paging", "accepted", "up"} => f \in keys \/ Wanted(f))'
    BY <1>2, <1>3, <1>5, <1>6, <2>1 DEF WantInv
  <2> QED
    BY <2>3, <2>4, <2>5 DEF WantInv
<1>12. TrackInv'
  <2>1. \A f, h : IsUp(ctrl.link, f, h) => IsUp(ctrl'.link, f, h)
    BY <1>5, <1>6 DEF IsUp, HasHandle
  <2>2. \A n \in Len(events) + 1 .. Len(events') : ~Begins(events', n)
    BY <1>4, <1>7 DEF Begins
  <2>3. TrackOk(conns, events', ctrl'.link)
    BY <1>2, <1>7, <2>1, <2>2, TrackGrows
  <2> QED
    BY <1>3, <2>3 DEF TrackInv
<1>13. AskInv'
  <2>1. SUFFICES ASSUME NEW d \in Device
               PROVE  /\ \A n \in 1 .. Len(events') : RequestAt(n, d)' =>
                            /\ d \in Devices /\ ctrl'.link[d].st = "asking"
                            /\ ~AnsweredNext(d)
                            /\ \A m \in 1 .. Len(events') : RequestAt(m, d)' => m = n
                            /\ \A m \in 1 .. Len(ctrl'.cmds) : ~Reply1(ctrl'.cmds[m], d)
                      /\ AnsweredNext(d) =>
                            /\ d \in Devices /\ ctrl'.link[d].st = "asking"
                            /\ \A m \in 1 .. Len(ctrl'.cmds) : ~Reply1(ctrl'.cmds[m], d)
                      /\ \A n \in 1 .. Len(ctrl'.cmds) : Reply1(ctrl'.cmds[n], d) =>
                            /\ d \in Devices /\ ctrl'.link[d].st = "asking"
                            /\ \A m \in 1 .. Len(ctrl'.cmds) : Reply1(ctrl'.cmds[m], d) => m = n
    <3>1. \A f : AnsweredNext(f)' <=> AnsweredNext(f)
      BY <1>3 DEF AnsweredNext
    <3> QED
      BY <3>1 DEF AskInv, Reply1
  <2>2. /\ \A n \in 1 .. Len(events) : RequestAt(n, d) =>
              /\ d \in Devices /\ ctrl.link[d].st = "asking"
              /\ ~AnsweredNext(d)
              /\ \A m \in 1 .. Len(events) : RequestAt(m, d) => m = n
              /\ \A m \in 1 .. Len(ctrl.cmds) : ~Reply1(ctrl.cmds[m], d)
        /\ AnsweredNext(d) =>
              /\ d \in Devices /\ ctrl.link[d].st = "asking"
              /\ \A m \in 1 .. Len(ctrl.cmds) : ~Reply1(ctrl.cmds[m], d)
        /\ \A n \in 1 .. Len(ctrl.cmds) : Reply1(ctrl.cmds[n], d) =>
              /\ d \in Devices /\ ctrl.link[d].st = "asking"
              /\ \A m \in 1 .. Len(ctrl.cmds) : Reply1(ctrl.cmds[m], d) => m = n
    BY <1>1, <1>2 DEF AskInv
  <2>3. ctrl'.cmds = ctrl.cmds
    BY <1>6
  <2>4. CASE d = x
    <3>1. /\ \A n \in 1 .. Len(events) : ~RequestAt(n, d)
          /\ ~AnsweredNext(d)
          /\ \A n \in 1 .. Len(ctrl.cmds) : ~Reply1(ctrl.cmds[n], d)
      BY <1>5, <2>2, <2>4
    <3>2. \A n \in 1 .. Len(events') : RequestAt(n, d)' => n = Len(events) + 1
      BY <1>7, <3>1 DEF RequestAt
    <3>3. d \in Devices /\ ctrl'.link[d].st = "asking"
      BY <1>5, <1>6, <2>4
    <3> QED
      BY <2>3, <3>1, <3>2, <3>3
  <2>5. CASE d # x
    <3>1. \A n \in 1 .. Len(events') : RequestAt(n, d)' => n \in 1 .. Len(events) /\ RequestAt(n, d)
      BY <1>4, <1>7, <2>5 DEF RequestAt
    <3>2. d \in Devices => ctrl'.link[d] = ctrl.link[d]
      BY <1>6, <2>5
    <3> QED
      BY <2>2, <2>3, <3>1, <3>2
  <2> QED
    BY <2>4, <2>5
<1> QED
  BY <1>8, <1>9, <1>10, <1>11, <1>12, <1>13 DEF IInv

LEMMA CtrlGoes ==
    ASSUME NEW c \in CtrlRec
    PROVE  LET t == [c EXCEPT !.on = FALSE, !.cmds = <<>>, !.acts = {},
                              !.link = [d \in Devices |-> NoLink]]
           IN  /\ t \in CtrlRec /\ t.on = FALSE /\ t.cmds = <<>> /\ t.acts = {}
               /\ \A d \in Devices : t.link[d] = NoLink
<1> DEFINE m == [d \in Devices |-> NoLink]
<1>1. m \in [Devices -> LinkRec] /\ \A d \in Devices : m[d] = NoLink
  BY LinkMade
<1>2. <<>> \in Seq(Cmd) /\ FALSE \in BOOLEAN
  OBVIOUS
<1> HIDE DEF m
<1>3. LET t == [c EXCEPT !.on = FALSE, !.cmds = <<>>, !.acts = {}, !.link = m]
      IN  /\ t \in CtrlRec /\ t.on = FALSE /\ t.cmds = <<>> /\ t.acts = {} /\ t.link = m
  BY <1>1, <1>2 DEF CtrlRec
<1> QED
  BY <1>1, <1>3 DEF m

LEMMA UnplugKeeps ==
    ASSUME IInv, Unplug
    PROVE  IInv'
<1>1. /\ UNCHANGED Hosted /\ UNCHANGED events
      /\ ctrl' = [ctrl EXCEPT !.on = FALSE, !.cmds = <<>>, !.acts = {},
                              !.link = [d \in Devices |-> NoLink]]
  BY DEF Unplug
<1>2. ListInv /\ StoreInv /\ EventsInv /\ WantInv /\ ctrl \in CtrlRec
  BY DEF IInv, CtrlInv
<1>3. UNCHANGED <<petitions, calls, listener, conns, keys, names, dialogs, events>>
  BY <1>1 DEF Hosted
<1>4. /\ ctrl' \in CtrlRec /\ ctrl'.on = FALSE /\ ctrl'.cmds = <<>> /\ ctrl'.acts = {}
      /\ \A d \in Devices : ctrl'.link[d] = NoLink
  BY <1>1, <1>2, CtrlGoes
<1>5. ListInv' /\ StoreInv' /\ EventsInv'
  BY <1>2, <1>3 DEF ListInv, StoreInv, EventsInv
<1>6. \A n \in 1 .. Len(ctrl'.cmds) : FALSE
  BY <1>4
<1>7. CtrlInv'
  BY <1>4, <1>6, LinkMade DEF CtrlInv, HasHandle
<1>8. WantInv'
  <2>1. \A f : Wanted(f)' <=> Wanted(f)
    BY <1>3 DEF Wanted
  <2>2. \A c : Grounded(c)' <=> Grounded(c)
    BY <1>3, <2>1 DEF Grounded
  <2>3. (listener # <<>> => Grounded(listener[1].cmd))'
    BY <1>2, <1>3, <2>2 DEF WantInv
  <2>4. \A d \in Devices : ctrl'.link[d].st \notin {"paging", "accepted", "up"}
    BY <1>4, LinkMade
  <2> QED
    BY <1>6, <2>3, <2>4 DEF WantInv
<1>9. AskInv' /\ TrackInv'
  BY <1>4 DEF AskInv, TrackInv
<1> QED
  BY <1>5, <1>7, <1>8, <1>9 DEF IInv

----------------------------------------------------------------------------
\* The invariant

LEMMA InitKeeps ==
    ASSUME Init
    PROVE  IInv
<1>1. /\ petitions = <<>> /\ calls = <<>> /\ listener = <<>> /\ events = <<>>
      /\ conns = [i \in 1 .. MaxConnections |-> [active |-> FALSE, handle |-> 0, dev |-> NoDevice]]
      /\ keys \in Paired /\ names = {} /\ dialogs = {}
      /\ ctrl = [cmds |-> <<>>, acts |-> {}, link |-> [d \in Devices |-> NoLink],
                 on |-> TRUE, refused |-> {}]
  BY DEF Init
<1>2. /\ petitions \in Seq(PetitionRec) /\ calls \in Seq(CallRec) /\ events \in Seq(Ev)
      /\ Len(petitions) = 0 /\ Len(calls) = 0 /\ Len(events) = 0
  BY <1>1
<1>3. ListInv
  BY <1>1, <1>2 DEF ListInv, ListOk, ListenerOk
<1>4. StoreInv /\ \A i \in Slot : ~conns[i].active
  <2> DEFINE r == [active |-> FALSE, handle |-> 0, dev |-> NoDevice]
  <2>1. r \in SlotRec /\ ~r.active
    BY DEF SlotRec, Handle0, Device
  <2> HIDE DEF r
  <2>2. conns = [i \in 1 .. MaxConnections |-> r]
    BY <1>1 DEF r
  <2>3. conns \in [1 .. MaxConnections -> SlotRec] /\ \A i \in Slot : ~conns[i].active
    BY <2>1, <2>2 DEF Slot
  <2>4. keys \subseteq Devices
    BY <1>1, PairedAssumption
  <2> QED
    BY <1>1, <2>3, <2>4 DEF StoreInv, SlotRec
<1>5. EventsInv
  BY <1>2 DEF EventsInv
<1>6. /\ ctrl.cmds = <<>> /\ ctrl.acts = {} /\ ctrl.on = TRUE /\ ctrl \in CtrlRec
      /\ \A d \in Devices : ctrl.link[d] = NoLink
  <2> DEFINE m == [d \in Devices |-> NoLink]
  <2>1. m \in [Devices -> LinkRec] /\ \A d \in Devices : m[d] = NoLink
    BY LinkMade
  <2>2. <<>> \in Seq(Cmd) /\ TRUE \in BOOLEAN
    OBVIOUS
  <2>3. ctrl = [cmds |-> <<>>, acts |-> {}, link |-> m, on |-> TRUE, refused |-> {}]
    BY <1>1
  <2> HIDE DEF m
  <2> QED
    BY <2>1, <2>2, <2>3 DEF CtrlRec
<1>7. \A n \in 1 .. Len(ctrl.cmds) : FALSE
  BY <1>6
<1>8. CtrlInv
  BY <1>6, <1>7, LinkMade DEF CtrlInv, HasHandle
<1>9. AskInv
  BY <1>1, <1>2, <1>7 DEF AskInv, AnsweredNext
<1>10. WantInv
  BY <1>1, <1>6, <1>7, LinkMade DEF WantInv
<1>11. TrackInv
  BY <1>2, <1>4 DEF TrackInv, TrackOk
<1> QED
  BY <1>3, <1>4, <1>5, <1>8, <1>9, <1>10, <1>11 DEF IInv

LEMMA NothingChanges ==
    ASSUME IInv, UNCHANGED vars
    PROVE  IInv'
<1>1. UNCHANGED <<petitions, calls, listener, conns, keys, names, dialogs, ctrl, events>>
  BY DEF vars
<1>2. ListInv' /\ StoreInv' /\ EventsInv' /\ CtrlInv'
  BY <1>1 DEF IInv, ListInv, StoreInv, EventsInv, CtrlInv
<1>3. AskInv'
  BY <1>1 DEF IInv, AskInv, RequestAt, AnsweredNext, Reply1
<1>4. \A f : Wanted(f)' <=> Wanted(f)
  BY <1>1 DEF Wanted
<1>5. WantInv'
  BY <1>1, <1>4 DEF IInv, WantInv, Grounded
<1>6. TrackInv'
  BY <1>1 DEF IInv, TrackInv
<1> QED
  BY <1>2, <1>3, <1>5, <1>6 DEF IInv

LEMMA NextKeeps ==
    ASSUME IInv, [Next]_vars
    PROVE  IInv'
<1>1. CASE Looper
  <2>1. PICK c \in DOMAIN calls : IssueCall(c) \/ Reauthenticate(c)
    BY <1>1 DEF Looper
  <2> QED
    BY <2>1, IssueCallKeeps, ReauthenticateKeeps
<1>2. CASE Listener
  <2>1. CASE IssueNext
    BY <2>1, IssueNextKeeps
  <2>2. CASE ~IssueNext
    <3>1. \E e, k : Handle1(e, k)
      BY <1>2, <2>2, Zenon DEF Listener
    <3> QED
      BY <3>1, HandlerKeeps
  <2> QED
    BY <2>1, <2>2
<1>3. CASE Controller
  <2>1. CASE \E cmd : Refuse(cmd) \/ StartAct(cmd) \/ LinkCommand(cmd) \/ CompleteCommand(cmd)
    BY <2>1, RefuseKeeps, StartActKeeps, LinkCommandKeeps, CompleteCommandKeeps
  <2>2. CASE \E d \in Devices : \E ok \in BOOLEAN : EndConnecting(d, ok)
    BY <2>2, EndConnectingKeeps
  <2>3. CASE \E d \in Devices : EndLink(d)
    BY <2>3, EndLinkKeeps
  <2>4. CASE \E a \in ctrl.acts : \E st \in {"ok", "fail", "ext"}, ext \in ExtFeatures : EndAct(a, st, ext)
    BY <2>4, EndActKeeps
  <2>5. CASE \E a \in ctrl.acts : AskHost(a) \/ EndAuthentication(a)
    BY <2>5, AskHostKeeps, EndAuthenticationKeeps
  <2> QED
    BY <1>3, <2>1, <2>2, <2>3, <2>4, <2>5, Zenon DEF Controller
<1>4. CASE Environment
  <2>1. CASE \E kind \in Kinds, d \in Devices \cup {NoDevice}, h \in {0} \cup Handle :
                ClientRequest(kind, d, h)
    BY <2>1, ClientRequestKeeps
  <2>2. CASE \E d \in dialogs, kind \in FromDialog : DialogRequest(kind, d)
    BY <2>2, DialogRequestKeeps
  <2>3. CASE \E c \in DOMAIN calls : GiveUp(c)
    BY <2>3, GiveUpKeeps
  <2>4. CASE \E d \in Devices : Incoming(d) \/ Inquire(d) \/ EndLink(d)
    BY <2>4, IncomingKeeps, InquireKeeps, EndLinkKeeps
  <2>5. CASE Unplug
    BY <2>5, UnplugKeeps
  <2> QED
    BY <1>4, <2>1, <2>2, <2>3, <2>4, <2>5, Zenon DEF Environment
<1>5. CASE UNCHANGED vars
  BY <1>5, NothingChanges
<1> QED
  BY <1>1, <1>2, <1>3, <1>4, <1>5 DEF Next

LEMMA Invariant == Spec => []IInv
<1>1. Init => IInv
  BY InitKeeps
<1>2. IInv /\ [Next]_vars => IInv'
  BY NextKeeps
<1> QED
  BY <1>1, <1>2, PTL DEF Spec

----------------------------------------------------------------------------
\* What it says of the program

LEMMA AtMostOne ==
    ASSUME NEW S, \A a, b \in S : a = b
    PROVE  IsFiniteSet(S) /\ Cardinality(S) <= 1
<1>1. CASE S = {}
  BY <1>1, FS_EmptySet
<1>2. CASE S # {}
  <2>1. PICK x : x \in S
    BY <1>2
  <2>2. S = {x}
    BY <2>1
  <2>3. IsFiniteSet({x}) /\ Cardinality({x}) = 1
    BY FS_Singleton
  <2> QED
    BY <2>2, <2>3
<1> QED
  BY <1>1, <1>2

LEMMA ToSetOf ==
    ASSUME NEW T, NEW s \in Seq(T), NEW t \in Seq(T),
           \A i \in 1 .. Len(s) : \E j \in 1 .. Len(t) : s[i] = t[j]
    PROVE  ToSet(s) \subseteq ToSet(t)
<1>1. DOMAIN s = 1 .. Len(s) /\ DOMAIN t = 1 .. Len(t)
  OBVIOUS
<1>2. ASSUME NEW x \in ToSet(s) PROVE x \in ToSet(t)
  <2>1. PICK i \in 1 .. Len(s) : x = s[i]
    BY <1>1, <1>2 DEF ToSet
  <2>2. PICK j \in 1 .. Len(t) : x = t[j]
    BY <2>1
  <2> QED
    BY <1>1, <2>2 DEF ToSet
<1> QED
  BY <1>2

LEMMA PetitionTypes ==
    ASSUME ListInv, NEW k \in 1 .. Len(petitions)
    PROVE  LET p == petitions[k]
           IN  /\ p.call \in {0} \cup DOMAIN calls
               /\ p.dev \in Devices \cup {NoDevice} /\ p.handle \in {0} \cup Handle
               /\ Len(p.op) <= Len(p.ev)
               /\ \E w \in ServerWants \cup {Expected[x] : x \in DOMAIN Expected} :
                     ToSet(p.ev) \subseteq ToSet(w.ev) /\ ToSet(p.op) \subseteq ToSet(w.op)
<1> DEFINE p == petitions[k]
<1>1. /\ calls \in Seq(CallRec) /\ p \in PetitionRec /\ p.call \in 0 .. Len(calls) /\ Sound(p)
  BY ListTypes DEF ListInv, ListOk
<1>2. p.dev \in Device /\ p.handle \in Handle0 /\ p.ev \in Seq(EventName) /\ p.op \in Seq(OpName)
  BY <1>1, RecordTypes
<1>3. p.call \in {0} \cup DOMAIN calls
  BY <1>1
<1> HIDE DEF p
<1>4. PICK w \in Wants : LeftOf(p, w)
  BY <1>1 DEF Sound
<1>5. w.ev \in Seq(EventName) /\ w.op \in Seq(OpName)
  BY WantsAreGood DEF GoodWant
<1>6. ToSet(p.ev) \subseteq ToSet(w.ev) /\ ToSet(p.op) \subseteq ToSet(w.op)
  BY <1>2, <1>4, <1>5, ToSetOf DEF LeftOf
<1>7. Len(p.op) <= Len(p.ev)
  BY <1>1 DEF Sound
<1> QED
  BY <1>2, <1>3, <1>6, <1>7 DEF p, Device, Handle0, Wants

\* The requests, the list of petitions, the table of connections and the store
\* have the types that the handlers expect; at most one request is between its
\* AddWantedEvent() and its IssueCommand(), and every petition holds what is
\* left of the events and opcodes of one request, opcodes first.
THEOREM TypeCorrect == Spec => []TypeOK
<1>1. ASSUME IInv PROVE TypeOK
  <2>1. /\ ListInv /\ StoreInv /\ ListOk(petitions, calls) /\ petitions \in Seq(PetitionRec)
        /\ calls \in Seq(CallRec) /\ ListenerOk(listener, petitions)
    BY <1>1 DEF IInv, ListInv, ListOk
  <2>2. DOMAIN petitions = 1 .. Len(petitions) /\ DOMAIN calls = 1 .. Len(calls)
    BY <2>1
  <2>3. \A k \in DOMAIN petitions : LET p == petitions[k] IN
           /\ p.call \in {0} \cup DOMAIN calls
           /\ p.dev \in Devices \cup {NoDevice} /\ p.handle \in {0} \cup Handle
           /\ Len(p.op) <= Len(p.ev)
           /\ \E w \in ServerWants \cup {Expected[x] : x \in DOMAIN Expected} :
                 ToSet(p.ev) \subseteq ToSet(w.ev) /\ ToSet(p.op) \subseteq ToSet(w.op)
    BY <2>1, <2>2, PetitionTypes
  <2>4. \A c \in DOMAIN calls :
           /\ calls[c].kind \in DOMAIN Expected /\ calls[c].dev \in Devices \cup {NoDevice}
           /\ calls[c].handle \in {0} \cup Handle
           /\ calls[c].issued \in BOOLEAN /\ calls[c].res \in Result
    <3>1. \A c \in DOMAIN calls : calls[c] \in CallRec
      BY <2>1, <2>2
    <3> QED
      BY <3>1, RecordTypes, Kinds8 DEF Device, Handle0
  <2>5. Cardinality(Adding) <= 1
    <3>1. \A b, c \in Adding : b = c
      BY <2>1, <2>2 DEF Adding, ListOk
    <3> QED
      BY <3>1, AtMostOne
  <2>6. Len(listener) <= 1 /\ \A i \in DOMAIN listener : listener[i].req \in {0} \cup DOMAIN petitions
    <3>1. CASE listener = <<>>
      BY <3>1
    <3>2. CASE listener # <<>>
      <4>1. PICK t \in Todo : listener = <<t>> /\ TodoOk(t, petitions)
        BY <2>1, <3>2 DEF ListenerOk
      <4>2. Len(listener) = 1 /\ DOMAIN listener = {1} /\ listener[1] = t
        BY <4>1
      <4>3. t.req \in Nat /\ t.req <= Len(petitions) /\ Len(petitions) \in Nat
        BY <2>1, <4>1 DEF TodoOk, Todo
      <4>4. t.req \in {0} \cup DOMAIN petitions
        BY <2>2, <4>3
      <4> QED
        BY <4>2, <4>4
    <3> QED
      BY <3>1, <3>2
  <2>7. /\ conns \in [1 .. MaxConnections ->
                         [active : BOOLEAN, handle : {0} \cup Handle, dev : Devices \cup {NoDevice}]]
        /\ keys \subseteq Devices /\ names \subseteq keys /\ dialogs \subseteq Devices
    BY <2>1 DEF StoreInv, Device, Handle0
  <2> QED
    BY <2>3, <2>4, <2>5, <2>6, <2>7, Zenon DEF TypeOK
<1> QED
  BY <1>1, Invariant, PTL

\* Clients and the controller's events share one list, searched by event and
\* opcode only, and a handler clears petitions that it did not add.  Still a
\* client that waits in SendMessage() has exactly one petition, and one that was
\* answered has none, so none is left waiting for a reply that nobody will send
\* and none is answered twice.
THEOREM CallersAreRemembered == Spec => []NoCallerForgotten
<1>1. ASSUME IInv PROVE NoCallerForgotten
  <2>1. ListOk(petitions, calls) /\ petitions \in Seq(PetitionRec) /\ calls \in Seq(CallRec)
    BY <1>1 DEF IInv, ListInv, ListOk
  <2>2. SUFFICES ASSUME NEW c \in 1 .. Len(calls)
               PROVE  /\ calls[c].res = "none" => Cardinality(PetitionsOf(c)) = 1
                      /\ calls[c].res \in {"ok", "fail", "exists"} => PetitionsOf(c) = {}
    BY <2>1 DEF NoCallerForgotten
  <2>3. PetitionsOf(c) = {k \in 1 .. Len(petitions) : petitions[k].call = c}
    BY <2>1 DEF PetitionsOf
  <2>4. ASSUME calls[c].res = "none"
        PROVE  Cardinality(PetitionsOf(c)) = 1
    <3>1. PICK k \in 1 .. Len(petitions) : petitions[k].call = c
      BY <2>1, <2>4 DEF ListOk, Waits
    <3>2. \A i \in 1 .. Len(petitions) : petitions[i].call = c => i = k
      <4>1. \A i, j \in 1 .. Len(petitions) :
               petitions[i].call # 0 /\ petitions[i].call = petitions[j].call => i = j
        BY <2>1 DEF ListOk
      <4>2. c # 0
        BY <2>1
      <4> QED
        BY <3>1, <4>1, <4>2
    <3>3. PetitionsOf(c) = {k}
      BY <2>3, <3>1, <3>2
    <3> QED
      BY <3>3, FS_Singleton
  <2>5. calls[c].res \in {"ok", "fail", "exists"} => PetitionsOf(c) = {}
    BY <2>1, <2>3 DEF ListOk, Waits
  <2> QED
    BY <2>4, <2>5
<1> QED
  BY <1>1, Invariant, PTL

\* Authenticate() and the disconnection of devices look a handle up in
\* fConnections.  A handle that is there belongs to its device, or the event
\* that removes it is among those on their way: the listener never tracks a
\* connection whose end it has already handled, although a handle is used again
\* as soon as its connection has ended.
THEOREM TrackedConnectionsAreUp == Spec => []TrackedAreUp
<1>1. ASSUME IInv PROVE TrackedAreUp
  <2>1. SUFFICES ASSUME ctrl.on, NEW i \in Slot, conns[i].active
               PROVE  \/ /\ ctrl.link[conns[i].dev].st \in {"up", "closing"}
                         /\ ctrl.link[conns[i].dev].h = conns[i].handle
                      \/ \E n \in DOMAIN events :
                            /\ events[n].ev = "DISCONNECTION_COMPLETE"
                            /\ events[n].h = conns[i].handle
    BY <1>1 DEF TrackedAreUp, IInv, StoreInv, Slot
  <2>2. IsUp(ctrl.link, conns[i].dev, conns[i].handle) \/ EndBetween(events, conns[i].handle, 1, Len(events))
    BY <1>1, <2>1 DEF IInv, TrackInv, TrackOk
  <2>3. events \in Seq(Ev) /\ DOMAIN events = 1 .. Len(events)
    BY <1>1 DEF IInv, EventsInv
  <2> QED
    BY <2>2, <2>3 DEF IsUp, HasHandle, EndBetween, Ends
<1> QED
  BY <1>1, Invariant, PTL

\* ConnectionRequest() accepts only a device with a key.  So a device without
\* one is connected only when a client has asked to pair with it, in whatever
\* order the requests, the answers and the events of several devices come.
THEOREM ConnectionsAreWanted == Spec => []LinksAreWanted
<1>1. ASSUME IInv PROVE LinksAreWanted
  <2>1. calls \in Seq(CallRec) /\ DOMAIN calls = 1 .. Len(calls)
    BY <1>1 DEF IInv, ListInv, ListOk
  <2> QED
    BY <1>1, <2>1 DEF LinksAreWanted, IInv, WantInv, Wanted
<1> QED
  BY <1>1, Invariant, PTL

=============================================================================
