-------------------------- MODULE RtpSourcesProofs --------------------------
(* Proofs about RtpSources, for any identifiers and addresses. *)
EXTENDS RtpSources, FiniteSetTheorems, TLAPS

From == Addresses \cup {Self}

Entry ==
  [ownssrc : BOOLEAN, validated : BOOLEAN, issender : BOOLEAN, receivedbye : BOOLEAN,
   rtpaddr : From \cup {Unset}, rtcpaddr : From \cup {Unset},
   hosts : SUBSET {Host(a) : a \in From}]

(* The addresses of an entry are on one host, and what was heard is from   *)
(* that host.                                                              *)
Consistent(e) ==
  /\ e.rtpaddr # Unset /\ e.rtcpaddr # Unset => Host(e.rtpaddr) = Host(e.rtcpaddr)
  /\ \A h \in e.hosts :
       /\ e.rtpaddr # Unset => h = Host(e.rtpaddr)
       /\ e.rtcpaddr # Unset => h = Host(e.rtcpaddr)
       /\ e.rtpaddr # Unset \/ e.rtcpaddr # Unset

Ours(e) == e.ownssrc /\ IsActive(e) /\ e.rtpaddr = Self /\ e.rtcpaddr = Self

(* A table in which o is our own SSRC. *)
Good(S, o) ==
  /\ S = [table |-> S.table, totalcount |-> S.totalcount,
          sendercount |-> S.sendercount, activecount |-> S.activecount]
  /\ S.table = [s \in DOMAIN S.table |-> S.table[s]]
  /\ o \in DOMAIN S.table
  /\ \A s \in DOMAIN S.table :
       /\ S.table[s] \in Entry
       /\ Consistent(S.table[s])
       /\ IF s = o THEN Ours(S.table[s]) ELSE ~S.table[s].ownssrc

IInv == Good(sources, own)

-----------------------------------------------------------------------------
LEMMA Kinds ==
  ASSUME NEW e \in Entry, NEW a \in From, NEW kind \in {"rtpaddr", "rtcpaddr"}
  PROVE  /\ Located(e, a, kind) \in Entry
         /\ Located(e, a, kind).hosts = e.hosts
         /\ Located(e, a, kind).ownssrc = e.ownssrc
         /\ IsActive(Located(e, a, kind)) = IsActive(e)
         /\ e[kind] = Unset => Located(e, a, kind)[kind] = a
         /\ e[kind] # Unset => Located(e, a, kind) = e
         /\ Located(e, a, kind)[Other(kind)] = e[Other(kind)]
<1>1. CASE e[kind] # Unset
  BY <1>1 DEF Located
<1>2. CASE e[kind] = Unset /\ kind = "rtpaddr"
  BY <1>2 DEF Located, Entry, From, Other, IsActive
<1>3. CASE e[kind] = Unset /\ kind = "rtcpaddr"
  BY <1>3 DEF Located, Entry, From, Other, IsActive
<1> QED
  BY <1>1, <1>2, <1>3

(* What is not a collision keeps an entry consistent. *)
LEMMA LocatedConsistent ==
  ASSUME NEW e \in Entry, NEW a \in From, NEW kind \in {"rtpaddr", "rtcpaddr"},
         Consistent(e), ~Collides(e, a, kind)
  PROVE  /\ Consistent(Located(e, a, kind))
         /\ \/ Located(e, a, kind).rtpaddr # Unset
               /\ Host(Located(e, a, kind).rtpaddr) = Host(a)
            \/ Located(e, a, kind).rtcpaddr # Unset
               /\ Host(Located(e, a, kind).rtcpaddr) = Host(a)
<1> DEFINE l == Located(e, a, kind)
<1>0. a # Unset
  BY AddressesAssumption DEF From, Self, Unset
<1>1. CASE e[kind] # Unset
  <2>1. l = e /\ e[kind] = a
    BY <1>1, Kinds DEF Collides
  <2> QED
    BY <1>0, <2>1
<1>2. CASE e[kind] = Unset /\ kind = "rtpaddr"
  <2>1. l.rtpaddr = a /\ l.rtcpaddr = e.rtcpaddr /\ l.hosts = e.hosts
    BY <1>2, Kinds DEF Other
  <2>2. e.rtpaddr = Unset /\ (e.rtcpaddr # Unset => Host(e.rtcpaddr) = Host(a))
    BY <1>2 DEF Collides, Other
  <2> HIDE DEF l
  <2>3. Consistent(l)
    BY <1>0, <2>1, <2>2 DEF Consistent
  <2> QED
    BY <1>0, <2>1, <2>3 DEF l
<1>3. CASE e[kind] = Unset /\ kind = "rtcpaddr"
  <2>1. l.rtcpaddr = a /\ l.rtpaddr = e.rtpaddr /\ l.hosts = e.hosts
    BY <1>3, Kinds DEF Other
  <2>2. e.rtcpaddr = Unset /\ (e.rtpaddr # Unset => Host(e.rtpaddr) = Host(a))
    BY <1>3 DEF Collides, Other
  <2> HIDE DEF l
  <2>3. Consistent(l)
    BY <1>0, <2>1, <2>2 DEF Consistent
  <2> QED
    BY <1>0, <2>1, <2>3 DEF l
<1> QED
  BY <1>1, <1>2, <1>3

LEMMA HeardConsistent ==
  ASSUME NEW e \in Entry, NEW a \in From, NEW kind \in {"rtpaddr", "rtcpaddr"},
         Consistent(e), ~Collides(e, a, kind)
  PROVE  /\ Heard(e, a, kind) \in Entry
         /\ Consistent(Heard(e, a, kind))
         /\ Heard(e, a, kind).ownssrc = e.ownssrc
         /\ IsActive(Heard(e, a, kind)) = IsActive(e)
         /\ Ours(e) => Ours(Heard(e, a, kind))
<1> DEFINE l == Located(e, a, kind)
           h == Heard(e, a, kind)
<1>0. /\ l \in Entry /\ l.hosts = e.hosts /\ l.ownssrc = e.ownssrc
      /\ IsActive(l) = IsActive(e)
      /\ e[kind] # Unset => l = e
  BY Kinds
<1>1. /\ Consistent(l)
      /\ \/ l.rtpaddr # Unset /\ Host(l.rtpaddr) = Host(a)
         \/ l.rtcpaddr # Unset /\ Host(l.rtcpaddr) = Host(a)
  BY LocatedConsistent
<1>2. h = [l EXCEPT !.hosts = @ \cup {Host(a)}]
  BY DEF Heard
<1> HIDE DEF l, h
<1>3. h \in Entry
  BY <1>0, <1>2 DEF Entry
<1>4. /\ h.ownssrc = l.ownssrc /\ IsActive(h) = IsActive(l)
      /\ h.rtpaddr = l.rtpaddr /\ h.rtcpaddr = l.rtcpaddr
      /\ h.hosts = l.hosts \cup {Host(a)}
  BY <1>0, <1>2 DEF Entry, IsActive
<1>5. Consistent(h)
  BY <1>1, <1>4 DEF Consistent
<1>6. Ours(e) => Ours(h)
  BY <1>0, <1>4 DEF Ours, Self, Unset
<1> QED
  BY <1>0, <1>3, <1>4, <1>5, <1>6 DEF h

-----------------------------------------------------------------------------
(* The operations on the table. *)
LEMMA NewEntry ==
  /\ NewSource \in Entry /\ Consistent(NewSource) /\ ~NewSource.ownssrc
  /\ OwnSource \in Entry /\ Consistent(OwnSource) /\ Ours(OwnSource)
BY DEF NewSource, OwnSource, Entry, From, Consistent, Ours, IsActive, Self, Unset

LEMMA ObtainGood ==
  ASSUME NEW S, NEW o, NEW s, Good(S, o)
  PROVE  /\ Good(Obtain(S, s), o)
         /\ s \in DOMAIN Obtain(S, s).table
         /\ s \in DOMAIN S.table => Obtain(S, s) = S
         /\ s \notin DOMAIN S.table => Obtain(S, s).table[s] = NewSource
<1>1. CASE s \in DOMAIN S.table
  BY <1>1 DEF Obtain, Present
<1>2. CASE s \notin DOMAIN S.table
  <2> DEFINE O == Obtain(S, s)
             T == Set(S.table, s, NewSource)
  <2>1. O = [table |-> T, totalcount |-> S.totalcount + 1,
             sendercount |-> S.sendercount, activecount |-> S.activecount]
    <3>1. O = [S EXCEPT !.table = Set(@, s, NewSource), !.totalcount = @ + 1]
      BY <1>2 DEF Obtain, Present
    <3>2. S = [table |-> S.table, totalcount |-> S.totalcount,
               sendercount |-> S.sendercount, activecount |-> S.activecount]
      BY DEF Good
    <3> QED
      BY <3>1, <3>2
  <2>2. /\ DOMAIN T = DOMAIN S.table \cup {s}
        /\ T[s] = NewSource
        /\ \A x \in DOMAIN S.table : T[x] = S.table[x]
        /\ T = [x \in DOMAIN T |-> T[x]]
    BY <1>2 DEF Set
  <2> HIDE DEF O, T
  <2>3. O.table = T
    BY <2>1
  <2>4. s # o
    BY <1>2 DEF Good
  <2>5. Good(O, o)
    BY <2>1, <2>2, <2>3, <2>4, NewEntry DEF Good
  <2> QED
    BY <1>2, <2>2, <2>3, <2>5 DEF O
<1> QED
  BY <1>1, <1>2

LEMMA UpdateGood ==
  ASSUME NEW S, NEW o, Good(S, o), NEW s \in DOMAIN S.table,
         NEW e \in Entry, Consistent(e),
         IF s = o THEN Ours(e) ELSE ~e.ownssrc
  PROVE  /\ Good(Update(S, s, e), o)
         /\ DOMAIN Update(S, s, e).table = DOMAIN S.table
         /\ Update(S, s, e).table[s] = e
<1> DEFINE U == Update(S, s, e)
           T == [S.table EXCEPT ![s] = e]
<1>1. S = [table |-> S.table, totalcount |-> S.totalcount,
           sendercount |-> S.sendercount, activecount |-> S.activecount]
  BY DEF Good
<1>2. PICK m, n : U = [S EXCEPT !.table[s] = e, !.sendercount = m, !.activecount = n]
  BY DEF Update
<1>3. U = [table |-> T, totalcount |-> S.totalcount, sendercount |-> m, activecount |-> n]
  BY <1>1, <1>2
<1>4. /\ DOMAIN T = DOMAIN S.table
      /\ T[s] = e
      /\ \A x \in DOMAIN S.table : x # s => T[x] = S.table[x]
      /\ T = [x \in DOMAIN T |-> T[x]]
  BY DEF Good
<1> HIDE DEF U, T
<1>5. U.table = T
  BY <1>3
<1>6. Good(U, o)
  BY <1>3, <1>4, <1>5 DEF Good
<1> QED
  BY <1>4, <1>5, <1>6 DEF U

LEMMA TakeGood ==
  ASSUME NEW S, NEW a, Good(S, own), TakeNewSSRC(S, a)
  PROVE  IInv'
<1>1. PICK newssrc \in SSRCs \ Present(S) :
        /\ own' = newssrc
        /\ sources' = CreateOwnSSRC(DeleteOwnSSRC(S), newssrc)
  BY DEF TakeNewSSRC
<1> DEFINE D == Without(S.table, {own})
           T == Set(D, newssrc, OwnSource)
           R == DeleteOwnSSRC(S)
<1>2. /\ DOMAIN D = DOMAIN S.table \ {own}
      /\ \A x \in DOMAIN D : D[x] = S.table[x]
  BY DEF Without
<1>3. /\ DOMAIN T = DOMAIN D \cup {newssrc}
      /\ \A x \in DOMAIN D : x # newssrc => T[x] = D[x]
      /\ T[newssrc] = OwnSource
      /\ T = [x \in DOMAIN T |-> T[x]]
  BY DEF Set
<1>4. PICK i, j, k : R = [table |-> D, totalcount |-> i, sendercount |-> j, activecount |-> k]
  BY DEF DeleteOwnSSRC
<1>a. sources' = [R EXCEPT !.table = Set(@, newssrc, OwnSource),
                           !.totalcount = @ + 1, !.activecount = @ + 1]
  BY <1>1 DEF CreateOwnSSRC
<1>b. T = Set(D, newssrc, OwnSource)
  OBVIOUS
<1> HIDE DEF D, T, R
<1>5. sources' = [table |-> T, totalcount |-> i + 1, sendercount |-> j, activecount |-> k + 1]
  BY <1>4, <1>a, <1>b
<1>6. newssrc \notin DOMAIN S.table
  BY DEF Present
<1>7. sources'.table = T
  BY <1>5
<1>8. Good(sources', newssrc)
  BY <1>2, <1>3, <1>5, <1>6, <1>7, NewEntry DEF Good
<1> QED
  BY <1>1, <1>8 DEF IInv

LEMMA AfterGood ==
  ASSUME NEW S, NEW a, NEW c, Good(S, own), AfterPacket(S, a, c)
  PROVE  IInv'
<1>1. CASE Keep(S)
  BY <1>1 DEF Keep, IInv
<1> QED
  BY <1>1, TakeGood DEF AfterPacket

-----------------------------------------------------------------------------
(* The packets.  What every one of them does first: the source is found or *)
(* made, and it is known to be where it was.                               *)
LEMMA HeardGood ==
  ASSUME IInv, NEW s \in SSRCs, NEW a \in From, NEW kind \in {"rtpaddr", "rtcpaddr"},
         ~SourceCollides(s, a, kind)
  PROVE  LET O == Obtain(sources, s)
             e == Heard(O.table[s], a, kind)
         IN  /\ Good(O, own) /\ s \in DOMAIN O.table
             /\ e \in Entry /\ Consistent(e)
             /\ IF s = own THEN Ours(e) ELSE ~e.ownssrc
<1> DEFINE O == Obtain(sources, s)
<1>1. /\ Good(O, own) /\ s \in DOMAIN O.table
      /\ s \in DOMAIN sources.table => O = sources
      /\ s \notin DOMAIN sources.table => O.table[s] = NewSource
  BY ObtainGood DEF IInv
<1> HIDE DEF O
<1>2. ~Collides(O.table[s], a, kind)
  <2>1. CASE s \in DOMAIN sources.table
    BY <1>1, <2>1 DEF SourceCollides, Present
  <2>2. CASE s \notin DOMAIN sources.table
    <3>1. NewSource[kind] = Unset /\ NewSource[Other(kind)] = Unset
      BY DEF NewSource, Other
    <3> QED
      BY <1>1, <2>2, <3>1 DEF Collides
  <2> QED
    BY <2>1, <2>2
<1>3. /\ O.table[s] \in Entry /\ Consistent(O.table[s])
      /\ IF s = own THEN Ours(O.table[s]) ELSE ~O.table[s].ownssrc
  BY <1>1 DEF Good
<1>4. /\ Heard(O.table[s], a, kind) \in Entry /\ Consistent(Heard(O.table[s], a, kind))
      /\ Heard(O.table[s], a, kind).ownssrc = O.table[s].ownssrc
      /\ Ours(O.table[s]) => Ours(Heard(O.table[s], a, kind))
  BY <1>2, <1>3, HeardConsistent
<1> QED
  BY <1>1, <1>3, <1>4 DEF O

LEMMA ValidateGood ==
  ASSUME NEW e \in Entry, Consistent(e), NEW accepted \in BOOLEAN
  PROVE  /\ Validate(e, accepted) \in Entry /\ Consistent(Validate(e, accepted))
         /\ Validate(e, accepted).ownssrc = e.ownssrc
         /\ Ours(e) => Ours(Validate(e, accepted))
<1> DEFINE v == Validate(e, accepted)
<1>1. /\ v = [e EXCEPT !.validated = @ \/ accepted, !.issender = @ \/ (accepted /\ ~e.ownssrc)]
  BY DEF Validate
<1>2. v \in Entry
  BY <1>1 DEF Entry
<1>3. /\ v.ownssrc = e.ownssrc /\ v.rtpaddr = e.rtpaddr /\ v.rtcpaddr = e.rtcpaddr
      /\ v.hosts = e.hosts /\ v.receivedbye = e.receivedbye
      /\ e.validated => v.validated
  BY <1>1 DEF Entry
<1> HIDE DEF v
<1>4. Consistent(v) /\ (Ours(e) => Ours(v))
  BY <1>3 DEF Consistent, Ours, IsActive
<1> QED
  BY <1>2, <1>3, <1>4 DEF v

LEMMA FromSourceGood ==
  ASSUME IInv, NEW s \in SSRCs, NEW a \in From, NEW accepted \in BOOLEAN,
         ~SourceCollides(s, a, "rtpaddr")
  PROVE  Good(FromSource(sources, s, a, accepted), own)
<1> DEFINE O == Obtain(sources, s)
           e == Heard(O.table[s], a, "rtpaddr")
           v == Validate(e, accepted)
<1>1. /\ Good(O, own) /\ s \in DOMAIN O.table
      /\ e \in Entry /\ Consistent(e)
      /\ IF s = own THEN Ours(e) ELSE ~e.ownssrc
  BY HeardGood
<1>2. FromSource(sources, s, a, accepted) = Update(O, s, v)
  BY DEF FromSource
<1> HIDE DEF O, e
<1>3. v \in Entry /\ Consistent(v) /\ (IF s = own THEN Ours(v) ELSE ~v.ownssrc)
  BY <1>1, ValidateGood
<1> HIDE DEF v
<1> QED
  BY <1>1, <1>2, <1>3, UpdateGood

LEMMA ContributesGood ==
  ASSUME NEW e \in Entry, Consistent(e)
  PROVE  /\ Contributes(e) \in Entry /\ Consistent(Contributes(e))
         /\ Contributes(e).ownssrc = e.ownssrc
         /\ Ours(e) => Ours(Contributes(e))
<1> DEFINE v == Contributes(e)
<1>1. v = [e EXCEPT !.validated = TRUE]
  BY DEF Contributes
<1>2. v \in Entry
  BY <1>1 DEF Entry
<1>3. /\ v.ownssrc = e.ownssrc /\ v.rtpaddr = e.rtpaddr /\ v.rtcpaddr = e.rtcpaddr
      /\ v.hosts = e.hosts /\ v.receivedbye = e.receivedbye /\ v.validated
  BY <1>1 DEF Entry
<1> HIDE DEF v
<1>4. Consistent(v) /\ (Ours(e) => Ours(v))
  BY <1>3 DEF Consistent, Ours, IsActive
<1> QED
  BY <1>2, <1>3, <1>4 DEF v

LEMMA ContributorGood ==
  ASSUME NEW S, Good(S, own), NEW c \in SSRCs, NEW a \in From
  PROVE  Good(WithContributor(S, c, a), own)
<1> DEFINE W == WithContributor(S, c, a)
<1>1. CASE c \notin DOMAIN S.table
  <2> DEFINE O == Obtain(S, c)
  <2>1. W = Update(O, c, Contributes(NewSource))
    BY <1>1 DEF WithContributor, Present
  <2>a. own \in DOMAIN S.table
    BY DEF Good
  <2>2. Good(O, own) /\ c \in DOMAIN O.table /\ c # own
    BY <1>1, <2>a, ObtainGood
  <2> HIDE DEF O, W
  <2>3. /\ Contributes(NewSource) \in Entry /\ Consistent(Contributes(NewSource))
        /\ ~Contributes(NewSource).ownssrc
    BY ContributesGood, NewEntry
  <2>4. Good(W, own)
    BY <2>1, <2>2, <2>3, UpdateGood
  <2> QED
    BY <2>4 DEF W
<1>2. CASE c \in DOMAIN S.table /\ Collides(S.table[c], a, "rtpaddr")
  BY <1>2 DEF WithContributor, Present
<1>3. CASE c \in DOMAIN S.table /\ ~Collides(S.table[c], a, "rtpaddr")
  <2> DEFINE e == Contributes(Located(S.table[c], a, "rtpaddr"))
             T == [S.table EXCEPT ![c] = e]
  <2>1. W = [S EXCEPT !.table[c] = e]
    BY <1>3 DEF WithContributor, Present
  <2>2. /\ S.table[c] \in Entry /\ Consistent(S.table[c])
        /\ IF c = own THEN Ours(S.table[c]) ELSE ~S.table[c].ownssrc
        /\ S = [table |-> S.table, totalcount |-> S.totalcount,
                sendercount |-> S.sendercount, activecount |-> S.activecount]
    BY <1>3 DEF Good
  <2>3. /\ Located(S.table[c], a, "rtpaddr") \in Entry
        /\ Consistent(Located(S.table[c], a, "rtpaddr"))
        /\ Located(S.table[c], a, "rtpaddr").ownssrc = S.table[c].ownssrc
        /\ Ours(S.table[c]) => Ours(Located(S.table[c], a, "rtpaddr"))
    <3>1. Ours(S.table[c]) => Located(S.table[c], a, "rtpaddr") = S.table[c]
      BY <2>2, Kinds DEF Ours, Self, Unset
    <3> QED
      BY <1>3, <2>2, <3>1, Kinds, LocatedConsistent
  <2>4. e \in Entry /\ Consistent(e) /\ (IF c = own THEN Ours(e) ELSE ~e.ownssrc)
    BY <2>2, <2>3, ContributesGood
  <2> HIDE DEF e
  <2>5. W = [table |-> T, totalcount |-> S.totalcount,
             sendercount |-> S.sendercount, activecount |-> S.activecount]
    BY <2>1, <2>2
  <2>6. /\ DOMAIN T = DOMAIN S.table
        /\ T[c] = e
        /\ \A x \in DOMAIN S.table : x # c => T[x] = S.table[x]
        /\ T = [x \in DOMAIN T |-> T[x]]
    BY <1>3 DEF Good
  <2> HIDE DEF T, W
  <2>7. W.table = T
    BY <2>5
  <2>8. Good(W, own)
    BY <2>4, <2>5, <2>6, <2>7 DEF Good
  <2> QED
    BY <2>8 DEF W
<1> QED
  BY <1>1, <1>2, <1>3

-----------------------------------------------------------------------------
LEMMA InitInv == Init => IInv
<1> SUFFICES ASSUME Init PROVE Good(sources, own)
  BY DEF IInv
<1> DEFINE T == [s \in {own} |-> OwnSource]
<1>1. sources = [table |-> T, totalcount |-> 1, sendercount |-> 0, activecount |-> 1]
  BY DEF Init
<1>2. DOMAIN T = {own} /\ T[own] = OwnSource /\ T = [s \in DOMAIN T |-> T[s]]
  OBVIOUS
<1> HIDE DEF T
<1>3. sources.table = T
  BY <1>1
<1> QED
  BY <1>1, <1>2, <1>3, NewEntry DEF Good

LEMMA RTPStep ==
  ASSUME IInv, NEW s \in SSRCs, NEW a \in From, NEW accepted \in BOOLEAN,
         ReceiveRTP(s, a, accepted)
  PROVE  IInv'
<1>1. Good(FromSource(sources, s, a, accepted), own)
  BY FromSourceGood DEF ReceiveRTP
<1> QED
  BY <1>1 DEF ReceiveRTP, Keep, IInv

LEMMA MixedStep ==
  ASSUME IInv, NEW s \in SSRCs, NEW a \in From, NEW accepted \in BOOLEAN, NEW c \in SSRCs,
         ReceiveMixed(s, a, accepted, c)
  PROVE  IInv'
<1> DEFINE S == FromSource(sources, s, a, accepted)
<1>1. Good(S, own)
  BY FromSourceGood DEF ReceiveMixed
<1>2. PICK b : AfterPacket(WithContributor(S, c, a), a, b)
  BY DEF ReceiveMixed
<1> HIDE DEF S
<1>3. Good(WithContributor(S, c, a), own)
  BY <1>1, ContributorGood
<1> QED
  BY <1>2, <1>3, AfterGood

LEMMA RTCPStep ==
  ASSUME IInv, NEW s \in SSRCs, NEW a \in From,
         ReceiveReport(s, a) \/ ReceiveCNAME(s, a) \/ ReceiveBYE(s, a)
  PROVE  IInv'
<1> DEFINE O == Obtain(sources, s)
           e == Heard(O.table[s], a, "rtcpaddr")
           n == [e EXCEPT !.validated = TRUE]
           b == [e EXCEPT !.receivedbye = s # own]
<1>1. /\ Good(O, own) /\ s \in DOMAIN O.table
      /\ e \in Entry /\ Consistent(e)
      /\ IF s = own THEN Ours(e) ELSE ~e.ownssrc
  <2>1. ~SourceCollides(s, a, "rtcpaddr")
    BY DEF ReceiveReport, ReceiveCNAME, ReceiveBYE
  <2> QED
    BY <2>1, HeardGood
<1>2. \/ sources' = Update(O, s, e) \/ sources' = Update(O, s, n)
      \/ sources' = Update(O, s, b)
  BY DEF ReceiveReport, ReceiveCNAME, ReceiveBYE, Keep
<1>3. own' = own
  BY DEF ReceiveReport, ReceiveCNAME, ReceiveBYE, Keep
<1> HIDE DEF O, e
<1>4. n \in Entry /\ Consistent(n) /\ (IF s = own THEN Ours(n) ELSE ~n.ownssrc)
  <2>1. /\ n \in Entry
        /\ n.ownssrc = e.ownssrc /\ n.rtpaddr = e.rtpaddr /\ n.rtcpaddr = e.rtcpaddr
        /\ n.hosts = e.hosts /\ n.receivedbye = e.receivedbye /\ n.validated
    BY <1>1 DEF Entry
  <2> HIDE DEF n
  <2> QED
    BY <1>1, <2>1 DEF Consistent, Ours, IsActive
<1>5. b \in Entry /\ Consistent(b) /\ (IF s = own THEN Ours(b) ELSE ~b.ownssrc)
  <2>1. /\ b \in Entry
        /\ b.ownssrc = e.ownssrc /\ b.rtpaddr = e.rtpaddr /\ b.rtcpaddr = e.rtcpaddr
        /\ b.hosts = e.hosts /\ b.validated = e.validated /\ (s = own => ~b.receivedbye)
    BY <1>1 DEF Entry
  <2> HIDE DEF b
  <2> QED
    BY <1>1, <2>1 DEF Consistent, Ours, IsActive
<1> HIDE DEF n, b
<1> QED
  BY <1>1, <1>2, <1>3, <1>4, <1>5, UpdateGood DEF IInv

LEMMA PollStep == ASSUME IInv, EndOfPoll PROVE IInv'
<1>1. PICK gone \in SUBSET (Present(sources) \ {own}), silent \in SUBSET Senders(sources) :
        sources' = Recounted(Quiet(Without(sources.table, gone), silent))
  BY DEF EndOfPoll, MultipleTimeouts
<1> DEFINE W == Without(sources.table, gone)
           Q == Quiet(W, silent)
           q(s) == IF s \in silent THEN [W[s] EXCEPT !.issender = FALSE] ELSE W[s]
<1>2. /\ DOMAIN W = DOMAIN sources.table \ gone
      /\ \A s \in DOMAIN W : W[s] = sources.table[s]
  BY DEF Without
<1>3. /\ DOMAIN Q = DOMAIN W /\ Q = [s \in DOMAIN Q |-> Q[s]]
      /\ \A s \in DOMAIN W : Q[s] = q(s)
  BY DEF Quiet
<1>4. PICK i, j, k : sources' = [table |-> Q, totalcount |-> i, sendercount |-> j, activecount |-> k]
  BY <1>1 DEF Recounted
<1>5. own' = own /\ own \in DOMAIN W
  BY <1>2 DEF EndOfPoll, IInv, Good
<1> HIDE DEF W, Q
<1>6. ASSUME NEW s \in DOMAIN W
      PROVE  /\ q(s) \in Entry /\ Consistent(q(s))
             /\ IF s = own THEN Ours(q(s)) ELSE ~q(s).ownssrc
  <2>1. /\ W[s] \in Entry /\ Consistent(W[s])
        /\ IF s = own THEN Ours(W[s]) ELSE ~W[s].ownssrc
    BY <1>2 DEF IInv, Good
  <2> DEFINE w == [W[s] EXCEPT !.issender = FALSE]
  <2>2. /\ w \in Entry
        /\ w.ownssrc = W[s].ownssrc /\ w.rtpaddr = W[s].rtpaddr /\ w.rtcpaddr = W[s].rtcpaddr
        /\ w.hosts = W[s].hosts /\ w.receivedbye = W[s].receivedbye
        /\ w.validated = W[s].validated
    BY <2>1 DEF Entry
  <2> HIDE DEF w
  <2>3. Consistent(w) /\ (IF s = own THEN Ours(w) ELSE ~w.ownssrc)
    BY <2>1, <2>2 DEF Consistent, Ours, IsActive
  <2>4. q(s) = w \/ q(s) = W[s]
    BY DEF w
  <2> QED
    BY <2>1, <2>2, <2>3, <2>4
<1> HIDE DEF q
<1>7. sources'.table = Q
  BY <1>4
<1>8. Good(sources', own)
  BY <1>3, <1>4, <1>5, <1>6, <1>7 DEF Good
<1> QED
  BY <1>5, <1>8 DEF IInv

LEMMA SendStep == ASSUME IInv, SendPacket PROVE IInv'
<1> DEFINE e == [sources.table[own] EXCEPT !.issender = TRUE]
<1>1. sources' = Update(sources, own, e) /\ own' = own
  BY DEF SendPacket
<1>2. /\ Good(sources, own) /\ own \in DOMAIN sources.table
      /\ sources.table[own] \in Entry /\ Consistent(sources.table[own])
      /\ Ours(sources.table[own])
  BY DEF IInv, Good
<1>3. e \in Entry /\ Consistent(e) /\ Ours(e)
  <2>1. /\ e \in Entry
        /\ e.ownssrc = sources.table[own].ownssrc /\ e.rtpaddr = sources.table[own].rtpaddr
        /\ e.rtcpaddr = sources.table[own].rtcpaddr /\ e.hosts = sources.table[own].hosts
        /\ e.receivedbye = sources.table[own].receivedbye
        /\ e.validated = sources.table[own].validated
    BY <1>2 DEF Entry
  <2> HIDE DEF e
  <2> QED
    BY <1>2, <2>1 DEF Consistent, Ours, IsActive
<1> HIDE DEF e
<1> QED
  BY <1>1, <1>2, <1>3, UpdateGood DEF IInv

LEMMA StepInv == ASSUME IInv, [Next]_vars PROVE IInv'
<1>1. ASSUME NEW s \in SSRCs, NEW a \in From,
             \/ \E kind \in {"rtpaddr", "rtcpaddr"} : Collision(s, a, kind)
             \/ \E accepted \in BOOLEAN : ReceiveRTP(s, a, accepted)
             \/ \E accepted \in BOOLEAN, c \in SSRCs : ReceiveMixed(s, a, accepted, c)
             \/ ReceiveReport(s, a) \/ ReceiveCNAME(s, a) \/ ReceiveBYE(s, a)
      PROVE  IInv'
  <2>1. CASE \E kind \in {"rtpaddr", "rtcpaddr"} : Collision(s, a, kind)
    <3>1. AfterPacket(sources, a, s = own)
      BY <2>1 DEF Collision
    <3> QED
      BY <3>1, AfterGood DEF IInv
  <2> QED
    BY <1>1, <2>1, RTPStep, MixedStep, RTCPStep
<1>2. CASE UNCHANGED vars
  BY <1>2 DEF vars, IInv
<1> QED
  BY <1>1, <1>2, PollStep, SendStep DEF Next, From

(* Our own entry is there and ours alone, whatever others send. *)
THEOREM OwnKeptCorrect == Spec => []OwnKept
<1>1. IInv => OwnKept
  BY DEF IInv, Good, OwnKept, Ours, Present
<1> QED
  BY <1>1, InitInv, StepInv, PTL DEF Spec

(* Participants of different hosts are never kept as one. *)
THEOREM OneHostCorrect == Spec => []OneHost
<1>1. IInv => OneHost
  <2> SUFFICES ASSUME IInv, NEW s \in Present(sources),
                      NEW h \in sources.table[s].hosts, NEW k \in sources.table[s].hosts
               PROVE  h = k
    BY DEF OneHost
  <2>1. Consistent(sources.table[s])
    BY DEF IInv, Good, Present
  <2> QED
    BY <2>1 DEF Consistent
<1> QED
  BY <1>1, InitInv, StepInv, PTL DEF Spec

-----------------------------------------------------------------------------
(* Whoever has spoken under its SSRC has sent packets.  A change of SSRC   *)
(* is the one step that takes the first back, and takes the second too.    *)
Known == /\ spoken \in BOOLEAN /\ sentpackets \in BOOLEAN
         /\ spoken => sentpackets

Said == own' # own /\ spoken => byepackets' = Append(byepackets, own)

LEMMA KeepSaid ==
  ASSUME NEW S, Known, Keep(S)
  PROVE  Known' /\ Said
  BY DEF Keep, Known, Said

LEMMA AfterSaid ==
  ASSUME NEW S, NEW a, NEW c, Known, AfterPacket(S, a, c)
  PROVE  Known' /\ Said
<1>1. CASE Keep(S)
  BY <1>1, KeepSaid
<1>2. CASE TakeNewSSRC(S, a)
  BY <1>2 DEF TakeNewSSRC, Known, Said
<1> QED
  BY <1>1, <1>2 DEF AfterPacket

LEMMA StepSaid == ASSUME Known, [Next]_vars PROVE Known' /\ Said
<1>1. ASSUME NEW s \in SSRCs, NEW a \in From,
             \/ \E kind \in {"rtpaddr", "rtcpaddr"} : Collision(s, a, kind)
             \/ \E accepted \in BOOLEAN : ReceiveRTP(s, a, accepted)
             \/ \E accepted \in BOOLEAN, c \in SSRCs : ReceiveMixed(s, a, accepted, c)
             \/ ReceiveReport(s, a) \/ ReceiveCNAME(s, a) \/ ReceiveBYE(s, a)
      PROVE  Known' /\ Said
  <2>1. CASE \E kind \in {"rtpaddr", "rtcpaddr"} : Collision(s, a, kind)
    <3>1. AfterPacket(sources, a, s = own)
      BY <2>1 DEF Collision
    <3> QED
      BY <3>1, AfterSaid
  <2>2. CASE \E accepted \in BOOLEAN, c \in SSRCs : ReceiveMixed(s, a, accepted, c)
    <3>1. PICK accepted \in BOOLEAN, c \in SSRCs : ReceiveMixed(s, a, accepted, c)
      BY <2>2
    <3> DEFINE S == FromSource(sources, s, a, accepted)
    <3>2. AfterPacket(WithContributor(S, c, a), a, c = own /\ ContributorCollides(S, c, a))
      BY <3>1 DEF ReceiveMixed
    <3> QED
      BY <3>2, AfterSaid
  <2>3. CASE ReceiveBYE(s, a)
    BY <2>3, KeepSaid DEF ReceiveBYE
  <2>4. CASE ReceiveCNAME(s, a)
    BY <2>4, KeepSaid DEF ReceiveCNAME
  <2>5. CASE ReceiveReport(s, a)
    BY <2>5, KeepSaid DEF ReceiveReport
  <2>6. CASE \E accepted \in BOOLEAN : ReceiveRTP(s, a, accepted)
    BY <2>6, KeepSaid DEF ReceiveRTP
  <2> QED
    BY <1>1, <2>1, <2>2, <2>3, <2>4, <2>5, <2>6
<1>2. CASE EndOfPoll
  <2>1. own' = own
    BY <1>2 DEF EndOfPoll
  <2>2. \/ sentpackets' = TRUE /\ (spoken' = TRUE \/ spoken' = spoken)
        \/ sentpackets' = sentpackets /\ spoken' = spoken
    <3>1. SendRTCP \/ UNCHANGED <<byepackets, sentpackets, spoken>>
      BY <1>2 DEF EndOfPoll
    <3> QED
      BY <3>1, Zenon DEF SendRTCP
  <2>3. CASE sentpackets' = sentpackets /\ spoken' = spoken
    BY <2>1, <2>3 DEF Known, Said
  <2>4. CASE sentpackets' = TRUE /\ spoken' = spoken
    BY <2>1, <2>4 DEF Known, Said
  <2>5. CASE sentpackets' = TRUE /\ spoken' = TRUE
    BY <2>1, <2>5 DEF Known, Said
  <2> QED
    BY <2>2, <2>3, <2>4, <2>5
<1>3. CASE SendPacket
  BY <1>3 DEF SendPacket, Known, Said
<1>4. CASE UNCHANGED vars
  BY <1>4 DEF vars, Known, Said
<1> QED
  BY <1>1, <1>2, <1>3, <1>4 DEF Next, From

(* An SSRC that was used in a packet is not given up without a BYE.        *)
THEOREM LeaversSayByeCorrect == Spec => LeaversSayBye
<1>1. Init => Known
  BY DEF Init, Known
<1>2. Known /\ [Next]_vars => Known' /\ [Said]_vars
  BY StepSaid
<1> QED
  BY <1>1, <1>2, PTL DEF Spec, LeaversSayBye, Said

-----------------------------------------------------------------------------
(* The counters of a table, but for m active participants that were not    *)
(* counted when they became active.                                        *)
Counted(S, m) ==
  /\ m \in Int /\ S.activecount \in Int
  /\ IsFiniteSet(Present(S))
  /\ S.totalcount = Cardinality(Present(S))
  /\ S.sendercount = Cardinality(Senders(S))
  /\ S.activecount + m = Cardinality(Active(S))

CInv == IInv /\ Counted(sources, missed)

(* A number that follows a set as s goes in or out. *)
LEMMA CountSet ==
  ASSUME NEW A, NEW B, NEW s, IsFiniteSet(A), B = A \cup {s} \/ B = A \ {s},
         NEW n \in Int, NEW m \in Int, n + m = Cardinality(A), NEW i,
         (s \in A <=> s \in B) => i = n,
         s \notin A /\ s \in B => i = n + 1,
         s \in A /\ s \notin B => i = n - 1
  PROVE  i \in Int /\ i + m = Cardinality(B)
<1>0. /\ Cardinality(A) \in Nat
      /\ s \notin A => Cardinality(A \cup {s}) = Cardinality(A) + 1
      /\ s \in A => Cardinality(A \ {s}) = Cardinality(A) - 1
  BY FS_CardinalityType, FS_AddElement, FS_RemoveElement
<1>1. CASE s \in A <=> s \in B
  <2>1. B = A
    BY <1>1
  <2> QED
    BY <1>1, <2>1
<1>2. CASE s \notin A /\ s \in B
  <2>1. B = A \cup {s}
    BY <1>2
  <2>2. Cardinality(B) = Cardinality(A) + 1
    BY <1>0, <1>2, <2>1
  <2> QED
    BY <1>0, <1>2, <2>2
<1>3. CASE s \in A /\ s \notin B
  <2>1. B = A \ {s}
    BY <1>3
  <2>2. Cardinality(B) = Cardinality(A) - 1
    BY <1>0, <1>3, <2>1
  <2> QED
    BY <1>0, <1>3, <2>2
<1> QED
  BY <1>1, <1>2, <1>3

LEMMA PartsFinite ==
  ASSUME NEW S, IsFiniteSet(Present(S))
  PROVE  IsFiniteSet(Senders(S)) /\ IsFiniteSet(Active(S))
<1>1. Senders(S) \subseteq Present(S) /\ Active(S) \subseteq Present(S)
  BY DEF Senders, Active
<1> QED
  BY <1>1, FS_Subset

LEMMA ObtainCounted ==
  ASSUME NEW S, NEW o, NEW s, NEW m, Good(S, o), Counted(S, m)
  PROVE  Counted(Obtain(S, s), m)
<1>1. CASE s \in DOMAIN S.table
  BY <1>1 DEF Obtain, Present
<1>2. CASE s \notin DOMAIN S.table
  <2> DEFINE O == Obtain(S, s)
             T == Set(S.table, s, NewSource)
  <2>1. O = [table |-> T, totalcount |-> S.totalcount + 1,
             sendercount |-> S.sendercount, activecount |-> S.activecount]
    <3>1. O = [S EXCEPT !.table = Set(@, s, NewSource), !.totalcount = @ + 1]
      BY <1>2 DEF Obtain, Present
    <3>2. S = [table |-> S.table, totalcount |-> S.totalcount,
               sendercount |-> S.sendercount, activecount |-> S.activecount]
      BY DEF Good
    <3> QED
      BY <3>1, <3>2
  <2>2. /\ DOMAIN T = DOMAIN S.table \cup {s}
        /\ T[s] = NewSource
        /\ \A x \in DOMAIN S.table : T[x] = S.table[x]
    BY <1>2 DEF Set
  <2> HIDE DEF O, T
  <2>3. /\ O.table = T /\ O.totalcount = S.totalcount + 1
        /\ O.sendercount = S.sendercount /\ O.activecount = S.activecount
    BY <2>1
  <2>4. /\ Present(O) = Present(S) \cup {s}
        /\ Senders(O) = Senders(S) /\ Active(O) = Active(S)
    BY <2>2, <2>3 DEF Present, Senders, Active, NewSource, IsActive
  <2>5. /\ IsFiniteSet(Present(O))
        /\ Cardinality(Present(O)) = Cardinality(Present(S)) + 1
    <3>1. IsFiniteSet(Present(S)) /\ s \notin Present(S)
      BY <1>2 DEF Counted, Present
    <3> QED
      BY <2>4, <3>1, FS_AddElement
  <2>6. Counted(O, m)
    BY <2>3, <2>4, <2>5 DEF Counted
  <2> QED
    BY <2>6 DEF O
<1> QED
  BY <1>1, <1>2

LEMMA UpdateCounted ==
  ASSUME NEW S, NEW o, NEW m, Good(S, o), Counted(S, m),
         NEW s \in DOMAIN S.table, NEW e \in Entry
  PROVE  Counted(Update(S, s, e), m)
<1> DEFINE U == Update(S, s, e)
           T == [S.table EXCEPT ![s] = e]
           i == Count(S.sendercount, S.table[s].issender, e.issender)
           j == Count(S.activecount, IsActive(S.table[s]), IsActive(e))
<1>1. S = [table |-> S.table, totalcount |-> S.totalcount,
           sendercount |-> S.sendercount, activecount |-> S.activecount]
  BY DEF Good
<1>2. U = [S EXCEPT !.table[s] = e, !.sendercount = i, !.activecount = j]
  BY DEF Update
<1> HIDE DEF i, j
<1>3. U = [table |-> T, totalcount |-> S.totalcount, sendercount |-> i, activecount |-> j]
  BY <1>1, <1>2
<1>4. /\ DOMAIN T = DOMAIN S.table
      /\ T[s] = e
      /\ \A x \in DOMAIN S.table : x # s => T[x] = S.table[x]
  BY DEF Good
<1> HIDE DEF U, T
<1>5. /\ U.table = T /\ U.totalcount = S.totalcount
      /\ U.sendercount = i /\ U.activecount = j
  BY <1>3
<1>6. /\ Present(U) = Present(S)
      /\ e.issender => Senders(U) = Senders(S) \cup {s}
      /\ ~e.issender => Senders(U) = Senders(S) \ {s}
      /\ IsActive(e) => Active(U) = Active(S) \cup {s}
      /\ ~IsActive(e) => Active(U) = Active(S) \ {s}
  BY <1>4, <1>5 DEF Present, Senders, Active
<1>7. /\ S.table[s].issender \in BOOLEAN /\ e.issender \in BOOLEAN
      /\ IsActive(S.table[s]) \in BOOLEAN /\ IsActive(e) \in BOOLEAN
      /\ S.table[s].issender <=> s \in Senders(S)
      /\ IsActive(S.table[s]) <=> s \in Active(S)
  BY DEF Good, Entry, IsActive, Senders, Active, Present
<1>8. IsFiniteSet(Senders(S)) /\ IsFiniteSet(Active(S))
  BY PartsFinite DEF Counted
<1>9. i \in Int /\ i + 0 = Cardinality(Senders(U))
  <2>1. S.sendercount \in Int /\ S.sendercount + 0 = Cardinality(Senders(S))
    BY <1>8, FS_CardinalityType DEF Counted
  <2>2. /\ Senders(U) = Senders(S) \cup {s} \/ Senders(U) = Senders(S) \ {s}
        /\ e.issender <=> s \in Senders(U)
    BY <1>6, <1>7
  <2>3. /\ (s \in Senders(S) <=> s \in Senders(U)) => i = S.sendercount
        /\ s \notin Senders(S) /\ s \in Senders(U) => i = S.sendercount + 1
        /\ s \in Senders(S) /\ s \notin Senders(U) => i = S.sendercount - 1
    BY <1>7, <2>2 DEF i, Count
  <2> QED
    BY <1>8, <2>1, <2>2, <2>3, CountSet
<1>10. j \in Int /\ j + m = Cardinality(Active(U))
  <2>1. m \in Int /\ S.activecount \in Int /\ S.activecount + m = Cardinality(Active(S))
    BY DEF Counted
  <2>2. /\ Active(U) = Active(S) \cup {s} \/ Active(U) = Active(S) \ {s}
        /\ IsActive(e) <=> s \in Active(U)
    BY <1>6, <1>7
  <2>3. /\ (s \in Active(S) <=> s \in Active(U)) => j = S.activecount
        /\ s \notin Active(S) /\ s \in Active(U) => j = S.activecount + 1
        /\ s \in Active(S) /\ s \notin Active(U) => j = S.activecount - 1
    BY <1>7, <2>2 DEF j, Count
  <2> QED
    BY <1>8, <2>1, <2>2, <2>3, CountSet
<1>11. Counted(U, m)
  BY <1>5, <1>6, <1>9, <1>10 DEF Counted
<1> QED
  BY <1>11 DEF U

(* A contributor that had an entry may become active: by so much the       *)
(* counter stays behind.                                                   *)
Behind(S, T) == Cardinality(Active(T) \ Active(S))

LEMMA ContributorCounted ==
  ASSUME NEW S, NEW m, NEW c \in SSRCs, NEW a \in From, Good(S, own), Counted(S, m)
  PROVE  LET T == WithContributor(S, c, a)
         IN  Counted(T, IF c \in Present(S) THEN m + Behind(S, T) ELSE m)
<1> DEFINE T == WithContributor(S, c, a)
<1>1. CASE c \notin DOMAIN S.table
  <2> DEFINE O == Obtain(S, c)
  <2>1. T = Update(O, c, Contributes(NewSource))
    BY <1>1 DEF WithContributor, Present
  <2>2. Good(O, own) /\ Counted(O, m) /\ c \in DOMAIN O.table
    BY ObtainGood, ObtainCounted
  <2> HIDE DEF O, T
  <2>3. Contributes(NewSource) \in Entry
    BY ContributesGood, NewEntry
  <2>4. Counted(T, m)
    BY <2>1, <2>2, <2>3, UpdateCounted
  <2> QED
    BY <1>1, <2>4 DEF T, Present
<1>2. CASE c \in DOMAIN S.table /\ Collides(S.table[c], a, "rtpaddr")
  <2>1. T = S
    BY <1>2 DEF WithContributor, Present
  <2> HIDE DEF T
  <2>2. Active(T) \ Active(S) = {}
    BY <2>1
  <2>3. Behind(S, T) = 0
    BY <2>2, FS_EmptySet DEF Behind
  <2>4. Counted(T, m + Behind(S, T))
    BY <2>1, <2>3 DEF Counted
  <2> QED
    BY <1>2, <2>4 DEF T, Present
<1>3. CASE c \in DOMAIN S.table /\ ~Collides(S.table[c], a, "rtpaddr")
  <2> DEFINE e == Contributes(Located(S.table[c], a, "rtpaddr"))
             F == [S.table EXCEPT ![c] = e]
  <2>1. T = [S EXCEPT !.table[c] = e]
    BY <1>3 DEF WithContributor, Present
  <2>2. /\ S.table[c] \in Entry
        /\ S = [table |-> S.table, totalcount |-> S.totalcount,
                sendercount |-> S.sendercount, activecount |-> S.activecount]
    BY <1>3 DEF Good
  <2>3. /\ e.issender = S.table[c].issender
        /\ IsActive(S.table[c]) => IsActive(e)
    BY <2>2 DEF Contributes, Located, Entry, IsActive
  <2> HIDE DEF e
  <2>4. T = [table |-> F, totalcount |-> S.totalcount,
             sendercount |-> S.sendercount, activecount |-> S.activecount]
    BY <2>1, <2>2
  <2>5. /\ DOMAIN F = DOMAIN S.table
        /\ F[c] = e
        /\ \A x \in DOMAIN S.table : x # c => F[x] = S.table[x]
    BY <1>3 DEF Good
  <2> HIDE DEF F, T
  <2>6. /\ T.table = F /\ T.totalcount = S.totalcount
        /\ T.sendercount = S.sendercount /\ T.activecount = S.activecount
    BY <2>4
  <2>7. /\ Present(T) = Present(S) /\ Senders(T) = Senders(S)
        /\ Active(S) \subseteq Active(T)
    BY <2>3, <2>5, <2>6 DEF Present, Senders, Active
  <2>8. IsFiniteSet(Active(S)) /\ IsFiniteSet(Active(T))
    BY <2>7, PartsFinite DEF Counted
  <2>9. /\ Behind(S, T) = Cardinality(Active(T)) - Cardinality(Active(T) \cap Active(S))
        /\ Active(T) \cap Active(S) = Active(S)
    BY <2>7, <2>8, FS_Difference DEF Behind
  <2>10. Cardinality(Active(S)) \in Nat /\ Cardinality(Active(T)) \in Nat
    BY <2>8, FS_CardinalityType
  <2>11. /\ m + Behind(S, T) \in Int
         /\ T.activecount + (m + Behind(S, T)) = Cardinality(Active(T))
    <3>1. m \in Int /\ S.activecount \in Int /\ S.activecount + m = Cardinality(Active(S))
      BY DEF Counted
    <3>2. Behind(S, T) = Cardinality(Active(T)) - Cardinality(Active(S))
      BY <2>9
    <3> QED
      BY <2>6, <2>10, <3>1, <3>2
  <2>12. Counted(T, m + Behind(S, T))
    BY <2>6, <2>7, <2>11 DEF Counted
  <2> QED
    BY <1>3, <2>12 DEF T, Present
<1> QED
  BY <1>1, <1>2, <1>3

(* A change of SSRC: one entry goes, one comes. *)
LEMMA TakeCounted ==
  ASSUME NEW S, NEW m, NEW a, Good(S, own), Counted(S, m), TakeNewSSRC(S, a)
  PROVE  Counted(sources', m)
<1>1. PICK newssrc \in SSRCs \ Present(S) :
        /\ own' = newssrc
        /\ sources' = CreateOwnSSRC(DeleteOwnSSRC(S), newssrc)
  BY DEF TakeNewSSRC
<1> DEFINE D == Without(S.table, {own})
           T == Set(D, newssrc, OwnSource)
           R == DeleteOwnSSRC(S)
           i == Count(S.sendercount, S.table[own].issender, FALSE)
           j == Count(S.activecount, IsActive(S.table[own]), FALSE)
<1>2. /\ DOMAIN D = DOMAIN S.table \ {own}
      /\ \A x \in DOMAIN D : D[x] = S.table[x]
  BY DEF Without
<1>3. /\ DOMAIN T = DOMAIN D \cup {newssrc}
      /\ \A x \in DOMAIN D : x # newssrc => T[x] = D[x]
      /\ T[newssrc] = OwnSource
  BY DEF Set
<1>4. R = [table |-> D, totalcount |-> S.totalcount - 1, sendercount |-> i, activecount |-> j]
  BY DEF DeleteOwnSSRC
<1>a. sources' = [R EXCEPT !.table = Set(@, newssrc, OwnSource),
                           !.totalcount = @ + 1, !.activecount = @ + 1]
  BY <1>1 DEF CreateOwnSSRC
<1>b. T = Set(D, newssrc, OwnSource)
  OBVIOUS
<1> HIDE DEF D, T, R, i, j
<1>5. sources' = [table |-> T, totalcount |-> S.totalcount - 1 + 1,
                  sendercount |-> i, activecount |-> j + 1]
  BY <1>4, <1>a, <1>b
<1>6. /\ R.table = D /\ sources'.table = T
      /\ sources'.totalcount = S.totalcount - 1 + 1
      /\ sources'.sendercount = i /\ sources'.activecount = j + 1
  BY <1>4, <1>5
<1>7. newssrc \notin DOMAIN S.table
  BY DEF Present
<1>8. /\ Present(R) = Present(S) \ {own}
      /\ Senders(R) = Senders(S) \ {own}
      /\ Active(R) = Active(S) \ {own}
  BY <1>2, <1>6 DEF Present, Senders, Active
<1>9. /\ Present(sources') = Present(R) \cup {newssrc}
      /\ Senders(sources') = Senders(R)
      /\ Active(sources') = Active(R) \cup {newssrc}
  BY <1>2, <1>3, <1>6, <1>7 DEF Present, Senders, Active, OwnSource, IsActive
<1>10. /\ own \in Present(S)
       /\ S.table[own].issender \in BOOLEAN /\ IsActive(S.table[own])
       /\ S.table[own].issender <=> own \in Senders(S)
       /\ own \in Active(S)
  BY DEF Good, Entry, Ours, Senders, Active, Present
<1>11. IsFiniteSet(Senders(S)) /\ IsFiniteSet(Active(S)) /\ IsFiniteSet(Present(S))
  BY PartsFinite DEF Counted
<1>12. newssrc \notin Present(R) /\ newssrc \notin Active(R)
  BY <1>7, <1>8 DEF Present, Active
<1>13. IsFiniteSet(Present(sources')) /\ sources'.totalcount = Cardinality(Present(sources'))
  <2>1. /\ IsFiniteSet(Present(R))
        /\ Cardinality(Present(R)) = S.totalcount - 1
        /\ S.totalcount \in Nat
    BY <1>8, <1>10, <1>11, FS_RemoveElement, FS_CardinalityType DEF Counted
  <2>2. /\ IsFiniteSet(Present(sources'))
        /\ Cardinality(Present(sources')) = Cardinality(Present(R)) + 1
    BY <1>9, <1>12, <2>1, FS_AddElement
  <2> QED
    BY <1>6, <2>1, <2>2
<1>14. sources'.sendercount = Cardinality(Senders(sources'))
  <2>1. S.sendercount = Cardinality(Senders(S)) /\ S.sendercount \in Int
    BY <1>11, FS_CardinalityType DEF Counted
  <2>2. /\ own \in Senders(S) => i = S.sendercount - 1
        /\ own \notin Senders(S) => i = S.sendercount
    BY <1>10 DEF i, Count
  <2>3. Cardinality(Senders(R)) = IF own \in Senders(S) THEN Cardinality(Senders(S)) - 1
                                  ELSE Cardinality(Senders(S))
    BY <1>8, <1>11, FS_RemoveElement
  <2>4. Cardinality(Senders(R)) = i
    BY <2>1, <2>2, <2>3
  <2> QED
    BY <1>6, <1>9, <2>4
<1>15. sources'.activecount \in Int /\ sources'.activecount + m = Cardinality(Active(sources'))
  <2>1. m \in Int /\ S.activecount \in Int /\ S.activecount + m = Cardinality(Active(S))
    BY DEF Counted
  <2>2. j = S.activecount - 1
    BY <1>10 DEF j, Count
  <2>3. IsFiniteSet(Active(R)) /\ Cardinality(Active(R)) = Cardinality(Active(S)) - 1
    BY <1>8, <1>10, <1>11, FS_RemoveElement
  <2>4. Cardinality(Active(sources')) = Cardinality(Active(R)) + 1
    BY <1>9, <1>12, <2>3, FS_AddElement
  <2>5. Cardinality(Active(S)) \in Nat
    BY <1>11, FS_CardinalityType
  <2> QED
    BY <1>6, <2>1, <2>2, <2>3, <2>4, <2>5
<1> QED
  BY <1>13, <1>14, <1>15 DEF Counted

LEMMA AfterCounted ==
  ASSUME NEW S, NEW m, NEW a, NEW c, Good(S, own), Counted(S, m), AfterPacket(S, a, c)
  PROVE  Counted(sources', m)
<1>1. CASE Keep(S)
  BY <1>1 DEF Keep
<1> QED
  BY <1>1, TakeCounted DEF AfterPacket

LEMMA InitCounted == Init => CInv
<1> SUFFICES ASSUME Init PROVE Counted(sources, missed)
  BY InitInv DEF CInv
<1>1. /\ sources.table = [s \in {own} |-> OwnSource] /\ missed = 0
      /\ sources.totalcount = 1 /\ sources.sendercount = 0 /\ sources.activecount = 1
  BY DEF Init
<1>2. Present(sources) = {own} /\ Senders(sources) = {} /\ Active(sources) = {own}
  BY <1>1 DEF Present, Senders, Active, OwnSource, IsActive
<1>3. /\ IsFiniteSet(Present(sources))
      /\ Cardinality(Present(sources)) = 1 /\ Cardinality(Active(sources)) = 1
      /\ Cardinality(Senders(sources)) = 0
  <2>1. IsFiniteSet({own}) /\ Cardinality({own}) = 1
    BY FS_Singleton
  <2>2. Cardinality({}) = 0
    BY FS_EmptySet
  <2> QED
    BY <1>2, <2>1, <2>2
<1> QED
  BY <1>1, <1>3 DEF Counted

(* What every packet does first keeps the counters. *)
LEMMA FromSourceCounted ==
  ASSUME CInv, NEW s \in SSRCs, NEW a \in From, NEW accepted \in BOOLEAN,
         ~SourceCollides(s, a, "rtpaddr")
  PROVE  Counted(FromSource(sources, s, a, accepted), missed)
<1> DEFINE O == Obtain(sources, s)
           e == Heard(O.table[s], a, "rtpaddr")
<1>0. IInv
  BY DEF CInv
<1>1. Good(O, own) /\ s \in DOMAIN O.table /\ e \in Entry /\ Consistent(e)
  BY <1>0, HeardGood
<1>2. Counted(O, missed)
  BY ObtainCounted DEF CInv, IInv
<1>3. FromSource(sources, s, a, accepted) = Update(O, s, Validate(e, accepted))
  BY DEF FromSource
<1> HIDE DEF O, e
<1>4. Validate(e, accepted) \in Entry
  BY <1>1, ValidateGood
<1> QED
  BY <1>1, <1>2, <1>3, <1>4, UpdateCounted

LEMMA MixedCounted ==
  ASSUME CInv, NEW s \in SSRCs, NEW a \in From, NEW accepted \in BOOLEAN, NEW c \in SSRCs,
         ReceiveMixed(s, a, accepted, c)
  PROVE  Counted(sources', missed')
<1> DEFINE S == FromSource(sources, s, a, accepted)
           T == WithContributor(S, c, a)
           m == IF c \in Present(S) THEN missed + Behind(S, T) ELSE missed
<1>1. Good(S, own) /\ Counted(S, missed)
  BY FromSourceGood, FromSourceCounted DEF ReceiveMixed, CInv
<1>2. AfterPacket(T, a, c = own /\ ContributorCollides(S, c, a)) /\ missed' = m
  BY DEF ReceiveMixed, Behind
<1> HIDE DEF S
<1>3. Good(T, own) /\ Counted(T, m)
  BY <1>1, ContributorGood, ContributorCounted
<1> HIDE DEF T, m
<1> QED
  BY <1>2, <1>3, AfterCounted

LEMMA RTCPCounted ==
  ASSUME CInv, NEW s \in SSRCs, NEW a \in From,
         ReceiveReport(s, a) \/ ReceiveCNAME(s, a) \/ ReceiveBYE(s, a)
  PROVE  Counted(sources', missed')
<1> DEFINE O == Obtain(sources, s)
           e == Heard(O.table[s], a, "rtcpaddr")
           n == [e EXCEPT !.validated = TRUE]
           b == [e EXCEPT !.receivedbye = s # own]
<1>1. Good(O, own) /\ s \in DOMAIN O.table /\ e \in Entry
  <2>1. ~SourceCollides(s, a, "rtcpaddr") /\ IInv
    BY DEF ReceiveReport, ReceiveCNAME, ReceiveBYE, CInv
  <2> QED
    BY <2>1, HeardGood
<1>2. Counted(O, missed)
  BY ObtainCounted DEF CInv, IInv
<1>3. /\ \/ sources' = Update(O, s, e) \/ sources' = Update(O, s, n)
         \/ sources' = Update(O, s, b)
      /\ missed' = missed
  BY DEF ReceiveReport, ReceiveCNAME, ReceiveBYE, Keep
<1> HIDE DEF O, e
<1>4. n \in Entry /\ b \in Entry
  BY <1>1 DEF Entry
<1> HIDE DEF n, b
<1> QED
  BY <1>1, <1>2, <1>3, <1>4, UpdateCounted

LEMMA PollCounted == ASSUME CInv, EndOfPoll PROVE Counted(sources', missed')
<1>1. PICK gone \in SUBSET (Present(sources) \ {own}), silent \in SUBSET Senders(sources) :
        /\ sources' = Recounted(Quiet(Without(sources.table, gone), silent))
        /\ missed' = 0
  BY DEF EndOfPoll, MultipleTimeouts
<1> DEFINE W == Without(sources.table, gone)
           Q == Quiet(W, silent)
<1>2. DOMAIN Q = DOMAIN sources.table \ gone
  BY DEF Quiet, Without
<1> HIDE DEF Q
<1>3. /\ sources'.table = Q
      /\ sources'.totalcount = Cardinality(DOMAIN Q)
      /\ sources'.sendercount = Cardinality({s \in DOMAIN Q : Q[s].issender})
      /\ sources'.activecount = Cardinality({s \in DOMAIN Q : IsActive(Q[s])})
  BY <1>1 DEF Recounted, Q
<1>4. IsFiniteSet(DOMAIN Q)
  <2>1. IsFiniteSet(DOMAIN sources.table)
    BY DEF CInv, Counted, Present
  <2>2. IsFiniteSet((DOMAIN sources.table) \ gone)
    BY ONLY <2>1, FS_Difference
  <2> QED
    BY ONLY <1>2, <2>2
<1>5. /\ Present(sources') = DOMAIN Q
      /\ Senders(sources') = {s \in DOMAIN Q : Q[s].issender}
      /\ Active(sources') = {s \in DOMAIN Q : IsActive(Q[s])}
  BY <1>3 DEF Present, Senders, Active
<1>6. Cardinality(Active(sources')) \in Nat
  BY <1>4, <1>5, PartsFinite, FS_CardinalityType
<1> QED
  BY <1>1, <1>3, <1>4, <1>5, <1>6 DEF Counted

LEMMA SendCounted == ASSUME CInv, SendPacket PROVE Counted(sources', missed')
<1> DEFINE e == [sources.table[own] EXCEPT !.issender = TRUE]
<1>1. sources' = Update(sources, own, e) /\ missed' = missed
  BY DEF SendPacket
<1>2. Good(sources, own) /\ own \in DOMAIN sources.table /\ Counted(sources, missed)
  BY DEF CInv, IInv, Good
<1>3. e \in Entry
  BY DEF CInv, IInv, Good, Entry
<1> HIDE DEF e
<1> QED
  BY <1>1, <1>2, <1>3, UpdateCounted

LEMMA StepCounted == ASSUME CInv, [Next]_vars PROVE CInv'
<1> SUFFICES Counted(sources', missed')
  BY StepInv DEF CInv
<1>1. ASSUME NEW s \in SSRCs, NEW a \in From,
             \/ \E kind \in {"rtpaddr", "rtcpaddr"} : Collision(s, a, kind)
             \/ \E accepted \in BOOLEAN : ReceiveRTP(s, a, accepted)
             \/ \E accepted \in BOOLEAN, c \in SSRCs : ReceiveMixed(s, a, accepted, c)
             \/ ReceiveReport(s, a) \/ ReceiveCNAME(s, a) \/ ReceiveBYE(s, a)
      PROVE  Counted(sources', missed')
  <2>1. CASE \E kind \in {"rtpaddr", "rtcpaddr"} : Collision(s, a, kind)
    <3>1. AfterPacket(sources, a, s = own) /\ missed' = missed
      BY <2>1 DEF Collision
    <3> QED
      BY <3>1, AfterCounted DEF CInv, IInv
  <2>2. CASE \E accepted \in BOOLEAN : ReceiveRTP(s, a, accepted)
    BY <2>2, FromSourceCounted DEF ReceiveRTP, Keep
  <2>3. CASE \E accepted \in BOOLEAN, c \in SSRCs : ReceiveMixed(s, a, accepted, c)
    BY <2>3, MixedCounted
  <2> QED
    BY <1>1, <2>1, <2>2, <2>3, RTCPCounted
<1>2. CASE UNCHANGED vars
  BY <1>2 DEF vars, CInv
<1>3. CASE EndOfPoll \/ SendPacket
  BY <1>3, PollCounted, SendCounted
<1> QED
  BY <1>1, <1>2, <1>3 DEF Next, From

(* The counters are the table's, but for who became active uncounted.      *)
THEOREM CountsAgreeCorrect == Spec => []CountsAgree
<1>1. CInv => CountsAgree
  BY DEF CInv, Counted, CountsAgree
<1> QED
  BY <1>1, InitCounted, StepCounted, PTL DEF Spec
=============================================================================
