----------------------------- MODULE RtpSources -----------------------------
(***************************************************************************)
(* jrtplib's table of the participants of a session (rtpsources.cpp): who  *)
(* has been heard, from which addresses, who sends, who said BYE; and how  *)
(* a session defends its own SSRC (ProcessPolledData in rtpsession.cpp).   *)
(* The receiver's session accepts its own packets; packets that come from  *)
(* its own transmitter have the address Self here, NULL in the code.       *)
(*                                                                         *)
(* One packet is one action, with the handling of a collision that follows *)
(* it in the same round of the loop.  Time is left out: at the end of a    *)
(* poll any other participant may have been quiet for too long.  Whether   *)
(* a source's packet ends its probation is RtpLink's business; here it may *)
(* or may not.                                                             *)
(***************************************************************************)
EXTENDS Naturals, Sequences, FiniteSets

CONSTANTS
  SSRCs,       \* the identifiers a participant may have
  Addresses,   \* the remote addresses: pairs of a host and a port
  MaxChanges   \* bound on how often the session changes its own SSRC

ASSUME MaxChangesAssumption == MaxChanges \in Nat

VARIABLES
  sources,        \* the table of RTPSources and its counters
  own,            \* the SSRC of owndata
  collisionlist,
  sentpackets,
  byepackets,     \* the BYE packets to be sent, by their SSRC
  changes,        \* the changes of SSRC so far
  spoken,         \* history: whether own has been used in a packet
  missed          \* history: who became active without being counted since
                  \* the counters were last taken from the table

vars == <<sources, own, collisionlist, sentpackets, byepackets, changes, spoken, missed>>

Self  == <<"self", 0>>
Unset == <<"unset", 0>>
Host(a) == a[1]

ASSUME AddressesAssumption == {Self, Unset} \cap Addresses = {}

-----------------------------------------------------------------------------
(* RTPInternalSourceData.  hosts is history: from where data was taken.    *)
NewSource ==
  [ownssrc |-> FALSE, validated |-> FALSE, issender |-> FALSE, receivedbye |-> FALSE,
   rtpaddr |-> Unset, rtcpaddr |-> Unset, hosts |-> {}]

OwnSource ==
  [ownssrc |-> TRUE, validated |-> TRUE, issender |-> FALSE, receivedbye |-> FALSE,
   rtpaddr |-> Self, rtcpaddr |-> Self, hosts |-> {}]

IsActive(e) == e.validated /\ ~e.receivedbye

Present(S) == DOMAIN S.table
Senders(S) == {s \in Present(S) : S.table[s].issender}
Active(S)  == {s \in Present(S) : IsActive(S.table[s])}

Set(table, s, e) == [x \in DOMAIN table \cup {s} |-> IF x = s THEN e ELSE table[x]]

Without(table, gone) == [x \in DOMAIN table \ gone |-> table[x]]

(* ObtainSourceDataInstance *)
Obtain(S, s) ==
  IF s \in Present(S) THEN S
  ELSE [S EXCEPT !.table = Set(@, s, NewSource), !.totalcount = @ + 1]

(* An entry changes, and the counters with it. *)
Count(n, was, is) == CASE was = is -> n [] ~was /\ is -> n + 1 [] was /\ ~is -> n - 1

Update(S, s, e) ==
  [S EXCEPT !.table[s] = e,
            !.sendercount = Count(@, S.table[s].issender, e.issender),
            !.activecount = Count(@, IsActive(S.table[s]), IsActive(e))]

(* CheckCollision: kind is "rtpaddr" or "rtcpaddr".  An address of the one *)
(* kind must not change; the first of it must be on the host of the other. *)
Other(kind) == IF kind = "rtpaddr" THEN "rtcpaddr" ELSE "rtpaddr"

\* Mutant: the address of the other kind is not looked at.
CollidesKind(e, a, kind) == e[kind] # Unset /\ e[kind] # a

Collides(e, a, kind) ==
  IF e[kind] # Unset THEN e[kind] # a
  ELSE e[Other(kind)] # Unset /\ Host(e[Other(kind)]) # Host(a)

Located(e, a, kind) == IF e[kind] = Unset THEN [e EXCEPT ![kind] = a] ELSE e

Heard(e, a, kind) == [Located(e, a, kind) EXCEPT !.hosts = @ \cup {Host(a)}]

-----------------------------------------------------------------------------
(* DeleteOwnSSRC, CreateOwnSSRC *)
\* Mutant: the old entry was a sender, which is not taken back.
DeleteOwnSSRCSender(S) ==
  [S EXCEPT !.table = Without(@, {own}), !.totalcount = @ - 1, !.activecount = @ - 1]

DeleteOwnSSRC(S) ==
  [table       |-> Without(S.table, {own}),
   totalcount  |-> S.totalcount - 1,
   sendercount |-> Count(S.sendercount, S.table[own].issender, FALSE),
   activecount |-> Count(S.activecount, IsActive(S.table[own]), FALSE)]

CreateOwnSSRC(S, ssrc) ==
  [S EXCEPT !.table = Set(@, ssrc, OwnSource), !.totalcount = @ + 1, !.activecount = @ + 1]

(* ProcessPolledData, after a packet from a that left S: when it collided  *)
(* with our own SSRC, and for the first time from that address, we leave   *)
(* with a BYE, if anybody has heard of us, and take another SSRC.          *)
Keep(S) ==
  /\ sources' = S
  /\ UNCHANGED <<own, collisionlist, sentpackets, byepackets, changes, spoken>>

TakeNewSSRC(S, a) ==
  /\ changes < MaxChanges
  /\ changes' = changes + 1
  /\ collisionlist' = collisionlist \cup {a}
  /\ byepackets' = IF sentpackets THEN Append(byepackets, own) ELSE byepackets
  /\ \E newssrc \in SSRCs \ Present(S) :
       /\ own' = newssrc
       /\ sources' = CreateOwnSSRC(DeleteOwnSSRC(S), newssrc)
  /\ sentpackets' = FALSE /\ spoken' = FALSE

AfterPacket(S, a, owncollision) ==
  \/ (~owncollision \/ a \in collisionlist) /\ Keep(S)
  \/ owncollision /\ a \notin collisionlist /\ TakeNewSSRC(S, a)

-----------------------------------------------------------------------------
(* ProcessRTPPacket, once the source is known to be where it was: accepted *)
(* says whether ProcessPacket takes the packet.                            *)
Validate(e, accepted) ==
  [e EXCEPT !.validated = @ \/ accepted,
            !.issender = @ \/ (accepted /\ ~e.ownssrc)]

FromSource(S, s, a, accepted) ==
  Update(Obtain(S, s), s, Validate(Heard(Obtain(S, s).table[s], a, "rtpaddr"), accepted))

(* A contributing source counts as validated.  One that has an entry       *)
(* already is not counted here when it becomes active.                     *)
Contributes(e) == [e EXCEPT !.validated = TRUE]

ContributorCollides(S, c, a) == c \in Present(S) /\ Collides(S.table[c], a, "rtpaddr")

WithContributor(S, c, a) ==
  CASE c \notin Present(S) ->
         Update(Obtain(S, c), c, Contributes(NewSource))
    [] c \in Present(S) /\ Collides(S.table[c], a, "rtpaddr") -> S
    [] OTHER ->
         [S EXCEPT !.table[c] = Contributes(Located(@, a, "rtpaddr"))]

SourceCollides(s, a, kind) == s \in Present(sources) /\ Collides(sources.table[s], a, kind)

(* A packet of source s that collides with the entry of s is ignored. *)
Collision(s, a, kind) ==
  /\ SourceCollides(s, a, kind)
  /\ AfterPacket(sources, a, s = own)
  /\ UNCHANGED missed

(* An RTP packet without contributing sources, *)
ReceiveRTP(s, a, accepted) ==
  /\ ~SourceCollides(s, a, "rtpaddr")
  /\ Keep(FromSource(sources, s, a, accepted))
  /\ UNCHANGED missed

(* and one with the contributing source c, which is looked at when s is    *)
(* validated.                                                              *)
ReceiveMixed(s, a, accepted, c) ==
  LET S == FromSource(sources, s, a, accepted)
      T == WithContributor(S, c, a)
  IN  /\ ~SourceCollides(s, a, "rtpaddr")
      /\ S.table[s].validated
      /\ AfterPacket(T, a, c = own /\ ContributorCollides(S, c, a))
      /\ missed' = IF c \in Present(S) THEN missed + Cardinality(Active(T) \ Active(S))
                   ELSE missed

(* An RTCP packet of s.  A report, or an item other than CNAME, only shows *)
(* that s is there;                                                        *)
ReceiveReport(s, a) ==
  /\ ~SourceCollides(s, a, "rtcpaddr")
  /\ Keep(Update(Obtain(sources, s), s, Heard(Obtain(sources, s).table[s], a, "rtcpaddr")))
  /\ UNCHANGED missed

(* its CNAME validates it;                                                 *)
ReceiveCNAME(s, a) ==
  /\ ~SourceCollides(s, a, "rtcpaddr")
  /\ LET e == Heard(Obtain(sources, s).table[s], a, "rtcpaddr")
     IN  Keep(Update(Obtain(sources, s), s, [e EXCEPT !.validated = TRUE]))
  /\ UNCHANGED missed

(* BYE ends it, unless it bears our own SSRC.                              *)
\* Mutant: a BYE with our own SSRC is believed.
ReceiveBYEOwn(s, a) ==
  /\ ~SourceCollides(s, a, "rtcpaddr")
  /\ LET e == Heard(Obtain(sources, s).table[s], a, "rtcpaddr")
     IN  Keep(Update(Obtain(sources, s), s, [e EXCEPT !.receivedbye = TRUE]))
  /\ UNCHANGED missed

ReceiveBYE(s, a) ==
  /\ ~SourceCollides(s, a, "rtcpaddr")
  /\ LET e == Heard(Obtain(sources, s).table[s], a, "rtcpaddr")
     IN  Keep(Update(Obtain(sources, s), s, [e EXCEPT !.receivedbye = s # own]))
  /\ UNCHANGED missed

-----------------------------------------------------------------------------
(* The end of a poll.  MultipleTimeouts removes who was quiet for too long *)
(* or said BYE long enough ago, never ourselves, takes the flag from who   *)
(* has not sent for a while, and counts anew.                              *)
Quiet(table, silent) ==
  [s \in DOMAIN table |-> IF s \in silent THEN [table[s] EXCEPT !.issender = FALSE] ELSE table[s]]

Recounted(table) ==
  [table       |-> table,
   totalcount  |-> Cardinality(DOMAIN table),
   sendercount |-> Cardinality({s \in DOMAIN table : table[s].issender}),
   activecount |-> Cardinality({s \in DOMAIN table : IsActive(table[s])})]

MultipleTimeouts ==
  \E gone \in SUBSET (Present(sources) \ {own}), silent \in SUBSET Senders(sources) :
    /\ sources' = Recounted(Quiet(Without(sources.table, gone), silent))
    /\ missed' = 0

\* Mutant: the flag is set for BYE packets only.
SendRTCPBye ==
  \/ /\ byepackets = <<>>
     /\ spoken' = TRUE
     /\ UNCHANGED <<byepackets, sentpackets>>
  \/ /\ byepackets # <<>>
     /\ byepackets' = Tail(byepackets)
     /\ sentpackets' = TRUE
     /\ UNCHANGED spoken

(* When it is time, an RTCP packet is sent: the first BYE, or a report.    *)
SendRTCP ==
  \/ /\ byepackets = <<>>
     /\ spoken' = TRUE /\ sentpackets' = TRUE
     /\ UNCHANGED byepackets
  \/ /\ byepackets # <<>>
     /\ byepackets' = Tail(byepackets)
     /\ sentpackets' = TRUE
     /\ UNCHANGED spoken

EndOfPoll ==
  /\ MultipleTimeouts
  /\ collisionlist' \in SUBSET collisionlist
  /\ SendRTCP \/ UNCHANGED <<byepackets, sentpackets, spoken>>
  /\ UNCHANGED <<own, changes>>

(* RTPSession::SendPacket *)
SendPacket ==
  /\ sources' = Update(sources, own, [sources.table[own] EXCEPT !.issender = TRUE])
  /\ sentpackets' = TRUE /\ spoken' = TRUE
  /\ UNCHANGED <<own, collisionlist, byepackets, changes, missed>>

-----------------------------------------------------------------------------
(* The session is created with an SSRC of its own. *)
Init ==
  /\ own \in SSRCs
  /\ sources = [table |-> [s \in {own} |-> OwnSource],
                totalcount |-> 1, sendercount |-> 0, activecount |-> 1]
  /\ collisionlist = {} /\ sentpackets = FALSE /\ byepackets = <<>>
  /\ changes = 0 /\ spoken = FALSE /\ missed = 0

Next ==
  \/ \E s \in SSRCs, a \in Addresses \cup {Self} :
       \/ \E kind \in {"rtpaddr", "rtcpaddr"} : Collision(s, a, kind)
       \/ \E accepted \in BOOLEAN : ReceiveRTP(s, a, accepted)
       \/ \E accepted \in BOOLEAN, c \in SSRCs : ReceiveMixed(s, a, accepted, c)
       \/ ReceiveReport(s, a)
       \/ ReceiveCNAME(s, a)
       \/ ReceiveBYE(s, a)
  \/ EndOfPoll
  \/ SendPacket

Spec == Init /\ [][Next]_vars

-----------------------------------------------------------------------------
(* The counters of participants and of senders are those of the table      *)
(* after every packet, not only after the recount at the end of a poll.    *)
(* The counter of active participants falls short of the table by exactly  *)
(* those that were on probation when a mixer named them, and only until    *)
(* the end of the poll; it is never too high.                              *)
CountsAgree ==
  /\ sources.totalcount = Cardinality(Present(sources))
  /\ sources.sendercount = Cardinality(Senders(sources))
  /\ sources.activecount + missed = Cardinality(Active(sources))

(* Whatever comes in, our own entry is there, active, and nobody else's:   *)
(* no packet from elsewhere, BYE or time-out touches it, and after a       *)
(* change of SSRC the old entry is ours no more.                           *)
OwnKept ==
  /\ own \in Present(sources)
  /\ \A s \in Present(sources) : sources.table[s].ownssrc <=> s = own
  /\ IsActive(sources.table[own])
  /\ sources.table[own].rtpaddr = Self /\ sources.table[own].rtcpaddr = Self

(* What is kept under one SSRC, RTP and RTCP, comes from one host: two     *)
(* participants with one SSRC are never mixed, except after both timed out.*)
OneHost ==
  \A s \in Present(sources) :
    \A h, k \in sources.table[s].hosts : h = k

(* An SSRC that others have heard of is not given up without a BYE.        *)
LeaversSayBye ==
  [][own' # own /\ spoken => byepackets' = Append(byepackets, own)]_vars
=============================================================================
