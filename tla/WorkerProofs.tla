---------------------------- MODULE WorkerProofs ----------------------------
(***************************************************************************)
(* The data path's framing, the worker's locking and pooling around it,    *)
(* and the Transfers they implement: for any calls, peers, lengths,        *)
(* buffer, number of transfers, and any interleaving of calls, tripwires   *)
(* and failures.                                                           *)
(***************************************************************************)
EXTENDS WorkerTransfers, TLAPS, SequenceTheorems, FiniteSetTheorems

-----------------------------------------------------------------------------
(* Xfer: the framing of one connection. *)

LEMMA UnitFacts ==
    /\ Body \notin Sizes /\ PartHeader \notin Sizes /\ Body # PartHeader
    /\ Units \subseteq Int /\ Body \in Units /\ PartHeader \in Units /\ Sizes \subseteq Units
BY SizesAssumption DEF Body, PartHeader, Units

LEMMA SizeFacts == \A n \in Sizes : n \in Nat /\ n > 0
BY SizesAssumption

(* A sequence longer by one write. *)
LEMMA AppendFacts ==
    ASSUME NEW S, NEW s \in Seq(S), NEW e \in S
    PROVE  /\ Append(s, e) \in Seq(S) /\ Append(s, e) # <<>>
           /\ Len(Append(s, e)) = Len(s) + 1
           /\ Append(s, e)[Len(s) + 1] = e
           /\ \A j \in 1..Len(s) : Append(s, e)[j] = s[j]
           /\ s # <<>> => Head(Append(s, e)) = Head(s)
           /\ s = <<>> => Head(Append(s, e)) = e
OBVIOUS

(* A sequence shorter by one read. *)
LEMMA TailFacts ==
    ASSUME NEW S, NEW s \in Seq(S), s # <<>>
    PROVE  /\ Tail(s) \in Seq(S) /\ Head(s) \in S /\ Head(s) = s[1]
           /\ Len(s) \in Nat /\ Len(s) > 0
           /\ Len(Tail(s)) = Len(s) - 1
           /\ \A j \in 1..Len(Tail(s)) : Tail(s)[j] = s[j + 1]
           /\ Len(s) = 1 => Tail(s) = <<>>
<1>1. Tail(s) \in Seq(S) /\ Head(s) \in S /\ Len(Tail(s)) = Len(s) - 1
      /\ \A j \in 1..Len(Tail(s)) : Tail(s)[j] = s[j + 1]
  BY HeadTailProperties
<1>2. Len(s) \in Nat /\ Len(s) > 0
  BY EmptySeq
<1>3. Head(s) = s[1]
  OBVIOUS
<1>4. Len(s) = 1 => Tail(s) = <<>>
  <2>1. Tail(s) # <<>> => Len(Tail(s)) \in Nat \ {0}
    BY <1>1, EmptySeq
  <2> QED BY <1>1, <1>2, <2>1
<1> QED
  BY <1>1, <1>2, <1>3, <1>4

(* The arithmetic of a unit written or read. *)
LEMMA Counting ==
    /\ \A a, b, n \in Int : a + b = n => (a + 1) + (b - 1) = n
    /\ \A a, b \in Nat : a > 0 /\ a + b = 1 => a = 1 /\ b = 0
    /\ \A a, b, n \in Nat : a + b = n => (a - 1) + b = n - 1
    /\ \A a, b, n \in Nat : a + b = 1 + n => (a - 1) + b = n
OBVIOUS

(* One more Body at the end of a run of them. *)
LEMMA BodyAppended ==
    ASSUME NEW i \in {1, 2}, NEW s \in Seq(Units), \A j \in i..Len(s) : s[j] = Body
    PROVE  \A j \in i..Len(Append(s, Body)) : Append(s, Body)[j] = Body
<1>1. /\ Len(Append(s, Body)) = Len(s) + 1 /\ Append(s, Body)[Len(s) + 1] = Body
      /\ \A j \in 1..Len(s) : Append(s, Body)[j] = s[j]
      /\ Len(s) \in Nat
  BY UnitFacts, AppendFacts, LenProperties
<1> SUFFICES ASSUME NEW j \in i..Len(s) + 1 PROVE Append(s, Body)[j] = Body
  BY <1>1
<1>2. CASE j = Len(s) + 1
  BY <1>1, <1>2
<1>3. CASE j # Len(s) + 1
  <2>1. j \in i..Len(s) /\ j \in 1..Len(s)
    BY <1>1, <1>3
  <2> QED BY <1>1, <2>1
<1> QED BY <1>2, <1>3

LEMMA XInitInv == XInit => XInv
BY DEF XInit, XInv, XTypeOK, SenderOK, Relation, Between, SenderStates, ReceiverStates, Units

-----------------------------------------------------------------------------
ConnInv(d) == SenderOK(d) /\ Relation(d)

SameAt(d) ==
    /\ sender'[d] = sender[d] /\ togo'[d] = togo[d] /\ wire'[d] = wire[d]
    /\ replies'[d] = replies[d] /\ receiver'[d] = receiver[d]
    /\ frame'[d] = frame[d] /\ left'[d] = left[d]
    /\ announced'[d] = announced[d] /\ received'[d] = received[d]

(* A step leaves the relation of the connections it does not touch alone.  *)
LEMMA Untouched == ASSUME NEW d \in Conns, ConnInv(d), SameAt(d) PROVE ConnInv(d)'
BY DEF ConnInv, SameAt, SenderOK, Relation, Between, HeaderTorn, HeaderUnread,
       BodyUnread, CutOff, AllRead

LEMMA ConnectInv == ASSUME XInv, NEW c \in Conns, Connect(c) PROVE XInv'
<1>1. XTypeOK'
  BY DEF XInv, XTypeOK, Connect, SenderStates, ReceiverStates
<1>2. \A d \in Conns \ {c} : ConnInv(d)'
  BY Untouched DEF XInv, ConnInv, SameAt, Connect, XTypeOK
<1>3. ConnInv(c)'
  BY DEF XInv, ConnInv, XTypeOK, Connect, SenderOK, Relation, Between, HeaderTorn,
         HeaderUnread, BodyUnread, CutOff, AllRead, MidSend
<1> QED
  BY <1>1, <1>2, <1>3 DEF XInv, ConnInv

LEMMA BeginSendInv ==
    ASSUME XInv, NEW c \in Conns, NEW n \in Sizes, Usable(c), BeginSend(c, n) PROVE XInv'
<1>1. XTypeOK'
  BY SizesAssumption DEF XInv, XTypeOK, BeginSend, SenderStates
<1>2. \A d \in Conns \ {c} : ConnInv(d)'
  BY Untouched DEF XInv, ConnInv, SameAt, BeginSend, XTypeOK
<1>3. ConnInv(c)'
  BY DEF XInv, ConnInv, XTypeOK, BeginSend, Usable, SenderOK, Relation, Between, HeaderTorn,
         HeaderUnread, BodyUnread, CutOff, AllRead, MidSend
<1> QED
  BY <1>1, <1>2, <1>3 DEF XInv, ConnInv

LEMMA WriteHeaderInv == ASSUME XInv, NEW c \in Conns, WriteHeader(c) PROVE XInv'
<1>1. /\ wire[c] = <<>> /\ replies[c] = 0 /\ received[c] = announced[c]
      /\ togo[c] \in Sizes /\ receiver[c] \in {"header", "failed"}
  BY DEF XInv, WriteHeader, SenderOK, Relation, Between, HeaderTorn,
         HeaderUnread, BodyUnread, CutOff, AllRead, MidSend
<1>2. XTypeOK'
  BY <1>1 DEF XInv, XTypeOK, WriteHeader, SenderStates, Units
<1>3. \A d \in Conns \ {c} : ConnInv(d)'
  BY Untouched DEF XInv, ConnInv, SameAt, WriteHeader, XTypeOK
<1>4. SenderOK(c)'
  BY <1>1, SizesAssumption DEF WriteHeader, SenderOK, XInv, XTypeOK
<1>5. wire'[c] = <<togo[c]>> /\ announced'[c] = Append(received'[c], togo[c])
      /\ replies'[c] = 0 /\ togo'[c] = togo[c] /\ sender'[c] = "body"
      /\ receiver'[c] = receiver[c]
  BY <1>1 DEF WriteHeader, XInv, XTypeOK
<1>6. Relation(c)'
  <2>1. CASE receiver[c] = "header"
    BY <2>1, <1>1, <1>5, SizesAssumption DEF Relation, HeaderUnread, MidSend
  <2>2. CASE receiver[c] = "failed"
    BY <2>2, <1>1, <1>5 DEF Relation, CutOff, MidSend
  <2> QED BY <1>1, <2>1, <2>2
<1> QED
  BY <1>2, <1>3, <1>4, <1>6 DEF XInv, ConnInv

LEMMA WriteChunkInv == ASSUME XInv, NEW c \in Conns, WriteChunk(c) PROVE XInv'
<1>1. togo[c] \in Nat /\ togo[c] > 0 /\ wire[c] \in Seq(Units) /\ ConnInv(c)
  BY DEF XInv, XTypeOK, WriteChunk, SenderOK, ConnInv
<1>2. /\ sender'[c] = (IF togo[c] = 1 THEN "ack" ELSE "body")
      /\ togo'[c] = togo[c] - 1 /\ wire'[c] = Append(wire[c], Body)
      /\ replies'[c] = replies[c] /\ receiver'[c] = receiver[c] /\ frame'[c] = frame[c]
      /\ left'[c] = left[c] /\ announced'[c] = announced[c] /\ received'[c] = received[c]
  BY DEF WriteChunk, XInv, XTypeOK
<1>3. XTypeOK'
  <2>1. Append(wire[c], Body) \in Seq(Units)
    BY <1>1, UnitFacts, AppendFacts
  <2>2. togo[c] - 1 \in Nat
    BY <1>1
  <2> QED BY <2>1, <2>2 DEF XInv, XTypeOK, WriteChunk, SenderStates
<1>4. \A d \in Conns \ {c} : ConnInv(d)'
  BY Untouched DEF XInv, ConnInv, SameAt, WriteChunk, XTypeOK
<1>5. SenderOK(c)'
  BY <1>1, <1>2 DEF SenderOK
<1>6. /\ wire'[c] # <<>> /\ Len(wire'[c]) = Len(wire[c]) + 1 /\ Len(wire[c]) \in Nat
      /\ wire'[c][Len(wire[c]) + 1] = Body
      /\ \A j \in 1..Len(wire[c]) : wire'[c][j] = wire[c][j]
      /\ wire[c] # <<>> => Head(wire'[c]) = Head(wire[c])
  BY <1>1, <1>2, UnitFacts, AppendFacts
<1>7. HeaderUnread(c) \/ BodyUnread(c) \/ CutOff(c)
  BY <1>1 DEF ConnInv, Relation, Between, HeaderTorn, AllRead, WriteChunk
<1>8. Relation(c)'
  <2>1. CASE HeaderUnread(c)
    <3>0. /\ wire[c] # <<>> /\ Head(wire[c]) \in Sizes /\ Head(wire[c]) \in Nat
          /\ Len(wire[c]) + togo[c] = 1 + Head(wire[c])
          /\ \A j \in 2..Len(wire[c]) : wire[c][j] = Body
      BY <2>1, SizesAssumption DEF HeaderUnread
    <3>1. \A j \in 2..Len(wire'[c]) : wire'[c][j] = Body
      BY <3>0, <1>1, <1>2, BodyAppended
    <3>2. Len(wire'[c]) + togo'[c] = 1 + Head(wire'[c])
      <4>1. Head(wire'[c]) = Head(wire[c])
        BY <3>0, <1>6
      <4>2. Len(wire[c]) \in Int /\ togo[c] \in Int /\ 1 + Head(wire[c]) \in Int
            /\ Len(wire[c]) + togo[c] = 1 + Head(wire[c])
        BY <3>0, <1>1, <1>6
      <4>3. (Len(wire[c]) + 1) + (togo[c] - 1) = 1 + Head(wire[c])
        BY <4>2, Counting
      <4> QED BY <4>1, <4>3, <1>2, <1>6
    <3>3. HeaderUnread(c)'
      BY <2>1, <1>2, <1>6, <3>1, <3>2 DEF HeaderUnread, MidSend
    <3> QED BY <3>3 DEF Relation
  <2>2. CASE BodyUnread(c)
    <3>0. /\ left[c] = Len(wire[c]) + togo[c] /\ left[c] > 0 /\ left[c] \in Nat
          /\ \A j \in 1..Len(wire[c]) : wire[c][j] = Body
      BY <2>2 DEF BodyUnread, XInv, XTypeOK
    <3>1. \A j \in 1..Len(wire'[c]) : wire'[c][j] = Body
      BY <3>0, <1>1, <1>2, BodyAppended
    <3>2. left'[c] = Len(wire'[c]) + togo'[c] /\ left'[c] > 0
      <4>1. (Len(wire[c]) + 1) + (togo[c] - 1) = left[c]
        BY <3>0, <1>1, <1>6, Counting
      <4> QED BY <4>1, <3>0, <1>2, <1>6
    <3>3. BodyUnread(c)'
      BY <2>2, <1>2, <3>1, <3>2 DEF BodyUnread, MidSend
    <3> QED BY <3>3 DEF Relation
  <2>3. CASE CutOff(c)
    BY <2>3, <1>2 DEF Relation, CutOff, MidSend
  <2> QED BY <1>7, <2>1, <2>2, <2>3
<1> QED
  BY <1>3, <1>4, <1>5, <1>8 DEF XInv, ConnInv

LEMMA ReadAckInv == ASSUME XInv, NEW c \in Conns, ReadAck(c) PROVE XInv'
<1>1. XTypeOK'
  BY DEF XInv, XTypeOK, ReadAck, SenderStates
<1>2. \A d \in Conns \ {c} : ConnInv(d)'
  BY Untouched DEF XInv, ConnInv, SameAt, ReadAck, XTypeOK
<1>3. ConnInv(c)'
  BY DEF XInv, ConnInv, XTypeOK, ReadAck, SenderOK, Relation, Between, HeaderTorn,
         HeaderUnread, BodyUnread, CutOff, AllRead, MidSend
<1> QED
  BY <1>1, <1>2, <1>3 DEF XInv, ConnInv

LEMMA SendFailsInv == ASSUME XInv, NEW c \in Conns, SendFails(c) PROVE XInv'
<1>1. \/ wire' = wire
      \/ sender[c] = "header" /\ wire' = [wire EXCEPT ![c] = Append(@, PartHeader)]
  BY DEF SendFails
<1>2. XTypeOK'
  <2>1. Append(wire[c], PartHeader) \in Seq(Units)
    BY UnitFacts, AppendFacts DEF XInv, XTypeOK
  <2>2. wire' \in [Conns -> Seq(Units)]
    BY <1>1, <2>1 DEF XInv, XTypeOK
  <2> QED BY <2>2 DEF XInv, XTypeOK, SendFails, SenderStates
<1>3. \A d \in Conns \ {c} : ConnInv(d)'
  BY <1>1, Untouched DEF XInv, ConnInv, SameAt, SendFails, XTypeOK
<1>4. CASE wire' = wire
  <2>1. ConnInv(c)'
    BY <1>4 DEF XInv, ConnInv, XTypeOK, SendFails, InSend, SenderOK, Relation, Between,
           HeaderTorn, HeaderUnread, BodyUnread, CutOff, AllRead, MidSend
  <2> QED BY <1>2, <1>3, <2>1 DEF XInv, ConnInv
<1>5. CASE sender[c] = "header" /\ wire' = [wire EXCEPT ![c] = Append(@, PartHeader)]
  <2>1. Between(c) /\ sender[c] # "none" /\ sender[c] # "closed"
    BY <1>5 DEF XInv, Relation, HeaderTorn, HeaderUnread, BodyUnread, CutOff, AllRead, MidSend
  <2>2. HeaderTorn(c)'
    BY <2>1, <1>5 DEF Between, HeaderTorn, SendFails, XInv, XTypeOK
  <2>3. SenderOK(c)'
    BY DEF SendFails, SenderOK, XInv, XTypeOK
  <2> QED BY <1>2, <1>3, <2>2, <2>3 DEF XInv, ConnInv, Relation
<1> QED
  BY <1>1, <1>4, <1>5

LEMMA CloseConnsInv == ASSUME XInv, NEW C \in SUBSET Conns, CloseConns(C) PROVE XInv'
<1>1. XTypeOK'
  BY DEF XInv, XTypeOK, CloseConns, SenderStates
<1>2. ASSUME NEW d \in Conns \ C PROVE ConnInv(d)'
  BY <1>2, Untouched DEF XInv, ConnInv, SameAt, CloseConns, XTypeOK
<1>3. ASSUME NEW d \in C PROVE ConnInv(d)'
  BY <1>3 DEF XInv, ConnInv, XTypeOK, CloseConns, Open, InSend, SenderOK, Relation, Between,
         HeaderTorn, HeaderUnread, BodyUnread, CutOff, AllRead, MidSend
<1> QED
  BY <1>1, <1>2, <1>3 DEF XInv, ConnInv

LEMMA ExpireInv == ASSUME XInv, NEW c \in Conns, Expire(c) PROVE XInv'
<1>1. XTypeOK'
  BY DEF XInv, XTypeOK, Expire, Open
<1>2. \A d \in Conns : ConnInv(d)'
  BY Untouched DEF XInv, ConnInv, SameAt, Expire
<1> QED BY <1>1, <1>2 DEF XInv, ConnInv

LEMMA BreakInv == ASSUME XInv, NEW c \in Conns, Break(c) PROVE XInv'
<1>1. XTypeOK'
  BY DEF XInv, XTypeOK, Break
<1>2. \A d \in Conns : ConnInv(d)'
  BY Untouched DEF XInv, ConnInv, SameAt, Break
<1> QED BY <1>1, <1>2 DEF XInv, ConnInv

LEMMA ServeHeaderInv == ASSUME XInv, NEW c \in Conns, ServeHeader(c) PROVE XInv'
<1>1. HeaderUnread(c) /\ wire[c] \in Seq(Units) /\ togo[c] \in Nat
  BY DEF XInv, XTypeOK, ServeHeader, Relation, Between, HeaderTorn, BodyUnread, CutOff, AllRead
<1>2. Head(wire[c]) \in Sizes /\ Head(wire[c]) # 0 /\ Head(wire[c]) \in Nat
  BY <1>1, SizesAssumption DEF HeaderUnread
<1>3. /\ frame' = [frame EXCEPT ![c] = Head(wire[c])]
      /\ left' = [left EXCEPT ![c] = Head(wire[c])]
      /\ receiver' = [receiver EXCEPT ![c] = "body"]
      /\ wire' = [wire EXCEPT ![c] = Tail(wire[c])]
      /\ UNCHANGED <<sender, togo, replies, expired, broken, announced, received>>
  BY <1>2 DEF ServeHeader
<1>4. /\ Tail(wire[c]) \in Seq(Units) /\ Len(wire[c]) \in Nat /\ Len(wire[c]) > 0
      /\ Len(Tail(wire[c])) = Len(wire[c]) - 1
      /\ \A j \in 1..Len(Tail(wire[c])) : Tail(wire[c])[j] = wire[c][j + 1]
  BY <1>1, TailFacts DEF HeaderUnread
<1>5. XTypeOK'
  BY <1>2, <1>3, <1>4 DEF XInv, XTypeOK, ReceiverStates
<1>6. \A d \in Conns \ {c} : ConnInv(d)'
  BY <1>3, Untouched DEF XInv, ConnInv, SameAt, XTypeOK
<1>7. SenderOK(c)'
  BY <1>3 DEF XInv, SenderOK
<1>8. BodyUnread(c)'
  <2>1. wire'[c] = Tail(wire[c]) /\ left'[c] = Head(wire[c]) /\ frame'[c] = Head(wire[c])
        /\ receiver'[c] = "body"
    BY <1>3 DEF XInv, XTypeOK
  <2>2. \A j \in 1..Len(wire'[c]) : wire'[c][j] = Body
    BY <1>1, <1>4, <2>1 DEF HeaderUnread
  <2>3. left'[c] = Len(wire'[c]) + togo'[c] /\ left'[c] > 0
    <3>1. Len(wire[c]) + togo[c] = 1 + Head(wire[c])
      BY <1>1 DEF HeaderUnread
    <3>2. (Len(wire[c]) - 1) + togo[c] = Head(wire[c])
      BY <3>1, <1>1, <1>2, <1>4, Counting
    <3>3. Head(wire[c]) > 0
      BY <1>1, SizeFacts DEF HeaderUnread
    <3>4. togo'[c] = togo[c]
      BY <1>3
    <3>5. Len(wire'[c]) = Len(wire[c]) - 1
      BY <1>4, <2>1
    <3> QED BY <3>2, <3>3, <3>4, <3>5, <2>1
  <2> QED BY <1>1, <1>2, <1>3, <2>1, <2>2, <2>3 DEF HeaderUnread, BodyUnread
<1> QED BY <1>5, <1>6, <1>7, <1>8 DEF XInv, ConnInv, Relation

LEMMA ServeBodyInv == ASSUME XInv, NEW c \in Conns, ServeBody(c) PROVE XInv'
<1>1. BodyUnread(c) /\ wire[c] \in Seq(Units) /\ togo[c] \in Nat /\ left[c] \in Nat
  BY DEF XInv, XTypeOK, ServeBody, Relation, Between, HeaderTorn, HeaderUnread, CutOff, AllRead
<1>2. /\ Tail(wire[c]) \in Seq(Units) /\ Len(wire[c]) \in Nat /\ Len(wire[c]) > 0
      /\ Len(Tail(wire[c])) = Len(wire[c]) - 1
      /\ \A j \in 1..Len(Tail(wire[c])) : Tail(wire[c])[j] = wire[c][j + 1]
      /\ Len(wire[c]) = 1 => Tail(wire[c]) = <<>>
  BY <1>1, TailFacts DEF ServeBody
<1>3. wire'[c] = Tail(wire[c]) /\ left'[c] = left[c] - 1
      /\ UNCHANGED <<sender, togo, replies, frame, announced>>
  BY DEF ServeBody, XInv, XTypeOK
<1>4. \A d \in Conns \ {c} : ConnInv(d)'
  BY Untouched DEF XInv, ConnInv, SameAt, ServeBody, XTypeOK
<1>5. SenderOK(c)'
  BY <1>3 DEF XInv, SenderOK
<1>6. Append(received[c], frame[c]) \in Seq(Sizes \cup {0})
  BY <1>1, AppendFacts DEF BodyUnread, XInv, XTypeOK
<1>7. XTypeOK'
  <2>1. left[c] - 1 \in Nat
    BY <1>1 DEF BodyUnread
  <2>2. received' \in [Conns -> Seq(Sizes \cup {0})]
    BY <1>6 DEF ServeBody, XInv, XTypeOK
  <2> QED BY <1>2, <2>1, <2>2 DEF ServeBody, XInv, XTypeOK, ReceiverStates
<1>8. CASE left[c] = 1
  <2>1. wire'[c] = <<>> /\ togo[c] = 0
    <3>1. Len(wire[c]) + togo[c] = 1
      BY <1>8, <1>1 DEF BodyUnread
    <3>2. Len(wire[c]) = 1 /\ togo[c] = 0
      BY <3>1, <1>1, <1>2, Counting
    <3> QED BY <3>2, <1>2, <1>3
  <2>2. received'[c] = announced[c] /\ receiver'[c] = "reply"
    BY <1>8, <1>1 DEF BodyUnread, ServeBody, XInv, XTypeOK
  <2>3. sender[c] # "body"
    BY <2>1 DEF XInv, SenderOK
  <2>4. AllRead(c)'
    BY <1>1, <1>3, <2>1, <2>2, <2>3 DEF BodyUnread, AllRead, MidSend
  <2> QED BY <1>4, <1>5, <1>7, <2>4 DEF XInv, ConnInv, Relation
<1>9. CASE left[c] # 1
  <2>1. received'[c] = received[c] /\ receiver'[c] = "body"
    BY <1>9 DEF ServeBody, XInv, XTypeOK
  <2>2. \A j \in 1..Len(wire'[c]) : wire'[c][j] = Body
    BY <1>1, <1>2, <1>3 DEF BodyUnread
  <2>3. left'[c] = Len(wire'[c]) + togo'[c] /\ left'[c] > 0
    BY <1>9, <1>1, <1>2, <1>3 DEF BodyUnread
  <2>4. BodyUnread(c)'
    BY <1>1, <1>3, <2>1, <2>2, <2>3 DEF BodyUnread
  <2> QED BY <1>4, <1>5, <1>7, <2>4 DEF XInv, ConnInv, Relation
<1> QED BY <1>8, <1>9

LEMMA ServeReplyInv == ASSUME XInv, NEW c \in Conns, ServeReply(c) PROVE XInv'
<1>1. XTypeOK'
  BY DEF XInv, XTypeOK, ServeReply, ReceiverStates
<1>2. \A d \in Conns \ {c} : ConnInv(d)'
  BY Untouched DEF XInv, ConnInv, SameAt, ServeReply, XTypeOK
<1>3. SenderOK(c)'
  BY DEF XInv, ServeReply, SenderOK
<1>4. AllRead(c) /\ replies[c] = 0
  BY DEF XInv, ServeReply, Relation, Between, HeaderTorn, HeaderUnread, BodyUnread, CutOff,
         AllRead
<1>5. replies'[c] = 1 /\ receiver'[c] = "header"
  BY <1>4 DEF ServeReply, XInv, XTypeOK
<1>6. AllRead(c)'
  BY <1>4, <1>5 DEF ServeReply, AllRead
<1> QED
  BY <1>1, <1>2, <1>3, <1>6 DEF XInv, ConnInv, Relation

LEMMA ServeEndInv == ASSUME XInv, NEW c \in Conns, ServeEnd(c) PROVE XInv'
<1>1. XTypeOK'
  BY DEF XInv, XTypeOK, ServeEnd, ReceiverStates
<1>2. \A d \in Conns \ {c} : ConnInv(d)'
  BY Untouched DEF XInv, ConnInv, SameAt, ServeEnd, XTypeOK
<1>3. SenderOK(c)'
  BY DEF XInv, ServeEnd, SenderOK
<1>4. CASE receiver[c] = "header" /\ wire[c] = <<>>
  <2>1. receiver'[c] = "ended"
    BY <1>4 DEF ServeEnd, XInv, XTypeOK
  <2>2. Between(c) \/ AllRead(c)
    BY <1>4 DEF XInv, Relation, HeaderTorn, HeaderUnread, BodyUnread, CutOff
  <2>3. Between(c)' \/ AllRead(c)'
    BY <1>4, <2>1, <2>2 DEF ServeEnd, Between, AllRead
  <2> QED BY <1>1, <1>2, <1>3, <2>3 DEF XInv, ConnInv, Relation
<1>5. CASE receiver[c] = "header" /\ wire[c] = <<PartHeader>>
  <2>1. receiver'[c] = "failed"
    BY <1>5 DEF ServeEnd, XInv, XTypeOK
  <2>2. HeaderTorn(c)
    BY <1>5, UnitFacts DEF XInv, Relation, Between, HeaderUnread, BodyUnread, CutOff, AllRead
  <2>3. HeaderTorn(c)'
    BY <1>5, <2>1, <2>2 DEF ServeEnd, HeaderTorn
  <2> QED BY <1>1, <1>2, <1>3, <2>3 DEF XInv, ConnInv, Relation
<1>6. CASE receiver[c] = "body"
  <2>1. receiver'[c] = "failed"
    BY <1>6 DEF ServeEnd, XInv, XTypeOK
  <2>2. BodyUnread(c)
    BY <1>6 DEF XInv, Relation, Between, HeaderTorn, HeaderUnread, CutOff, AllRead
  <2>3. CutOff(c)'
    BY <2>1, <2>2 DEF ServeEnd, BodyUnread, CutOff
  <2> QED BY <1>1, <1>2, <1>3, <2>3 DEF XInv, ConnInv, Relation
<1> QED BY <1>4, <1>5, <1>6 DEF ServeEnd

LEMMA ServeFailsInv == ASSUME XInv, NEW c \in Conns, ServeFails(c) PROVE XInv'
<1>1. XTypeOK'
  BY DEF XInv, XTypeOK, ServeFails, ReceiverStates
<1>2. \A d \in Conns \ {c} : ConnInv(d)'
  BY Untouched DEF XInv, ConnInv, SameAt, ServeFails, XTypeOK
<1>3. SenderOK(c)'
  BY DEF XInv, ServeFails, SenderOK
<1>4. Relation(c)'
  BY DEF XInv, XTypeOK, ServeFails, Serving, Relation, Between, HeaderTorn,
         HeaderUnread, BodyUnread, CutOff, AllRead
<1> QED
  BY <1>1, <1>2, <1>3, <1>4 DEF XInv, ConnInv

-----------------------------------------------------------------------------
(* The relations are an inductive invariant of a connection used as Send   *)
(* asks: Serve and Send never lose track of each other.                    *)
LEMMA XStepInv == XInv /\ [XNext]_xvars => XInv'
<1> SUFFICES ASSUME XInv, [XNext]_xvars PROVE XInv'
  OBVIOUS
<1>1. ASSUME NEW c \in Conns, Send(c) PROVE XInv'
  BY <1>1, WriteHeaderInv, WriteChunkInv, ReadAckInv, SendFailsInv DEF Send
<1>2. ASSUME NEW c \in Conns, Serve(c) PROVE XInv'
  BY <1>2, ServeHeaderInv, ServeBodyInv, ServeReplyInv, ServeEndInv, ServeFailsInv DEF Serve
<1>3. CASE UNCHANGED xvars
  BY <1>3 DEF xvars, XInv, XTypeOK, SenderOK, Relation, Between, HeaderTorn, HeaderUnread,
              BodyUnread, CutOff, AllRead
<1> QED
  BY <1>1, <1>2, <1>3, ConnectInv, ExpireInv, BreakInv, BeginSendInv, CloseConnsInv DEF XNext

(* Xfer's type correctness and the relations between its two ends, for any *)
(* number of transfers of any length.                                      *)
THEOREM XferInvariant == XSpec => []XInv
BY XInitInv, XStepInv, PTL DEF XSpec

LEMMA XInvInOrder == XInv => InOrder
<1> SUFFICES ASSUME XInv, NEW c \in Conns
             PROVE  /\ Len(received[c]) \in {Len(announced[c]), Len(announced[c]) - 1}
                    /\ \A j \in 1..Len(received[c]) : received[c][j] = announced[c][j]
  BY DEF InOrder
<1>1. received[c] \in Seq(Sizes \cup {0})
  BY DEF XInv, XTypeOK
<1>2. received[c] = announced[c] \/ \E n \in Sizes : announced[c] = Append(received[c], n)
  BY DEF XInv, Relation, Between, HeaderTorn, HeaderUnread, BodyUnread, CutOff, AllRead
<1>3. CASE received[c] = announced[c]
  BY <1>3
<1>4. ASSUME NEW n \in Sizes, announced[c] = Append(received[c], n)
      PROVE  Len(announced[c]) = Len(received[c]) + 1 /\ Len(received[c]) \in Nat
             /\ \A j \in 1..Len(received[c]) : received[c][j] = announced[c][j]
  BY <1>1, <1>4, AppendFacts
<1> QED BY <1>2, <1>3, <1>4

(* Whatever is cut off, the transfers the receiver takes for whole are     *)
(* those the sender announced, in order.                                   *)
THEOREM ReceivedInOrder == XSpec => []InOrder
BY XferInvariant, XInvInOrder, PTL

(* Send returns nil only when the receiver has every transfer so far.      *)
THEOREM NilMeansReceived == XSpec => []SentMeansReceived
<1>1. XInv => SentMeansReceived
  BY DEF XInv, SentMeansReceived, Relation, Between, HeaderTorn, HeaderUnread, BodyUnread,
         CutOff, AllRead, MidSend
<1> QED BY <1>1, XferInvariant, PTL

(* A connection may be used again after a Send that returned nil.          *)
THEOREM ReuseIsClean == XSpec => []CleanBoundary
<1>1. XInv => CleanBoundary
  BY DEF XInv, CleanBoundary, Usable, Relation, Between, HeaderTorn, HeaderUnread, BodyUnread,
         CutOff, AllRead, MidSend
<1> QED BY <1>1, XferInvariant, PTL

(* Serve reports every connection that was cut off partway.                *)
THEOREM CutOffIsReported == XSpec => []CleanEndIsWhole
<1>1. XInv => CleanEndIsWhole
  BY DEF XInv, CleanEndIsWhole, Relation, Between, HeaderTorn, HeaderUnread, BodyUnread,
         CutOff, AllRead
<1> QED BY <1>1, XferInvariant, PTL

-----------------------------------------------------------------------------
(* Worker: locking and pooling. *)

WTypeOK ==
    /\ mu \in Calls \cup {None}
    /\ conns \in [Peers -> Calls \cup {None}]
    /\ pc \in [Calls -> {"new", "lock", "conn", "send", "done"}]
    /\ req \in [Calls -> Requests]
    /\ ctx \in [Calls -> {"live"} \cup CtxErrs]
    /\ trip \in [Calls -> TripStates]
    /\ conn \in [Calls -> Calls \cup {None}]
    /\ out \in [Calls -> Codes \cup {None}]

(* WInv with the relations of XInv, which the types of Xfer rest on. *)
Inv == XInv /\ WInv

Parts == /\ WTypeOK /\ LockInv /\ CallInv /\ PoolInv /\ SendInv
         /\ TripInv /\ ExpiryInv /\ FailureInv /\ NoFalseBlame

LEMMA InvParts == Inv <=> XInv /\ Parts
BY DEF Inv, WInv, Parts, TypeOK, WTypeOK, XInv

LEMMA ConstantFacts ==
    /\ Conns = Calls /\ None \notin Calls /\ None \notin Peers
    /\ Allowed \subseteq Peers /\ NoPeer \notin Peers
    /\ \A e \in CtxErrs : e # "live" /\ e # "Unavailable" /\ e # "OK"
    /\ None \notin Codes
BY CallsAssumption, PeersAssumption, NoneAssumption, CtxErrsAssumption

LEMMA InitInv == Init => Inv
<1> SUFFICES ASSUME Init PROVE Inv
  OBVIOUS
<1>1. XInv
  BY XInitInv DEF Init
<1>2. WTypeOK
  BY DEF Init, WTypeOK, Requests, TripStates
<1>3. LockInv /\ CallInv /\ PoolInv /\ SendInv /\ TripInv /\ ExpiryInv /\ FailureInv
      /\ NoFalseBlame
  BY ConstantFacts DEF Init, NoFalseBlame, XInit, LockInv, CallInv, PoolInv, SendInv, TripInv, ExpiryInv,
         FailureInv, Open, InSend
<1> QED BY <1>1, <1>2, <1>3, InvParts DEF Parts

-----------------------------------------------------------------------------
(* The worker uses Xfer as Send asks: every step of it is a step of Xfer   *)
(* or leaves the connections alone.                                        *)
LEMMA StepsOfXfer == Inv /\ [Next]_vars => [XNext]_xvars
<1> SUFFICES ASSUME Inv, [Next]_vars PROVE [XNext]_xvars
  OBVIOUS
<1> USE ConstantFacts
<1>1. ASSUME NEW k \in Calls, NEW r \in Requests, Transfer(k, r) PROVE UNCHANGED xvars
  BY <1>1 DEF Transfer
<1>2. ASSUME NEW k \in Calls, Dial(k) PROVE XNext
  BY <1>2 DEF Dial, XNext
<1>3. ASSUME NEW k \in Calls, Begin(k) PROVE XNext
  <2> DEFINE c == conns[Peer(k)]
  <2>1. req[k].bytes \in Sizes /\ Peer(k) \in Peers /\ c # None /\ c \in Calls
    BY <1>3 DEF Begin, Inv, WInv, CallInv, TypeOK
  <2>2. Open(c) /\ ~InSend(c)
    BY <1>3 DEF Begin, BeginSend
  <2>3. mu = k /\ pc[k] = "conn"
    BY <1>3 DEF Begin, Inv, WInv, LockInv
  <2>4. sender[c] # "failed"
    BY <2>1, <2>3 DEF Inv, WInv, SendInv
  <2>5. Usable(c)
    BY <2>1, <2>2, <2>4 DEF Usable, Open, InSend, Inv, XInv, XTypeOK, SenderStates
  <2> QED BY <1>3, <2>1, <2>5 DEF Begin, XNext
<1>4. ASSUME NEW k \in Calls, Finish(k) PROVE [XNext]_xvars
  <2>1. conn[k] \in Calls
    BY <1>4 DEF Finish, Inv, WInv, CallInv, TypeOK
  <2>2. {conn[k]} \in SUBSET Conns
    BY <2>1
  <2> QED BY <1>4, <2>2 DEF Finish, XNext
<1>5. ASSUME Close PROVE XNext
  <2>1. {conns[p] : p \in Peers} \ {None} \in SUBSET Conns
    BY DEF Inv, WInv, TypeOK
  <2> QED BY <1>5, <2>1 DEF Close, XNext
<1>6. ASSUME NEW k \in Calls, TripRun(k) PROVE [XNext]_xvars
  <2>1. conn[k] \in Calls
    BY <1>6 DEF TripRun, Inv, WInv, TripInv, TypeOK
  <2> QED BY <1>6, <2>1 DEF TripRun, XNext
<1>7. ASSUME NEW c \in Conns, Send(c) \/ Serve(c) \/ Break(c) PROVE XNext
  BY <1>7 DEF XNext
<1>8. ASSUME NEW k \in Calls, Lock(k) \/ LockTooLate(k) \/ DialFails(k) \/ CtxEnd(k) \/ TripFire(k)
      PROVE UNCHANGED xvars
  BY <1>8 DEF Lock, LockTooLate, DialFails, CtxEnd, TripFire
<1>9. UNCHANGED vars => UNCHANGED xvars
  BY DEF vars
<1> QED
  BY <1>1, <1>2, <1>3, <1>4, <1>5, <1>6, <1>7, <1>8, <1>9 DEF Next, Step

LEMMA XInvStep == Inv /\ [Next]_vars => XInv'
BY StepsOfXfer, XStepInv DEF Inv

-----------------------------------------------------------------------------
(* The worker's own conjuncts, action by action. *)
LEMMA TransferParts ==
    ASSUME Inv, NEW k \in Calls, NEW r \in Requests, Transfer(k, r) PROVE Parts'
<1> USE ConstantFacts
<1>0. XTypeOK /\ Parts
  BY InvParts DEF XInv
<1>1. pc[k] = "new" /\ UNCHANGED <<mu, conns, ctx, trip, conn, xvars>>
  BY DEF Transfer
<1>2. sender[k] = "none" /\ ~Open(k) /\ mu # k
  BY <1>0, <1>1 DEF Parts, CallInv, LockInv, Open
<1>3. CASE Refusal(r) # None
  <2>1. /\ pc' = [pc EXCEPT ![k] = "done"] /\ out' = [out EXCEPT ![k] = Refusal(r)]
        /\ req' = req
    BY <1>3 DEF Transfer, Return
  <2>2. Refusal(r) \in Codes
    BY <1>3 DEF Refusal, Codes
  <2>3. WTypeOK' /\ LockInv' /\ CallInv'
    BY <1>0, <1>1, <2>1, <2>2 DEF Parts, WTypeOK, LockInv, CallInv, xvars, InSend, Peer
  <2>4. PoolInv' /\ SendInv' /\ TripInv' /\ ExpiryInv' /\ FailureInv'
    BY <1>0, <1>1, <1>2, <2>1 DEF Parts, WTypeOK, LockInv, CallInv, PoolInv, SendInv, TripInv,
       ExpiryInv, FailureInv, xvars, InSend, Open, Peer, CtxErr
  <2>5. NoFalseBlame'
    BY <1>0, <1>1, <2>1 DEF Parts, WTypeOK, CallInv, NoFalseBlame, xvars
  <2> QED BY <2>3, <2>4, <2>5 DEF Parts
<1>4. CASE Refusal(r) = None
  <2>1. pc' = [pc EXCEPT ![k] = "lock"] /\ req' = [req EXCEPT ![k] = r] /\ out' = out
    BY <1>4 DEF Transfer
  <2>2. r.peer \in Allowed /\ r.bytes \in Sizes
    BY <1>4, SizesAssumption DEF Refusal, Requests, Codes
  <2>3. WTypeOK' /\ LockInv' /\ CallInv'
    BY <1>0, <1>1, <2>1, <2>2 DEF Parts, WTypeOK, LockInv, CallInv, xvars, InSend, Peer
  <2>4. PoolInv'
    BY <1>0, <1>1, <1>2, <2>1 DEF Parts, WTypeOK, PoolInv, xvars, Open, Peer
  <2>5. SendInv' /\ TripInv' /\ ExpiryInv' /\ FailureInv'
    BY <1>0, <1>1, <1>2, <2>1 DEF Parts, WTypeOK, LockInv, CallInv, SendInv, TripInv,
       ExpiryInv, FailureInv, xvars, InSend, Open, CtxErr
  <2>6. NoFalseBlame'
    BY <1>0, <1>1, <2>1 DEF Parts, NoFalseBlame, xvars
  <2> QED BY <2>3, <2>4, <2>5, <2>6 DEF Parts
<1> QED BY <1>3, <1>4

LEMMA LockParts == ASSUME Inv, NEW k \in Calls, Lock(k) PROVE Parts'
<1> USE ConstantFacts
<1>0. XTypeOK /\ Parts
  BY InvParts DEF XInv
<1>1. WTypeOK'
  BY <1>0 DEF Parts, WTypeOK, Lock
<1>2. LockInv'
  BY <1>0 DEF Parts, WTypeOK, LockInv, Lock
<1>3. CallInv'
  BY <1>0 DEF Parts, CallInv, Lock, LockInv, Peer, xvars
<1>4. PoolInv'
  BY <1>0 DEF Parts, PoolInv, Lock, Open, Peer, xvars
<1>5. SendInv'
  BY <1>0 DEF Parts, SendInv, Lock, InSend, xvars
<1>6. TripInv'
  BY <1>0 DEF Parts, TripInv, Lock, CtxErr, xvars
<1>7. ExpiryInv'
  BY <1>0 DEF Parts, ExpiryInv, Lock, xvars
<1>8. FailureInv'
  BY <1>0 DEF Parts, FailureInv, Lock, xvars
<1>10. NoFalseBlame'
  BY <1>0 DEF Parts, WTypeOK, CallInv, NoFalseBlame, Lock, xvars
<1> QED BY <1>1, <1>2, <1>3, <1>4, <1>5, <1>6, <1>7, <1>8, <1>10 DEF Parts

LEMMA LockTooLateParts == ASSUME Inv, NEW k \in Calls, LockTooLate(k) PROVE Parts'
<1> USE ConstantFacts
<1>0. XTypeOK /\ Parts
  BY InvParts DEF XInv
<1>1. WTypeOK'
  BY <1>0 DEF Parts, WTypeOK, LockTooLate, Codes, CtxErr, Return
<1>2. LockInv'
  BY <1>0 DEF Parts, LockInv, LockTooLate, Return
<1>3. CallInv'
  BY <1>0 DEF Parts, WTypeOK, CallInv, LockTooLate, SendInv, Peer, Return, xvars
<1>4. PoolInv'
  BY <1>0 DEF Parts, PoolInv, LockTooLate, Open, Peer, xvars
<1>5. SendInv'
  BY <1>0 DEF Parts, SendInv, LockTooLate, InSend, xvars
<1>6. TripInv'
  BY <1>0 DEF Parts, TripInv, LockTooLate, CtxErr, Return, xvars
<1>7. ExpiryInv'
  BY <1>0 DEF Parts, ExpiryInv, LockTooLate, xvars
<1>8. FailureInv'
  BY <1>0 DEF Parts, FailureInv, LockTooLate, xvars
<1>10. NoFalseBlame'
  BY <1>0 DEF Parts, WTypeOK, CallInv, NoFalseBlame, LockTooLate, CtxErr, Return, xvars
<1> QED BY <1>1, <1>2, <1>3, <1>4, <1>5, <1>6, <1>7, <1>8, <1>10 DEF Parts

LEMMA DialParts == ASSUME Inv, NEW k \in Calls, Dial(k) PROVE Parts'
<1> USE ConstantFacts
<1>0. XTypeOK /\ Parts
  BY InvParts DEF XInv
<1>1. WTypeOK'
  BY <1>0 DEF Parts, WTypeOK, Dial
<1>2. LockInv'
  BY <1>0 DEF Parts, LockInv, Dial
<1>3. CallInv'
  BY <1>0 DEF Parts, CallInv, Dial, Connect, LockInv, Peer
<1>4. PoolInv'
  <2>1. /\ Peer(k) \in Peers /\ k \in Conns /\ k # None
        /\ conns' \in [Peers -> Calls \cup {None}]
        /\ \A p \in Peers : conns'[p] = IF p = Peer(k) THEN k ELSE conns[p]
        /\ \A c \in Calls : sender'[c] = IF c = k THEN "ready" ELSE sender[c]
        /\ \A c \in Calls : Peer(c)' = Peer(c)
        /\ sender[k] = "none" /\ conns[Peer(k)] = None /\ req' = req
    BY <1>0, <1>1 DEF Parts, WTypeOK, XTypeOK, Dial, Connect, LockInv, CallInv, Peer
  <2>2. ASSUME NEW p \in Peers, conns'[p] # None
        PROVE  (Open(conns[p]) /\ Peer(conns[p]) = p)'
    <3>1. CASE p = Peer(k)
      BY <2>1, <3>1 DEF Open
    <3>2. CASE p # Peer(k)
      <4>1. /\ conns[p] \in Calls /\ conns'[p] = conns[p]
            /\ Open(conns[p]) /\ Peer(conns[p]) = p
        BY <1>0, <2>1, <2>2, <3>2 DEF Parts, WTypeOK, PoolInv
      <4> QED BY <2>1, <4>1 DEF Open
    <3> QED BY <3>1, <3>2
  <2>3. ASSUME NEW c \in Calls, Open(c)' PROVE Peer(c)' \in Peers /\ conns'[Peer(c)'] = c
    <3>1. CASE c = k
      BY <2>1, <3>1
    <3>2. CASE c # k
      <4>1. Open(c) /\ Peer(c) \in Peers /\ conns[Peer(c)] = c
        BY <1>0, <2>1, <2>3, <3>2 DEF Parts, PoolInv, Open
      <4> QED BY <2>1, <4>1, <3>2
    <3> QED BY <3>1, <3>2
  <2> QED BY <2>2, <2>3 DEF PoolInv
<1>5. SendInv'
  BY <1>0 DEF Parts, SendInv, Dial, Connect, InSend
<1>6. TripInv'
  BY <1>0 DEF Parts, TripInv, Dial, Connect, CtxErr
<1>7. ExpiryInv'
  BY <1>0 DEF Parts, ExpiryInv, Dial, Connect
<1>8. FailureInv'
  BY <1>0 DEF Parts, FailureInv, Dial, Connect
<1>10. NoFalseBlame'
  BY <1>0 DEF Parts, WTypeOK, CallInv, NoFalseBlame, Dial, Connect, xvars
<1> QED BY <1>1, <1>2, <1>3, <1>4, <1>5, <1>6, <1>7, <1>8, <1>10 DEF Parts

LEMMA DialFailsParts == ASSUME Inv, NEW k \in Calls, DialFails(k) PROVE Parts'
<1> USE ConstantFacts
<1>0. XTypeOK /\ Parts
  BY InvParts DEF XInv
<1>1. WTypeOK'
  BY <1>0 DEF Parts, WTypeOK, DialFails, Failure, Codes, CtxErr, Return, Unlock
<1>2. LockInv'
  BY <1>0 DEF Parts, WTypeOK, LockInv, DialFails, Return, Unlock
<1>3. CallInv'
  BY <1>0 DEF Parts, WTypeOK, CallInv, DialFails, InSend, Peer, Return, xvars
<1>4. PoolInv'
  BY <1>0 DEF Parts, PoolInv, DialFails, Open, Peer, xvars
<1>5. SendInv'
  BY <1>0 DEF Parts, SendInv, DialFails, LockInv, InSend, xvars
<1>6. TripInv'
  BY <1>0 DEF Parts, TripInv, DialFails, CtxErr, Return, xvars
<1>7. ExpiryInv'
  BY <1>0 DEF Parts, ExpiryInv, DialFails, LockInv, xvars
<1>8. FailureInv'
  BY <1>0 DEF Parts, FailureInv, DialFails, xvars
<1>10. NoFalseBlame'
  BY <1>0 DEF Parts, WTypeOK, CallInv, NoFalseBlame, DialFails, Return, xvars
<1> QED BY <1>1, <1>2, <1>3, <1>4, <1>5, <1>6, <1>7, <1>8, <1>10 DEF Parts

LEMMA CtxEndParts == ASSUME Inv, NEW k \in Calls, CtxEnd(k) PROVE Parts'
<1> USE ConstantFacts
<1>0. XTypeOK /\ Parts
  BY InvParts DEF XInv
<1>1. WTypeOK'
  BY <1>0 DEF Parts, WTypeOK, CtxEnd
<1>2. LockInv'
  BY <1>0 DEF Parts, LockInv, CtxEnd
<1>3. CallInv'
  BY <1>0 DEF Parts, CallInv, CtxEnd, InSend, Peer, xvars
<1>4. PoolInv'
  BY <1>0 DEF Parts, PoolInv, CtxEnd, Open, Peer, xvars
<1>5. SendInv'
  BY <1>0 DEF Parts, SendInv, CtxEnd, InSend, xvars
<1>6. TripInv'
  BY <1>0 DEF Parts, TripInv, CtxEnd, CtxErr, xvars
<1>7. ExpiryInv'
  BY <1>0 DEF Parts, ExpiryInv, CtxEnd, xvars
<1>8. FailureInv'
  BY <1>0 DEF Parts, FailureInv, CtxEnd, xvars
<1>10. NoFalseBlame'
  BY <1>0 DEF Parts, WTypeOK, CallInv, NoFalseBlame, CtxEnd, xvars
<1> QED BY <1>1, <1>2, <1>3, <1>4, <1>5, <1>6, <1>7, <1>8, <1>10 DEF Parts

LEMMA TripFireParts == ASSUME Inv, NEW k \in Calls, TripFire(k) PROVE Parts'
<1> USE ConstantFacts
<1>0. XTypeOK /\ Parts
  BY InvParts DEF XInv
<1>1. WTypeOK'
  BY <1>0 DEF Parts, WTypeOK, TripFire, TripStates
<1>2. LockInv'
  BY <1>0 DEF Parts, LockInv, TripFire
<1>3. CallInv'
  BY <1>0 DEF Parts, CallInv, TripFire, InSend, Peer, xvars
<1>4. PoolInv'
  BY <1>0 DEF Parts, PoolInv, TripFire, Open, Peer, xvars
<1>5. SendInv'
  BY <1>0 DEF Parts, SendInv, TripFire, InSend, xvars
<1>6. TripInv'
  BY <1>0 DEF Parts, TripInv, TripFire, CallInv, CtxErr, xvars
<1>7. ExpiryInv'
  BY <1>0 DEF Parts, ExpiryInv, TripFire, xvars
<1>8. FailureInv'
  BY <1>0 DEF Parts, FailureInv, TripFire, xvars
<1>10. NoFalseBlame'
  BY <1>0 DEF Parts, WTypeOK, CallInv, NoFalseBlame, TripFire, xvars
<1> QED BY <1>1, <1>2, <1>3, <1>4, <1>5, <1>6, <1>7, <1>8, <1>10 DEF Parts

LEMMA BeginParts == ASSUME Inv, NEW k \in Calls, Begin(k) PROVE Parts'
<1> USE ConstantFacts
<1>0. XTypeOK /\ Parts
  BY InvParts DEF XInv
<1>1. WTypeOK'
  BY <1>0 DEF Parts, WTypeOK, Begin, CallInv, TripStates
<1>2. LockInv'
  BY <1>0 DEF Parts, LockInv, Begin
<1>3. CallInv'
  <2> DEFINE c == conns[Peer(k)]
  <2>1. /\ mu = k /\ pc[k] = "conn" /\ Peer(k) \in Peers /\ c # None /\ c \in Calls
    BY <1>0 DEF Begin, Parts, LockInv, CallInv, WTypeOK
  <2>2. /\ conn' = [conn EXCEPT ![k] = c] /\ trip' = [trip EXCEPT ![k] = "armed"]
        /\ pc' = [pc EXCEPT ![k] = "send"] /\ sender' = [sender EXCEPT ![c] = "header"]
        /\ UNCHANGED <<mu, conns, req>> /\ sender[c] # "none"
    BY DEF Begin, BeginSend, Open
  <2>3. \A l \in Calls \ {k} : pc[l] # "send"
    BY <1>0, <2>1 DEF Parts, LockInv
  <2>4. UNCHANGED out
    BY DEF Begin
  <2>5. sender'[c] = "header" /\ \A d \in Calls \ {c} : sender'[d] = sender[d]
    BY <1>0, <2>1, <2>2 DEF XTypeOK
  <2>6. ASSUME NEW l \in Calls \ {k} PROVE CallInv!(l)'
    BY <1>0, <2>2, <2>3, <2>4, <2>5, <2>6 DEF Parts, WTypeOK, CallInv, Peer
  <2>7. CallInv!(k)'
    BY <1>0, <2>1, <2>2, <2>4, <2>5 DEF Parts, WTypeOK, CallInv, Peer, InSend
  <2> QED BY <2>6, <2>7 DEF CallInv
<1>4. PoolInv'
  BY <1>0 DEF Parts, PoolInv, Begin, BeginSend, Open, Peer
<1>5. SendInv'
  BY <1>0 DEF Parts, WTypeOK, SendInv, Begin, BeginSend, LockInv, InSend
<1>6. TripInv'
  BY <1>0 DEF Parts, WTypeOK, TripInv, Begin, BeginSend, Open, CtxErr
<1>7. ExpiryInv'
  BY <1>0 DEF Parts, ExpiryInv, Begin, BeginSend, Open
<1>8. FailureInv'
  BY <1>0 DEF Parts, FailureInv, Begin, BeginSend
<1>10. NoFalseBlame'
  <2>1. /\ pc[k] = "conn" /\ out' = out /\ broken' = broken
        /\ \A l \in Calls \ {k} : conn'[l] = conn[l]
    BY <1>0 DEF Begin, BeginSend, Parts, WTypeOK
  <2>2. out[k] = None
    BY <1>0, <2>1 DEF Parts, CallInv
  <2> QED BY <1>0, <2>1, <2>2 DEF Parts, NoFalseBlame, Codes
<1> QED BY <1>1, <1>2, <1>3, <1>4, <1>5, <1>6, <1>7, <1>8, <1>10 DEF Parts

LEMMA FinishParts == ASSUME Inv, NEW k \in Calls, Finish(k) PROVE Parts'
<1> USE ConstantFacts
<1> DEFINE c == conn[k]
<1>0. XTypeOK /\ Parts
  BY InvParts DEF XInv
<1>1. /\ mu = k /\ pc[k] = "send" /\ sender[c] \in {"sent", "failed"}
      /\ Peer(k) \in Peers /\ c \in Calls /\ c = conns[Peer(k)] /\ Peer(c) = Peer(k)
      /\ trip[k] \in {"armed", "fired", "ran"}
  BY <1>0 DEF Finish, Parts, LockInv, CallInv, PoolInv, WTypeOK
<1>2. /\ mu' = None /\ pc' = [pc EXCEPT ![k] = "done"] /\ UNCHANGED <<req, ctx, conn>>
      /\ trip' = [trip EXCEPT ![k] = IF @ = "armed" THEN "stopped" ELSE @]
      /\ out' = [out EXCEPT ![k] = IF sender[c] = "sent" THEN "OK" ELSE Failure(k)]
  BY DEF Finish, Return, Unlock
<1>3. \A l \in Calls \ {k} : pc[l] \notin {"conn", "send"}
  BY <1>0, <1>1 DEF Parts, LockInv
<1>4. \A d \in Calls \ {c} : ~InSend(d) /\ sender[d] # "failed"
  BY <1>0, <1>1 DEF Parts, SendInv
<1>5. WTypeOK'
  <2>1. conns' \in [Peers -> Calls \cup {None}]
    BY <1>0 DEF Finish, Parts, WTypeOK
  <2>2. (IF sender[c] = "sent" THEN "OK" ELSE Failure(k)) \in Codes
    BY <1>0 DEF Failure, CtxErr, Codes, Parts, WTypeOK
  <2> QED BY <1>0, <1>2, <2>1, <2>2 DEF Parts, WTypeOK, TripStates
<1>6. LockInv'
  BY <1>0, <1>1, <1>2, <1>3 DEF Parts, WTypeOK, LockInv
<1>9. NoFalseBlame'
  <2>1. sender[c] # "sent" /\ Failure(k) = "Unavailable" => broken[c]
    <3> SUFFICES ASSUME sender[c] = "failed", ~CtxErr(k) PROVE broken[c]
      BY <1>0, <1>1 DEF Failure, CtxErr, Parts, WTypeOK
    <3>1. trip[k] # "ran"
      BY <1>0 DEF Parts, TripInv
    <3>2. ~expired[c]
      BY <1>0, <1>1, <3>1 DEF Parts, ExpiryInv
    <3> QED BY <1>0, <1>1, <3>2 DEF Parts, FailureInv
  <2>2. broken' = broken
    BY DEF Finish, CloseConns, xvars
  <2> QED BY <1>0, <1>2, <2>1, <2>2 DEF Parts, WTypeOK, NoFalseBlame
<1>7. CASE Keep(k)
  <2>1. sender[c] = "sent" /\ trip[k] = "armed" /\ UNCHANGED <<conns, xvars>>
    BY <1>7 DEF Finish, Keep
  <2>2. CallInv'
    BY <1>0, <1>2, <1>3, <2>1 DEF Parts, WTypeOK, CallInv, Peer, xvars
  <2>3. PoolInv' /\ FailureInv'
    BY <1>0, <1>2, <2>1 DEF Parts, PoolInv, FailureInv, Peer, Open, xvars
  <2>4. SendInv'
    BY <1>4, <2>1 DEF SendInv, InSend, xvars
  <2>5. TripInv'
    BY <1>0, <1>2, <1>3, <2>1 DEF Parts, WTypeOK, TripInv, CtxErr, xvars
  <2>6. ExpiryInv'
    BY <1>0, <1>1, <1>2, <2>1 DEF Parts, ExpiryInv, xvars
  <2> QED BY <1>5, <1>6, <1>9, <2>2, <2>3, <2>4, <2>5, <2>6 DEF Parts
<1>8. CASE ~Keep(k)
  <2>1. /\ sender' = [d \in Conns |-> IF d \in {c} THEN "closed" ELSE sender[d]]
        /\ conns' = [conns EXCEPT ![Peer(k)] = None]
        /\ UNCHANGED <<expired, broken>>
    BY <1>8 DEF Finish, CloseConns
  <2>2. CallInv'
    BY <1>0, <1>1, <1>2, <1>3, <2>1 DEF Parts, WTypeOK, CallInv, Peer
  <2>3. PoolInv'
    BY <1>0, <1>1, <1>2, <2>1 DEF Parts, WTypeOK, PoolInv, Peer, Open
  <2>4. SendInv' /\ FailureInv'
    BY <1>4, <2>1 DEF SendInv, FailureInv, InSend
  <2>5. TripInv'
    BY <1>0, <1>1, <1>2, <1>3, <2>1 DEF Parts, WTypeOK, TripInv, CtxErr
  <2>6. ExpiryInv'
    BY <1>0, <1>1, <1>2, <2>1 DEF Parts, ExpiryInv
  <2> QED BY <1>5, <1>6, <1>9, <2>2, <2>3, <2>4, <2>5, <2>6 DEF Parts
<1> QED BY <1>7, <1>8

LEMMA CloseParts == ASSUME Inv, Close PROVE Parts'
<1> USE ConstantFacts
<1>0. XTypeOK /\ Parts
  BY InvParts DEF XInv
<1>1. WTypeOK'
  BY <1>0 DEF Parts, WTypeOK, Close
<1>2. LockInv'
  BY <1>0 DEF Parts, LockInv, Close
<1>3. CallInv'
  BY <1>0 DEF Parts, CallInv, Close, CloseConns, LockInv, Open, Peer
<1>4. PoolInv'
  BY <1>0 DEF Parts, WTypeOK, PoolInv, Close, CloseConns, Open
<1>5. SendInv'
  BY <1>0 DEF Parts, SendInv, Close, CloseConns, InSend
<1>6. TripInv'
  BY <1>0 DEF Parts, WTypeOK, TripInv, Close, CloseConns, CtxErr
<1>7. ExpiryInv'
  BY <1>0 DEF Parts, ExpiryInv, Close, CloseConns
<1>8. FailureInv'
  BY <1>0 DEF Parts, FailureInv, Close, CloseConns
<1>10. NoFalseBlame'
  BY <1>0 DEF Parts, WTypeOK, CallInv, NoFalseBlame, Close, CloseConns, xvars
<1> QED BY <1>1, <1>2, <1>3, <1>4, <1>5, <1>6, <1>7, <1>8, <1>10 DEF Parts

LEMMA TripRunParts == ASSUME Inv, NEW k \in Calls, TripRun(k) PROVE Parts'
<1> USE ConstantFacts
<1>0. XTypeOK /\ Parts
  BY InvParts DEF XInv
<1>9. /\ trip[k] = "fired" /\ trip' = [trip EXCEPT ![k] = "ran"]
      /\ UNCHANGED <<mu, conns, pc, req, ctx, conn, out, sender, broken>>
  BY DEF TripRun, Expire
<1>1. WTypeOK'
  BY <1>0 DEF Parts, WTypeOK, TripRun, TripStates
<1>2. LockInv'
  BY <1>0 DEF Parts, LockInv, TripRun
<1>3. CallInv'
  BY <1>0, <1>9 DEF Parts, WTypeOK, CallInv, Peer, InSend
<1>4. PoolInv'
  BY <1>0 DEF Parts, PoolInv, TripRun, Expire, Open, Peer
<1>5. SendInv'
  BY <1>0 DEF Parts, SendInv, TripRun, Expire, InSend
<1>6. TripInv'
  BY <1>0, <1>9 DEF Parts, WTypeOK, TripInv, CtxErr
<1>7. ExpiryInv'
  BY <1>0 DEF Parts, WTypeOK, ExpiryInv, TripRun, Expire, LockInv, TripInv
<1>8. FailureInv'
  BY <1>0 DEF Parts, XTypeOK, FailureInv, TripRun, Expire
<1>10. NoFalseBlame'
  BY <1>0 DEF Parts, WTypeOK, CallInv, NoFalseBlame, TripRun, Expire, xvars
<1> QED BY <1>1, <1>2, <1>3, <1>4, <1>5, <1>6, <1>7, <1>8, <1>10 DEF Parts

(* What Send, Serve and the network do, as far as the worker sees it: a    *)
(* Send moves on or returns, and returns an error for one of two reasons.  *)
LEMMA XferEffect ==
    ASSUME XTypeOK, NEW c \in Conns, Send(c) \/ Serve(c) \/ Break(c)
    PROVE  /\ expired' = expired
           /\ \A d \in Conns : broken[d] => broken'[d]
           /\ \A d \in Conns \ {c} : sender'[d] = sender[d]
           /\ \/ sender'[c] = sender[c]
              \/ /\ InSend(c) /\ sender'[c] \in {"body", "ack", "sent", "failed"}
                 /\ sender'[c] = "failed" => broken'[c] \/ expired'[c]
<1>1. CASE Send(c)
  BY <1>1 DEF Send, WriteHeader, WriteChunk, ReadAck, SendFails, InSend, XTypeOK
<1>2. CASE Serve(c)
  BY <1>2 DEF Serve, ServeHeader, ServeBody, ServeReply, ServeEnd, ServeFails
<1>3. CASE Break(c)
  BY <1>3 DEF Break, XTypeOK
<1> QED BY <1>1, <1>2, <1>3

LEMMA XferParts ==
    ASSUME Inv, NEW c \in Conns, Send(c) \/ Serve(c) \/ Break(c), UNCHANGED wvars
    PROVE  Parts'
<1> USE ConstantFacts
<1>0. XTypeOK /\ Parts
  BY InvParts DEF XInv
<1>1. /\ expired' = expired
      /\ \A d \in Conns : broken[d] => broken'[d]
      /\ \A d \in Conns \ {c} : sender'[d] = sender[d]
      /\ \/ sender'[c] = sender[c]
         \/ /\ InSend(c) /\ sender'[c] \in {"body", "ack", "sent", "failed"}
            /\ sender'[c] = "failed" => broken'[c] \/ expired'[c]
  BY <1>0, XferEffect
<1>2. WTypeOK' /\ LockInv'
  BY <1>0 DEF Parts, WTypeOK, LockInv, wvars
<1>3. CallInv'
  BY <1>0, <1>1 DEF Parts, WTypeOK, CallInv, InSend, Peer, wvars
<1>4. PoolInv'
  BY <1>0, <1>1 DEF Parts, WTypeOK, PoolInv, InSend, Open, Peer, wvars
<1>5. SendInv'
  BY <1>0, <1>1 DEF Parts, SendInv, InSend, wvars
<1>6. TripInv'
  BY <1>0, <1>1 DEF Parts, WTypeOK, TripInv, InSend, CtxErr, wvars
<1>7. ExpiryInv'
  BY <1>0, <1>1 DEF Parts, WTypeOK, ExpiryInv, InSend, wvars
<1>8. FailureInv'
  BY <1>0, <1>1 DEF Parts, FailureInv
<1>9. NoFalseBlame'
  BY <1>0, <1>1 DEF Parts, WTypeOK, NoFalseBlame, wvars
<1> QED BY <1>2, <1>3, <1>4, <1>5, <1>6, <1>7, <1>8, <1>9 DEF Parts

-----------------------------------------------------------------------------
LEMMA StepInv == Inv /\ [Next]_vars => Inv'
<1> SUFFICES ASSUME Inv, [Next]_vars PROVE Inv'
  OBVIOUS
<1>1. XInv'
  BY XInvStep
<1>2. ASSUME NEW k \in Calls, Step(k) PROVE Parts'
  BY <1>2, LockParts, LockTooLateParts, DialParts, DialFailsParts, BeginParts, FinishParts
     DEF Step
<1>3. ASSUME UNCHANGED vars PROVE Parts'
  <2>1. Parts
    BY InvParts
  <2>2. WTypeOK' /\ LockInv' /\ TripInv'
    BY <1>3, <2>1 DEF vars, xvars, Parts, WTypeOK, LockInv, TripInv, CtxErr
  <2>3. CallInv' /\ PoolInv' /\ SendInv'
    BY <1>3, <2>1 DEF vars, xvars, Parts, CallInv, PoolInv, SendInv, Peer, Open, InSend
  <2>4. ExpiryInv' /\ FailureInv' /\ NoFalseBlame'
    BY <1>3, <2>1 DEF vars, xvars, Parts, ExpiryInv, FailureInv, NoFalseBlame
  <2> QED BY <2>2, <2>3, <2>4 DEF Parts
<1>4. Parts'
  <2>1. ASSUME NEW k \in Calls, \/ \E r \in Requests : Transfer(k, r)
                                \/ Step(k) \/ CtxEnd(k) \/ TripFire(k) \/ TripRun(k)
        PROVE Parts'
    BY <2>1, <1>2, TransferParts, CtxEndParts, TripFireParts, TripRunParts
  <2>2. ASSUME NEW c \in Conns, (Send(c) \/ Serve(c) \/ Break(c)) /\ UNCHANGED wvars
        PROVE Parts'
    BY <2>2, XferParts
  <2> QED BY <1>3, <2>1, <2>2, CloseParts DEF Next
<1> QED
  BY <1>1, <1>4 DEF Inv, WInv, Parts, TypeOK, WTypeOK, XInv

LEMMA Invariance == Spec => []Inv
BY InitInv, StepInv, PTL DEF Spec

(* Every variable keeps its type, in every state of every worker.          *)
THEOREM TypeCorrect == Spec => []TypeOK
<1>1. Inv => TypeOK
  BY DEF Inv, WInv
<1> QED BY <1>1, Invariance, PTL

(* Worker.mu does what its comment says: two calls never send at once.     *)
THEOREM MutualExclusion == Spec => []OneSendAtATime
<1>1. Inv => OneSendAtATime
  BY DEF Inv, WInv, LockInv, OneSendAtATime
<1> QED BY <1>1, Invariance, PTL

(* However tripwires, failures and calls interleave, the connection the    *)
(* next call finds in the pool is one it can use.                          *)
THEOREM PoolStaysUsable == Spec => []PoolIsUsable
<1>1. Inv => PoolIsUsable
  <2> SUFFICES ASSUME Inv, mu = None, NEW p \in Peers, conns[p] # None
               PROVE  /\ Usable(conns[p]) /\ ~expired[conns[p]]
                      /\ \A k \in Calls : conn[k] = conns[p] => trip[k] \notin {"armed", "fired"}
                      /\ wire[conns[p]] = <<>> /\ replies[conns[p]] = 0
    BY DEF PoolIsUsable, Usable
  <2> DEFINE c == conns[p]
  <2> USE ConstantFacts
  <2>1. c \in Calls /\ Open(c) /\ mu \notin Calls
    BY DEF Inv, WInv, TypeOK, PoolInv
  <2>2. ~InSend(c) /\ sender[c] # "failed"
    BY <2>1 DEF Inv, WInv, SendInv
  <2>3. Usable(c)
    BY <2>1, <2>2 DEF Usable, Open, InSend, Inv, XInv, XTypeOK, SenderStates
  <2>4. ~expired[c]
    BY <2>1 DEF Open, Inv, WInv, ExpiryInv
  <2>5. \A k \in Calls : pc[k] # "send"
    BY <2>1 DEF Inv, WInv, LockInv
  <2>6. \A k \in Calls : conn[k] = c => trip[k] \notin {"armed", "fired"}
    BY <2>1, <2>5 DEF Open, Inv, WInv, TripInv
  <2>7. wire[c] = <<>> /\ replies[c] = 0
    BY <2>1, <2>3 DEF Inv, XInv, Usable, Relation, Between, HeaderTorn, HeaderUnread,
       BodyUnread, CutOff, AllRead, MidSend
  <2> QED BY <2>3, <2>4, <2>6, <2>7
<1> QED BY <1>1, Invariance, PTL

(* The network is blamed only for what the network did.                    *)
THEOREM BlameIsTrue == Spec => []NoFalseBlame
<1>1. Inv => NoFalseBlame
  BY DEF Inv, WInv
<1> QED BY <1>1, Invariance, PTL

(* No connection is leaked and no peer has two.                            *)
THEOREM PoolHoldsEveryOpenConnection == Spec => []NoLeak
<1>1. Inv => NoLeak
  BY ConstantFacts DEF Inv, WInv, PoolInv, NoLeak
<1> QED BY <1>1, Invariance, PTL

(* A warm connection is closed only when its send failed, its call's       *)
(* context ended, or the worker closes.                                    *)
THEOREM WarmConnectionsAreKept == Spec => StaysWarm
<1> DEFINE Warm(c) == Open(c) /\ sender'[c] = "closed" =>
                \/ mu = None
                \/ sender[c] = "failed"
                \/ ctx[mu] # "live" /\ conn[mu] = c
<1>1. ASSUME Inv, Next, NEW c \in Conns PROVE Warm(c)
  <2> USE ConstantFacts
  <2> SUFFICES ASSUME sender'[c] = "closed", sender[c] # "closed" PROVE Warm(c)
    BY DEF Open
  <2>0. /\ XTypeOK /\ LockInv /\ CallInv /\ TripInv
    BY <1>1 DEF Inv, XInv, WInv
  <2>1. ASSUME NEW k \in Calls, Finish(k) PROVE Warm(c)
    <3>1. mu = k /\ ~Keep(k) /\ c = conn[k]
      BY <2>0, <2>1 DEF Finish, CloseConns, xvars, LockInv
    <3>2. sender[c] = "failed" \/ trip[k] \in {"fired", "ran"}
      BY <2>0, <2>1, <3>1 DEF Finish, Keep, CallInv
    <3>3. trip[k] \in {"fired", "ran"} => ctx[k] # "live"
      BY <2>0 DEF TripInv, CtxErr
    <3> QED BY <3>1, <3>2, <3>3
  <2>2. ASSUME Close PROVE Warm(c)
    BY <2>2 DEF Close
  <2>3. ASSUME NEW d \in Conns, Send(d) \/ Serve(d) \/ Break(d) PROVE FALSE
    BY <2>0, <2>3, XferEffect
  <2>4. ASSUME NEW k \in Calls, Dial(k) \/ Begin(k) \/ TripRun(k) PROVE FALSE
    BY <2>0, <2>4 DEF Dial, Connect, Begin, BeginSend, TripRun, Expire, XTypeOK
  <2>5. ASSUME NEW k \in Calls, \/ \E r \in Requests : Transfer(k, r)
                                \/ Lock(k) \/ LockTooLate(k) \/ DialFails(k)
                                \/ CtxEnd(k) \/ TripFire(k)
        PROVE FALSE
    BY <2>5 DEF Transfer, Lock, LockTooLate, DialFails, CtxEnd, TripFire, xvars
  <2> QED BY <1>1, <2>1, <2>2, <2>3, <2>4, <2>5 DEF Next, Step
<1>2. Inv /\ [Next]_vars => [\A c \in Conns : Warm(c)]_vars
  BY <1>1
<1> QED BY <1>2, Invariance, PTL DEF Spec, StaysWarm

(* Once given up in the queue, a call stays where it is or has returned,   *)
(* and has touched nothing.                                                *)
Idle(k) ==
    /\ CtxErr(k) /\ sender[k] = "none" /\ conn[k] = None
    /\ \/ pc[k] = "lock" /\ out[k] = None
       \/ pc[k] = "done" /\ out[k] = ctx[k]

(* A connection that was never dialled is in no pool and in no send.       *)
LEMMA UndialledIsUnused ==
    ASSUME Inv, NEW k \in Calls, sender[k] = "none"
    PROVE  /\ \A p \in Peers : conns[p] # k
           /\ \A l \in Calls : pc[l] = "send" => conn[l] # k
<1> USE ConstantFacts
<1>1. PoolInv /\ CallInv
  BY DEF Inv, WInv
<1>2. \A p \in Peers : conns[p] # k
  BY <1>1 DEF PoolInv, Open
<1>3. \A l \in Calls : pc[l] = "send" => conn[l] # k
  BY <1>1 DEF CallInv, InSend
<1> QED BY <1>2, <1>3

LEMMA IdleStays ==
    ASSUME Inv, NEW k \in Calls, Idle(k), [Next]_vars PROVE Idle(k)'
<1> USE ConstantFacts
<1>0. /\ XTypeOK /\ WTypeOK /\ CallInv
  BY InvParts DEF Inv, XInv, Parts
<1>1. /\ CtxErr(k) /\ sender[k] = "none" /\ conn[k] = None /\ pc[k] \in {"lock", "done"}
      /\ \A p \in Peers : conns[p] # k
      /\ \A l \in Calls : pc[l] = "send" => conn[l] # k
  BY UndialledIsUnused DEF Idle
<1>2. ASSUME NEW l \in Calls, NEW r \in Requests, Transfer(l, r) PROVE Idle(k)'
  BY <1>0, <1>1, <1>2 DEF Transfer, Return, WTypeOK, Idle, CtxErr, xvars
<1>3. ASSUME NEW l \in Calls, Lock(l) PROVE Idle(k)'
  BY <1>0, <1>1, <1>3 DEF Lock, WTypeOK, Idle, CtxErr, xvars
<1>4. ASSUME NEW l \in Calls, LockTooLate(l) PROVE Idle(k)'
  BY <1>0, <1>1, <1>4 DEF LockTooLate, Return, WTypeOK, Idle, CtxErr, xvars
<1>5. ASSUME NEW l \in Calls, Dial(l) PROVE Idle(k)'
  BY <1>0, <1>1, <1>5 DEF Dial, Connect, WTypeOK, XTypeOK, Idle, CtxErr
<1>6. ASSUME NEW l \in Calls, DialFails(l) PROVE Idle(k)'
  BY <1>0, <1>1, <1>6 DEF DialFails, Return, WTypeOK, Idle, CtxErr, xvars
<1>7. ASSUME NEW l \in Calls, Begin(l) PROVE Idle(k)'
  <2>1. conns[Peer(l)] # k /\ l # k
    BY <1>0, <1>1, <1>7 DEF Begin, CallInv
  <2> QED BY <1>0, <1>1, <1>7, <2>1 DEF Begin, BeginSend, WTypeOK, XTypeOK, Idle, CtxErr
<1>8. ASSUME NEW l \in Calls, Finish(l) PROVE Idle(k)'
  <2>1. conn[l] # k /\ l # k
    BY <1>1, <1>8 DEF Finish
  <2>2. sender'[k] = sender[k]
    BY <1>0, <1>8, <2>1 DEF Finish, CloseConns, XTypeOK, xvars
  <2> QED BY <1>0, <1>1, <1>8, <2>1, <2>2 DEF Finish, Return, WTypeOK, Idle, CtxErr
<1>9. ASSUME NEW l \in Calls, CtxEnd(l) PROVE Idle(k)'
  BY <1>0, <1>1, <1>9 DEF CtxEnd, WTypeOK, Idle, CtxErr, xvars
<1>10. ASSUME NEW l \in Calls, TripFire(l) \/ TripRun(l) PROVE Idle(k)'
  BY <1>0, <1>1, <1>10 DEF TripFire, TripRun, Expire, Idle, CtxErr, xvars
<1>11. ASSUME Close PROVE Idle(k)'
  <2>1. sender'[k] = sender[k]
    BY <1>0, <1>1, <1>11 DEF Close, CloseConns, XTypeOK
  <2> QED BY <1>1, <1>11, <2>1 DEF Close, Idle, CtxErr
<1>12. ASSUME NEW c \in Conns, Send(c) \/ Serve(c) \/ Break(c), UNCHANGED wvars
       PROVE Idle(k)'
  <2>1. sender'[k] = sender[k]
    BY <1>0, <1>1, <1>12, XferEffect DEF InSend
  <2> QED BY <1>1, <1>12, <2>1 DEF wvars, Idle, CtxErr
<1>13. CASE UNCHANGED vars
  BY <1>1, <1>13 DEF vars, xvars, Idle, CtxErr
<1> QED BY <1>2, <1>3, <1>4, <1>5, <1>6, <1>7, <1>8, <1>9, <1>10, <1>11, <1>12, <1>13
        DEF Next, Step

(* A call given up while it queued for the lock never dials, never sends,  *)
(* and returns how its context ended.                                      *)
THEOREM GivenUpCallsHaveNoEffect == Spec => GivenUpNeverStarts
<1> SUFFICES ASSUME NEW k \in Calls
             PROVE  Spec => [](GivenUp(k) => []WithoutEffect(k))
  BY DEF GivenUpNeverStarts
<1>1. Inv /\ GivenUp(k) => Idle(k)
  BY DEF Inv, WInv, CallInv, GivenUp, Idle
<1>2. Inv /\ Idle(k) /\ [Next]_vars => Idle(k)'
  BY IdleStays
<1>3. Idle(k) => WithoutEffect(k)
  BY DEF Idle, WithoutEffect
<1> QED BY <1>1, <1>2, <1>3, Invariance, PTL DEF Spec

(* The worker keeps to what Send asks of its caller: it is a user of Xfer, *)
(* and what Xfer promises holds on each of its connections.                *)
THEOREM WorkerUsesXfer == Spec => XSpec
<1>1. Init => XInit
  BY DEF Init
<1> QED BY <1>1, StepsOfXfer, Invariance, PTL DEF Spec, XSpec

(* No bytes of two transfers are mixed, whoever shares the connection.     *)
THEOREM BytesNeverMix == Spec => []InOrder
BY WorkerUsesXfer, ReceivedInOrder, PTL

-----------------------------------------------------------------------------
(* Transfers: OK means delivered. *)

(* g tells which call announced each transfer on c: one call each, of that *)
(* length.  A call that returned OK is among those whose transfer arrived; *)
(* the one that is sending is not there before its header, and last after. *)
Writes(c) == sender[c] \in {"body", "ack", "sent"}

Ledger(c, g) ==
    /\ g \in [1..Len(announced[c]) -> Calls]
    /\ \A i, j \in DOMAIN g : g[i] = g[j] => i = j
    /\ \A j \in DOMAIN g : conn[g[j]] = c /\ req[g[j]].bytes = announced[c][j]
    /\ \A k \in Calls : conn[k] = c =>
          /\ out[k] = "OK" => \E j \in 1..Len(received[c]) : g[j] = k
          /\ pc[k] = "send" /\ sender[c] = "header" =>
                togo[c] = req[k].bytes /\ \A j \in DOMAIN g : g[j] # k
          /\ pc[k] = "send" /\ Writes(c) =>
                Len(announced[c]) > 0 /\ g[Len(announced[c])] = k

Begun == {k \in Calls : conn[k] # None}

Delivery ==
    /\ \A c \in Conns : \E g : Ledger(c, g)
    /\ \A k \in Calls : out[k] = "OK" => conn[k] # None
    /\ IsFiniteSet(Begun)

LEMMA InitDelivery == Init => Delivery
<1> SUFFICES ASSUME Init PROVE Delivery
  OBVIOUS
<1> USE ConstantFacts
<1>1. ASSUME NEW c \in Conns PROVE Ledger(c, <<>>)
  BY DEF Init, XInit, Ledger
<1>2. Begun = {}
  BY DEF Init, Begun
<1>3. \A k \in Calls : out[k] # "OK"
  BY DEF Init, Codes
<1> QED BY <1>1, <1>2, <1>3, FS_EmptySet DEF Delivery

-----------------------------------------------------------------------------
(* What keeps a connection's ledger as it is.                              *)
Kept(c) ==
    /\ announced'[c] = announced[c] /\ 1..Len(received[c]) \subseteq 1..Len(received'[c])
    /\ \A k \in Calls : conn[k] = c => conn'[k] = c /\ req'[k] = req[k]
    /\ \A k \in Calls : conn'[k] = c => conn[k] = c /\ (out'[k] = "OK" => out[k] = "OK")
    /\ \A k \in Calls : conn'[k] = c /\ pc'[k] = "send" =>
          /\ pc[k] = "send"
          /\ sender'[c] = "header" => sender[c] = "header" /\ togo'[c] = togo[c]
          /\ Writes(c)' => Writes(c)

LEMMA LedgerKept == ASSUME NEW c \in Conns, NEW g, Ledger(c, g), Kept(c) PROVE Ledger(c, g)'
<1> USE DEF Kept, Ledger
<1>1. /\ g \in [1..Len(announced'[c]) -> Calls]
      /\ \A i, j \in DOMAIN g : g[i] = g[j] => i = j
      /\ \A j \in DOMAIN g : conn'[g[j]] = c /\ req'[g[j]].bytes = announced'[c][j]
  OBVIOUS
<1>2. ASSUME NEW k \in Calls, conn'[k] = c
      PROVE  /\ out'[k] = "OK" => \E j \in 1..Len(received'[c]) : g[j] = k
             /\ pc'[k] = "send" /\ sender'[c] = "header" =>
                   togo'[c] = req'[k].bytes /\ \A j \in DOMAIN g : g[j] # k
             /\ pc'[k] = "send" /\ Writes(c)' =>
                   Len(announced'[c]) > 0 /\ g[Len(announced'[c])] = k
  BY <1>2
<1> QED BY <1>1, <1>2

LEMMA DeliveryKept ==
    ASSUME Delivery, \A c \in Conns : Kept(c), conn' = conn,
           \A k \in Calls : out'[k] = "OK" => out[k] = "OK"
    PROVE  Delivery'
<1>1. ASSUME NEW c \in Conns PROVE \E g : Ledger(c, g)'
  BY LedgerKept DEF Delivery
<1> QED BY <1>1 DEF Delivery, Begun

(* On a connection that nobody sends on, before or after.                  *)
LEMMA Unused ==
    ASSUME Inv, NEW c \in Conns, \A k \in Calls : conn[k] = c => pc[k] # "send"
    PROVE  ~InSend(c) /\ sender[c] # "failed"
<1> QED BY ConstantFacts DEF Inv, WInv, SendInv

LEMMA TransferDelivery ==
    ASSUME Inv, Delivery, NEW k \in Calls, NEW r \in Requests, Transfer(k, r) PROVE Delivery'
<1> USE ConstantFacts
<1>1. /\ pc[k] = "new" /\ UNCHANGED <<conn, xvars>> /\ conn[k] = None
      /\ pc'[k] # "send" /\ \A l \in Calls \ {k} : pc'[l] = pc[l] /\ req'[l] = req[l]
      /\ \A l \in Calls : out'[l] = "OK" => out[l] = "OK"
  BY DEF Inv, WInv, TypeOK, CallInv, Transfer, Return, Refusal
<1>2. \A c \in Conns : Kept(c)
  BY <1>1 DEF Kept, xvars, Writes
<1> QED BY <1>1, <1>2, DeliveryKept

LEMMA StepsBeforeSend ==
    ASSUME Inv, Delivery, NEW k \in Calls, Lock(k) \/ LockTooLate(k) \/ DialFails(k)
    PROVE  Delivery'
<1> USE ConstantFacts
<1>1. /\ UNCHANGED <<conn, req, xvars>> /\ conn[k] = None
      /\ pc'[k] # "send" /\ \A l \in Calls \ {k} : pc'[l] = pc[l]
      /\ \A l \in Calls : out'[l] = "OK" => out[l] = "OK"
  BY DEF Inv, WInv, TypeOK, CallInv, Lock, LockTooLate, DialFails, Failure, CtxErr, Return
<1>2. \A c \in Conns : Kept(c)
  BY <1>1 DEF Kept, xvars, Writes
<1> QED BY <1>1, <1>2, DeliveryKept

LEMMA DialDelivery == ASSUME Inv, Delivery, NEW k \in Calls, Dial(k) PROVE Delivery'
<1> USE ConstantFacts
<1>1. /\ UNCHANGED <<conn, req, out, pc, announced, received, togo>>
      /\ sender' = [sender EXCEPT ![k] = "ready"]
  BY DEF Dial, Connect
<1>2. sender'[k] = "ready" /\ \A c \in Conns \ {k} : sender'[c] = sender[c]
  BY <1>1 DEF Inv, XInv, XTypeOK
<1>3. \A c \in Conns : Kept(c)
  BY <1>1, <1>2 DEF Kept, Writes
<1> QED BY <1>1, <1>3, DeliveryKept

LEMMA TimerDelivery ==
    ASSUME Inv, Delivery, NEW k \in Calls, CtxEnd(k) \/ TripFire(k) \/ TripRun(k)
    PROVE  Delivery'
<1>1. UNCHANGED <<conn, req, out, pc, announced, received, togo, sender>>
  BY DEF CtxEnd, TripFire, TripRun, Expire, xvars
<1>2. \A c \in Conns : Kept(c)
  BY <1>1 DEF Kept, Writes
<1> QED BY <1>1, <1>2, DeliveryKept

(* A send begins: its call is not in the ledger yet.                       *)
LEMMA BeginDelivery == ASSUME Inv, Delivery, NEW k \in Calls, Begin(k) PROVE Delivery'
<1> USE ConstantFacts
<1> DEFINE d == conns[Peer(k)]
<1>1. /\ mu = k /\ pc[k] = "conn" /\ d \in Calls /\ conn[k] = None /\ out[k] = None
  BY DEF Begin, Inv, WInv, LockInv, CallInv, TypeOK
<1>2. /\ conn' = [conn EXCEPT ![k] = d] /\ pc' = [pc EXCEPT ![k] = "send"]
      /\ sender' = [sender EXCEPT ![d] = "header"] /\ togo' = [togo EXCEPT ![d] = req[k].bytes]
      /\ UNCHANGED <<req, out, announced, received>>
  BY DEF Begin, BeginSend
<1>3. \A l \in Calls \ {k} : pc[l] # "send"
  BY <1>1 DEF Inv, WInv, LockInv
<1>4. /\ conn'[k] = d /\ \A l \in Calls \ {k} : conn'[l] = conn[l]
      /\ \A l \in Calls \ {k} : pc'[l] # "send"
      /\ sender'[d] = "header" /\ togo'[d] = req[k].bytes
  BY <1>1, <1>2, <1>3 DEF Inv, XInv, XTypeOK, WInv, TypeOK
<1> HIDE DEF d
<1>5. ASSUME NEW c \in Conns PROVE \E g : Ledger(c, g)'
  <2>1. PICK g : Ledger(c, g)
    BY DEF Delivery
  <2>2. \A j \in DOMAIN g : g[j] # k /\ conn[g[j]] = c /\ g[j] \in Calls
    BY <1>1, <2>1 DEF Ledger
  <2>3. CASE c = d
    <3>1. /\ g \in [1..Len(announced'[c]) -> Calls]
          /\ \A i, j \in DOMAIN g : g[i] = g[j] => i = j
          /\ \A j \in DOMAIN g : conn'[g[j]] = c /\ req'[g[j]].bytes = announced'[c][j]
      BY <1>2, <1>4, <2>1, <2>2 DEF Ledger
    <3>2. ~Writes(c)'
      BY <1>4, <2>3 DEF Writes
    <3>3. ASSUME NEW l \in Calls, conn'[l] = c
          PROVE  /\ out'[l] = "OK" => \E j \in 1..Len(received'[c]) : g[j] = l
                 /\ pc'[l] = "send" /\ sender'[c] = "header" =>
                       togo'[c] = req'[l].bytes /\ \A j \in DOMAIN g : g[j] # l
      <4>1. CASE l = k
        BY <1>1, <1>2, <1>4, <2>2, <2>3, <4>1 DEF Codes
      <4>2. CASE l # k
        BY <1>2, <1>4, <2>1, <3>3, <4>2 DEF Ledger
      <4> QED BY <4>1, <4>2
    <3> QED BY <3>1, <3>2, <3>3 DEF Ledger
  <2>4. CASE c # d
    <3>1. Kept(c)
      BY <1>1, <1>2, <1>4, <2>4 DEF Kept
    <3> QED BY <2>1, <3>1, LedgerKept
  <2> QED BY <2>3, <2>4
<1>6. Begun' = Begun \cup {k} /\ IsFiniteSet(Begun)
  BY <1>1, <1>4 DEF Begun, Delivery
<1>7. \A l \in Calls : out'[l] = "OK" => conn'[l] # None
  BY <1>1, <1>2, <1>4 DEF Delivery
<1> QED BY <1>5, <1>6, <1>7, FS_AddElement DEF Delivery

(* A send that returned nil leaves its transfer received, the last on its  *)
(* connection; the call that made it is the last in the ledger.            *)
LEMMA SentIsReceived ==
    ASSUME Inv, NEW c \in Conns, sender[c] = "sent" PROVE received[c] = announced[c]
<1> QED BY DEF Inv, XInv, Relation, Between, HeaderTorn, HeaderUnread, BodyUnread, CutOff,
               AllRead, MidSend

LEMMA FinishDelivery == ASSUME Inv, Delivery, NEW k \in Calls, Finish(k) PROVE Delivery'
<1> USE ConstantFacts
<1> DEFINE d == conn[k]
<1>1. /\ mu = k /\ pc[k] = "send" /\ sender[d] \in {"sent", "failed"} /\ d \in Calls
  BY DEF Finish, Inv, WInv, LockInv, CallInv, TypeOK
<1>2. /\ pc' = [pc EXCEPT ![k] = "done"]
      /\ out' = [out EXCEPT ![k] = IF sender[d] = "sent" THEN "OK" ELSE Failure(k)]
      /\ UNCHANGED <<req, conn, announced, received, togo>>
  BY DEF Finish, Return, CloseConns, xvars
<1>3. Failure(k) # "OK"
  BY DEF Failure, Inv, WInv, TypeOK, CtxErr
<1>4. \A l \in Calls : pc'[l] # "send"
  BY <1>1, <1>2 DEF Inv, WInv, LockInv, TypeOK
<1>5. \A l \in Calls \ {k} : out'[l] = out[l]
  BY <1>2 DEF Inv, WInv, TypeOK
<1> HIDE DEF d
<1>6. ASSUME NEW c \in Conns PROVE \E g : Ledger(c, g)'
  <2>1. PICK g : Ledger(c, g)
    BY DEF Delivery
  <2>2. ASSUME conn[k] = c, out'[k] = "OK" PROVE \E j \in 1..Len(received[c]) : g[j] = k
    <3>1. d = c /\ sender[c] = "sent"
      BY <1>1, <1>2, <1>3, <2>2 DEF d, Inv, WInv, TypeOK
    <3>2. received[c] = announced[c] /\ Len(announced[c]) > 0 /\ g[Len(announced[c])] = k
      BY <1>1, <2>1, <2>2, <3>1, SentIsReceived DEF Ledger, Writes
    <3>3. Len(announced[c]) \in Nat
      BY LenProperties DEF Inv, XInv, XTypeOK
    <3> QED BY <3>2, <3>3
  <2> QED BY <1>2, <1>4, <1>5, <2>1, <2>2 DEF Ledger
<1>7. \A l \in Calls : out'[l] = "OK" => conn'[l] # None
  BY <1>1, <1>2, <1>5 DEF Delivery, d
<1>8. IsFiniteSet(Begun')
  BY <1>2 DEF Delivery, Begun
<1> QED BY <1>6, <1>7, <1>8 DEF Delivery

LEMMA CloseDelivery == ASSUME Inv, Delivery, Close PROVE Delivery'
<1> USE ConstantFacts
<1>1. /\ UNCHANGED <<conn, req, out, pc, announced, received, togo>> /\ mu = None
  BY DEF Close, CloseConns
<1>2. \A k \in Calls : pc[k] # "send"
  BY <1>1 DEF Inv, WInv, LockInv
<1>3. \A c \in Conns : Kept(c)
  BY <1>1, <1>2 DEF Kept
<1> QED BY <1>1, <1>3, DeliveryKept

-----------------------------------------------------------------------------
(* The header of a transfer puts its call last in the ledger.              *)
LEMMA HeaderDelivery ==
    ASSUME Inv, Delivery, NEW d \in Conns, WriteHeader(d), UNCHANGED wvars PROVE Delivery'
<1> USE ConstantFacts
<1>1. /\ sender[d] = "header" /\ announced' = [announced EXCEPT ![d] = Append(@, togo[d])]
      /\ sender' = [sender EXCEPT ![d] = "body"]
      /\ UNCHANGED <<received, togo, conn, req, out, pc>>
  BY DEF WriteHeader, wvars
<1>2. mu \in Calls /\ pc[mu] = "send" /\ conn[mu] = d
  BY <1>1 DEF Inv, WInv, SendInv, InSend
<1>3. \A k \in Calls : pc[k] = "send" => k = mu
  BY DEF Inv, WInv, LockInv
<1>4. PICK n \in Nat : n = Len(announced[d]) /\ announced[d] \in Seq(Sizes) /\ togo[d] \in Sizes
  BY <1>1, LenProperties DEF Inv, XInv, XTypeOK, SenderOK
<1>5. /\ Len(announced'[d]) = n + 1 /\ announced'[d][n + 1] = togo[d]
      /\ \A j \in 1..n : announced'[d][j] = announced[d][j]
  BY <1>1, <1>4, AppendFacts DEF Inv, XInv, XTypeOK
<1>6. /\ sender'[d] = "body"
      /\ \A c \in Conns \ {d} : announced'[c] = announced[c] /\ sender'[c] = sender[c]
  BY <1>1 DEF Inv, XInv, XTypeOK
<1>7. PICK m \in Calls : m = mu
  BY <1>2
<1>8. ASSUME NEW c \in Conns PROVE \E g : Ledger(c, g)'
  <2>1. PICK g : Ledger(c, g)
    BY DEF Delivery
  <2>2. CASE c = d
    <3> DEFINE h == [j \in 1..n + 1 |-> IF j <= n THEN g[j] ELSE m]
    <3>1. /\ g \in [1..n -> Calls] /\ \A j \in 1..n : g[j] # m
          /\ togo[d] = req[m].bytes
      BY <1>1, <1>2, <1>4, <1>7, <2>1, <2>2 DEF Ledger
    <3>2. /\ h \in [1..n + 1 -> Calls] /\ DOMAIN h = 1..n + 1
          /\ h[n + 1] = m /\ \A j \in 1..n : h[j] = g[j]
      BY <3>1
    <3> HIDE DEF h
    <3>3. \A i, j \in 1..n + 1 : h[i] = h[j] => i = j
      BY <2>1, <3>1, <3>2 DEF Ledger
    <3>4. \A j \in 1..n + 1 : conn'[h[j]] = c /\ req'[h[j]].bytes = announced'[c][j]
      BY <1>1, <1>2, <1>5, <1>7, <2>1, <2>2, <3>1, <3>2 DEF Ledger
    <3>5. ASSUME NEW k \in Calls, conn'[k] = c
          PROVE  /\ out'[k] = "OK" => \E j \in 1..Len(received'[c]) : h[j] = k
                 /\ pc'[k] = "send" => Len(announced'[c]) > 0 /\ h[Len(announced'[c])] = k
      <4>1. ASSUME out'[k] = "OK" PROVE \E j \in 1..Len(received'[c]) : h[j] = k
        <5>1. PICK j \in 1..Len(received[c]) : g[j] = k
          BY <1>1, <2>1, <3>5, <4>1 DEF Ledger
        <5>2. Len(received[c]) <= n /\ Len(received[c]) \in Nat
          <6>1. Len(received[d]) \in {n, n - 1}
            BY <1>4, XInvInOrder DEF Inv, InOrder
          <6>2. Len(received[d]) \in Nat
            BY LenProperties DEF Inv, XInv, XTypeOK
          <6> QED BY <2>2, <6>1, <6>2
        <5> QED BY <1>1, <3>2, <5>1, <5>2
      <4>2. pc'[k] = "send" => Len(announced'[c]) > 0 /\ h[Len(announced'[c])] = k
        BY <1>1, <1>3, <1>5, <1>7, <2>2, <3>2
      <4> QED BY <4>1, <4>2
    <3> QED BY <1>5, <1>6, <2>2, <3>2, <3>3, <3>4, <3>5 DEF Ledger
  <2>3. CASE c # d
    <3>1. Kept(c)
      BY <1>1, <1>6, <2>3 DEF Kept, Writes
    <3> QED BY <2>1, <3>1, LedgerKept
  <2> QED BY <2>2, <2>3
<1> QED BY <1>1, <1>8 DEF Delivery, Begun

LEMMA XferDelivery ==
    ASSUME Inv, Delivery, NEW d \in Conns, Send(d) \/ Serve(d) \/ Break(d), UNCHANGED wvars
    PROVE  Delivery'
<1> USE ConstantFacts
<1>1. UNCHANGED <<conn, req, out, pc>>
  BY DEF wvars
<1>2. CASE WriteHeader(d)
  BY <1>2, HeaderDelivery
<1>3. CASE WriteChunk(d) \/ ReadAck(d) \/ SendFails(d)
  <2>1. /\ UNCHANGED <<announced, received>>
        /\ sender'[d] # "header" /\ (Writes(d)' => Writes(d))
        /\ \A c \in Conns \ {d} : sender'[c] = sender[c] /\ togo'[c] = togo[c]
    BY <1>3 DEF WriteChunk, ReadAck, SendFails, Writes, Inv, XInv, XTypeOK
  <2>2. \A c \in Conns : Kept(c)
    BY <1>1, <2>1 DEF Kept, Writes
  <2> QED BY <1>1, <2>2, DeliveryKept
<1>4. CASE Serve(d) \/ Break(d)
  <2>1. UNCHANGED <<announced, sender, togo>>
    BY <1>4 DEF Serve, ServeHeader, ServeBody, ServeReply, ServeEnd, ServeFails, Break
  <2>2. \A c \in Conns : 1..Len(received[c]) \subseteq 1..Len(received'[c])
    <3>1. \/ received' = received
          \/ \E e \in Sizes \cup {0} : received' = [received EXCEPT ![d] = Append(@, e)]
      BY <1>4 DEF Serve, ServeHeader, ServeBody, ServeReply, ServeEnd, ServeFails, Break,
                  Inv, XInv, XTypeOK
    <3>2. ASSUME NEW e \in Sizes \cup {0}, received' = [received EXCEPT ![d] = Append(@, e)],
                 NEW c \in Conns
          PROVE  1..Len(received[c]) \subseteq 1..Len(received'[c])
      <4>1. received \in [Conns -> Seq(Sizes \cup {0})]
        BY DEF Inv, XInv, XTypeOK
      <4>2. Len(received[d]) \in Nat /\ Len(Append(received[d], e)) = Len(received[d]) + 1
        BY <4>1, AppendFacts, LenProperties
      <4> QED BY <3>2, <4>1, <4>2
    <3> QED BY <3>1, <3>2
  <2>3. \A c \in Conns : Kept(c)
    BY <1>1, <2>1, <2>2 DEF Kept, Writes
  <2> QED BY <1>1, <2>3, DeliveryKept
<1> QED BY <1>2, <1>3, <1>4 DEF Send

LEMMA DeliveryStep == Inv /\ Delivery /\ [Next]_vars => Delivery'
<1> SUFFICES ASSUME Inv, Delivery, [Next]_vars PROVE Delivery'
  OBVIOUS
<1>1. ASSUME NEW k \in Calls, \/ \E r \in Requests : Transfer(k, r)
                              \/ Step(k) \/ CtxEnd(k) \/ TripFire(k) \/ TripRun(k)
      PROVE  Delivery'
  BY <1>1, TransferDelivery, StepsBeforeSend, DialDelivery, BeginDelivery, FinishDelivery,
     TimerDelivery DEF Step
<1>2. ASSUME NEW c \in Conns, (Send(c) \/ Serve(c) \/ Break(c)) /\ UNCHANGED wvars
      PROVE  Delivery'
  BY <1>2, XferDelivery
<1>3. ASSUME UNCHANGED vars PROVE Delivery'
  <2>1. \A c \in Conns : Kept(c)
    BY <1>3 DEF vars, xvars, Kept, Writes
  <2> QED BY <1>3, <2>1, DeliveryKept DEF vars
<1> QED BY <1>1, <1>2, <1>3, CloseDelivery DEF Next

LEMMA DeliveryInvariance == Spec => [](Inv /\ Delivery)
<1>1. Init => Inv /\ Delivery
  BY InitInv, InitDelivery
<1>2. (Inv /\ Delivery) /\ [Next]_vars => (Inv /\ Delivery)'
  BY StepInv, DeliveryStep
<1> QED BY <1>1, <1>2, PTL DEF Spec

(* Every call that returned OK had a whole transfer of its own arrive,     *)
(* whatever happened to the connection before and after.                   *)
THEOREM OKIsDelivered == Spec => []OKMeansDelivered
<1>1. Inv /\ Delivery => OKMeansDelivered
  <2> SUFFICES ASSUME Inv, Delivery, NEW c \in Conns
               PROVE  LET oks == {k \in Calls : out[k] = "OK" /\ conn[k] = c}
                          arrived == {j \in DOMAIN received[c] : received[c][j] # 0}
                      IN  \E f \in [oks -> arrived] :
                              /\ \A k, l \in oks : f[k] = f[l] => k = l
                              /\ \A k \in oks : received[c][f[k]] = req[k].bytes
    BY DEF OKMeansDelivered
  <2> DEFINE oks == {k \in Calls : out[k] = "OK" /\ conn[k] = c}
             arrived == {j \in DOMAIN received[c] : received[c][j] # 0}
  <2>1. PICK g : Ledger(c, g)
    BY DEF Delivery
  <2> DEFINE f == [k \in oks |-> CHOOSE j \in 1..Len(received[c]) : g[j] = k]
  <2>2. \A k \in oks : f[k] \in 1..Len(received[c]) /\ g[f[k]] = k
    BY <2>1 DEF Ledger
  <2>3. /\ received[c] \in Seq(Sizes \cup {0}) /\ announced[c] \in Seq(Sizes)
        /\ Len(received[c]) <= Len(announced[c])
        /\ \A j \in 1..Len(received[c]) : received[c][j] = announced[c][j]
    BY XInvInOrder, ConstantFacts, LenProperties DEF Inv, InOrder, XInv, XTypeOK
  <2>4. \A j \in 1..Len(received[c]) : /\ received[c][j] = req[g[j]].bytes
                                       /\ received[c][j] # 0
    <3> TAKE j \in 1..Len(received[c])
    <3>1. j \in 1..Len(announced[c]) /\ received[c][j] = announced[c][j]
      BY <2>3, LenProperties
    <3>2. announced[c][j] \in Sizes
      BY <2>3, <3>1, ElementOfSeq
    <3> QED BY <2>1, <3>1, <3>2, SizesAssumption DEF Ledger
  <2>5. 1..Len(received[c]) = DOMAIN received[c]
    BY <2>3, LenProperties
  <2>6. f \in [oks -> arrived]
    BY <2>2, <2>4, <2>5
  <2> HIDE DEF f
  <2>7. /\ \A k, l \in oks : f[k] = f[l] => k = l
        /\ \A k \in oks : received[c][f[k]] = req[k].bytes
    BY <2>2, <2>4
  <2> QED BY <2>6, <2>7
<1> QED BY <1>1, DeliveryInvariance, PTL

-----------------------------------------------------------------------------
(* Counting.  Every transfer that arrived is, by the ledger, that of one   *)
(* call that began, and every OK is for one that arrived.                  *)
Pairs(n) == UNION {{c} \X {j \in DOMAIN received[c] : received[c][j] = n} : c \in Conns}
Begins(n) == {k \in Begun : req[k].bytes = n}
OKs(n) == {k \in Calls : out[k] = "OK" /\ req[k].bytes = n}

Tally ==
    \A n \in Sizes :
        /\ IsFiniteSet(Begins(n)) /\ IsFiniteSet(Pairs(n)) /\ IsFiniteSet(OKs(n))
        /\ Cardinality(Pairs(n)) <= Cardinality(Begins(n))
        /\ Cardinality(OKs(n)) <= Cardinality(Pairs(n))

LEMMA Counted == Inv /\ Delivery => Tally
<1> SUFFICES ASSUME Inv, Delivery, NEW n \in Sizes
             PROVE  /\ IsFiniteSet(Begins(n)) /\ IsFiniteSet(Pairs(n)) /\ IsFiniteSet(OKs(n))
                    /\ Cardinality(Pairs(n)) <= Cardinality(Begins(n))
                    /\ Cardinality(OKs(n)) <= Cardinality(Pairs(n))
  BY DEF Tally
<1> USE ConstantFacts
<1> DEFINE g(c) == CHOOSE h : Ledger(c, h)
<1>1. \A c \in Conns : Ledger(c, g(c))
  BY Zenon DEF Delivery
<1> HIDE DEF g
<1>2. ASSUME NEW c \in Conns
      PROVE  /\ DOMAIN g(c) = 1..Len(announced[c])
             /\ \A j \in DOMAIN received[c] : /\ j \in DOMAIN g(c)
                                              /\ received[c][j] = req[g(c)[j]].bytes
             /\ 1..Len(received[c]) = DOMAIN received[c]
  <2>1. /\ received[c] \in Seq(Sizes \cup {0}) /\ announced[c] \in Seq(Sizes)
        /\ Len(received[c]) \in {Len(announced[c]), Len(announced[c]) - 1}
        /\ \A j \in 1..Len(received[c]) : received[c][j] = announced[c][j]
    BY XInvInOrder DEF Inv, InOrder, XInv, XTypeOK
  <2>2. /\ 1..Len(received[c]) = DOMAIN received[c]
        /\ 1..Len(received[c]) \subseteq 1..Len(announced[c])
    BY <2>1, LenProperties
  <2> QED BY <1>1, <2>1, <2>2 DEF Ledger
<1>3. \A p \in Pairs(n) : /\ p = <<p[1], p[2]>> /\ p[1] \in Conns
                          /\ p[2] \in DOMAIN received[p[1]] /\ received[p[1]][p[2]] = n
  BY DEF Pairs
<1>4. \A c \in Conns : \A j \in DOMAIN received[c] :
          received[c][j] = n => <<c, j>> \in Pairs(n)
  BY DEF Pairs
<1>5. IsFiniteSet(Begins(n))
  BY FS_Subset, Begins(n) \in SUBSET Begun DEF Begins, Delivery
<1>6. /\ IsFiniteSet(Pairs(n)) /\ Cardinality(Pairs(n)) <= Cardinality(Begins(n))
  <2> DEFINE F == [p \in Pairs(n) |-> g(p[1])[p[2]]]
  <2>1. F \in [Pairs(n) -> Begins(n)]
    <3> SUFFICES ASSUME NEW p \in Pairs(n) PROVE g(p[1])[p[2]] \in Begins(n)
      OBVIOUS
    <3>1. p[1] \in Conns /\ p[2] \in DOMAIN received[p[1]] /\ received[p[1]][p[2]] = n
      BY <1>3
    <3> QED BY <1>1, <1>2, <3>1 DEF Ledger, Begins, Begun
  <2>2. \A p, q \in Pairs(n) : F[p] = F[q] => p = q
    <3> SUFFICES ASSUME NEW p \in Pairs(n), NEW q \in Pairs(n),
                        g(p[1])[p[2]] = g(q[1])[q[2]]
                 PROVE  p = q
      OBVIOUS
    <3>1. p[1] \in Conns /\ q[1] \in Conns /\ p[2] \in DOMAIN g(p[1]) /\ q[2] \in DOMAIN g(q[1])
      BY <1>2, <1>3
    <3>2. p[1] = q[1]
      BY <1>1, <3>1 DEF Ledger
    <3>3. p[2] = q[2]
      BY <1>1, <3>1, <3>2 DEF Ledger
    <3> QED BY <1>3, <3>2, <3>3
  <2>3. F \in Injection(Pairs(n), Begins(n))
    BY <2>1, <2>2 DEF Injection, IsInjective
  <2> QED BY <1>5, <2>3, FS_Injection
<1>7. /\ IsFiniteSet(OKs(n)) /\ Cardinality(OKs(n)) <= Cardinality(Pairs(n))
  <2> DEFINE H == [k \in OKs(n) |->
                     <<conn[k], CHOOSE j \in 1..Len(received[conn[k]]) : g(conn[k])[j] = k>>]
  <2>1. ASSUME NEW k \in OKs(n)
        PROVE  /\ conn[k] \in Conns /\ H[k][1] = conn[k]
               /\ g(conn[k])[H[k][2]] = k /\ H[k] \in Pairs(n)
    <3>1. conn[k] \in Conns /\ out[k] = "OK" /\ req[k].bytes = n /\ k \in Calls
      BY DEF OKs, Delivery, Inv, WInv, TypeOK
    <3>2. \E j \in 1..Len(received[conn[k]]) : g(conn[k])[j] = k
      BY <1>1, <3>1 DEF Ledger
    <3>3. PICK j : /\ H[k] = <<conn[k], j>> /\ j \in DOMAIN received[conn[k]]
                   /\ g(conn[k])[j] = k
      BY <1>2, <3>1, <3>2
    <3> HIDE DEF H
    <3>4. received[conn[k]][j] = n
      BY <1>2, <3>1, <3>3
    <3> QED BY <1>4, <3>1, <3>3, <3>4
  <2>2. \A k, l \in OKs(n) : H[k] = H[l] => k = l
    <3> HIDE DEF H
    <3> QED BY <2>1
  <2>3. H \in [OKs(n) -> Pairs(n)]
    BY <2>1
  <2>4. H \in Injection(OKs(n), Pairs(n))
    BY <2>2, <2>3 DEF Injection, IsInjective
  <2> QED BY <1>6, <2>4, FS_Injection
<1> QED BY <1>5, <1>6, <1>7

-----------------------------------------------------------------------------
(* The refinement, action by action.                                       *)
LEMMA SameCardinality == \A S : T!Cardinality(S) = Cardinality(S)
BY Zenon DEF T!Cardinality, Cardinality

LEMMA InitRefines == Init => T!TInit
<1> SUFFICES ASSUME Init PROVE T!TInit
  OBVIOUS
<1>1. \A k \in Calls : Stage(k) = "new"
  BY DEF Init, Stage
<1>2. \A n \in Sizes : Arrived(n) = 0
  <2>1. \A n \in Sizes : Pairs(n) = {}
    BY DEF Init, XInit, Pairs
  <2> QED BY <2>1, FS_EmptySet DEF Arrived, Pairs
<1> QED BY <1>1, <1>2 DEF Init, T!TInit

LEMMA ReturnRefines ==
    ASSUME WTypeOK, NEW k \in Calls, NEW code, Return(k, code),
           UNCHANGED <<req, ctx, conn, received>>
    PROVE  T!Return(k, code)
<1>1. \A l \in Calls : Stage(l)' = IF l = k THEN "done" ELSE Stage(l)
  BY DEF Return, Stage, WTypeOK
<1>2. [l \in Calls |-> Stage(l)]' = [[l \in Calls |-> Stage(l)] EXCEPT ![k] = "done"]
  BY <1>1
<1>3. \A n \in Sizes : Arrived(n)' = Arrived(n)
  BY DEF Arrived
<1> QED BY <1>2, <1>3 DEF Return, T!Return

LEMMA TransferRefines ==
    ASSUME Inv, NEW k \in Calls, NEW r \in Requests, Transfer(k, r)
    PROVE  T!Refuse(k, r) \/ T!Accept(k, r)
<1> USE ConstantFacts
<1>1. pc[k] = "new" /\ Stage(k) = "new" /\ UNCHANGED <<ctx, conn, received>> /\ WTypeOK
  BY DEF Transfer, Stage, xvars, Inv, WInv, TypeOK, WTypeOK
<1>2. CASE Refusal(r) # None
  <2>1. Return(k, Refusal(r)) /\ UNCHANGED req
    BY <1>2 DEF Transfer
  <2>2. T!Return(k, Refusal(r))
    BY <1>1, <2>1, ReturnRefines
  <2>3. CASE r.bytes <= 0 \/ r.peer = NoPeer
    <3>1. Refusal(r) = "InvalidArgument"
      BY <2>3 DEF Refusal
    <3> QED BY <1>1, <2>2, <2>3, <3>1 DEF T!Refuse
  <2>4. CASE ~(r.bytes <= 0 \/ r.peer = NoPeer)
    <3>1. Refusal(r) = "PermissionDenied" /\ r.peer \notin Allowed
      BY <1>2, <2>4 DEF Refusal
    <3>2. r.bytes > 0
      BY <2>4, SizeFacts DEF Requests
    <3> QED BY <1>1, <2>2, <2>4, <3>1, <3>2 DEF T!Refuse
  <2> QED BY <2>3, <2>4
<1>3. CASE Refusal(r) = None
  <2>1. /\ pc' = [pc EXCEPT ![k] = "lock"] /\ req' = [req EXCEPT ![k] = r] /\ UNCHANGED out
    BY <1>3 DEF Transfer
  <2>2. r.bytes > 0 /\ r.peer \in Allowed
    <3>1. ~(r.bytes <= 0 \/ r.peer = NoPeer) /\ r.peer \in Allowed
      BY <1>3 DEF Refusal, Codes
    <3> QED BY <3>1, SizeFacts DEF Requests
  <2>3. \A l \in Calls : Stage(l)' = IF l = k THEN "waiting" ELSE Stage(l)
    BY <1>1, <2>1 DEF Stage, WTypeOK
  <2>4. /\ [l \in Calls |-> Stage(l)]' = [[l \in Calls |-> Stage(l)] EXCEPT ![k] = "waiting"]
        /\ [l \in Calls |-> req[l].bytes]' = [[l \in Calls |-> req[l].bytes] EXCEPT ![k] = r.bytes]
    BY <1>1, <2>1, <2>3 DEF WTypeOK
  <2>5. \A n \in Sizes : Arrived(n)' = Arrived(n)
    BY <1>1 DEF Arrived
  <2> QED BY <1>1, <2>1, <2>2, <2>4, <2>5 DEF T!Accept
<1> QED BY <1>2, <1>3

(* Steps that a caller cannot see.                                         *)
LEMMA HiddenRefines ==
    ASSUME \A k \in Calls : Stage(k)' = Stage(k), UNCHANGED <<req, ctx, conn, out, received>>
    PROVE  UNCHANGED T!tvars
<1>1. \A n \in Sizes : Arrived(n)' = Arrived(n)
  BY DEF Arrived
<1> QED BY <1>1 DEF T!tvars

LEMMA FailRefines ==
    ASSUME Inv, NEW k \in Calls, LockTooLate(k) \/ DialFails(k) PROVE T!Fail(k)
<1>1. /\ pc[k] \in {"lock", "conn"} /\ UNCHANGED <<req, ctx, conn, received>>
      /\ Return(k, IF ctx[k] = "live" THEN "Unavailable" ELSE ctx[k])
  BY DEF LockTooLate, DialFails, Failure, CtxErr, xvars
<1>2. Stage(k) = "waiting"
  BY <1>1 DEF Stage
<1>3. T!Return(k, IF ctx[k] = "live" THEN "Unavailable" ELSE ctx[k])
  BY <1>1, ReturnRefines DEF Inv, WInv, TypeOK, WTypeOK
<1> QED BY <1>2, <1>3 DEF T!Fail

LEMMA BeginRefines == ASSUME Inv, NEW k \in Calls, Begin(k) PROVE T!Begin(k)
<1> USE ConstantFacts
<1>1. /\ mu = k /\ pc[k] = "conn" /\ conns[Peer(k)] # None /\ UNCHANGED <<req, ctx, out, received>>
      /\ conn' = [conn EXCEPT ![k] = conns[Peer(k)]] /\ pc' = [pc EXCEPT ![k] = "send"]
  BY DEF Begin, BeginSend, Inv, WInv, LockInv
<1>2. \A l \in Calls : pc[l] # "send"
  BY <1>1 DEF Inv, WInv, LockInv
<1>3. Stage(k) = "waiting" /\ \A l \in Calls : Stage(l) # "sending"
  BY <1>1, <1>2 DEF Stage, Inv, WInv, TypeOK
<1>4. \A l \in Calls : Stage(l)' = IF l = k THEN "sending" ELSE Stage(l)
  BY <1>1 DEF Stage, Inv, WInv, TypeOK
<1>5. [l \in Calls |-> Stage(l)]' = [[l \in Calls |-> Stage(l)] EXCEPT ![k] = "sending"]
  BY <1>4
<1>6. {l \in Calls : conn[l] # None}' = {l \in Calls : conn[l] # None} \cup {k}
  BY <1>1 DEF Inv, WInv, TypeOK
<1>7. \A n \in Sizes : Arrived(n)' = Arrived(n)
  BY <1>1 DEF Arrived
<1> QED BY <1>1, <1>3, <1>5, <1>6, <1>7 DEF T!Begin

LEMMA FinishRefines ==
    ASSUME Inv, Delivery, Inv', Delivery', NEW k \in Calls, Finish(k)
    PROVE  T!Succeed(k) \/ T!Fail(k)
<1> USE ConstantFacts
<1> DEFINE code == IF sender[conn[k]] = "sent" THEN "OK" ELSE Failure(k)
<1>1. /\ pc[k] = "send" /\ Return(k, code) /\ UNCHANGED <<req, ctx, conn, received>>
      /\ req[k].bytes \in Sizes /\ out[k] = None
  BY DEF Finish, CloseConns, xvars, Inv, WInv, CallInv
<1> HIDE DEF code
<1>2. Stage(k) = "sending" /\ T!Return(k, code)
  <2>1. WTypeOK
    BY DEF Inv, WInv, TypeOK, WTypeOK
  <2>2. Stage(k) = "sending"
    BY <1>1 DEF Stage
  <2> QED BY <1>1, <2>1, <2>2, ReturnRefines
<1>3. CASE code = "OK"
  <2> DEFINE n == req[k].bytes
  <2>1. OKs(n)' = OKs(n) \cup {k} /\ k \notin OKs(n)
    BY <1>1, <1>3 DEF OKs, Return, Inv, WInv, TypeOK, Codes
  <2>2. Pairs(n)' = Pairs(n)
    BY <1>1 DEF Pairs
  <2>3. IsFiniteSet(OKs(n)) /\ IsFiniteSet(Pairs(n))
    BY <1>1, Counted DEF Tally
  <2>4. (Cardinality(OKs(n)) <= Cardinality(Pairs(n)))'
    <3>1. (Inv /\ Delivery => Tally)'
      BY Counted, PTL
    <3>2. \A m \in Sizes : (Cardinality(OKs(m)) <= Cardinality(Pairs(m)))'
      BY <3>1 DEF Tally
    <3>3. n' = n
      BY <1>1
    <3> QED BY <1>1, <3>2, <3>3
  <2>5. Cardinality(OKs(n)) < Cardinality(Pairs(n))
    <3>1. /\ Cardinality(OKs(n) \cup {k}) = Cardinality(OKs(n)) + 1
          /\ Cardinality(OKs(n)) \in Nat /\ Cardinality(Pairs(n)) \in Nat
      BY <2>1, <2>3, FS_AddElement, FS_CardinalityType
    <3>2. Cardinality(OKs(n)') <= Cardinality(Pairs(n)')
      BY <1>1, <2>4
    <3> QED BY <2>1, <2>2, <3>1, <3>2
  <2>6. T!OfLength(n, T!OKs) = OKs(n) /\ Arrived(n) = Cardinality(Pairs(n))
    BY DEF T!OfLength, T!OKs, OKs, Arrived, Pairs
  <2>7. /\ [l \in Calls |-> req[l].bytes][k] = n /\ [m \in Sizes |-> Arrived(m)][n] = Arrived(n)
        /\ [l \in Calls |-> Stage(l)][k] = "sending"
    BY <1>1, <1>2
  <2> HIDE DEF n
  <2> QED BY <1>2, <1>3, <2>5, <2>6, <2>7, SameCardinality DEF T!Succeed
<1>4. CASE code # "OK"
  <2>1. code = IF ctx[k] = "live" THEN "Unavailable" ELSE ctx[k]
    BY <1>4 DEF code, Failure, CtxErr
  <2> QED BY <1>2, <2>1 DEF T!Fail
<1> QED BY <1>3, <1>4

LEMMA CtxEndRefines ==
    ASSUME Inv, NEW k \in Calls, CtxEnd(k) PROVE \E e \in CtxErrs : T!CtxEnd(k, e)
<1>1. PICK e \in CtxErrs : ctx' = [ctx EXCEPT ![k] = e]
  BY DEF CtxEnd
<1>2. /\ pc[k] \in {"lock", "conn", "send"} /\ ctx[k] = "live"
      /\ UNCHANGED <<pc, req, conn, out, received>>
  BY DEF CtxEnd, CtxErr, xvars
<1>3. Stage(k) \in {"waiting", "sending"} /\ \A l \in Calls : Stage(l)' = Stage(l)
  BY <1>2 DEF Stage
<1>4. \A n \in Sizes : Arrived(n)' = Arrived(n)
  BY <1>2 DEF Arrived
<1> QED BY <1>1, <1>2, <1>3, <1>4 DEF T!CtxEnd

(* A transfer arrives: one more of its length, and still no more than the  *)
(* calls of that length that began.                                        *)
LEMMA ServeRefines ==
    ASSUME Inv, Delivery, Inv', Delivery', NEW d \in Conns, Serve(d), UNCHANGED wvars
    PROVE  UNCHANGED T!tvars \/ \E n \in Sizes : T!Arrive(n)
<1> USE ConstantFacts
<1>0. UNCHANGED <<pc, req, ctx, conn, out, announced>>
  BY DEF wvars, Serve, ServeHeader, ServeBody, ServeReply, ServeEnd, ServeFails
<1>1. \A k \in Calls : Stage(k)' = Stage(k)
  BY <1>0 DEF Stage
<1>2. CASE received' = received
  BY <1>0, <1>1, <1>2, HiddenRefines
<1>3. ASSUME NEW n \in Sizes \cup {0}, received' = [received EXCEPT ![d] = Append(@, n)]
      PROVE  \E m \in Sizes : T!Arrive(m)
  <2>1. received \in [Conns -> Seq(Sizes \cup {0})] /\ announced \in [Conns -> Seq(Sizes)]
    BY DEF Inv, XInv, XTypeOK
  <2>2. PICK i \in Nat : i = Len(received[d]) /\ DOMAIN received[d] = 1..i
    BY <2>1, LenProperties
  <2>3. /\ Len(received'[d]) = i + 1 /\ DOMAIN received'[d] = 1..i + 1
        /\ received'[d][i + 1] = n
        /\ \A j \in 1..i : received'[d][j] = received[d][j]
        /\ \A c \in Conns \ {d} : received'[c] = received[c]
    BY <1>3, <2>1, <2>2, AppendFacts, LenProperties
  <2>4. n \in Sizes
    <3>1. (XInv => InOrder)'
      BY XInvInOrder, PTL
    <3>2. received'[d][i + 1] = announced'[d][i + 1] /\ i + 1 \in 1..Len(announced'[d])
      <4>1. /\ Len(received'[d]) \in {Len(announced'[d]), Len(announced'[d]) - 1}
            /\ \A j \in 1..Len(received'[d]) : received'[d][j] = announced'[d][j]
        BY <3>1 DEF Inv, InOrder
      <4>2. Len(announced'[d]) \in Nat
        BY <1>0, <2>1, LenProperties
      <4> QED BY <2>3, <4>1, <4>2
    <3> QED BY <1>0, <2>1, <2>3, <3>2, ElementOfSeq
  <2>5. Pairs(n)' = Pairs(n) \cup {<<d, i + 1>>} /\ <<d, i + 1>> \notin Pairs(n)
    BY <2>2, <2>3 DEF Pairs
  <2>6. ASSUME NEW m \in Sizes, m # n PROVE Pairs(m)' = Pairs(m)
    BY <2>2, <2>3, <2>6 DEF Pairs
  <2>7. /\ IsFiniteSet(Pairs(n)) /\ IsFiniteSet(Begins(n))
        /\ \A m \in Sizes : IsFiniteSet(Pairs(m))
    BY <2>4, Counted DEF Tally
  <2>8. Cardinality(Pairs(n)') = Cardinality(Pairs(n)) + 1 /\ Cardinality(Pairs(n)) \in Nat
    BY <2>5, <2>7, FS_AddElement, FS_CardinalityType
  <2>9. Cardinality(Pairs(n)') <= Cardinality(Begins(n))
    <3>1. (Inv /\ Delivery => Tally)'
      BY Counted, PTL
    <3>2. \A m \in Sizes : Cardinality(Pairs(m)') <= Cardinality(Begins(m)')
      BY <3>1 DEF Tally
    <3>3. Begins(n)' = Begins(n)
      BY <1>0 DEF Begins, Begun
    <3> QED BY <2>4, <3>2, <3>3
  <2>10. Cardinality(Pairs(n)) < Cardinality(Begins(n))
    BY <2>7, <2>8, <2>9, FS_CardinalityType
  <2>11. \A m \in Sizes : /\ Arrived(m) = Cardinality(Pairs(m))
                          /\ Arrived(m)' = Cardinality(Pairs(m)')
    BY DEF Arrived, Pairs
  <2>12. [m \in Sizes |-> Arrived(m)]' = [[m \in Sizes |-> Arrived(m)] EXCEPT ![n] = @ + 1]
    BY <2>4, <2>6, <2>8, <2>11
  <2>13. T!OfLength(n, Begun) = Begins(n)
    BY DEF T!OfLength, Begins, Begun
  <2>14. T!Arrive(n)
    <3>1. [m \in Sizes |-> Arrived(m)][n] < Cardinality(T!OfLength(n, {k \in Calls : conn[k] # None}))
      BY <2>4, <2>10, <2>11, <2>13 DEF Begun
    <3>2. UNCHANGED <<[k \in Calls |-> Stage(k)], [k \in Calls |-> req[k].bytes], ctx,
                      {k \in Calls : conn[k] # None}, out>>
      BY <1>0, <1>1
    <3> QED BY <2>12, <3>1, <3>2, SameCardinality DEF T!Arrive
  <2> QED BY <2>4, <2>14
<1>4. \/ received' = received
      \/ \E n \in Sizes \cup {0} : received' = [received EXCEPT ![d] = Append(@, n)]
  BY DEF Serve, ServeHeader, ServeBody, ServeReply, ServeEnd, ServeFails, Inv, XInv, XTypeOK
<1> QED BY <1>2, <1>3, <1>4

LEMMA StepRefines ==
    Inv /\ Delivery /\ Inv' /\ Delivery' /\ [Next]_vars => [T!TNext]_(T!tvars)
<1> SUFFICES ASSUME Inv, Delivery, Inv', Delivery', [Next]_vars PROVE [T!TNext]_(T!tvars)
  OBVIOUS
<1>1. ASSUME NEW k \in Calls, NEW r \in Requests, Transfer(k, r) PROVE T!TNext
  <2>1. r \in T!Requests
    BY DEF Requests, T!Requests
  <2> QED BY <1>1, <2>1, TransferRefines DEF T!TNext
<1>2. ASSUME NEW k \in Calls, LockTooLate(k) \/ DialFails(k) PROVE T!TNext
  BY <1>2, FailRefines DEF T!TNext
<1>3. ASSUME NEW k \in Calls, Begin(k) PROVE T!TNext
  BY <1>3, BeginRefines DEF T!TNext
<1>4. ASSUME NEW k \in Calls, Finish(k) PROVE T!TNext
  BY <1>4, FinishRefines DEF T!TNext
<1>5. ASSUME NEW k \in Calls, CtxEnd(k) PROVE T!TNext
  BY <1>5, CtxEndRefines DEF T!TNext
<1>6. ASSUME NEW c \in Conns, Serve(c), UNCHANGED wvars PROVE [T!TNext]_(T!tvars)
  BY <1>6, ServeRefines DEF T!TNext
<1>7. ASSUME NEW k \in Calls, Lock(k) PROVE UNCHANGED T!tvars
  <2>1. /\ pc[k] = "lock" /\ pc' = [pc EXCEPT ![k] = "conn"]
        /\ UNCHANGED <<req, ctx, conn, out, received>>
    BY <1>7 DEF Lock, xvars
  <2>2. \A l \in Calls : Stage(l)' = Stage(l)
    BY <2>1 DEF Stage, Inv, WInv, TypeOK
  <2> QED BY <2>1, <2>2, HiddenRefines
<1>8. ASSUME \/ \E k \in Calls : Dial(k) \/ TripFire(k) \/ TripRun(k)
             \/ Close
             \/ \E c \in Conns : (Send(c) \/ Break(c)) /\ UNCHANGED wvars
             \/ UNCHANGED vars
      PROVE  UNCHANGED T!tvars
  <2>1. UNCHANGED <<pc, req, ctx, conn, out, received>>
    BY <1>8 DEF Dial, Connect, TripFire, TripRun, Expire, Close, CloseConns, Send, WriteHeader,
                WriteChunk, ReadAck, SendFails, Break, wvars, vars, xvars
  <2>2. \A k \in Calls : Stage(k)' = Stage(k)
    BY <2>1 DEF Stage
  <2> QED BY <2>1, <2>2, HiddenRefines
<1> QED BY <1>1, <1>2, <1>3, <1>4, <1>5, <1>6, <1>7, <1>8 DEF Next, Step

(* To its callers the worker is a Transfers service.                       *)
THEOREM WorkerImplementsTransfers == Spec => ImplementsTransfers
<1> QED BY InitRefines, StepRefines, DeliveryInvariance, PTL
        DEF Spec, ImplementsTransfers, T!TSpec

(* The relations between the worker's variables hold from start to end.    *)
THEOREM WorkerInvariant == Spec => []WInv
<1>1. Inv => WInv
  BY DEF Inv
<1> QED BY <1>1, Invariance, PTL
=============================================================================
