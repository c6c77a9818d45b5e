-------------------------------- MODULE Xfer --------------------------------
(***************************************************************************)
(* The data path of package internal/xfer: Send on the sending worker,     *)
(* Serve on the receiving one, and the TCP connection between them.        *)
(*                                                                         *)
(* A connection carries units.  A transfer of n chunks is a header unit,   *)
(* whose value is n, and then n Body units; the receiver answers a whole   *)
(* transfer with one reply.  Nothing on the wire marks a header: Serve     *)
(* takes whatever comes first after a transfer as the next length, so both *)
(* ends must agree on where a transfer ends.                               *)
(***************************************************************************)
EXTENDS Integers, Sequences

CONSTANTS Conns,    \* the connections that may be dialled, each at most once
          Sizes,    \* the lengths of a transfer, in chunks
          BufCap    \* units the connection holds before a write blocks

ASSUME SizesAssumption == Sizes \subseteq Nat \ {0}
ASSUME BufCapAssumption == BufCap \in Nat \ {0}

VARIABLES
    sender,     \* the sending end: where Send is, or how its last call ended
    togo,       \* Send's left: chunks it still has to write
    wire,       \* units written and not read yet
    replies,    \* replies written and not read yet
    expired,    \* the sending end's deadline is in the past
    broken,     \* the network or the receiving process failed
    receiver,   \* the receiving end: where Serve is, or how it ended
    frame,      \* Serve's n: the length it read last
    left,       \* chunks of that transfer it still has to read
    announced,  \* history: the lengths whose header was sent
    received    \* history: the lengths whose chunks all arrived

xvars == <<sender, togo, wire, replies, expired, broken,
           receiver, frame, left, announced, received>>

Body == 0             \* a chunk; misread as a header it is a length of 0
PartHeader == -1      \* a header of which only some bytes were written

SenderStates == {"none", "ready", "header", "body", "ack", "sent", "failed", "closed"}
ReceiverStates == {"none", "header", "body", "reply", "ended", "failed"}

InSend(c) == sender[c] \in {"header", "body", "ack"}
Open(c) == sender[c] \notin {"none", "closed"}
Serving(c) == receiver[c] \in {"header", "body", "reply"}

XInit ==
    /\ sender    = [c \in Conns |-> "none"]
    /\ togo      = [c \in Conns |-> 0]
    /\ wire      = [c \in Conns |-> <<>>]
    /\ replies   = [c \in Conns |-> 0]
    /\ expired   = [c \in Conns |-> FALSE]
    /\ broken    = [c \in Conns |-> FALSE]
    /\ receiver  = [c \in Conns |-> "none"]
    /\ frame     = [c \in Conns |-> 0]
    /\ left      = [c \in Conns |-> 0]
    /\ announced = [c \in Conns |-> <<>>]
    /\ received  = [c \in Conns |-> <<>>]

-----------------------------------------------------------------------------
(* The sending end. *)

(* The connection is dialled and the peer's ServeAll gives it a Serve of   *)
(* its own.                                                                *)
Connect(c) ==
    /\ sender[c] = "none"
    /\ sender' = [sender EXCEPT ![c] = "ready"]
    /\ receiver' = [receiver EXCEPT ![c] = "header"]
    /\ UNCHANGED <<togo, wire, replies, expired, broken, frame, left, announced, received>>

(* Send(conn, n) is called. *)
BeginSend(c, n) ==
    /\ Open(c) /\ ~InSend(c)
    /\ sender' = [sender EXCEPT ![c] = "header"]
    /\ togo' = [togo EXCEPT ![c] = n]
    /\ UNCHANGED <<wire, replies, expired, broken, receiver, frame, left, announced, received>>

(* A write returns nil when the connection has room for it; a connection   *)
(* that broke may go on taking writes until the sending kernel notices.    *)
CanWrite(c) == ~expired[c] /\ Len(wire[c]) < BufCap

WriteHeader(c) ==
    /\ sender[c] = "header"
    /\ CanWrite(c)
    /\ wire' = [wire EXCEPT ![c] = Append(@, togo[c])]
    /\ announced' = [announced EXCEPT ![c] = Append(@, togo[c])]
    /\ sender' = [sender EXCEPT ![c] = "body"]
    /\ UNCHANGED <<togo, replies, expired, broken, receiver, frame, left, received>>

(* Mutants: Send returns without reading the reply; a loop one too long.   *)
WriteChunkNoReply(c) ==
    /\ sender[c] = "body"
    /\ CanWrite(c)
    /\ wire' = [wire EXCEPT ![c] = Append(@, Body)]
    /\ togo' = [togo EXCEPT ![c] = @ - 1]
    /\ sender' = [sender EXCEPT ![c] = IF togo[c] = 1 THEN "sent" ELSE "body"]
    /\ UNCHANGED <<replies, expired, broken, receiver, frame, left, announced, received>>

WriteChunkOneTooMany(c) ==
    /\ sender[c] = "body"
    /\ CanWrite(c)
    /\ wire' = [wire EXCEPT ![c] = Append(@, Body)]
    /\ togo' = [togo EXCEPT ![c] = @ - 1]
    /\ sender' = [sender EXCEPT ![c] = IF togo[c] = 0 THEN "ack" ELSE "body"]
    /\ UNCHANGED <<replies, expired, broken, receiver, frame, left, announced, received>>

WriteChunk(c) ==
    /\ sender[c] = "body"
    /\ CanWrite(c)
    /\ wire' = [wire EXCEPT ![c] = Append(@, Body)]
    /\ togo' = [togo EXCEPT ![c] = @ - 1]
    /\ sender' = [sender EXCEPT ![c] = IF togo[c] = 1 THEN "ack" ELSE "body"]
    /\ UNCHANGED <<replies, expired, broken, receiver, frame, left, announced, received>>

ReadAck(c) ==
    /\ sender[c] = "ack"
    /\ ~expired[c]
    /\ replies[c] > 0
    /\ replies' = [replies EXCEPT ![c] = @ - 1]
    /\ sender' = [sender EXCEPT ![c] = "sent"]
    /\ UNCHANGED <<togo, wire, expired, broken, receiver, frame, left, announced, received>>

(* A write or the read of the reply fails and Send returns the error.  A   *)
(* write that fails may have written a part: of the header here, of the    *)
(* body by stopping after any of its chunks.                               *)
SendFails(c) ==
    /\ InSend(c)
    /\ expired[c] \/ broken[c]
    /\ sender' = [sender EXCEPT ![c] = "failed"]
    /\ wire' \in {wire} \cup
          (IF sender[c] = "header" /\ Len(wire[c]) < BufCap
           THEN {[wire EXCEPT ![c] = Append(@, PartHeader)]} ELSE {})
    /\ UNCHANGED <<togo, replies, expired, broken, receiver, frame, left, announced, received>>

(* The connections in C are closed, none of them during a Send.            *)
CloseConns(C) ==
    /\ \A c \in C : Open(c) /\ ~InSend(c)
    /\ sender' = [c \in Conns |-> IF c \in C THEN "closed" ELSE sender[c]]
    /\ UNCHANGED <<togo, wire, replies, expired, broken, receiver, frame, left, announced, received>>

(* SetDeadline(time.Now()): every read and write from now on fails.  On a  *)
(* closed connection it does nothing.                                      *)
Expire(c) ==
    /\ expired' = [expired EXCEPT ![c] = @ \/ Open(c)]
    /\ UNCHANGED <<sender, togo, wire, replies, broken, receiver, frame, left, announced, received>>

(* The link or the receiving process fails.  Either end learns of it when  *)
(* it next fails an operation, if it ever does.                            *)
Break(c) ==
    /\ sender[c] # "none" /\ ~broken[c]
    /\ broken' = [broken EXCEPT ![c] = TRUE]
    /\ UNCHANGED <<sender, togo, wire, replies, expired, receiver, frame, left, announced, received>>

-----------------------------------------------------------------------------
(* The receiving end: Serve's loop on one connection. *)

(* io.ReadFull(conn, header): a whole header, or what is taken for one.    *)
ServeHeader(c) ==
    /\ receiver[c] = "header"
    /\ wire[c] # <<>> /\ Head(wire[c]) # PartHeader
    /\ LET n == Head(wire[c]) IN
         /\ frame' = [frame EXCEPT ![c] = n]
         /\ left' = [left EXCEPT ![c] = n]
         /\ receiver' = [receiver EXCEPT ![c] = IF n = 0 THEN "reply" ELSE "body"]
         /\ received' = IF n = 0 THEN [received EXCEPT ![c] = Append(@, 0)] ELSE received
    /\ wire' = [wire EXCEPT ![c] = Tail(@)]
    /\ UNCHANGED <<sender, togo, replies, expired, broken, announced>>

(* Mutant: a transfer is taken for whole one chunk early.                  *)
ServeBodyShort(c) ==
    /\ receiver[c] = "body"
    /\ wire[c] # <<>>
    /\ wire' = [wire EXCEPT ![c] = Tail(@)]
    /\ left' = [left EXCEPT ![c] = @ - 1]
    /\ receiver' = [receiver EXCEPT ![c] = IF left[c] <= 2 THEN "reply" ELSE "body"]
    /\ received' = IF left[c] <= 2 THEN [received EXCEPT ![c] = Append(@, frame[c])]
                                   ELSE received
    /\ UNCHANGED <<sender, togo, replies, expired, broken, frame, announced>>

(* io.CopyN(io.Discard, conn, n) reads the next unit, whatever it is.      *)
ServeBody(c) ==
    /\ receiver[c] = "body"
    /\ wire[c] # <<>>
    /\ wire' = [wire EXCEPT ![c] = Tail(@)]
    /\ left' = [left EXCEPT ![c] = @ - 1]
    /\ receiver' = [receiver EXCEPT ![c] = IF left[c] = 1 THEN "reply" ELSE "body"]
    /\ received' = IF left[c] = 1 THEN [received EXCEPT ![c] = Append(@, frame[c])]
                                  ELSE received
    /\ UNCHANGED <<sender, togo, replies, expired, broken, frame, announced>>

ServeReply(c) ==
    /\ receiver[c] = "reply"
    /\ replies' = [replies EXCEPT ![c] = @ + 1]
    /\ receiver' = [receiver EXCEPT ![c] = "header"]
    /\ UNCHANGED <<sender, togo, wire, expired, broken, frame, left, announced, received>>

(* Mutant: an end of file is a clean end wherever it comes.                *)
ServeEndAnywhere(c) ==
    /\ sender[c] = "closed"
    /\ receiver[c] \in {"header", "body"} /\ wire[c] \in {<<>>, <<PartHeader>>}
    /\ receiver' = [receiver EXCEPT ![c] = "ended"]
    /\ UNCHANGED <<sender, togo, wire, replies, expired, broken, frame, left, announced, received>>

(* The sender closed and everything it wrote was read.  Before any header  *)
(* byte that is a clean end and Serve returns nil; anywhere else it is an  *)
(* error.                                                                  *)
ServeEnd(c) ==
    /\ sender[c] = "closed"
    /\ \/ receiver[c] = "header" /\ wire[c] \in {<<>>, <<PartHeader>>}
       \/ receiver[c] = "body" /\ wire[c] = <<>>
    /\ receiver' = [receiver EXCEPT ![c] =
          IF @ = "header" /\ wire[c] = <<>> THEN "ended" ELSE "failed"]
    /\ UNCHANGED <<sender, togo, wire, replies, expired, broken, frame, left, announced, received>>

(* A read or write of Serve fails on a broken connection.                  *)
ServeFails(c) ==
    /\ Serving(c) /\ broken[c]
    /\ receiver' = [receiver EXCEPT ![c] = "failed"]
    /\ UNCHANGED <<sender, togo, wire, replies, expired, broken, frame, left, announced, received>>

-----------------------------------------------------------------------------
Send(c) == WriteHeader(c) \/ WriteChunk(c) \/ ReadAck(c) \/ SendFails(c)

Serve(c) == \/ ServeHeader(c) \/ ServeBody(c) \/ ServeReply(c)
            \/ ServeEnd(c) \/ ServeFails(c)

(* What Send asks of its caller: a connection is used again only when the  *)
(* Send before it returned nil.                                            *)
Usable(c) == sender[c] \in {"ready", "sent"}

XNext ==
    \/ \E c \in Conns : \/ Connect(c) \/ Send(c) \/ Serve(c)
                        \/ Expire(c) \/ Break(c)
                        \/ \E n \in Sizes : Usable(c) /\ BeginSend(c, n)
    \/ \E C \in SUBSET Conns : CloseConns(C)

XSpec == XInit /\ [][XNext]_xvars

-----------------------------------------------------------------------------
Units == Sizes \cup {Body, PartHeader}

XTypeOK ==
    /\ sender \in [Conns -> SenderStates]
    /\ togo \in [Conns -> Nat]
    /\ wire \in [Conns -> Seq(Units)]
    /\ replies \in [Conns -> Nat]
    /\ expired \in [Conns -> BOOLEAN]
    /\ broken \in [Conns -> BOOLEAN]
    /\ receiver \in [Conns -> ReceiverStates]
    /\ frame \in [Conns -> Sizes \cup {0}]
    /\ left \in [Conns -> Nat]
    /\ announced \in [Conns -> Seq(Sizes)]
    /\ received \in [Conns -> Seq(Sizes \cup {0})]

(* The receiver never splits, joins or invents a transfer: what it took    *)
(* for whole transfers is what the sender announced, in order, whatever    *)
(* was cut off, and at most the last one is missing.                       *)
InOrder ==
    \A c \in Conns :
        /\ Len(received[c]) \in {Len(announced[c]), Len(announced[c]) - 1}
        /\ \A j \in 1..Len(received[c]) : received[c][j] = announced[c][j]

(* Send returns nil only when the receiver has read every chunk of this    *)
(* transfer and of all before it: a reply is never taken for that of       *)
(* another transfer.                                                       *)
SentMeansReceived ==
    \A c \in Conns : sender[c] = "sent" => received[c] = announced[c]

(* A connection on which Send returned nil is at a boundary between        *)
(* transfers, with nothing left on it in either direction: the next Send   *)
(* on it starts clean.                                                     *)
CleanBoundary ==
    \A c \in Conns : Usable(c) =>
        wire[c] = <<>> /\ replies[c] = 0 /\ receiver[c] \in {"header", "failed"}

(* Serve ends without an error only on a connection whose transfers all    *)
(* arrived whole; one that was cut off is always reported.                 *)
CleanEndIsWhole ==
    \A c \in Conns : receiver[c] = "ended" => received[c] = announced[c]

-----------------------------------------------------------------------------
(* Why these hold.  Send waits for its reply, so a connection never holds  *)
(* more than one transfer, and what is on the wire, what the receiver is   *)
(* doing and where the sender stands are always in one of these relations. *)

MidSend == {"body", "ack", "failed", "closed"}

(* Between transfers. *)
Between(c) ==
    /\ wire[c] = <<>> /\ replies[c] = 0 /\ received[c] = announced[c]
    /\ sender[c] \notin {"body", "ack"}
    /\ \/ receiver[c] = "none" /\ sender[c] = "none"
       \/ receiver[c] = "ended" /\ sender[c] = "closed"
       \/ receiver[c] \in {"header", "failed"} /\ sender[c] # "none"

(* A part of a header was written, and nothing will follow it. *)
HeaderTorn(c) ==
    /\ wire[c] = <<PartHeader>> /\ replies[c] = 0 /\ received[c] = announced[c]
    /\ sender[c] \in {"failed", "closed"}
    /\ receiver[c] \in {"header", "failed"}

(* The header is on the wire, with the chunks written so far behind it. *)
HeaderUnread(c) ==
    /\ wire[c] # <<>> /\ Head(wire[c]) \in Sizes /\ replies[c] = 0
    /\ announced[c] = Append(received[c], Head(wire[c]))
    /\ \A j \in 2..Len(wire[c]) : wire[c][j] = Body
    /\ Len(wire[c]) + togo[c] = 1 + Head(wire[c])
    /\ sender[c] \in MidSend
    /\ receiver[c] = "header"

(* The receiver read the header: the chunks it waits for are those on the  *)
(* wire and those Send has yet to write.                                   *)
BodyUnread(c) ==
    /\ frame[c] \in Sizes /\ replies[c] = 0
    /\ announced[c] = Append(received[c], frame[c])
    /\ \A j \in 1..Len(wire[c]) : wire[c][j] = Body
    /\ left[c] = Len(wire[c]) + togo[c] /\ left[c] > 0
    /\ sender[c] \in MidSend
    /\ receiver[c] = "body"

(* The receiver stopped before the end of a transfer. *)
CutOff(c) ==
    /\ replies[c] = 0
    /\ \E n \in Sizes : announced[c] = Append(received[c], n)
    /\ sender[c] \in MidSend
    /\ receiver[c] = "failed"

(* Every chunk was read and the reply is not written, or is on its way. *)
AllRead(c) ==
    /\ wire[c] = <<>> /\ received[c] = announced[c]
    /\ sender[c] \in {"ack", "failed", "closed"}
    /\ \/ replies[c] = 0 /\ receiver[c] \in {"reply", "failed"}
       \/ replies[c] = 1 /\ receiver[c] \in {"header", "failed"}
       \/ replies[c] = 1 /\ receiver[c] = "ended" /\ sender[c] = "closed"

SenderOK(c) ==
    /\ sender[c] = "header" => togo[c] \in Sizes
    /\ sender[c] = "body" => togo[c] > 0
    /\ sender[c] = "ack" => togo[c] = 0

Relation(c) == \/ Between(c) \/ HeaderTorn(c) \/ HeaderUnread(c)
               \/ BodyUnread(c) \/ CutOff(c) \/ AllRead(c)

(* The inductive invariant: one of the relations holds of each connection. *)
XInv == XTypeOK /\ \A c \in Conns : SenderOK(c) /\ Relation(c)
=============================================================================
