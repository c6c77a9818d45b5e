------------------------------- MODULE Worker -------------------------------
(***************************************************************************)
(* The worker of internal/worker: Transfer calls, each in a goroutine of   *)
(* its gRPC server, that share one mutex and one pool of connections.      *)
(*                                                                         *)
(* A call dials at most one connection, so connections are named by the    *)
(* call that dials them.  A call's context ends at any time, and the       *)
(* tripwire that AfterFunc hung on it runs in a goroutine of its own: it   *)
(* may be under way when the call it belongs to has already returned.      *)
(***************************************************************************)
EXTENDS Xfer

CONSTANTS Calls,      \* the Transfer calls
          Peers,      \* peer addresses a request may name
          Allowed,    \* those the worker may send to
          NoPeer,     \* the empty peer address
          CtxErrs,    \* the codes for how a context ends
          None        \* no call, no connection, no answer yet

ASSUME CallsAssumption == Conns = Calls
ASSUME PeersAssumption == Allowed \subseteq Peers /\ NoPeer \notin Peers
ASSUME CtxErrsAssumption == CtxErrs \subseteq {"DeadlineExceeded", "Canceled"}

Codes == {"OK", "InvalidArgument", "PermissionDenied", "Unavailable"} \cup CtxErrs

ASSUME NoneAssumption == None \notin Calls /\ None \notin Peers /\ None \notin Codes

VARIABLES
    mu,       \* the call that holds Worker.mu, or None
    conns,    \* Worker.conns: the pooled connection of each peer, or None
    pc,       \* where each call is
    req,      \* its request
    ctx,      \* its context: "live", or the code for how it ended
    trip,     \* its AfterFunc
    conn,     \* the connection it sends on
    out       \* the code it returned

wvars == <<mu, conns, pc, req, ctx, trip, conn, out>>
vars == <<mu, conns, pc, req, ctx, trip, conn, out, xvars>>

Requests == [peer : Peers \cup {NoPeer}, bytes : Sizes \cup {0}]
TripStates == {"unset", "armed", "stopped", "fired", "ran"}

Init ==
    /\ XInit
    /\ mu = None
    /\ conns = [p \in Peers |-> None]
    /\ pc = [k \in Calls |-> "new"]
    /\ req = [k \in Calls |-> [peer |-> NoPeer, bytes |-> 0]]
    /\ ctx = [k \in Calls |-> "live"]
    /\ trip = [k \in Calls |-> "unset"]
    /\ conn = [k \in Calls |-> None]
    /\ out = [k \in Calls |-> None]

-----------------------------------------------------------------------------
Peer(k) == req[k].peer
CtxErr(k) == ctx[k] # "live"

(* Mutant: the code of a dead network for a caller that gave up.           *)
FailureBlamesNetwork(k) == "Unavailable"

(* failure: a dial or send error, as the code the controller sees.         *)
Failure(k) == IF CtxErr(k) THEN ctx[k] ELSE "Unavailable"

Return(k, code) ==
    /\ pc' = [pc EXCEPT ![k] = "done"]
    /\ out' = [out EXCEPT ![k] = code]

Unlock == mu' = None

(* Mutant: 0 bytes pass the check.                                         *)
RefusalOfNegative(r) ==
    IF r.bytes < 0 \/ r.peer = NoPeer THEN "InvalidArgument"
    ELSE IF r.peer \notin Allowed THEN "PermissionDenied" ELSE None

Refusal(r) ==
    IF r.bytes <= 0 \/ r.peer = NoPeer THEN "InvalidArgument"
    ELSE IF r.peer \notin Allowed THEN "PermissionDenied" ELSE None

(* A call arrives.  A bad request is turned away before the lock; any      *)
(* other waits for it.                                                     *)
Transfer(k, r) ==
    /\ pc[k] = "new"
    /\ \/ Refusal(r) # None /\ Return(k, Refusal(r)) /\ UNCHANGED req
       \/ /\ Refusal(r) = None
          /\ pc' = [pc EXCEPT ![k] = "lock"]
          /\ req' = [req EXCEPT ![k] = r]
          /\ UNCHANGED out
    /\ UNCHANGED <<mu, conns, ctx, trip, conn, xvars>>

(* Mutant: the lock is taken while another call holds it.                  *)
LockHeld(k) ==
    /\ pc[k] = "lock" /\ ~CtxErr(k)
    /\ mu' = k
    /\ pc' = [pc EXCEPT ![k] = "conn"]
    /\ UNCHANGED <<conns, req, ctx, trip, conn, out, xvars>>

(* Mutant: a call that was given up while it waited goes ahead.            *)
LockIgnoringCtx(k) ==
    /\ pc[k] = "lock" /\ mu = None
    /\ mu' = k
    /\ pc' = [pc EXCEPT ![k] = "conn"]
    /\ UNCHANGED <<conns, req, ctx, trip, conn, out, xvars>>

(* The call gets the lock and its context is still live.                   *)
Lock(k) ==
    /\ pc[k] = "lock" /\ mu = None /\ ~CtxErr(k)
    /\ mu' = k
    /\ pc' = [pc EXCEPT ![k] = "conn"]
    /\ UNCHANGED <<conns, req, ctx, trip, conn, out, xvars>>

(* The call gets the lock after its caller gave up, and lets go of it.     *)
LockTooLate(k) ==
    /\ pc[k] = "lock" /\ mu = None /\ CtxErr(k)
    /\ Return(k, ctx[k])
    /\ UNCHANGED <<mu, conns, req, ctx, trip, conn, xvars>>

(* Mutant: conn dials without looking for a pooled connection first.       *)
DialAlways(k) ==
    /\ pc[k] = "conn"
    /\ Connect(k)
    /\ conns' = [conns EXCEPT ![Peer(k)] = k]
    /\ UNCHANGED <<mu, pc, req, ctx, trip, conn, out>>

(* conn: there is no connection to the peer yet, so dial one and pool it.  *)
Dial(k) ==
    /\ pc[k] = "conn" /\ conns[Peer(k)] = None
    /\ Connect(k)
    /\ conns' = [conns EXCEPT ![Peer(k)] = k]
    /\ UNCHANGED <<mu, pc, req, ctx, trip, conn, out>>

(* The dial fails, or gives up because the context ended.                  *)
DialFails(k) ==
    /\ pc[k] = "conn" /\ conns[Peer(k)] = None
    /\ Return(k, Failure(k))
    /\ Unlock
    /\ UNCHANGED <<conns, req, ctx, trip, conn, xvars>>

(* Mutant: nothing wakes the send when the context ends.                   *)
BeginWithoutTripwire(k) ==
    /\ pc[k] = "conn" /\ conns[Peer(k)] # None
    /\ LET c == conns[Peer(k)] IN
         /\ conn' = [conn EXCEPT ![k] = c]
         /\ BeginSend(c, req[k].bytes)
    /\ pc' = [pc EXCEPT ![k] = "send"]
    /\ UNCHANGED <<mu, conns, req, ctx, trip, out>>

(* The pool has a connection: arm the tripwire and call xfer.Send.         *)
Begin(k) ==
    /\ pc[k] = "conn" /\ conns[Peer(k)] # None
    /\ LET c == conns[Peer(k)] IN
         /\ conn' = [conn EXCEPT ![k] = c]
         /\ BeginSend(c, req[k].bytes)
    /\ trip' = [trip EXCEPT ![k] = "armed"]
    /\ pc' = [pc EXCEPT ![k] = "send"]
    /\ UNCHANGED <<mu, conns, req, ctx, out>>

(* Mutants: the connection is kept although the tripwire fired; although   *)
(* the send failed; and only if the tripwire fired.                        *)
KeepIgnoringTrip(k) == sender[conn[k]] = "sent"
KeepIgnoringError(k) == trip[k] = "armed"
KeepIfFired(k) == trip[k] # "armed" /\ sender[conn[k]] = "sent"

(* Send has returned.  stop() tells whether the tripwire was still unfired *)
(* and keeps it so; the connection stays pooled only if it was and the     *)
(* send succeeded.  Nothing another goroutine does between stop() and the  *)
(* unlock tells these steps apart, so they are one.                        *)
Keep(k) == trip[k] = "armed" /\ sender[conn[k]] = "sent"

Finish(k) ==
    /\ pc[k] = "send" /\ sender[conn[k]] \in {"sent", "failed"}
    /\ trip' = [trip EXCEPT ![k] = IF @ = "armed" THEN "stopped" ELSE @]
    /\ IF Keep(k)
       THEN UNCHANGED <<conns, xvars>>
       ELSE /\ CloseConns({conn[k]})
            /\ conns' = [conns EXCEPT ![Peer(k)] = None]
    /\ Return(k, IF sender[conn[k]] = "sent" THEN "OK" ELSE Failure(k))
    /\ Unlock
    /\ UNCHANGED <<req, ctx, conn>>

(* Worker.Close: waits for the lock and closes every pooled connection.    *)
Close ==
    /\ mu = None
    /\ LET pooled == {conns[p] : p \in Peers} \ {None} IN
         pooled # {} /\ CloseConns(pooled)
    /\ conns' = [p \in Peers |-> None]
    /\ UNCHANGED <<mu, pc, req, ctx, trip, conn, out>>

-----------------------------------------------------------------------------
(* The call's deadline passes or its caller cancels it.                    *)
CtxEnd(k) ==
    /\ pc[k] \in {"lock", "conn", "send"} /\ ~CtxErr(k)
    /\ \E e \in CtxErrs : ctx' = [ctx EXCEPT ![k] = e]
    /\ UNCHANGED <<mu, conns, pc, req, trip, conn, out, xvars>>

(* context starts the tripwire's goroutine, some time after the context    *)
(* ended; from here on stop() returns false.                               *)
TripFire(k) ==
    /\ trip[k] = "armed" /\ CtxErr(k)
    /\ trip' = [trip EXCEPT ![k] = "fired"]
    /\ UNCHANGED <<mu, conns, pc, req, ctx, conn, out, xvars>>

(* That goroutine sets the connection's deadline, whoever uses it by then. *)
TripRun(k) ==
    /\ trip[k] = "fired"
    /\ trip' = [trip EXCEPT ![k] = "ran"]
    /\ Expire(conn[k])
    /\ UNCHANGED <<mu, conns, pc, req, ctx, conn, out>>

(* A step of the call's own goroutine once it has a request.               *)
Step(k) == Lock(k) \/ LockTooLate(k) \/ Dial(k) \/ DialFails(k) \/ Begin(k) \/ Finish(k)

Next ==
    \/ \E k \in Calls : \/ \E r \in Requests : Transfer(k, r)
                        \/ Step(k) \/ CtxEnd(k) \/ TripFire(k) \/ TripRun(k)
    \/ Close
    \/ \E c \in Conns : (Send(c) \/ Serve(c) \/ Break(c)) /\ UNCHANGED wvars

Spec == Init /\ [][Next]_vars

(* The Go scheduler runs every goroutine that can run, every context ends  *)
(* (the controller gives each call a timeout), and a context that ended    *)
(* fires its tripwire.  Nothing is assumed of the receiver, of the link,   *)
(* or of a dial that could still succeed.                                  *)
Fairness ==
    \A k \in Calls : /\ WF_vars(Step(k))
                     /\ WF_vars(Send(k) /\ UNCHANGED wvars)
                     /\ WF_vars(CtxEnd(k))
                     /\ WF_vars(TripFire(k))
                     /\ WF_vars(TripRun(k))

FairSpec == Spec /\ Fairness

-----------------------------------------------------------------------------
TypeOK ==
    /\ XTypeOK
    /\ mu \in Calls \cup {None}
    /\ conns \in [Peers -> Calls \cup {None}]
    /\ pc \in [Calls -> {"new", "lock", "conn", "send", "done"}]
    /\ req \in [Calls -> Requests]
    /\ ctx \in [Calls -> {"live"} \cup CtxErrs]
    /\ trip \in [Calls -> TripStates]
    /\ conn \in [Calls -> Calls \cup {None}]
    /\ out \in [Calls -> Codes \cup {None}]

(* A connection that the next call will reuse can carry it: it is open,    *)
(* its deadline is not in the past, no tripwire of an earlier call is on   *)
(* its way to it, and it is at a boundary between transfers.               *)
PoolIsUsable ==
    \A p \in Peers : mu = None /\ conns[p] # None =>
        LET c == conns[p] IN
            /\ sender[c] \in {"ready", "sent"}
            /\ ~expired[c]
            /\ \A k \in Calls : conn[k] = c => trip[k] \notin {"armed", "fired"}
            /\ wire[c] = <<>> /\ replies[c] = 0

(* Two calls never send on one connection at once.                         *)
OneSendAtATime ==
    \A k, l \in Calls : pc[k] = "send" /\ pc[l] = "send" => k = l

(* A peer is called Unavailable only when dialling it failed or its        *)
(* connection broke; a context that ended, of this call or of an earlier   *)
(* one on the same connection, is never blamed on the network.             *)
NoFalseBlame ==
    \A k \in Calls : out[k] = "Unavailable" /\ conn[k] # None => broken[conn[k]]

(* Every open connection is in the pool, so none is leaked and a peer      *)
(* never has two.                                                          *)
NoLeak ==
    \A c \in Conns : Open(c) => conns[Peer(c)] = c

(* Every call that returned OK had a whole transfer of its own arrive.     *)
OKMeansDelivered ==
    \A c \in Conns :
        LET oks == {k \in Calls : out[k] = "OK" /\ conn[k] = c}
            arrived == {j \in DOMAIN received[c] : received[c][j] # 0}
        IN  \E f \in [oks -> arrived] :
                /\ \A k, l \in oks : f[k] = f[l] => k = l
                /\ \A k \in oks : received[c][f[k]] = req[k].bytes

(* A connection stays warm: it is closed only by Close, or by the call     *)
(* that used it when its send failed or its context ended.                 *)
StaysWarm ==
    [][\A c \in Conns : Open(c) /\ sender'[c] = "closed" =>
            \/ mu = None
            \/ sender[c] = "failed"
            \/ ctx[mu] # "live" /\ conn[mu] = c]_vars

(* Every call returns, also when its peer stops reading or the calls ahead *)
(* of it are stuck on one.                                                 *)
EveryCallReturns ==
    \A k \in Calls : pc[k] = "lock" ~> pc[k] = "done"

GivenUp(k) == pc[k] = "lock" /\ CtxErr(k)

(* A call given up while it waited for the lock has no effect from then    *)
(* on, whatever it finds when it gets there: it dials no connection, sends *)
(* on none, and what it returns is how its context ended.                  *)
WithoutEffect(k) == sender[k] = "none" /\ conn[k] = None /\ out[k] \in {None, ctx[k]}

GivenUpNeverStarts == \A k \in Calls : [](GivenUp(k) => []WithoutEffect(k))

-----------------------------------------------------------------------------
(* Why they hold.  Whatever is unsafe about a connection, an unfinished    *)
(* Send, a deadline in the past or a tripwire under way, belongs to the    *)
(* call that holds the lock, and that call drops the connection before it  *)
(* lets go.                                                                *)

(* The lock is held from conn to the end of Finish, and by one call. *)
LockInv == \A k \in Calls : mu = k <=> pc[k] \in {"conn", "send"}

(* What a call has done by the time it is where it is. *)
CallInv ==
    \A k \in Calls :
        /\ pc[k] \in {"lock", "conn", "send"} => Peer(k) \in Allowed /\ req[k].bytes \in Sizes
        /\ pc[k] # "done" => out[k] = None
        /\ pc[k] \in {"new", "lock"} => sender[k] = "none"
        /\ pc[k] \in {"new", "lock", "conn"} => conn[k] = None /\ trip[k] = "unset"
        /\ pc[k] = "send" => /\ conn[k] = conns[Peer(k)] /\ conn[k] # None
                             /\ InSend(conn[k]) \/ sender[conn[k]] \in {"sent", "failed"}
                             /\ trip[k] \in {"armed", "fired", "ran"}

(* The pool holds the open connections and no others. *)
PoolInv ==
    /\ \A p \in Peers : conns[p] # None => Open(conns[p]) /\ Peer(conns[p]) = p
    /\ \A c \in Calls : Open(c) => Peer(c) \in Peers /\ conns[Peer(c)] = c

(* A Send under way, or one that failed, is the lock holder's. *)
SendInv ==
    \A c \in Calls : InSend(c) \/ sender[c] = "failed" =>
        mu \in Calls /\ pc[mu] = "send" /\ conn[mu] = c

(* A tripwire outlives its call only on a closed connection. *)
TripInv ==
    \A k \in Calls :
        /\ trip[k] = "armed" => pc[k] = "send"
        /\ trip[k] \in {"fired", "ran"} => CtxErr(k) /\ conn[k] # None
        /\ trip[k] = "fired" /\ pc[k] # "send" => sender[conn[k]] = "closed"

(* A deadline in the past on an open connection is the lock holder's. *)
ExpiryInv ==
    \A c \in Calls : expired[c] =>
        \/ sender[c] = "closed"
        \/ mu \in Calls /\ pc[mu] = "send" /\ conn[mu] = c /\ trip[mu] = "ran"

(* A Send fails for one of two reasons. *)
FailureInv == \A c \in Calls : sender[c] = "failed" => broken[c] \/ expired[c]

WInv == /\ TypeOK /\ LockInv /\ CallInv /\ PoolInv /\ SendInv
        /\ TripInv /\ ExpiryInv /\ FailureInv /\ NoFalseBlame
=============================================================================
