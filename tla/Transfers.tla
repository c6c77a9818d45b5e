------------------------------ MODULE Transfers ------------------------------
(***************************************************************************)
(* What a worker's Transfer promises to the calls it serves, without how:  *)
(* no mutex, pool, stream or reply.  Worker implements it, and System      *)
(* joins it to the controller.                                             *)
(***************************************************************************)
EXTENDS Integers, FiniteSets

CONSTANTS Calls,      \* the Transfer calls
          Sizes,      \* lengths a transfer may have
          Peers,      \* peer addresses a request may name
          Allowed,    \* those the worker may send to
          NoPeer,     \* the empty peer address
          CtxErrs,    \* the codes for how a context ends
          None        \* no answer yet

VARIABLES
    stage,      \* where each call is
    bytes,      \* the length it asked for, once accepted
    ctx,        \* its context: "live", or the code for how it ended
    begun,      \* the calls whose transfer began
    arrived,    \* of each length, how many transfers the peer has whole
    out         \* the code each call returned

tvars == <<stage, bytes, ctx, begun, arrived, out>>

Requests == [peer : Peers \cup {NoPeer}, bytes : Sizes \cup {0}]

TInit ==
    /\ stage = [k \in Calls |-> "new"]
    /\ bytes = [k \in Calls |-> 0]
    /\ ctx = [k \in Calls |-> "live"]
    /\ begun = {}
    /\ arrived = [n \in Sizes |-> 0]
    /\ out = [k \in Calls |-> None]

-----------------------------------------------------------------------------
Return(k, code) ==
    /\ stage' = [stage EXCEPT ![k] = "done"]
    /\ out' = [out EXCEPT ![k] = code]
    /\ UNCHANGED <<bytes, ctx, begun, arrived>>

(* A bad request is turned away and nothing else happens.                  *)
Refuse(k, r) ==
    /\ stage[k] = "new"
    /\ \/ /\ r.bytes <= 0 \/ r.peer = NoPeer
          /\ Return(k, "InvalidArgument")
       \/ /\ r.bytes > 0 /\ r.peer \notin Allowed \cup {NoPeer}
          /\ Return(k, "PermissionDenied")

(* Any other takes its place in the queue.                                 *)
Accept(k, r) ==
    /\ stage[k] = "new" /\ r.bytes > 0 /\ r.peer \in Allowed
    /\ stage' = [stage EXCEPT ![k] = "waiting"]
    /\ bytes' = [bytes EXCEPT ![k] = r.bytes]
    /\ UNCHANGED <<ctx, begun, arrived, out>>

(* One transfer at a time.                                                 *)
Begin(k) ==
    /\ stage[k] = "waiting" /\ \A l \in Calls : stage[l] # "sending"
    /\ stage' = [stage EXCEPT ![k] = "sending"]
    /\ begun' = begun \cup {k}
    /\ UNCHANGED <<bytes, ctx, arrived, out>>

OfLength(n, K) == {k \in K : bytes[k] = n}
OKs == {k \in Calls : out[k] = "OK"}

(* A transfer that began arrives, whether or not its call still waits for  *)
(* it: once at most for each call.                                         *)
Arrive(n) ==
    /\ arrived[n] < Cardinality(OfLength(n, begun))
    /\ arrived' = [arrived EXCEPT ![n] = @ + 1]
    /\ UNCHANGED <<stage, bytes, ctx, begun, out>>

(* Mutant: OK when the bytes were written, arrived or not.                 *)
SucceedUnarrived(k) == stage[k] = "sending" /\ Return(k, "OK")

(* OK is for a transfer that arrived and was nobody else's.                *)
Succeed(k) ==
    /\ stage[k] = "sending"
    /\ Cardinality(OfLength(bytes[k], OKs)) < arrived[bytes[k]]
    /\ Return(k, "OK")

(* A call whose context ended says so; the network is to blame only in     *)
(* calls that still wanted their answer.                                   *)
Fail(k) ==
    /\ stage[k] \in {"waiting", "sending"}
    /\ Return(k, IF ctx[k] = "live" THEN "Unavailable" ELSE ctx[k])

CtxEnd(k, e) ==
    /\ stage[k] \in {"waiting", "sending"} /\ ctx[k] = "live"
    /\ ctx' = [ctx EXCEPT ![k] = e]
    /\ UNCHANGED <<stage, bytes, begun, arrived, out>>

TNext ==
    \/ \E k \in Calls : \/ \E r \in Requests : Refuse(k, r) \/ Accept(k, r)
                        \/ Begin(k) \/ Succeed(k) \/ Fail(k)
                        \/ \E e \in CtxErrs : CtxEnd(k, e)
    \/ \E n \in Sizes : Arrive(n)

TSpec == TInit /\ [][TNext]_tvars

(* Every call returns.                                                     *)
TFairness == \A k \in Calls : WF_tvars(Succeed(k) \/ Fail(k))
=============================================================================
