------------------------------- MODULE System -------------------------------
(***************************************************************************)
(* kvcontrol's controller and one kvworker, joined by gRPC: Run's calls    *)
(* become calls of Transfer, and what Transfer returns becomes Run's       *)
(* answer, unless one of the two has stopped waiting for the other.        *)
(*                                                                         *)
(* The two ends of a call end separately.  The controller's call ends when *)
(* its timeout passes, its ctx ends or the connection to the worker is     *)
(* lost; the worker's handler runs on until it notices, and may still wait *)
(* for the mutex, or finish its transfer, when the controller calls again. *)
(* The worker process may die and be started again.                        *)
(*                                                                         *)
(* The worker is Transfers, which Worker implements.  A call is named by   *)
(* its request's place in the run.                                         *)
(***************************************************************************)
EXTENDS Controller

CONSTANTS Sizes, Peers, Allowed, NoPeer, CtxErrs, None,     \* see Transfers
          MaxRestarts     \* bound on how often the worker process dies

ASSUME RestartsAssumption == MaxRestarts \in Nat
ASSUME SizesAssumption ==
    /\ Sizes \subseteq Nat \ {0}
    /\ \A s \in Scenarios : PrefixBytes(s) > 0 => PrefixBytes(s) \in Sizes
ASSUME PeersAssumption == NoPeer \notin Allowed
ASSUME CtxErrsAssumption == CtxErrs \subseteq {"DeadlineExceeded", "Canceled"}
ASSUME NoneAssumption == None \notin {"OK"} \cup CallErrors

Calls == 1..N

VARIABLES
    stage, bytes, ctx, begun, arrived, out,     \* see Transfers
    asked,      \* the bytes each call asks for; 0 for no call
    restarts    \* how often the worker process died

T == INSTANCE Transfers

tvars == <<stage, bytes, ctx, begun, arrived, out>>
svars == <<vars, tvars, asked, restarts>>

SInit ==
    /\ Init /\ T!TInit
    /\ asked = [k \in Calls |-> 0]
    /\ restarts = 0

-----------------------------------------------------------------------------
(* The controller waits in call k.                                         *)
Waiting(k) == pc = "call" /\ k = Len(results)

(* The end of Run's ctx, or a turn of its loop; one that decides to        *)
(* transfer makes a call.                                                  *)
Control ==
    /\ Loop \/ CtxEnd
    /\ asked' = IF pc = "wait" /\ pc' = "call"
                THEN [asked EXCEPT ![Len(results')] = results'[Len(results')].bytes]
                ELSE asked
    /\ UNCHANGED <<tvars, restarts>>

(* The request reaches the worker, perhaps after the controller gave up.   *)
Arrive(k) ==
    /\ asked[k] # 0
    /\ LET r == [peer |-> cfg.peerAddr, bytes |-> asked[k]]
       IN  T!Refuse(k, r) \/ T!Accept(k, r)
    /\ UNCHANGED <<vars, asked, restarts>>

(* The handler's answer reaches a controller that still waits for it.      *)
Reply(k) ==
    /\ Waiting(k) /\ stage[k] = "done" /\ out[k] # None
    /\ IF out[k] = "OK" THEN \E t \in Times : CallSucceeds(t)
                        ELSE CallFails(out[k])
    /\ UNCHANGED <<tvars, asked, restarts>>

(* The call's timeout passes or the run's ctx ends; the call returns at    *)
(* once, whatever the worker does.                                         *)
GiveUp(k) ==
    /\ Waiting(k)
    /\ CallFails("DeadlineExceeded") \/ CallFails("Canceled")
    /\ UNCHANGED <<tvars, asked, restarts>>

(* The gRPC connection is lost or the worker cannot be reached.            *)
Disconnect(k) ==
    /\ Waiting(k)
    /\ CallFails("Unavailable")
    /\ UNCHANGED <<tvars, asked, restarts>>

(* The handler's ctx ends: it has the call's deadline and a clock of its   *)
(* own, and it is cancelled when the controller no longer waits.           *)
HandlerCtxEnd(k) ==
    /\ \E e \in CtxErrs : T!CtxEnd(k, e) /\ (e = "Canceled" => ~Waiting(k))
    /\ UNCHANGED <<vars, asked, restarts>>

(* The handlers run and the bytes arrive.                                  *)
Begin(k) == T!Begin(k) /\ UNCHANGED <<vars, asked, restarts>>
Returns(k) == (T!Succeed(k) \/ T!Fail(k)) /\ UNCHANGED <<vars, asked, restarts>>
Data(n) == T!Arrive(n) /\ UNCHANGED <<vars, asked, restarts>>

(* kvworker dies and is started again with the same flags: its handlers    *)
(* are gone and answer no more.  What was written may still arrive.        *)
Restart ==
    /\ restarts < MaxRestarts
    /\ restarts' = restarts + 1
    /\ stage' = [k \in Calls |-> IF stage[k] = "new" THEN "new" ELSE "done"]
    /\ UNCHANGED <<vars, bytes, ctx, begun, arrived, out, asked>>

SNext ==
    \/ Control \/ Restart
    \/ \E k \in Calls : \/ Arrive(k) \/ Reply(k) \/ GiveUp(k) \/ Disconnect(k)
                        \/ HandlerCtxEnd(k) \/ Begin(k) \/ Returns(k)
    \/ \E n \in Sizes : Data(n)

SSpec == SInit /\ [][SNext]_svars

(* Run's goroutine runs, its calls have a timeout, and a worker returns    *)
(* from every call, as Worker!EveryCallReturns has it.  Nothing is assumed *)
(* of the worker's answers, of the bytes or of gRPC.                       *)
SFairness ==
    /\ WF_svars(Loop /\ Control)
    /\ \A k \in Calls : WF_svars(GiveUp(k)) /\ WF_svars(Returns(k))

SFairSpec == SSpec /\ SFairness

-----------------------------------------------------------------------------
STypeOK ==
    /\ TypeOK
    /\ stage \in [Calls -> {"new", "waiting", "sending", "done"}]
    /\ bytes \in [Calls -> Sizes \cup {0}]
    /\ ctx \in [Calls -> {"live"} \cup CtxErrs]
    /\ begun \subseteq Calls
    /\ arrived \in [Sizes -> 0..N]
    /\ out \in [Calls -> {"OK", None} \cup CallErrors]
    /\ asked \in [Calls -> Sizes \cup {0}]
    /\ restarts \in 0..MaxRestarts

(* Whatever timed out, was cut off or died with the worker: each           *)
(* measurement the learner is given is of a transfer of that length that   *)
(* arrived whole, and no request is ever transferred twice.                *)
LearnedOf(n) == Cardinality({i \in DOMAIN learned : learned[i].bytes = n})
AskedOf(n) == Cardinality({k \in Calls : asked[k] = n})

DeliveredAsAsked ==
    \A n \in Sizes : LearnedOf(n) <= arrived[n] /\ arrived[n] <= AskedOf(n)

(* A run that is not stopped from outside ends before its last request for *)
(* one reason, a peer its worker may not send to; and as every later       *)
(* transfer would be rejected too, nothing was sent or learned before.     *)
RejectedFromTheStart ==
    err \in CallErrors /\ ~ctxEnded =>
        cfg.peerAddr \notin Allowed /\ learned = <<>> /\ begun = {}

(* Everything comes to rest: Run returns, although the worker may die or   *)
(* its peer never read, and no handler of a call it gave up on stays       *)
(* behind.                                                                 *)
ComesToRest ==
    <>[](pc = "returned" /\ \A k \in Calls : stage[k] \in {"new", "done"})
=============================================================================
