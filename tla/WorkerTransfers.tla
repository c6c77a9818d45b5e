--------------------------- MODULE WorkerTransfers ---------------------------
(* Worker implements Transfers.                                            *)
EXTENDS Worker, FiniteSets

Stage(k) == CASE pc[k] \in {"lock", "conn"} -> "waiting"
              [] pc[k] = "send" -> "sending"
              [] OTHER -> pc[k]

(* The whole transfers of n chunks that the peers have.                    *)
Arrived(n) ==
    Cardinality(UNION {{c} \X {j \in DOMAIN received[c] : received[c][j] = n} : c \in Conns})

T == INSTANCE Transfers WITH
        stage <- [k \in Calls |-> Stage(k)],
        bytes <- [k \in Calls |-> req[k].bytes],
        begun <- {k \in Calls : conn[k] # None},
        arrived <- [n \in Sizes |-> Arrived(n)]

(* To its callers the worker is a Transfers service: every answer is one   *)
(* that Transfers allows at that point, in every interleaving of calls,    *)
(* contexts, tripwires and failing connections, and no transfer arrives    *)
(* that no call began.                                                     *)
ImplementsTransfers == T!TSpec
=============================================================================
