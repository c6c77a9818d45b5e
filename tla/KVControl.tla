------------------------------ MODULE KVControl ------------------------------
(***************************************************************************)
(* The command kvcontrol: one Run whose ctx Ctrl-C ends, and after it the  *)
(* rows WriteCSV writes, or an exit that writes none.                      *)
(***************************************************************************)
EXTENDS Controller

VARIABLES
    exit,     \* "running", "ok", or "fatal" for log.Fatal
    rows      \* the CSV rows on stdout

kvars == <<vars, exit, rows>>

KVInit == Init /\ exit = "running" /\ rows = <<>>

(* errors.Is(err, context.Canceled): only the error waitUntil took from    *)
(* ctx is that; the error of a call that Ctrl-C cut off is a gRPC status.  *)
ExitsNormally == err \in {"none", "ctx"}

Exit ==
    /\ pc = "returned" /\ exit = "running"
    /\ \/ ExitsNormally /\ exit' = "ok" /\ rows' = WriteCSV(results)
       \/ ~ExitsNormally /\ exit' = "fatal" /\ rows' = rows
    /\ UNCHANGED vars

KVNext == (Next /\ UNCHANGED <<exit, rows>>) \/ Exit

KVSpec == KVInit /\ [][KVNext]_kvars /\ Fairness /\ WF_kvars(Exit)

-----------------------------------------------------------------------------
Measured(row) == row.bytes > 0 /\ row.actual # Empty
Measures(j) == Cardinality({i \in 1..j : Measured(rows[i])})

(* An exit without an error has a row for every request unless Ctrl-C cut  *)
(* the run short, and its measured times are those the learner was told,   *)
(* no more and no fewer: a transfer that failed or was cut off never reads *)
(* as one that took no time.                                               *)
RowsAreComplete ==
    exit = "ok" =>
        /\ Len(rows) = N \/ ctxEnded
        /\ Len(learned) = Measures(Len(rows))
        /\ \A j \in DOMAIN rows : Measured(rows[j]) =>
                learned[Measures(j)] = [bytes |-> rows[j].bytes, seconds |-> rows[j].actual]

(* kvcontrol ends.                                                         *)
ProgramExits == <>(exit # "running")

(* "Ctrl-C ends the run early and still writes the rows of the requests    *)
(* that finished": a run Ctrl-C stopped, rather than its settings or the   *)
(* worker's rejection, exits with its rows.                                *)
CtrlCWritesRows ==
    exit # "running" /\ ctxEnded /\ err \notin {"config", "estimate"} \cup Misconfigured
        => exit = "ok"
=============================================================================
