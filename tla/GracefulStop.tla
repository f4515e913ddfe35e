----------------------------- MODULE GracefulStop -----------------------------
(***************************************************************************)
(* What a client may expect of a server that is told to stop, whatever     *)
(* happens inside: connections are accepted only while it serves; once it  *)
(* drains, the open ones can only go away; and a stop that reports success *)
(* leaves no connection open.  It may be cut short at any time.            *)
(***************************************************************************)
CONSTANT Conns

VARIABLES phase, open
stopVars == <<phase, open>>

Running == {"starting", "serving", "draining"}

Init == phase = "starting" /\ open = {}

Start == phase = "starting" /\ phase' = "serving" /\ UNCHANGED open

Accept(c) ==
    /\ phase = "serving" /\ c \notin open
    /\ open' = open \cup {c}
    /\ UNCHANGED phase

\* A client hangs up, or is told to: when draining starts, those without a request are.
Close ==
    /\ phase \in Running
    /\ open' \in SUBSET open
    /\ UNCHANGED phase

Drain ==
    /\ phase \in {"serving", "draining"}
    /\ phase' = "draining"
    /\ open' \in SUBSET open

\* The end that exit code 0 reports.
Stop == phase = "draining" /\ open = {} /\ phase' = "stopped" /\ UNCHANGED open

\* Exit code 1, or a signal nobody handles: the connections are cut.
Abort == phase \in Running /\ phase' = "aborted" /\ UNCHANGED open

Next == Start \/ (\E c \in Conns : Accept(c)) \/ Close \/ Drain \/ Stop \/ Abort

Spec == Init /\ [][Next]_stopVars
=============================================================================
