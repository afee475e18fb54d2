------------------------------ MODULE MCTaskRun ------------------------------
(* Instances of TaskRun small enough for TLC.                               *)
EXTENDS TaskRun

CONSTANTS local, host, address

\* The snapshot, the name, and two steps at its address.
MCTargets  == {local, host, address}
MCTargetOf == <<local, host, address, address>>

\* The layers of a diagnosis may fail one by one; of a pool, the last step.
MCShown ==
    [d \in BOOLEAN |-> [s \in Steps |->
        IF d THEN {"local_fact", "unsupported", "dns_answer", "dns_failure",
                   "tcp_connected", "tcp_refused", "http_response"}
        ELSE IF s = 4 THEN {"tcp_connected", "tcp_refused"} ELSE {"tcp_connected"}]]
=============================================================================
