----------------------------- MODULE RpcTransport -----------------------------
(***************************************************************************)
(* What MpcClient relies on in a transport (MpcTransport.send): a call      *)
(* fails or is answered, once, and only with the reply to it.               *)
(***************************************************************************)
CONSTANTS Calls,    \* the calls of send, named by their JSON-RPC id
          None

VARIABLES status,   \* per call: "idle", "pending", "answered" or "failed"
          got,      \* per call: the call whose reply it returned with
          served    \* the calls the server has replied to

vars == <<status, got, served>>

Init == /\ status = [r \in Calls |-> "idle"]
        /\ got = [r \in Calls |-> None]
        /\ served = {}

Call(r) == /\ status[r] = "idle"
           /\ status' = [status EXCEPT ![r] = "pending"]
           /\ UNCHANGED <<got, served>>

\* The server may still reply to a call that has failed.
Serve(r) == /\ status[r] # "idle"
            /\ served' = served \cup {r}
            /\ UNCHANGED <<status, got>>

Answer(r) == /\ status[r] = "pending" /\ r \in served
             /\ status' = [status EXCEPT ![r] = "answered"]
             /\ got' = [got EXCEPT ![r] = r]
             /\ UNCHANGED served

\* A lost connection fails several calls at once.
Fail(R) == /\ \A r \in R : status[r] = "pending"
           /\ status' = [r \in Calls |-> IF r \in R THEN "failed" ELSE status[r]]
           /\ UNCHANGED <<got, served>>

Next == \/ \E r \in Calls : Call(r) \/ Serve(r) \/ Answer(r)
        \/ \E R \in SUBSET Calls : Fail(R)

Spec == Init /\ [][Next]_vars
=============================================================================
