---------------------------- MODULE ProbeContract ----------------------------
(***************************************************************************)
(* What ValidateFrpServerConfig (pkg/utils/frpclient/validate.go) promises *)
(* to the webhook and the FrpServer reconciler, its two callers: nil only  *)
(* if the frp server has let this call in between its start and its        *)
(* return, and nothing of what the call acquired left behind, unless the   *)
(* process dies.                                                           *)
(***************************************************************************)
CONSTANTS
    Callers,
    Resources,
    Durable     \* the resources that outlive the process

VARIABLES
    call,       \* how far each call has come
    held,       \* what it holds
    nil,        \* the last one returned nil
    litter      \* what dead processes have left behind

vars == <<call, held, nil, litter>>

Init ==
    /\ call = [c \in Callers |-> "none"]
    /\ held = [c \in Callers |-> {}]
    /\ nil = [c \in Callers |-> FALSE]
    /\ litter = {}

Start(c) ==
    /\ call[c] = "none"
    /\ call' = [call EXCEPT ![c] = "busy"] /\ nil' = [nil EXCEPT ![c] = FALSE]
    /\ UNCHANGED <<held, litter>>

(* The frp server accepts a login.                                         *)
Admit(c) ==
    /\ call[c] = "busy"
    /\ call' = [call EXCEPT ![c] = "admitted"]
    /\ UNCHANGED <<held, nil, litter>>

(* Temporary files and connections come and go.                            *)
Work(c) ==
    /\ call[c] # "none"
    /\ held'[c] \subseteq Resources /\ held' = [held EXCEPT ![c] = held'[c]]
    /\ UNCHANGED <<call, nil, litter>>

(* A return, with nil or with an error.                                    *)
Finish(c) ==
    /\ call[c] # "none" /\ held[c] = {}
    /\ \E ok \in BOOLEAN :
          (ok => call[c] = "admitted") /\ nil' = [nil EXCEPT ![c] = ok]
    /\ call' = [call EXCEPT ![c] = "none"]
    /\ UNCHANGED <<held, litter>>

(* The process dies.  What outlives it stays for good: no call takes what  *)
(* it has not acquired itself, and none cleans up after another.           *)
Crash ==
    /\ call' = [c \in Callers |-> "none"]
    /\ held' = [c \in Callers |-> {}]
    /\ nil' = [c \in Callers |-> FALSE]
    /\ litter' = litter \cup {r \in Durable : \E c \in Callers : r \in held[c]}

Next == (\E c \in Callers : Start(c) \/ Admit(c) \/ Work(c) \/ Finish(c)) \/ Crash

Spec == Init /\ [][Next]_vars

=============================================================================
