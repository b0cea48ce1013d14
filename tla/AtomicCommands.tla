--------------------------- MODULE AtomicCommands ---------------------------
(***************************************************************************)
(* What the write side promises its callers, with no store, no versions    *)
(* and no retries: every call takes effect at one instant, on the history  *)
(* its customer has at that instant, or not at all.  A registration takes  *)
(* effect only on an empty history.                                        *)
(***************************************************************************)
EXTENDS Customer

CONSTANTS Call,     \* the calls of Stories.Tell
          Command   \* the commands they may carry

VARIABLES
  history,  \* the events of each customer
  command,  \* the command each call carries
  effect    \* what became of each call: "pending", "applied" or "refused"

vars == <<history, command, effect>>

Init ==
  /\ history = [id \in CustomerId |-> <<>>]
  /\ command \in [Call -> Command]
  /\ effect = [c \in Call |-> "pending"]

\* The call takes effect: its customer's history grows by what it decides.
Execute(c) ==
  LET id == command[c].customerId IN
  /\ effect[c] = "pending"
  /\ CanTell(command[c])
  /\ command[c].type = "RegisterCustomer" => history[id] = <<>>
  /\ history' = [history EXCEPT ![id] = @ \o Decide(command[c], @)]
  /\ effect' = [effect EXCEPT ![c] = "applied"]
  /\ UNCHANGED command

\* The call fails and leaves no trace.
Refuse(c) ==
  /\ effect[c] = "pending"
  /\ effect' = [effect EXCEPT ![c] = "refused"]
  /\ UNCHANGED <<history, command>>

Next == \E c \in Call : Execute(c) \/ Refuse(c)

Spec == Init /\ [][Next]_vars
=============================================================================
