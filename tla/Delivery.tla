------------------------------ MODULE Delivery ------------------------------
(***************************************************************************)
(* What publishing an event promises, whatever happens to the connection:  *)
(* a call that reports success has put the event into every backend, one   *)
(* that fails may have put it into some, and a backend gets no more copies *)
(* than the attempts its publisher makes.  Broker implements this          *)
(* (event/multi.go, event/rabbit.go, event/http.go, infra/rabbit.go).      *)
(***************************************************************************)
EXTENDS Naturals

CONSTANTS
    Calls,       \* the calls of EventPublisher.Publish
    Backends,    \* where a call has to put its event
    Attempts     \* [Backends -> Nat], how often a publisher tries

VARIABLES
    copies,      \* copies[c][b]: how often b has received the event of c
    outcome      \* outcome[c]: what c has returned, "none" while it runs

vars == <<copies, outcome>>

Init ==
    /\ copies = [c \in Calls |-> [b \in Backends |-> 0]]
    /\ outcome = [c \in Calls |-> "none"]

Receive(c, b) ==
    /\ outcome[c] = "none"
    /\ copies[c][b] < Attempts[b]
    /\ copies' = [copies EXCEPT ![c][b] = @ + 1]
    /\ UNCHANGED outcome

Return(c) ==
    /\ outcome[c] = "none"
    /\ \E result \in {"ok", "error"} :
          /\ result = "ok" => \A b \in Backends : copies[c][b] > 0
          /\ outcome' = [outcome EXCEPT ![c] = result]
    /\ UNCHANGED copies

Next == \E c \in Calls : Return(c) \/ \E b \in Backends : Receive(c, b)

Spec == Init /\ [][Next]_vars
=============================================================================
