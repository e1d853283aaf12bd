---------------------------- MODULE AtLeastOnce ----------------------------
(***************************************************************************)
(* What one pipeline stage promises about the messages of its sub queue:   *)
(* a message leaves the queue for good only after a result was published   *)
(* for it, or after its own conversion was rejected.  A result may be      *)
(* published more than once, but never after the message was settled.      *)
(***************************************************************************)
CONSTANT Messages

VARIABLES
    outstanding,   \* messages the sub queue still holds, delivered or not
    published,     \* messages a result was published for
    rejected       \* messages that cannot be converted

vars == <<outstanding, published, rejected>>

TypeOK ==
    /\ outstanding \subseteq Messages
    /\ published \subseteq Messages
    /\ rejected \subseteq Messages

Init ==
    /\ outstanding = Messages
    /\ published = {}
    /\ rejected = {}

Publish(m) ==
    /\ m \in outstanding
    /\ published' = published \cup {m}
    /\ UNCHANGED <<outstanding, rejected>>

Reject(m) ==
    /\ m \in outstanding
    /\ rejected' = rejected \cup {m}
    /\ UNCHANGED <<outstanding, published>>

Settle(m) ==
    /\ m \in outstanding
    /\ m \in published \cup rejected
    /\ outstanding' = outstanding \ {m}
    /\ UNCHANGED <<published, rejected>>

Next == \E m \in Messages : Publish(m) \/ Reject(m) \/ Settle(m)

Spec == Init /\ [][Next]_vars
=============================================================================
