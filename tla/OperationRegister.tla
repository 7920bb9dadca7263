--------------------------- MODULE OperationRegister ---------------------------
(***************************************************************************)
(* What a node agent promises the gateway about load operations, whatever  *)
(* is retried, repeated or late: an operation is accepted at most once,    *)
(* with one identity; at most one operation of a model is pending; an      *)
(* outcome is final until it is forgotten; an operation is announced ready *)
(* only at a moment when its model is served, from the definition that the *)
(* operation asked for; and a server is never taken for one of another     *)
(* definition: it goes before the model is served again.                   *)
(***************************************************************************)
CONSTANTS Op, Model, Identity, None
VARIABLES register, served   \* served[m]: the definition m is served from

Entry == [model : Model, id : Identity, state : {"pending", "ready", "failed"}]

Pending(m) ==
  {o \in Op : register[o] # None /\ register[o].model = m /\ register[o].state = "pending"}

Serves(m, digest) == m \in DOMAIN served /\ served[m] = digest

Init == register = [o \in Op |-> None] /\ served = [m \in {} |-> 0]

\* A model that is already served as asked is announced ready at once.
Accept(o, m, id) ==
  /\ register[o] = None
  /\ \/ /\ Pending(m) = {} /\ m \notin DOMAIN served
        /\ register' = [register EXCEPT ![o] = [model |-> m, id |-> id, state |-> "pending"]]
     \/ /\ Serves(m, id.digest)
        /\ register' = [register EXCEPT ![o] = [model |-> m, id |-> id, state |-> "ready"]]
  /\ UNCHANGED served

\* The register once the outcome of o is known.
Settled(o, state) ==
  [register EXCEPT ![o] = [model |-> register[o].model, id |-> register[o].id, state |-> state]]

ServedToo(m, digest) ==
  [l \in DOMAIN served \cup {m} |-> IF l = m THEN digest ELSE served[l]]

Finish(o) ==
  /\ register[o] # None /\ register[o].state = "pending"
  /\ \/ /\ register' = Settled(o, "ready")
        /\ register[o].model \notin DOMAIN served
        /\ served' = ServedToo(register[o].model, register[o].id.digest)
     \/ /\ register' = Settled(o, "failed")
        /\ UNCHANGED served

Forget(o) ==
  /\ register[o] # None /\ register[o].state # "pending"
  /\ register' = [register EXCEPT ![o] = None]
  /\ UNCHANGED served

Withdraw(m) ==
  /\ served' = [l \in DOMAIN served \ {m} |-> served[l]]
  /\ UNCHANGED register

Restart == register' = [o \in Op |-> None] /\ served' = [m \in {} |-> 0]

Next ==
  \/ \E o \in Op, m \in Model, id \in Identity : Accept(o, m, id)
  \/ \E o \in Op : Finish(o) \/ Forget(o)
  \/ \E m \in Model : Withdraw(m)
  \/ Restart

Spec == Init /\ [][Next]_<<register, served>>
=============================================================================
