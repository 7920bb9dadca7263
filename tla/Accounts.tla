------------------------------ MODULE Accounts ------------------------------
(***************************************************************************)
(* One account of the gateway, its API key, and the admin routes that      *)
(* change them (gateway/admin.py over gateway/database.py).  A route reads *)
(* the user by name on one database connection and writes by identifier on *)
(* another: two requests about one account interleave between the two.     *)
(* The caller of a request may have stopped waiting for it; the handler    *)
(* runs to its end all the same.                                           *)
(***************************************************************************)
EXTENDS Naturals, FiniteSets

VARIABLES user,      \* the users row
          key,       \* the api_keys row
          requests,  \* the requests in the gateway: [op, at]
          answers    \* the operations whose handler has answered, with the status

accountVars == <<user, key, requests, answers>>

Operations == {"create", "key", "revoke", "erase", "patch"}

\* A row that anonymize_user has erased keeps its identifier; its name, its
\* address and its notes ("pii") are gone and its old name finds nothing.
NoUser == [exists |-> FALSE, active |-> FALSE, erased |-> FALSE, pii |-> FALSE]

NoKey == [exists |-> FALSE, active |-> FALSE, named |-> FALSE]

AccountsInit ==
  /\ user = NoUser /\ key = NoKey
  /\ requests = {} /\ answers = [op \in Operations |-> 0]

\* get_user_by_username: by the name the caller knows.
Found == user.exists /\ ~user.erased

\* lookup_key: both the key and its user must be active.
KeyOpens == key.exists /\ key.active /\ user.active

Ask(op) ==
  /\ requests' = requests \cup {[op |-> op, at |-> "sent"]}
  /\ answers' = [answers EXCEPT ![op] = 0]

Reply(req, status) ==
  /\ requests' = requests \ {req}
  /\ answers' = [answers EXCEPT ![req.op] = status]

\* POST /admin/users: a name already taken is refused.
CreateUser(req) ==
  /\ req.op = "create" /\ req.at = "sent"
  /\ IF Found THEN Reply(req, 409) /\ UNCHANGED user
     ELSE /\ user' = [exists |-> TRUE, active |-> TRUE, erased |-> FALSE, pii |-> TRUE]
          /\ Reply(req, 201)
  /\ UNCHANGED key

\* The routes that read the user first answer 404 when there is none.
ReadUser(req) ==
  /\ req.op \in {"key", "erase", "patch"} /\ req.at = "sent"
  /\ IF Found THEN /\ requests' = (requests \ {req}) \cup {[req EXCEPT !.at = "read"]}
                   /\ UNCHANGED answers
     ELSE Reply(req, 404)
  /\ UNCHANGED <<user, key>>

\* POST /admin/users/{u}/keys: inserts a key for the identifier read before.
InsertKey(req) ==
  /\ req.op = "key" /\ req.at = "read"
  /\ key' = [exists |-> TRUE, active |-> TRUE, named |-> TRUE]
  /\ Reply(req, 201) /\ UNCHANGED user

\* DELETE /admin/keys/{prefix}
RevokeKey(req) ==
  /\ req.op = "revoke" /\ req.at = "sent"
  /\ key' = [key EXCEPT !.active = FALSE]
  /\ Reply(req, IF key.exists /\ key.active THEN 200 ELSE 404) /\ UNCHANGED user

\* DELETE /admin/users/{u}: anonymize_user, one transaction, also when the row
\* has been erased since it was read.
Anonymize(req) ==
  /\ req.op = "erase" /\ req.at = "read"
  /\ user' = [user EXCEPT !.active = user.active /\ user.erased, !.erased = TRUE,
                          !.pii = user.pii /\ user.erased]
  /\ key' = [key EXCEPT !.active = FALSE, !.named = FALSE]
  /\ Reply(req, 200)

\* PATCH /admin/users/{u}: update_user writes what the body holds, an address or
\* an activation, by the identifier read before.
UpdateUser(req) ==
  /\ req.op = "patch" /\ req.at = "read"
  /\ \/ user' = [user EXCEPT !.pii = TRUE]
     \/ user' = [user EXCEPT !.active = TRUE]
  /\ Reply(req, 200) /\ UNCHANGED key

Handle ==
  \E req \in requests :
    \/ CreateUser(req) \/ ReadUser(req) \/ InsertKey(req) \/ RevokeKey(req)
    \/ Anonymize(req) \/ UpdateUser(req)

AccountsTypeOK ==
  /\ user \in [exists : BOOLEAN, active : BOOLEAN, erased : BOOLEAN, pii : BOOLEAN]
  /\ key \in [exists : BOOLEAN, active : BOOLEAN, named : BOOLEAN]
  /\ requests \subseteq [op : Operations, at : {"sent", "read"}]
  /\ answers \in [Operations -> {0, 200, 201, 404, 409}]
=============================================================================
