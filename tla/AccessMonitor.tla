--------------------------- MODULE AccessMonitor ----------------------------
(***************************************************************************)
(* What access control promises: a request that needs a right is approved  *)
(* in one step, under the rights of that moment; what is approved, and     *)
(* nothing else, can be served; and what was refused stays refused.        *)
(***************************************************************************)
CONSTANTS
  Requests,
  Asks,    \* what can be asked for
  Open,    \* those of them that need no right
  NoAsk

VARIABLES
  rights,  \* the asks that may be approved at the moment
  ask,     \* what each request asks for
  verdict  \* "idle", "asked", "approved", then "served" or "refused"

vars == <<rights, ask, verdict>>

Init ==
  /\ rights \in SUBSET Asks
  /\ ask = [r \in Requests |-> NoAsk]
  /\ verdict = [r \in Requests |-> "idle"]

Decide(r, v) == verdict' = [verdict EXCEPT ![r] = v]

Ask(r) ==
  /\ verdict[r] = "idle"
  /\ \E a \in Asks :
       /\ ask' = [ask EXCEPT ![r] = a]
       /\ \/ Decide(r, "asked") \/ Decide(r, "refused")
          \/ a \in Open /\ Decide(r, "served")
  /\ UNCHANGED rights

\* An approval may be used at once, or later.
Approve(r) ==
  /\ verdict[r] = "asked"
  /\ ask[r] \in rights
  /\ Decide(r, "approved") \/ Decide(r, "served")
  /\ UNCHANGED <<rights, ask>>

Serve(r) ==
  /\ verdict[r] = "approved"
  /\ Decide(r, "served")
  /\ UNCHANGED <<rights, ask>>

\* An approval can be lost on its way.
Refuse(r) ==
  /\ verdict[r] \in {"asked", "approved"}
  /\ Decide(r, "refused")
  /\ UNCHANGED <<rights, ask>>

ChangeRights ==
  /\ rights' \in SUBSET Asks
  /\ UNCHANGED <<ask, verdict>>

Next ==
  \/ ChangeRights
  \/ \E r \in Requests : Ask(r) \/ Approve(r) \/ Serve(r) \/ Refuse(r)

Spec == Init /\ [][Next]_vars
=============================================================================
