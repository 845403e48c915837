---------------------------- MODULE TokenService ----------------------------
(***************************************************************************)
(* What the token exchange promises: a request is decided at most once and *)
(* for good; every grant is counted in the step that makes it; and a token *)
(* is granted only for a subject token that was alive no longer than       *)
(* MaxStale before, however the request came to its decision.              *)
(***************************************************************************)
EXTENDS Integers

CONSTANTS
  Requests,
  Tokens,     \* subject tokens
  Mortal,     \* those with an expiry
  NoToken,
  MaxStale

VARIABLES
  status,     \* "idle", "open", then "granted", "refused" or "dropped"
  subject,    \* the token that each request presents
  life,       \* what is left of each token's life; negative once expired
  issued      \* how many tokens have been granted

vars == <<status, subject, life, issued>>

Init ==
  /\ status = [r \in Requests |-> "idle"]
  /\ subject = [r \in Requests |-> NoToken]
  /\ life \in [Tokens -> Nat]
  /\ issued = 0

Decide(r, s) == status' = [status EXCEPT ![r] = s]

\* Some requests need not be looked at to be refused.
Ask(r) ==
  /\ status[r] = "idle"
  /\ \E t \in Tokens \union {NoToken} : subject' = [subject EXCEPT ![r] = t]
  /\ Decide(r, "open") \/ Decide(r, "refused")
  /\ UNCHANGED <<life, issued>>

Grant(r) ==
  /\ status[r] = "open"
  /\ subject[r] \in Tokens
  /\ subject[r] \in Mortal => life[subject[r]] >= -MaxStale
  /\ Decide(r, "granted")
  /\ issued' = issued + 1
  /\ UNCHANGED <<subject, life>>

Refuse(r) ==
  /\ status[r] = "open"
  /\ Decide(r, "refused")
  /\ UNCHANGED <<subject, life, issued>>

\* The client leaves, or the service ends with requests undecided.
Drop ==
  /\ \E gone \in SUBSET {r \in Requests : status[r] \in {"idle", "open"}} :
       status' = [r \in Requests |-> IF r \in gone THEN "dropped" ELSE status[r]]
  /\ UNCHANGED <<subject, life, issued>>

\* Time passes; a token that is long dead need not be followed.
Age ==
  /\ life' \in [Tokens -> Int]
  /\ \A t \in Tokens : life'[t] <= life[t]
  /\ UNCHANGED <<status, subject, issued>>

Next == Age \/ Drop \/ \E r \in Requests : Ask(r) \/ Grant(r) \/ Refuse(r)

Spec == Init /\ [][Next]_vars
=============================================================================
