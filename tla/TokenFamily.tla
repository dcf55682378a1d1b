----------------------------- MODULE TokenFamily ------------------------------
(***************************************************************************)
(* What refresh-token rotation promises for one login, called a family: at *)
(* any time one token is good, redeeming it replaces it by a new one in    *)
(* one step, and a reuse ends the family.  The promise is void once two    *)
(* redemptions of a family run at the same time.                           *)
(***************************************************************************)
CONSTANTS Tokens, Families

VARIABLES
  live,   \* live[f]: the tokens of f that can be redeemed
  spent,  \* spent[f]: the tokens of f that were redeemed or revoked
  void    \* the families about which nothing is promised any more

vars == <<live, spent, void>>

Used == UNION {live[f] \cup spent[f] : f \in Families}

Init ==
  /\ live = [f \in Families |-> {}]
  /\ spent = [f \in Families |-> {}]
  /\ void = {}

Open(f, t) ==
  /\ f \notin void
  /\ live[f] = {} /\ spent[f] = {} /\ t \notin Used
  /\ live' = [live EXCEPT ![f] = {t}]
  /\ UNCHANGED <<spent, void>>

Redeem(f, t, u) ==
  /\ f \notin void
  /\ live[f] = {t} /\ u \notin Used
  /\ live' = [live EXCEPT ![f] = {u}]
  /\ spent' = [spent EXCEPT ![f] = @ \cup {t}]
  /\ UNCHANGED void

End(f) ==
  /\ f \notin void
  /\ live' = [live EXCEPT ![f] = {}]
  /\ spent' = [spent EXCEPT ![f] = @ \cup live[f]]
  /\ UNCHANGED void

Void(f) ==
  /\ void' = void \cup {f}
  /\ live' = [live EXCEPT ![f] = {}]
  /\ spent' = [spent EXCEPT ![f] = {}]

Next ==
  \E f \in Families :
    \/ \E t \in Tokens : Open(f, t)
    \/ \E t, u \in Tokens : Redeem(f, t, u)
    \/ End(f)
    \/ Void(f)

Spec == Init /\ [][Next]_vars
===============================================================================
