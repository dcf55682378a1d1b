------------------------------ MODULE MCAccounts ------------------------------
(* Small instances of Accounts. *)
EXTENDS Accounts, TLC

CONSTANTS s1, w1, w2, c1, c2, i1, k1, h1, h2

\* A code of the school, and one of the platform.
MCCodeOf == c1 :> [place |-> s1, role |-> "parent", max |-> 1]
            @@ c2 :> [place |-> Platform, role |-> "super", max |-> 1]

MCMailOf == i1 :> [place |-> s1, role |-> "parent"]

\* Two questions in one run: a behaviour has one of the codes.  Without the one of
\* the platform there is nothing to choose between at login; that one does not
\* expire before it was used.
OneCode == \E c \in Codes : \A d \in Codes \ {c} : uses[d] = None
Lasting == \A c \in Codes : CodeOf[c].place = Platform /\ uses[c] = 0 => c \in active
MCSpec == Init /\ [][Next /\ (OneCode /\ Lasting)']_vars

Symmetry == Permutations(Handlers) \cup Permutations(Passwords)
===============================================================================
