------------------------------- MODULE Sessions -------------------------------
(***************************************************************************)
(* Refresh tokens: AuthService.issue_refresh_token and rotate_refresh_token *)
(* over the rows of refresh_tokens.  Redemption is a sequence of separate  *)
(* statements with an await between each two; several requests run at once *)
(* (two tabs of a browser share its saved token), the server may stop in   *)
(* between, and an answer may not arrive.                                  *)
(*                                                                         *)
(* A login opens a family.  The jar of a family is the token its browser   *)
(* saved last.                                                             *)
(***************************************************************************)
CONSTANTS Tokens, Families, Handlers, None

ASSUME NoneAssumption == None \notin Tokens \cup Families

VARIABLES
  fam,      \* refresh_tokens.family_id; None: the token was never issued
  revoked,  \* rows with revoked_at set
  expired,  \* rows whose expires_at has passed
  next,     \* refresh_tokens.replaced_by
  account,  \* families whose account can still be resolved
  pc, tok, new,  \* per request: where it is, the token it presented, the one it minted
  jar,      \* jar[f]: the token the browser of f holds
  known,    \* history: tokens some answer was built from
  reused,   \* history: families revoked because of a reuse
  overlapped,  \* history: families of which two requests ran at once
  lossy        \* history: families of which an answer was lost

rows == <<fam, revoked, expired, next>>
request == <<pc, tok, new>>
history == <<known, reused, overlapped, lossy>>
vars == <<rows, account, request, jar, history>>

Steps == {"idle", "sent", "revoking", "valid", "resolved", "minted", "answer"}

\* replaced_by refers to a row, one of the same family.
Linked == \A t \in Tokens : next[t] # None => fam[t] # None /\ fam[next[t]] = fam[t]

\* Domains of the rows of refresh_tokens and of the requests; a token is
\* replaced by one of its own login.
TypeOK ==
  /\ fam \in [Tokens -> Families \cup {None}]
  /\ revoked \subseteq Tokens /\ expired \subseteq Tokens /\ known \subseteq Tokens
  /\ next \in [Tokens -> Tokens \cup {None}]
  /\ account \subseteq Families /\ reused \subseteq Families
  /\ overlapped \subseteq Families /\ lossy \subseteq Families
  /\ pc \in [Handlers -> Steps]
  /\ tok \in [Handlers -> Tokens \cup {None}] /\ new \in [Handlers -> Tokens \cup {None}]
  /\ jar \in [Families -> Tokens \cup {None}]
  /\ Linked

Init ==
  /\ fam = [t \in Tokens |-> None] /\ next = [t \in Tokens |-> None]
  /\ revoked = {} /\ expired = {} /\ known = {}
  /\ account = Families
  /\ pc = [h \in Handlers |-> "idle"]
  /\ tok = [h \in Handlers |-> None] /\ new = [h \in Handlers |-> None]
  /\ jar = [f \in Families |-> None]
  /\ reused = {} /\ overlapped = {} /\ lossy = {}

Fresh(t) == fam[t] = None
Serves(h, f) == pc[h] # "idle" /\ fam[tok[h]] = f
Goto(h, l) == pc' = [pc EXCEPT ![h] = l] /\ UNCHANGED <<tok, new>>

Finish(h) ==
  /\ pc' = [pc EXCEPT ![h] = "idle"]
  /\ tok' = [tok EXCEPT ![h] = None]
  /\ new' = [new EXCEPT ![h] = None]

-------------------------------------------------------------------------------
(* The control-plane repository. *)

CreateRefreshToken(t, f) ==
  /\ Fresh(t)
  /\ fam' = [fam EXCEPT ![t] = f]
  /\ UNCHANGED <<revoked, expired, next>>

\* A mutant of the next definition.
RotateKeepsOld(old, succ) ==
  /\ next' = [next EXCEPT ![old] = succ]
  /\ UNCHANGED <<fam, revoked, expired>>

\* An unconditional UPDATE on the row's id.
RotateRefreshToken(old, succ) ==
  /\ revoked' = revoked \cup {old}
  /\ next' = [next EXCEPT ![old] = succ]
  /\ UNCHANGED <<fam, expired>>

\* A mutant of the next definition.
ReuseOnlyPresented(t) ==
  /\ revoked' = revoked \cup {t}
  /\ UNCHANGED <<fam, expired, next>>

RevokeRefreshTokenFamily(t) ==
  /\ revoked' = revoked \cup {s \in Tokens : fam[s] = fam[t]}
  /\ UNCHANGED <<fam, expired, next>>

-------------------------------------------------------------------------------
(* The session endpoints. *)

IssueRefreshToken(f, t) ==
  /\ f \in account
  /\ \A s \in Tokens : fam[s] # f
  /\ CreateRefreshToken(t, f)
  /\ jar' = [jar EXCEPT ![f] = t]
  /\ known' = known \cup {t}
  /\ UNCHANGED <<account, request, reused, overlapped, lossy>>

\* A tab posts the saved token to /refresh.
Refresh(h, f) ==
  /\ pc[h] = "idle" /\ jar[f] # None
  /\ pc' = [pc EXCEPT ![h] = "sent"]
  /\ tok' = [tok EXCEPT ![h] = jar[f]]
  /\ overlapped' = IF \E g \in Handlers : Serves(g, f) THEN overlapped \cup {f}
                   ELSE overlapped
  /\ UNCHANGED <<rows, account, new, jar, known, reused, lossy>>

\* The SELECT of the row and the two tests on it.
GetRefreshToken(h) ==
  /\ pc[h] = "sent"
  /\ \/ tok[h] \in revoked /\ Goto(h, "revoking")
     \/ tok[h] \notin revoked /\ tok[h] \in expired /\ Finish(h)
     \/ tok[h] \notin revoked /\ tok[h] \notin expired /\ Goto(h, "valid")
  /\ UNCHANGED <<rows, account, jar, history>>

Reuse(h) ==
  /\ pc[h] = "revoking"
  /\ RevokeRefreshTokenFamily(tok[h])
  /\ reused' = reused \cup {fam[tok[h]]}
  /\ Finish(h)
  /\ UNCHANGED <<account, jar, known, overlapped, lossy>>

ResolveLocalAccount(h) ==
  /\ pc[h] = "valid"
  /\ IF fam[tok[h]] \in account THEN Goto(h, "resolved") ELSE Finish(h)
  /\ UNCHANGED <<rows, account, jar, history>>

\* A mutant of the next definition.
MintRevokesOld(h, t) ==
  /\ pc[h] = "resolved"
  /\ Fresh(t) /\ fam' = [fam EXCEPT ![t] = fam[tok[h]]]
  /\ revoked' = revoked \cup {tok[h]}
  /\ new' = [new EXCEPT ![h] = t]
  /\ pc' = [pc EXCEPT ![h] = "minted"]
  /\ UNCHANGED <<expired, next, account, tok, jar, history>>

\* A mutant of the next definition: the new token opens a family, as at a login.
MintOpensFamily(h, t) ==
  /\ pc[h] = "resolved"
  /\ \E f \in Families : (\A s \in Tokens : fam[s] # f) /\ CreateRefreshToken(t, f)
  /\ new' = [new EXCEPT ![h] = t]
  /\ pc' = [pc EXCEPT ![h] = "minted"]
  /\ UNCHANGED <<account, tok, jar, history>>

Mint(h, t) ==
  /\ pc[h] = "resolved"
  /\ CreateRefreshToken(t, fam[tok[h]])
  /\ new' = [new EXCEPT ![h] = t]
  /\ pc' = [pc EXCEPT ![h] = "minted"]
  /\ UNCHANGED <<account, tok, jar, history>>

Rotate(h) ==
  /\ pc[h] = "minted"
  /\ RotateRefreshToken(tok[h], new[h])
  /\ known' = known \cup {new[h]}
  /\ Goto(h, "answer")
  /\ UNCHANGED <<account, jar, reused, overlapped, lossy>>

Deliver(h) ==
  /\ pc[h] = "answer"
  /\ jar' = [jar EXCEPT ![fam[tok[h]]] = new[h]]
  /\ Finish(h)
  /\ UNCHANGED <<rows, account, history>>

-------------------------------------------------------------------------------
(* The environment. *)

\* The server stops, or the connection breaks, at any await of the handler.
Stop(h) ==
  /\ pc[h] # "idle"
  /\ Finish(h)
  /\ lossy' = IF pc[h] = "answer" THEN lossy \cup {fam[tok[h]]} ELSE lossy
  /\ UNCHANGED <<rows, account, jar, known, reused, overlapped>>

Expire(t) ==
  /\ ~Fresh(t) /\ expired' = expired \cup {t}
  /\ UNCHANGED <<fam, revoked, next, account, request, jar, history>>

DeleteAccount(f) ==
  /\ account' = account \ {f}
  /\ UNCHANGED <<rows, request, jar, history>>

HandlerStep(h) ==
  \/ GetRefreshToken(h) \/ Reuse(h) \/ ResolveLocalAccount(h)
  \/ Rotate(h) \/ Deliver(h) \/ Stop(h)
  \/ \E t \in Tokens : Mint(h, t)
  \/ \E f \in Families : Refresh(h, f)

Next ==
  \/ \E h \in Handlers : HandlerStep(h)
  \/ \E f \in Families : DeleteAccount(f) \/ \E t \in Tokens : IssueRefreshToken(f, t)
  \/ \E t \in Tokens : Expire(t)

Spec == Init /\ [][Next]_vars

-------------------------------------------------------------------------------
(* A browser that sends one refresh at a time and receives every answer is *)
(* not logged out: rotate_refresh_token never takes it for a reuse, and     *)
(* between two requests its saved token is one the server accepts; a        *)
(* refresh that was cut short before the rotation costs nothing.            *)
NoSpontaneousLogout ==
  \A f \in Families \ (overlapped \cup lossy) :
    /\ f \notin reused
    /\ (jar[f] # None /\ \A h \in Handlers : ~Serves(h, f)) => jar[f] \notin revoked

(* A reuse ends the family (revoke_refresh_token_family: "the whole family *)
(* ... is revoked, not just the one presented"), tokens that never reached *)
(* a browser included, unless another request of the family was under way. *)
ReuseEndsFamily ==
  \A f \in reused \ overlapped : \A t \in Tokens : fam[t] = f => t \in revoked

LiveTokens(f) == {t \in known \ revoked : fam[t] = f}
SpentTokens(f) == {t \in known \cap revoked : fam[t] = f}

Promise == INSTANCE TokenFamily WITH
  live <- [f \in Families |-> IF f \in overlapped THEN {} ELSE LiveTokens(f)],
  spent <- [f \in Families |-> IF f \in overlapped THEN {} ELSE SpentTokens(f)],
  void <- overlapped

(* Mint and rotate are two statements with a stop possible between them,   *)
(* yet until two requests of a family overlap each family behaves as a     *)
(* chain of tokens of which exactly one can be redeemed.                   *)
ImplementsTokenFamily == Promise!Spec

===============================================================================
