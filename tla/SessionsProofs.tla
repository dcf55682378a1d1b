--------------------------- MODULE SessionsProofs -----------------------------
(***************************************************************************)
(* Proofs about the rotation of refresh tokens, for every set of tokens,   *)
(* logins and concurrent requests.                                         *)
(*                                                                         *)
(* The inductive invariant says what a redemption may rely on between two  *)
(* of its statements: while no two requests of a family overlapped, the    *)
(* one request that serves it holds the only token that can be redeemed.   *)
(***************************************************************************)
EXTENDS Sessions, TLAPS

Issued == {t \in Tokens : fam[t] # None}

\* Tokens in use have rows, and a browser holds a token of its own login.
Rows ==
  /\ known \subseteq Issued /\ revoked \subseteq Issued
  /\ \A f \in reused : \E s \in Tokens : fam[s] = f
  /\ \A f \in Families : jar[f] # None => jar[f] \in known /\ fam[jar[f]] = f

\* A request redeems a token that was handed out; the one it mints is of the
\* same family, its own, and not handed out before the rotation.
Flight ==
  \A h \in Handlers :
    /\ pc[h] # "idle" => tok[h] \in known
    /\ pc[h] \in {"minted", "answer"} => new[h] \in Tokens /\ fam[new[h]] = fam[tok[h]]
    /\ pc[h] = "answer" => new[h] \in known
    /\ pc[h] = "minted" => new[h] \notin known
    /\ \A g \in Handlers : pc[g] = "minted" /\ pc[h] = "minted" /\ g # h => new[g] # new[h]

\* Until two of its requests overlap, a family has one redeemable token at most,
\* and the request past its check holds it.
Single ==
  \A f \in Families \ overlapped :
    /\ \A g, h \in Handlers : Serves(g, f) /\ Serves(h, f) => g = h
    /\ \A t, u \in LiveTokens(f) : t = u
    /\ \A h \in Handlers : Serves(h, f) =>
         /\ pc[h] \in {"valid", "resolved", "minted"} => tok[h] \notin revoked
         /\ pc[h] = "minted" => new[h] \notin revoked

\* Until an answer is lost too, the browser's token is good whenever no answer
\* is on its way, and the requests in flight present that token.
Calm ==
  \A f \in Families \ (overlapped \cup lossy) :
    /\ f \notin reused
    /\ (jar[f] # None /\ \A h \in Handlers : ~(Serves(h, f) /\ pc[h] = "answer"))
         => jar[f] \notin revoked
    /\ \A h \in Handlers : Serves(h, f) =>
         /\ tok[h] = jar[f]
         /\ pc[h] # "revoking"
         /\ pc[h] = "answer" => new[h] \notin revoked

IInv == TypeOK /\ Rows /\ Flight /\ Single /\ Calm /\ ReuseEndsFamily

-------------------------------------------------------------------------------
(* Types.                                                                   *)

LEMMA InitInv == Init => IInv
  BY NoneAssumption DEF Init, IInv, TypeOK, Rows, Flight, Single, Calm, ReuseEndsFamily,
     Steps, Issued, Serves, LiveTokens, Linked

LEMMA TokenTyped ==
  ASSUME TypeOK, Rows, Flight, NEW h \in Handlers, pc[h] # "idle"
  PROVE  /\ tok[h] \in Tokens /\ tok[h] \in known
         /\ fam[tok[h]] \in Families
  BY DEF TypeOK, Rows, Flight, Issued

\* Rotation links a token to the one minted for it, in its own family.
LEMMA LinkedKept ==
  ASSUME IInv, [Next]_vars
  PROVE  Linked'
<1> USE DEF IInv
<1>0. Linked /\ next \in [Tokens -> Tokens \cup {None}]
  BY DEF TypeOK
<1>1. CASE UNCHANGED <<fam, next>>
  BY <1>0, <1>1 DEF Linked
<1>2. ASSUME NEW h \in Handlers, Rotate(h)
      PROVE  Linked'
  <2>1. /\ tok[h] \in Tokens /\ fam[tok[h]] \in Families /\ new[h] \in Tokens
        /\ fam[new[h]] = fam[tok[h]]
    BY <1>2, TokenTyped DEF Rotate, Flight
  <2>2. fam' = fam /\ next' = [next EXCEPT ![tok[h]] = new[h]]
    BY <1>2 DEF Rotate, RotateRefreshToken
  <2> QED BY <1>0, <2>1, <2>2, NoneAssumption DEF Linked
<1>3. ASSUME NEW t \in Tokens, NEW f \in Families, CreateRefreshToken(t, f)
      PROVE  Linked'
  <2>1. fam[t] = None /\ fam' = [fam EXCEPT ![t] = f] /\ next' = next
    BY <1>3 DEF CreateRefreshToken, Fresh, rows
  <2>2. fam \in [Tokens -> Families \cup {None}]
    BY DEF TypeOK
  <2>3. \A s \in Tokens : next[s] # None => next[s] # t /\ s # t
    BY <1>0, <2>1 DEF Linked
  <2> QED BY <1>0, <2>1, <2>2, <2>3 DEF Linked
<1>4. ASSUME NEW h \in Handlers, NEW t \in Tokens, Mint(h, t)
      PROVE  Linked'
  <2>1. fam[tok[h]] \in Families /\ CreateRefreshToken(t, fam[tok[h]])
    BY <1>4, TokenTyped DEF Mint
  <2> QED BY <2>1, <1>3
<1>5. ASSUME NEW f \in Families, NEW t \in Tokens, IssueRefreshToken(f, t)
      PROVE  Linked'
  BY <1>3, <1>5 DEF IssueRefreshToken
<1> QED
  BY <1>1, <1>2, <1>4, <1>5 DEF Next, HandlerStep, GetRefreshToken, Reuse, ResolveLocalAccount, Deliver,
     Stop, Refresh, DeleteAccount, Expire, RevokeRefreshTokenFamily, vars, rows

LEMMA NextTyped ==
  ASSUME IInv, [Next]_vars
  PROVE  TypeOK'
<1> USE DEF IInv
<1>0. Linked'
  BY LinkedKept
<1>1. CASE UNCHANGED vars
  BY <1>0, <1>1 DEF vars, rows, request, history, TypeOK
<1>2. ASSUME NEW h \in Handlers, GetRefreshToken(h) \/ ResolveLocalAccount(h)
      PROVE  TypeOK'
  BY <1>0, <1>2 DEF GetRefreshToken, ResolveLocalAccount, Goto, Finish, TypeOK, Steps, rows, history
<1>3. ASSUME NEW h \in Handlers, Reuse(h)
      PROVE  TypeOK'
  BY <1>0, <1>3, TokenTyped DEF Reuse, RevokeRefreshTokenFamily, Finish, TypeOK, Steps
<1>4. ASSUME NEW h \in Handlers, Rotate(h)
      PROVE  TypeOK'
  <2>1. new[h] \in Tokens /\ tok[h] \in Tokens
    BY <1>4, TokenTyped DEF Rotate, Flight
  <2> QED BY <1>0, <1>4, <2>1 DEF Rotate, RotateRefreshToken, Goto, TypeOK, Steps
<1>5. ASSUME NEW h \in Handlers, Deliver(h)
      PROVE  TypeOK'
  BY <1>0, <1>5 DEF Deliver, Finish, TypeOK, Steps, rows, history
<1>6. ASSUME NEW h \in Handlers, Stop(h)
      PROVE  TypeOK'
  BY <1>0, <1>6, TokenTyped DEF Stop, Finish, TypeOK, Steps, rows
<1>7. ASSUME NEW h \in Handlers, NEW t \in Tokens, Mint(h, t)
      PROVE  TypeOK'
  BY <1>0, <1>7, TokenTyped DEF Mint, CreateRefreshToken, TypeOK, Steps, history
<1>8. ASSUME NEW h \in Handlers, NEW f \in Families, Refresh(h, f)
      PROVE  TypeOK'
  BY <1>0, <1>8 DEF Refresh, TypeOK, Steps, rows
<1>9. ASSUME NEW f \in Families, DeleteAccount(f)
      PROVE  TypeOK'
  BY <1>0, <1>9 DEF DeleteAccount, TypeOK, rows, request, history
<1>10. ASSUME NEW f \in Families, NEW t \in Tokens, IssueRefreshToken(f, t)
       PROVE  TypeOK'
  BY <1>0, <1>10 DEF IssueRefreshToken, CreateRefreshToken, TypeOK, request
<1>11. ASSUME NEW t \in Tokens, Expire(t)
       PROVE  TypeOK'
  BY <1>0, <1>11 DEF Expire, TypeOK, request, history
<1> QED
  BY <1>1, <1>2, <1>3, <1>4, <1>5, <1>6, <1>7, <1>8, <1>9, <1>10, <1>11 DEF Next, HandlerStep

-------------------------------------------------------------------------------
(* What the steps do, sorted by what they change.                           *)

\* Steps that change neither the rows nor what was handed out: the request of h
\* goes on, ends, or begins.
Onward(h) == GetRefreshToken(h) \/ ResolveLocalAccount(h) \/ Stop(h)

LEMMA StepCases ==
  ASSUME [Next]_vars
  PROVE  \/ \E h \in Handlers : Onward(h) \/ Reuse(h) \/ Rotate(h) \/ Deliver(h)
         \/ \E h \in Handlers, t \in Tokens : Mint(h, t)
         \/ \E h \in Handlers, f \in Families : Refresh(h, f)
         \/ \E f \in Families, t \in Tokens : IssueRefreshToken(f, t)
         \/ UNCHANGED <<fam, revoked, known, request, jar, reused, overlapped, lossy>>
  BY DEF Next, HandlerStep, Onward, Expire, DeleteAccount, vars, rows, history

\* The step of h that only moves its program counter.
LEMMA OnwardEffect ==
  ASSUME TypeOK, NEW h \in Handlers, Onward(h)
  PROVE  /\ UNCHANGED <<fam, revoked, known, jar, reused, overlapped>>
         /\ lossy \subseteq lossy'
         /\ pc[h] # "idle"
         /\ pc'[h] \in {"idle", "revoking", "valid", "resolved"}
         /\ pc'[h] = "revoking" => pc[h] = "sent" /\ tok[h] \in revoked
         /\ pc'[h] = "valid" => pc[h] = "sent" /\ tok[h] \notin revoked
         /\ pc'[h] = "resolved" => pc[h] = "valid"
         /\ pc'[h] # "idle" => tok'[h] = tok[h]
         /\ pc[h] = "answer" => fam[tok[h]] \in lossy'
         /\ \A g \in Handlers \ {h} : pc'[g] = pc[g] /\ tok'[g] = tok[g] /\ new'[g] = new[g]
  BY DEF Onward, GetRefreshToken, ResolveLocalAccount, Stop, Goto, Finish, TypeOK, rows, history

\* Reuse, rotation and delivery in terms of the family they work on.
LEMMA ReuseEffect ==
  ASSUME TypeOK, NEW h \in Handlers, Reuse(h)
  PROVE  /\ UNCHANGED <<fam, known, jar, overlapped, lossy>>
         /\ revoked' = revoked \cup {s \in Tokens : fam[s] = fam[tok[h]]}
         /\ reused' = reused \cup {fam[tok[h]]}
         /\ pc[h] = "revoking" /\ pc'[h] = "idle"
         /\ \A g \in Handlers \ {h} : pc'[g] = pc[g] /\ tok'[g] = tok[g] /\ new'[g] = new[g]
  BY DEF Reuse, RevokeRefreshTokenFamily, Finish, TypeOK

LEMMA RotateEffect ==
  ASSUME TypeOK, NEW h \in Handlers, Rotate(h)
  PROVE  /\ UNCHANGED <<fam, jar, overlapped, lossy, reused, tok, new>>
         /\ revoked' = revoked \cup {tok[h]} /\ known' = known \cup {new[h]}
         /\ pc[h] = "minted" /\ pc'[h] = "answer"
         /\ \A g \in Handlers \ {h} : pc'[g] = pc[g]
  BY DEF Rotate, RotateRefreshToken, Goto, TypeOK

LEMMA DeliverEffect ==
  ASSUME TypeOK, NEW h \in Handlers, Deliver(h)
  PROVE  /\ UNCHANGED <<fam, revoked, known, overlapped, lossy, reused>>
         /\ pc[h] = "answer" /\ pc'[h] = "idle"
         /\ jar' = [jar EXCEPT ![fam[tok[h]]] = new[h]]
         /\ \A g \in Handlers \ {h} : pc'[g] = pc[g] /\ tok'[g] = tok[g] /\ new'[g] = new[g]
  BY DEF Deliver, Finish, TypeOK, rows, history

LEMMA MintEffect ==
  ASSUME TypeOK, NEW h \in Handlers, NEW t \in Tokens, Mint(h, t)
  PROVE  /\ UNCHANGED <<revoked, known, jar, overlapped, lossy, reused, tok>>
         /\ fam[t] = None /\ fam'[t] = fam[tok[h]]
         /\ \A s \in Tokens \ {t} : fam'[s] = fam[s]
         /\ pc[h] = "resolved" /\ pc'[h] = "minted" /\ new'[h] = t
         /\ \A g \in Handlers \ {h} : pc'[g] = pc[g] /\ new'[g] = new[g]
  BY DEF Mint, CreateRefreshToken, Fresh, TypeOK, history

LEMMA RefreshEffect ==
  ASSUME TypeOK, NEW h \in Handlers, NEW f \in Families, Refresh(h, f)
  PROVE  /\ UNCHANGED <<fam, revoked, known, jar, lossy, reused, new>>
         /\ overlapped' = IF \E g \in Handlers : Serves(g, f) THEN overlapped \cup {f}
                          ELSE overlapped
         /\ jar[f] # None
         /\ pc[h] = "idle" /\ pc'[h] = "sent" /\ tok'[h] = jar[f]
         /\ \A g \in Handlers \ {h} : pc'[g] = pc[g] /\ tok'[g] = tok[g]
  BY DEF Refresh, TypeOK, rows

LEMMA IssueEffect ==
  ASSUME TypeOK, NEW f \in Families, NEW t \in Tokens, IssueRefreshToken(f, t)
  PROVE  /\ UNCHANGED <<revoked, pc, tok, new, overlapped, lossy, reused>>
         /\ fam[t] = None /\ fam'[t] = f
         /\ \A s \in Tokens \ {t} : fam'[s] = fam[s]
         /\ \A s \in Tokens : fam[s] # f
         /\ known' = known \cup {t}
         /\ jar'[f] = t /\ \A g \in Families \ {f} : jar'[g] = jar[g]
  BY DEF IssueRefreshToken, CreateRefreshToken, Fresh, TypeOK, request

-------------------------------------------------------------------------------
(* Rows and requests in flight.                                             *)

LEMMA RowsKept ==
  ASSUME IInv, [Next]_vars
  PROVE  Rows'
<1> USE DEF IInv
<1>1. CASE UNCHANGED <<fam, revoked, known, request, jar, reused, overlapped, lossy>>
  BY <1>1 DEF Rows, Issued
<1>2. ASSUME NEW h \in Handlers, Onward(h)
      PROVE  Rows'
  BY <1>2, OnwardEffect DEF Rows, Issued
<1>3. ASSUME NEW h \in Handlers, Reuse(h)
      PROVE  Rows'
  <2>1. tok[h] \in Tokens /\ fam[tok[h]] \in Families
    BY <1>3, TokenTyped, ReuseEffect
  <2> QED
    BY <1>3, <2>1, ReuseEffect, NoneAssumption DEF Rows, Issued
<1>4. ASSUME NEW h \in Handlers, Rotate(h)
      PROVE  Rows'
  <2>1. tok[h] \in Tokens /\ fam[tok[h]] \in Families /\ new[h] \in Tokens
        /\ fam[new[h]] = fam[tok[h]]
    BY <1>4, TokenTyped, RotateEffect DEF Flight
  <2> QED
    BY <1>4, <2>1, RotateEffect, NoneAssumption DEF Rows, Issued
<1>5. ASSUME NEW h \in Handlers, Deliver(h)
      PROVE  Rows'
  <2>1. fam[tok[h]] \in Families /\ new[h] \in known /\ fam[new[h]] = fam[tok[h]]
    BY <1>5, TokenTyped, DeliverEffect DEF Flight
  <2> QED
    BY <1>5, <2>1, DeliverEffect DEF Rows, Issued, TypeOK
<1>6. ASSUME NEW h \in Handlers, NEW t \in Tokens, Mint(h, t)
      PROVE  Rows'
  <2>1. fam[tok[h]] \in Families
    BY <1>6, TokenTyped, MintEffect
  <2>2. Issued \subseteq Issued'
    BY <1>6, <2>1, MintEffect, NoneAssumption DEF Issued
  <2>3. t \notin known
    BY <1>6, MintEffect DEF Rows, Issued
  <2>4. \A f \in Families : jar'[f] # None => jar'[f] \in known' /\ fam'[jar'[f]] = f
    BY <1>6, <2>3, MintEffect DEF Rows, Issued
  <2>5. \A f \in reused' : \E s \in Tokens : fam'[s] = f
    BY <1>6, MintEffect, NoneAssumption DEF Rows, TypeOK
  <2> QED
    BY <1>6, <2>2, <2>4, <2>5, MintEffect DEF Rows
<1>7. ASSUME NEW h \in Handlers, NEW f \in Families, Refresh(h, f)
      PROVE  Rows'
  BY <1>7, RefreshEffect DEF Rows, Issued
<1>8. ASSUME NEW f \in Families, NEW t \in Tokens, IssueRefreshToken(f, t)
      PROVE  Rows'
  <2>1. Issued \subseteq Issued' /\ t \in Issued'
    BY <1>8, IssueEffect, NoneAssumption DEF Issued
  <2>2. \A g \in Families : jar'[g] # None => jar'[g] \in known' /\ fam'[jar'[g]] = g
    BY <1>8, IssueEffect DEF Rows, Issued
  <2>3. \A g \in reused' : \E s \in Tokens : fam'[s] = g
    BY <1>8, IssueEffect, NoneAssumption DEF Rows, TypeOK
  <2> QED
    BY <1>8, <2>1, <2>2, <2>3, IssueEffect DEF Rows
<1> QED
  BY <1>1, <1>2, <1>3, <1>4, <1>5, <1>6, <1>7, <1>8, StepCases

LEMMA FlightKept ==
  ASSUME IInv, [Next]_vars
  PROVE  Flight'
<1> USE DEF IInv
<1>1. CASE UNCHANGED <<fam, revoked, known, request, jar, reused, overlapped, lossy>>
  BY <1>1 DEF Flight, request
<1>2. ASSUME NEW h \in Handlers, Onward(h)
      PROVE  Flight'
  BY <1>2, OnwardEffect DEF Flight
<1>3. ASSUME NEW h \in Handlers, Reuse(h)
      PROVE  Flight'
  BY <1>3, ReuseEffect DEF Flight
<1>4. ASSUME NEW h \in Handlers, Rotate(h)
      PROVE  Flight'
  BY <1>4, RotateEffect DEF Flight
<1>5. ASSUME NEW h \in Handlers, Deliver(h)
      PROVE  Flight'
  BY <1>5, DeliverEffect DEF Flight
<1>6. ASSUME NEW h \in Handlers, NEW t \in Tokens, Mint(h, t)
      PROVE  Flight'
  <2>1. t \notin known /\ tok[h] \in known /\ fam[tok[h]] \in Families
    BY <1>6, MintEffect, TokenTyped DEF Rows, Issued
  <2>2. \A g \in Handlers : pc[g] # "idle" => tok[g] \in Tokens \ {t} /\ fam[tok[g]] \in Families
    BY <1>6, <2>1, MintEffect, TokenTyped
  <2>3. \A g \in Handlers \ {h} : pc[g] \in {"minted", "answer"} => new[g] # t
    BY <1>6, <2>2, MintEffect, NoneAssumption DEF Flight
  <2> QED
    BY <1>6, <2>1, <2>2, <2>3, MintEffect DEF Flight
<1>7. ASSUME NEW h \in Handlers, NEW f \in Families, Refresh(h, f)
      PROVE  Flight'
  BY <1>7, RefreshEffect DEF Flight, Rows
<1>8. ASSUME NEW f \in Families, NEW t \in Tokens, IssueRefreshToken(f, t)
      PROVE  Flight'
  <2>1. \A g \in Handlers : pc[g] # "idle" => tok[g] \in Tokens \ {t} /\ fam[tok[g]] \in Families
    BY <1>8, IssueEffect, TokenTyped, NoneAssumption
  <2>2. \A g \in Handlers : pc[g] \in {"minted", "answer"} => new[g] # t
    BY <1>8, <2>1, IssueEffect, NoneAssumption DEF Flight
  <2> QED
    BY <1>8, <2>1, <2>2, IssueEffect DEF Flight
<1> QED
  BY <1>1, <1>2, <1>3, <1>4, <1>5, <1>6, <1>7, <1>8, StepCases

-------------------------------------------------------------------------------
(* One redeemable token.                                                    *)

\* A token of one family is no token of another, and who serves a family is not
\* changed by a new row.
LEMMA ServesKept ==
  ASSUME IInv, NEW t \in Tokens, fam[t] = None,
         \A s \in Tokens \ {t} : fam'[s] = fam[s],
         NEW g \in Handlers, pc[g] # "idle", tok'[g] = tok[g]
  PROVE  fam'[tok'[g]] = fam[tok[g]] /\ tok[g] # t
  BY TokenTyped, NoneAssumption DEF IInv

LEMMA SingleKept ==
  ASSUME IInv, [Next]_vars
  PROVE  Single'
<1> USE DEF IInv
<1>1. CASE UNCHANGED <<fam, revoked, known, request, jar, reused, overlapped, lossy>>
  BY <1>1 DEF Single, Serves, LiveTokens, request
<1>2. ASSUME NEW h \in Handlers, Onward(h)
      PROVE  Single'
  <2>1. \A g \in Handlers, f \in Families : Serves(g, f)' => Serves(g, f) /\ tok'[g] = tok[g]
    BY <1>2, OnwardEffect DEF Serves
  <2> QED
    BY <1>2, <2>1, OnwardEffect DEF Single, LiveTokens
<1>3. ASSUME NEW h \in Handlers, Reuse(h)
      PROVE  Single'
  <2>1. tok[h] \in Tokens /\ fam[tok[h]] \in Families
    BY <1>3, TokenTyped, ReuseEffect
  <2>2. \A g \in Handlers, f \in Families :
          Serves(g, f)' => g # h /\ Serves(g, f) /\ tok'[g] = tok[g] /\ new'[g] = new[g] /\ pc'[g] = pc[g]
    BY <1>3, ReuseEffect DEF Serves
  <2>3. \A f \in Families : LiveTokens(f)' \subseteq LiveTokens(f)
    BY <1>3, ReuseEffect DEF LiveTokens
  <2>4. ASSUME NEW f \in Families \ overlapped, NEW g \in Handlers, Serves(g, f)'
        PROVE  /\ pc'[g] \in {"valid", "resolved", "minted"} => tok'[g] \notin revoked'
               /\ pc'[g] = "minted" => new'[g] \notin revoked'
    <3>1. Serves(g, f) /\ g # h /\ tok'[g] = tok[g] /\ new'[g] = new[g] /\ pc'[g] = pc[g]
      BY <2>2, <2>4
    <3>2. fam[tok[g]] = f /\ fam[tok[h]] # f
      BY <1>3, <2>4, <3>1, ReuseEffect DEF Single, Serves
    <3>3. pc[g] = "minted" => fam[new[g]] = f
      BY <3>2 DEF Flight
    <3> QED
      BY <1>3, <3>1, <3>2, <3>3, ReuseEffect DEF Single
  <2> QED
    BY <1>3, <2>2, <2>3, <2>4, ReuseEffect DEF Single
<1>4. ASSUME NEW h \in Handlers, Rotate(h)
      PROVE  Single'
  <2>1. /\ tok[h] \in known /\ fam[tok[h]] \in Families
        /\ fam[new[h]] = fam[tok[h]] /\ new[h] \in Tokens
    BY <1>4, TokenTyped, RotateEffect DEF Flight
  <2>2. \A g \in Handlers, f \in Families : Serves(g, f)' <=> Serves(g, f)
    BY <1>4, RotateEffect DEF Serves
  <2>3. ASSUME NEW f \in Families \ overlapped, f # fam[tok[h]]
        PROVE  LiveTokens(f)' = LiveTokens(f)
    BY <1>4, <2>1, <2>3, RotateEffect DEF LiveTokens
  <2>4. ASSUME NEW f \in Families \ overlapped, f = fam[tok[h]]
        PROVE  LiveTokens(f)' \subseteq {new[h]}
    <3>1. tok[h] \in LiveTokens(f) /\ Serves(h, f)
      BY <1>4, <2>1, <2>4, RotateEffect DEF Single, Serves, LiveTokens
    <3>2. LiveTokens(f) \subseteq {tok[h]}
      BY <3>1 DEF Single
    <3> QED
      BY <1>4, <3>2, <2>4, RotateEffect DEF LiveTokens
  <2>5. ASSUME NEW f \in Families \ overlapped, NEW g \in Handlers, Serves(g, f), g # h
        PROVE  /\ pc'[g] \in {"valid", "resolved", "minted"} => tok'[g] \notin revoked'
               /\ pc'[g] = "minted" => new'[g] \notin revoked'
    <3>1. fam[tok[g]] = f /\ fam[tok[h]] # f
      BY <1>4, <2>5, RotateEffect DEF Single, Serves
    <3>2. pc[g] = "minted" => fam[new[g]] = f
      BY <3>1 DEF Flight
    <3> QED
      BY <1>4, <2>5, <3>1, <3>2, RotateEffect DEF Single
  <2> QED
    BY <1>4, <2>2, <2>3, <2>4, <2>5, RotateEffect DEF Single
<1>5. ASSUME NEW h \in Handlers, Deliver(h)
      PROVE  Single'
  <2>1. \A g \in Handlers, f \in Families : Serves(g, f)' => g # h /\ Serves(g, f)
    BY <1>5, DeliverEffect DEF Serves
  <2> QED
    BY <1>5, <2>1, DeliverEffect DEF Single, LiveTokens
<1>6. ASSUME NEW h \in Handlers, NEW t \in Tokens, Mint(h, t)
      PROVE  Single'
  <2>1. t \notin known /\ t \notin revoked
    BY <1>6, MintEffect DEF Rows, Issued
  <2>2. \A g \in Handlers, f \in Families : Serves(g, f)' <=> Serves(g, f)
    BY <1>6, MintEffect, ServesKept DEF Serves
  <2>3. \A f \in Families : LiveTokens(f)' = LiveTokens(f)
    BY <1>6, <2>1, MintEffect DEF LiveTokens, TypeOK
  <2> QED
    BY <1>6, <2>1, <2>2, <2>3, MintEffect DEF Single
<1>7. ASSUME NEW h \in Handlers, NEW f \in Families, Refresh(h, f)
      PROVE  Single'
  <2>1. fam[jar[f]] = f
    BY <1>7, RefreshEffect DEF Rows
  <2>2. \A g \in Handlers, e \in Families : Serves(g, e)' => IF g = h THEN e = f ELSE Serves(g, e)
    BY <1>7, <2>1, RefreshEffect DEF Serves
  <2>3. f \notin overlapped' => \A g \in Handlers : ~Serves(g, f)
    BY <1>7, RefreshEffect
  <2>4. overlapped \subseteq overlapped'
    BY <1>7, RefreshEffect
  <2> QED
    BY <1>7, <2>2, <2>3, <2>4, RefreshEffect DEF Single, LiveTokens
<1>8. ASSUME NEW f \in Families, NEW t \in Tokens, IssueRefreshToken(f, t)
      PROVE  Single'
  <2>1. \A g \in Handlers, e \in Families : Serves(g, e)' <=> Serves(g, e)
    BY <1>8, IssueEffect, ServesKept DEF Serves
  <2>2. \A e \in Families \ {f} : LiveTokens(e)' = LiveTokens(e)
    BY <1>8, IssueEffect DEF LiveTokens, TypeOK, Rows, Issued
  <2>3. LiveTokens(f)' \subseteq {t}
    BY <1>8, IssueEffect DEF LiveTokens, TypeOK
  <2> QED
    BY <1>8, <2>1, <2>2, <2>3, IssueEffect DEF Single
<1> QED
  BY <1>1, <1>2, <1>3, <1>4, <1>5, <1>6, <1>7, <1>8, StepCases

-------------------------------------------------------------------------------
(* Reuse.                                                                   *)

LEMMA ReuseEndsFamilyKept ==
  ASSUME IInv, [Next]_vars
  PROVE  ReuseEndsFamily'
<1> USE DEF IInv
<1>1. CASE UNCHANGED <<fam, revoked, known, request, jar, reused, overlapped, lossy>>
  BY <1>1 DEF ReuseEndsFamily
<1>2. ASSUME NEW h \in Handlers, Onward(h)
      PROVE  ReuseEndsFamily'
  BY <1>2, OnwardEffect DEF ReuseEndsFamily
<1>3. ASSUME NEW h \in Handlers, Reuse(h)
      PROVE  ReuseEndsFamily'
  BY <1>3, ReuseEffect DEF ReuseEndsFamily
<1>4. ASSUME NEW h \in Handlers, Rotate(h) \/ Deliver(h)
      PROVE  ReuseEndsFamily'
  BY <1>4, RotateEffect, DeliverEffect DEF ReuseEndsFamily
<1>5. ASSUME NEW h \in Handlers, NEW t \in Tokens, Mint(h, t)
      PROVE  ReuseEndsFamily'
  <2>1. tok[h] \in Tokens /\ fam[tok[h]] \in Families
    BY <1>5, MintEffect, TokenTyped
  <2>2. fam[tok[h]] \notin reused \ overlapped
    BY <1>5, <2>1, MintEffect DEF Single, Serves, ReuseEndsFamily
  <2> QED
    BY <1>5, <2>2, MintEffect DEF ReuseEndsFamily
<1>6. ASSUME NEW h \in Handlers, NEW f \in Families, Refresh(h, f)
      PROVE  ReuseEndsFamily'
  BY <1>6, RefreshEffect DEF ReuseEndsFamily
<1>7. ASSUME NEW f \in Families, NEW t \in Tokens, IssueRefreshToken(f, t)
      PROVE  ReuseEndsFamily'
  BY <1>7, IssueEffect DEF ReuseEndsFamily, Rows
<1> QED
  BY <1>1, <1>2, <1>3, <1>4, <1>5, <1>6, <1>7, StepCases

-------------------------------------------------------------------------------
(* A quiet browser.                                                         *)

\* Calm for one family, so that a step is looked at family by family.
CalmOf(f) ==
  /\ f \notin reused
  /\ (jar[f] # None /\ \A h \in Handlers : ~(Serves(h, f) /\ pc[h] = "answer"))
       => jar[f] \notin revoked
  /\ \A h \in Handlers : Serves(h, f) =>
       /\ tok[h] = jar[f]
       /\ pc[h] # "revoking"
       /\ pc[h] = "answer" => new[h] \notin revoked

LEMMA CalmKept ==
  ASSUME IInv, [Next]_vars, NEW f \in Families \ (overlapped' \cup lossy')
  PROVE  CalmOf(f)'
<1> USE DEF IInv
<1>1. ASSUME f \notin overlapped \cup lossy
      PROVE  CalmOf(f)
  BY <1>1 DEF Calm, CalmOf
<1>2. CASE UNCHANGED <<fam, revoked, known, request, jar, reused, overlapped, lossy>>
  BY <1>1, <1>2 DEF CalmOf, Serves, request
<1>3. ASSUME NEW h \in Handlers, Onward(h)
      PROVE  CalmOf(f)'
  <2>1. CalmOf(f) /\ f \notin overlapped
    BY <1>1, <1>3, OnwardEffect
  <2>2. \A g \in Handlers : Serves(g, f)' => Serves(g, f) /\ tok'[g] = tok[g]
    BY <1>3, OnwardEffect DEF Serves
  <2>3. \A g \in Handlers : Serves(g, f) /\ pc[g] = "answer" => g # h /\ Serves(g, f)' /\ pc'[g] = "answer"
    BY <1>3, OnwardEffect DEF Serves
  <2>4. Serves(h, f) /\ pc[h] = "sent" => tok[h] \notin revoked
    <3>1. SUFFICES ASSUME Serves(h, f), pc[h] = "sent"
                   PROVE  tok[h] \notin revoked
      OBVIOUS
    <3>2. \A g \in Handlers : ~(Serves(g, f) /\ pc[g] = "answer")
      BY <2>1, <3>1 DEF Single
    <3>3. tok[h] = jar[f] /\ jar[f] # None
      BY <2>1, <3>1, TokenTyped, NoneAssumption DEF CalmOf, Serves
    <3> QED
      BY <2>1, <3>2, <3>3 DEF CalmOf
  <2> QED
    BY <1>3, <2>1, <2>2, <2>3, <2>4, OnwardEffect DEF CalmOf
<1>4. ASSUME NEW h \in Handlers, Reuse(h)
      PROVE  CalmOf(f)'
  <2>1. CalmOf(f)
    BY <1>1, <1>4, ReuseEffect
  <2>2. tok[h] \in Tokens /\ fam[tok[h]] # f
    BY <1>4, <2>1, ReuseEffect, TokenTyped DEF CalmOf, Serves
  <2>3. \A g \in Handlers : Serves(g, f)' <=> Serves(g, f) /\ g # h
    BY <1>4, <2>2, ReuseEffect DEF Serves
  <2>4. \A g \in Handlers : Serves(g, f) => g # h
    BY <2>2 DEF Serves
  <2>5. \A s \in Tokens : fam[s] = f /\ s \notin revoked => s \notin revoked'
    BY <1>4, <2>2, ReuseEffect
  <2>6. jar[f] # None => jar[f] \in Tokens /\ fam[jar[f]] = f
    BY DEF Rows, TypeOK
  <2>7. \A g \in Handlers : Serves(g, f) /\ pc[g] = "answer" => new[g] \in Tokens /\ fam[new[g]] = f
    BY DEF Flight, Serves
  <2> QED
    BY <1>4, <2>1, <2>2, <2>3, <2>4, <2>5, <2>6, <2>7, ReuseEffect DEF CalmOf
<1>5. ASSUME NEW h \in Handlers, Rotate(h)
      PROVE  CalmOf(f)'
  <2>1. CalmOf(f) /\ f \notin overlapped
    BY <1>1, <1>5, RotateEffect
  <2>2. \A g \in Handlers : Serves(g, f)' <=> Serves(g, f)
    BY <1>5, RotateEffect DEF Serves
  <2>3. tok[h] \in known /\ new[h] \notin known
    BY <1>5, RotateEffect, TokenTyped DEF Flight
  <2>4. CASE Serves(h, f)
    <3>1. \A g \in Handlers : Serves(g, f) => g = h
      BY <2>1, <2>4 DEF Single
    <3>2. new[h] \notin revoked
      BY <1>5, <2>1, <2>4, RotateEffect DEF Single
    <3> QED
      BY <1>5, <2>1, <2>2, <2>3, <2>4, <3>1, <3>2, RotateEffect DEF CalmOf
  <2>5. CASE ~Serves(h, f)
    <3>1. fam[tok[h]] # f
      BY <1>5, <2>5, RotateEffect DEF Serves
    <3>2. jar[f] # None => jar[f] # tok[h]
      BY <3>1 DEF Rows
    <3>3. \A g \in Handlers : Serves(g, f) /\ pc[g] = "answer" => new[g] # tok[h]
      BY <3>1 DEF Flight, Serves
    <3>4. \A g \in Handlers : Serves(g, f) => g # h
      BY <2>5
    <3> QED
      BY <1>5, <2>1, <2>2, <3>2, <3>3, <3>4, RotateEffect DEF CalmOf
  <2> QED
    BY <2>4, <2>5
<1>6. ASSUME NEW h \in Handlers, Deliver(h)
      PROVE  CalmOf(f)'
  <2>1. CalmOf(f) /\ f \notin overlapped
    BY <1>1, <1>6, DeliverEffect
  <2>2. fam[tok[h]] \in Families
    BY <1>6, TokenTyped, DeliverEffect
  <2>3. \A g \in Handlers : Serves(g, f)' <=> Serves(g, f) /\ g # h
    BY <1>6, DeliverEffect DEF Serves
  <2>4. CASE fam[tok[h]] = f
    <3>1. Serves(h, f) /\ \A g \in Handlers : Serves(g, f) => g = h
      BY <1>6, <2>1, <2>4, DeliverEffect DEF Single, Serves
    <3>2. jar'[f] = new[h] /\ new[h] \notin revoked'
      BY <1>6, <2>1, <2>4, <3>1, DeliverEffect DEF CalmOf, TypeOK
    <3> QED
      BY <1>6, <2>1, <2>3, <3>1, <3>2, DeliverEffect DEF CalmOf
  <2>5. CASE fam[tok[h]] # f
    <3>1. jar'[f] = jar[f]
      BY <1>6, <2>2, <2>5, DeliverEffect DEF TypeOK
    <3>2. \A g \in Handlers : Serves(g, f) => g # h
      BY <2>5 DEF Serves
    <3> QED
      BY <1>6, <2>1, <2>3, <3>1, <3>2, DeliverEffect DEF CalmOf
  <2> QED
    BY <2>4, <2>5
<1>7. ASSUME NEW h \in Handlers, NEW t \in Tokens, Mint(h, t)
      PROVE  CalmOf(f)'
  <2>1. CalmOf(f)
    BY <1>1, <1>7, MintEffect
  <2>2. \A g \in Handlers : Serves(g, f)' <=> Serves(g, f)
    BY <1>7, MintEffect, ServesKept DEF Serves
  <2> QED
    BY <1>7, <2>1, <2>2, MintEffect DEF CalmOf
<1>8. ASSUME NEW h \in Handlers, NEW e \in Families, Refresh(h, e)
      PROVE  CalmOf(f)'
  <2>1. CalmOf(f)
    BY <1>1, <1>8, RefreshEffect
  <2>2. fam[jar[e]] = e
    BY <1>8, RefreshEffect DEF Rows
  <2>3. \A g \in Handlers \ {h} : Serves(g, f)' <=> Serves(g, f)
    BY <1>8, RefreshEffect DEF Serves
  <2>4. Serves(h, f)' <=> e = f
    BY <1>8, <2>2, RefreshEffect DEF Serves
  <2>5. ~Serves(h, f)
    BY <1>8, RefreshEffect DEF Serves
  <2> QED
    BY <1>8, <2>1, <2>3, <2>4, <2>5, RefreshEffect DEF CalmOf
<1>9. ASSUME NEW e \in Families, NEW t \in Tokens, IssueRefreshToken(e, t)
      PROVE  CalmOf(f)'
  <2>1. CalmOf(f)
    BY <1>1, <1>9, IssueEffect
  <2>2. \A g \in Handlers : Serves(g, f)' <=> Serves(g, f)
    BY <1>9, IssueEffect, ServesKept DEF Serves
  <2>3. CASE e = f
    <3>1. \A g \in Handlers : ~Serves(g, f)
      BY <1>9, <2>3, IssueEffect, TokenTyped DEF Serves
    <3>2. t \notin revoked
      BY <1>9, IssueEffect DEF Rows, Issued
    <3> QED
      BY <1>9, <2>1, <2>2, <2>3, <3>1, <3>2, IssueEffect DEF CalmOf
  <2>4. CASE e # f
    BY <1>9, <2>1, <2>2, <2>4, IssueEffect DEF CalmOf
  <2> QED
    BY <2>3, <2>4
<1> QED
  BY <1>2, <1>3, <1>4, <1>5, <1>6, <1>7, <1>8, <1>9, StepCases

LEMMA NextInv == IInv /\ [Next]_vars => IInv'
<1> SUFFICES ASSUME IInv, [Next]_vars PROVE IInv'
  OBVIOUS
<1>1. Calm'
  BY CalmKept DEF Calm, CalmOf
<1> QED
  BY <1>1, NextTyped, RowsKept, FlightKept, SingleKept, ReuseEndsFamilyKept DEF IInv

-------------------------------------------------------------------------------
(* The theorems.                                                            *)

\* The rows of refresh_tokens and the requests stay in their domains.
THEOREM TypeCorrect == Spec => []TypeOK
<1>1. IInv => TypeOK
  BY DEF IInv
<1> QED
  BY <1>1, InitInv, NextInv, PTL DEF Spec

\* rotate_refresh_token takes nobody for a thief who sends one refresh at a time
\* and gets the answers, whatever requests are cut short before their rotation,
\* and between two requests the cookie holds a token the next refresh accepts.
THEOREM QuietBrowserStaysIn == Spec => []NoSpontaneousLogout
<1>1. IInv => NoSpontaneousLogout
  BY DEF IInv, Calm, NoSpontaneousLogout
<1> QED
  BY <1>1, InitInv, NextInv, PTL DEF Spec

\* revoke_refresh_token_family leaves no token of a reused family, and none is
\* minted later, unless another request of the family was under way.
THEOREM ReuseIsFinal == Spec => []ReuseEndsFamily
<1>1. IInv => ReuseEndsFamily
  BY DEF IInv
<1> QED
  BY <1>1, InitInv, NextInv, PTL DEF Spec

-------------------------------------------------------------------------------
(* The refinement.  A step is a step of the promise for the one family whose *)
(* tokens it changes; the others keep theirs.                               *)

Kept(f) == LiveTokens(f)' = LiveTokens(f) /\ SpentTokens(f)' = SpentTokens(f)

Live == [f \in Families |-> IF f \in overlapped THEN {} ELSE LiveTokens(f)]
Spent == [f \in Families |-> IF f \in overlapped THEN {} ELSE SpentTokens(f)]

LEMMA OneChanges ==
  ASSUME overlapped' = overlapped, NEW f \in Families \ overlapped,
         \A e \in Families \ {f} : Kept(e),
         NEW X, LiveTokens(f)' = X, NEW Y, SpentTokens(f)' = Y
  PROVE  /\ Live[f] = LiveTokens(f) /\ Spent[f] = SpentTokens(f)
         /\ Live' = [Live EXCEPT ![f] = X]
         /\ Spent' = [Spent EXCEPT ![f] = Y]
<1>1. ASSUME NEW e \in Families
      PROVE  /\ Live'[e] = [Live EXCEPT ![f] = X][e]
             /\ Spent'[e] = [Spent EXCEPT ![f] = Y][e]
  BY <1>1 DEF Live, Spent, Kept
<1>2. /\ DOMAIN Live = Families /\ DOMAIN Spent = Families
      /\ Live' = [e \in Families |-> Live'[e]] /\ Spent' = [e \in Families |-> Spent'[e]]
  BY DEF Live, Spent
<1> QED
  BY <1>1, <1>2 DEF Live, Spent

LEMMA AllKept ==
  ASSUME overlapped' = overlapped, \A f \in Families \ overlapped : Kept(f)
  PROVE  UNCHANGED Promise!vars
  BY DEF Promise!vars, Kept

LEMMA IssueIsOpen ==
  ASSUME IInv, NEW f \in Families, NEW t \in Tokens, IssueRefreshToken(f, t)
  PROVE  [Promise!Next]_(Promise!vars)
<1> USE DEF IInv
<1>1. \A e \in Families \ {f} : Kept(e)
  BY IssueEffect DEF Kept, LiveTokens, SpentTokens, TypeOK, Rows, Issued
<1>2. t \notin revoked /\ t \notin known
  BY IssueEffect DEF Rows, Issued
<1>3. LiveTokens(f) = {} /\ SpentTokens(f) = {}
  BY IssueEffect DEF LiveTokens, SpentTokens, TypeOK
<1>4. LiveTokens(f)' = {t} /\ SpentTokens(f)' = {}
  BY <1>2, IssueEffect DEF LiveTokens, SpentTokens, TypeOK
<1>5. t \notin Promise!Used
  BY <1>2 DEF Promise!Used, LiveTokens, SpentTokens
<1>6. CASE f \in overlapped
  BY <1>1, <1>6, AllKept, IssueEffect
<1>7. CASE f \notin overlapped
  <2>1. Promise!Open(f, t)
    <3>1. Live' = [Live EXCEPT ![f] = {t}] /\ Live[f] = {}
      BY <1>1, <1>3, <1>4, <1>7, IssueEffect, OneChanges
    <3>2. Spent' = [Spent EXCEPT ![f] = {}] /\ Spent[f] = {}
      BY <1>1, <1>3, <1>4, <1>7, IssueEffect, OneChanges
    <3>3. Spent' = Spent
      BY <3>2 DEF Spent
    <3> QED
      BY <1>5, <1>7, <3>1, <3>2, <3>3, IssueEffect DEF Promise!Open, Live, Spent
  <2> QED
    BY <2>1 DEF Promise!Next
<1> QED
  BY <1>6, <1>7

LEMMA RotateIsRedeem ==
  ASSUME IInv, NEW h \in Handlers, Rotate(h)
  PROVE  [Promise!Next]_(Promise!vars)
<1> USE DEF IInv
<1>0. PICK f \in Families : f = fam[tok[h]]
  BY RotateEffect, TokenTyped
<1>1. /\ tok[h] \in known /\ tok[h] \in Tokens
      /\ new[h] \in Tokens /\ fam[new[h]] = f /\ new[h] \notin known
  BY <1>0, RotateEffect, TokenTyped DEF Flight
<1>2. \A e \in Families \ {f} : Kept(e)
  BY <1>0, <1>1, RotateEffect DEF Kept, LiveTokens, SpentTokens
<1>3. CASE f \in overlapped
  BY <1>2, <1>3, AllKept, RotateEffect
<1>4. CASE f \notin overlapped
  <2>1. Serves(h, f)
    BY <1>0, RotateEffect DEF Serves
  <2>2. tok[h] \notin revoked /\ new[h] \notin revoked
    BY <1>1, <1>4, <2>1, RotateEffect DEF Single
  <2>3. LiveTokens(f) = {tok[h]}
    <3>1. tok[h] \in LiveTokens(f)
      BY <1>0, <1>1, <2>2 DEF LiveTokens
    <3> QED
      BY <1>1, <1>4, <3>1 DEF Single
  <2>4. LiveTokens(f)' = {new[h]}
    <3>1. new[h] # tok[h]
      BY <1>1
    <3>2. \A t \in LiveTokens(f)' : t = new[h]
      BY <1>1, <2>3, RotateEffect DEF LiveTokens
    <3>3. new[h] \in LiveTokens(f)'
      BY <1>1, <2>2, <3>1, RotateEffect DEF LiveTokens
    <3> QED
      BY <3>2, <3>3
  <2>5. SpentTokens(f)' = SpentTokens(f) \cup {tok[h]}
    BY <1>0, <1>1, <2>2, RotateEffect DEF SpentTokens
  <2>6. new[h] \notin Promise!Used
    BY <1>1 DEF Promise!Used, LiveTokens, SpentTokens
  <2>7. PICK t \in Tokens, u \in Tokens : t = tok[h] /\ u = new[h]
    BY <1>1
  <2>8. Promise!Redeem(f, t, u)
    <3>1. /\ Live' = [Live EXCEPT ![f] = {u}] /\ Live[f] = {t}
          /\ Spent' = [Spent EXCEPT ![f] = Spent[f] \cup {t}]
      BY <1>2, <1>4, <2>3, <2>4, <2>5, <2>7, RotateEffect, OneChanges
    <3> QED
      BY <1>4, <2>6, <2>7, <3>1, RotateEffect DEF Promise!Redeem, Live, Spent
  <2> QED
    BY <2>8 DEF Promise!Next
<1> QED
  BY <1>3, <1>4

LEMMA ReuseIsEnd ==
  ASSUME IInv, NEW h \in Handlers, Reuse(h)
  PROVE  [Promise!Next]_(Promise!vars)
<1> USE DEF IInv
<1>1. PICK f \in Families : f = fam[tok[h]]
  BY ReuseEffect, TokenTyped
<1>2. \A e \in Families \ {f} : Kept(e)
  BY <1>1, ReuseEffect DEF Kept, LiveTokens, SpentTokens
<1>3. LiveTokens(f)' = {} /\ SpentTokens(f)' = SpentTokens(f) \cup LiveTokens(f)
  BY <1>1, ReuseEffect DEF LiveTokens, SpentTokens, TypeOK
<1>4. CASE f \in overlapped
  BY <1>2, <1>4, AllKept, ReuseEffect
<1>5. CASE f \notin overlapped
  <2>1. Promise!End(f)
    <3>1. /\ Live' = [Live EXCEPT ![f] = {}]
          /\ Spent' = [Spent EXCEPT ![f] = Spent[f] \cup Live[f]]
      BY <1>2, <1>3, <1>5, ReuseEffect, OneChanges
    <3> QED
      BY <1>5, <3>1, ReuseEffect DEF Promise!End, Live, Spent
  <2> QED
    BY <1>1, <2>1 DEF Promise!Next
<1> QED
  BY <1>4, <1>5

LEMMA RefreshIsVoid ==
  ASSUME IInv, NEW h \in Handlers, NEW f \in Families, Refresh(h, f)
  PROVE  [Promise!Next]_(Promise!vars)
<1> USE DEF IInv
<1>1. \A e \in Families : Kept(e)
  BY RefreshEffect DEF Kept, LiveTokens, SpentTokens
<1>2. CASE overlapped' = overlapped
  BY <1>1, <1>2, AllKept
<1>3. CASE overlapped' # overlapped
  <2>1. overlapped' = overlapped \cup {f}
    BY <1>3, RefreshEffect
  <2>2. Promise!Void(f)
    BY <1>1, <2>1 DEF Promise!Void, Kept
  <2> QED
    BY <2>2 DEF Promise!Next
<1> QED
  BY <1>2, <1>3

LEMMA StepImplements ==
  ASSUME IInv, [Next]_vars
  PROVE  [Promise!Next]_(Promise!vars)
<1>1. ASSUME NEW h \in Handlers, Onward(h) \/ Deliver(h)
      PROVE  UNCHANGED Promise!vars
  BY <1>1, OnwardEffect, DeliverEffect, AllKept DEF IInv, Kept, LiveTokens, SpentTokens
<1>2. ASSUME NEW h \in Handlers, NEW t \in Tokens, Mint(h, t)
      PROVE  UNCHANGED Promise!vars
  <2>1. t \notin known
    BY <1>2, MintEffect DEF IInv, Rows, Issued
  <2> QED
    BY <1>2, <2>1, MintEffect, AllKept DEF IInv, TypeOK, Kept, LiveTokens, SpentTokens
<1>3. CASE UNCHANGED <<fam, revoked, known, request, jar, reused, overlapped, lossy>>
  BY <1>3, AllKept DEF Kept, LiveTokens, SpentTokens
<1> QED
  BY <1>1, <1>2, <1>3, StepCases, IssueIsOpen, RotateIsRedeem, ReuseIsEnd, RefreshIsVoid

\* The redemption of a refresh token, four statements that other requests, cuts
\* and revocations may come between, implements a chain of tokens of which one
\* is good, for as long as a login sends one refresh at a time.
THEOREM RotationImplementsPromise == Spec => ImplementsTokenFamily
<1>1. Init => Promise!Init
  BY DEF Init, Promise!Init, LiveTokens, SpentTokens
<1> QED
  BY <1>1, InitInv, NextInv, StepImplements, PTL DEF Spec, ImplementsTokenFamily, Promise!Spec
===============================================================================
