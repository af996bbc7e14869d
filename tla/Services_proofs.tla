--------------------------- MODULE Services_proofs --------------------------
(***************************************************************************)
(* Proofs about conversations with the server, for constants of any size:  *)
(* of a family of refresh tokens, at most the newest buys another; one tab *)
(* never makes the server burn its session by itself; whatever is picked,  *)
(* hidden, refreshed and answered late, the screen shows the scope it      *)
(* names, and a visible page goes on; no window of a minute lets in more   *)
(* than its limit; and over OCPP, the registry names the newest connection *)
(* that stands, and what was told about a call stands.                     *)
(***************************************************************************)
EXTENDS Accounts, Console, Poll, Limits, OcppCalls, Sums, SequenceTheorems, FiniteSetTheorems, TLAPS

-----------------------------------------------------------------------------
(* Accounts.                                                               *)
AccSpec == AccInit /\ [][AccNext]_accVars

Tok(U) == [uid : U, fam : Nat, revoked : BOOLEAN, expired : BOOLEAN, gen : Nat]

FamiliesOf(ts) == {ts[t].fam : t \in DOMAIN ts}

Of(ts, fam) == {t \in DOMAIN ts : ts[t].fam = fam}

(* Families are numbered as they open, and each has a newest token.        *)
Numbered(ts) == \E k \in Nat : FamiliesOf(ts) = 1 .. k

HasNewest(ts) == \A f \in FamiliesOf(ts) : \E t \in Of(ts, f) : \A u \in Of(ts, f) : u <= t

OneLive(ts) == \A t, u \in DOMAIN ts : ts[t].fam = ts[u].fam /\ t < u =>
                 ts[t].revoked /\ ts[t].gen < ts[u].gen

TokInv(ts) == /\ \E U : ts \in Seq(Tok(U))
              /\ Numbered(ts) /\ HasNewest(ts) /\ OneLive(ts)

(* A function of 1..n is a sequence of length n.                           *)
LEMMA FunctionIsSeq ==
  ASSUME NEW S, NEW n \in Nat, NEW f \in [1 .. n -> S]
  PROVE  f \in Seq(S) /\ Len(f) = n
<1>1. f \in Seq(S)
  BY SeqDef
<1> QED
  BY <1>1, LenProperties

LEMMA TokensAre ==
  ASSUME NEW U, NEW ts \in Seq(Tok(U))
  PROVE  Len(ts) \in Nat /\ DOMAIN ts = 1 .. Len(ts) /\ \A t \in DOMAIN ts : ts[t] \in Tok(U)
  BY LenProperties, ElementOfSeq

(* Tokens that are only revoked, or grow old, keep the families.           *)
LEMMA AgeKeeps ==
  ASSUME NEW ts, TokInv(ts), NEW new, DOMAIN new = DOMAIN ts,
         new = [t \in DOMAIN ts |-> new[t]],
         \A t \in DOMAIN ts : \E r \in BOOLEAN, x \in BOOLEAN :
           /\ new[t] = [ts[t] EXCEPT !.revoked = r, !.expired = x]
           /\ ts[t].revoked => r
  PROVE  TokInv(new)
<1> PICK U : ts \in Seq(Tok(U))
  BY DEF TokInv
<1>1. Len(ts) \in Nat /\ DOMAIN ts = 1 .. Len(ts) /\ \A t \in DOMAIN ts : ts[t] \in Tok(U)
  BY TokensAre
<1>2. \A t \in DOMAIN ts : /\ new[t] \in Tok(U) /\ new[t].fam = ts[t].fam /\ new[t].gen = ts[t].gen
                           /\ ts[t].revoked => new[t].revoked
  <2> TAKE t \in DOMAIN ts
  <2>1. PICK r \in BOOLEAN, x \in BOOLEAN :
          /\ new[t] = [ts[t] EXCEPT !.revoked = r, !.expired = x]
          /\ ts[t].revoked => r
    OBVIOUS
  <2>2. new[t] \in Tok(U) /\ new[t].fam = ts[t].fam /\ new[t].gen = ts[t].gen
    BY <1>1, <2>1 DEF Tok
  <2>3. new[t].revoked = r
    BY <1>1, <2>1 DEF Tok
  <2> QED
    BY <2>1, <2>2, <2>3
<1>3. new \in Seq(Tok(U))
  <2>1. PICK n \in Nat : n = Len(ts)
    BY <1>1
  <2>2. new \in [1 .. n -> Tok(U)]
    BY <1>1, <1>2, <2>1
  <2> QED
    BY <2>2, FunctionIsSeq, Zenon
<1>4. FamiliesOf(new) = FamiliesOf(ts) /\ \A f : Of(new, f) = Of(ts, f)
  <2>1. DOMAIN new = DOMAIN ts /\ \A t \in DOMAIN ts : new[t].fam = ts[t].fam
    BY <1>2
  <2>2. FamiliesOf(new) = FamiliesOf(ts)
    BY <2>1, Zenon DEF FamiliesOf
  <2>3. \A f : Of(new, f) = Of(ts, f)
    BY <2>1, Zenon DEF Of
  <2> QED
    BY <2>2, <2>3
<1>5. Numbered(new) /\ HasNewest(new)
  BY <1>4 DEF TokInv, Numbered, HasNewest
<1>6. OneLive(new)
  BY <1>2 DEF TokInv, OneLive
<1> QED
  BY <1>3, <1>5, <1>6 DEF TokInv

(* The token issued to a family whose tokens are all used is its newest.   *)
LEMMA IssueKeeps ==
  ASSUME NEW ts, TokInv(ts), NEW uid, NEW fam \in Nat,
         fam \in FamiliesOf(ts) \/ fam = Cardinality(FamiliesOf(ts)) + 1,
         \A t \in Of(ts, fam) : ts[t].revoked
  PROVE  TokInv(Issue(ts, uid, fam))
<1> DEFINE of == Of(ts, fam)
           g == IF of = {} THEN 0 ELSE Max({ts[t].gen : t \in of}) + 1
           tok == [uid |-> uid, fam |-> fam, revoked |-> FALSE, expired |-> FALSE, gen |-> g]
           new == Append(ts, tok)
           n == Len(ts)
<1>0. Issue(ts, uid, fam) = new
  BY DEF Issue, Of
<1> PICK U : ts \in Seq(Tok(U))
  BY DEF TokInv
<1>1. n \in Nat /\ DOMAIN ts = 1 .. n /\ \A t \in DOMAIN ts : ts[t] \in Tok(U)
  BY TokensAre
<1>2. g \in Nat /\ \A t \in of : ts[t].gen < g
  <2>1. CASE of = {}
    BY <2>1
  <2>2. CASE of # {}
    <3>1. fam \in FamiliesOf(ts)
      BY <2>2 DEF FamiliesOf, Of
    <3>2. PICK m \in of : \A u \in of : u <= m
      BY <3>1 DEF TokInv, HasNewest
    <3>3. \A u \in of : ts[u].gen \in Nat /\ ts[u].gen <= ts[m].gen
      <4> TAKE u \in of
      <4>1. u \in DOMAIN ts /\ m \in DOMAIN ts /\ u \in Nat /\ m \in Nat /\ u <= m /\ ts[u].fam = ts[m].fam
        BY <1>1, <3>2 DEF Of
      <4>2. ts[u].gen \in Nat /\ ts[m].gen \in Nat
        BY <1>1, <4>1 DEF Tok
      <4>3. u < m => ts[u].gen < ts[m].gen
        BY <4>1 DEF TokInv, OneLive
      <4> QED
        BY <4>1, <4>2, <4>3
    <3> DEFINE gens == {ts[t].gen : t \in of}
    <3>4. Max(gens) \in gens /\ \A y \in gens : Max(gens) >= y
      <4>1. ts[m].gen \in gens /\ \A y \in gens : ts[m].gen >= y
        BY <3>2, <3>3
      <4> QED
        BY <4>1 DEF Max
    <3>5. g = Max(gens) + 1 /\ Max(gens) \in Nat
      BY <2>2, <3>3, <3>4
    <3>6. \A t \in of : ts[t].gen \in Nat /\ Max(gens) >= ts[t].gen
      BY <3>3, <3>4
    <3> HIDE DEF gens, g
    <3> QED
      BY <3>5, <3>6
  <2> QED
    BY <2>1, <2>2
<1> HIDE DEF g
<1> DEFINE V == U \cup {uid}
<1>3. tok \in Tok(V) /\ tok.fam = fam /\ tok.gen = g
  BY <1>2 DEF Tok
<1>4. ts \in Seq(Tok(V))
  <2>1. \A t \in 1 .. n : ts[t] \in Tok(V)
    BY <1>1 DEF Tok
  <2>2. ts \in [1 .. n -> Tok(V)]
    BY <1>1, <2>1, LenProperties
  <2> QED
    BY <1>1, <2>2, FunctionIsSeq
<1> HIDE DEF tok, V
<1>5. /\ new \in Seq(Tok(V)) /\ DOMAIN new = 1 .. n + 1 /\ new[n + 1] = tok
      /\ \A t \in 1 .. n : new[t] = ts[t]
  BY <1>1, <1>3, <1>4
<1> HIDE DEF new
<1>6. FamiliesOf(new) = FamiliesOf(ts) \cup {fam}
  BY <1>1, <1>3, <1>5 DEF FamiliesOf
<1>7. /\ Of(new, fam) = Of(ts, fam) \cup {n + 1}
      /\ \A f : f # fam => Of(new, f) = Of(ts, f)
  BY <1>1, <1>3, <1>5 DEF Of
<1>8. Numbered(new)
  <2>1. PICK k \in Nat : FamiliesOf(ts) = 1 .. k
    BY DEF TokInv, Numbered
  <2>2. Cardinality(1 .. k) = k
    BY FS_Interval
  <2>3. FamiliesOf(new) = 1 .. k \/ FamiliesOf(new) = 1 .. k + 1
    BY <1>6, <2>1, <2>2
  <2> QED
    BY <2>1, <2>3 DEF Numbered
<1>9. HasNewest(new)
  <2> SUFFICES ASSUME NEW f \in FamiliesOf(new)
               PROVE  \E t \in Of(new, f) : \A u \in Of(new, f) : u <= t
    BY DEF HasNewest
  <2>1. CASE f = fam
    <3>1. n + 1 \in Of(new, f) /\ \A u \in Of(ts, fam) : u \in 1 .. n
      BY <1>1, <1>7, <2>1 DEF Of
    <3>2. \A u \in Of(new, f) : u <= n + 1
      BY <1>1, <1>7, <2>1, <3>1
    <3> QED
      BY <3>1, <3>2
  <2>2. CASE f # fam
    BY <1>6, <1>7, <2>2 DEF TokInv, HasNewest
  <2> QED
    BY <2>1, <2>2
<1>10. OneLive(new)
  <2> SUFFICES ASSUME NEW t \in DOMAIN new, NEW u \in DOMAIN new, new[t].fam = new[u].fam, t < u
               PROVE  new[t].revoked /\ new[t].gen < new[u].gen
    BY DEF OneLive
  <2>1. CASE u = n + 1
    <3>1. t \in of /\ new[t] = ts[t]
      BY <1>1, <1>3, <1>5, <2>1 DEF Of
    <3> QED
      BY <1>2, <1>3, <1>5, <2>1, <3>1
  <2>2. CASE u # n + 1
    BY <1>1, <1>5, <2>2 DEF TokInv, OneLive
  <2> QED
    BY <2>1, <2>2
<1> QED
  BY <1>0, <1>5, <1>8, <1>9, <1>10 DEF TokInv

-----------------------------------------------------------------------------
LEMMA NoTokens == TokInv(<<>>)
<1>1. FamiliesOf(<<>>) = {} /\ 1 .. 0 = {}
  BY DEF FamiliesOf
<1>2. Numbered(<<>>)
  BY <1>1 DEF Numbered
<1>3. \A U : <<>> \in Seq(Tok(U))
  BY EmptySeq
<1> QED
  BY <1>1, <1>2, <1>3 DEF TokInv, HasNewest, OneLive

LEMMA NewFamilyKeeps ==
  ASSUME TokInv(toks), NEW uid
  PROVE  TokInv(Issue(toks, uid, NewFamily))
<1>1. PICK k \in Nat : FamiliesOf(toks) = 1 .. k
  BY DEF TokInv, Numbered
<1>2. NewFamily = Cardinality(FamiliesOf(toks)) + 1
  BY DEF NewFamily, Families, FamiliesOf
<1>3. Cardinality(1 .. k) = k
  BY FS_Interval
<1>4. NewFamily = k + 1
  BY <1>1, <1>2, <1>3
<1>5. Of(toks, NewFamily) = {}
  <2>1. \A t \in DOMAIN toks : toks[t].fam \in 1 .. k
    BY <1>1 DEF FamiliesOf
  <2> QED
    BY <1>4, <2>1 DEF Of
<1> QED
  BY <1>2, <1>4, <1>5, IssueKeeps

LEMMA RevokeKeeps ==
  ASSUME TokInv(toks), NEW fam
  PROVE  TokInv(RevokeFamily(fam))
<1> DEFINE new == RevokeFamily(fam)
<1>1. DOMAIN new = DOMAIN toks /\ new = [t \in DOMAIN toks |-> new[t]]
  BY DEF RevokeFamily
<1>2. \A t \in DOMAIN toks : \E r \in BOOLEAN, x \in BOOLEAN :
        /\ new[t] = [toks[t] EXCEPT !.revoked = r, !.expired = x]
        /\ toks[t].revoked => r
  <2> TAKE t \in DOMAIN toks
  <2>1. PICK U : toks[t] \in Tok(U)
    BY TokensAre DEF TokInv
  <2> DEFINE r == toks[t].revoked \/ toks[t].fam = fam
  <2>2. r \in BOOLEAN /\ toks[t].expired \in BOOLEAN /\ (toks[t].revoked => r)
    BY <2>1 DEF Tok
  <2>3. new[t] = [toks[t] EXCEPT !.revoked = r, !.expired = toks[t].expired]
    BY <2>1 DEF RevokeFamily, Tok
  <2> QED
    BY <2>2, <2>3
<1> HIDE DEF new
<1> QED
  BY <1>1, <1>2, AgeKeeps DEF new

LEMMA RotatedKeeps ==
  ASSUME TokInv(toks), NEW t \in DOMAIN toks
  PROVE  TokInv(Rotated(t))
<1> DEFINE new == Rotated(t)
<1> PICK U : toks \in Seq(Tok(U))
  BY DEF TokInv
<1>1. DOMAIN toks = 1 .. Len(toks) /\ \A u \in DOMAIN toks : toks[u] \in Tok(U)
  BY TokensAre
<1>2. /\ DOMAIN new = DOMAIN toks /\ new = [u \in DOMAIN toks |-> new[u]]
      /\ new[t] = [toks[t] EXCEPT !.revoked = TRUE]
      /\ \A u \in DOMAIN toks \ {t} : new[u] = toks[u]
  BY <1>1 DEF Rotated
<1> HIDE DEF new
<1>3. \A u \in DOMAIN toks : \E r \in BOOLEAN, x \in BOOLEAN :
        /\ new[u] = [toks[u] EXCEPT !.revoked = r, !.expired = x]
        /\ toks[u].revoked => r
  <2> TAKE u \in DOMAIN toks
  <2>1. toks[u].revoked \in BOOLEAN /\ toks[u].expired \in BOOLEAN
    BY <1>1 DEF Tok
  <2>2. CASE u = t
    <3>1. new[u] = [toks[u] EXCEPT !.revoked = TRUE, !.expired = toks[u].expired]
      BY <1>1, <1>2, <2>2 DEF Tok
    <3> QED
      BY <2>1, <3>1
  <2>3. CASE u # t
    <3>1. new[u] = [toks[u] EXCEPT !.revoked = toks[u].revoked, !.expired = toks[u].expired]
      BY <1>1, <1>2, <2>3 DEF Tok
    <3> QED
      BY <2>1, <3>1
  <2> QED
    BY <2>2, <2>3
<1> QED
  BY <1>2, <1>3, AgeKeeps DEF new

LEMMA ExpiryKeeps ==
  ASSUME TokInv(toks), NEW t \in DOMAIN toks, toks' = [toks EXCEPT ![t].expired = TRUE]
  PROVE  TokInv(toks')
<1> PICK U : toks \in Seq(Tok(U))
  BY DEF TokInv
<1>1. \A u \in DOMAIN toks : toks[u] \in Tok(U)
  BY TokensAre
<1>2. /\ DOMAIN toks' = DOMAIN toks /\ toks' = [u \in DOMAIN toks |-> toks'[u]]
      /\ toks'[t] = [toks[t] EXCEPT !.expired = TRUE]
      /\ \A u \in DOMAIN toks \ {t} : toks'[u] = toks[u]
  OBVIOUS
<1>3. \A u \in DOMAIN toks : \E r \in BOOLEAN, x \in BOOLEAN :
        /\ toks'[u] = [toks[u] EXCEPT !.revoked = r, !.expired = x]
        /\ toks[u].revoked => r
  <2> TAKE u \in DOMAIN toks
  <2>1. toks[u].revoked \in BOOLEAN /\ toks[u].expired \in BOOLEAN
    BY <1>1 DEF Tok
  <2>2. CASE u = t
    <3>1. toks'[u] = [toks[u] EXCEPT !.revoked = toks[u].revoked, !.expired = TRUE]
      BY <1>1, <1>2, <2>2 DEF Tok
    <3> QED
      BY <2>1, <3>1
  <2>3. CASE u # t
    <3>1. toks'[u] = [toks[u] EXCEPT !.revoked = toks[u].revoked, !.expired = toks[u].expired]
      BY <1>1, <1>2, <2>3 DEF Tok
    <3> QED
      BY <2>1, <3>1
  <2> QED
    BY <2>2, <2>3
<1>4. PICK new : new = toks'
  OBVIOUS
<1>5. DOMAIN new = DOMAIN toks /\ new = [u \in DOMAIN toks |-> new[u]]
  BY <1>2, <1>4
<1>6. \A u \in DOMAIN toks : \E r \in BOOLEAN, x \in BOOLEAN :
        /\ new[u] = [toks[u] EXCEPT !.revoked = r, !.expired = x]
        /\ toks[u].revoked => r
  BY <1>3, <1>4
<1>7. TokInv(new)
  BY <1>5, <1>6, AgeKeeps
<1> QED BY <1>4, <1>7

(* A token that still buys another is the only one of its family that does *)
LEMMA BoughtKeeps ==
  ASSUME TokInv(toks), NEW t \in DOMAIN toks, ~toks[t].revoked
  PROVE  TokInv(Issue(Rotated(t), toks[t].uid, toks[t].fam))
<1> DEFINE ts == Rotated(t)
           fam == toks[t].fam
<1> PICK U : toks \in Seq(Tok(U))
  BY DEF TokInv
<1>1. DOMAIN toks = 1 .. Len(toks) /\ Len(toks) \in Nat /\ \A u \in DOMAIN toks : toks[u] \in Tok(U)
  BY TokensAre
<1>2. TokInv(ts)
  BY RotatedKeeps
<1>3. /\ DOMAIN ts = DOMAIN toks /\ ts[t].revoked = TRUE
      /\ \A u \in DOMAIN toks : ts[u].fam = toks[u].fam
      /\ \A u \in DOMAIN toks \ {t} : ts[u] = toks[u]
  BY <1>1 DEF Rotated, Tok
<1> HIDE DEF ts
<1>4. fam \in FamiliesOf(ts) /\ fam \in Nat
  BY <1>1, <1>3 DEF FamiliesOf, Tok
<1>5. \A u \in Of(ts, fam) : ts[u].revoked
  <2> TAKE u \in Of(ts, fam)
  <2>1. u \in DOMAIN toks /\ toks[u].fam = toks[t].fam
    BY <1>3 DEF Of
  <2>2. u < t => toks[u].revoked
    BY <2>1 DEF TokInv, OneLive
  <2>3. ~(t < u)
    BY <2>1 DEF TokInv, OneLive
  <2> QED
    BY <1>1, <1>3, <2>1, <2>2, <2>3
<1> QED
  BY <1>2, <1>4, <1>5, IssueKeeps DEF ts

TokensFine == TokInv(toks)

LEMMA AccStep == TokInv(toks) /\ [AccNext]_accVars => TokInv(toks')
<1> SUFFICES ASSUME TokInv(toks), [AccNext]_accVars PROVE TokInv(toks')
  OBVIOUS
<1>1. CASE toks' = toks
  BY <1>1
<1>2. ASSUME NEW t \in 1 .. MaxTok, Refresh(t)
      PROVE  TokInv(toks')
  BY <1>2, RevokeKeeps, RotatedKeeps, BoughtKeeps DEF Refresh
<1>3. ASSUME NEW t \in 1 .. MaxTok, Logout(t)
      PROVE  TokInv(toks')
  BY <1>3, RevokeKeeps DEF Logout
<1>4. ASSUME NEW t \in 1 .. MaxTok, TokenExpires(t)
      PROVE  TokInv(toks')
  BY <1>4, ExpiryKeeps DEF TokenExpires
<1>5. ASSUME NEW r \in Req, NEW ok \in BOOLEAN, Welcome(r, ok) \/ Verified(r, ok)
      PROVE  TokInv(toks')
  BY <1>5, NewFamilyKeeps DEF Welcome, Verified
<1>6. CASE Restart
  BY <1>6, NoTokens DEF Restart
<1> QED
  BY <1>1, <1>2, <1>3, <1>4, <1>5, <1>6
  DEF AccNext, accVars, Register, Stage, Inserted, InsertClashes, Realign, MirrorFails,
      StatusMirrored, StatusFails, Login, SetStatus, Foreign

(* However logins, refreshes, logouts, expiries and restarts come, a       *)
(* family of refresh tokens has at most one that buys another, the newest  *)
(* (rotateRefresh and revokeFamily of middleware/auth.js).                 *)
THEOREM NewestTokenOnly == AccSpec => []OneLiveToken
<1>1. AccInit => TokensFine
  BY NoTokens DEF AccInit, TokensFine
<1>2. TokensFine => OneLiveToken
  BY DEF TokensFine, TokInv, OneLive, OneLiveToken
<1>3. TokensFine /\ [AccNext]_accVars => TokensFine'
  BY AccStep DEF TokensFine
<1> QED
  BY <1>1, <1>2, <1>3, PTL DEF AccSpec

-----------------------------------------------------------------------------
(* Console.                                                                *)
ConSpec == ConInit /\ [][ConNext]_conVars

Types == /\ ask \in [Call -> Ask \cup {Nil}]
         /\ jar \in Cookie
         /\ leaving \in Cookie \cup {Nil}
         /\ call = [c \in Call |-> call[c]]

(* One refresh in flight: the one the tab knows of, whose call waits.      *)
OneAsk == /\ \A d \in Call : ask[d] # Nil => refreshing = d
          /\ \A d \in Call : refreshing = d => call[d].step = "waits"

(* The answer to the refresh of d is on its way.                           *)
Coming(d) == ask[d] # Nil /\ ask[d].at = "answered"

(* A used cookie is in the jar, or on its way, only once an answer got     *)
(* lost, or while the answer that replaces it is on its way.               *)
UsedIsLost ==
  /\ jar = "used" => lost \/ \E d \in Call : Coming(d)
  /\ \A d \in Call : Coming(d) => ask[d].cookie = "newest"
  /\ \A d \in Call : ask[d] # Nil /\ ask[d].at = "server" /\ ask[d].cookie = "used" => lost

ConInv == Types /\ OneAsk /\ UsedIsLost /\ NoSelfReplay

-----------------------------------------------------------------------------
(* Steps that touch neither the cookie nor the refresh.                    *)
LEMMA CallStep ==
  ASSUME ConInv, UNCHANGED <<refreshing, ask, jar, family, lost>>, Types',
         \A d \in Call : call[d].step = "waits" => call'[d].step = "waits"
  PROVE  ConInv'
BY DEF ConInv, OneAsk, UsedIsLost, Coming, NoSelfReplay

(* The refresh of d ends, whatever came of it.                             *)
LEMMA OverKeeps ==
  ASSUME ConInv, NEW d \in Call, NEW next, ask[d] # Nil, Over(d, next)
  PROVE  /\ ask' \in [Call -> Ask \cup {Nil}] /\ call' = [c \in Call |-> call'[c]]
         /\ \A c \in Call : ask[c] # Nil => c = d
         /\ \A c \in Call : ask'[c] = Nil
         /\ OneAsk'
<1>1. \A c \in Call : ask[c] # Nil => c = d
  BY DEF ConInv, OneAsk
<1>2. ask' = [ask EXCEPT ![d] = Nil] /\ refreshing' = Nil
  BY DEF Over, ConInv, OneAsk
<1>3. \A c \in Call : ask'[c] = Nil
  BY <1>1, <1>2 DEF ConInv, Types
<1>4. ask' \in [Call -> Ask \cup {Nil}]
  BY <1>2 DEF ConInv, Types
<1>5. call' = [c \in Call |-> call'[c]]
  BY DEF Over
<1>6. OneAsk'
  BY <1>2, <1>3, NilAssumption DEF OneAsk
<1> QED
  BY <1>1, <1>3, <1>4, <1>5, <1>6

LEMMA RefusedKeeps ==
  ASSUME ConInv, NEW c \in Call, Refused(c)
  PROVE  ConInv'
<1> DEFINE d == Starts(c)
<1>1. /\ call' = [call EXCEPT ![c] = [step |-> "waits", for |-> d]]
      /\ refreshing' = d
      /\ ask' = IF d = c THEN [ask EXCEPT ![c] = [at |-> "server", cookie |-> jar]] ELSE ask
      /\ UNCHANGED <<leaving, jar, family, lost>>
  BY DEF Refused, Unauthorized
<1>2. call'[c].step = "waits" /\ \A e \in Call \ {c} : call'[e] = call[e]
  BY <1>1 DEF ConInv, Types
<1>3. Types'
  <2>1. [at |-> "server", cookie |-> jar] \in Ask
    BY DEF ConInv, Types, Ask
  <2>2. ask' \in [Call -> Ask \cup {Nil}]
    BY <1>1, <2>1 DEF ConInv, Types
  <2> QED
    BY <1>1, <2>2 DEF ConInv, Types
<1>4. refreshing # c
  BY DEF Refused, Unauthorized, ConInv, OneAsk
<1>5. CASE refreshing = Nil
  <2>1. d = c /\ \A e \in Call : ask[e] = Nil
    BY <1>5, NilAssumption DEF Starts, ConInv, OneAsk
  <2>2. ask'[c] = [at |-> "server", cookie |-> jar] /\ \A e \in Call \ {c} : ask'[e] = Nil
    BY <1>1, <2>1 DEF ConInv, Types
  <2>3. OneAsk'
    BY <1>1, <1>2, <2>1, <2>2 DEF OneAsk
  <2>4. jar = "used" => lost
    BY <2>1 DEF ConInv, UsedIsLost, Coming
  <2>5. UsedIsLost'
    BY <1>1, <2>2, <2>4 DEF UsedIsLost, Coming
  <2> QED
    BY <1>1, <1>3, <2>3, <2>5 DEF ConInv, NoSelfReplay
<1>6. CASE refreshing # Nil
  <2>1. d = refreshing /\ d # c
    BY <1>4, <1>6 DEF Starts
  <2>2. UNCHANGED <<refreshing, ask, jar, family, lost>>
    BY <1>1, <2>1
  <2> HIDE DEF d
  <2>3. \A e \in Call : call[e].step = "waits" => call'[e].step = "waits"
    BY <1>2
  <2> QED
    BY <1>3, <2>2, <2>3, CallStep
<1> QED
  BY <1>5, <1>6

LEMMA RotateKeeps ==
  ASSUME ConInv, NEW d \in Call, Rotate(d)
  PROVE  ConInv'
<1>1. ask[d] = [at |-> "server", cookie |-> "newest"] /\ ask[d] # Nil /\ family = "good"
  BY NilAssumption DEF Rotate, Ask, Cookie
<1>2. \A c \in Call \ {d} : ask[c] = Nil
  BY <1>1 DEF ConInv, OneAsk
<1>3. ask' = [c \in Call |-> IF c = d THEN [at |-> "answered", cookie |-> "newest"] ELSE Nil]
  BY <1>2 DEF Rotate
<1>4. [at |-> "answered", cookie |-> "newest"] \in Ask
  BY DEF Ask, Cookie
<1>5. Types'
  BY <1>3, <1>4 DEF Rotate, ConInv, Types, Aged, Cookie
<1>6. OneAsk'
  BY <1>1, <1>3 DEF Rotate, ConInv, OneAsk
<1>7. Coming(d)' /\ \A c \in Call : Coming(c)' => c = d
  BY <1>3, <1>4, NilAssumption DEF Coming
<1>8. UsedIsLost'
  BY <1>3, <1>7 DEF UsedIsLost, Coming
<1>9. NoSelfReplay'
  BY DEF Rotate, ConInv, NoSelfReplay
<1> QED
  BY <1>5, <1>6, <1>8, <1>9 DEF ConInv

LEMMA RefuseKeeps ==
  ASSUME ConInv, NEW d \in Call, Refuse(d)
  PROVE  ConInv'
<1>1. ask[d] # Nil /\ ask[d] \in Ask /\ ask[d].at = "server"
  BY DEF Refuse, ConInv, Types
<1>2. \A c \in Call \ {d} : ask[c] = Nil
  BY <1>1 DEF ConInv, OneAsk
<1>3. ask' = [ask EXCEPT ![d].at = "refused"] /\ UNCHANGED <<call, refreshing, jar, lost, leaving>>
  BY DEF Refuse
<1>4. ask'[d] \in Ask /\ ask'[d].at = "refused" /\ \A c \in Call \ {d} : ask'[c] = Nil
  BY <1>1, <1>2, <1>3 DEF ConInv, Types, Ask
<1>5. Types'
  BY <1>3, <1>4 DEF ConInv, Types
<1>6. OneAsk'
  BY <1>1, <1>3, <1>4 DEF ConInv, OneAsk
<1>7. \A c \in Call : ~Coming(c) /\ ~Coming(c)'
  BY <1>1, <1>2, <1>4 DEF Coming
<1>8. UsedIsLost'
  BY <1>3, <1>4, <1>7 DEF ConInv, UsedIsLost, Coming
<1>9. NoSelfReplay'
  <2>1. CASE family' = family
    BY <1>3, <2>1 DEF ConInv, NoSelfReplay
  <2>2. CASE family = "good" /\ ask[d].cookie # "absent"
    <3>1. ask[d].cookie = "used"
      BY <1>1, <2>2 DEF Refuse, Ask, Cookie
    <3> QED
      BY <1>1, <1>3, <3>1 DEF ConInv, UsedIsLost, NoSelfReplay
  <2> QED
    BY <2>1, <2>2 DEF Refuse, Revoked
<1> QED
  BY <1>5, <1>6, <1>8, <1>9 DEF ConInv

LEMMA EndKeeps ==
  ASSUME ConInv, NEW d \in Call, Refreshed(d) \/ SignedOut(d) \/ NoAnswer(d)
  PROVE  ConInv'
<1>1. PICK next : Over(d, next)
  BY DEF Refreshed, SignedOut, NoAnswer
<1>2. ask[d] # Nil /\ ask[d] \in Ask
  BY DEF Refreshed, SignedOut, NoAnswer, ConInv, Types
<1>3. /\ ask' \in [Call -> Ask \cup {Nil}] /\ call' = [c \in Call |-> call'[c]]
      /\ \A c \in Call : ask[c] # Nil => c = d
      /\ \A c \in Call : ask'[c] = Nil
      /\ OneAsk'
  BY <1>1, <1>2, OverKeeps
<1>4. leaving' = leaving /\ family' = family
  BY DEF Refreshed, SignedOut, NoAnswer
<1>5. jar' \in Cookie
  BY <1>2 DEF Refreshed, SignedOut, NoAnswer, Ask, ConInv, Types
<1>6. (lost => lost') /\ (jar' = "used" => lost')
  <2>1. CASE Refreshed(d)
    BY <2>1 DEF Refreshed, ConInv, UsedIsLost, Coming
  <2>2. CASE SignedOut(d)
    BY <2>2, <1>3 DEF SignedOut, ConInv, UsedIsLost, Coming
  <2>3. CASE NoAnswer(d)
    BY <2>3, <1>3 DEF NoAnswer, ConInv, UsedIsLost, Coming
  <2> QED
    BY <2>1, <2>2, <2>3
<1>7. Types'
  BY <1>3, <1>4, <1>5 DEF ConInv, Types
<1>8. UsedIsLost'
  BY <1>3, <1>6 DEF UsedIsLost, Coming
<1>9. NoSelfReplay'
  BY <1>4, <1>6 DEF ConInv, NoSelfReplay
<1> QED
  BY <1>3, <1>7, <1>8, <1>9 DEF ConInv

LEMMA ConStep == ConInv /\ [ConNext]_conVars => ConInv'
<1> SUFFICES ASSUME ConInv, [ConNext]_conVars PROVE ConInv'
  OBVIOUS
<1>1. CASE UNCHANGED conVars
  BY <1>1 DEF conVars, ConInv, Types, OneAsk, UsedIsLost, Coming, NoSelfReplay
<1>2. CASE \E c \in Call : Send(c) \/ Answered(c)
  <2>1. PICK c \in Call : Send(c) \/ Answered(c)
    BY <1>2
  <2>2. call[c].step # "waits"
    <3>1. NoCall.step = "idle"
      BY DEF NoCall
    <3> QED
      BY <2>1, <3>1 DEF Send, Answered
  <2>3. /\ \A d \in Call : call[d].step = "waits" => call'[d].step = "waits"
        /\ call' = [d \in Call |-> call'[d]]
    <3>1. PICK next : call' = [call EXCEPT ![c] = next]
      BY <2>1 DEF Send, Answered
    <3> QED
      BY <2>2, <3>1 DEF ConInv, Types
  <2>4. UNCHANGED <<refreshing, ask, jar, leaving, family, lost>>
    BY <2>1 DEF Send, Answered
  <2> QED
    BY <2>3, <2>4, CallStep DEF ConInv, Types
<1>3. CASE Expire
  <2>1. \A d \in Call : call[d].step = "waits" => call'[d].step = "waits"
    BY <1>3 DEF Expire
  <2>2. Types'
    BY <1>3 DEF Expire, ConInv, Types
  <2> QED
    BY <1>3, <2>1, <2>2, CallStep DEF Expire
<1>4. CASE Leave
  BY <1>4, CallStep DEF Leave, ConInv, Types
<1>5. ASSUME NEW reached \in BOOLEAN, NEW heard \in BOOLEAN, Left(reached, heard)
      PROVE  ConInv'
  <2>1. family' = "reuse" => family = "reuse"
    BY <1>5 DEF Left, Revoked
  <2>2. jar' = jar \/ jar' = "absent"
    BY <1>5 DEF Left
  <2>3. UNCHANGED <<call, refreshing, ask, lost>> /\ leaving' = Nil
    BY <1>5 DEF Left
  <2> QED
    BY <2>1, <2>2, <2>3 DEF ConInv, Types, Cookie, OneAsk, UsedIsLost, Coming, NoSelfReplay
<1>6. CASE Enter
  BY <1>6 DEF Enter, ConInv, Types, Cookie, OneAsk, UsedIsLost, Coming, NoSelfReplay
<1>7. ASSUME NEW c \in Call, Refused(c) \/ Rotate(c) \/ Refuse(c) \/ Refreshed(c) \/ SignedOut(c) \/ NoAnswer(c)
      PROVE  ConInv'
  BY <1>7, RefusedKeeps, RotateKeeps, RefuseKeeps, EndKeeps
<1> QED
  BY <1>1, <1>2, <1>3, <1>4, <1>5, <1>6, <1>7 DEF ConNext, Network

(* One tab never burns its own session: the server sees a used refresh     *)
(* token only after an answer that carried its successor got lost          *)
(* (refreshAccessToken and the rotation of POST /auth/refresh).            *)
THEOREM OneTabIsSafe == ConSpec => []NoSelfReplay
<1>1. ConInit => ConInv
  BY NilAssumption DEF ConInit, ConInv, Types, Cookie, OneAsk, UsedIsLost, Coming, NoSelfReplay
<1>2. ConInv => NoSelfReplay
  BY DEF ConInv
<1> QED
  BY <1>1, <1>2, ConStep, PTL DEF ConSpec

-----------------------------------------------------------------------------
(* Poll.                                                                   *)
PollSpec == PollInit /\ [][PollNext]_pollVars

Eff == [ran : BOOLEAN, dead : BOOLEAN, timers : Nat, kept : {"none", "off", "set"},
        fetch : Scope \cup {NoScope}, wire : SUBSET Panel]

(* An effect that lives goes on while the tab is visible; the page that    *)
(* asks for no tick of its own has one timer or one request, and no effect *)
(* that is over has either.                                                *)
Fine(ef, sc, hid, byPage) ==
  /\ ef.fetch = NoScope <=> ef.wire = {}
  /\ ef.kept = "set" => ef.timers > 0
  /\ ~ef.dead => /\ sc # NoScope
                 /\ hid => ef.kept = "none"
                 /\ ~hid => ef.timers > 0 \/ ef.fetch # NoScope
  /\ ~byPage => /\ ef.dead => ef.timers = 0 /\ ef.fetch = NoScope
                /\ ef.fetch \in {NoScope, sc}
                /\ ef.timers > 0 => ef.kept = "set" /\ ef.timers = 1 /\ ef.fetch = NoScope

ScreenOK ==
  /\ screen \in [Panel -> Scope \cup {NoScope}]
  /\ stray \in SUBSET [panel : Panel, scope : Scope \cup {NoScope}]
  /\ ScreenMatchesScope

PollInv ==
  /\ scope \in Scope \cup {NoScope} /\ hidden \in BOOLEAN /\ asked \in BOOLEAN
  /\ effect \in [Effect -> Eff]
  /\ \A e \in Effect : Fine(effect[e], scope, hidden, asked) /\ (~effect[e].dead => effect[e].ran)
  /\ ScreenOK

-----------------------------------------------------------------------------
(* What each change of one effect leaves.                                  *)
LEMMA FetchingIs ==
  ASSUME NEW ef \in Eff, NEW s \in Scope \cup {NoScope}
  PROVE  LET new == Fetching(s, ef) IN
         /\ new \in Eff
         /\ new.ran = ef.ran /\ new.dead = ef.dead /\ new.timers = ef.timers /\ new.kept = ef.kept
         /\ new.fetch = s /\ new.wire = IF s = NoScope THEN {} ELSE Panel
<1>1. PICK w : w = IF s = NoScope THEN {} ELSE Panel
  OBVIOUS
<1>2. w \in SUBSET Panel
  BY <1>1
<1>3. Fetching(s, ef) = [ef EXCEPT !.fetch = s, !.wire = w]
  BY <1>1 DEF Fetching
<1> QED
  BY <1>1, <1>2, <1>3 DEF Eff

LEMMA TickedIs ==
  ASSUME NEW ef \in Eff, scope \in Scope \cup {NoScope}, ef.fetch = NoScope <=> ef.wire = {}
  PROVE  LET new == Ticked(ef) IN
         /\ new \in Eff
         /\ new.ran = ef.ran /\ new.dead = ef.dead /\ new.timers = ef.timers /\ new.kept = ef.kept
         /\ new.fetch = IF ef.fetch = NoScope THEN scope ELSE ef.fetch
         /\ new.fetch = NoScope <=> new.wire = {}
<1>1. CASE ef.wire = {}
  <2>1. /\ Fetching(scope, ef) \in Eff /\ Fetching(scope, ef).ran = ef.ran /\ Fetching(scope, ef).dead = ef.dead
        /\ Fetching(scope, ef).timers = ef.timers /\ Fetching(scope, ef).kept = ef.kept
        /\ Fetching(scope, ef).fetch = scope
        /\ Fetching(scope, ef).wire = IF scope = NoScope THEN {} ELSE Panel
    BY FetchingIs
  <2> QED
    BY <1>1, <2>1, PanelAssumption DEF Ticked
<1>2. CASE ef.wire # {}
  BY <1>2 DEF Ticked
<1> QED
  BY <1>1, <1>2

LEMMA CleanedIs ==
  ASSUME NEW ef \in Eff, ef.kept = "set" => ef.timers > 0
  PROVE  LET new == Cleaned(ef) IN
         /\ new \in Eff
         /\ new.dead = TRUE /\ new.kept = "off" /\ new.fetch = NoScope /\ new.wire = {}
         /\ new.timers = IF ef.kept = "set" THEN ef.timers - 1 ELSE ef.timers
<1> DEFINE n == IF ef.kept = "set" THEN ef.timers - 1 ELSE ef.timers
<1>1. n \in Nat
  BY DEF Eff
<1>2. NotAborted(ef) = [ef EXCEPT !.dead = TRUE, !.timers = n, !.kept = "off"]
  BY DEF NotAborted, Eff
<1> HIDE DEF n
<1>3. NotAborted(ef) \in Eff
  BY <1>1, <1>2 DEF Eff
<1>4. NotAborted(ef).dead = TRUE /\ NotAborted(ef).kept = "off" /\ NotAborted(ef).timers = n
  BY <1>1, <1>2 DEF Eff
<1>5. PICK old : old = NotAborted(ef)
  OBVIOUS
<1>6. /\ Fetching(NoScope, old) \in Eff
      /\ Fetching(NoScope, old).dead = TRUE /\ Fetching(NoScope, old).kept = "off"
      /\ Fetching(NoScope, old).timers = n
      /\ Fetching(NoScope, old).fetch = NoScope /\ Fetching(NoScope, old).wire = {}
  BY <1>3, <1>4, <1>5, FetchingIs
<1> QED
  BY <1>5, <1>6 DEF Cleaned, n

LEMMA RearmedIs ==
  ASSUME NEW ef \in Eff, hidden \in BOOLEAN
  PROVE  LET new == Rearmed(ef) IN
         /\ new \in Eff
         /\ new.ran = ef.ran /\ new.dead = ef.dead /\ new.fetch = NoScope /\ new.wire = {}
         /\ ef.dead \/ hidden => new.timers = ef.timers /\ new.kept = ef.kept
         /\ ~(ef.dead \/ hidden) => new.timers = ef.timers + 1 /\ new.kept = "set"
<1>1. PICK old : old = Fetching(NoScope, ef)
  OBVIOUS
<1>2. /\ old \in Eff /\ old.ran = ef.ran /\ old.dead = ef.dead /\ old.timers = ef.timers
      /\ old.kept = ef.kept /\ old.fetch = NoScope /\ old.wire = {}
  BY <1>1, FetchingIs
<1>3. CASE ef.dead \/ hidden
  BY <1>1, <1>2, <1>3 DEF Rearmed
<1>4. CASE ~(ef.dead \/ hidden)
  <2>1. PICK n : n = old.timers + 1
    OBVIOUS
  <2>2. Rearmed(ef) = [old EXCEPT !.timers = n, !.kept = "set"]
    BY <1>1, <1>4, <2>1 DEF Rearmed
  <2>3. n \in Nat
    BY <1>2, <2>1 DEF Eff
  <2>4. Rearmed(ef) \in Eff
    BY <1>2, <2>2, <2>3 DEF Eff
  <2>5. /\ Rearmed(ef).ran = ef.ran /\ Rearmed(ef).dead = ef.dead /\ Rearmed(ef).wire = {}
        /\ Rearmed(ef).fetch = NoScope /\ Rearmed(ef).timers = n /\ Rearmed(ef).kept = "set"
    BY <1>2, <2>2 DEF Eff
  <2> QED
    BY <1>2, <1>4, <2>1, <2>4, <2>5
<1> QED
  BY <1>3, <1>4

LEMMA HushedIs ==
  ASSUME NEW ef \in Eff, ef.kept = "set" => ef.timers > 0
  PROVE  LET new == Hushed(ef) IN
         /\ new \in Eff
         /\ new.ran = ef.ran /\ new.dead = ef.dead /\ new.kept = "none" /\ new.fetch = ef.fetch
         /\ new.wire = ef.wire
         /\ new.timers = IF ef.kept = "set" THEN ef.timers - 1 ELSE ef.timers
<1> DEFINE n == IF ef.kept = "set" THEN ef.timers - 1 ELSE ef.timers
<1>1. n \in Nat
  BY DEF Eff
<1>2. Hushed(ef) = [ef EXCEPT !.timers = n, !.kept = "none"]
  BY DEF Hushed, Eff
<1> HIDE DEF n
<1> QED
  BY <1>1, <1>2 DEF Eff, n

LEMMA OffIs ==
  ASSUME NEW ef \in Eff, NEW off \in Off(ef), ef.kept = "set" => ef.timers > 0
  PROVE  /\ off \in Eff
         /\ off.ran = ef.ran /\ off.dead = ef.dead /\ off.fetch = ef.fetch /\ off.wire = ef.wire
         /\ ef.timers > 0 /\ off.timers = ef.timers - 1
         /\ \/ ef.kept = "set" /\ off.kept = "off"
            \/ off.kept = ef.kept /\ (ef.kept = "set" => ef.timers > 1)
<1>1. CASE ef.kept = "set" /\ off = [ef EXCEPT !.timers = @ - 1, !.kept = "off"]
  <2> DEFINE n == ef.timers - 1
  <2>1. n \in Nat
    BY <1>1 DEF Eff
  <2>2. off = [ef EXCEPT !.timers = n, !.kept = "off"]
    BY <1>1
  <2> HIDE DEF n
  <2>3. off \in Eff
    BY <2>1, <2>2 DEF Eff
  <2>4. /\ off.ran = ef.ran /\ off.dead = ef.dead /\ off.fetch = ef.fetch /\ off.wire = ef.wire
        /\ off.timers = n /\ off.kept = "off"
    BY <2>2 DEF Eff
  <2> QED
    BY <1>1, <2>3, <2>4 DEF n
<1>2. CASE Forgotten(ef) > 0 /\ off = [ef EXCEPT !.timers = @ - 1]
  BY <1>2 DEF Forgotten, Eff
<1> QED
  BY <1>1, <1>2 DEF Off

-----------------------------------------------------------------------------
(* A step that changes one effect, and perhaps whose payload is shown.     *)
LEMMA OneEffect ==
  ASSUME PollInv, NEW e \in Effect, NEW to \in Eff, effect' = [effect EXCEPT ![e] = to],
         UNCHANGED <<scope, hidden>>, asked' \in BOOLEAN, asked => asked',
         ~to.dead => to.ran,
         Fine(to, scope, hidden, asked'), ScreenOK'
  PROVE  PollInv'
<1>1. effect' \in [Effect -> Eff]
  BY DEF PollInv
<1>2. \A d \in Effect : effect'[d] = IF d = e THEN to ELSE effect[d]
  BY DEF PollInv
<1>3. \A d \in Effect : Fine(effect[d], scope, hidden, asked')
  BY DEF PollInv, Fine
<1> QED
  BY <1>1, <1>2, <1>3 DEF PollInv

LEMMA PickKeeps ==
  ASSUME PollInv, NEW s \in Scope \cup {NoScope}, Pick(s)
  PROVE  PollInv'
<1> DEFINE old == [e \in Effect |-> IF e \in Alive THEN Cleaned(effect[e]) ELSE effect[e]]
           new == Fetching(s, [NoEffect EXCEPT !.ran = TRUE, !.dead = FALSE])
<1>1. \A e \in Effect : /\ old[e] \in Eff /\ old[e].dead
                        /\ old[e].kept = "set" => old[e].timers > 0
                        /\ old[e].fetch = NoScope <=> old[e].wire = {}
                        /\ ~asked => old[e].timers = 0 /\ old[e].fetch = NoScope
  <2> TAKE e \in Effect
  <2>1. effect[e] \in Eff /\ (effect[e].kept = "set" => effect[e].timers > 0)
    BY DEF PollInv, Fine
  <2>2. CASE e \in Alive
    <3>1. LET done == Cleaned(effect[e]) IN
          /\ done \in Eff
          /\ done.dead = TRUE /\ done.kept = "off" /\ done.fetch = NoScope /\ done.wire = {}
          /\ done.timers = IF effect[e].kept = "set" THEN effect[e].timers - 1 ELSE effect[e].timers
      BY <2>1, CleanedIs
    <3>2. ~asked /\ effect[e].timers > 0 => effect[e].kept = "set" /\ effect[e].timers = 1
      BY DEF PollInv, Fine
    <3>3. old[e] = Cleaned(effect[e]) /\ effect[e].timers \in Nat
      BY <2>1, <2>2 DEF Eff
    <3>4. CASE effect[e].kept = "set"
      BY <3>1, <3>2, <3>3, <3>4, <2>1
    <3>5. CASE effect[e].kept # "set"
      BY <3>1, <3>2, <3>3, <3>5
    <3> QED
      BY <3>4, <3>5
  <2>3. CASE e \notin Alive
    BY <2>1, <2>3 DEF PollInv, Fine, Alive, Ran, Eff
  <2> QED
    BY <2>2, <2>3
<1>2. /\ new \in Eff /\ new.dead = FALSE /\ new.ran = TRUE
      /\ new.timers = 0 /\ new.kept = "none" /\ new.fetch = s
      /\ s # NoScope => (new.fetch = NoScope <=> new.wire = {})
  <2>1. PICK bare : bare = [NoEffect EXCEPT !.ran = TRUE, !.dead = FALSE]
    OBVIOUS
  <2>2. /\ bare \in Eff /\ bare.dead = FALSE /\ bare.ran = TRUE
        /\ bare.timers = 0 /\ bare.kept = "none"
    BY <2>1 DEF NoEffect, Eff
  <2>3. /\ Fetching(s, bare) \in Eff /\ Fetching(s, bare).dead = FALSE /\ Fetching(s, bare).ran = TRUE
        /\ Fetching(s, bare).timers = 0 /\ Fetching(s, bare).kept = "none"
        /\ Fetching(s, bare).fetch = s /\ Fetching(s, bare).wire = IF s = NoScope THEN {} ELSE Panel
    BY <2>2, FetchingIs
  <2> QED
    BY <2>1, <2>3, PanelAssumption
<1>3. Fine(new, s, hidden, asked) \/ s = NoScope
  BY <1>2 DEF Fine
<1>4. \A e \in Effect : Fine(old[e], s, hidden, asked)
  BY <1>1 DEF Fine
<1>5. /\ effect' = IF s = NoScope THEN old ELSE [old EXCEPT ![Cardinality(Ran) + 1] = new]
      /\ scope' = s /\ UNCHANGED <<hidden, asked>>
  BY DEF Pick
<1>6. old \in [Effect -> Eff]
  BY <1>1
<1> HIDE DEF old, new
<1>7. effect' \in [Effect -> Eff]
  BY <1>2, <1>5, <1>6
<1>8. \A e \in Effect : effect'[e] = old[e] \/ (effect'[e] = new /\ s # NoScope)
  BY <1>5, <1>6
<1>9. ScreenOK'
  BY DEF Pick, PollInv, ScreenOK, ScreenMatchesScope, Blank
<1> QED
  BY <1>1, <1>2, <1>3, <1>4, <1>5, <1>7, <1>8, <1>9 DEF PollInv

LEMMA TimerKeeps ==
  ASSUME PollInv, NEW e \in Effect, TimerGoesOff(e)
  PROVE  PollInv'
<1>1. /\ effect[e] \in Eff /\ scope \in Scope \cup {NoScope}
      /\ effect[e].kept = "set" => effect[e].timers > 0
      /\ Fine(effect[e], scope, hidden, asked)
      /\ ~effect[e].dead => effect[e].ran
  BY DEF PollInv, Fine
<1>2. PICK off \in Off(effect[e]) : effect' = [effect EXCEPT ![e] = Ticked(off)]
  BY DEF TimerGoesOff
<1> DEFINE to == Ticked(off)
<1>3. /\ off \in Eff
      /\ off.ran = effect[e].ran /\ off.dead = effect[e].dead /\ off.fetch = effect[e].fetch
      /\ off.wire = effect[e].wire
      /\ effect[e].timers > 0 /\ off.timers = effect[e].timers - 1
      /\ \/ effect[e].kept = "set" /\ off.kept = "off"
         \/ off.kept = effect[e].kept /\ (effect[e].kept = "set" => effect[e].timers > 1)
  BY <1>1, OffIs
<1>10. off.fetch = NoScope <=> off.wire = {}
  BY <1>1, <1>3 DEF Fine
<1>4. /\ to \in Eff
      /\ to.ran = off.ran /\ to.dead = off.dead /\ to.timers = off.timers /\ to.kept = off.kept
      /\ to.fetch = IF off.fetch = NoScope THEN scope ELSE off.fetch
      /\ to.fetch = NoScope <=> to.wire = {}
  BY <1>1, <1>3, <1>10, TickedIs
<1>5. UNCHANGED <<scope, screen, hidden, asked, stray, late>> /\ asked \in BOOLEAN
  BY DEF TimerGoesOff, PollInv
<1> HIDE DEF to
<1>6. effect[e].timers \in Nat /\ off.timers \in Nat
  BY <1>1, <1>3 DEF Eff
<1>7. Fine(to, scope, hidden, asked)
  BY <1>1, <1>3, <1>4, <1>6 DEF Fine
<1>8. ScreenOK'
  BY <1>5 DEF PollInv, ScreenOK, ScreenMatchesScope
<1>9. effect' = [effect EXCEPT ![e] = to]
  BY <1>2 DEF to
<1> QED
  BY <1>1, <1>3, <1>4, <1>5, <1>7, <1>8, <1>9, OneEffect

LEMMA AskKeeps ==
  ASSUME PollInv, NEW e \in Effect, AskTick(e)
  PROVE  PollInv'
<1> DEFINE to == Ticked(effect[e])
<1>1. /\ effect[e] \in Eff /\ scope \in Scope \cup {NoScope}
      /\ Fine(effect[e], scope, hidden, asked)
      /\ ~effect[e].dead => effect[e].ran
  BY DEF PollInv
<1>2. /\ to \in Eff
      /\ to.ran = effect[e].ran /\ to.dead = effect[e].dead
      /\ to.timers = effect[e].timers /\ to.kept = effect[e].kept
      /\ to.fetch = IF effect[e].fetch = NoScope THEN scope ELSE effect[e].fetch
      /\ to.fetch = NoScope <=> to.wire = {}
  <2>1. effect[e].fetch = NoScope <=> effect[e].wire = {}
    BY <1>1 DEF Fine
  <2> QED
    BY <1>1, <2>1, TickedIs
<1>3. UNCHANGED <<scope, screen, hidden, stray, late>> /\ asked' = TRUE /\ effect' = [effect EXCEPT ![e] = to]
  BY DEF AskTick
<1> HIDE DEF to
<1>4. Fine(to, scope, hidden, TRUE)
  BY <1>1, <1>2 DEF Fine
<1>5. ScreenOK'
  BY <1>3 DEF PollInv, ScreenOK, ScreenMatchesScope
<1> QED
  BY <1>1, <1>2, <1>3, <1>4, <1>5, OneEffect

\* The tick of an effect ends.
LEMMA TickOver ==
  ASSUME PollInv, NEW e \in Effect, effect[e].wire # {}, effect' = [effect EXCEPT ![e] = Rearmed(@)],
         UNCHANGED <<scope, hidden, asked>>, ScreenOK'
  PROVE  PollInv'
<1>1. /\ effect[e] \in Eff /\ hidden \in BOOLEAN /\ asked \in BOOLEAN
      /\ Fine(effect[e], scope, hidden, asked)
      /\ ~effect[e].dead => effect[e].ran
  BY DEF PollInv
<1>2. PICK to : to = Rearmed(effect[e])
  OBVIOUS
<1>3. /\ to \in Eff
      /\ to.ran = effect[e].ran /\ to.dead = effect[e].dead /\ to.fetch = NoScope /\ to.wire = {}
      /\ effect[e].dead \/ hidden => to.timers = effect[e].timers /\ to.kept = effect[e].kept
      /\ ~(effect[e].dead \/ hidden) => to.timers = effect[e].timers + 1 /\ to.kept = "set"
  BY <1>1, <1>2, RearmedIs
<1>4. effect' = [effect EXCEPT ![e] = to]
  BY <1>2
<1>5. effect[e].timers \in Nat
  BY <1>1 DEF Eff
<1>6. Fine(to, scope, hidden, asked)
  BY <1>1, <1>3, <1>5 DEF Fine
<1> QED
  BY <1>1, <1>3, <1>4, <1>6, OneEffect

LEMMA AnswerKeeps ==
  ASSUME PollInv, NEW e \in Effect, NEW p \in Panel, Answer(e, p)
  PROVE  PollInv'
<1>1. /\ effect[e] \in Eff /\ asked \in BOOLEAN
      /\ Fine(effect[e], scope, hidden, asked)
      /\ ~effect[e].dead => effect[e].ran
  BY DEF PollInv
<1>2. /\ UNCHANGED <<scope, hidden, asked, stray>> /\ p \in effect[e].wire
      /\ screen' = [screen EXCEPT ![p] = effect[e].fetch] /\ late' = late \ {p}
  BY DEF Answer
<1>3. ScreenOK'
  <2>1. effect[e].fetch \in Scope \cup {NoScope} /\ (~asked => effect[e].fetch \in {NoScope, scope})
    BY <1>1 DEF Eff, Fine
  <2>2. screen' \in [Panel -> Scope \cup {NoScope}]
    BY <1>2, <2>1 DEF PollInv, ScreenOK
  <2>3. \A q \in Panel : screen'[q] = IF q = p THEN effect[e].fetch ELSE screen[q]
    BY <1>2 DEF PollInv, ScreenOK
  <2> QED
    BY <1>2, <2>1, <2>2, <2>3 DEF PollInv, ScreenOK, ScreenMatchesScope
<1>4. CASE effect[e].wire = {p}
  <2>1. effect' = [effect EXCEPT ![e] = Rearmed(@)]
    BY <1>4 DEF Answer, Without
  <2> QED
    BY <1>2, <1>3, <1>4, <2>1, TickOver
<1>5. CASE effect[e].wire # {p}
  <2>1. PICK w : w = effect[e].wire \ {p}
    OBVIOUS
  <2>2. PICK to : to = [effect[e] EXCEPT !.wire = w]
    OBVIOUS
  <2>7. DOMAIN effect = Effect
    BY DEF PollInv
  <2>3. effect' = [effect EXCEPT ![e] = to]
    BY <1>5, <2>1, <2>2, <2>7 DEF Answer, Without
  <2>4. w \in SUBSET Panel /\ w # {}
    BY <1>1, <1>2, <1>5, <2>1 DEF Eff
  <2>5. /\ to \in Eff /\ to.ran = effect[e].ran /\ to.dead = effect[e].dead /\ to.wire = w
        /\ to.timers = effect[e].timers /\ to.kept = effect[e].kept /\ to.fetch = effect[e].fetch
    BY <1>1, <2>2, <2>4 DEF Eff
  <2>6. Fine(to, scope, hidden, asked)
    BY <1>1, <1>2, <2>4, <2>5 DEF Fine
  <2> QED
    BY <1>1, <1>2, <1>3, <2>3, <2>5, <2>6, OneEffect
<1> QED
  BY <1>4, <1>5

LEMMA FailsKeeps ==
  ASSUME PollInv, NEW e \in Effect, NEW p \in Panel, Fails(e, p)
  PROVE  PollInv'
<1>1. /\ UNCHANGED <<scope, screen, hidden, asked, late>> /\ effect[e].wire # {}
      /\ stray' = stray \cup [panel : effect[e].wire \ {p}, scope : {effect[e].fetch}]
      /\ effect' = [effect EXCEPT ![e] = Rearmed(@)]
  BY DEF Fails
<1>2. effect[e].wire \in SUBSET Panel /\ effect[e].fetch \in Scope \cup {NoScope}
  BY DEF PollInv, Eff
<1>3. ScreenOK'
  BY <1>1, <1>2 DEF PollInv, ScreenOK, ScreenMatchesScope
<1> QED
  BY <1>1, <1>3, TickOver

LEMMA StrayKeeps ==
  ASSUME PollInv, NEW r \in stray, StrayAnswers(r)
  PROVE  PollInv'
<1>1. /\ UNCHANGED <<scope, hidden, effect, asked>> /\ stray' \in {stray, stray \ {r}}
      /\ screen' = [screen EXCEPT ![r.panel] = r.scope] /\ late' = late \cup {r.panel}
  BY DEF StrayAnswers
<1>2. r.panel \in Panel /\ r.scope \in Scope \cup {NoScope}
  BY DEF PollInv, ScreenOK
<1>3. screen' \in [Panel -> Scope \cup {NoScope}] /\ \A q \in Panel \ {r.panel} : screen'[q] = screen[q]
  BY <1>1, <1>2 DEF PollInv, ScreenOK
<1>4. ScreenOK'
  BY <1>1, <1>3 DEF PollInv, ScreenOK, ScreenMatchesScope
<1> QED
  BY <1>1, <1>4 DEF PollInv

LEMMA HideKeeps ==
  ASSUME PollInv, Hide
  PROVE  PollInv'
<1>1. \A e \in Effect : /\ effect'[e] \in Eff /\ Fine(effect'[e], scope, TRUE, asked)
                        /\ ~effect'[e].dead => effect'[e].ran
  <2> TAKE e \in Effect
  <2>1. /\ effect[e] \in Eff /\ Fine(effect[e], scope, hidden, asked) /\ (~effect[e].dead => effect[e].ran)
        /\ effect[e].kept = "set" => effect[e].timers > 0
        /\ effect[e].timers \in Nat
    BY DEF PollInv, Fine, Eff
  <2>2. CASE e \in Alive
    <3>1. effect'[e] = Hushed(effect[e])
      BY <2>2 DEF Hide
    <3>2. LET new == Hushed(effect[e]) IN
          /\ new \in Eff
          /\ new.ran = effect[e].ran /\ new.dead = effect[e].dead
          /\ new.kept = "none" /\ new.fetch = effect[e].fetch /\ new.wire = effect[e].wire
          /\ new.timers = IF effect[e].kept = "set" THEN effect[e].timers - 1 ELSE effect[e].timers
      BY <2>1, HushedIs
    <3> HIDE DEF Hushed
    <3> QED
      BY <2>1, <3>1, <3>2 DEF Fine
  <2>3. CASE e \notin Alive
    BY <2>1, <2>3 DEF Hide, Alive, Ran, Fine
  <2> QED
    BY <2>2, <2>3
<1>2. effect' \in [Effect -> Eff]
  BY <1>1 DEF Hide
<1>3. UNCHANGED <<scope, screen, asked, stray, late>> /\ hidden' = TRUE
  BY DEF Hide
<1> QED
  BY <1>1, <1>2, <1>3 DEF PollInv, ScreenOK, ScreenMatchesScope

LEMMA RevealKeeps ==
  ASSUME PollInv, Reveal
  PROVE  PollInv'
<1>1. \A e \in Effect : /\ effect'[e] \in Eff /\ Fine(effect'[e], scope, FALSE, asked)
                        /\ ~effect'[e].dead => effect'[e].ran
  <2> TAKE e \in Effect
  <2>1. /\ effect[e] \in Eff /\ scope \in Scope \cup {NoScope}
        /\ Fine(effect[e], scope, TRUE, asked) /\ (~effect[e].dead => effect[e].ran)
        /\ effect[e].timers \in Nat
    BY DEF PollInv, Reveal, Eff
  <2>2. CASE e \in Alive
    <3>1. ~effect[e].dead /\ effect[e].kept = "none" /\ scope # NoScope
      BY <2>1, <2>2 DEF Alive, Fine
    <3>2. effect'[e] = Ticked(effect[e])
      BY <2>2, <3>1 DEF Reveal
    <3>3. LET new == Ticked(effect[e]) IN
          /\ new \in Eff
          /\ new.ran = effect[e].ran /\ new.dead = effect[e].dead
          /\ new.timers = effect[e].timers /\ new.kept = effect[e].kept
          /\ new.fetch = IF effect[e].fetch = NoScope THEN scope ELSE effect[e].fetch
          /\ new.fetch = NoScope <=> new.wire = {}
      <4>1. effect[e].fetch = NoScope <=> effect[e].wire = {}
        BY <2>1 DEF Fine
      <4> QED
        BY <2>1, <4>1, TickedIs
    <3> QED
      BY <2>1, <3>1, <3>2, <3>3 DEF Fine
  <2>3. CASE e \notin Alive
    BY <2>1, <2>3 DEF Reveal, Alive, Ran, Fine
  <2> QED
    BY <2>2, <2>3
<1>2. effect' \in [Effect -> Eff]
  BY <1>1 DEF Reveal
<1>3. UNCHANGED <<scope, screen, asked, stray, late>> /\ hidden' = FALSE
  BY DEF Reveal
<1> QED
  BY <1>1, <1>2, <1>3 DEF PollInv, ScreenOK, ScreenMatchesScope

LEMMA PollStep == PollInv /\ [PollNext]_pollVars => PollInv'
<1>1. PollInv /\ UNCHANGED pollVars => PollInv'
  BY DEF PollInv, ScreenOK, ScreenMatchesScope, pollVars
<1> QED
  BY <1>1, PickKeeps, TimerKeeps, AskKeeps, AnswerKeeps, FailsKeeps, StrayKeeps, HideKeeps, RevealKeeps DEF PollNext

LEMMA PollStart == PollInit => PollInv
<1>1. NoEffect \in Eff
  BY DEF NoEffect, Eff
<1>2. /\ NoEffect.dead = TRUE /\ NoEffect.timers = 0 /\ NoEffect.kept = "none"
      /\ NoEffect.fetch = NoScope /\ NoEffect.wire = {}
  BY DEF NoEffect
<1> SUFFICES ASSUME PollInit PROVE PollInv
  OBVIOUS
<1>3. \A e \in Effect : effect[e] = NoEffect
  BY DEF PollInit
<1>4. effect \in [Effect -> Eff]
  BY <1>1 DEF PollInit
<1>5. \A e \in Effect : Fine(effect[e], scope, hidden, asked) /\ (~effect[e].dead => effect[e].ran)
  BY <1>2, <1>3 DEF Fine
<1>6. ScreenOK
  BY DEF PollInit, Blank, ScreenOK, ScreenMatchesScope
<1> QED
  BY <1>4, <1>5, <1>6 DEF PollInit, PollInv

(* However late the answer of another scope is, every panel shows nothing  *)
(* or the scope the page names, on a page that asks for no tick of its     *)
(* own, unless a request filled it whose tick an error had ended (usePoll's*)
(* abort and its re-picked effect).                                        *)
THEOREM ScreenIsHonest == PollSpec => []ScreenMatchesScope
<1>1. PollInv => ScreenMatchesScope
  BY DEF PollInv, ScreenOK
<1> QED
  BY <1>1, PollStart, PollStep, PTL DEF PollSpec

(* Hidden, revealed, refreshed or answered in any order, a visible page    *)
(* has a request in flight or a timer that will go off (usePoll's tick and *)
(* visibility handlers).                                                   *)
THEOREM PollGoesOn == PollSpec => []PollAlive
<1>1. PollInv => PollAlive
  BY DEF PollInv, PollAlive, Fine, Alive, Ran
<1> QED
  BY <1>1, PollStart, PollStep, PTL DEF PollSpec

-----------------------------------------------------------------------------
(* Limits.                                                                 *)
LimSpec == LimInit /\ [][LimNext]_limVars

Hits == [Tier \X Key -> [Time -> Nat]]
LimTypes == now \in Time /\ windows \in Hits /\ served \in Hits

(* What was let in within the last window is still remembered, and nothing *)
(* was let in yet at a time to come.                                       *)
Remembered ==
  \A b \in Tier \X Key, t \in Time :
    /\ now - t < Window => served[b][t] <= windows[b][t]
    /\ t > now => served[b][t] = 0

In(from) == {t \in Time : from <= t /\ t - from < Window}
Within == \A b \in Tier \X Key, from \in Time : Sum(served[b], In(from)) <= Limit[b[1]]

LimInv == LimTypes /\ Remembered /\ Within

LEMMA WithinIs == Within <=> WithinLimit
BY DEF Within, WithinLimit, In, Sum

LEMMA TotalIs == ASSUME NEW w PROVE Total(w) = Sum(w, Time)
BY DEF Total, Sum

LEMMA BoundsAre ==
  /\ Window \in Nat /\ Stale \in Nat /\ Stale >= Window /\ MaxTime \in Nat
  /\ Limit \in [Tier -> Nat] /\ Time \subseteq Nat /\ IsFiniteSet(Time)
<1>1. Window \in Nat /\ Stale \in Nat /\ MaxTime \in Nat /\ Stale >= Window /\ Limit \in [Tier -> Nat]
  BY LimitsAssumption
<1>2. IsFiniteSet(Time) /\ Time \subseteq Nat
  BY <1>1, FS_Interval DEF Time
<1> QED BY <1>1, <1>2

LEMMA InTime ==
  ASSUME NEW from \in Time
  PROVE  In(from) \in SUBSET Time /\ IsFiniteSet(In(from))
<1>1. In(from) \in SUBSET Time
  BY DEF In
<1> QED BY <1>1, BoundsAre, FS_Subset

LEMMA InitLimits == LimInit => LimInv
<1> SUFFICES ASSUME LimInit PROVE LimInv
  OBVIOUS
<1>1. LimTypes
  BY BoundsAre DEF LimInit, LimTypes, Hits, Time
<1>2. Remembered
  BY <1>1, BoundsAre DEF LimInit, Remembered, LimTypes, Hits
<1>3. ASSUME NEW b \in Tier \X Key, NEW from \in Time PROVE Sum(served[b], In(from)) <= Limit[b[1]]
  <2>1. AllNat(served[b], In(from)) /\ Covers(served[b], served[b], In(from), {})
    BY BoundsAre DEF LimInit, AllNat, Covers, In
  <2>2. Sum(served[b], In(from)) <= Sum(served[b], {})
    BY <2>1, InTime, FS_EmptySet, SumAtMost DEF AllNat
  <2>3. Sum(served[b], In(from)) <= 0
    BY <2>2, SumEmpty
  <2>4. Limit[b[1]] \in Nat
    BY BoundsAre
  <2>5. Sum(served[b], In(from)) \in Nat
    BY <2>1, InTime, SumNat
  <2> QED BY <2>3, <2>4, <2>5
<1> QED BY <1>1, <1>2, <1>3 DEF LimInv, Within

LEMMA SinceIs ==
  ASSUME LimTypes, NEW b \in Tier \X Key, NEW age \in Nat
  PROVE  /\ Since(windows[b], age) \in [Time -> Nat]
         /\ \A t \in Time : now - t < age => Since(windows[b], age)[t] = windows[b][t]
BY DEF LimTypes, Hits, Since

LEMMA RequestKeeps ==
  ASSUME LimInv, NEW tier \in Tier, NEW u \in User, NEW valid \in BOOLEAN, NEW ip \in Ip,
         Request(tier, u, valid, ip)
  PROVE  LimInv'
<1>1. PICK b : b = Bucket(tier, u, valid, ip)
  OBVIOUS
<1>2. b \in Tier \X Key /\ b[1] = tier
  BY <1>1 DEF Bucket, Key
<1>3. PICK w : w = [Since(windows[b], Window) EXCEPT ![now] = @ + 1]
  OBVIOUS
<1>4. /\ now \in Time /\ now \in Nat /\ windows \in Hits /\ served \in Hits
      /\ Window \in Nat /\ Time \subseteq Nat
  BY BoundsAre DEF LimInv, LimTypes
<1>5. PICK old : old = Since(windows[b], Window)
  OBVIOUS
<1>6. old \in [Time -> Nat] /\ \A t \in Time : now - t < Window => old[t] = windows[b][t]
  BY <1>2, <1>4, <1>5, SinceIs DEF LimInv
<1>7. /\ w \in [Time -> Nat] /\ w[now] = old[now] + 1
      /\ \A t \in Time : t # now => w[t] = old[t]
  BY <1>3, <1>4, <1>5, <1>6
<1>8. windows' = [windows EXCEPT ![b] = w] /\ now' = now
  BY <1>1, <1>3 DEF Request
<1>9. CASE Total(w) > Limit[tier]
  <2>1. served' = served
    BY <1>1, <1>3, <1>9 DEF Request
  <2>2. LimTypes'
    BY <1>2, <1>4, <1>7, <1>8, <2>1 DEF LimTypes, Hits
  <2>3. ASSUME NEW c \in Tier \X Key, NEW t \in Time
        PROVE  (now - t < Window => served[c][t] <= windows'[c][t]) /\ (t > now => served[c][t] = 0)
    <3>1. (now - t < Window => served[c][t] <= windows[c][t]) /\ (t > now => served[c][t] = 0)
      BY DEF LimInv, Remembered
    <3>2. served[c][t] \in Nat /\ windows[c][t] \in Nat
      BY <1>4 DEF Hits
    <3>3. c # b => windows'[c] = windows[c]
      BY <1>4, <1>8 DEF Hits
    <3>4. c = b => windows'[c] = w
      BY <1>2, <1>4, <1>8 DEF Hits
    <3>5. now - t < Window => w[t] >= windows[b][t]
      BY <1>4, <1>6, <1>7
    <3>6. w[t] \in Nat /\ windows[b][t] \in Nat
      BY <1>2, <1>4, <1>7 DEF Hits
    <3>7. CASE c = b BY <3>1, <3>2, <3>4, <3>5, <3>6, <3>7
    <3>8. CASE c # b BY <3>1, <3>3, <3>8
    <3> QED BY <3>7, <3>8
  <2>4. Remembered'
    BY <1>8, <2>1, <2>3 DEF Remembered
  <2>5. Within'
    BY <2>1 DEF LimInv, Within
  <2> QED BY <2>2, <2>4, <2>5 DEF LimInv
<1>10. CASE ~(Total(w) > Limit[tier])
  <2>1. PICK f : f = [served[b] EXCEPT ![now] = @ + 1]
    OBVIOUS
  <2>2. served' = [served EXCEPT ![b] = f]
    BY <1>1, <1>3, <1>4, <1>10, <2>1 DEF Request, Hits
  <2>3. served[b] \in [Time -> Nat]
    BY <1>2, <1>4 DEF Hits
  <2>4. /\ f \in [Time -> Nat] /\ f[now] = served[b][now] + 1
        /\ \A t \in Time : t # now => f[t] = served[b][t]
    BY <1>4, <2>1, <2>3
  <2>5. LimTypes'
    BY <1>2, <1>4, <1>7, <1>8, <2>2, <2>4 DEF LimTypes, Hits
  <2>6. /\ \A c \in Tier \X Key : c # b => windows'[c] = windows[c] /\ served'[c] = served[c]
        /\ windows'[b] = w /\ served'[b] = f
    BY <1>2, <1>4, <1>8, <2>2 DEF Hits
  <2>7. ASSUME NEW t \in Time
        PROVE  (now - t < Window => f[t] <= w[t]) /\ (t > now => f[t] = 0)
    <3>1. (now - t < Window => served[b][t] <= windows[b][t]) /\ (t > now => served[b][t] = 0)
      BY <1>2 DEF LimInv, Remembered
    <3>2. served[b][t] \in Nat /\ windows[b][t] \in Nat /\ t \in Nat
      BY <1>2, <1>4 DEF Hits
    <3>3. CASE t = now
      BY <1>4, <1>6, <1>7, <2>4, <3>1, <3>2, <3>3
    <3>4. CASE t # now
      BY <1>6, <1>7, <2>4, <3>1, <3>2, <3>4
    <3> QED BY <3>3, <3>4
  <2>8. Remembered'
    <3>1. ASSUME NEW c \in Tier \X Key, NEW t \in Time
          PROVE  (now - t < Window => served'[c][t] <= windows'[c][t]) /\ (t > now => served'[c][t] = 0)
      <4>1. CASE c = b BY <2>6, <2>7, <4>1
      <4>2. CASE c # b BY <2>6, <4>2 DEF LimInv, Remembered
      <4> QED BY <4>1, <4>2
    <3> QED BY <1>8, <3>1 DEF Remembered
  <2>9. Sum(w, Time) <= Limit[tier]
    <3>1. Sum(w, Time) \in Nat /\ Limit[tier] \in Nat
      BY <1>7, BoundsAre, SumNat DEF AllNat
    <3> QED BY <1>10, <3>1, TotalIs
  <2>10. ASSUME NEW from \in Time PROVE Sum(f, In(from)) <= Limit[tier]
    <3>0. In(from) \in SUBSET Time /\ IsFiniteSet(In(from)) /\ IsFiniteSet(Time)
      BY InTime, BoundsAre
    <3>c. AllNat(f, In(from)) /\ AllNat(w, Time) /\ AllNat(served[b], In(from))
      BY <1>7, <2>3, <2>4, <3>0 DEF AllNat
    <3>1. CASE now \in In(from)
      <4>1. ASSUME NEW t \in In(from) PROVE t \in Time /\ f[t] <= w[t]
        <5>1. t \in Time /\ t \in Nat /\ from \in Nat /\ from <= t /\ now - from < Window
          BY <1>4, <3>1, <4>1 DEF In
        <5>2. now - t < Window
          BY <1>4, <5>1
        <5> QED BY <2>7, <5>1, <5>2
      <4>2. Covers(f, w, In(from), Time)
        BY <4>1 DEF Covers
      <4>3. Sum(f, In(from)) <= Sum(w, Time)
        BY <3>0, <3>c, <4>2, SumAtMost
      <4>4. Sum(f, In(from)) \in Nat /\ Sum(w, Time) \in Nat /\ Limit[tier] \in Nat
        BY <3>0, <3>c, SumNat, BoundsAre
      <4> QED BY <2>9, <4>3, <4>4
    <3>2. CASE now \notin In(from)
      <4>1. \A t \in In(from) : f[t] = served[b][t]
        BY <2>4, <3>0, <3>2
      <4>2. Sum(f, In(from)) = Sum(served[b], In(from))
        BY <3>0, <3>c, <4>1, SumSame
      <4>3. Sum(served[b], In(from)) <= Limit[b[1]]
        BY <1>2 DEF LimInv, Within
      <4> QED BY <1>2, <4>2, <4>3
    <3> QED BY <3>1, <3>2
  <2>11. Within'
    <3>1. ASSUME NEW c \in Tier \X Key, NEW from \in Time PROVE Sum(served'[c], In(from)) <= Limit[c[1]]
      <4>1. CASE c = b BY <1>2, <2>6, <2>10, <4>1
      <4>2. CASE c # b BY <2>6, <4>2 DEF LimInv, Within
      <4> QED BY <4>1, <4>2
    <3> QED BY <3>1 DEF Within
  <2> QED BY <2>5, <2>8, <2>11 DEF LimInv
<1> QED BY <1>9, <1>10

LEMMA SweepKeeps ==
  ASSUME LimInv, SweepIdle
  PROVE  LimInv'
<1>1. served' = served /\ now' = now /\ windows' = [b \in Tier \X Key |-> Since(windows[b], Stale)]
  BY DEF SweepIdle, Horizon
<1>2. /\ now \in Time /\ now \in Nat /\ windows \in Hits /\ served \in Hits /\ LimTypes
      /\ Window \in Nat /\ Stale \in Nat /\ Stale >= Window /\ Time \subseteq Nat
  BY BoundsAre DEF LimInv, LimTypes
<1>3. LimTypes'
  BY <1>1, <1>2, SinceIs DEF LimTypes, Hits
<1>4. ASSUME NEW b \in Tier \X Key, NEW t \in Time
      PROVE  (now - t < Window => served[b][t] <= windows'[b][t]) /\ (t > now => served[b][t] = 0)
  <2>1. now - t < Window => Since(windows[b], Stale)[t] = windows[b][t]
    BY <1>2, SinceIs
  <2>2. windows'[b] = Since(windows[b], Stale)
    BY <1>1
  <2> QED BY <2>1, <2>2 DEF LimInv, Remembered
<1>5. Remembered'
  BY <1>1, <1>4 DEF Remembered
<1>6. Within'
  BY <1>1 DEF LimInv, Within
<1> QED BY <1>3, <1>5, <1>6 DEF LimInv

LEMMA TickKeeps ==
  ASSUME LimInv, Tick
  PROVE  LimInv'
<1>1. served' = served /\ windows' = windows /\ now' = now + 1 /\ now < MaxTime
  BY DEF Tick
<1>2. now \in Nat /\ MaxTime \in Nat /\ Window \in Nat /\ Time \subseteq Nat
  BY BoundsAre DEF LimInv, LimTypes
<1>3. LimTypes'
  BY <1>1, <1>2 DEF LimInv, LimTypes, Time
<1>4. ASSUME NEW b \in Tier \X Key, NEW t \in Time
      PROVE  (now' - t < Window => served'[b][t] <= windows'[b][t]) /\ (t > now' => served'[b][t] = 0)
  <2>1. t \in Nat /\ now' \in Nat
    BY <1>1, <1>2
  <2>2. now' - t < Window => now - t < Window
    BY <1>1, <1>2, <2>1
  <2>3. t > now' => t > now
    BY <1>1, <1>2, <2>1
  <2>4. served'[b][t] = served[b][t] /\ windows'[b][t] = windows[b][t]
    BY <1>1
  <2> QED BY <2>2, <2>3, <2>4 DEF LimInv, Remembered
<1>5. Remembered'
  BY <1>4 DEF Remembered
<1>6. Within'
  BY <1>1 DEF LimInv, Within
<1> QED BY <1>3, <1>5, <1>6 DEF LimInv

LEMMA LimStep == LimInv /\ [LimNext]_limVars => LimInv'
<1> SUFFICES ASSUME LimInv, [LimNext]_limVars PROVE LimInv'
  OBVIOUS
<1>1. CASE UNCHANGED limVars
  <2>1. now' = now /\ windows' = windows /\ served' = served
    BY <1>1 DEF limVars
  <2> QED BY <2>1 DEF LimInv, LimTypes, Remembered, Within
<1>2. CASE LimNext
  <2>1. CASE \E tier \in Tier, u \in User, valid \in BOOLEAN, ip \in Ip : Request(tier, u, valid, ip)
    BY <2>1, RequestKeeps
  <2>2. CASE SweepIdle BY <2>2, SweepKeeps
  <2>3. CASE Tick BY <2>3, TickKeeps
  <2> QED BY <1>2, <2>1, <2>2, <2>3 DEF LimNext
<1> QED BY <1>1, <1>2

(* No window of time, wherever it begins, sees more requests let in than   *)
(* its tier allows.                                                        *)
THEOREM LimitsHold == LimSpec => []WithinLimit
<1>1. LimInv => WithinLimit
  BY WithinIs DEF LimInv
<1> QED
  BY InitLimits, LimStep, <1>1, PTL DEF LimSpec

-----------------------------------------------------------------------------
(* Calls over OCPP.                                                        *)
Socket == [cp : CP, st : {"OPEN", "CLOSING", "CLOSED"}, pushes : Nat]

Acks == {"Accepted", "Rejected", "CALLERROR", "MALFORMED", "RESULT", "TIMEOUT"}

CallRow == [cp : CP, kind : {"push", "remote", "command", "read"}, sock : Nat,
         frame : Answers \cup {"OUT", "GONE", "UNSENT"}, pending : BOOLEAN,
         ack : Acks \cup {""}, told : {"", "WAITS", "OK", "REJECTED", "FAILED"}]

-----------------------------------------------------------------------------
(* The registry.                                                           *)

Registry == /\ sock \in Seq(Socket)
            /\ registry \in [CP -> Nat]
            /\ online \in [CP -> BOOLEAN]

RInv == Registry /\ NewestRegistered

LEMMA ConnectKeeps ==
  ASSUME RInv, NEW c \in CP, Connect(c)
  PROVE  RInv'
<1> DEFINE old == [s \in DOMAIN sock |-> IF s = registry[c] /\ sock[s].st = "OPEN"
                                         THEN [sock[s] EXCEPT !.st = "CLOSING"] ELSE sock[s]]
           new == [cp |-> c, st |-> "OPEN", pushes |-> 0]
           n == Len(sock)
<1>1. n \in Nat /\ DOMAIN sock = 1 .. n /\ \A s \in 1 .. n : sock[s] \in Socket
  BY LenProperties, ElementOfSeq DEF RInv, Registry
<1>2. old \in [1 .. n -> Socket]
  BY <1>1 DEF Socket
<1>3. old \in Seq(Socket) /\ Len(old) = n
  BY <1>1, <1>2, FunctionIsSeq
<1>4. new \in Socket
  BY DEF Socket
<1>5. sock' = Append(old, new)
  BY DEF Connect
<1>6. /\ sock' \in Seq(Socket) /\ DOMAIN sock' = 1 .. n + 1
      /\ sock'[n + 1] = new
      /\ \A s \in 1 .. n : sock'[s] = old[s]
  BY <1>1, <1>3, <1>4, <1>5
<1>7. registry' = [registry EXCEPT ![c] = n + 1] /\ online' = [online EXCEPT ![c] = TRUE]
  BY DEF Connect
<1>8. Registry'
  BY <1>1, <1>6, <1>7 DEF RInv, Registry
<1>9. \A s \in 1 .. n : /\ sock'[s].cp = sock[s].cp
                        /\ sock'[s].st = IF s = registry[c] /\ sock[s].st = "OPEN"
                                         THEN "CLOSING" ELSE sock[s].st
  BY <1>1, <1>6 DEF Socket
<1> HIDE DEF old
<1> SUFFICES ASSUME NEW d \in CP
             PROVE /\ online'[d] <=> registry'[d] # 0
                   /\ registry'[d] # 0 => /\ registry'[d] \in Standing(d)'
                                          /\ \A s \in Standing(d)' : s # registry'[d] =>
                                               s < registry'[d] /\ sock'[s].st = "CLOSING"
                   /\ \A s \in Standing(d)' : sock'[s].st = "OPEN" => registry'[d] = s
  BY <1>8 DEF RInv, NewestRegistered
<1>10. CASE d = c
  <2>1. registry'[c] = n + 1 /\ online'[c] = TRUE /\ n + 1 # 0
    BY <1>1, <1>7 DEF RInv, Registry
  <2>2. n + 1 \in Standing(c)'
    BY <1>1, <1>6 DEF Standing
  <2>3. ASSUME NEW s \in Standing(c)', s # n + 1
        PROVE  s < n + 1 /\ sock'[s].st = "CLOSING"
    <3>1. s \in 1 .. n
      BY <1>1, <1>6, <2>3 DEF Standing
    <3>2. s \in Standing(c)
      BY <3>1, <1>1, <1>9, <2>3 DEF Standing
    <3>3. sock[s].st = "OPEN" => registry[c] = s
      BY <3>2 DEF RInv, NewestRegistered
    <3>4. sock'[s].st # "OPEN"
      BY <3>1, <3>3, <1>9
    <3>5. sock'[s] \in Socket
      BY <3>1, <1>1, <1>2, <1>6 DEF old
    <3>6. sock'[s].st \in {"OPEN", "CLOSING", "CLOSED"} /\ sock'[s].st # "CLOSED"
      BY <3>5, <2>3 DEF Standing, Socket
    <3> QED
      BY <3>1, <3>4, <3>6, <1>1
  <2> QED
    BY <1>10, <2>1, <2>2, <2>3
<1>11. CASE d # c
  <2>1. registry'[d] = registry[d] /\ online'[d] = online[d]
    BY <1>7, <1>11 DEF RInv, Registry
  <2>2. Standing(d)' = Standing(d)
    BY <1>1, <1>6, <1>9, <1>11 DEF Standing
  <2>3. \A s \in Standing(d) : sock'[s].st = sock[s].st
    <3> SUFFICES ASSUME NEW s \in Standing(d) PROVE s # registry[c]
      BY <1>1, <1>9 DEF Standing
    <3>1. registry[c] # 0 => registry[c] \in Standing(c)
      BY DEF RInv, NewestRegistered
    <3> QED
      BY <3>1, <1>1, <1>11 DEF Standing
  <2> QED
    BY <2>1, <2>2, <2>3 DEF RInv, NewestRegistered
<1> QED
  BY <1>10, <1>11

(* A step that changes the state of one connection, from open to closing,  *)
(* or none, and no owner, keeps the registry.                              *)
LEMMA StateKeeps ==
  ASSUME RInv, UNCHANGED <<registry, online>>, NEW s \in DOMAIN sock,
         NEW to \in Socket, to.cp = sock[s].cp,
         to.st = sock[s].st \/ (sock[s].st = "OPEN" /\ to.st = "CLOSING"),
         sock' = [sock EXCEPT ![s] = to]
  PROVE  RInv'
<1>1. Len(sock) \in Nat /\ DOMAIN sock = 1 .. Len(sock) /\ \A k \in DOMAIN sock : sock[k] \in Socket
  BY LenProperties, ElementOfSeq DEF RInv, Registry
<1>2. sock' \in Seq(Socket) /\ DOMAIN sock' = DOMAIN sock
  BY <1>1, ExceptSeq DEF RInv, Registry
<1>3. Registry'
  BY <1>2 DEF RInv, Registry
<1>4. \A k \in DOMAIN sock : /\ sock'[k].cp = sock[k].cp
                             /\ \/ sock'[k].st = sock[k].st
                                \/ sock[k].st = "OPEN" /\ sock'[k].st = "CLOSING"
  BY <1>1
<1>5. \A d \in CP : Standing(d)' = Standing(d)
  BY <1>2, <1>4 DEF Standing
<1>6. NewestRegistered'
  BY <1>2, <1>4, <1>5 DEF RInv, NewestRegistered, Standing
<1> QED
  BY <1>3, <1>6 DEF RInv

LEMMA ClosedKeeps ==
  ASSUME RInv, NEW s \in DOMAIN sock, Closed(s)
  PROVE  RInv'
<1>1. Len(sock) \in Nat /\ DOMAIN sock = 1 .. Len(sock) /\ \A k \in DOMAIN sock : sock[k] \in Socket
  BY LenProperties, ElementOfSeq DEF RInv, Registry
<1>2. sock' = [sock EXCEPT ![s].st = "CLOSED"]
  BY DEF Closed
<1>3. [sock[s] EXCEPT !.st = "CLOSED"] \in Socket
  BY <1>1 DEF Socket
<1> PICK c \in CP : c = sock[s].cp
  BY <1>1 DEF Socket
<1>4. sock' \in Seq(Socket) /\ DOMAIN sock' = DOMAIN sock
  BY <1>1, <1>2, <1>3, ExceptSeq DEF RInv, Registry
<1>5. \A k \in DOMAIN sock : /\ sock'[k].cp = sock[k].cp
                             /\ sock'[k].st = IF k = s THEN "CLOSED" ELSE sock[k].st
  BY <1>1, <1>2 DEF Socket
<1>6. \A d \in CP : Standing(d)' = Standing(d) \ {s}
  BY <1>4, <1>5 DEF Standing
<1>7. CASE registry[c] = s
  <2>1. registry' = [registry EXCEPT ![c] = 0] /\ online' = [online EXCEPT ![c] = FALSE]
    BY <1>7 DEF Closed, OwnsSlot
  <2>2. Registry'
    BY <1>3, <1>4, <2>1 DEF RInv, Registry
  <2>3. \A d \in CP : d # c => s \notin Standing(d)
    BY DEF Standing
  <2>4. NewestRegistered'
    <3> SUFFICES ASSUME NEW d \in CP
                 PROVE /\ online'[d] <=> registry'[d] # 0
                       /\ registry'[d] # 0 => /\ registry'[d] \in Standing(d)'
                                              /\ \A k \in Standing(d)' : k # registry'[d] =>
                                                   k < registry'[d] /\ sock'[k].st = "CLOSING"
                       /\ \A k \in Standing(d)' : sock'[k].st = "OPEN" => registry'[d] = k
      BY DEF NewestRegistered
    <3>1. CASE d = c
      <4>1. registry'[c] = 0 /\ online'[c] = FALSE
        BY <1>3, <2>1 DEF RInv, Registry
      <4>2. \A k \in Standing(c)' : sock[k].st = "OPEN" => k = s
        BY <1>6, <1>7 DEF RInv, NewestRegistered
      <4> QED
        BY <3>1, <4>1, <4>2, <1>3, <1>5, <1>6 DEF Standing
    <3>2. CASE d # c
      <4>1. registry'[d] = registry[d] /\ online'[d] = online[d] /\ Standing(d)' = Standing(d)
        BY <3>2, <2>1, <2>3, <1>6 DEF RInv, Registry
      <4>2. \A k \in Standing(d) : sock'[k].st = sock[k].st
        BY <3>2, <2>3, <1>5 DEF Standing
      <4> QED
        BY <4>1, <4>2 DEF RInv, NewestRegistered
    <3> QED
      BY <3>1, <3>2
  <2> QED
    BY <2>2, <2>4 DEF RInv
<1>8. CASE registry[c] # s
  <2>1. UNCHANGED <<registry, online>>
    BY <1>8 DEF Closed, OwnsSlot
  <2>2. Registry'
    BY <1>4, <2>1 DEF RInv, Registry
  <2>3. \A d \in CP : registry[d] = s => s = 0
    <3> SUFFICES ASSUME NEW d \in CP, registry[d] = s, s # 0 PROVE FALSE
      OBVIOUS
    <3>1. s \in Standing(d)
      BY DEF RInv, NewestRegistered
    <3> QED
      BY <3>1, <1>8 DEF Standing
  <2>4. s # 0
    BY <1>1
  <2>5. NewestRegistered'
    BY <1>5, <1>6, <2>1, <2>3, <2>4 DEF RInv, NewestRegistered, Standing
  <2> QED
    BY <2>2, <2>5 DEF RInv
<1> QED
  BY <1>7, <1>8

LEMMA RegistryStep == RInv /\ [Next]_vars => RInv'
<1> SUFFICES ASSUME RInv, [Next]_vars PROVE RInv'
  OBVIOUS
<1>1. DOMAIN sock = 1 .. Len(sock) /\ Len(sock) \in Nat /\ \A k \in DOMAIN sock : sock[k] \in Socket
  BY LenProperties, ElementOfSeq DEF RInv, Registry
<1>2. CASE UNCHANGED <<sock, registry, online>>
  BY <1>2 DEF RInv, Registry, NewestRegistered, Standing
<1>3. CASE \E c \in CP : Connect(c)
  BY <1>3, ConnectKeeps
<1>4. ASSUME NEW c \in CP, Reachable(c), CountPush(c), UNCHANGED <<registry, online>>
      PROVE  RInv'
  <2> DEFINE s == registry[c]
             to == [sock[s] EXCEPT !.pushes = @ + 1]
  <2>1. s \in DOMAIN sock
    BY <1>4 DEF Reachable, RInv, NewestRegistered, Standing
  <2>2. to \in Socket /\ to.cp = sock[s].cp /\ to.st = sock[s].st
    BY <1>1, <2>1 DEF Socket
  <2>3. sock' = [sock EXCEPT ![s] = to]
    BY <1>4 DEF CountPush
  <2> QED
    BY <2>1, <2>2, <2>3, <1>4, StateKeeps
<1>5. CASE \E c \in CP : SendPush(c) \/ RefusePush(c)
  BY <1>4, <1>5 DEF SendPush, RefusePush
<1>6. CASE \E s \in DOMAIN sock : PeerCloses(s)
  <2>1. PICK s \in DOMAIN sock : PeerCloses(s)
    BY <1>6
  <2> DEFINE to == [sock[s] EXCEPT !.st = "CLOSING"]
  <2>2. to \in Socket /\ to.cp = sock[s].cp /\ to.st = "CLOSING" /\ sock[s].st = "OPEN"
    BY <1>1, <2>1 DEF Socket, PeerCloses
  <2>3. sock' = [sock EXCEPT ![s] = to] /\ UNCHANGED <<registry, online>>
    BY <2>1 DEF PeerCloses
  <2> QED
    BY <2>2, <2>3, StateKeeps
<1>7. CASE \E s \in DOMAIN sock : Closed(s)
  BY <1>7, ClosedKeeps
<1> QED
  BY <1>2, <1>3, <1>5, <1>6, <1>7
  DEF Next, vars, Abandon, SendCall, SendRemote, SendCommand, Read, Receive, GiveUp, Stray, Sweep

(* Whatever order connections open and close in, the registry names the    *)
(* newest of a charge point's connections that stands (gateway.js,         *)
(* connection and close handlers).                                         *)
THEOREM RegistryIsNewest == Spec => []NewestRegistered
<1>1. Init => RInv
  BY EmptySeq DEF Init, RInv, Registry, NewestRegistered, Standing
<1>2. RInv => NewestRegistered
  BY DEF RInv
<1> QED
  BY <1>1, <1>2, RegistryStep, PTL DEF Spec

-----------------------------------------------------------------------------
(* What was told stands.                                                   *)

\* Nothing was recorded or told of a call while somebody still waits for it.
Untold(cl) ==
  /\ cl.pending => cl.ack = "" /\ cl.told \in {"", "WAITS"}
  /\ cl.told = "WAITS" => cl.ack = ""

OInv == /\ RInv
        /\ calls \in Seq(CallRow)
        /\ \A n \in DOMAIN calls : Untold(calls[n])

\* One call's change takes nothing back.
Keeps(old, new) ==
  /\ old.ack # "" => new.ack = old.ack
  /\ old.told \notin {"", "WAITS"} => new.told = old.told

LEMMA SettledKeeps ==
  ASSUME NEW cl \in CallRow, NEW ack \in Acks, Untold(cl),
         cl.pending \/ cl.told = "WAITS"
  PROVE  Settled(cl, ack) \in CallRow /\ Untold(Settled(cl, ack)) /\ Keeps(cl, Settled(cl, ack))
<1> DEFINE r == Settled(cl, ack)
<1>1. ToldOf(ack) \in {"OK", "REJECTED", "FAILED"}
  BY DEF ToldOf
<1>2. r \in CallRow
  BY <1>1 DEF Settled, CallRow
<1>3. r.pending = FALSE
  BY DEF Settled, CallRow
<1>4. /\ r.ack = IF cl.kind = "push" THEN ack ELSE cl.ack
      /\ r.told = IF cl.told = "WAITS" THEN ToldOf(ack) ELSE cl.told
  BY DEF Settled, CallRow
<1>5. Untold(r)
  BY <1>1, <1>3, <1>4 DEF Untold
<1>6. Keeps(cl, r)
  BY <1>4 DEF Keeps, Untold
<1> QED
  BY <1>2, <1>5, <1>6

\* Calls that change one by one, each keeping its story.
StoryKept == /\ calls' \in Seq(CallRow)
             /\ DOMAIN calls \subseteq DOMAIN calls'
             /\ \A n \in DOMAIN calls' : Untold(calls'[n])
             /\ \A n \in DOMAIN calls : Keeps(calls[n], calls'[n])

LEMMA CallsSequence ==
  ASSUME calls \in Seq(CallRow)
  PROVE  /\ Len(calls) \in Nat /\ DOMAIN calls = 1 .. Len(calls)
         /\ \A n \in DOMAIN calls : calls[n] \in CallRow
  BY LenProperties, ElementOfSeq

\* A step that maps every call to a call keeps the stories if each map does.
LEMMA MapKeeps ==
  ASSUME OInv, DOMAIN calls' = DOMAIN calls,
         calls' = [n \in DOMAIN calls |-> calls'[n]],
         \A n \in DOMAIN calls : calls'[n] \in CallRow /\ Untold(calls'[n]) /\ Keeps(calls[n], calls'[n])
  PROVE  StoryKept
<1>1. Len(calls) \in Nat /\ DOMAIN calls = 1 .. Len(calls)
  BY CallsSequence DEF OInv
<1>2. calls' \in [1 .. Len(calls) -> CallRow]
  BY <1>1
<1>3. calls' \in Seq(CallRow)
  BY <1>1, <1>2, FunctionIsSeq
<1> QED
  BY <1>3 DEF StoryKept

LEMMA NewCallKeeps ==
  ASSUME OInv, NEW cl \in CallRow, Untold(cl), calls' = Append(calls, cl)
  PROVE  StoryKept
<1>1. /\ Len(calls) \in Nat /\ DOMAIN calls = 1 .. Len(calls)
      /\ \A n \in DOMAIN calls : calls[n] \in CallRow
  BY CallsSequence DEF OInv
<1>2. /\ calls' \in Seq(CallRow) /\ DOMAIN calls' = 1 .. Len(calls) + 1
      /\ calls'[Len(calls) + 1] = cl
      /\ \A n \in DOMAIN calls : calls'[n] = calls[n]
  BY <1>1 DEF OInv
<1> QED
  BY <1>1, <1>2 DEF StoryKept, Keeps, OInv

LEMMA ResultKeeps ==
  ASSUME OInv, NEW n \in DOMAIN calls, NEW s, NEW ans \in Answers, NEW cs,
         cs = calls \/ cs = [calls EXCEPT ![n].frame = "GONE"], HandleResult(cs, n, s, ans)
  PROVE  StoryKept
<1>1. \A k \in DOMAIN calls : calls[k] \in CallRow /\ Untold(calls[k])
  BY CallsSequence DEF OInv
<1>2. /\ DOMAIN cs = DOMAIN calls /\ cs = [k \in DOMAIN calls |-> cs[k]]
      /\ \A k \in DOMAIN calls : cs[k] \in CallRow /\ Untold(cs[k]) /\ Keeps(calls[k], cs[k])
                                 /\ (Untold(cs[k]) /\ cs[k].ack = calls[k].ack /\ cs[k].told = calls[k].told)
  <2>1. CASE cs = calls
    BY <2>1, <1>1, CallsSequence DEF OInv, Keeps
  <2>2. CASE cs = [calls EXCEPT ![n].frame = "GONE"]
    <3>1. /\ cs[n] = [calls[n] EXCEPT !.frame = "GONE"] /\ DOMAIN cs = DOMAIN calls
          /\ \A k \in DOMAIN calls : k # n => cs[k] = calls[k]
      BY <2>2
    <3>2. ASSUME NEW k \in DOMAIN calls
          PROVE  /\ cs[k] \in CallRow /\ Untold(cs[k]) /\ Keeps(calls[k], cs[k])
                 /\ cs[k].ack = calls[k].ack /\ cs[k].told = calls[k].told
      <4>1. CASE k = n
        BY <1>1, <3>1, <4>1 DEF CallRow, Keeps, Untold
      <4>2. CASE k # n
        BY <1>1, <3>1, <4>2 DEF Keeps
      <4> QED BY <4>1, <4>2
    <3>3. cs = [k \in DOMAIN calls |-> cs[k]]
      BY <2>2
    <3> QED BY <3>1, <3>2, <3>3
  <2> QED
    BY <2>1, <2>2
<1>3. CASE calls' = cs
  BY <1>2, <1>3, MapKeeps
<1>4. CASE cs[n].pending /\ calls' = [cs EXCEPT ![n] = Settled(cs[n], AckOf(n, ans))]
  <2>1. AckOf(n, ans) \in Acks
    BY DEF AckOf, Acks, Answers
  <2>2. LET new == Settled(cs[n], AckOf(n, ans)) IN
          new \in CallRow /\ Untold(new) /\ Keeps(cs[n], new)
    BY <1>2, <1>4, <2>1, SettledKeeps
  <2>3. Keeps(calls[n], Settled(cs[n], AckOf(n, ans)))
    BY <1>2, <2>2 DEF Keeps
  <2> QED
    BY <1>2, <1>4, <2>2, <2>3, MapKeeps
<1> QED
  BY <1>3, <1>4 DEF HandleResult, IsPending

LEMMA CallsStep == OInv /\ [Next]_vars => StoryKept
<1> SUFFICES ASSUME OInv, [Next]_vars PROVE StoryKept
  OBVIOUS
<1>1. \A n \in DOMAIN calls : calls[n] \in CallRow /\ Untold(calls[n])
  BY CallsSequence DEF OInv
<1>2. CASE UNCHANGED calls
  BY <1>2 DEF OInv, StoryKept, Keeps
<1>3. ASSUME NEW c \in CP, NEW kind \in Kinds
      PROVE  NewCall(c, kind) \in CallRow /\ Untold(NewCall(c, kind))
  BY CallsAssumption DEF NewCall, Awaited, CallRow, Untold, OInv, RInv, Registry
<1>4. ASSUME NEW c \in CP, SendPush(c) \/ RefusePush(c)
      PROVE  StoryKept
  <2>1. CASE SendPush(c)
    BY <1>3, <2>1, NewCallKeeps DEF SendPush
  <2>2. CASE RefusePush(c)
    <3>1. NewCall(c, "push") \in CallRow /\ Untold(NewCall(c, "push"))
      BY <2>2, <1>3 DEF RefusePush
    <3>2. UnsentPush(c) \in CallRow /\ Untold(UnsentPush(c))
      BY <3>1 DEF UnsentPush, CallRow, Untold
    <3> QED
      BY <2>2, <3>2, NewCallKeeps DEF RefusePush
  <2> QED
    BY <1>4, <2>1, <2>2
<1>5. ASSUME NEW c \in CP, SendRemote(c) \/ SendCommand(c)
      PROVE  StoryKept
  <2>1. PICK kind : SendCall(c, kind)
    BY <1>5 DEF SendRemote, SendCommand
  <2> QED
    BY <1>3, <2>1, NewCallKeeps DEF SendCall
<1>6. ASSUME NEW s \in DOMAIN sock, Closed(s)
      PROVE  StoryKept
  <2>1. calls' = [n \in DOMAIN calls |->
                   IF n \in OnWayBack(s) THEN [calls[n] EXCEPT !.frame = "GONE"] ELSE calls[n]]
    BY <1>6 DEF Closed
  <2>2. ASSUME NEW n \in DOMAIN calls
        PROVE  calls'[n] \in CallRow /\ Untold(calls'[n]) /\ Keeps(calls[n], calls'[n])
    <3>1. calls'[n] = calls[n] \/ calls'[n] = [calls[n] EXCEPT !.frame = "GONE"]
      BY <2>1
    <3> QED BY <1>1, <3>1 DEF CallRow, Untold, Keeps
  <2> QED
    BY <2>1, <2>2, MapKeeps
<1>7. ASSUME NEW c \in CP, NEW ans \in Answers \cup {"GONE"}, Read(c, ans)
      PROVE  StoryKept
  <2>1. PICK n \in DOMAIN calls : calls' = [calls EXCEPT ![n].frame = ans]
    BY <1>7 DEF Read, NextFrame
  <2>2. ASSUME NEW k \in DOMAIN calls
        PROVE  calls'[k] \in CallRow /\ Untold(calls'[k]) /\ Keeps(calls[k], calls'[k])
    <3>1. calls'[k] = calls[k] \/ calls'[k] = [calls[k] EXCEPT !.frame = ans]
      BY <2>1
    <3> QED BY <1>1, <3>1 DEF CallRow, Untold, Keeps, Answers
  <2> QED
    BY <2>1, <2>2, MapKeeps
<1>8. ASSUME NEW n \in DOMAIN calls, Receive(n)
      PROVE  StoryKept
  BY <1>8, ResultKeeps DEF Receive, Answers
<1>9. ASSUME NEW n \in DOMAIN calls, GiveUp(n)
      PROVE  StoryKept
  <2>1. calls' = [calls EXCEPT ![n] = Settled(calls[n], "TIMEOUT")]
    BY <1>9 DEF GiveUp
  <2>2. LET new == Settled(calls[n], "TIMEOUT") IN
          new \in CallRow /\ Untold(new) /\ Keeps(calls[n], new)
    BY <1>1, <1>9, SettledKeeps DEF GiveUp, Acks
  <2>3. \A k \in DOMAIN calls : Keeps(calls[k], calls[k])
    BY DEF Keeps
  <2> QED
    BY <1>1, <2>1, <2>2, <2>3, MapKeeps
<1>10. ASSUME NEW c \in CP, NEW n \in DOMAIN calls, NEW ans \in Answers, Stray(c, n, ans)
       PROVE  StoryKept
  BY <1>10, ResultKeeps DEF Stray, Answers
<1>11. ASSUME NEW overdue \in SUBSET DOMAIN calls, Sweep(overdue)
       PROVE  StoryKept
  <2>1. calls' = [n \in DOMAIN calls |->
                    IF n \in overdue THEN Settled(calls[n], "TIMEOUT") ELSE calls[n]]
    BY <1>11 DEF Sweep
  <2>2. \A n \in overdue : calls[n].pending
    BY <1>11 DEF Sweep
  <2>3. \A n \in DOMAIN calls : calls'[n] \in CallRow /\ Untold(calls'[n]) /\ Keeps(calls[n], calls'[n])
    <3> TAKE n \in DOMAIN calls
    <3>1. CASE n \in overdue
      BY <3>1, <1>1, <2>1, <2>2, SettledKeeps DEF Acks
    <3>2. CASE n \notin overdue
      BY <3>2, <1>1, <2>1 DEF Keeps
    <3> QED
      BY <3>1, <3>2
  <2> QED
    BY <2>1, <2>3, MapKeeps
<1> QED
  BY <1>2, <1>4, <1>5, <1>6, <1>7, <1>8, <1>9, <1>10, <1>11
  DEF Next, vars, Connect, Abandon, PeerCloses

(* No later answer, sweep or timer changes what a call's audit row or its  *)
(* awaiting request was once told (handleCsmsResult, sweepExpiredAcks,     *)
(* commands.send).                                                         *)
THEOREM OutcomesStand == Spec => OutcomeStands
<1>1. Init => OInv
  BY EmptySeq DEF Init, OInv, RInv, Registry, NewestRegistered, Standing
<1>2. OInv /\ [Next]_vars => OInv'
  BY CallsStep, RegistryStep DEF OInv, StoryKept
<1>3. OInv /\ [Next]_vars =>
        [\A n \in DOMAIN calls :
           /\ calls[n].ack # "" => calls'[n].ack = calls[n].ack
           /\ calls[n].told \notin {"", "WAITS"} => calls'[n].told = calls[n].told]_vars
  BY CallsStep DEF StoryKept, Keeps
<1> QED
  BY <1>1, <1>2, <1>3, PTL DEF Spec, OutcomeStands
=============================================================================
