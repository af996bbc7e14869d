-------------------------- MODULE WalletRail_proofs --------------------------
(***************************************************************************)
(* Proofs about WalletRail, for any numbers of drivers, addresses, intents,*)
(* invoices, waiting settlements and mirrors under way: one credit per     *)
(* signature, one debit per invoice, and links that survive a restart.     *)
(***************************************************************************)
EXTENDS WalletRail, FiniteSetTheorems, SequenceTheorems, TLAPS

(* ------------------------------- the types ----------------------------- *)
IntentRow == {NoIntent} \cup [user : User, status : {"PENDING", "SETTLED", "EXPIRED", "GONE"}]
TopupRow == [user : User, seq : Nat, amount : Int, by : Intent \cup {"plain"}]
LedgerRow == [user : User, seq : Nat, amount : Int, by : Intent \cup Invoice \cup {"plain"}]
TopupJob == [kind : {"topup"}, row : TopupRow, after : Int, pre : Int, len : Nat]
LinkJob == [kind : {"link", "relink", "again", "phantom", "unlink"}, user : User, address : Address]
MirrorJob == TopupJob \cup LinkJob

TypeOK ==
  /\ balance \in [User -> Int] /\ durBalance \in [User -> Int]
  /\ ledger \in Seq(LedgerRow) /\ durLedger \in SUBSET LedgerRow /\ IsFiniteSet(durLedger)
  /\ invoice \in [Invoice -> {"DUE", "PAID"}] /\ durInvoice \in [Invoice -> {"DUE", "PAID"}]
  /\ paying \in SUBSET Invoice
  /\ challenge \in [Nonce -> {None, Used} \cup [user : User, address : Address]]
  /\ link \in [Address -> User \cup {None}] /\ durLink \in [Address -> User \cup {None}]
  /\ intent \in [Intent -> IntentRow]
  /\ settling \in [Intent -> Nat]
  /\ mirror \in Seq(MirrorJob)

(* ------------------------- the inductive invariant --------------------- *)
(* At most one credit of an intent is on its way, under the intent's key;  *)
(* while it is, or may yet be, Oracle has none.                            *)
JobOf(i, k) == k \in 1..Len(mirror) /\ mirror[k].kind = "topup" /\ mirror[k].row.by = i

CreditOK(i) ==
  /\ \A r, q \in RowsOf(i) : r = q
  /\ intent[i].status = "SETTLED" => RowsOf(i) # {}
  /\ intent[i].status \in {"NONE", "PENDING"} \/ SettleJob(i) => RowsOf(i) = {}
  /\ SettleJob(i) => settling[i] > 0 /\ intent[i] # NoIntent
  /\ \A j, k : JobOf(i, j) /\ JobOf(i, k) => j = k

(* What memory has debited Oracle has debited, and each of them once.      *)
DebitOK(i) ==
  /\ \A r, q \in RowsOf(i) : r = q
  /\ RowsOf(i) # {} <=> durInvoice[i] = "PAID"
  /\ \A j, k \in DOMAIN ledger : ledger[j].by = i /\ ledger[k].by = i => j = k
  /\ \A k \in DOMAIN ledger : ledger[k].by = i => invoice[i] = "PAID"
  /\ invoice[i] = "PAID" \/ i \in paying => durInvoice[i] = "PAID"

(* The mirrors under way of an address.  While its link is on the way, it  *)
(* is linked in memory only, and the unlinks behind are its user's; else   *)
(* both sides agree, and all unlinks are that user's.                      *)
At(kind, a, k) == k \in 1..Len(mirror) /\ mirror[k].kind = kind /\ mirror[k].address = a

LinkComing(a) == \E k : At("link", a, k)

LinkOK(a) ==
  /\ \A k : At("link", a, k) =>
       /\ durLink[a] = None /\ link[a] = mirror[k].user
       /\ \A j : At("link", a, j) => j = k
       /\ \A j : At("unlink", a, j) /\ j > k => mirror[j].user = link[a]
  /\ ~LinkComing(a) =>
       /\ link[a] = durLink[a]
       /\ link[a] # None => \A j : At("unlink", a, j) => mirror[j].user = link[a]

Credits == \A i \in Intent : CreditOK(i)
Debits == \A i \in Invoice : DebitOK(i)

(* A mirror that was chosen by another address than the one signed is that *)
(* of a misnamed address.                                                  *)
Noted == \A a, k : At("again", a, k) \/ At("phantom", a, k) => a \in misnamed

Links == Noted /\ \A a \in Address \ misnamed : LinkOK(a)

IInv == TypeOK /\ Credits /\ Debits /\ Links

(* ------------------------- constants and sequences --------------------- *)
LEMMA Constants ==
  /\ Due \in Nat /\ Credit \in Nat /\ Welcome \in Nat /\ IsFiniteSet(User) /\ Owner \in [Invoice -> User]
  /\ None \notin User /\ Used \notin User /\ Invoice \cap Intent = {} /\ "plain" \notin Invoice \cup Intent
  BY WalletAssumption

LEMMA TopupRows == TopupRow \subseteq LedgerRow
  BY DEF TopupRow, LedgerRow

LEMMA IntentRows ==
  ASSUME NEW x \in IntentRow
  PROVE  /\ x = NoIntent <=> x.status = "NONE"
         /\ x # NoIntent => x \in [user : User, status : {"PENDING", "SETTLED", "EXPIRED", "GONE"}]
  BY DEF IntentRow, NoIntent

LEMMA JobIs ==
  ASSUME NEW job \in MirrorJob
  PROVE  /\ job.kind = "topup" => job \in TopupJob /\ job.row \in TopupRow
         /\ job.kind # "topup" => job \in LinkJob /\ job.user \in User /\ job.address \in Address
         /\ job.kind \in {"topup", "link", "relink", "again", "phantom", "unlink"}
<1>1. job \in TopupJob => job.kind = "topup" /\ job.row \in TopupRow
  BY DEF TopupJob
<1>2. job \in LinkJob => job.kind # "topup" /\ job.user \in User /\ job.address \in Address
                         /\ job.kind \in {"link", "relink", "again", "phantom", "unlink"}
  BY DEF LinkJob
<1> QED BY <1>1, <1>2 DEF MirrorJob

LEMMA JobTaken ==
  ASSUME TypeOK, mirror # <<>>, mirror' = Tail(mirror)
  PROVE  /\ Job \in MirrorJob /\ Job = mirror[1] /\ 1 \in 1..Len(mirror)
         /\ mirror' \in Seq(MirrorJob) /\ Len(mirror) \in Nat /\ Len(mirror') = Len(mirror) - 1
         /\ \A k \in 1..Len(mirror') : mirror'[k] = mirror[k + 1]
<1>1. mirror \in Seq(MirrorJob) /\ Len(mirror) \in Nat /\ Len(mirror) # 0
  BY EmptySeq, LenProperties DEF TypeOK
<1>2. Head(mirror) = mirror[1]
  BY <1>1
<1> QED BY <1>1, <1>2, HeadTailProperties DEF Job

LEMMA JobAdded ==
  ASSUME TypeOK, NEW job \in MirrorJob, mirror' = Append(mirror, job)
  PROVE  /\ mirror' \in Seq(MirrorJob) /\ Len(mirror) \in Nat /\ Len(mirror') = Len(mirror) + 1
         /\ \A k \in 1..Len(mirror) : mirror'[k] = mirror[k]
         /\ mirror'[Len(mirror) + 1] = job
<1>1. mirror \in Seq(MirrorJob) /\ Len(mirror) \in Nat
  BY LenProperties DEF TypeOK
<1> QED BY <1>1, AppendProperties

(* Where the jobs of an intent and of an address are after the change.     *)
LEMMA JobsAfterTaken ==
  ASSUME TypeOK, mirror # <<>>, mirror' = Tail(mirror)
  PROVE  /\ \A i, k : JobOf(i, k)' <=> k \in Nat \ {0} /\ JobOf(i, k + 1)
         /\ \A kind, a, k : At(kind, a, k)' <=> k \in Nat \ {0} /\ At(kind, a, k + 1)
         /\ \A k \in Nat \ {0} : k + 1 \in 1..Len(mirror) => mirror'[k] = mirror[k + 1]
<1>1. /\ Len(mirror) \in Nat /\ Len(mirror') = Len(mirror) - 1 /\ 1 \in 1..Len(mirror)
      /\ \A k \in 1..Len(mirror') : mirror'[k] = mirror[k + 1]
  BY JobTaken
<1>2. \A k : k \in 1..Len(mirror') <=> k \in Nat \ {0} /\ k + 1 \in 1..Len(mirror)
  BY <1>1
<1> QED BY <1>1, <1>2 DEF JobOf, At

LEMMA JobsAfterAdded ==
  ASSUME TypeOK, NEW job \in MirrorJob, mirror' = Append(mirror, job)
  PROVE  /\ \A i, k : JobOf(i, k)' <=>
              \/ JobOf(i, k)
              \/ k = Len(mirror) + 1 /\ job.kind = "topup" /\ job.row.by = i
         /\ \A kind, a, k : At(kind, a, k)' <=>
              \/ At(kind, a, k)
              \/ k = Len(mirror) + 1 /\ job.kind = kind /\ job.address = a
         /\ \A k \in 1..Len(mirror) : mirror'[k] = mirror[k]
         /\ Len(mirror) \in Nat
<1>1. /\ Len(mirror) \in Nat /\ Len(mirror') = Len(mirror) + 1
      /\ \A k \in 1..Len(mirror) : mirror'[k] = mirror[k]
      /\ mirror'[Len(mirror) + 1] = job
  BY JobAdded
<1>2. \A k : k \in 1..Len(mirror') <=> k \in 1..Len(mirror) \/ k = Len(mirror) + 1
  BY <1>1
<1>3. Len(mirror) + 1 \notin 1..Len(mirror)
  BY <1>1
<1> QED BY <1>1, <1>2, <1>3 DEF JobOf, At

LEMMA SettleJobIs == \A i : SettleJob(i) <=> \E k : JobOf(i, k)
  BY DEF SettleJob, JobOf

(* -------------------------------- the links ---------------------------- *)
LEMMA LinksTyped ==
  ASSUME TypeOK, NEW a \in Address, NEW k, At("link", a, k) \/ At("unlink", a, k) \/ At("relink", a, k)
  PROVE  mirror[k] \in LinkJob /\ mirror[k].user \in User /\ mirror[k].user # None
<1>1. k \in 1..Len(mirror) /\ mirror[k].kind # "topup" /\ mirror \in Seq(MirrorJob)
  BY DEF At, TypeOK
<1>2. mirror[k] \in MirrorJob
  BY <1>1, ElementOfSeq
<1> QED BY <1>1, <1>2, JobIs, Constants

(* The first mirror is taken and is no link of address a.                  *)
LEMMA TakenElse ==
  ASSUME TypeOK, NEW a \in Address, LinkOK(a), mirror # <<>>, mirror' = Tail(mirror),
         ~At("link", a, 1), link'[a] = link[a], durLink'[a] = durLink[a]
  PROVE  LinkOK(a)'
<1>1. \A kind, k : At(kind, a, k)' <=> k \in Nat \ {0} /\ At(kind, a, k + 1)
  BY JobsAfterTaken
<1>2. \A k \in Nat \ {0} : k + 1 \in 1..Len(mirror) => mirror'[k] = mirror[k + 1]
  BY JobsAfterTaken
<1>3. ASSUME NEW kind, NEW k, At(kind, a, k)' PROVE k \in Nat \ {0} /\ At(kind, a, k + 1) /\ mirror'[k] = mirror[k + 1]
  BY <1>1, <1>2, <1>3 DEF At
<1>4. ASSUME NEW k, At("link", a, k)'
      PROVE  /\ durLink'[a] = None /\ link'[a] = mirror'[k].user
             /\ \A j : At("link", a, j)' => j = k
             /\ \A j : At("unlink", a, j)' /\ j > k => mirror'[j].user = link'[a]
  <2>1. k \in Nat \ {0} /\ At("link", a, k + 1) /\ mirror'[k] = mirror[k + 1]
    BY <1>3, <1>4
  <2>2. /\ durLink[a] = None /\ link[a] = mirror[k + 1].user
        /\ \A j : At("link", a, j) => j = k + 1
        /\ \A j : At("unlink", a, j) /\ j > k + 1 => mirror[j].user = link[a]
    BY <2>1 DEF LinkOK
  <2>3. \A j : At("link", a, j)' => j = k
    <3> SUFFICES ASSUME NEW j, At("link", a, j)' PROVE j = k
      OBVIOUS
    <3>1. j \in Nat \ {0} /\ At("link", a, j + 1)
      BY <1>3
    <3> QED BY <2>1, <2>2, <3>1
  <2>4. \A j : At("unlink", a, j)' /\ j > k => mirror'[j].user = link'[a]
    <3> SUFFICES ASSUME NEW j, At("unlink", a, j)', j > k PROVE mirror'[j].user = link[a]
      OBVIOUS
    <3>1. j \in Nat \ {0} /\ At("unlink", a, j + 1) /\ mirror'[j] = mirror[j + 1]
      BY <1>3
    <3>2. j + 1 > k + 1
      BY <2>1, <3>1
    <3> QED BY <2>2, <3>1, <3>2
  <2> QED BY <2>1, <2>2, <2>3, <2>4
<1>5. LinkComing(a) => LinkComing(a)'
  <2> SUFFICES ASSUME NEW k, At("link", a, k) PROVE LinkComing(a)'
    BY DEF LinkComing
  <2>1. k \in 1..Len(mirror) /\ Len(mirror) \in Nat /\ k # 1
    BY LenProperties DEF At, TypeOK
  <2>2. PICK m \in Nat \ {0} : k = m + 1
    <3>1. k - 1 \in Nat \ {0} /\ k = (k - 1) + 1
      BY <2>1
    <3> QED BY <3>1
  <2>3. At("link", a, m)'
    BY <1>1, <2>2
  <2> QED BY <2>3 DEF LinkComing
<1>6. ASSUME ~LinkComing(a)'
      PROVE  /\ link'[a] = durLink'[a]
             /\ link'[a] # None => \A j : At("unlink", a, j)' => mirror'[j].user = link'[a]
  <2>1. /\ link[a] = durLink[a]
        /\ link[a] # None => \A j : At("unlink", a, j) => mirror[j].user = link[a]
    BY <1>5, <1>6 DEF LinkOK
  <2> QED BY <1>3, <2>1
<1> QED BY <1>4, <1>6 DEF LinkOK

(* A mirror is added that is no new link of address a.                     *)
LEMMA AddedElse ==
  ASSUME TypeOK, NEW a \in Address, LinkOK(a), NEW job \in MirrorJob, mirror' = Append(mirror, job),
         ~(job.kind = "link" /\ job.address = a),
         job.kind = "unlink" /\ job.address = a => job.user = link[a],
         link'[a] = link[a], durLink'[a] = durLink[a]
  PROVE  LinkOK(a)'
<1>1. \A k : At("link", a, k)' <=> At("link", a, k)
  BY JobsAfterAdded
<1>2. \A k \in 1..Len(mirror) : mirror'[k] = mirror[k]
  BY JobsAfterAdded
<1>7. \A k : At("unlink", a, k)' =>
              \/ At("unlink", a, k)
              \/ k = Len(mirror) + 1 /\ job.kind = "unlink" /\ job.address = a
  BY JobsAfterAdded
<1>3. ASSUME NEW j, At("unlink", a, j)'
      PROVE  (At("unlink", a, j) /\ mirror'[j] = mirror[j]) \/ mirror'[j].user = link[a]
  <2>1. CASE At("unlink", a, j)
    BY <1>2, <2>1 DEF At
  <2>2. CASE j = Len(mirror) + 1 /\ job.kind = "unlink" /\ job.address = a
    BY <2>2, JobAdded
  <2> QED BY <1>3, <1>7, <2>1, <2>2
<1>4. ASSUME NEW k, At("link", a, k)
      PROVE  /\ durLink'[a] = None /\ link'[a] = mirror'[k].user
             /\ \A j : At("link", a, j)' => j = k
             /\ \A j : At("unlink", a, j)' /\ j > k => mirror'[j].user = link'[a]
  <2>1. /\ durLink[a] = None /\ link[a] = mirror[k].user
        /\ \A j : At("link", a, j) => j = k
        /\ \A j : At("unlink", a, j) /\ j > k => mirror[j].user = link[a]
    BY <1>4 DEF LinkOK
  <2>2. mirror'[k] = mirror[k]
    BY <1>2, <1>4 DEF At
  <2> QED BY <1>1, <1>3, <2>1, <2>2
<1>5. LinkComing(a)' <=> LinkComing(a)
  BY <1>1 DEF LinkComing
<1>6. ASSUME ~LinkComing(a)
      PROVE  /\ link'[a] = durLink'[a]
             /\ link'[a] # None => \A j : At("unlink", a, j)' => mirror'[j].user = link'[a]
  <2>1. /\ link[a] = durLink[a]
        /\ link[a] # None => \A j : At("unlink", a, j) => mirror[j].user = link[a]
    BY <1>6 DEF LinkOK
  <2> QED BY <1>3, <2>1
<1> QED BY <1>1, <1>4, <1>5, <1>6 DEF LinkOK

(* An address that nobody has linked is linked.                            *)
LEMMA AddedLink ==
  ASSUME TypeOK, NEW a \in Address, LinkOK(a), NEW job \in MirrorJob, mirror' = Append(mirror, job),
         job.kind = "link", job.address = a, link[a] = None, link'[a] = job.user, durLink'[a] = durLink[a]
  PROVE  LinkOK(a)'
<1>1. ~LinkComing(a)
  BY LinksTyped DEF LinkOK, LinkComing
<1>2. durLink[a] = None
  BY <1>1 DEF LinkOK
<1>3. \A k : At("link", a, k)' <=> k = Len(mirror) + 1
  BY <1>1, JobsAfterAdded DEF LinkComing
<1>4. mirror'[Len(mirror) + 1] = job /\ Len(mirror) \in Nat /\ Len(mirror') = Len(mirror) + 1
  BY JobAdded
<1>5. \A j : At("unlink", a, j)' => ~(j > Len(mirror) + 1)
  BY <1>4 DEF At
<1>6. LinkComing(a)'
  BY <1>3 DEF LinkComing
<1> QED BY <1>2, <1>3, <1>4, <1>5, <1>6 DEF LinkOK

(* The link of address a is mirrored, or undone.                           *)
LEMMA TakenLink ==
  ASSUME TypeOK, NEW a \in Address, LinkOK(a), mirror # <<>>, mirror' = Tail(mirror), At("link", a, 1),
         link'[a] = durLink'[a], link'[a] \in {None, link[a]}
  PROVE  LinkOK(a)'
<1>1. \A kind, k : At(kind, a, k)' <=> k \in Nat \ {0} /\ At(kind, a, k + 1)
  BY JobsAfterTaken
<1>2. \A k \in Nat \ {0} : k + 1 \in 1..Len(mirror) => mirror'[k] = mirror[k + 1]
  BY JobsAfterTaken
<1>3. /\ \A j : At("link", a, j) => j = 1
      /\ \A j : At("unlink", a, j) /\ j > 1 => mirror[j].user = link[a]
  BY DEF LinkOK
<1>4. \A k : ~At("link", a, k)'
  <2> SUFFICES ASSUME NEW k, At("link", a, k)' PROVE FALSE
    OBVIOUS
  <2>1. k \in Nat \ {0} /\ k + 1 = 1
    BY <1>1, <1>3
  <2> QED BY <2>1
<1>5. \A j : At("unlink", a, j)' => mirror'[j].user = link[a]
  <2> SUFFICES ASSUME NEW j, At("unlink", a, j)' PROVE mirror'[j].user = link[a]
    OBVIOUS
  <2>1. j \in Nat \ {0} /\ At("unlink", a, j + 1)
    BY <1>1
  <2>2. mirror'[j] = mirror[j + 1] /\ j + 1 > 1
    BY <1>2, <2>1 DEF At
  <2> QED BY <1>3, <2>1, <2>2
<1> QED BY <1>4, <1>5 DEF LinkOK, LinkComing

(* An unlink that Oracle accepts finds the link it is for on both sides.   *)
LEMMA TakenUnlink ==
  ASSUME TypeOK, NEW a \in Address, LinkOK(a), mirror # <<>>, mirror' = Tail(mirror), At("unlink", a, 1),
         durLink[a] # None, durLink'[a] = None,
         mirror[1].user = link[a] => link'[a] = None
  PROVE  LinkOK(a)'
<1>1. \A kind, k : At(kind, a, k)' <=> k \in Nat \ {0} /\ At(kind, a, k + 1)
  BY JobsAfterTaken
<1>2. ~LinkComing(a)
  BY DEF LinkOK, LinkComing
<1>3. link'[a] = None
  BY <1>2 DEF LinkOK
<1>4. \A k : ~At("link", a, k)'
  BY <1>1, <1>2 DEF LinkComing
<1> QED BY <1>3, <1>4 DEF LinkOK, LinkComing

(* A mirror is added that goes by the address signed, or one is taken.     *)
LEMMA NotedAdded ==
  ASSUME TypeOK, Noted, NEW job \in MirrorJob, mirror' = Append(mirror, job),
         job.kind \notin {"again", "phantom"}, misnamed' = misnamed
  PROVE  Noted'
<1>1. \A a, k : At("again", a, k)' \/ At("phantom", a, k)' => At("again", a, k) \/ At("phantom", a, k)
  BY JobsAfterAdded
<1> QED BY <1>1 DEF Noted

LEMMA NotedTaken ==
  ASSUME TypeOK, Noted, mirror # <<>>, mirror' = Tail(mirror), misnamed' = misnamed
  PROVE  Noted'
<1>1. \A a, k : At("again", a, k)' \/ At("phantom", a, k)' => At("again", a, k + 1) \/ At("phantom", a, k + 1)
  BY JobsAfterTaken
<1> QED BY <1>1 DEF Noted

LEMMA LinksSame ==
  ASSUME Links, UNCHANGED <<mirror, link, durLink, misnamed>>
  PROVE  Links'
  BY DEF Links, Noted, LinkOK, LinkComing, At

(* What linkWallet does, whichever address the request has named.          *)
LEMMA LinkWalletIs ==
  ASSUME TypeOK, LinkWallet
  PROVE  /\ UNCHANGED <<money, pays, durLink, settling>> /\ intent' = Expired(intent)
         /\ \E n \in Nonce : challenge' = [Pruned(challenge) EXCEPT ![n] = Used]
         /\ \/ UNCHANGED <<link, misnamed, mirror>>
            \/ \E a \in Address, job \in LinkJob :
                 /\ mirror' = Append(mirror, job) /\ job.address = a
                 /\ link' = [link EXCEPT ![a] = job.user]
                 /\ misnamed' = IF job.kind \in {"again", "phantom"} THEN misnamed \cup {a} ELSE misnamed
                 /\ job.kind # "unlink"
                 /\ job.kind = "link" => link[a] = None
                 /\ job.kind = "relink" => link[a] = job.user
<1>1. PICK n \in Nonce, b \in Address \cup {None} :
        /\ challenge[n] \notin {None, Used}
        /\ challenge' = [Pruned(challenge) EXCEPT ![n] = Used]
        /\ LET u == challenge[n].user
               a == challenge[n].address
               kind == LinkKind(u, a, b)
           IN \/ UNCHANGED <<link, misnamed, mirror>>
              \/ /\ link[a] \in {None, u}
                 /\ link' = [link EXCEPT ![a] = u]
                 /\ misnamed' = IF kind \in {"again", "phantom"} THEN misnamed \cup {a} ELSE misnamed
                 /\ mirror' = Append(mirror, [kind |-> kind, user |-> u, address |-> a])
  BY DEF LinkWallet
<1>2. PICK u \in User, a \in Address : challenge[n].user = u /\ challenge[n].address = a
  <2>1. challenge[n] \in [user : User, address : Address]
    BY <1>1 DEF TypeOK
  <2> QED BY <2>1
<1>3. PICK kind : kind = LinkKind(u, a, b)
  OBVIOUS
<1>4. /\ kind \in {"link", "relink", "again", "phantom"}
      /\ kind = "link" => link[a] # u
      /\ kind = "relink" => link[a] = u
  BY <1>3 DEF LinkKind
<1>5. PICK job : job = [kind |-> kind, user |-> u, address |-> a]
  OBVIOUS
<1>6. job \in LinkJob /\ job.kind = kind /\ job.user = u /\ job.address = a
  BY <1>4, <1>5 DEF LinkJob
<1>7. UNCHANGED <<money, pays, durLink, settling>> /\ intent' = Expired(intent)
  BY DEF LinkWallet
<1>8. \/ UNCHANGED <<link, misnamed, mirror>>
      \/ /\ link[a] \in {None, u}
         /\ link' = [link EXCEPT ![a] = u]
         /\ misnamed' = IF kind \in {"again", "phantom"} THEN misnamed \cup {a} ELSE misnamed
         /\ mirror' = Append(mirror, job)
  BY <1>1, <1>2, <1>3, <1>5
<1> QED BY <1>1, <1>4, <1>6, <1>7, <1>8

LEMMA LinkWalletLinks ==
  ASSUME TypeOK, Links, LinkWallet
  PROVE  Links'
<1>1. CASE UNCHANGED <<link, misnamed, mirror>>
  BY <1>1, LinkWalletIs, LinksSame
<1>2. CASE ~UNCHANGED <<link, misnamed, mirror>>
  <2>1. PICK a \in Address, job \in LinkJob :
          /\ mirror' = Append(mirror, job) /\ job.address = a
          /\ link' = [link EXCEPT ![a] = job.user]
          /\ misnamed' = IF job.kind \in {"again", "phantom"} THEN misnamed \cup {a} ELSE misnamed
          /\ job.kind # "unlink"
          /\ job.kind = "link" => link[a] = None
          /\ job.kind = "relink" => link[a] = job.user
    BY <1>2, LinkWalletIs
  <2>2. /\ job \in MirrorJob /\ job.user \in User /\ job.kind # "topup"
        /\ job.kind \in {"link", "relink", "again", "phantom"}
    BY <2>1 DEF MirrorJob, LinkJob
  <2>3. link \in [Address -> User \cup {None}] /\ durLink' = durLink /\ misnamed \subseteq misnamed'
    BY <2>1, LinkWalletIs DEF TypeOK
  <2>4. Noted'
    <3> SUFFICES ASSUME NEW x, NEW k, At("again", x, k)' \/ At("phantom", x, k)' PROVE x \in misnamed'
      BY DEF Noted
    <3>1. \/ At("again", x, k) \/ At("phantom", x, k)
          \/ job.kind \in {"again", "phantom"} /\ job.address = x
      BY <2>1, <2>2, JobsAfterAdded
    <3> QED BY <2>1, <2>3, <3>1 DEF Links, Noted
  <2>5. ASSUME NEW b \in Address \ misnamed' PROVE LinkOK(b)'
    <3>1. LinkOK(b) /\ durLink'[b] = durLink[b]
      BY <2>3 DEF Links
    <3>2. CASE b # a
      <4>1. link'[b] = link[b]
        BY <2>1, <2>3, <3>2
      <4> QED BY <2>1, <2>2, <3>1, <3>2, <4>1, AddedElse
    <3>3. CASE b = a /\ job.kind = "relink"
      <4>1. link'[b] = link[b]
        BY <2>1, <2>3, <3>3
      <4> QED BY <2>1, <2>2, <3>1, <3>3, <4>1, AddedElse
    <3>4. CASE b = a /\ job.kind = "link"
      <4>1. link'[b] = job.user /\ link[b] = None
        BY <2>1, <2>3, <3>4
      <4> QED BY <2>1, <2>2, <3>1, <3>4, <4>1, AddedLink
    <3>5. b = a => job.kind \notin {"again", "phantom"}
      BY <2>1, <2>5
    <3> QED BY <2>2, <3>2, <3>3, <3>4, <3>5
  <2> QED BY <2>4, <2>5 DEF Links
<1> QED BY <1>1, <1>2

LEMMA UnlinkWalletLinks ==
  ASSUME TypeOK, Links, UnlinkWallet
  PROVE  Links'
<1>1. PICK a \in Address : /\ link[a] # None
                           /\ mirror' = Append(mirror, [kind |-> "unlink", user |-> link[a], address |-> a])
                           /\ UNCHANGED <<link, durLink, misnamed>>
  BY DEF UnlinkWallet, links
<1>2. PICK job : job \in MirrorJob /\ mirror' = Append(mirror, job) /\ job.kind = "unlink"
                 /\ job.user = link[a] /\ job.address = a
  <2> DEFINE j == [kind |-> "unlink", user |-> link[a], address |-> a]
  <2>1. link[a] \in User
    BY <1>1 DEF TypeOK
  <2>2. j \in LinkJob
    BY <2>1 DEF LinkJob
  <2>3. j \in MirrorJob /\ mirror' = Append(mirror, j) /\ j.kind = "unlink" /\ j.user = link[a] /\ j.address = a
    BY <1>1, <2>2 DEF MirrorJob
  <2> QED BY <2>3
<1>3. Noted'
  BY <1>1, <1>2, NotedAdded DEF Links
<1> SUFFICES ASSUME NEW b \in Address \ misnamed' PROVE LinkOK(b)'
  BY <1>3 DEF Links
<1>4. LinkOK(b) /\ durLink'[b] = durLink[b] /\ link'[b] = link[b]
  BY <1>1 DEF Links
<1> QED BY <1>2, <1>4, AddedElse

(* A top-up's mirror is added, or taken: the links do not change.          *)
LEMMA TopupLinks ==
  ASSUME TypeOK, Links, UNCHANGED <<link, durLink, misnamed>>,
         \/ \E job \in TopupJob : mirror' = Append(mirror, job)
         \/ mirror # <<>> /\ Job.kind = "topup" /\ mirror' = Tail(mirror)
  PROVE  Links'
<1>1. Noted /\ \A a \in Address \ misnamed : LinkOK(a)
  BY DEF Links
<1>2. CASE \E job \in TopupJob : mirror' = Append(mirror, job)
  <2>1. PICK job \in TopupJob : mirror' = Append(mirror, job)
    BY <1>2
  <2>2. job \in MirrorJob /\ job.kind = "topup"
    BY DEF MirrorJob, TopupJob
  <2>3. Noted'
    BY <1>1, <2>1, <2>2, NotedAdded
  <2>4. ASSUME NEW a \in Address \ misnamed' PROVE LinkOK(a)'
    BY <1>1, <2>1, <2>2, AddedElse
  <2> QED BY <2>3, <2>4 DEF Links
<1>3. CASE mirror # <<>> /\ Job.kind = "topup" /\ mirror' = Tail(mirror)
  <2>1. \A a : ~At("link", a, 1)
    BY <1>3, JobTaken DEF At
  <2>2. Noted'
    BY <1>1, <1>3, NotedTaken
  <2>3. ASSUME NEW a \in Address \ misnamed' PROVE LinkOK(a)'
    BY <1>1, <1>3, <2>1, TakenElse
  <2> QED BY <2>2, <2>3 DEF Links
<1> QED BY <1>2, <1>3

LEMMA LinkMirroredLinks ==
  ASSUME TypeOK, Links, LinkMirrored
  PROVE  Links'
<1>1. /\ mirror # <<>> /\ mirror' = Tail(mirror)
      /\ Job \in MirrorJob /\ Job = mirror[1] /\ 1 \in 1..Len(mirror)
  BY JobTaken DEF LinkMirrored
<1>2. PICK a : a = Job.address
  OBVIOUS
<1>3. Job.kind # "topup" /\ Job.kind \in {"link", "again", "relink", "unlink"} /\ misnamed' = misnamed
  BY <1>1 DEF LinkMirrored, Inserts
<1>4. a \in Address /\ Job.user \in User /\ Job.user # None
  BY <1>1, <1>2, <1>3, JobIs, Constants
<1>5. At(Job.kind, a, 1)
  BY <1>1, <1>2 DEF At
<1>6. link \in [Address -> User \cup {None}] /\ durLink \in [Address -> User \cup {None}]
  BY DEF TypeOK
<1>7. ASSUME NEW b \in Address \ misnamed, b # a PROVE LinkOK(b)'
  <2>1. link'[b] = link[b] /\ durLink'[b] = durLink[b]
    BY <1>2, <1>4, <1>6, <1>7 DEF LinkMirrored
  <2>2. ~At("link", b, 1)
    BY <1>1, <1>2, <1>7 DEF At
  <2>3. LinkOK(b)
    BY DEF Links
  <2> QED BY <1>1, <2>1, <2>2, <2>3, TakenElse
<1>8. ASSUME a \notin misnamed PROVE LinkOK(a)'
  <2>9. LinkOK(a) /\ Job.kind # "again"
    BY <1>4, <1>5, <1>8 DEF Links, Noted
  <2>1. CASE Job.kind = "link"
    <3>1. At("link", a, 1) /\ durLink'[a] = Job.user /\ link' = link
      BY <1>2, <1>4, <1>5, <1>6, <2>1 DEF LinkMirrored, Inserts
    <3>2. link[a] = Job.user
      BY <1>1, <2>9, <3>1 DEF LinkOK
    <3> QED BY <1>1, <1>4, <2>9, <3>1, <3>2, TakenLink
  <2>2. CASE Job.kind = "relink"
    <3>1. link'[a] = link[a] /\ durLink'[a] = durLink[a]
      BY <2>2 DEF LinkMirrored, Inserts
    <3>2. ~At("link", a, 1)
      BY <1>1, <2>2 DEF At
    <3> QED BY <1>1, <1>4, <2>9, <3>1, <3>2, TakenElse
  <2>3. CASE Job.kind = "unlink"
    <3>1. /\ At("unlink", a, 1) /\ durLink[a] # None /\ durLink'[a] = None
          /\ Job.user = link[a] => link'[a] = None
      BY <1>2, <1>4, <1>5, <1>6, <2>3 DEF LinkMirrored, Inserts
    <3> QED BY <1>1, <1>4, <2>9, <3>1, TakenUnlink
  <2> QED BY <1>3, <2>1, <2>2, <2>3, <2>9
<1>9. Noted'
  BY <1>1, <1>3, NotedTaken DEF Links
<1> QED BY <1>3, <1>7, <1>8, <1>9 DEF Links

LEMMA LinkUndoneLinks ==
  ASSUME TypeOK, Links, LinkUndone
  PROVE  Links'
<1>1. /\ mirror # <<>> /\ mirror' = Tail(mirror) /\ durLink' = durLink /\ misnamed' = misnamed
      /\ Job \in MirrorJob /\ Job = mirror[1] /\ 1 \in 1..Len(mirror)
  BY JobTaken DEF LinkUndone
<1>2. PICK a : a = Job.address
  OBVIOUS
<1>3. a \in Address
  BY <1>1, <1>2, JobIs DEF LinkUndone
<1>4. link \in [Address -> User \cup {None}]
  BY DEF TypeOK
<1>5. link' = IF Inserts THEN [link EXCEPT ![a] = None] ELSE link
  BY <1>2 DEF LinkUndone
<1>6. At(Job.kind, a, 1)
  BY <1>1, <1>2 DEF At
<1>7. ASSUME NEW b \in Address \ misnamed, b # a PROVE LinkOK(b)'
  <2>1. link'[b] = link[b] /\ LinkOK(b) /\ durLink'[b] = durLink[b]
    BY <1>1, <1>4, <1>5, <1>7 DEF Links
  <2>2. ~At("link", b, 1)
    BY <1>1, <1>2, <1>7 DEF At
  <2> QED BY <1>1, <2>1, <2>2, TakenElse
<1>8. ASSUME a \notin misnamed PROVE LinkOK(a)'
  <2>1. LinkOK(a) /\ Job.kind # "again"
    BY <1>3, <1>6, <1>8 DEF Links, Noted
  <2>2. CASE Job.kind = "link"
    <3>1. At("link", a, 1)
      BY <1>6, <2>2
    <3>2. link'[a] = None /\ durLink'[a] = None
      BY <1>1, <1>3, <1>4, <1>5, <2>1, <2>2, <3>1 DEF LinkOK, Inserts
    <3> QED BY <1>1, <1>3, <2>1, <3>1, <3>2, TakenLink
  <2>3. CASE Job.kind # "link"
    <3>1. link'[a] = link[a] /\ durLink'[a] = durLink[a]
      BY <1>1, <1>5, <2>1, <2>3 DEF Inserts
    <3>2. ~At("link", a, 1)
      BY <1>1, <2>3 DEF At
    <3> QED BY <1>1, <1>3, <2>1, <3>1, <3>2, TakenElse
  <2> QED BY <2>2, <2>3
<1>9. Noted'
  BY <1>1, NotedTaken DEF Links
<1> QED BY <1>1, <1>7, <1>8, <1>9 DEF Links

LEMMA RestartLinks ==
  ASSUME TypeOK, Restart
  PROVE  Links'
<1>1. mirror' = <<>> /\ link' = durLink'
  BY DEF Restart
<1>2. \A kind, a, k : ~At(kind, a, k)'
  BY <1>1 DEF At
<1> QED BY <1>1, <1>2 DEF Links, Noted, LinkOK, LinkComing

(* When no link or unlink is under way, memory and Oracle agree on what    *)
(* was not misnamed.                                                       *)
LEMMA LinksInv ==
  ASSUME TypeOK, Links
  PROVE  LinksMirrored
<1> SUFFICES ASSUME LinksStill, NEW a \in Address \ misnamed
             PROVE  link[a] = durLink[a]
  BY DEF LinksMirrored
<1>1. DOMAIN mirror = 1..Len(mirror)
  BY DEF TypeOK
<1>2. ~LinkComing(a)
  BY <1>1 DEF LinksStill, LinkComing, At
<1> QED BY <1>2 DEF Links, LinkOK

(* -------------------------- lists, rows and types ---------------------- *)
(* A finite set, listed: every element once.                               *)
LEMMA Listed ==
  ASSUME NEW S, IsFiniteSet(S)
  PROVE  /\ SetToSeq(S) \in Seq(S)
         /\ DOMAIN SetToSeq(S) = 1..Cardinality(S) /\ Cardinality(S) \in Nat
         /\ \A j, k \in DOMAIN SetToSeq(S) : SetToSeq(S)[j] = SetToSeq(S)[k] => j = k
<1>1. Cardinality(S) \in Nat /\ ExistsBijection(1..Cardinality(S), S)
  BY FS_CardinalityType
<1>2. \E f \in [1..Cardinality(S) -> S] : IsInjective(f)
  BY <1>1 DEF ExistsBijection, Bijection, Injection
<1>3. SetToSeq(S) \in [1..Cardinality(S) -> S] /\ IsInjective(SetToSeq(S))
  BY <1>2 DEF SetToSeq
<1>4. SetToSeq(S) \in Seq(S)
  BY <1>1, <1>3
<1> QED BY <1>1, <1>3, <1>4 DEF IsInjective

(* The positions of the rows of a kind are a finite set.                   *)
LEMMA CountIsNat ==
  ASSUME TypeOK, NEW u
  PROVE  Count(u) \in Nat
<1>1. DOMAIN ledger = 1..Len(ledger) /\ Len(ledger) \in Nat
  BY LenProperties DEF TypeOK
<1>2. IsFiniteSet(1..Len(ledger))
  BY <1>1, FS_Interval
<1>3. {k \in DOMAIN ledger : ledger[k].user = u} \in SUBSET (1..Len(ledger))
  BY <1>1
<1>4. IsFiniteSet({k \in DOMAIN ledger : ledger[k].user = u})
  BY <1>2, <1>3, FS_Subset
<1> QED BY <1>4, FS_CardinalityType DEF Count

(* A top-up adds a row to the ledger and its mirror, of the same row.      *)
LEMMA TopupSteps ==
  ASSUME TypeOK, NEW u \in User, NEW by \in Intent \cup {"plain"}, Topup(u, by)
  PROVE  \E job \in TopupJob :
           /\ mirror' = Append(mirror, job) /\ job.row.by = by
           /\ job.row \in LedgerRow /\ ledger' = Append(ledger, job.row)
           /\ balance' \in [User -> Int] /\ UNCHANGED <<durBalance, durLedger>>
<1> DEFINE row == [user |-> u, seq |-> Count(u) + 1, amount |-> Credit, by |-> by]
           job == [kind |-> "topup", row |-> row, after |-> balance[u] + Credit,
                   pre |-> balance[u], len |-> Len(ledger)]
<1>1. Count(u) + 1 \in Nat /\ Credit \in Int /\ balance \in [User -> Int] /\ Len(ledger) \in Nat
  BY CountIsNat, Constants, LenProperties DEF TypeOK
<1>2. row \in TopupRow /\ row.by = by
  BY <1>1 DEF TopupRow
<1>3. row \in LedgerRow
  BY <1>2, TopupRows
<1>4. balance[u] \in Int /\ balance[u] + Credit \in Int
  BY <1>1
<1>5. /\ mirror' = Append(mirror, job) /\ ledger' = Append(ledger, row)
      /\ balance' = [balance EXCEPT ![u] = @ + Credit] /\ UNCHANGED <<durBalance, durLedger>>
  BY DEF Topup
<1>6. balance' \in [User -> Int]
  BY <1>1, <1>4, <1>5
<1> HIDE DEF row
<1>7. job \in TopupJob /\ job.row = row
  BY <1>1, <1>2, <1>4 DEF TopupJob
<1> HIDE DEF job
<1> QED BY <1>2, <1>3, <1>5, <1>6, <1>7

LEMMA ExpiredTyped ==
  ASSUME TypeOK
  PROVE  /\ Expired(intent) \in [Intent -> IntentRow]
         /\ \A i \in Intent : \/ Expired(intent)[i] = intent[i]
                              \/ /\ intent[i].status = "PENDING" /\ intent[i] # NoIntent
                                 /\ Expired(intent)[i].status = "EXPIRED" /\ Expired(intent)[i] # NoIntent
<1> SUFFICES ASSUME NEW i \in Intent
             PROVE  /\ Expired(intent)[i] \in IntentRow
                    /\ \/ Expired(intent)[i] = intent[i]
                       \/ /\ intent[i].status = "PENDING" /\ intent[i] # NoIntent
                          /\ Expired(intent)[i].status = "EXPIRED" /\ Expired(intent)[i] # NoIntent
  <2>1. Expired(intent) = [j \in Intent |-> Expired(intent)[j]]
    BY DEF Expired
  <2> QED BY <2>1
<1>1. intent[i] \in IntentRow
  BY DEF TypeOK
<1>2. CASE i \in late /\ intent[i].status = "PENDING"
  <2>1. intent[i] # NoIntent
    BY <1>2 DEF NoIntent
  <2>2. intent[i] \in [user : User, status : {"PENDING", "SETTLED", "EXPIRED", "GONE"}]
    BY <1>1, <2>1, IntentRows
  <2>3. Expired(intent)[i] = [intent[i] EXCEPT !.status = "EXPIRED"]
    BY <1>2 DEF Expired
  <2>4. /\ Expired(intent)[i] \in [user : User, status : {"PENDING", "SETTLED", "EXPIRED", "GONE"}]
        /\ Expired(intent)[i].status = "EXPIRED"
    BY <2>2, <2>3
  <2>5. Expired(intent)[i] # NoIntent /\ Expired(intent)[i] \in IntentRow
    BY <2>4 DEF NoIntent, IntentRow
  <2> QED BY <1>2, <2>1, <2>4, <2>5
<1>3. CASE ~(i \in late /\ intent[i].status = "PENDING")
  <2>1. Expired(intent)[i] = intent[i]
    BY <1>3 DEF Expired
  <2> QED BY <1>1, <2>1
<1> QED BY <1>2, <1>3

LEMMA PrunedTyped ==
  ASSUME TypeOK
  PROVE  Pruned(challenge) \in [Nonce -> {None, Used} \cup [user : User, address : Address]]
  BY DEF TypeOK, Pruned

LEMMA PendingHasUser ==
  ASSUME TypeOK, NEW i \in Intent, intent[i].status \notin {"NONE"}
  PROVE  intent[i] # NoIntent /\ intent[i].user \in User
<1>1. intent[i] \in IntentRow
  BY DEF TypeOK
<1>2. intent[i] # NoIntent
  BY DEF NoIntent
<1> QED BY <1>1, <1>2, IntentRows

(* What a mirrored or undone top-up does to its intent.                    *)
LEMMA SettleEndsSteps ==
  ASSUME TypeOK, NEW row \in TopupRow, Job.row = row, NEW done \in BOOLEAN, SettleEnds(done),
         row.by \in Intent => settling[row.by] > 0 /\ intent[row.by] # NoIntent
  PROVE  /\ settling' \in [Intent -> Nat] /\ intent' \in [Intent -> IntentRow]
         /\ \A i \in Intent : i # row.by => settling'[i] = settling[i] /\ intent'[i] = intent[i]
         /\ row.by \in Intent =>
              /\ intent'[row.by] # NoIntent
              /\ done => intent'[row.by].status = "SETTLED"
              /\ ~done => intent'[row.by] = intent[row.by]
<1>1. settling \in [Intent -> Nat] /\ intent \in [Intent -> IntentRow]
  BY DEF TypeOK
<1>2. CASE row.by \notin Intent
  BY <1>1, <1>2 DEF SettleEnds
<1>3. CASE row.by \in Intent
  <2>1. PICK i \in Intent : i = row.by
    BY <1>3
  <2>2. settling[i] > 0 /\ intent[i] # NoIntent /\ settling[i] \in Nat
    BY <1>1, <2>1
  <2>3. settling' = [settling EXCEPT ![i] = @ - 1]
    BY <2>1 DEF SettleEnds
  <2>4. settling' \in [Intent -> Nat] /\ \A j \in Intent : j # i => settling'[j] = settling[j]
    BY <1>1, <2>2, <2>3
  <2>5. intent[i] \in [user : User, status : {"PENDING", "SETTLED", "EXPIRED", "GONE"}]
    BY <1>1, <2>2, IntentRows
  <2>6. CASE done
    <3>1. intent' = [intent EXCEPT ![i].status = "SETTLED"]
      BY <2>1, <2>6 DEF SettleEnds
    <3>2. PICK x : x = [intent[i] EXCEPT !.status = "SETTLED"]
      OBVIOUS
    <3>3. x \in [user : User, status : {"PENDING", "SETTLED", "EXPIRED", "GONE"}] /\ x.status = "SETTLED"
      BY <2>5, <3>2
    <3>4. x # NoIntent /\ x \in IntentRow
      BY <3>3 DEF NoIntent, IntentRow
    <3>5. intent' = [intent EXCEPT ![i] = x]
      BY <3>1, <3>2
    <3> QED BY <1>1, <2>1, <2>4, <2>6, <3>3, <3>4, <3>5
  <2>7. CASE ~done
    <3>1. intent' = intent
      BY <2>1, <2>7 DEF SettleEnds
    <3> QED BY <1>1, <2>1, <2>2, <2>4, <2>7, <3>1
  <2> QED BY <2>6, <2>7
<1> QED BY <1>2, <1>3

(* The first mirror, when it is a top-up's.                                *)
LEMMA HeadTopup ==
  ASSUME TypeOK, Credits, mirror # <<>>, Job.kind = "topup"
  PROVE  /\ Job \in TopupJob /\ Job.row \in TopupRow /\ Job.row \in LedgerRow
         /\ Job.after \in Int /\ Job.pre \in Int /\ Job.len \in Nat
         /\ JobOf(Job.row.by, 1)
         /\ Job.row.by \in Intent => /\ SettleJob(Job.row.by)
                                     /\ settling[Job.row.by] > 0 /\ intent[Job.row.by] # NoIntent
<1>1. PICK job : job = Job /\ job = mirror[1] /\ job \in TopupJob /\ job.row \in TopupRow /\ 1 \in 1..Len(mirror)
  <2>1. Job \in MirrorJob /\ Job = mirror[1] /\ 1 \in 1..Len(mirror)
    BY HeadTailProperties, EmptySeq, LenProperties DEF TypeOK, Job
  <2> QED BY <2>1, JobIs
<1>2. job.row \in LedgerRow /\ job.after \in Int /\ job.pre \in Int /\ job.len \in Nat
  BY <1>1, TopupRows DEF TopupJob
<1>3. JobOf(job.row.by, 1)
  BY <1>1 DEF JobOf
<1>4. SettleJob(job.row.by)
  BY <1>3, SettleJobIs
<1> QED BY <1>1, <1>2, <1>3, <1>4 DEF Credits, CreditOK

LEMMA TopupTypes ==
  ASSUME TypeOK, NEW u \in User, NEW by \in Intent \cup {"plain"}, Topup(u, by), UNCHANGED <<pays, link, durLink, settling>>,
         intent' \in [Intent -> IntentRow],
         challenge' \in [Nonce -> {None, Used} \cup [user : User, address : Address]]
  PROVE  TypeOK'
<1>1. PICK job \in TopupJob : /\ mirror' = Append(mirror, job)
                              /\ job.row \in LedgerRow /\ ledger' = Append(ledger, job.row)
                              /\ balance' \in [User -> Int] /\ UNCHANGED <<durBalance, durLedger>>
  BY TopupSteps
<1>2. job \in MirrorJob
  BY DEF MirrorJob
<1>3. mirror' \in Seq(MirrorJob) /\ ledger' \in Seq(LedgerRow)
  BY <1>1, <1>2, AppendProperties DEF TypeOK
<1> QED BY <1>1, <1>3 DEF TypeOK, pays

LEMMA WalletTypes ==
  ASSUME TypeOK, Credits, Challenge \/ LinkWallet \/ UnlinkWallet \/ CreateTopupIntent
  PROVE  TypeOK'
<1>1. CASE Challenge
  <2>1. PICK u \in User, a \in Address, n \in Nonce :
          /\ challenge' = [Pruned(challenge) EXCEPT ![n] = [user |-> u, address |-> a]]
          /\ intent' = Expired(intent)
          /\ UNCHANGED <<money, pays, link, durLink, settling, mirror>>
    BY <1>1 DEF Challenge
  <2>2. challenge' \in [Nonce -> {None, Used} \cup [user : User, address : Address]]
    BY <2>1, PrunedTyped
  <2>3. intent' \in [Intent -> IntentRow]
    BY <2>1, ExpiredTyped
  <2> QED BY <2>1, <2>2, <2>3 DEF TypeOK, money, pays
<1>2. CASE LinkWallet
  <2>1. PICK n \in Nonce : challenge' = [Pruned(challenge) EXCEPT ![n] = Used]
    BY <1>2, LinkWalletIs
  <2>2. UNCHANGED <<money, pays, durLink, settling>> /\ intent' = Expired(intent)
    BY <1>2, LinkWalletIs
  <2>3. challenge' \in [Nonce -> {None, Used} \cup [user : User, address : Address]]
    BY <2>1, PrunedTyped
  <2>4. intent' \in [Intent -> IntentRow]
    BY <2>2, ExpiredTyped
  <2>5. link' \in [Address -> User \cup {None}] /\ mirror' \in Seq(MirrorJob)
    <3>1. CASE UNCHANGED <<link, misnamed, mirror>>
      BY <3>1 DEF TypeOK
    <3>2. CASE ~UNCHANGED <<link, misnamed, mirror>>
      <4>1. PICK a \in Address, job \in LinkJob :
              mirror' = Append(mirror, job) /\ link' = [link EXCEPT ![a] = job.user]
        BY <1>2, <3>2, LinkWalletIs
      <4>2. job \in MirrorJob /\ job.user \in User
        BY DEF MirrorJob, LinkJob
      <4>3. mirror' \in Seq(MirrorJob)
        BY <4>1, <4>2, AppendProperties DEF TypeOK
      <4>4. link' \in [Address -> User \cup {None}]
        BY <4>1, <4>2 DEF TypeOK
      <4> QED BY <4>3, <4>4
    <3> QED BY <3>1, <3>2
  <2> QED BY <2>2, <2>3, <2>4, <2>5 DEF TypeOK, money, pays
<1>3. CASE UnlinkWallet
  <2>1. PICK a \in Address :
          /\ link[a] # None
          /\ mirror' = Append(mirror, [kind |-> "unlink", user |-> link[a], address |-> a])
          /\ UNCHANGED <<money, pays, links, intent, settling>>
    BY <1>3 DEF UnlinkWallet
  <2>2. link[a] \in User
    BY <2>1 DEF TypeOK
  <2>3. [kind |-> "unlink", user |-> link[a], address |-> a] \in LinkJob
    BY <2>2 DEF LinkJob
  <2>4. PICK job \in MirrorJob : mirror' = Append(mirror, job)
    BY <2>1, <2>3 DEF MirrorJob
  <2>5. mirror' \in Seq(MirrorJob)
    BY <2>4, AppendProperties DEF TypeOK
  <2> QED BY <2>1, <2>5 DEF TypeOK, money, pays, links
<1>4. CASE CreateTopupIntent
  <2>1. PICK i \in Intent, a \in Address :
          /\ link[a] # None
          /\ intent' = [Expired(intent) EXCEPT ![i] = [user |-> link[a], status |-> "PENDING"]]
          /\ challenge' = Pruned(challenge)
          /\ UNCHANGED <<money, pays, link, durLink, settling, mirror>>
    BY <1>4 DEF CreateTopupIntent
  <2>2. link[a] \in User
    BY <2>1 DEF TypeOK
  <2>3. [user |-> link[a], status |-> "PENDING"] \in IntentRow
    BY <2>2 DEF IntentRow
  <2>4. intent' \in [Intent -> IntentRow]
    BY <2>1, <2>3, ExpiredTyped
  <2>5. challenge' \in [Nonce -> {None, Used} \cup [user : User, address : Address]]
    BY <2>1, PrunedTyped
  <2> QED BY <2>1, <2>4, <2>5 DEF TypeOK, money, pays
<1> QED BY <1>1, <1>2, <1>3, <1>4

LEMMA SettleTypes ==
  ASSUME TypeOK, Credits, PlainTopup \/ AskSettle \/ Settles
  PROVE  TypeOK'
<1>1. CASE PlainTopup
  <2>1. PICK u \in User : Topup(u, "plain") /\ UNCHANGED <<pays, links, intent, settling>>
    BY <1>1 DEF PlainTopup
  <2>2. UNCHANGED <<link, durLink, challenge>>
    BY <2>1 DEF links
  <2>3. intent' \in [Intent -> IntentRow] /\ challenge' \in [Nonce -> {None, Used} \cup [user : User, address : Address]]
    BY <2>1, <2>2 DEF TypeOK
  <2> QED BY <2>1, <2>2, <2>3, TopupTypes
<1>2. CASE AskSettle
  <2>1. PICK i \in Intent : /\ settling' = [settling EXCEPT ![i] = @ + 1]
                            /\ UNCHANGED <<money, pays, links, intent, mirror>>
    BY <1>2 DEF AskSettle
  <2>2. settling' \in [Intent -> Nat]
    BY <2>1 DEF TypeOK
  <2> QED BY <2>1, <2>2 DEF TypeOK, money, pays, links
<1>3. ASSUME NEW i \in Intent, RunSettle(i) PROVE TypeOK'
  <2>1. intent[i].user \in User
    BY <1>3, PendingHasUser DEF RunSettle, MaySettle
  <2>2. /\ Topup(intent[i].user, i) /\ UNCHANGED <<pays, link, durLink, settling>>
        /\ challenge' = Pruned(challenge) /\ intent' = Expired(intent)
    BY <1>3 DEF RunSettle
  <2> QED BY <2>1, <2>2, ExpiredTyped, PrunedTyped, TopupTypes
<1>4. ASSUME NEW i \in Intent, RefuseSettle(i) PROVE TypeOK'
  <2>1. /\ settling[i] > 0 /\ settling' = [settling EXCEPT ![i] = @ - 1]
        /\ challenge' = Pruned(challenge) /\ intent' = Expired(intent)
        /\ UNCHANGED <<money, pays, link, durLink, mirror>>
    BY <1>4 DEF RefuseSettle
  <2>2. settling' \in [Intent -> Nat]
    BY <2>1 DEF TypeOK
  <2>3. intent' \in [Intent -> IntentRow] /\ challenge' \in [Nonce -> {None, Used} \cup [user : User, address : Address]]
    BY <2>1, ExpiredTyped, PrunedTyped
  <2> QED BY <2>1, <2>2, <2>3 DEF TypeOK, money, pays
<1> QED BY <1>1, <1>2, <1>3, <1>4 DEF Settles

LEMMA MirrorTypes ==
  ASSUME TypeOK, Credits, Mirrors
  PROVE  TypeOK'
<1>1. mirror # <<>> /\ mirror' = Tail(mirror)
  BY DEF Mirrors, TopupMirrored, TopupUndone, LinkMirrored, LinkUndone
<1>2. mirror' \in Seq(MirrorJob)
  BY <1>1, JobTaken
<1>3. CASE TopupMirrored \/ TopupUndone
  <2>1. PICK job : job = Job
    OBVIOUS
  <2>2. /\ job.kind = "topup" /\ job.row \in TopupRow /\ job.row \in LedgerRow
        /\ job.after \in Int /\ job.pre \in Int /\ job.len \in Nat
        /\ job.row.by \in Intent => settling[job.row.by] > 0 /\ intent[job.row.by] # NoIntent
    BY <1>1, <1>3, <2>1, HeadTopup DEF TopupMirrored, TopupUndone
  <2>3. settling' \in [Intent -> Nat] /\ intent' \in [Intent -> IntentRow]
    BY <1>3, <2>1, <2>2, SettleEndsSteps DEF TopupMirrored, TopupUndone
  <2>4. CASE TopupMirrored
    <3>1. /\ durLedger' = durLedger \cup {job.row} /\ durBalance' = [durBalance EXCEPT ![job.row.user] = job.after]
          /\ UNCHANGED <<balance, ledger, pays, links>>
      BY <2>1, <2>4 DEF TopupMirrored
    <3>2. durLedger' \in SUBSET LedgerRow /\ IsFiniteSet(durLedger')
      BY <2>2, <3>1, FS_AddElement DEF TypeOK
    <3>3. durBalance' \in [User -> Int]
      BY <2>2, <3>1 DEF TypeOK, TopupRow
    <3> QED BY <1>2, <2>3, <3>1, <3>2, <3>3 DEF TypeOK, pays, links
  <2>5. CASE TopupUndone
    <3>1. /\ balance' = [balance EXCEPT ![job.row.user] = job.pre]
          /\ ledger' = IF Len(ledger) > job.len THEN SubSeq(ledger, 1, job.len) ELSE ledger
          /\ UNCHANGED <<durBalance, durLedger, pays, links>>
      BY <2>1, <2>5 DEF TopupUndone
    <3>2. balance' \in [User -> Int]
      BY <2>2, <3>1 DEF TypeOK, TopupRow
    <3>3. ledger' \in Seq(LedgerRow)
      <4>1. Len(ledger) \in Nat /\ \A k \in 1..Len(ledger) : ledger[k] \in LedgerRow
        BY LenProperties, ElementOfSeq DEF TypeOK
      <4>2. Len(ledger) > job.len => SubSeq(ledger, 1, job.len) \in Seq(LedgerRow)
        <5> SUFFICES ASSUME Len(ledger) > job.len PROVE SubSeq(ledger, 1, job.len) \in Seq(LedgerRow)
          OBVIOUS
        <5>1. 1 \in Int /\ job.len \in Int /\ \A k \in 1..job.len : ledger[k] \in LedgerRow
          BY <2>2, <4>1
        <5> QED BY <5>1, SubSeqProperties
      <4> QED BY <3>1, <4>2 DEF TypeOK
    <3> QED BY <1>2, <2>3, <3>1, <3>2, <3>3 DEF TypeOK, pays, links
  <2> QED BY <1>3, <2>4, <2>5
<1>4. CASE LinkMirrored \/ LinkUndone
  <2>1. PICK job : job = Job /\ job.user \in User /\ job.address \in Address
    <3>1. Job.kind # "topup"
      BY <1>4 DEF LinkMirrored, LinkUndone, Inserts
    <3>2. Job \in MirrorJob
      BY <1>1, JobTaken
    <3> QED BY <3>1, <3>2, JobIs
  <2>2. UNCHANGED <<money, pays, challenge, intent, settling>>
    BY <1>4 DEF LinkMirrored, LinkUndone
  <2>3. durLink' \in [Address -> User \cup {None}]
    BY <1>4, <2>1 DEF LinkMirrored, LinkUndone, TypeOK
  <2>4. link' \in [Address -> User \cup {None}]
    BY <1>4, <2>1 DEF LinkMirrored, LinkUndone, TypeOK
  <2> QED BY <1>2, <2>2, <2>3, <2>4 DEF TypeOK, money, pays
<1> QED BY <1>3, <1>4 DEF Mirrors

LEMMA PayTypes ==
  ASSUME TypeOK, PayDurable \/ PayLocal \/ Restart
  PROVE  TypeOK'
<1>1. CASE PayDurable
  <2>1. PICK i \in Invoice : /\ durInvoice' = [durInvoice EXCEPT ![i] = "PAID"]
                             /\ durBalance' = [durBalance EXCEPT ![Owner[i]] = @ - Due]
                             /\ \E n \in Highest(DurSeqs(Owner[i])) :
                                  durLedger' = durLedger \cup {[user |-> Owner[i], seq |-> n + 1, amount |-> -Due, by |-> i]}
                             /\ paying' = paying \cup {i} \/ paying' = paying
                             /\ UNCHANGED <<balance, ledger, invoice, links, intent, settling, mirror>>
    BY <1>1 DEF PayDurable
  <2>2. Owner[i] \in User /\ Due \in Nat /\ -Due \in Int
    BY Constants
  <2>3. PICK n \in Highest(DurSeqs(Owner[i])) :
          durLedger' = durLedger \cup {[user |-> Owner[i], seq |-> n + 1, amount |-> -Due, by |-> i]}
    BY <2>1
  <2>4. n \in Nat
    BY DEF Highest, DurSeqs, TypeOK, LedgerRow
  <2>5. [user |-> Owner[i], seq |-> n + 1, amount |-> -Due, by |-> i] \in LedgerRow
    BY <2>2, <2>4 DEF LedgerRow
  <2>6. durLedger' \in SUBSET LedgerRow /\ IsFiniteSet(durLedger')
    BY <2>3, <2>5, FS_AddElement DEF TypeOK
  <2>7. durBalance' \in [User -> Int]
    BY <2>1, <2>2 DEF TypeOK
  <2>8. durInvoice' \in [Invoice -> {"DUE", "PAID"}] /\ paying' \in SUBSET Invoice
    BY <2>1 DEF TypeOK
  <2> QED BY <2>1, <2>6, <2>7, <2>8 DEF TypeOK, links
<1>2. CASE PayLocal
  <2>1. PICK i \in paying :
          /\ paying' = paying \ {i}
          /\ \/ /\ invoice' = [invoice EXCEPT ![i] = "PAID"]
                /\ balance' = [balance EXCEPT ![Owner[i]] = @ - Due]
                /\ ledger' = Append(ledger, [user |-> Owner[i], seq |-> Count(Owner[i]) + 1, amount |-> -Due, by |-> i])
             \/ UNCHANGED <<invoice, balance, ledger>>
          /\ UNCHANGED <<durBalance, durLedger, durInvoice, links, intent, settling, mirror>>
    BY <1>2 DEF PayLocal
  <2>2. i \in Invoice /\ Owner[i] \in User /\ Due \in Nat /\ -Due \in Int
    BY Constants DEF TypeOK
  <2>3. Count(Owner[i]) + 1 \in Nat
    BY CountIsNat
  <2>4. [user |-> Owner[i], seq |-> Count(Owner[i]) + 1, amount |-> -Due, by |-> i] \in LedgerRow
    BY <2>2, <2>3 DEF LedgerRow
  <2>5. ledger' \in Seq(LedgerRow)
    <3>1. (\E row \in LedgerRow : ledger' = Append(ledger, row)) \/ ledger' = ledger
      BY <2>1, <2>4
    <3>2. ledger \in Seq(LedgerRow)
      BY DEF TypeOK
    <3>3. ASSUME NEW row \in LedgerRow PROVE Append(ledger, row) \in Seq(LedgerRow)
      BY <3>2, AppendProperties
    <3> QED BY <3>1, <3>2, <3>3
  <2>6. balance' \in [User -> Int]
    BY <2>1, <2>2 DEF TypeOK
  <2>7. invoice' \in [Invoice -> {"DUE", "PAID"}] /\ paying' \in SUBSET Invoice
    BY <2>1 DEF TypeOK
  <2> QED BY <2>1, <2>5, <2>6, <2>7 DEF TypeOK, links
<1>3. CASE Restart
  <2>1. ledger' \in Seq(LedgerRow)
    <3>1. SetToSeq(durLedger) \in Seq(durLedger) /\ durLedger \subseteq LedgerRow
      BY Listed DEF TypeOK
    <3> QED BY <1>3, <3>1 DEF Restart
  <2>2. intent' \in [Intent -> IntentRow]
    <3>1. intent' = [i \in Intent |-> IF intent[i] = NoIntent THEN NoIntent ELSE [intent[i] EXCEPT !.status = "GONE"]]
      BY <1>3 DEF Restart
    <3>2. ASSUME NEW i \in Intent, intent[i] # NoIntent PROVE [intent[i] EXCEPT !.status = "GONE"] \in IntentRow
      <4>1. intent[i] \in IntentRow
        BY DEF TypeOK
      <4>2. intent[i] \in [user : User, status : {"PENDING", "SETTLED", "EXPIRED", "GONE"}]
        BY <3>2, <4>1, IntentRows
      <4> QED BY <4>2 DEF IntentRow
    <3>3. NoIntent \in IntentRow
      BY DEF IntentRow
    <3> QED BY <3>1, <3>2, <3>3
  <2>3. mirror' \in Seq(MirrorJob)
    BY <1>3, EmptySeq DEF Restart
  <2>4. challenge' \in [Nonce -> {None, Used} \cup [user : User, address : Address]] /\ settling' \in [Intent -> Nat]
    BY <1>3 DEF Restart
  <2>5. paying' \in SUBSET Invoice
    BY <1>3 DEF Restart
  <2> QED BY <1>3, <2>1, <2>2, <2>3, <2>4, <2>5 DEF Restart, TypeOK
<1> QED BY <1>1, <1>2, <1>3

LEMMA TypesKept ==
  ASSUME TypeOK, Credits, [Next]_vars
  PROVE  TypeOK'
<1>1. CASE GetsLate
  BY <1>1 DEF GetsLate, TypeOK, money, pays, links
<1>2. CASE UNCHANGED vars
  BY <1>2 DEF vars, TypeOK, money, pays, links
<1> QED BY <1>1, <1>2, WalletTypes, SettleTypes, MirrorTypes, PayTypes DEF Next

(* -------------------------------- credits ------------------------------ *)
(* The state of an intent changes in no way that matters to its credit.    *)
StatusKept(i) ==
  /\ intent'[i].status = "SETTLED" => intent[i].status = "SETTLED"
  /\ intent'[i].status \in {"NONE", "PENDING"} => intent[i].status \in {"NONE", "PENDING"}
  /\ intent[i] # NoIntent => intent'[i] # NoIntent

LEMMA StatusSame ==
  ASSUME NEW i, intent'[i] = intent[i]
  PROVE  StatusKept(i)
  BY DEF StatusKept

LEMMA StatusExpired ==
  ASSUME TypeOK, intent' = Expired(intent), NEW i \in Intent
  PROVE  StatusKept(i)
  BY ExpiredTyped DEF StatusKept

LEMMA CreditKept ==
  ASSUME TypeOK, NEW i, CreditOK(i), RowsOf(i)' = RowsOf(i), StatusKept(i),
         \/ \A k : JobOf(i, k)' => JobOf(i, k)
         \/ \A k : JobOf(i, k)' => k \in Nat \ {0} /\ JobOf(i, k + 1),
         SettleJob(i)' => settling'[i] > 0
  PROVE  CreditOK(i)'
<1>1. SettleJob(i) <=> \E k : JobOf(i, k)
  BY DEF SettleJob, JobOf
<1>2. SettleJob(i)' <=> \E k : JobOf(i, k)'
  BY DEF SettleJob, JobOf
<1>3. SettleJob(i)' => SettleJob(i)
  BY <1>1, <1>2
<1>4. \A j, k : JobOf(i, j)' /\ JobOf(i, k)' => j = k
  <2>1. \A j, k : JobOf(i, j) /\ JobOf(i, k) => j = k
    BY DEF CreditOK
  <2>2. CASE \A k : JobOf(i, k)' => JobOf(i, k)
    BY <2>1, <2>2
  <2>3. CASE \A k : JobOf(i, k)' => k \in Nat \ {0} /\ JobOf(i, k + 1)
    <3> SUFFICES ASSUME NEW j, NEW k, JobOf(i, j)', JobOf(i, k)' PROVE j = k
      OBVIOUS
    <3>1. j \in Nat /\ k \in Nat /\ JobOf(i, j + 1) /\ JobOf(i, k + 1)
      BY <2>3
    <3>2. j + 1 = k + 1
      BY <2>1, <3>1
    <3> QED BY <3>1, <3>2
  <2> QED BY <2>2, <2>3
<1>5. \A r, q \in RowsOf(i)' : r = q
  BY DEF CreditOK
<1>6. intent'[i].status = "SETTLED" => RowsOf(i)' # {}
  BY DEF CreditOK, StatusKept
<1>7. intent'[i].status \in {"NONE", "PENDING"} \/ SettleJob(i)' => RowsOf(i)' = {}
  BY <1>3 DEF CreditOK, StatusKept
<1>8. SettleJob(i)' => settling'[i] > 0 /\ intent'[i] # NoIntent
  BY <1>3 DEF CreditOK, StatusKept
<1> QED BY <1>4, <1>5, <1>6, <1>7, <1>8 DEF CreditOK

(* The mirrors' queue is what it was, or a job that is no top-up is added. *)
LEMMA JobsNotAdded ==
  ASSUME TypeOK, NEW i,
         \/ mirror' = mirror
         \/ \E job \in MirrorJob : ~(job.kind = "topup" /\ job.row.by = i) /\ mirror' = Append(mirror, job)
  PROVE  \A k : JobOf(i, k)' => JobOf(i, k)
<1>1. CASE mirror' = mirror
  BY <1>1 DEF JobOf
<1>2. CASE \E job \in MirrorJob : ~(job.kind = "topup" /\ job.row.by = i) /\ mirror' = Append(mirror, job)
  <2>1. PICK job \in MirrorJob : ~(job.kind = "topup" /\ job.row.by = i) /\ mirror' = Append(mirror, job)
    BY <1>2
  <2>2. \A k : JobOf(i, k)' <=> \/ JobOf(i, k)
                                \/ k = Len(mirror) + 1 /\ job.kind = "topup" /\ job.row.by = i
    BY <2>1, JobsAfterAdded
  <2> QED BY <2>1, <2>2
<1> QED BY <1>1, <1>2

LEMMA NoJobAdded ==
  ASSUME NEW i, \A k : JobOf(i, k)' => JobOf(i, k)
  PROVE  SettleJob(i)' => SettleJob(i)
  BY DEF SettleJob, JobOf

LEMMA CreditCalm ==
  ASSUME TypeOK, NEW i \in Intent, CreditOK(i), UNCHANGED durLedger, StatusKept(i),
         settling'[i] >= settling[i] \/ ~SettleJob(i),
         \/ mirror' = mirror
         \/ \E job \in MirrorJob : ~(job.kind = "topup" /\ job.row.by = i) /\ mirror' = Append(mirror, job),
         settling' \in [Intent -> Nat]
  PROVE  CreditOK(i)'
<1>1. \A k : JobOf(i, k)' => JobOf(i, k)
  BY JobsNotAdded
<1>2. SettleJob(i)' => SettleJob(i)
  BY <1>1, NoJobAdded
<1>3. RowsOf(i)' = RowsOf(i)
  BY DEF RowsOf
<1>4. SettleJob(i)' => settling'[i] > 0
  <2>1. settling[i] \in Nat /\ settling'[i] \in Nat
    BY DEF TypeOK
  <2> QED BY <1>2, <2>1 DEF CreditOK
<1> QED BY <1>1, <1>3, <1>4, CreditKept

(* Steps of the wallet page and the clock.                                 *)
LEMMA WalletCredits ==
  ASSUME TypeOK, TypeOK', Credits, GetsLate \/ Challenge \/ LinkWallet \/ UnlinkWallet \/ CreateTopupIntent \/ AskSettle
  PROVE  Credits'
<1> SUFFICES ASSUME NEW i \in Intent PROVE CreditOK(i)'
  BY DEF Credits
<1>1. CreditOK(i) /\ UNCHANGED durLedger /\ settling' \in [Intent -> Nat]
  BY DEF Credits, TypeOK, GetsLate, Challenge, LinkWallet, UnlinkWallet, CreateTopupIntent, AskSettle, money
<1>2. settling'[i] >= settling[i]
  <2>1. settling \in [Intent -> Nat]
    BY DEF TypeOK
  <2>2. CASE settling' = settling
    BY <2>1, <2>2
  <2>3. CASE AskSettle
    <3>1. PICK j \in Intent : settling' = [settling EXCEPT ![j] = @ + 1]
      BY <2>3 DEF AskSettle
    <3> QED BY <2>1, <3>1
  <2>4. settling' = settling \/ AskSettle
    BY DEF GetsLate, Challenge, LinkWallet, UnlinkWallet, CreateTopupIntent
  <2> QED BY <2>2, <2>3, <2>4
<1>3. StatusKept(i)
  <2>1. CASE GetsLate \/ UnlinkWallet \/ AskSettle
    BY <2>1, StatusSame DEF GetsLate, UnlinkWallet, AskSettle
  <2>2. CASE Challenge \/ LinkWallet
    BY <2>2, StatusExpired DEF Challenge, LinkWallet
  <2>3. CASE CreateTopupIntent
    <3>1. PICK j \in Intent, a \in Address :
            /\ intent[j] = NoIntent
            /\ intent' = [Expired(intent) EXCEPT ![j] = [user |-> link[a], status |-> "PENDING"]]
      BY <2>3 DEF CreateTopupIntent
    <3>2. Expired(intent) \in [Intent -> IntentRow]
      BY ExpiredTyped
    <3>3. CASE i = j
      BY <3>1, <3>2, <3>3 DEF StatusKept, NoIntent
    <3>4. CASE i # j
      <4>1. intent'[i] = Expired(intent)[i]
        BY <3>1, <3>2, <3>4
      <4> QED BY <4>1, ExpiredTyped DEF StatusKept
    <3> QED BY <3>3, <3>4
  <2> QED BY <2>1, <2>2, <2>3
<1>4. \/ mirror' = mirror
      \/ \E job \in MirrorJob : ~(job.kind = "topup" /\ job.row.by = i) /\ mirror' = Append(mirror, job)
  <2>1. CASE GetsLate \/ Challenge \/ CreateTopupIntent \/ AskSettle
    BY <2>1 DEF GetsLate, Challenge, CreateTopupIntent, AskSettle
  <2>2. CASE LinkWallet
    <3>1. mirror' = mirror \/ \E job \in LinkJob : mirror' = Append(mirror, job)
      BY <2>2, LinkWalletIs
    <3>2. \A job \in LinkJob : job \in MirrorJob /\ job.kind # "topup"
      BY DEF LinkJob, MirrorJob
    <3> QED BY <3>1, <3>2
  <2>3. CASE UnlinkWallet
    <3>1. PICK a \in Address : /\ link[a] # None
                               /\ mirror' = Append(mirror, [kind |-> "unlink", user |-> link[a], address |-> a])
      BY <2>3 DEF UnlinkWallet
    <3> DEFINE job == [kind |-> "unlink", user |-> link[a], address |-> a]
    <3>2. link[a] \in User
      BY <3>1 DEF TypeOK
    <3>3. job \in LinkJob /\ job.kind # "topup"
      BY <3>2 DEF LinkJob
    <3>4. job \in MirrorJob
      BY <3>3 DEF MirrorJob
    <3> QED BY <3>1, <3>3, <3>4
  <2> QED BY <2>1, <2>2, <2>3
<1> QED BY <1>1, <1>2, <1>3, <1>4, CreditCalm

(* A plain top-up, and the settlements.                                    *)
LEMMA TopupCreditElse ==
  ASSUME TypeOK, TypeOK', NEW u \in User, NEW by \in Intent \cup {"plain"}, Topup(u, by), UNCHANGED settling,
         NEW i \in Intent, i # by, CreditOK(i), StatusKept(i)
  PROVE  CreditOK(i)'
<1>1. PICK job \in TopupJob : mirror' = Append(mirror, job) /\ job.row.by = by /\ UNCHANGED durLedger
  BY TopupSteps
<1>2. job \in MirrorJob
  BY DEF MirrorJob
<1>3. settling' \in [Intent -> Nat] /\ settling'[i] >= settling[i]
  BY DEF TypeOK
<1> QED BY <1>1, <1>2, <1>3, CreditCalm

LEMMA RunSettleCredit ==
  ASSUME TypeOK, TypeOK', NEW i \in Intent, CreditOK(i), RunSettle(i)
  PROVE  CreditOK(i)'
<1>1. /\ settling[i] > 0 /\ ~SettleJob(i) /\ intent[i].status = "PENDING"
      /\ Topup(intent[i].user, i) /\ intent' = Expired(intent) /\ settling' = settling
  BY DEF RunSettle, MaySettle
<1>2. intent[i] # NoIntent /\ intent[i].user \in User
  BY <1>1, PendingHasUser
<1>3. PICK job \in TopupJob : mirror' = Append(mirror, job) /\ job.row.by = i /\ UNCHANGED durLedger
  BY <1>1, <1>2, TopupSteps
<1>4. job \in MirrorJob
  BY DEF MirrorJob
<1>5. \A k : JobOf(i, k)' <=> \/ JobOf(i, k)
                              \/ k = Len(mirror) + 1 /\ job.kind = "topup" /\ job.row.by = i
  BY <1>3, <1>4, JobsAfterAdded
<1>6. \A k : JobOf(i, k)' => k = Len(mirror) + 1
  BY <1>1, <1>5, SettleJobIs
<1>7. RowsOf(i) = {} /\ RowsOf(i)' = RowsOf(i)
  BY <1>1, <1>3 DEF CreditOK, RowsOf
<1>8. intent'[i].status # "SETTLED" /\ intent'[i] # NoIntent
  BY <1>1, <1>2, ExpiredTyped
<1> QED BY <1>1, <1>6, <1>7, <1>8 DEF CreditOK

LEMMA SettleCredits ==
  ASSUME TypeOK, TypeOK', Credits, PlainTopup \/ Settles
  PROVE  Credits'
<1>1. CASE PlainTopup
  <2>1. PICK u \in User : Topup(u, "plain") /\ UNCHANGED <<intent, settling>>
    BY <1>1 DEF PlainTopup
  <2> SUFFICES ASSUME NEW i \in Intent PROVE CreditOK(i)'
    BY DEF Credits
  <2>2. i # "plain" /\ CreditOK(i)
    BY Constants DEF Credits
  <2>3. StatusKept(i)
    BY <2>1, StatusSame
  <2> QED BY <2>1, <2>2, <2>3, TopupCreditElse
<1>2. ASSUME NEW s \in Intent, RunSettle(s), NEW i \in Intent PROVE CreditOK(i)'
  <2>1. CreditOK(i)
    BY DEF Credits
  <2>2. CASE i = s
    BY <1>2, <2>1, <2>2, RunSettleCredit
  <2>3. CASE i # s
    <3>1. /\ intent[s].status = "PENDING" /\ Topup(intent[s].user, s)
          /\ intent' = Expired(intent) /\ settling' = settling
      BY <1>2 DEF RunSettle, MaySettle
    <3>2. intent[s].user \in User
      BY <3>1, PendingHasUser
    <3>3. StatusKept(i)
      BY <3>1, StatusExpired
    <3> QED BY <2>1, <2>3, <3>1, <3>2, <3>3, TopupCreditElse
  <2> QED BY <2>2, <2>3
<1>3. ASSUME NEW s \in Intent, RefuseSettle(s), NEW i \in Intent PROVE CreditOK(i)'
  <2>1. CreditOK(i)
    BY DEF Credits
  <2>2. /\ ~SettleJob(s) /\ settling' = [settling EXCEPT ![s] = @ - 1]
        /\ intent' = Expired(intent) /\ mirror' = mirror /\ durLedger' = durLedger
    BY <1>3 DEF RefuseSettle, money
  <2>3. StatusKept(i)
    BY <2>2, StatusExpired
  <2>4. settling'[i] >= settling[i] \/ ~SettleJob(i)
    <3>1. CASE i = s
      BY <2>2, <3>1
    <3>2. CASE i # s
      BY <2>2, <3>2 DEF TypeOK
    <3> QED BY <3>1, <3>2
  <2>5. settling' \in [Intent -> Nat]
    BY DEF TypeOK
  <2> QED BY <2>1, <2>2, <2>3, <2>4, <2>5, CreditCalm
<1> QED BY <1>1, <1>2, <1>3 DEF Settles, Credits

(* The first mirror is taken: its intent's key is given back.              *)
LEMMA TakenElseCredit ==
  ASSUME TypeOK, mirror # <<>>, mirror' = Tail(mirror), NEW i \in Intent, CreditOK(i), StatusKept(i),
         RowsOf(i)' = RowsOf(i), settling'[i] = settling[i]
  PROVE  CreditOK(i)'
<1>1. \A j, k : JobOf(j, k)' <=> k \in Nat \ {0} /\ JobOf(j, k + 1)
  BY JobsAfterTaken
<1>2. \A k : JobOf(i, k)' => k \in Nat \ {0} /\ JobOf(i, k + 1)
  BY <1>1
<1>3. SettleJob(i)' => SettleJob(i)
  <2> SUFFICES ASSUME SettleJob(i)' PROVE SettleJob(i)
    OBVIOUS
  <2>1. PICK k : JobOf(i, k)'
    BY DEF SettleJob, JobOf
  <2> QED BY <1>2, <2>1, SettleJobIs
<1>4. SettleJob(i)' => settling'[i] > 0
  BY <1>3 DEF CreditOK
<1> QED BY <1>2, <1>4, CreditKept

LEMMA TakenOnly ==
  ASSUME TypeOK, mirror # <<>>, mirror' = Tail(mirror), NEW i \in Intent, CreditOK(i), JobOf(i, 1)
  PROVE  ~SettleJob(i)' /\ \A k : ~JobOf(i, k)'
<1>1. \A j, k : JobOf(j, k)' <=> k \in Nat \ {0} /\ JobOf(j, k + 1)
  BY JobsAfterTaken
<1>2. \A k : JobOf(i, k) => k = 1
  BY DEF CreditOK
<1>3. \A k : ~JobOf(i, k)'
  <2> SUFFICES ASSUME NEW k, JobOf(i, k)' PROVE FALSE
    OBVIOUS
  <2>1. k \in Nat \ {0} /\ k + 1 = 1
    BY <1>1, <1>2
  <2> QED BY <2>1
<1> QED BY <1>3 DEF SettleJob, JobOf

LEMMA MirrorCredits ==
  ASSUME TypeOK, Credits, Mirrors
  PROVE  Credits'
<1>1. mirror # <<>> /\ mirror' = Tail(mirror)
  BY DEF Mirrors, TopupMirrored, TopupUndone, LinkMirrored, LinkUndone
<1> SUFFICES ASSUME NEW i \in Intent PROVE CreditOK(i)'
  BY DEF Credits
<1>2. CreditOK(i)
  BY DEF Credits
<1>3. CASE LinkMirrored \/ LinkUndone
  <2>1. UNCHANGED <<money, intent, settling>>
    BY <1>3 DEF LinkMirrored, LinkUndone
  <2>2. RowsOf(i)' = RowsOf(i)
    BY <2>1 DEF RowsOf, money
  <2>3. StatusKept(i) /\ settling'[i] = settling[i]
    BY <2>1, StatusSame
  <2> QED BY <1>1, <1>2, <2>2, <2>3, TakenElseCredit
<1>4. CASE TopupMirrored \/ TopupUndone
  <2>1. PICK row : row = Job.row
    OBVIOUS
  <2>2. /\ row \in TopupRow /\ JobOf(row.by, 1)
        /\ row.by \in Intent => SettleJob(row.by) /\ settling[row.by] > 0 /\ intent[row.by] # NoIntent
    BY <1>1, <1>4, <2>1, HeadTopup DEF TopupMirrored, TopupUndone
  <2>3. PICK done \in BOOLEAN : SettleEnds(done) /\ (done => TopupMirrored) /\ (~done => TopupUndone)
    <3>1. CASE TopupMirrored
      <4>1. SettleEnds(TRUE)
        BY <3>1 DEF TopupMirrored
      <4> QED BY <3>1, <4>1
    <3>2. CASE TopupUndone
      <4>1. SettleEnds(FALSE)
        BY <3>2 DEF TopupUndone
      <4> QED BY <3>2, <4>1
    <3> QED BY <1>4, <3>1, <3>2
  <2>7. /\ \A j \in Intent : j # row.by => settling'[j] = settling[j] /\ intent'[j] = intent[j]
        /\ row.by \in Intent => /\ intent'[row.by] # NoIntent
                                /\ done => intent'[row.by].status = "SETTLED"
                                /\ ~done => intent'[row.by] = intent[row.by]
    BY <2>1, <2>2, <2>3, SettleEndsSteps
  <2>4. durLedger' = durLedger \/ durLedger' = durLedger \cup {row}
    BY <1>4, <2>1 DEF TopupMirrored, TopupUndone
  <2>5. CASE i # row.by
    <3>1. RowsOf(i)' = RowsOf(i)
      BY <2>4, <2>5 DEF RowsOf
    <3>2. StatusKept(i) /\ settling'[i] = settling[i]
      BY <2>5, <2>7, StatusSame
    <3> QED BY <1>1, <1>2, <3>1, <3>2, TakenElseCredit
  <2>6. CASE i = row.by
    <3>1. ~SettleJob(i)' /\ \A k : ~JobOf(i, k)'
      BY <1>1, <1>2, <2>2, <2>6, TakenOnly
    <3>2. RowsOf(i) = {}
      BY <1>2, <2>2, <2>6 DEF CreditOK
    <3>3. CASE done
      <4>1. durLedger' = durLedger \cup {row} /\ intent'[i].status = "SETTLED"
        BY <2>1, <2>3, <2>6, <2>7, <3>3 DEF TopupMirrored
      <4>2. RowsOf(i)' = {row}
        BY <2>6, <3>2, <4>1 DEF RowsOf
      <4> QED BY <3>1, <4>1, <4>2 DEF CreditOK
    <3>4. CASE ~done
      <4>1. durLedger' = durLedger /\ intent'[i] = intent[i]
        BY <2>3, <2>6, <2>7, <3>4 DEF TopupUndone
      <4>2. RowsOf(i)' = RowsOf(i)
        BY <4>1 DEF RowsOf
      <4> QED BY <1>2, <3>1, <3>2, <4>1, <4>2 DEF CreditOK
    <3> QED BY <3>3, <3>4
  <2> QED BY <2>5, <2>6
<1> QED BY <1>3, <1>4 DEF Mirrors

LEMMA PayCredits ==
  ASSUME TypeOK, Credits, PayDurable \/ PayLocal \/ Restart
  PROVE  Credits'
<1> SUFFICES ASSUME NEW i \in Intent PROVE CreditOK(i)'
  BY DEF Credits
<1>1. CreditOK(i)
  BY DEF Credits
<1>2. CASE PayDurable \/ PayLocal
  <2>1. UNCHANGED <<intent, settling, mirror>>
    BY <1>2 DEF PayDurable, PayLocal
  <2>2. RowsOf(i)' = RowsOf(i)
    <3>1. CASE PayLocal
      BY <3>1 DEF PayLocal, RowsOf
    <3>2. CASE PayDurable
      <4>1. PICK b \in Invoice : \E n :
              durLedger' = durLedger \cup {[user |-> Owner[b], seq |-> n + 1, amount |-> -Due, by |-> b]}
        BY <3>2 DEF PayDurable
      <4>2. b # i
        BY Constants
      <4> QED BY <4>1, <4>2 DEF RowsOf
    <3> QED BY <1>2, <3>1, <3>2
  <2>3. StatusKept(i)
    BY <2>1, StatusSame
  <2>4. \A k : JobOf(i, k)' => JobOf(i, k)
    BY <2>1 DEF JobOf
  <2>5. SettleJob(i)' => settling'[i] > 0
    BY <1>1, <2>1, <2>4, NoJobAdded DEF CreditOK
  <2> QED BY <1>1, <2>2, <2>3, <2>4, <2>5, CreditKept
<1>3. CASE Restart
  <2>1. mirror' = <<>> /\ durLedger' = durLedger
    BY <1>3 DEF Restart
  <2>2. ~SettleJob(i)' /\ \A k : ~JobOf(i, k)'
    BY <2>1 DEF SettleJob, JobOf
  <2>3. RowsOf(i)' = RowsOf(i)
    BY <2>1 DEF RowsOf
  <2>4. intent[i] \in IntentRow
    BY DEF TypeOK
  <2>5. CASE intent[i] = NoIntent
    <3>1. intent'[i] = NoIntent
      BY <1>3, <2>5 DEF Restart
    <3>2. RowsOf(i) = {} /\ intent'[i].status = "NONE"
      BY <1>1, <2>5, <3>1 DEF CreditOK, NoIntent
    <3> QED BY <2>2, <2>3, <3>2 DEF CreditOK
  <2>6. CASE intent[i] # NoIntent
    <3>1. intent'[i] = [intent[i] EXCEPT !.status = "GONE"]
      BY <1>3, <2>6 DEF Restart
    <3>2. intent'[i].status = "GONE"
      BY <2>4, <2>6, <3>1, IntentRows
    <3> QED BY <1>1, <2>2, <2>3, <3>2 DEF CreditOK
  <2> QED BY <2>5, <2>6
<1> QED BY <1>2, <1>3

LEMMA CreditsKept ==
  ASSUME TypeOK, TypeOK', Credits, [Next]_vars
  PROVE  Credits'
<1>1. CASE UNCHANGED vars
  BY <1>1 DEF vars, money, Credits, CreditOK, RowsOf, SettleJob, JobOf
<1> QED BY <1>1, WalletCredits, SettleCredits, MirrorCredits, PayCredits DEF Next

(* -------------------------------- debits ------------------------------- *)
LEMMA LedgerAdded ==
  ASSUME TypeOK, NEW row \in LedgerRow, ledger' = Append(ledger, row)
  PROVE  /\ \A k \in DOMAIN ledger' : \/ k \in DOMAIN ledger /\ ledger'[k] = ledger[k]
                                      \/ k = Len(ledger) + 1 /\ ledger'[k] = row
         /\ Len(ledger) + 1 \notin DOMAIN ledger
<1>1. ledger \in Seq(LedgerRow) /\ Len(ledger) \in Nat /\ DOMAIN ledger = 1..Len(ledger)
  BY LenProperties DEF TypeOK
<1>2. /\ ledger' \in Seq(LedgerRow) /\ Len(ledger') = Len(ledger) + 1
      /\ \A k \in 1..Len(ledger) : ledger'[k] = ledger[k]
      /\ ledger'[Len(ledger) + 1] = row
  BY <1>1, AppendProperties
<1>3. DOMAIN ledger' = 1..Len(ledger')
  BY <1>2, LenProperties
<1> QED BY <1>1, <1>2, <1>3

(* The rows of the ledger about an invoice are still the ones they were.   *)
LedgerKept(i) == \A k \in DOMAIN ledger' : ledger'[k].by = i => k \in DOMAIN ledger /\ ledger[k].by = i

LEMMA DebitKept ==
  ASSUME NEW i \in Invoice, DebitOK(i), RowsOf(i)' = RowsOf(i), durInvoice'[i] = durInvoice[i],
         invoice'[i] = invoice[i], i \in paying' => i \in paying, LedgerKept(i)
  PROVE  DebitOK(i)'
<1>1. /\ \A r, q \in RowsOf(i)' : r = q
      /\ RowsOf(i)' # {} <=> durInvoice'[i] = "PAID"
  BY DEF DebitOK
<1>2. /\ \A j, k \in DOMAIN ledger' : ledger'[j].by = i /\ ledger'[k].by = i => j = k
      /\ \A k \in DOMAIN ledger' : ledger'[k].by = i => invoice'[i] = "PAID"
  BY DEF DebitOK, LedgerKept
<1>3. invoice'[i] = "PAID" \/ i \in paying' => durInvoice'[i] = "PAID"
  BY DEF DebitOK
<1> QED BY <1>1, <1>2, <1>3 DEF DebitOK

LEMMA TopupDebits ==
  ASSUME TypeOK, Debits, NEW u \in User, NEW by \in Intent \cup {"plain"}, Topup(u, by), UNCHANGED pays
  PROVE  Debits'
<1> SUFFICES ASSUME NEW i \in Invoice PROVE DebitOK(i)'
  BY DEF Debits
<1>1. PICK job \in TopupJob : /\ job.row.by = by /\ job.row \in LedgerRow
                              /\ ledger' = Append(ledger, job.row) /\ UNCHANGED <<durBalance, durLedger>>
  BY TopupSteps
<1>2. i # by
  BY Constants
<1>3. \A k \in DOMAIN ledger' : \/ k \in DOMAIN ledger /\ ledger'[k] = ledger[k]
                                \/ k = Len(ledger) + 1 /\ ledger'[k] = job.row
  BY <1>1, LedgerAdded
<1>4. LedgerKept(i)
  BY <1>1, <1>2, <1>3 DEF LedgerKept
<1>5. RowsOf(i)' = RowsOf(i) /\ DebitOK(i)
  BY <1>1 DEF RowsOf, Debits
<1> QED BY <1>4, <1>5, DebitKept DEF pays

LEMMA MirrorDebits ==
  ASSUME TypeOK, Credits, Debits, Mirrors
  PROVE  Debits'
<1> SUFFICES ASSUME NEW i \in Invoice PROVE DebitOK(i)'
  BY DEF Debits
<1>1. UNCHANGED pays /\ DebitOK(i)
  BY DEF Mirrors, TopupMirrored, TopupUndone, LinkMirrored, LinkUndone, Debits
<1>2. RowsOf(i)' = RowsOf(i)
  <2>1. CASE TopupMirrored
    <3>1. PICK row : row = Job.row /\ row \in TopupRow
      BY <2>1, HeadTopup DEF TopupMirrored
    <3>2. durLedger' = durLedger \cup {row}
      BY <2>1, <3>1 DEF TopupMirrored
    <3>3. row.by # i
      BY <3>1, Constants DEF TopupRow
    <3> QED BY <3>2, <3>3 DEF RowsOf
  <2>2. CASE TopupUndone \/ LinkMirrored \/ LinkUndone
    BY <2>2 DEF TopupUndone, LinkMirrored, LinkUndone, RowsOf, money
  <2> QED BY <2>1, <2>2 DEF Mirrors
<1>3. LedgerKept(i)
  <2>1. CASE TopupMirrored \/ LinkMirrored \/ LinkUndone
    BY <2>1 DEF TopupMirrored, LinkMirrored, LinkUndone, LedgerKept, money
  <2>2. CASE TopupUndone
    <3>1. PICK len \in Nat : ledger' = IF Len(ledger) > len THEN SubSeq(ledger, 1, len) ELSE ledger
      BY <2>2, HeadTopup DEF TopupUndone
    <3>2. ledger \in Seq(LedgerRow) /\ Len(ledger) \in Nat /\ DOMAIN ledger = 1..Len(ledger)
      BY LenProperties DEF TypeOK
    <3>3. CASE Len(ledger) > len
      <4>1. len \in Int /\ 1 \in Int /\ \A k \in 1..len : ledger[k] \in LedgerRow
        BY <3>2, <3>3, ElementOfSeq
      <4>2. /\ SubSeq(ledger, 1, len) \in Seq(LedgerRow)
            /\ Len(SubSeq(ledger, 1, len)) = IF 1 <= len THEN len - 1 + 1 ELSE 0
            /\ \A k \in 1..(len - 1 + 1) : SubSeq(ledger, 1, len)[k] = ledger[1 + k - 1]
        BY <4>1, SubSeqProperties
      <4>3. ledger' = SubSeq(ledger, 1, len)
        BY <3>1, <3>3
      <4>4. Len(ledger') = len
        BY <4>2, <4>3
      <4>5. DOMAIN ledger' = 1..len
        BY <4>2, <4>3, <4>4, LenProperties
      <4>6. \A k \in 1..len : ledger'[k] = ledger[k]
        BY <4>2, <4>3
      <4> QED BY <3>2, <3>3, <4>5, <4>6 DEF LedgerKept
    <3>4. CASE ~(Len(ledger) > len)
      BY <3>1, <3>4 DEF LedgerKept
    <3> QED BY <3>3, <3>4
  <2> QED BY <2>1, <2>2 DEF Mirrors
<1> QED BY <1>1, <1>2, <1>3, DebitKept DEF pays

LEMMA PayDurableDebits ==
  ASSUME TypeOK, Debits, PayDurable
  PROVE  Debits'
<1>0. PICK b \in Invoice : \E n :
        /\ durInvoice[b] = "DUE" /\ durInvoice' = [durInvoice EXCEPT ![b] = "PAID"]
        /\ durLedger' = durLedger \cup {[user |-> Owner[b], seq |-> n + 1, amount |-> -Due, by |-> b]}
        /\ (paying' = paying \cup {b} \/ paying' = paying)
        /\ UNCHANGED <<ledger, invoice>>
  BY DEF PayDurable, MayPay
<1>1. PICK n :
        /\ durInvoice[b] = "DUE" /\ durInvoice' = [durInvoice EXCEPT ![b] = "PAID"]
        /\ durLedger' = durLedger \cup {[user |-> Owner[b], seq |-> n + 1, amount |-> -Due, by |-> b]}
        /\ (paying' = paying \cup {b} \/ paying' = paying)
        /\ UNCHANGED <<ledger, invoice>>
  BY <1>0
<1> SUFFICES ASSUME NEW i \in Invoice PROVE DebitOK(i)'
  BY DEF Debits
<1>2. DebitOK(i)
  BY DEF Debits
<1>3. CASE i # b
  <2>1. RowsOf(i)' = RowsOf(i)
    BY <1>1, <1>3 DEF RowsOf
  <2>2. durInvoice'[i] = durInvoice[i]
    BY <1>1, <1>3 DEF TypeOK
  <2>3. LedgerKept(i)
    BY <1>1 DEF LedgerKept
  <2> QED BY <1>1, <1>2, <1>3, <2>1, <2>2, <2>3, DebitKept
<1>4. CASE i = b
  <2>1. RowsOf(i) = {}
    BY <1>1, <1>2, <1>4 DEF DebitOK
  <2>2. PICK row : durLedger' = durLedger \cup {row} /\ row.by = i
    <3> DEFINE row == [user |-> Owner[b], seq |-> n + 1, amount |-> -Due, by |-> b]
    <3>1. durLedger' = durLedger \cup {row} /\ row.by = i
      BY <1>1, <1>4
    <3> QED BY <3>1
  <2>3. RowsOf(i)' = {row}
    BY <2>1, <2>2 DEF RowsOf
  <2>4. durInvoice'[i] = "PAID"
    BY <1>1, <1>4 DEF TypeOK
  <2> QED BY <1>1, <1>2, <2>3, <2>4 DEF DebitOK
<1> QED BY <1>3, <1>4

LEMMA PayLocalDebits ==
  ASSUME TypeOK, Debits, PayLocal
  PROVE  Debits'
<1>1. PICK b \in paying :
        /\ paying' = paying \ {b} /\ UNCHANGED <<durLedger, durInvoice>>
        /\ \/ /\ invoice[b] = "DUE" /\ invoice' = [invoice EXCEPT ![b] = "PAID"]
              /\ ledger' = Append(ledger, [user |-> Owner[b], seq |-> Count(Owner[b]) + 1, amount |-> -Due, by |-> b])
           \/ UNCHANGED <<invoice, ledger>>
  BY DEF PayLocal, LocalFunds
<1> SUFFICES ASSUME NEW i \in Invoice PROVE DebitOK(i)'
  BY DEF Debits
<1>2. DebitOK(i) /\ RowsOf(i)' = RowsOf(i) /\ durInvoice'[i] = durInvoice[i] /\ (i \in paying' => i \in paying)
  BY <1>1 DEF Debits, RowsOf
<1>3. CASE UNCHANGED <<invoice, ledger>>
  BY <1>2, <1>3, DebitKept DEF LedgerKept
<1>4. CASE /\ invoice[b] = "DUE" /\ invoice' = [invoice EXCEPT ![b] = "PAID"]
           /\ ledger' = Append(ledger, [user |-> Owner[b], seq |-> Count(Owner[b]) + 1, amount |-> -Due, by |-> b])
  <2>1. b \in Invoice /\ Owner[b] \in User /\ -Due \in Int /\ Count(Owner[b]) + 1 \in Nat
    BY CountIsNat, Constants DEF TypeOK
  <2>2. PICK row \in LedgerRow : ledger' = Append(ledger, row) /\ row.by = b
    <3>1. [user |-> Owner[b], seq |-> Count(Owner[b]) + 1, amount |-> -Due, by |-> b] \in LedgerRow
      BY <2>1 DEF LedgerRow
    <3> QED BY <1>4, <3>1
  <2>3. /\ \A k \in DOMAIN ledger' : \/ k \in DOMAIN ledger /\ ledger'[k] = ledger[k]
                                     \/ k = Len(ledger) + 1 /\ ledger'[k] = row
        /\ Len(ledger) + 1 \notin DOMAIN ledger
    BY <2>2, LedgerAdded
  <2>4. CASE i # b
    <3>1. LedgerKept(i)
      BY <2>2, <2>3, <2>4 DEF LedgerKept
    <3>2. invoice'[i] = invoice[i]
      BY <1>4, <2>4 DEF TypeOK
    <3> QED BY <1>2, <3>1, <3>2, DebitKept
  <2>5. CASE i = b
    <3>1. \A k \in DOMAIN ledger : ledger[k].by # i
      BY <1>2, <1>4, <2>5 DEF DebitOK
    <3>2. \A k \in DOMAIN ledger' : ledger'[k].by = i => k = Len(ledger) + 1
      BY <2>3, <3>1
    <3>3. invoice'[i] = "PAID"
      BY <1>4, <2>5 DEF TypeOK
    <3>4. durInvoice'[i] = "PAID"
      BY <1>1, <1>2, <2>5 DEF DebitOK
    <3> QED BY <1>2, <3>2, <3>3, <3>4 DEF DebitOK
  <2> QED BY <2>4, <2>5
<1> QED BY <1>1, <1>3, <1>4

LEMMA RestartDebits ==
  ASSUME TypeOK, Debits, Restart
  PROVE  Debits'
<1>1. /\ ledger' = SetToSeq(durLedger) /\ invoice' = durInvoice /\ paying' = {}
      /\ UNCHANGED <<durLedger, durInvoice>>
  BY DEF Restart
<1> SUFFICES ASSUME NEW i \in Invoice PROVE DebitOK(i)'
  BY DEF Debits
<1>2. DebitOK(i) /\ RowsOf(i)' = RowsOf(i)
  BY <1>1 DEF Debits, RowsOf
<1>3. /\ ledger' \in Seq(durLedger)
      /\ \A j, k \in DOMAIN ledger' : ledger'[j] = ledger'[k] => j = k
  BY <1>1, Listed DEF TypeOK
<1>4. \A k \in DOMAIN ledger' : ledger'[k] \in durLedger
  BY <1>3, LenProperties, ElementOfSeq
<1>5. \A k \in DOMAIN ledger' : ledger'[k].by = i => ledger'[k] \in RowsOf(i)
  BY <1>4 DEF RowsOf
<1>6. \A j, k \in DOMAIN ledger' : ledger'[j].by = i /\ ledger'[k].by = i => j = k
  BY <1>2, <1>3, <1>5 DEF DebitOK
<1>7. \A k \in DOMAIN ledger' : ledger'[k].by = i => invoice'[i] = "PAID"
  BY <1>1, <1>2, <1>5 DEF DebitOK
<1> QED BY <1>1, <1>2, <1>6, <1>7 DEF DebitOK

LEMMA DebitsKept ==
  ASSUME TypeOK, Credits, Debits, [Next]_vars
  PROVE  Debits'
<1>1. ASSUME UNCHANGED <<ledger, durLedger, pays>> PROVE Debits'
  BY <1>1 DEF Debits, DebitOK, RowsOf, pays
<1>2. CASE GetsLate \/ Challenge \/ LinkWallet \/ UnlinkWallet \/ CreateTopupIntent \/ AskSettle \/ UNCHANGED vars
  BY <1>1, <1>2 DEF GetsLate, Challenge, LinkWallet, UnlinkWallet, CreateTopupIntent, AskSettle, vars, money
<1>3. CASE PlainTopup
  <2>1. PICK u \in User : Topup(u, "plain") /\ UNCHANGED pays
    BY <1>3 DEF PlainTopup
  <2> QED BY <2>1, TopupDebits
<1>4. ASSUME NEW i \in Intent, RunSettle(i) PROVE Debits'
  <2>1. intent[i].status = "PENDING" /\ Topup(intent[i].user, i) /\ UNCHANGED pays
    BY <1>4 DEF RunSettle, MaySettle
  <2>2. intent[i].user \in User
    BY <2>1, PendingHasUser
  <2> QED BY <2>1, <2>2, TopupDebits
<1>5. ASSUME NEW i \in Intent, RefuseSettle(i) PROVE Debits'
  BY <1>1, <1>5 DEF RefuseSettle, money
<1> QED BY <1>2, <1>3, <1>4, <1>5, MirrorDebits, PayDurableDebits, PayLocalDebits, RestartDebits DEF Next, Settles

LEMMA LinksKept ==
  ASSUME TypeOK, Credits, Links, [Next]_vars
  PROVE  Links'
<1>1. CASE GetsLate \/ Challenge \/ CreateTopupIntent \/ AskSettle \/ PayDurable \/ PayLocal \/ UNCHANGED vars
  BY <1>1, LinksSame DEF GetsLate, Challenge, CreateTopupIntent, AskSettle, PayDurable, PayLocal, vars, links
<1>2. CASE PlainTopup
  <2>1. PICK u \in User : Topup(u, "plain") /\ UNCHANGED links
    BY <1>2 DEF PlainTopup
  <2> QED BY <2>1, TopupSteps, TopupLinks DEF links
<1>3. ASSUME NEW i \in Intent, RunSettle(i) PROVE Links'
  <2>1. intent[i].status = "PENDING" /\ Topup(intent[i].user, i) /\ UNCHANGED <<link, durLink, misnamed>>
    BY <1>3 DEF RunSettle, MaySettle
  <2>2. intent[i].user \in User
    BY <2>1, PendingHasUser
  <2> QED BY <2>1, <2>2, TopupSteps, TopupLinks
<1>4. ASSUME NEW i \in Intent, RefuseSettle(i) PROVE Links'
  BY <1>4, LinksSame DEF RefuseSettle
<1>5. CASE TopupMirrored \/ TopupUndone
  BY <1>5, TopupLinks DEF TopupMirrored, TopupUndone, links
<1> QED BY <1>1, <1>2, <1>3, <1>4, <1>5, LinkWalletLinks, UnlinkWalletLinks, LinkMirroredLinks, LinkUndoneLinks,
           RestartLinks DEF Next, Settles, Mirrors

(* ------------------------- the invariant holds ------------------------- *)
LEMMA InitIInv ==
  ASSUME Init
  PROVE  IInv
<1> DEFINE row == [u \in User |-> [user |-> u, seq |-> 1, amount |-> Welcome, by |-> "plain"]]
<1>1. IsFiniteSet(durLedger)
  <2>1. row \in Surjection(User, durLedger)
    BY DEF Init, Surjection
  <2> QED BY <2>1, FS_Surjection, Constants
<1>2. durLedger \in SUBSET LedgerRow /\ \A r \in durLedger : r.by = "plain"
  BY Constants DEF Init, LedgerRow
<1>3. ledger \in Seq(durLedger)
  BY <1>1, Listed DEF Init
<1>4. ledger \in Seq(LedgerRow)
  BY <1>2, <1>3
<1>5. \A k \in DOMAIN ledger : ledger[k].by = "plain"
  BY <1>2, <1>3, LenProperties, ElementOfSeq
<1>6. mirror = <<>> /\ mirror \in Seq(MirrorJob)
  BY EmptySeq DEF Init
<1>7. NoIntent \in IntentRow
  BY DEF IntentRow
<1>8. TypeOK
  BY <1>1, <1>2, <1>4, <1>6, <1>7, Constants DEF Init, TypeOK
<1>9. \A i, k : ~JobOf(i, k)
  BY <1>6 DEF JobOf
<1>10. Credits
  <2> SUFFICES ASSUME NEW i \in Intent PROVE CreditOK(i)
    BY DEF Credits
  <2>1. RowsOf(i) = {}
    BY <1>2, Constants DEF RowsOf
  <2>2. ~SettleJob(i)
    BY <1>9, SettleJobIs
  <2>3. intent[i].status = "NONE"
    BY DEF Init, NoIntent
  <2> QED BY <1>9, <2>1, <2>2, <2>3 DEF CreditOK
<1>11. Debits
  <2> SUFFICES ASSUME NEW i \in Invoice PROVE DebitOK(i)
    BY DEF Debits
  <2>1. RowsOf(i) = {} /\ \A k \in DOMAIN ledger : ledger[k].by # i
    BY <1>2, <1>5, Constants DEF RowsOf
  <2>2. invoice[i] = "DUE" /\ durInvoice[i] = "DUE" /\ paying = {}
    BY DEF Init
  <2> QED BY <2>1, <2>2 DEF DebitOK
<1>12. Links
  <2>1. \A kind, a, k : ~At(kind, a, k)
    BY <1>6 DEF At
  <2>2. \A a \in Address : link[a] = None /\ durLink[a] = None
    BY DEF Init
  <2> QED BY <2>1, <2>2 DEF Links, Noted, LinkOK, LinkComing
<1> QED BY <1>8, <1>10, <1>11, <1>12 DEF IInv

LEMMA StepIInv ==
  ASSUME IInv, [Next]_vars
  PROVE  IInv'
<1>1. TypeOK /\ Credits /\ Debits /\ Links
  BY DEF IInv
<1>2. TypeOK'
  BY <1>1, TypesKept
<1>3. Credits' /\ Debits' /\ Links'
  BY <1>1, <1>2, CreditsKept, DebitsKept, LinksKept
<1> QED BY <1>2, <1>3 DEF IInv

(* A set of which any two elements are equal has at most one.              *)
LEMMA AtMostOne ==
  ASSUME NEW S, \A r, q \in S : r = q
  PROVE  Cardinality(S) = (IF S = {} THEN 0 ELSE 1)
<1>1. CASE S = {}
  BY <1>1, FS_EmptySet
<1>2. CASE S # {}
  <2>1. PICK x : S = {x}
    BY <1>2
  <2> QED BY <1>2, <2>1, FS_Singleton
<1> QED BY <1>1, <1>2

LEMMA CreditsInv ==
  ASSUME Credits
  PROVE  CreditedOnce
<1> SUFFICES ASSUME NEW i \in Intent
             PROVE  Cardinality(RowsOf(i)) <= 1 /\ (intent[i].status = "SETTLED" => RowsOf(i) # {})
  BY DEF CreditedOnce
<1>1. CreditOK(i)
  BY DEF Credits
<1>2. Cardinality(RowsOf(i)) = (IF RowsOf(i) = {} THEN 0 ELSE 1)
  BY <1>1, AtMostOne DEF CreditOK
<1> QED BY <1>1, <1>2 DEF CreditOK

LEMMA DebitsInv ==
  ASSUME TypeOK, Debits
  PROVE  PaidOnce
<1> SUFFICES ASSUME NEW i \in Invoice
             PROVE  /\ Cardinality(RowsOf(i)) = (IF durInvoice[i] = "PAID" THEN 1 ELSE 0)
                    /\ Cardinality({k \in DOMAIN ledger : ledger[k].by = i}) <= 1
                    /\ invoice[i] = "PAID" => durInvoice[i] = "PAID"
  BY DEF PaidOnce
<1>1. DebitOK(i)
  BY DEF Debits
<1>2. Cardinality(RowsOf(i)) = (IF RowsOf(i) = {} THEN 0 ELSE 1)
  BY <1>1, AtMostOne DEF DebitOK
<1> DEFINE mine == {k \in DOMAIN ledger : ledger[k].by = i}
<1>3. \A j, k \in mine : j = k
  BY <1>1 DEF DebitOK
<1>4. Cardinality(mine) = (IF mine = {} THEN 0 ELSE 1)
  BY <1>3, AtMostOne
<1>5. Cardinality(mine) <= 1
  BY <1>4
<1> QED BY <1>1, <1>2, <1>5 DEF DebitOK

(* The inductive invariant holds in every reachable state.                 *)
THEOREM WalletInvariant == Spec => []IInv
<1>1. Init => IInv
  BY InitIInv
<1>2. IInv /\ [Next]_vars => IInv'
  BY StepIInv
<1> QED BY <1>1, <1>2, PTL DEF Spec

(* However settlements of one signed intent interleave with the mirror,    *)
(* its failure, expiry and restarts, Oracle holds at most one row for it,  *)
(* and holds it once the driver has been told it is settled                *)
(* (settleTopup, store.js; the mirrors of oracle.js).                      *)
THEOREM SignatureCreditsOnce == Spec => []CreditedOnce
<1>1. IInv => CreditedOnce
  BY CreditsInv DEF IInv
<1> QED BY <1>1, WalletInvariant, PTL

(* An invoice is debited once in Oracle and at most once in memory, and    *)
(* memory never reports paid what Oracle does not, though the answer of    *)
(* the payment may be lost and the API may restart (payInvoice).           *)
THEOREM InvoicePaidOnce == Spec => []PaidOnce
<1>1. IInv => PaidOnce
  BY DebitsInv DEF IInv
<1> QED BY <1>1, WalletInvariant, PTL

(* Whenever no link or unlink is under way, the links a restart would find *)
(* in wallet_link are those in memory (linkWallet, unlinkWallet), but for  *)
(* addresses whose link request named another address or none, which the   *)
(* mirror goes by (oracle.js:916-919).                                     *)
THEOREM LinksStayMirrored == Spec => []LinksMirrored
<1>1. IInv => LinksMirrored
  BY LinksInv DEF IInv
<1> QED BY <1>1, WalletInvariant, PTL
=============================================================================
