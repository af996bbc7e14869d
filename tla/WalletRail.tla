----------------------------- MODULE WalletRail -----------------------------
(***************************************************************************)
(* The prepaid wallet: signed top-ups (ADR-0016), plain top-ups, payments  *)
(* of invoices, and links of addresses, over Oracle                        *)
(* (src/apps/api/src/db/store.js, src/apps/api/src/db/oracle.js).          *)
(*                                                                         *)
(* Top-ups and links change the store in memory first and mirror the       *)
(* change to Oracle after it, one mirror at a time; a mirror that fails    *)
(* undoes the change.  Payments go to Oracle first.  A handler can be      *)
(* suspended between the two halves.                                       *)
(***************************************************************************)
EXTENDS Integers, Sequences, FiniteSets, SequencesExt

CONSTANTS
  User, Address, Invoice,
  Nonce,        \* the challenges that are ever issued
  Intent,       \* the top-up intents that are ever created
  None, Used,   \* a challenge not issued, or consumed; no user
  Owner,        \* [Invoice -> User]
  Due,          \* total of every invoice
  Credit,       \* amount of every top-up
  Welcome,      \* balance of every wallet at the start
  MaxPlain,     \* bound: unsigned top-ups
  MaxWait,      \* bound: settlements of one intent that wait at the same time
  MaxMirrors,   \* bound: mirrors under way when a link or an unlink starts one
  MaxFaults     \* bound: calls to Oracle that fail without having been refused

ASSUME WalletAssumption ==
  /\ {Due, Credit, Welcome} \subseteq Nat \ {0}
  /\ {MaxPlain, MaxWait, MaxMirrors, MaxFaults} \subseteq Nat
  /\ IsFiniteSet(User) /\ Owner \in [Invoice -> User] /\ {None, Used} \cap User = {} /\ None # Used
  /\ Invoice \cap Intent = {} /\ "plain" \notin Invoice \cup Intent

VARIABLES
  balance, ledger,        \* in memory: wallets and the ledger of all users
  durBalance, durLedger,  \* in Oracle: wallet_account and wallet_ledger
  invoice, durInvoice,    \* status of every invoice, in memory and in Oracle
  paying,                 \* payments Oracle has made and memory has not
  challenge,              \* what each nonce was issued for
  link, durLink,          \* who has linked each address
  misnamed,               \* history: addresses mirrored as their request named them, wrongly
  intent,                 \* [user, status] of every intent
  late,                   \* nonces and intents past their time to live
  settling,               \* requests in the key chain of each intent
  mirror,                 \* queue of the mirrors under way
  plain, faults

NoIntent == [user |-> None, status |-> "NONE"]

money == <<balance, ledger, durBalance, durLedger>>
pays  == <<invoice, durInvoice, paying>>
links == <<challenge, link, durLink, misnamed>>
vars  == <<money, pays, links, intent, late, settling, mirror, plain, faults>>

Count(u)   == Cardinality({k \in DOMAIN ledger : ledger[k].user = u})
DurSeqs(u) == {r.seq : r \in {x \in durLedger : x.user = u}}
Highest(S) == {n \in S : \A m \in S : m <= n}
SettleJob(i) == \E k \in 1..Len(mirror) : mirror[k].kind = "topup" /\ mirror[k].row.by = i

Init ==
  /\ balance = [u \in User |-> Welcome] /\ durBalance = balance
  /\ durLedger = {[user |-> u, seq |-> 1, amount |-> Welcome, by |-> "plain"] : u \in User}
  /\ ledger = SetToSeq(durLedger)
  /\ invoice = [i \in Invoice |-> "DUE"] /\ durInvoice = invoice /\ paying = {}
  /\ challenge = [n \in Nonce |-> None]
  /\ link = [a \in Address |-> None] /\ durLink = link /\ misnamed = {}
  /\ intent = [i \in Intent |-> NoIntent]
  /\ late = {} /\ settling = [i \in Intent |-> 0] /\ mirror = <<>>
  /\ plain = 0 /\ faults = 0

-----------------------------------------------------------------------------
(* pruneWalletAuth, the first thing every wallet request does.             *)
Pruned(c) == [n \in Nonce |-> IF n \in late /\ c[n] # None THEN Used ELSE c[n]]
Expired(s) == [i \in Intent |->
  IF i \in late /\ s[i].status = "PENDING"
  THEN [s[i] EXCEPT !.status = "EXPIRED"] ELSE s[i]]

(* The clock: a challenge or an intent outlives its time to live.          *)
GetsLate == \E x \in Nonce \cup Intent :
  /\ x \notin late
  /\ IF x \in Nonce THEN challenge[x] \notin {None, Used} ELSE intent[x] # NoIntent
  /\ late' = late \cup {x}
  /\ UNCHANGED <<money, pays, links, intent, settling, mirror, plain, faults>>

Challenge == \E u \in User, a \in Address, n \in Nonce :
  /\ challenge[n] = None
  /\ challenge' = [Pruned(challenge) EXCEPT ![n] = [user |-> u, address |-> a]]
  /\ intent' = Expired(intent)
  /\ UNCHANGED <<money, pays, link, durLink, misnamed, late, settling, mirror, plain, faults>>

(* The row linkWallet is about to write in memory, and the one its mirror  *)
(* takes it for: memory goes by the address a that was signed, the mirror  *)
(* by the address b the request names, None if it names none.              *)
LinkKind(u, a, b) ==
  LET known == link[a] = u
      taken == b \in Address /\ link[b] = u
  IN CASE known /\ taken   -> "relink"     \* UPDATE of the row Oracle has
       [] ~known /\ ~taken -> "link"       \* INSERT of a new one
       [] known /\ ~taken  -> "again"      \* INSERT under the number of the old one
       [] ~known /\ taken  -> "phantom"    \* UPDATE of a number Oracle has not

(* linkWallet: the challenge is consumed whether or not the signature is   *)
(* good and the address free.                                              *)
LinkWallet == \E n \in Nonce, good \in BOOLEAN, b \in Address \cup {None} :
  /\ challenge[n] \notin {None, Used} /\ Len(mirror) < MaxMirrors
  /\ challenge' = [Pruned(challenge) EXCEPT ![n] = Used]
  /\ intent' = Expired(intent)
  /\ LET u == challenge[n].user
         a == challenge[n].address
         kind == LinkKind(u, a, b)
     IN IF n \in late \/ ~good \/ link[a] \notin {None, u} THEN UNCHANGED <<link, misnamed, mirror>>
        ELSE /\ link' = [link EXCEPT ![a] = u]
             /\ misnamed' = IF kind \in {"again", "phantom"} THEN misnamed \cup {a} ELSE misnamed
             /\ mirror' = Append(mirror, [kind |-> kind, user |-> u, address |-> a])
  /\ UNCHANGED <<money, pays, durLink, late, settling, plain, faults>>

(* unlinkWallet: revoked in Oracle first.                                  *)
UnlinkWallet == \E a \in Address :
  /\ link[a] # None /\ Len(mirror) < MaxMirrors
  /\ mirror' = Append(mirror, [kind |-> "unlink", user |-> link[a], address |-> a])
  /\ UNCHANGED <<money, pays, links, intent, late, settling, plain, faults>>

CreateTopupIntent == \E i \in Intent, a \in Address :
  /\ intent[i] = NoIntent /\ link[a] # None
  /\ intent' = [Expired(intent) EXCEPT ![i] = [user |-> link[a], status |-> "PENDING"]]
  /\ challenge' = Pruned(challenge)
  /\ UNCHANGED <<money, pays, link, durLink, misnamed, late, settling, mirror, plain, faults>>

-----------------------------------------------------------------------------
(* topup: credited in memory, with the ledger's next number of the user;   *)
(* the mirror carries the balance and the length to restore.               *)
Topup(u, by) ==
  LET row == [user |-> u, seq |-> Count(u) + 1, amount |-> Credit, by |-> by]
  IN /\ balance' = [balance EXCEPT ![u] = @ + Credit]
     /\ ledger' = Append(ledger, row)
     /\ mirror' = Append(mirror, [kind |-> "topup", row |-> row, after |-> balance[u] + Credit,
                                  pre |-> balance[u], len |-> Len(ledger)])
     /\ UNCHANGED <<durBalance, durLedger>>

PlainTopup == \E u \in User :
  /\ plain < MaxPlain /\ plain' = plain + 1
  /\ Topup(u, "plain")
  /\ UNCHANGED <<pays, links, intent, late, settling, faults>>

(* settleTopup waits for the key of its intent; the body re-reads it.      *)
AskSettle == \E i \in Intent :
  /\ intent[i] # NoIntent /\ settling[i] < MaxWait
  /\ settling' = [settling EXCEPT ![i] = @ + 1]
  /\ UNCHANGED <<money, pays, links, intent, late, mirror, plain, faults>>

(* Mutant of MaySettle: the status is not re-read under the key.           *)
UnexpiredSettles(i) == intent[i].status # "GONE" /\ i \notin late

MaySettle(i) == intent[i].status = "PENDING" /\ i \notin late

RunSettle(i) ==
  /\ settling[i] > 0 /\ ~SettleJob(i) /\ MaySettle(i)
  /\ Topup(intent[i].user, i)
  /\ challenge' = Pruned(challenge) /\ intent' = Expired(intent)
  /\ UNCHANGED <<pays, link, durLink, misnamed, late, settling, plain, faults>>

(* Mutant of RefuseSettle: a body that throws keeps its key.               *)
RefusalKeepsKey(i) == settling[i] > 0 /\ ~SettleJob(i) /\ UNCHANGED vars

(* Settled, expired, or the signature does not match.                      *)
RefuseSettle(i) ==
  /\ settling[i] > 0 /\ ~SettleJob(i)
  /\ settling' = [settling EXCEPT ![i] = @ - 1]
  /\ challenge' = Pruned(challenge) /\ intent' = Expired(intent)
  /\ UNCHANGED <<money, pays, link, durLink, misnamed, late, mirror, plain, faults>>

-----------------------------------------------------------------------------
(* The mirror at the head of the chain.                                    *)
Job == Head(mirror)
SeqTaken == Job.row.seq \in DurSeqs(Job.row.user)

SettleEnds(done) ==
  LET i == Job.row.by
  IN IF i \notin Intent THEN UNCHANGED <<intent, settling>>
     ELSE /\ settling' = [settling EXCEPT ![i] = @ - 1]
          /\ intent' = IF done THEN [intent EXCEPT ![i].status = "SETTLED"] ELSE intent

TopupMirrored ==
  /\ mirror # <<>> /\ Job.kind = "topup" /\ ~SeqTaken
  /\ durLedger' = durLedger \cup {Job.row}
  /\ durBalance' = [durBalance EXCEPT ![Job.row.user] = Job.after]
  /\ SettleEnds(TRUE) /\ mirror' = Tail(mirror)
  /\ UNCHANGED <<balance, ledger, pays, links, late, plain, faults>>

(* Refused by the key of wallet_ledger, or failed: the undo restores the   *)
(* balance read before and cuts the ledger back.                           *)
TopupUndone ==
  /\ mirror # <<>> /\ Job.kind = "topup"
  /\ \/ SeqTaken /\ UNCHANGED faults
     \/ faults < MaxFaults /\ faults' = faults + 1
  /\ balance' = [balance EXCEPT ![Job.row.user] = Job.pre]
  /\ ledger' = IF Len(ledger) > Job.len THEN SubSeq(ledger, 1, Job.len) ELSE ledger
  /\ SettleEnds(FALSE) /\ mirror' = Tail(mirror)
  /\ UNCHANGED <<durBalance, durLedger, pays, links, late, plain>>

(* An address has one active row.  The number of an INSERT made again is   *)
(* free if the first one failed, not if its row was revoked meanwhile:     *)
(* that is left open.                                                      *)
Inserts == Job.kind \in {"link", "again"}

LinkMirrored ==
  /\ mirror # <<>>
  /\ \/ /\ Inserts /\ durLink[Job.address] = None
        /\ durLink' = [durLink EXCEPT ![Job.address] = Job.user] /\ UNCHANGED link
     \/ /\ Job.kind = "relink" /\ durLink[Job.address] = Job.user
        /\ UNCHANGED <<link, durLink>>
     \/ /\ Job.kind = "unlink" /\ durLink[Job.address] # None
        /\ durLink' = [durLink EXCEPT ![Job.address] = None]
        /\ link' = IF link[Job.address] = Job.user THEN [link EXCEPT ![Job.address] = None] ELSE link
  /\ mirror' = Tail(mirror)
  /\ UNCHANGED <<money, pays, challenge, misnamed, intent, late, settling, plain, faults>>

(* Mutant of LinkUndone: the row of a link that Oracle refused stays.      *)
LinkNotUndone ==
  /\ mirror # <<>> /\ Job.kind # "topup"
  /\ faults < MaxFaults /\ faults' = faults + 1 /\ mirror' = Tail(mirror)
  /\ UNCHANGED <<money, pays, links, intent, late, settling, plain>>

LinkUndone ==
  /\ mirror # <<>> /\ Job.kind # "topup"
  /\ \/ UNCHANGED faults /\ CASE Job.kind = "link"    -> durLink[Job.address] # None
                              [] Job.kind = "relink"  -> durLink[Job.address] # Job.user
                              [] Job.kind = "unlink"  -> durLink[Job.address] = None
                              [] Job.kind \in {"again", "phantom"} -> TRUE
     \/ faults < MaxFaults /\ faults' = faults + 1
  /\ link' = IF Inserts THEN [link EXCEPT ![Job.address] = None] ELSE link
  /\ mirror' = Tail(mirror)
  /\ UNCHANGED <<money, pays, challenge, durLink, misnamed, intent, late, settling, plain>>

-----------------------------------------------------------------------------
(* Mutant of MayPay: the status of the invoice is not read.                *)
FundsOnly(i) == durBalance[Owner[i]] >= Due

MayPay(i) == durInvoice[i] = "DUE" /\ durBalance[Owner[i]] >= Due

(* billing_pkg.pay_invoice under its row locks; the answer may get lost.   *)
PayDurable == \E i \in Invoice :
  LET u == Owner[i]
  IN /\ MayPay(i)
     /\ durInvoice' = [durInvoice EXCEPT ![i] = "PAID"]
     /\ durBalance' = [durBalance EXCEPT ![u] = @ - Due]
     /\ \E n \in Highest(DurSeqs(u)) :
          durLedger' = durLedger \cup {[user |-> u, seq |-> n + 1, amount |-> -Due, by |-> i]}
     /\ \/ paying' = paying \cup {i} /\ UNCHANGED faults
        \/ faults < MaxFaults /\ faults' = faults + 1 /\ UNCHANGED paying
     /\ UNCHANGED <<balance, ledger, invoice, links, intent, late, settling, mirror, plain>>

LocalFunds(i) == invoice[i] = "DUE" /\ balance[Owner[i]] >= Due

(* payInvoice in memory.  A refusal there leaves the invoice DUE, and the  *)
(* wrapper answers that Oracle has paid.                                   *)
PayLocal == \E i \in paying :
  LET u == Owner[i]
  IN /\ paying' = paying \ {i}
     /\ IF LocalFunds(i)
        THEN /\ invoice' = [invoice EXCEPT ![i] = "PAID"]
             /\ balance' = [balance EXCEPT ![u] = @ - Due]
             /\ ledger' = Append(ledger, [user |-> u, seq |-> Count(u) + 1, amount |-> -Due, by |-> i])
        ELSE UNCHANGED <<invoice, balance, ledger>>
     /\ UNCHANGED <<durBalance, durLedger, durInvoice, links, intent, late, settling, mirror, plain, faults>>

(* The API restarts: wallets, ledger, invoices and links are hydrated from *)
(* Oracle; challenges, intents and what was under way are gone.            *)
Restart ==
  /\ faults < MaxFaults /\ faults' = faults + 1
  /\ balance' = durBalance
  /\ ledger' = SetToSeq(durLedger)
  /\ invoice' = durInvoice /\ paying' = {} /\ link' = durLink /\ misnamed' = {}
  /\ challenge' = [n \in Nonce |-> IF challenge[n] = None THEN None ELSE Used]
  /\ intent' = [i \in Intent |-> IF intent[i] = NoIntent THEN NoIntent ELSE [intent[i] EXCEPT !.status = "GONE"]]
  /\ settling' = [i \in Intent |-> 0] /\ mirror' = <<>>
  /\ UNCHANGED <<durBalance, durLedger, durInvoice, durLink, late, plain>>

Mirrors == TopupMirrored \/ TopupUndone \/ LinkMirrored \/ LinkUndone
Settles == \E i \in Intent : RunSettle(i) \/ RefuseSettle(i)
Next == \/ GetsLate \/ Challenge \/ LinkWallet \/ UnlinkWallet \/ CreateTopupIntent
        \/ PlainTopup \/ AskSettle \/ Settles \/ Mirrors \/ PayDurable \/ PayLocal \/ Restart

Spec == Init /\ [][Next]_vars

(* The chain of mirrors and the key chains never stop; payments go on.     *)
FairSpec == Spec /\ WF_vars(Mirrors) /\ WF_vars(PayLocal) /\ \A i \in Intent : WF_vars(RunSettle(i) \/ RefuseSettle(i))

-----------------------------------------------------------------------------
(* "Exactly one credit per signature" (store.js:574-575, 719-723): however *)
(* settlements of one intent interleave with the mirror, with its failure, *)
(* with expiry and with a restart, Oracle holds at most one row for it,    *)
(* and holds it when the driver has been told that it is settled.          *)
RowsOf(i) == {r \in durLedger : r.by = i}
CreditedOnce == \A i \in Intent :
  /\ Cardinality(RowsOf(i)) <= 1
  /\ intent[i].status = "SETTLED" => RowsOf(i) # {}

(* An invoice is debited once, in Oracle and in memory, and memory never   *)
(* reports paid what Oracle does not (oracle.js:1480-1494).                *)
PaidOnce == \A i \in Invoice :
  /\ Cardinality(RowsOf(i)) = (IF durInvoice[i] = "PAID" THEN 1 ELSE 0)
  /\ Cardinality({k \in DOMAIN ledger : ledger[k].by = i}) <= 1
  /\ invoice[i] = "PAID" => durInvoice[i] = "PAID"

(* Links survive a restart: once no link or unlink is under way, memory    *)
(* and the active rows of wallet_link agree on every address whose mirror  *)
(* was chosen by the address that was signed (oracle.js:901-961).  The     *)
(* mirror goes by the address of the request (oracle.js:916-919), which    *)
(* docs/wallet.md says is not trusted: where that is absent or another, a  *)
(* refusal makes the undo drop a link that Oracle keeps, or nothing undoes *)
(* a link that Oracle never had.                                           *)
LinksStill == \A k \in DOMAIN mirror : mirror[k].kind = "topup"
LinksMirrored == LinksStill => \A a \in Address \ misnamed : link[a] = durLink[a]

(* Settlements that wait for an intent do not pile up behind its key: the  *)
(* key is passed on whether the mirror commits, fails or is refused.       *)
SettleAnswered == \A i \in Intent : settling[i] = MaxWait ~> settling[i] < MaxWait
=============================================================================
