----------------------------- MODULE OcppCalls -----------------------------
(***************************************************************************)
(* The calls the management system sends to its charge points over OCPP:   *)
(* the registry of sockets (one per identity), the pending-call map, the   *)
(* answers, the deadline sweep, and what the three kinds of callers learn: *)
(*   "push"    SetChargingProfile; its audit row keeps the answer          *)
(*   "remote"  RemoteStart/RemoteStop; nobody waits for the answer         *)
(*   "command" the management suite; an HTTP request awaits the answer     *)
(*   "read"    a command whose answer carries no status                    *)
(* A frame is in the socket (OUT), answered (the answer is on its way      *)
(* back) or gone. A socket that closes loses what is in flight. A charge   *)
(* point reads only the connection it opened last.                         *)
(***************************************************************************)
EXTENDS Naturals, Sequences, FiniteSets

CONSTANTS
  CP,         \* charge points
  Kinds,      \* the kinds of call sent: a subset of the four above
  PushRate,   \* pushes one socket may carry in a minute (6 in the code)
  MaxSock,    \* bound: connections opened
  MaxCalls    \* bound: calls and refused pushes

ASSUME CallsAssumption ==
  /\ Kinds \subseteq {"push", "remote", "command", "read"}
  /\ {PushRate, MaxSock, MaxCalls} \subseteq Nat

VARIABLES
  sock,      \* the connections, oldest first: [cp, st, pushes]
  registry,  \* per charge point the socket commands go to, 0 if none
  online,    \* cp.status = 'ONLINE'
  using,     \* per charge point the socket it reads, 0 if none
  calls,     \* the calls, oldest first; a call's uid is its index
  letters,   \* the dead letters: <<uid, reason>>
  profile    \* per charge point the push it follows, 0 if none

vars == <<sock, registry, online, using, calls, letters, profile>>

Answers == {"Accepted", "Rejected", "CALLERROR", "NOSTATUS"}

Init ==
  /\ sock = <<>>
  /\ registry = [c \in CP |-> 0]
  /\ online = [c \in CP |-> FALSE]
  /\ using = [c \in CP |-> 0]
  /\ calls = <<>>
  /\ letters = {}
  /\ profile = [c \in CP |-> 0]

-----------------------------------------------------------------------------
(* Connections *)

\* A charge point dials in. A socket that still holds its identity is closed
\* and loses the slot at once; its close event comes later.
Connect(c) ==
  /\ Len(sock) < MaxSock
  /\ using[c] = 0
  /\ sock' = Append([s \in DOMAIN sock |->
                       IF s = registry[c] /\ sock[s].st = "OPEN"
                       THEN [sock[s] EXCEPT !.st = "CLOSING"] ELSE sock[s]],
                    [cp |-> c, st |-> "OPEN", pushes |-> 0])
  /\ registry' = [registry EXCEPT ![c] = Len(sock) + 1]
  /\ online' = [online EXCEPT ![c] = TRUE]
  /\ using' = [using EXCEPT ![c] = Len(sock) + 1]
  /\ UNCHANGED <<calls, letters, profile>>

\* The charge point gives its connection up; the server may learn of it late
\* or never.
Abandon(c) ==
  /\ using[c] # 0
  /\ using' = [using EXCEPT ![c] = 0]
  /\ UNCHANGED <<sock, registry, online, calls, letters, profile>>

OnWayBack(s) == {n \in DOMAIN calls : calls[n].sock = s /\ calls[n].frame \in Answers}

\* The peer's close frame, which comes behind the answers it sent.
PeerCloses(s) ==
  /\ sock[s].st = "OPEN" /\ using[sock[s].cp] # s /\ OnWayBack(s) = {}
  /\ sock' = [sock EXCEPT ![s].st = "CLOSING"]
  /\ UNCHANGED <<registry, online, using, calls, letters, profile>>

(* Mutant of OwnsSlot: any socket's close event takes its charge point off. *)
HasSlot(s) == registry[sock[s].cp] # 0

\* Only the socket that owns the slot deregisters the charge point.
OwnsSlot(s) == registry[sock[s].cp] = s

Closed(s) ==
  /\ sock[s].st # "CLOSED"
  /\ LET c == sock[s].cp IN
     /\ using' = IF using[c] = s THEN [using EXCEPT ![c] = 0] ELSE using
     /\ IF OwnsSlot(s)
        THEN /\ registry' = [registry EXCEPT ![c] = 0]
             /\ online' = [online EXCEPT ![c] = FALSE]
        ELSE UNCHANGED <<registry, online>>
  /\ sock' = [sock EXCEPT ![s].st = "CLOSED"]
  /\ calls' = [n \in DOMAIN calls |->
                 IF n \in OnWayBack(s) THEN [calls[n] EXCEPT !.frame = "GONE"] ELSE calls[n]]
  /\ UNCHANGED <<letters, profile>>

-----------------------------------------------------------------------------
(* Sending *)

\* The socket a call to c goes out on: registered and still open.
Reachable(c) == registry[c] # 0 /\ sock[registry[c]].st = "OPEN"

Awaited(kind) == kind \in {"command", "read"}

NewCall(c, kind) ==
  [cp |-> c, kind |-> kind, sock |-> registry[c], frame |-> "OUT", pending |-> TRUE,
   ack |-> "", told |-> IF Awaited(kind) THEN "WAITS" ELSE ""]

\* A push the rate governor stops has its audit row but no frame and no call.
UnsentPush(c) == [NewCall(c, "push") EXCEPT !.frame = "UNSENT", !.pending = FALSE]

CountPush(c) == sock' = [sock EXCEPT ![registry[c]].pushes = @ + 1]

SendPush(c) ==
  /\ "push" \in Kinds /\ Len(calls) < MaxCalls /\ Reachable(c)
  /\ CountPush(c)
  /\ calls' = Append(calls, NewCall(c, "push"))
  /\ UNCHANGED <<registry, online, using, letters, profile>>

\* The earlier pushes of the socket that fall in the last minute: any number.
RefusePush(c) ==
  /\ "push" \in Kinds /\ Len(calls) < MaxCalls /\ Reachable(c)
  /\ sock[registry[c]].pushes >= PushRate
  /\ CountPush(c)
  /\ calls' = Append(calls, UnsentPush(c))
  /\ letters' = letters \cup {<<Len(calls) + 1, "RATE_LIMITED">>}
  /\ UNCHANGED <<registry, online, using, profile>>

\* A call that leaves no audit row goes out.
SendCall(c, kind) ==
  /\ kind \in Kinds /\ Len(calls) < MaxCalls /\ Reachable(c)
  /\ calls' = Append(calls, NewCall(c, kind))
  /\ UNCHANGED <<sock, registry, online, using, letters, profile>>

\* RemoteStart and RemoteStop.
SendRemote(c) == SendCall(c, "remote")

SendCommand(c) == \E kind \in {"command", "read"} : SendCall(c, kind)

-----------------------------------------------------------------------------
(* The charge point *)

NextFrame(s) == {n \in DOMAIN calls : /\ calls[n].sock = s /\ calls[n].frame = "OUT"
                                      /\ \A k \in 1..(n - 1) : calls[k].sock = s => calls[k].frame # "OUT"}

\* It reads the next frame and answers, or does not. What it accepts it does;
\* what it rejects it does not; otherwise it may have.
Read(c, ans) ==
  /\ using[c] # 0
  /\ \E n \in NextFrame(using[c]), obeys \in BOOLEAN :
       /\ ans = "Accepted" => obeys
       /\ ans \in {"Rejected", "CALLERROR"} => ~obeys
       /\ calls' = [calls EXCEPT ![n].frame = IF ans = "GONE" THEN "GONE" ELSE ans]
       /\ profile' = IF obeys /\ calls[n].kind = "push" THEN [profile EXCEPT ![c] = n] ELSE profile
  /\ UNCHANGED <<sock, registry, online, using, letters>>

-----------------------------------------------------------------------------
(* The answers *)

\* The answer must come from the charge point that was sent the call.
FromThisCp(n, s) == calls[n].cp = sock[s].cp

\* The answer as the audit row and the dead letters record it.
AckOf(n, ans) == IF ans = "NOSTATUS"
                 THEN IF calls[n].kind = "read" THEN "RESULT" ELSE "MALFORMED"
                 ELSE ans

\* What the awaiting request is told.
ToldOf(ack) == CASE ack \in {"Accepted", "RESULT"} -> "OK"
                 [] ack = "Rejected" -> "REJECTED"
                 [] OTHER -> "FAILED"

(* Mutant of Settled: a withdrawn or swept call leaves the request waiting. *)
SettledSilently(call, ack) ==
  [call EXCEPT !.pending = FALSE,
               !.ack = IF call.kind = "push" THEN ack ELSE @,
               !.told = IF @ = "WAITS" /\ ack # "TIMEOUT" THEN ToldOf(ack) ELSE @]

\* The call once its answer, or the lack of one, is known.
Settled(call, ack) ==
  [call EXCEPT !.pending = FALSE,
               !.ack = IF call.kind = "push" THEN ack ELSE @,
               !.told = IF @ = "WAITS" THEN ToldOf(ack) ELSE @]

(* Mutant of IsPending: an answer is taken whether or not it is still awaited. *)
PendingOnce(call) == call.kind # ""

\* The call is in the pending-call map.
IsPending(call) == call.pending

\* handleCsmsResult, for an answer ans to call n on socket s when the calls
\* are cs: an answer to no pending call, or from another charge point, is
\* dropped; a poor one leaves a dead letter.
HandleResult(cs, n, s, ans) ==
  LET ack == AckOf(n, ans)
      taken == IsPending(cs[n]) /\ FromThisCp(n, s) IN
  /\ calls' = IF taken THEN [cs EXCEPT ![n] = Settled(cs[n], ack)] ELSE cs
  /\ letters' = IF taken /\ ack \notin {"Accepted", "RESULT"}
                THEN letters \cup {<<n, ack>>} ELSE letters

\* An answer arrives, maybe while its socket is closing, maybe too late.
Receive(n) ==
  /\ calls[n].frame \in Answers
  /\ sock[calls[n].sock].st # "CLOSED"
  /\ HandleResult([calls EXCEPT ![n].frame = "GONE"], n, calls[n].sock, calls[n].frame)
  /\ UNCHANGED <<sock, registry, online, using, profile>>

\* A charge point answers a call it was never sent.
Stray(c, n, ans) ==
  /\ using[c] # 0 /\ calls[n].cp # c /\ calls[n].pending
  /\ HandleResult(calls, n, using[c], ans)
  /\ UNCHANGED <<sock, registry, online, using, profile>>

-----------------------------------------------------------------------------
(* Deadlines *)

\* sweepExpiredAcks takes the calls overdue by now, whoever sent them.
Sweep(overdue) ==
  /\ overdue \subseteq {n \in DOMAIN calls : calls[n].pending}
  /\ calls' = [n \in DOMAIN calls |->
                 IF n \in overdue THEN Settled(calls[n], "TIMEOUT") ELSE calls[n]]
  /\ letters' = letters \cup (overdue \X {"TIMEOUT"})
  /\ UNCHANGED <<sock, registry, online, using, profile>>

\* An awaited command has a timer of its own, which withdraws the call.
GiveUp(n) ==
  /\ calls[n].told = "WAITS"
  /\ calls' = [calls EXCEPT ![n] = Settled(calls[n], "TIMEOUT")]
  /\ UNCHANGED <<sock, registry, online, using, letters, profile>>

-----------------------------------------------------------------------------
Next ==
  \/ \E c \in CP : Connect(c) \/ Abandon(c) \/ SendPush(c) \/ RefusePush(c)
  \/ \E s \in DOMAIN sock : PeerCloses(s) \/ Closed(s)
  \/ \E c \in CP : SendRemote(c) \/ SendCommand(c)
  \/ \E c \in CP, ans \in Answers \cup {"GONE"} : Read(c, ans)
  \/ \E n \in DOMAIN calls : Receive(n) \/ GiveUp(n)
  \/ \E c \in CP, n \in DOMAIN calls, ans \in Answers : Stray(c, n, ans)
  \/ \E overdue \in SUBSET DOMAIN calls : Sweep(overdue)

Spec == Init /\ [][Next]_vars

\* Every deadline passes, and the sweep after it takes the call: a timer of the
\* process. No fairness of any connection or charge point.
FairSpec ==
  /\ Spec
  /\ \A n \in 1..MaxCalls :
       WF_vars(n \in DOMAIN calls /\ \E overdue \in SUBSET DOMAIN calls : n \in overdue /\ Sweep(overdue))

-----------------------------------------------------------------------------
(* Properties *)

\* The connections of c that the server has not seen closed.
Standing(c) == {s \in DOMAIN sock : sock[s].cp = c /\ sock[s].st # "CLOSED"}

\* However a charge point reconnects and in whatever order the close events
\* of its connections come, the registry holds the newest of them that stands,
\* no older one is still open, and the charge point is ONLINE exactly then
\* (gateway.js connection and close handlers).
NewestRegistered ==
  \A c \in CP :
    /\ online[c] <=> registry[c] # 0
    /\ registry[c] # 0 => /\ registry[c] \in Standing(c)
                          /\ \A s \in Standing(c) : s # registry[c] =>
                               s < registry[c] /\ sock[s].st = "CLOSING"
    /\ \A s \in Standing(c) : sock[s].st = "OPEN" => registry[c] = s

\* What a call's audit row or its awaiting request was once told stands: no
\* later answer, sweep or timer tells another story (handleCsmsResult,
\* sweepExpiredAcks, commands.send).
OutcomeStands ==
  [][\A n \in DOMAIN calls :
       /\ calls[n].ack # "" => calls'[n].ack = calls[n].ack
       /\ calls[n].told \notin {"", "WAITS"} => calls'[n].told = calls[n].told]_vars

\* Every call stops being pending, and every request that awaits one is told,
\* though charge points vanish and answers are lost.
CallsSettle ==
  \A n \in 1..MaxCalls : (n \in DOMAIN calls /\ calls[n].pending)
                           ~> (n \in DOMAIN calls /\ ~calls[n].pending /\ calls[n].told # "WAITS")
=============================================================================
