------------------------------ MODULE Console -------------------------------
(***************************************************************************)
(* One tab of the web console: its calls to the API, the refresh they      *)
(* share, and logging out (src/apps/web/src/lib/ui.js), against a server   *)
(* that rotates the refresh token and burns the family of a used one       *)
(* (routes.js, middleware/auth.js).                                        *)
(*                                                                         *)
(* A refresh token is the newest of its family, used or absent.  A request *)
(* may fail on its way there, or on its way back.                          *)
(***************************************************************************)
EXTENDS FiniteSets

CONSTANTS
  Call,  \* calls to the API the page may have under way
  Nil    \* nothing, nobody

Cookie == {"newest", "used", "absent"}

Ask == [at : {"server", "answered", "refused"}, cookie : Cookie]

ASSUME NilAssumption == Nil \notin Call \cup Cookie \cup Ask

VARIABLES
  token,      \* vh_token: good, expired or absent
  call,       \* calls under way: step, bearer, and whether a 401 is retried
  refreshing, \* the call that started the refresh in flight
  ask,        \* POST /auth/refresh per call that started one
  leaving,    \* POST /auth/logout, once sent
  jar,        \* the refresh cookie
  family,     \* good, or why the server revoked it
  lost        \* an answer that rotated the token never arrived

conVars == <<token, call, refreshing, ask, leaving, jar, family, lost>>

NoCall == [step |-> "idle"]

ConInit ==
  /\ token = "good" /\ jar = "newest" /\ family = "good" /\ lost = FALSE
  /\ call = [c \in Call |-> NoCall]
  /\ refreshing = Nil /\ leaving = Nil
  /\ ask = [c \in Call |-> Nil]

-----------------------------------------------------------------------------
(* api: the bearer is read when the request is sent; without a token there *)
(* is none, and the answer may be a 401 all the same.                      *)
Sent(retry, bearer) == [step |-> "sent", retry |-> retry, bearer |-> bearer]

Resent(bearer) == Sent(FALSE, bearer)

Send(c) ==
  /\ call[c] = NoCall
  /\ call' = [call EXCEPT ![c] = Sent(TRUE, token)]
  /\ UNCHANGED <<token, refreshing, ask, leaving, jar, family, lost>>

(* Mutant of Starts: every 401 refreshes for itself.                       *)
StartsAlways(c) == c

(* refreshAccessToken: the refresh this call will wait for.                *)
Starts(c) == IF refreshing = Nil THEN c ELSE refreshing

(* authRequired: the bearer has expired, or there is none.                 *)
Unauthorized(c) == call[c].bearer # "good"

(* Answered, or failed on the way.  A 401 that may be retried waits for    *)
(* the refresh in flight, or starts one with the cookie of the jar.        *)
Refused(c) ==
  /\ call[c].step = "sent" /\ Unauthorized(c) /\ call[c].retry
  /\ LET d == Starts(c)
     IN  /\ call' = [call EXCEPT ![c] = [step |-> "waits", for |-> d]]
         /\ refreshing' = d
         /\ ask' = IF d = c THEN [ask EXCEPT ![c] = [at |-> "server", cookie |-> jar]] ELSE ask
  /\ UNCHANGED <<token, leaving, jar, family, lost>>

Answered(c) ==
  /\ call[c].step = "sent" /\ call' = [call EXCEPT ![c] = NoCall]
  /\ UNCHANGED <<token, refreshing, ask, leaving, jar, family, lost>>

-----------------------------------------------------------------------------
(* The server.  What was newest is used for everyone else who holds it.    *)
Aged(cookie) == IF cookie = "newest" THEN "used" ELSE cookie
Revoked(why) == IF family = "good" THEN why ELSE family

Rotate(d) ==
  /\ ask[d] = [at |-> "server", cookie |-> "newest"] /\ family = "good"
  /\ ask' = [c \in Call |->
       IF c = d THEN [at |-> "answered", cookie |-> "newest"]
       ELSE IF ask[c] = Nil THEN Nil ELSE [ask[c] EXCEPT !.cookie = Aged(@)]]
  /\ jar' = Aged(jar)
  /\ leaving' = IF leaving = Nil THEN Nil ELSE Aged(leaving)
  /\ UNCHANGED <<token, call, refreshing, family, lost>>

Refuse(d) ==
  /\ ask[d] # Nil /\ ask[d].at = "server"
  /\ ask[d].cookie = "newest" => family # "good"
  /\ family' = IF ask[d].cookie = "absent" THEN family ELSE Revoked("reuse")
  /\ ask' = [ask EXCEPT ![d].at = "refused"]
  /\ UNCHANGED <<token, call, refreshing, leaving, jar, lost>>

-----------------------------------------------------------------------------
(* The refresh is over for every call that waited for it.                  *)
Over(d, next) ==
  /\ call' = [c \in Call |-> IF call[c] = [step |-> "waits", for |-> d] THEN next ELSE call[c]]
  /\ ask' = [ask EXCEPT ![d] = Nil]
  /\ refreshing' = IF refreshing = d THEN Nil ELSE refreshing

Refreshed(d) ==
  /\ ask[d] # Nil /\ ask[d].at = "answered"
  /\ jar' = ask[d].cookie /\ token' = "good"
  /\ Over(d, Resent("good"))
  /\ UNCHANGED <<leaving, family, lost>>

(* The cookie stays where it is; only the access token goes.               *)
SignedOut(d) ==
  /\ ask[d] # Nil /\ ask[d].at = "refused"
  /\ token' = "absent"
  /\ Over(d, NoCall)
  /\ UNCHANGED <<leaving, jar, family, lost>>

NoAnswer(d) ==
  /\ ask[d] # Nil
  /\ lost' = (lost \/ ask[d].at = "answered")
  /\ Over(d, NoCall)
  /\ UNCHANGED <<token, leaving, jar, family>>

-----------------------------------------------------------------------------
(* logout, and a login after it.                                           *)
Leave ==
  /\ leaving = Nil /\ token # "absent" /\ leaving' = jar
  /\ UNCHANGED <<token, call, refreshing, ask, jar, family, lost>>

(* The family goes whether the cookie is the newest or a used one.         *)
Left(reached, heard) ==
  /\ leaving # Nil /\ leaving' = Nil
  /\ heard => reached
  /\ family' = IF reached /\ leaving # "absent" THEN Revoked("logout") ELSE family
  /\ jar' = IF heard THEN "absent" ELSE jar
  /\ token' = "absent"
  /\ UNCHANGED <<call, refreshing, ask, lost>>

(* The login page, with nothing of the earlier session on its way.         *)
Enter ==
  /\ token = "absent" /\ leaving = Nil /\ \A c \in Call : ask[c] = Nil
  /\ token' = "good" /\ jar' = "newest" /\ family' = "good" /\ lost' = FALSE
  /\ UNCHANGED <<call, refreshing, ask, leaving>>

(* Fifteen minutes.                                                        *)
Expire ==
  /\ token = "good" /\ token' = "expired"
  /\ call' = [c \in Call |-> IF call[c].step = "sent" /\ call[c].bearer = "good"
                             THEN [call[c] EXCEPT !.bearer = "expired"] ELSE call[c]]
  /\ UNCHANGED <<refreshing, ask, leaving, jar, family, lost>>

Network(c) == Refused(c) \/ Answered(c) \/ Rotate(c) \/ Refuse(c) \/ Refreshed(c) \/ SignedOut(c) \/ NoAnswer(c)

ConNext ==
  \/ \E c \in Call : Send(c) \/ Network(c)
  \/ Leave \/ Enter \/ Expire
  \/ \E reached, heard \in BOOLEAN : Left(reached, heard)

-----------------------------------------------------------------------------
(* The console never burns its own session: the server sees a used refresh *)
(* token only after an answer that carried its successor got lost (ui.js:  *)
(* "One refresh in flight; everyone awaits it").                           *)
NoSelfReplay == family = "reuse" => lost
=============================================================================
