-------------------------------- MODULE Poll --------------------------------
(***************************************************************************)
(* usePoll of the web console (src/apps/web/src/lib/ui.js): the effect     *)
(* that fetches what a page shows, once for every scope the page is turned *)
(* to, with its timers, its requests in flight and the tab's visibility.   *)
(*                                                                         *)
(* A tick fetches every panel of the page at once (Promise.all).  Its      *)
(* first error ends it, while the other requests stay on the wire, out of  *)
(* the reach of the abort that a repick sends.                             *)
(*                                                                         *)
(* An effect keeps the id of one timer, and keeps it after the timer went  *)
(* off; a tick asked for by the page may leave a second timer behind.      *)
(***************************************************************************)
EXTENDS Naturals, FiniteSets

CONSTANTS
  Panel,      \* the requests of one tick, and what each of them fills
  Scope,      \* stations or sessions the page is turned to
  NoScope,
  MaxEffect,  \* bound: effects in the life of the page
  MaxTimer    \* bound: timers of one effect

ASSUME PanelAssumption == Panel # {}

VARIABLES
  scope,   \* what the page is about; NoScope: not enabled
  screen,  \* whose payload each panel shows
  hidden,  \* document.hidden
  effect,  \* the effects, in the order they ran; all but the last are dead
  asked,   \* the page has asked for a tick of its own
  stray,   \* requests on the wire whose tick an error ended
  late     \* the panels such a request filled last

pollVars == <<scope, screen, hidden, effect, asked, stray, late>>

Effect == 1 .. MaxEffect

(* timers: set and neither cleared nor off; kept: whether `timer` holds an *)
(* id, and whether that timer is one of them; wire: the panels its tick    *)
(* still waits for, with the payload of fetch.                             *)
NoEffect == [ran |-> FALSE, dead |-> TRUE, timers |-> 0, kept |-> "none", fetch |-> NoScope,
             wire |-> {}]

Blank == [p \in Panel |-> NoScope]

PollInit ==
  /\ scope = NoScope /\ screen = Blank /\ hidden = FALSE /\ asked = FALSE
  /\ stray = {} /\ late = {}
  /\ effect = [e \in Effect |-> NoEffect]

Ran == {e \in Effect : effect[e].ran}
Alive == {e \in Ran : ~effect[e].dead}

-----------------------------------------------------------------------------
(* tick: never two at a time in one effect.  The page's latest closure     *)
(* fetches, so the payload is that of the scope of now.                    *)
Fetching(s, ef) == [ef EXCEPT !.fetch = s, !.wire = IF s = NoScope THEN {} ELSE Panel]

Ticked(ef) == IF ef.wire = {} THEN Fetching(scope, ef) ELSE ef

(* Mutant of Cleaned: the requests in flight are left alone.               *)
NotAborted(ef) == [ef EXCEPT !.dead = TRUE, !.timers = IF ef.kept = "set" THEN @ - 1 ELSE @,
                             !.kept = "off"]

(* Leaving an effect clears the timer it knows of and aborts its tick.     *)
Cleaned(ef) == Fetching(NoScope, NotAborted(ef))

(* The page is turned to another scope, or away.                           *)
Pick(s) ==
  /\ s # scope
  /\ s # NoScope => Cardinality(Ran) < MaxEffect
  /\ scope' = s
  /\ LET old == [e \in Effect |-> IF e \in Alive THEN Cleaned(effect[e]) ELSE effect[e]]
     IN  effect' = IF s = NoScope THEN old
                   ELSE [old EXCEPT ![Cardinality(Ran) + 1] =
                           Fetching(s, [NoEffect EXCEPT !.ran = TRUE, !.dead = FALSE])]
  /\ IF s = NoScope THEN UNCHANGED <<screen, late>> ELSE screen' = Blank /\ late' = {}
  /\ UNCHANGED <<hidden, asked, stray>>

(* A timer goes off: the one the effect knows of, or a forgotten one.      *)
Forgotten(ef) == IF ef.kept = "set" THEN ef.timers - 1 ELSE ef.timers

Off(ef) ==
  (IF ef.kept = "set" THEN {[ef EXCEPT !.timers = @ - 1, !.kept = "off"]} ELSE {})
    \cup (IF Forgotten(ef) > 0 THEN {[ef EXCEPT !.timers = @ - 1]} ELSE {})

TimerGoesOff(e) ==
  /\ \E off \in Off(effect[e]) : effect' = [effect EXCEPT ![e] = Ticked(off)]
  /\ UNCHANGED <<scope, screen, hidden, asked, stray, late>>

(* refresh, which the page may call at any time.                           *)
AskTick(e) ==
  /\ e \in Alive /\ effect[e].timers < MaxTimer
  /\ effect' = [effect EXCEPT ![e] = Ticked(@)]
  /\ asked' = TRUE
  /\ UNCHANGED <<scope, screen, hidden, stray, late>>

(* The tick is over; the next timer, unless the tab is hidden or the       *)
(* effect is over.                                                         *)
Rearmed(ef) ==
  IF ef.dead \/ hidden THEN Fetching(NoScope, ef)
  ELSE [Fetching(NoScope, ef) EXCEPT !.timers = @ + 1, !.kept = "set"]

(* One request is answered: its panel shows the payload.                   *)
Without(ef, p) == IF ef.wire = {p} THEN Rearmed(ef) ELSE [ef EXCEPT !.wire = @ \ {p}]

Answer(e, p) ==
  /\ p \in effect[e].wire
  /\ screen' = [screen EXCEPT ![p] = effect[e].fetch]
  /\ late' = late \ {p}
  /\ effect' = [effect EXCEPT ![e] = Without(@, p)]
  /\ UNCHANGED <<scope, hidden, asked, stray>>

(* One fails, and the tick with it: what is on the screen stays, marked    *)
(* stale, and the other requests go on.                                    *)
Fails(e, p) ==
  /\ p \in effect[e].wire
  /\ stray' = stray \cup [panel : effect[e].wire \ {p}, scope : {effect[e].fetch}]
  /\ effect' = [effect EXCEPT ![e] = Rearmed(@)]
  /\ UNCHANGED <<scope, screen, hidden, asked, late>>

(* A request that outlived its tick is answered, perhaps not the last such *)
(* of its panel and scope.                                                 *)
StrayAnswers(r) ==
  /\ r \in stray /\ stray' \in {stray, stray \ {r}}
  /\ screen' = [screen EXCEPT ![r.panel] = r.scope]
  /\ late' = late \cup {r.panel}
  /\ UNCHANGED <<scope, hidden, effect, asked>>

(* Mutant of Hushed: the id of the timer cleared is kept.                  *)
KeepsId(ef) == [ef EXCEPT !.timers = IF ef.kept = "set" THEN @ - 1 ELSE @, !.kept =
                          IF @ = "none" THEN "none" ELSE "off"]

Hushed(ef) == [ef EXCEPT !.timers = IF ef.kept = "set" THEN @ - 1 ELSE @, !.kept = "none"]

Hide ==
  /\ ~hidden /\ hidden' = TRUE
  /\ effect' = [e \in Effect |-> IF e \in Alive THEN Hushed(effect[e]) ELSE effect[e]]
  /\ UNCHANGED <<scope, screen, asked, stray, late>>

Reveal ==
  /\ hidden /\ hidden' = FALSE
  /\ effect' = [e \in Effect |->
       IF e \in Alive /\ effect[e].kept = "none" THEN Ticked(effect[e]) ELSE effect[e]]
  /\ UNCHANGED <<scope, screen, asked, stray, late>>

PollNext ==
  \/ \E s \in Scope \cup {NoScope} : Pick(s)
  \/ \E e \in Effect : \/ TimerGoesOff(e) \/ AskTick(e)
                       \/ \E p \in Panel : Answer(e, p) \/ Fails(e, p)
  \/ \E r \in stray : StrayAnswers(r)
  \/ Hide \/ Reveal

-----------------------------------------------------------------------------
(* On a page that leaves the ticks to the timer, no panel shows another    *)
(* station's numbers under this one's label, however late the other's      *)
(* answer is, but for those that a request filled whose tick an error had  *)
(* ended (ui.js: "so the screen showed station B's label over station A's  *)
(* KPIs").  The dashboard says so of every panel; but a repick aborts the  *)
(* tick in flight, and the requests of one that an error ended are none.   *)
ScreenMatchesScope ==
  scope # NoScope /\ ~asked => \A p \in Panel \ late : screen[p] \in {NoScope, scope}

(* A visible page never stops polling: whatever was hidden, revealed,      *)
(* refreshed or answered in between, its effect has a request in flight or *)
(* a timer that will go off.                                               *)
PollAlive == ~hidden => \A e \in Alive : effect[e].timers > 0 \/ effect[e].wire # {}
=============================================================================
