---------------------------- MODULE MC_Services -----------------------------
(***************************************************************************)
(* Parts of the API and the console that share no state and no step, side  *)
(* by side: the first state picks the part that runs, so what is reached   *)
(* is the sum of what each part reaches.  Of the catalogue, and of grid    *)
(* control's mirrors, some tables move at a time.                          *)
(***************************************************************************)
EXTENDS Accounts, Catalogue, ControlMirror, Limits, Console, Poll, TLC

VARIABLE part

TableRows == [t \in Table |-> IF t \in {"assets", "letters"} THEN 2 ELSE 1]
Alike == Permutations(Panel) \cup Permutations(Scope)
OnePerWindow == [t \in Tier |-> 1]

Moving ==
  [assets |-> {"assets"}, control |-> {"decisions", "certs", "pushes"}, letters |-> {"letters"}]

Init ==
  /\ part \in {"accounts", "tariffs", "hardware", "limits", "console", "poll"} \cup DOMAIN Moving
  /\ AccInit /\ CatInit /\ CtlInit /\ LimInit /\ ConInit /\ PollInit

ControlStep ==
  /\ part \in DOMAIN Moving /\ CtlNext
  /\ \A t \in Table \ Moving[part] : mem'[t] = mem[t]
  /\ part # "control" => Len(queue') < MaxJobs

CatalogueStep ==
  \/ part = "tariffs" /\ CatNext /\ seq'.station <= 1
  \/ part = "hardware" /\ CatNext /\ seq'.plan = 1

Next ==
  /\ UNCHANGED part
  /\ \/ part = "accounts" /\ AccNext /\ UNCHANGED <<catVars, ctlVars, limVars, conVars, pollVars>>
     \/ CatalogueStep /\ UNCHANGED <<accVars, ctlVars, limVars, conVars, pollVars>>
     \/ ControlStep /\ UNCHANGED <<accVars, catVars, limVars, conVars, pollVars>>
     \/ part = "limits" /\ LimNext /\ UNCHANGED <<accVars, catVars, ctlVars, conVars, pollVars>>
     \/ part = "console" /\ ConNext /\ UNCHANGED <<accVars, catVars, ctlVars, limVars, pollVars>>
     \/ part = "poll" /\ PollNext /\ UNCHANGED <<accVars, catVars, ctlVars, limVars, conVars>>
=============================================================================
