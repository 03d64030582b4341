------------------------------- MODULE MCSite -------------------------------
(***************************************************************************)
(* The pages of the web server for TLC: Accounts, Import and ScorePages    *)
(* share no variables, so they are checked beside one another, each while  *)
(* the other two have not begun, and not in all their products.            *)
(***************************************************************************)
EXTENDS Accounts, Import, ScorePages

CONSTANTS Insider, Secret, Guess

MCKnows == (Insider :> {Secret}) @@ (Outsider :> {Guess})

(* No group; two groups; a case in both, and one in none; a group without   *)
(* cases; points that are refused.                                          *)
MCDeclarations ==
  { <<>>,
    <<[points |-> 30, cases |-> <<2>>], [points |-> 70, cases |-> <<1, 3>>]>>,
    <<[points |-> 40, cases |-> <<1, 2>>], [points |-> 60, cases |-> <<2>>]>>,
    <<[points |-> 10, cases |-> <<>>], [points |-> 90, cases |-> <<3, 2, 1>>]>>,
    <<[points |-> 100, cases |-> <<1>>], [points |-> 0, cases |-> <<2>>]>> }

Init == AccountsInit /\ ImportInit /\ PagesInit

Next ==
  \/ ImportInit /\ PagesInit /\ AccountsNext /\ UNCHANGED <<importingVars, pageVars>>
  \/ AccountsInit /\ PagesInit /\ ImportNext /\ UNCHANGED <<accountVars, pageVars>>
  \/ AccountsInit /\ ImportInit /\ PagesNext /\ UNCHANGED <<accountVars, importingVars>>

siteVars == <<accountVars, importingVars, pageVars>>

FairSpec == Init /\ [][Next]_siteVars /\ WF_siteVars(ImportStep /\ UNCHANGED <<accountVars, pageVars>>)
=============================================================================
