------------------------------ MODULE MCAccounts ------------------------------
(* The account directory and the sessions of one account, as two separate    *)
(* systems: a behaviour takes steps of either.                               *)
EXTENDS Accounts, Sessions, TLC

ClientSymmetry ==
  Permutations(Clients) \union Permutations(Emails) \union Permutations(Identities)
    \union Permutations(Requests)

MCInit == AccountsInit /\ SessionsInit

MCNext == \/ AccountsInit /\ SessionsNext /\ UNCHANGED accountVars
          \/ SessionsInit /\ AccountsNext /\ UNCHANGED sessionVars

MCSpec == MCInit /\ [][MCNext]_<<accountVars, sessionVars>>
===============================================================================
