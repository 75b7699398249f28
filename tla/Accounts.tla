------------------------------ MODULE Accounts ------------------------------
(***************************************************************************)
(* The life of the program as its chain sees it: starts that prepare the   *)
(* accounts (StartUp), then commands that fund them (Funding), one call of *)
(* the RPC node after the other, and restarts at any point.                *)
(***************************************************************************)
EXTENDS StartUp, Funding

accountsVars == <<vars, fundVars>>

AccountsInit == Init /\ FundInit

\* The prompt comes after the last market.
AtPrompt == step = "running" /\ Command /\ UNCHANGED vars

AccountsNext ==
  \/ Call /\ UNCHANGED fundVars
  \/ Restart /\ FundRestart
  \/ (\E a \in Account : LandLate(a) \/ Expire(a)) /\ UNCHANGED fundVars
  \/ AtPrompt
  \/ FundChain /\ UNCHANGED vars

AccountsSpec == AccountsInit /\ [][AccountsNext]_accountsVars

\* Each call of the RPC client returns, if only with a timeout.
AccountsFairSpec == AccountsSpec /\ WF_vars(Call)
=============================================================================
