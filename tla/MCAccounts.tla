----------------------------- MODULE MCAccounts -----------------------------
(* Amounts below, at and above a unit, more than there is, negative, infinite *)
(* and no number at all.                                                      *)
EXTENDS Accounts

MCNumbers == {1}
MCDelegates == {"none", "key"}
MCAmounts == {Typed(15, 100), Typed(89, 1000), Typed(1, 1), Typed(-1, 10), Typed(1, 0), Typed(0, 0)}
=============================================================================
