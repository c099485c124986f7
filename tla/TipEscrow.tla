----------------------------- MODULE TipEscrow -----------------------------
(***************************************************************************)
(* What the tipping vault promises, with no gists, fees, keys or batches:  *)
(* an escrow that owes accounts money.  It takes on a debt only together   *)
(* with the tokens that back it, and a debt is discharged only by paying   *)
(* all of it to the account it is owed to, out of its own tokens.          *)
(***************************************************************************)
EXTENDS Integers, Functions

CONSTANTS
    Account,               \* who can be owed, and hold tokens
    Vault                  \* the escrow's own token account

VARIABLES
    owed,                  \* what the escrow owes each account
    bank                   \* the token balances of the accounts and the escrow

TotalOwed == SumFunctionOnSet(owed, Account)

Init ==
    /\ owed = [a \in Account |-> 0]
    /\ bank \in [Account \cup {Vault} -> Nat]

(* Debts grow by no more than the escrow receives.  How the accounts' other *)
(* tokens move meanwhile is not the escrow's promise.                       *)
Deposit ==
    /\ owed' \in [Account -> Nat]
    /\ bank' \in [Account \cup {Vault} -> Nat]
    /\ \A a \in Account : owed'[a] >= owed[a]
    /\ bank'[Vault] - bank[Vault] >= TotalOwed' - TotalOwed

Withdraw(a) ==
    /\ owed[a] > 0
    /\ owed' = [owed EXCEPT ![a] = 0]
    /\ bank' = [bank EXCEPT ![Vault] = @ - owed[a], ![a] = @ + owed[a]]

Next == Deposit \/ \E a \in Account : Withdraw(a)

Spec == Init /\ [][Next]_<<owed, bank>>
=============================================================================
