----------------------------- MODULE MCAccounts -----------------------------
EXTENDS Accounts, TLC
CONSTANTS c1, c2, n1, n2, e1, e2
\* Two user names with one e-mail; the other e-mail nobody registers.
MCAccount == [username : Username, email : {e1}]
Symmetry == Permutations(Client) \union Permutations(Username)
=============================================================================
