-------------------------- MODULE MCStatementImport --------------------------
(* Two accounts bill one vendor; the first account has two charges, one of  *)
(* which came without an identifier.                                        *)
EXTENDS StatementImport, TLC

CONSTANTS bank, card, subscription, coffee, repeat, gym

MCConnections == {bank, card}
MCCharges == {subscription, coffee, repeat}
MCVendors == {gym}
MCSource == (subscription :> bank) @@ (coffee :> bank) @@ (repeat :> card)
MCExternalId == (subscription :> 1) @@ (coffee :> NULL) @@ (repeat :> 2)
MCDedupeKey == (subscription :> 1) @@ (coffee :> 2) @@ (repeat :> 3)
MCVendorOf == [c \in MCCharges |-> gym]

Symmetry == Permutations(Imports) \cup Permutations(Plans)
=============================================================================
