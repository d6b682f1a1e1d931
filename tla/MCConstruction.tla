--------------------------- MODULE MCConstruction ---------------------------
(* A wallet of a few small outputs, a faucet's reserve and one with a      *)
(* token; routes from a loss to a windfall.                                *)
EXTENDS Construction

Given(n) == [ada |-> n, kind |-> "given"]
Wallet(s) == [i \in Slots |-> IF i \in DOMAIN s THEN s[i] ELSE Empty]

MCWallets == {
  Wallet(<<Given(6), Given(3), Given(4), Given(30)>>),
  Wallet(<<Given(9), Given(2), [ada |-> 7, kind |-> "laden"], Given(30)>>),
  Wallet(<<Given(14), Given(6), [ada |-> 40, kind |-> "bot"]>>)}
=============================================================================
