--------------------------- MODULE MCCreditLedger ---------------------------
(***************************************************************************)
(* Small instances of CreditLedger for TLC.                                *)
(***************************************************************************)
EXTENDS CreditLedger, TLC

CONSTANTS a1, a2, k1, k2, k3, order, gateway, TWD

MCCurrencyOf == [a \in Accounts |-> TWD]

(* Operations that take no pin or spend key ignore the one given here. *)
Body(op, a, amount, key, pin, spendKey) ==
    [op |-> op, acct |-> a, amount |-> amount, currency |-> TWD, key |-> key,
     source |-> IF op = "topup" THEN gateway ELSE order, pin |-> pin,
     spendKey |-> spendKey]

(* Payments and refunds of one account that share their keys: retries of the *)
(* same spend, a spend of another amount under the same key, with the right  *)
(* or a wrong PIN, and a refund of the spend.                                *)
RaceInputs ==
    {Body("spend", a1, 1, k1, "absent", k1),
     Body("spend", a1, 2, k1, "right", k1),
     Body("spend", a1, 2, k1, "wrong", k1),
     Body("topup", a1, 1, k2, "absent", k1),
     Body("refundSpend", a2, 2, k3, "absent", k1)}

(* One of everything. *)
AllInputs ==
    {Body("spend", a1, 1, k1, "absent", k1),
     Body("spend", a1, 2, k2, "right", k1),
     Body("spend", a1, 2, k2, "wrong", k1),
     Body("topup", a1, 1, k1, "absent", k1),
     Body("topup", a1, 2, k3, "absent", k1),
     Body("refund", a1, 1, k3, "absent", k1),
     Body("refundSpend", a1, 2, k3, "absent", k2),
     [Body("spend", a1, 1, k3, "absent", k1) EXCEPT !.currency = "other"]}

Symmetric == Permutations(Reqs)
=============================================================================
