----------------------------- MODULE CreditBook -----------------------------
(***************************************************************************)
(* What the stored-value ledger promises its callers, with no cards, PINs, *)
(* sweeps or database failures in it: a balance per account that is never  *)
(* negative, and a set of idempotency keys, each of which moves money at   *)
(* most once and is acknowledged only after it did.                        *)
(*                                                                         *)
(* CreditLedger implements this specification (CreditLedger!Book).         *)
(***************************************************************************)
EXTENDS Integers

CONSTANT Accounts

VARIABLES
    bal,    \* bal[a]: the balance of account a
    used,   \* the keys that have moved money
    acked   \* the keys some caller was told had moved money

bookVars == <<bal, used, acked>>

BookInit ==
    /\ bal = [a \in Accounts |-> 0]
    /\ used = {}
    /\ acked = {}

(* One fresh key changes the balance of one account, to an amount that can  *)
(* be covered; its caller may be told in the same step or later.            *)
Move(a) ==
    /\ bal' \in [Accounts -> Nat]
    /\ bal'[a] # bal[a]
    /\ \A b \in Accounts \ {a} : bal'[b] = bal[b]
    /\ \E k \in used' \ used :
        /\ used' = used \cup {k}
        /\ acked' \in {acked, acked \cup {k}}

(* A caller is told that its key moved money: now, or in an earlier attempt. *)
Acknowledge ==
    /\ \E k \in used : acked' = acked \cup {k}
    /\ UNCHANGED <<bal, used>>

BookNext == Acknowledge \/ \E a \in Accounts : Move(a)

BookSpec == BookInit /\ [][BookNext]_bookVars
=============================================================================
