------------------------------ MODULE OnePayout ------------------------------
(***************************************************************************)
(* What RefundService promises about paying out one return, whoever asks   *)
(* for it and however often: the customer is paid once, the return is      *)
(* processed only after that, and a money refund goes on file with the     *)
(* amount that was paid, for good if it was paid in the shop's currency.   *)
(* Amounts are in that currency.                                           *)
(***************************************************************************)
EXTENDS Naturals, Sequences

CONSTANT Kinds               \* the resolutions; "LOCAL" has nobody to pay

VARIABLES kind,
          foreign,           \* did the customer pay in another currency than the shop's?
          payments,          \* what each payment moved, oldest first
          filed,             \* is the return processed?
          onFile             \* the amount the record shows

Init == /\ kind \in Kinds /\ foreign \in BOOLEAN
        /\ payments = <<>> /\ filed = FALSE /\ onFile = 0

\* A money refund that moved nothing may be made again.
Pay ==
  /\ payments = <<>> \/ (kind = "REFUND" /\ payments[1] = 0)
  /\ payments' \in Seq(Nat) /\ Len(payments') = Len(payments) + 1
  /\ \A i \in DOMAIN payments : payments'[i] = payments[i]
  /\ UNCHANGED <<kind, foreign, filed, onFile>>

\* A late attempt may do the paperwork again.  Of a store credit the record may
\* show an estimate, and an amount filed again may be in the wrong currency.
File ==
  /\ kind = "LOCAL" \/ payments # <<>>
  /\ filed' = TRUE
  /\ onFile' \in Nat
  /\ kind = "REFUND" /\ ~(filed /\ foreign) => \E i \in DOMAIN payments : onFile' = payments[i]
  /\ UNCHANGED <<kind, foreign, payments>>

Spec == Init /\ [][Pay \/ File]_<<kind, foreign, payments, filed, onFile>>
=============================================================================
