---------------------------- MODULE RefundSplit ----------------------------
(***************************************************************************)
(* RefundService._allocate: how a refund is divided over the payments that *)
(* Shopify suggests to give it back to.  RefundProcessing sends a refund   *)
(* as one amount; this module says when the parts that are really sent add *)
(* up to it.  Amounts are whole pennies.                                   *)
(***************************************************************************)
EXTENDS RefundProcessing, Integers, Sequences, FiniteSetsExt

CONSTANTS
  MaxPayments,   \* bound: payments on an order
  MaxPayment     \* bound: what one of them can still refund, in pennies

ASSUME SplitAssumption == MaxPayments \in Nat \ {0} /\ MaxPayment \in Nat \ {0}

\* The running sums of a sequence of amounts, and its sum.
RunningSums(amounts) ==
  LET sum[i \in 0..Len(amounts)] == IF i = 0 THEN 0 ELSE sum[i - 1] + amounts[i] IN sum

Total(amounts) == RunningSums(amounts)[Len(amounts)]

\* round2 of a share: to the penny, half a penny up.
Share(amount, payment, total) == (2 * amount * payment + total) \div (2 * total)

\* A payment's share, never above what it can refund.
Capped(amount, paid, i) == Min({Share(amount, paid[i], Total(paid)), paid[i]})

\* Mutant of Split: the last payment is rounded like the others.
SplitRounded(amount, paid) == [i \in 1..Len(paid) |-> Capped(amount, paid, i)]

\* In proportion to what each payment can refund and never above it; the last
\* one takes what is left.  (Parts of zero are not sent; they are kept here.)
Split(amount, paid) ==
  LET n     == Len(paid)
      first == [i \in 1..(n - 1) |-> Capped(amount, paid, i)]
      last  == Min({amount - Total(first), paid[n]})
  IN [i \in 1..n |-> IF i < n THEN first[i] ELSE last]

Payments == UNION {[1..n -> 1..MaxPayment] : n \in 1..MaxPayments}

\* The parts add up to the refund; none is negative or above its payment; none
\* is more than half a penny off its proportional share, but the last which may
\* be off by a whole one.
Exact(amount, paid) ==
  LET total == Total(paid)
      parts == Split(amount, paid)
  IN /\ Total(parts) = amount
     /\ \A i \in DOMAIN paid :
          /\ parts[i] \in 0..paid[i]
          /\ LET off == Max({parts[i] * total - amount * paid[i], amount * paid[i] - parts[i] * total}) IN
             IF i < Len(paid) THEN 2 * off <= total ELSE off <= total

\* The amounts that are sent exactly, whatever payments can take them.
SentExactly == {amount \in Amounts : \A paid \in Payments : amount <= Total(paid) => Exact(amount, paid)}

\* "Split the amount across the payments, in proportion, never above what each
\* can refund; the last one absorbs the rounding": however attempts, retries and
\* refunds made meanwhile changed the amount that an attempt is about to send,
\* it is what Shopify is sent, to the penny, if the order was paid with up to
\* three payments.  (With four, shares rounded up can use up more than the
\* refund: 2 over <<1, 1, 1, 1>> sends 3.)
SplitIsExact == \A a \in Attempts : pc[a] = "send" /\ kind = "REFUND" => amt[a] \in SentExactly

=============================================================================
