------------------------- MODULE LabelPurchaseProofs -------------------------
(***************************************************************************)
(* Proofs about LabelPurchase, for any number of attempts.  They hold when *)
(* no live attempt outlasts the lock, and either no adapter can search for *)
(* a label or the shop keeps one carrier, on whose books every purchase is *)
(* by the time its caller has given up: Trusted.                           *)
(***************************************************************************)
EXTENDS LabelPurchase, TLAPS

Trusted ==
  /\ ~SlowAttempts
  /\ \/ Searchable = {}
     \/ ~LateLanding /\ \A c, d \in Carriers : c = d

Unbought == {"none", "error"}
NothingBought == \A b \in Attempts : tx[b] \in Unbought
SomethingBought == \E b \in Attempts : tx[b] = "success"

\* The steps at which an attempt holds the lock row it has made.
HoldSteps == {"mark", "call", "wait", "askRefused", "askUnknown", "release"}

\* A holder's row is there, fresh, and its own.
HolderInv ==
  \A a \in Attempts :
    /\ pc[a] \in HoldSteps => row # None /\ row.maker = a /\ ~row.stale
    /\ pc[a] = "call" => row.status = "buying"
    /\ pc[a] \in {"mark", "call", "askRefused", "release"} => NothingBought
    /\ pc[a] \in {"wait", "askUnknown"} => \A b \in Attempts \ {a} : tx[b] \in Unbought
    /\ pc[a] = "askUnknown" /\ Searchable # {} => tx[a] # "inflight"

\* An attempt that judged the row stale judged a dead maker's row, and as
\* long as that row is there the judgement stays right.
StaleInv ==
  /\ row # None /\ row.stale =>
       /\ pc[row.maker] = "done"
       /\ Searchable # {} => \A b \in Attempts : tx[b] # "inflight"
  /\ \A a \in Attempts :
       /\ pc[a] \in {"reconcile", "evict"} =>
            /\ target[a] \in Attempts
            /\ pc[target[a]] = "done"
            /\ Holds(target[a]) => row.stale
       /\ pc[a] = "evict" /\ Holds(target[a]) => NothingBought

\* What is saved was bought, and its maker has left the purchase behind.
SavedInv ==
  /\ row # None /\ row.status \in OnFileStatus =>
       SomethingBought /\ pc[row.maker] \in {"complete", "done"}
  /\ \A a \in Attempts :
       /\ pc[a] \in {"save", "complete"} => SomethingBought /\ target[a] \in Attempts
       /\ pc[a] = "save" => target[a] = a \/ pc[target[a]] = "done"
       /\ pc[a] = "complete" => pc[target[a]] \in {"complete", "done"}
       /\ pc[a] \in HoldSteps => target[a] = a

IInv == TypeOK /\ OneLivePurchase /\ PurchaseKeepsRow /\ HolderInv /\ StaleInv /\ SavedInv

-----------------------------------------------------------------------------
\* Type correctness: the attempts, the row and the carrier's books keep the
\* shape the code gives them, whatever the timing.
THEOREM TypeCorrect == Spec => []TypeOK
<1>1. Init => TypeOK
  BY NoneAssumption DEF Init, TypeOK, Steps, TxState
<1>2. TypeOK /\ [Next]_vars => TypeOK'
  <2> SUFFICES ASSUME TypeOK, [Next]_vars PROVE TypeOK'
    OBVIOUS
  <2> USE DEF TypeOK, LockRow, Steps, TxState, RowStatus, Goto, Holds
  <2>1. ASSUME NEW a \in Attempts, Begin(a) PROVE TypeOK'
    BY <2>1 DEF Begin
  <2>2. ASSUME NEW a \in Attempts, Reconcile(a) PROVE TypeOK'
    BY <2>2 DEF Reconcile, FindLabel
  <2>3. ASSUME NEW a \in Attempts, Evict(a) PROVE TypeOK'
    BY <2>3 DEF Evict
  <2>4. ASSUME NEW a \in Attempts, Take(a) PROVE TypeOK'
    <3> DEFINE fresh == [maker |-> a, status |-> "pending", stale |-> FALSE]
    <3>1. fresh \in LockRow
      OBVIOUS
    <3>2. CASE row' = fresh /\ target' = [target EXCEPT ![a] = a] /\ Goto(a, "mark")
      <4> HIDE DEF fresh, LockRow
      <4>1. QED BY <2>4, <3>1, <3>2 DEF Take
    <3>3. CASE Goto(a, "done") /\ UNCHANGED <<row, target>>
      BY <2>4, <3>3 DEF Take
    <3>4. QED
      BY <2>4, <3>2, <3>3 DEF Take
  <2>5. ASSUME NEW a \in Attempts, MarkBuying(a) PROVE TypeOK'
    BY <2>5 DEF MarkBuying
  <2>6. ASSUME NEW a \in Attempts, FailBeforePurchase(a) PROVE TypeOK'
    BY <2>6 DEF FailBeforePurchase
  <2>7. ASSUME NEW a \in Attempts, SendPurchase(a) PROVE TypeOK'
    BY <2>7 DEF SendPurchase
  <2>8. ASSUME NEW a \in Attempts, CarrierBooks(a) PROVE TypeOK'
    BY <2>8 DEF CarrierBooks
  <2>9. ASSUME NEW a \in Attempts, Answer(a) PROVE TypeOK'
    BY <2>9 DEF Answer
  <2>10. ASSUME NEW a \in Attempts, LoseAnswer(a) PROVE TypeOK'
    BY <2>10 DEF LoseAnswer
  <2>11. ASSUME NEW a \in Attempts, AskCarrier(a) PROVE TypeOK'
    BY <2>11 DEF AskCarrier, FindLabel
  <2>12. ASSUME NEW a \in Attempts, Release(a) PROVE TypeOK'
    BY <2>12 DEF Release
  <2>13. ASSUME NEW a \in Attempts, SaveLabel(a) PROVE TypeOK'
    BY <2>13 DEF SaveLabel
  <2>14. ASSUME NEW a \in Attempts, CompleteLabel(a) PROVE TypeOK'
    BY <2>14 DEF CompleteLabel
  <2>15. ASSUME NEW a \in Attempts, Crash(a) PROVE TypeOK'
    BY <2>15 DEF Crash
  <2>16. CASE GoStale
    BY <2>16 DEF GoStale
  <2>17. CASE UNCHANGED vars
    BY <2>17 DEF vars
  <2>18. QED
    BY <2>1, <2>2, <2>3, <2>4, <2>5, <2>6, <2>7, <2>8, <2>9, <2>10, <2>11, <2>12, <2>13, <2>14, <2>15, <2>16, <2>17 DEF Next
<1>3. QED
  BY <1>1, <1>2, PTL DEF Spec

-----------------------------------------------------------------------------
(* Each action keeps the inductive invariant.                              *)

LEMMA BeginKeeps ==
  ASSUME Trusted, IInv, TypeOK', NEW a \in Attempts, Begin(a)
  PROVE  IInv'
<1> USE DEF IInv, TypeOK, Goto, Holds, LockRow, RowStatus, Begin
<1>1. OneLivePurchase' /\ PurchaseKeepsRow'
  BY NoneAssumption DEF OneLivePurchase, PurchaseKeepsRow, Live, HolderInv, HoldSteps, NothingBought, Unbought, StaleInv, Trusted
<1>2. HolderInv'
  BY NoneAssumption DEF HolderInv, HoldSteps, NothingBought, Unbought, StaleInv, SavedInv, OnFileStatus, SomethingBought, Trusted, PurchaseKeepsRow, Live, TxState
<1>3. StaleInv'
  BY NoneAssumption DEF StaleInv, HolderInv, HoldSteps, NothingBought, Unbought, Trusted, PurchaseKeepsRow, Live, TxState
<1>4. SavedInv'
  BY NoneAssumption DEF SavedInv, HolderInv, HoldSteps, NothingBought, Unbought, OnFileStatus, SomethingBought, StaleInv
<1>5. QED
  BY <1>1, <1>2, <1>3, <1>4

LEMMA ReconcileKeeps ==
  ASSUME Trusted, IInv, TypeOK', NEW a \in Attempts, Reconcile(a)
  PROVE  IInv'
<1> USE DEF IInv, TypeOK, Goto, Holds, LockRow, RowStatus, Reconcile, FindLabel, OnFile
<1>1. OneLivePurchase' /\ PurchaseKeepsRow'
  BY NoneAssumption DEF OneLivePurchase, PurchaseKeepsRow, Live, HolderInv, HoldSteps, NothingBought, Unbought, StaleInv, Trusted
<1>2. HolderInv'
  BY NoneAssumption DEF HolderInv, HoldSteps, NothingBought, Unbought, StaleInv, SavedInv, OnFileStatus, SomethingBought, Trusted, PurchaseKeepsRow, Live, TxState
<1>3. StaleInv'
  BY NoneAssumption DEF StaleInv, HolderInv, HoldSteps, NothingBought, Unbought, Trusted, PurchaseKeepsRow, Live, TxState
<1>4. SavedInv'
  BY NoneAssumption DEF SavedInv, HolderInv, HoldSteps, NothingBought, Unbought, OnFileStatus, SomethingBought, StaleInv
<1>5. QED
  BY <1>1, <1>2, <1>3, <1>4

LEMMA EvictKeeps ==
  ASSUME Trusted, IInv, TypeOK', NEW a \in Attempts, Evict(a)
  PROVE  IInv'
<1> USE DEF IInv, TypeOK, Goto, Holds, LockRow, RowStatus, Evict
<1>1. OneLivePurchase' /\ PurchaseKeepsRow'
  BY NoneAssumption DEF OneLivePurchase, PurchaseKeepsRow, Live, HolderInv, HoldSteps, NothingBought, Unbought, StaleInv, Trusted
<1>2. HolderInv'
  BY NoneAssumption DEF HolderInv, HoldSteps, NothingBought, Unbought, StaleInv, SavedInv, OnFileStatus, SomethingBought, Trusted, PurchaseKeepsRow, Live, TxState
<1>3. StaleInv'
  BY NoneAssumption DEF StaleInv, HolderInv, HoldSteps, NothingBought, Unbought, Trusted, PurchaseKeepsRow, Live, TxState
<1>4. SavedInv'
  BY NoneAssumption DEF SavedInv, HolderInv, HoldSteps, NothingBought, Unbought, OnFileStatus, SomethingBought, StaleInv
<1>5. QED
  BY <1>1, <1>2, <1>3, <1>4

LEMMA TakeKeeps ==
  ASSUME Trusted, IInv, TypeOK', NEW a \in Attempts, Take(a)
  PROVE  IInv'
<1> USE DEF IInv, TypeOK, Goto, Holds, LockRow, RowStatus, Take
<1>1. OneLivePurchase' /\ PurchaseKeepsRow'
  BY NoneAssumption DEF OneLivePurchase, PurchaseKeepsRow, Live, HolderInv, HoldSteps, NothingBought, Unbought, StaleInv, Trusted
<1>2. HolderInv'
  <2>1. CASE /\ row = None
             /\ row' = [maker |-> a, status |-> "pending", stale |-> FALSE]
             /\ pc' = [pc EXCEPT ![a] = "mark"]
    <3> DEFINE fresh == [maker |-> a, status |-> "pending", stale |-> FALSE]
    <3>0. fresh \in LockRow /\ fresh.maker = a /\ ~fresh.stale
      OBVIOUS
    <3>1. row' # None /\ row'.maker = a /\ ~row'.stale
      BY <2>1, <3>0, NoneAssumption
    <3> HIDE DEF fresh
    <3>2. NothingBought'
      BY <2>1 DEF PurchaseKeepsRow, Live, TxState, NothingBought, Unbought
    <3>3. \A b \in Attempts \ {a} : pc'[b] \notin HoldSteps
      BY <2>1 DEF HolderInv, HoldSteps
    <3>4. QED
      BY <2>1, <3>1, <3>2, <3>3 DEF HolderInv, HoldSteps
  <2>2. CASE pc' = [pc EXCEPT ![a] = "done"] /\ UNCHANGED <<row, target>>
    BY <2>2 DEF HolderInv, HoldSteps, NothingBought, Unbought
  <2>3. QED
    BY <2>1, <2>2
<1>3. StaleInv'
  BY NoneAssumption DEF StaleInv, HolderInv, HoldSteps, NothingBought, Unbought, Trusted, PurchaseKeepsRow, Live, TxState
<1>4. SavedInv'
  BY NoneAssumption DEF SavedInv, HolderInv, HoldSteps, NothingBought, Unbought, OnFileStatus, SomethingBought, StaleInv
<1>5. QED
  BY <1>1, <1>2, <1>3, <1>4

LEMMA MarkBuyingKeeps ==
  ASSUME Trusted, IInv, TypeOK', NEW a \in Attempts, MarkBuying(a)
  PROVE  IInv'
<1> USE DEF IInv, TypeOK, Goto, Holds, LockRow, RowStatus, MarkBuying
<1>1. OneLivePurchase' /\ PurchaseKeepsRow'
  BY NoneAssumption DEF OneLivePurchase, PurchaseKeepsRow, Live, HolderInv, HoldSteps, NothingBought, Unbought, StaleInv, Trusted
<1>2. HolderInv'
  BY NoneAssumption DEF HolderInv, HoldSteps, NothingBought, Unbought, StaleInv, SavedInv, OnFileStatus, SomethingBought, Trusted, PurchaseKeepsRow, Live, TxState
<1>3. StaleInv'
  BY NoneAssumption DEF StaleInv, HolderInv, HoldSteps, NothingBought, Unbought, Trusted, PurchaseKeepsRow, Live, TxState
<1>4. SavedInv'
  BY NoneAssumption DEF SavedInv, HolderInv, HoldSteps, NothingBought, Unbought, OnFileStatus, SomethingBought, StaleInv
<1>5. QED
  BY <1>1, <1>2, <1>3, <1>4

LEMMA FailBeforePurchaseKeeps ==
  ASSUME Trusted, IInv, TypeOK', NEW a \in Attempts, FailBeforePurchase(a)
  PROVE  IInv'
<1> USE DEF IInv, TypeOK, Goto, Holds, LockRow, RowStatus, FailBeforePurchase
<1>1. OneLivePurchase' /\ PurchaseKeepsRow'
  BY NoneAssumption DEF OneLivePurchase, PurchaseKeepsRow, Live, HolderInv, HoldSteps, NothingBought, Unbought, StaleInv, Trusted
<1>2. HolderInv'
  BY NoneAssumption DEF HolderInv, HoldSteps, NothingBought, Unbought, StaleInv, SavedInv, OnFileStatus, SomethingBought, Trusted, PurchaseKeepsRow, Live, TxState
<1>3. StaleInv'
  BY NoneAssumption DEF StaleInv, HolderInv, HoldSteps, NothingBought, Unbought, Trusted, PurchaseKeepsRow, Live, TxState
<1>4. SavedInv'
  BY NoneAssumption DEF SavedInv, HolderInv, HoldSteps, NothingBought, Unbought, OnFileStatus, SomethingBought, StaleInv
<1>5. QED
  BY <1>1, <1>2, <1>3, <1>4

LEMMA SendPurchaseKeeps ==
  ASSUME Trusted, IInv, TypeOK', NEW a \in Attempts, SendPurchase(a)
  PROVE  IInv'
<1> USE DEF IInv, TypeOK, Goto, Holds, LockRow, RowStatus, SendPurchase
<1>1. OneLivePurchase' /\ PurchaseKeepsRow'
  BY NoneAssumption DEF OneLivePurchase, PurchaseKeepsRow, Live, HolderInv, HoldSteps, NothingBought, Unbought, StaleInv, Trusted
<1>2. HolderInv'
  BY NoneAssumption DEF HolderInv, HoldSteps, NothingBought, Unbought, StaleInv, SavedInv, OnFileStatus, SomethingBought, Trusted, PurchaseKeepsRow, Live, TxState
<1>3. StaleInv'
  BY NoneAssumption DEF StaleInv, HolderInv, HoldSteps, NothingBought, Unbought, Trusted, PurchaseKeepsRow, Live, TxState
<1>4. SavedInv'
  BY NoneAssumption DEF SavedInv, HolderInv, HoldSteps, NothingBought, Unbought, OnFileStatus, SomethingBought, StaleInv
<1>5. QED
  BY <1>1, <1>2, <1>3, <1>4

LEMMA CarrierBooksKeeps ==
  ASSUME Trusted, IInv, TypeOK', NEW a \in Attempts, CarrierBooks(a)
  PROVE  IInv'
<1> USE DEF IInv, TypeOK, Goto, Holds, LockRow, RowStatus, CarrierBooks
<1>1. OneLivePurchase' /\ PurchaseKeepsRow'
  BY NoneAssumption DEF OneLivePurchase, PurchaseKeepsRow, Live, HolderInv, HoldSteps, NothingBought, Unbought, StaleInv, Trusted
<1>2. HolderInv'
  BY NoneAssumption DEF HolderInv, HoldSteps, NothingBought, Unbought, StaleInv, SavedInv, OnFileStatus, SomethingBought, Trusted, PurchaseKeepsRow, Live, TxState
<1>3. StaleInv'
  BY NoneAssumption DEF StaleInv, HolderInv, HoldSteps, NothingBought, Unbought, Trusted, PurchaseKeepsRow, Live, TxState
<1>4. SavedInv'
  BY NoneAssumption DEF SavedInv, HolderInv, HoldSteps, NothingBought, Unbought, OnFileStatus, SomethingBought, StaleInv
<1>5. QED
  BY <1>1, <1>2, <1>3, <1>4

LEMMA AnswerKeeps ==
  ASSUME Trusted, IInv, TypeOK', NEW a \in Attempts, Answer(a)
  PROVE  IInv'
<1> USE DEF IInv, TypeOK, Goto, Holds, LockRow, RowStatus, Answer
<1>1. OneLivePurchase' /\ PurchaseKeepsRow'
  BY NoneAssumption DEF OneLivePurchase, PurchaseKeepsRow, Live, HolderInv, HoldSteps, NothingBought, Unbought, StaleInv, Trusted
<1>2. HolderInv'
  BY NoneAssumption DEF HolderInv, HoldSteps, NothingBought, Unbought, StaleInv, SavedInv, OnFileStatus, SomethingBought, Trusted, PurchaseKeepsRow, Live, TxState
<1>3. StaleInv'
  BY NoneAssumption DEF StaleInv, HolderInv, HoldSteps, NothingBought, Unbought, Trusted, PurchaseKeepsRow, Live, TxState
<1>4. SavedInv'
  BY NoneAssumption DEF SavedInv, HolderInv, HoldSteps, NothingBought, Unbought, OnFileStatus, SomethingBought, StaleInv
<1>5. QED
  BY <1>1, <1>2, <1>3, <1>4

LEMMA LoseAnswerKeeps ==
  ASSUME Trusted, IInv, TypeOK', NEW a \in Attempts, LoseAnswer(a)
  PROVE  IInv'
<1> USE DEF IInv, TypeOK, Goto, Holds, LockRow, RowStatus, LoseAnswer
<1>1. OneLivePurchase' /\ PurchaseKeepsRow'
  BY NoneAssumption DEF OneLivePurchase, PurchaseKeepsRow, Live, HolderInv, HoldSteps, NothingBought, Unbought, StaleInv, Trusted
<1>2. HolderInv'
  BY NoneAssumption DEF HolderInv, HoldSteps, NothingBought, Unbought, StaleInv, SavedInv, OnFileStatus, SomethingBought, Trusted, PurchaseKeepsRow, Live, TxState
<1>3. StaleInv'
  BY NoneAssumption DEF StaleInv, HolderInv, HoldSteps, NothingBought, Unbought, Trusted, PurchaseKeepsRow, Live, TxState
<1>4. SavedInv'
  BY NoneAssumption DEF SavedInv, HolderInv, HoldSteps, NothingBought, Unbought, OnFileStatus, SomethingBought, StaleInv
<1>5. QED
  BY <1>1, <1>2, <1>3, <1>4

LEMMA AskCarrierKeeps ==
  ASSUME Trusted, IInv, TypeOK', NEW a \in Attempts, AskCarrier(a)
  PROVE  IInv'
<1> USE DEF IInv, TypeOK, Goto, Holds, LockRow, RowStatus, AskCarrier, FindLabel, OnFile
<1>1. OneLivePurchase' /\ PurchaseKeepsRow'
  BY NoneAssumption DEF OneLivePurchase, PurchaseKeepsRow, Live, HolderInv, HoldSteps, NothingBought, Unbought, StaleInv, Trusted
<1>2. HolderInv'
  BY NoneAssumption DEF HolderInv, HoldSteps, NothingBought, Unbought, StaleInv, SavedInv, OnFileStatus, SomethingBought, Trusted, PurchaseKeepsRow, Live, TxState
<1>3. StaleInv'
  BY NoneAssumption DEF StaleInv, HolderInv, HoldSteps, NothingBought, Unbought, Trusted, PurchaseKeepsRow, Live, TxState
<1>4. SavedInv'
  BY NoneAssumption DEF SavedInv, HolderInv, HoldSteps, NothingBought, Unbought, OnFileStatus, SomethingBought, StaleInv
<1>5. QED
  BY <1>1, <1>2, <1>3, <1>4

LEMMA ReleaseKeeps ==
  ASSUME Trusted, IInv, TypeOK', NEW a \in Attempts, Release(a)
  PROVE  IInv'
<1> USE DEF IInv, TypeOK, Goto, Holds, LockRow, RowStatus, Release
<1>1. OneLivePurchase' /\ PurchaseKeepsRow'
  BY NoneAssumption DEF OneLivePurchase, PurchaseKeepsRow, Live, HolderInv, HoldSteps, NothingBought, Unbought, StaleInv, Trusted
<1>2. HolderInv'
  BY NoneAssumption DEF HolderInv, HoldSteps, NothingBought, Unbought, StaleInv, SavedInv, OnFileStatus, SomethingBought, Trusted, PurchaseKeepsRow, Live, TxState
<1>3. StaleInv'
  BY NoneAssumption DEF StaleInv, HolderInv, HoldSteps, NothingBought, Unbought, Trusted, PurchaseKeepsRow, Live, TxState
<1>4. SavedInv'
  BY NoneAssumption DEF SavedInv, HolderInv, HoldSteps, NothingBought, Unbought, OnFileStatus, SomethingBought, StaleInv
<1>5. QED
  BY <1>1, <1>2, <1>3, <1>4

LEMMA SaveLabelKeeps ==
  ASSUME Trusted, IInv, TypeOK', NEW a \in Attempts, SaveLabel(a)
  PROVE  IInv'
<1> USE DEF IInv, TypeOK, Goto, Holds, LockRow, RowStatus, SaveLabel
<1>1. OneLivePurchase' /\ PurchaseKeepsRow'
  BY NoneAssumption DEF OneLivePurchase, PurchaseKeepsRow, Live, HolderInv, HoldSteps, NothingBought, Unbought, StaleInv, Trusted
<1>2. HolderInv'
  BY NoneAssumption DEF HolderInv, HoldSteps, NothingBought, Unbought, StaleInv, SavedInv, OnFileStatus, SomethingBought, Trusted, PurchaseKeepsRow, Live, TxState
<1>3. StaleInv'
  BY NoneAssumption DEF StaleInv, HolderInv, HoldSteps, NothingBought, Unbought, Trusted, PurchaseKeepsRow, Live, TxState
<1>4. SavedInv'
  BY NoneAssumption DEF SavedInv, HolderInv, HoldSteps, NothingBought, Unbought, OnFileStatus, SomethingBought, StaleInv
<1>5. QED
  BY <1>1, <1>2, <1>3, <1>4

LEMMA CompleteLabelKeeps ==
  ASSUME Trusted, IInv, TypeOK', NEW a \in Attempts, CompleteLabel(a)
  PROVE  IInv'
<1> USE DEF IInv, TypeOK, Goto, Holds, LockRow, RowStatus, CompleteLabel
<1>1. OneLivePurchase' /\ PurchaseKeepsRow'
  BY NoneAssumption DEF OneLivePurchase, PurchaseKeepsRow, Live, HolderInv, HoldSteps, NothingBought, Unbought, StaleInv, Trusted
<1>2. HolderInv'
  BY NoneAssumption DEF HolderInv, HoldSteps, NothingBought, Unbought, StaleInv, SavedInv, OnFileStatus, SomethingBought, Trusted, PurchaseKeepsRow, Live, TxState
<1>3. StaleInv'
  BY NoneAssumption DEF StaleInv, HolderInv, HoldSteps, NothingBought, Unbought, Trusted, PurchaseKeepsRow, Live, TxState
<1>4. SavedInv'
  BY NoneAssumption DEF SavedInv, HolderInv, HoldSteps, NothingBought, Unbought, OnFileStatus, SomethingBought, StaleInv
<1>5. QED
  BY <1>1, <1>2, <1>3, <1>4

LEMMA CrashKeeps ==
  ASSUME Trusted, IInv, TypeOK', NEW a \in Attempts, Crash(a)
  PROVE  IInv'
<1> USE DEF IInv, TypeOK, Goto, Holds, LockRow, RowStatus, Crash
<1>1. OneLivePurchase' /\ PurchaseKeepsRow'
  BY NoneAssumption DEF OneLivePurchase, PurchaseKeepsRow, Live, HolderInv, HoldSteps, NothingBought, Unbought, StaleInv, Trusted
<1>2. HolderInv'
  BY NoneAssumption DEF HolderInv, HoldSteps, NothingBought, Unbought, StaleInv, SavedInv, OnFileStatus, SomethingBought, Trusted, PurchaseKeepsRow, Live, TxState
<1>3. StaleInv'
  BY NoneAssumption DEF StaleInv, HolderInv, HoldSteps, NothingBought, Unbought, Trusted, PurchaseKeepsRow, Live, TxState
<1>4. SavedInv'
  BY NoneAssumption DEF SavedInv, HolderInv, HoldSteps, NothingBought, Unbought, OnFileStatus, SomethingBought, StaleInv
<1>5. QED
  BY <1>1, <1>2, <1>3, <1>4

LEMMA GoStaleKeeps ==
  ASSUME Trusted, IInv, TypeOK', GoStale
  PROVE  IInv'
<1> USE DEF IInv, TypeOK, Goto, Holds, LockRow, RowStatus, GoStale
<1>1. OneLivePurchase' /\ PurchaseKeepsRow'
  BY NoneAssumption DEF OneLivePurchase, PurchaseKeepsRow, Live, HolderInv, HoldSteps, NothingBought, Unbought, StaleInv, Trusted
<1>2. HolderInv'
  BY NoneAssumption DEF HolderInv, HoldSteps, NothingBought, Unbought, StaleInv, SavedInv, OnFileStatus, SomethingBought, Trusted, PurchaseKeepsRow, Live, TxState
<1>3. StaleInv'
  BY NoneAssumption DEF StaleInv, HolderInv, HoldSteps, NothingBought, Unbought, Trusted, PurchaseKeepsRow, Live, TxState
<1>4. SavedInv'
  BY NoneAssumption DEF SavedInv, HolderInv, HoldSteps, NothingBought, Unbought, OnFileStatus, SomethingBought, StaleInv
<1>5. QED
  BY <1>1, <1>2, <1>3, <1>4

-----------------------------------------------------------------------------
(* The theorems.                                                           *)

\* The invariant holds in every reachable state of a trusted instance.
THEOREM Invariance ==
  ASSUME Trusted
  PROVE  Spec => []IInv
<1>1. Init => IInv
  BY NoneAssumption
     DEF Init, IInv, TypeOK, Steps, TxState, OneLivePurchase, PurchaseKeepsRow, Live,
         HolderInv, HoldSteps, StaleInv, SavedInv
<1>2. TypeOK' /\ IInv /\ [Next]_vars => IInv'
  <2> SUFFICES ASSUME TypeOK', IInv, [Next]_vars PROVE IInv'
    OBVIOUS
  <2>1. ASSUME NEW a \in Attempts, Begin(a) PROVE IInv'
    BY <2>1, BeginKeeps
  <2>2. ASSUME NEW a \in Attempts, Reconcile(a) PROVE IInv'
    BY <2>2, ReconcileKeeps
  <2>3. ASSUME NEW a \in Attempts, Evict(a) PROVE IInv'
    BY <2>3, EvictKeeps
  <2>4. ASSUME NEW a \in Attempts, Take(a) PROVE IInv'
    BY <2>4, TakeKeeps
  <2>5. ASSUME NEW a \in Attempts, MarkBuying(a) PROVE IInv'
    BY <2>5, MarkBuyingKeeps
  <2>6. ASSUME NEW a \in Attempts, FailBeforePurchase(a) PROVE IInv'
    BY <2>6, FailBeforePurchaseKeeps
  <2>7. ASSUME NEW a \in Attempts, SendPurchase(a) PROVE IInv'
    BY <2>7, SendPurchaseKeeps
  <2>8. ASSUME NEW a \in Attempts, CarrierBooks(a) PROVE IInv'
    BY <2>8, CarrierBooksKeeps
  <2>9. ASSUME NEW a \in Attempts, Answer(a) PROVE IInv'
    BY <2>9, AnswerKeeps
  <2>10. ASSUME NEW a \in Attempts, LoseAnswer(a) PROVE IInv'
    BY <2>10, LoseAnswerKeeps
  <2>11. ASSUME NEW a \in Attempts, AskCarrier(a) PROVE IInv'
    BY <2>11, AskCarrierKeeps
  <2>12. ASSUME NEW a \in Attempts, Release(a) PROVE IInv'
    BY <2>12, ReleaseKeeps
  <2>13. ASSUME NEW a \in Attempts, SaveLabel(a) PROVE IInv'
    BY <2>13, SaveLabelKeeps
  <2>14. ASSUME NEW a \in Attempts, CompleteLabel(a) PROVE IInv'
    BY <2>14, CompleteLabelKeeps
  <2>15. ASSUME NEW a \in Attempts, Crash(a) PROVE IInv'
    BY <2>15, CrashKeeps
  <2>16. CASE GoStale
    BY <2>16, GoStaleKeeps
  <2>17. CASE UNCHANGED vars
    BY <2>17 DEF vars, IInv, TypeOK, OneLivePurchase, PurchaseKeepsRow, HolderInv,
                   NothingBought, StaleInv, SavedInv, SomethingBought, Holds
  <2>18. QED
    BY <2>1, <2>2, <2>3, <2>4, <2>5, <2>6, <2>7, <2>8, <2>9, <2>10, <2>11, <2>12, <2>13, <2>14, <2>15, <2>16, <2>17 DEF Next
<1>3. QED
  BY <1>1, <1>2, TypeCorrect, PTL DEF Spec

\* However many attempts run, crash and retry, at most one purchase for the
\* return is ever open or successful (the lock row and the reconciliation).
THEOREM PurchasedOnce ==
  ASSUME Trusted
  PROVE  Spec => []OneLivePurchase
<1>1. IInv => OneLivePurchase
  BY DEF IInv
<1>2. QED
  BY <1>1, Invariance, PTL

\* A purchase that may have gone through always has a row that says so.
THEOREM PurchaseRemembered ==
  ASSUME Trusted
  PROVE  Spec => []PurchaseKeepsRow
<1>1. IInv => PurchaseKeepsRow
  BY DEF IInv
<1>2. QED
  BY <1>1, Invariance, PTL

-----------------------------------------------------------------------------
(* The promise of OneLabel.                                                *)

\* One step never takes a label off file or moves it to another row.
LEMMA RowStaysOnFile ==
  ASSUME IInv, TypeOK', Next, row # None, row.status \in OnFileStatus
  PROVE  row' # None /\ row'.status \in OnFileStatus /\ row'.maker = row.maker
<1> USE NoneAssumption DEF IInv, TypeOK, Holds, LockRow, RowStatus, OnFileStatus, SavedInv,
                            SomethingBought, NothingBought, Unbought
<1>1. CASE row' = row
  BY <1>1
<1>2. ASSUME NEW a \in Attempts, Evict(a)
      PROVE  row' # None /\ row'.status \in OnFileStatus /\ row'.maker = row.maker
  BY <1>2 DEF Evict, StaleInv
<1>3. ASSUME NEW a \in Attempts, Take(a)
      PROVE  row' # None /\ row'.status \in OnFileStatus /\ row'.maker = row.maker
  BY <1>3 DEF Take
<1>4. ASSUME NEW a \in Attempts, MarkBuying(a)
      PROVE  row' # None /\ row'.status \in OnFileStatus /\ row'.maker = row.maker
  BY <1>4 DEF MarkBuying, HolderInv, HoldSteps
<1>5. ASSUME NEW a \in Attempts, Release(a)
      PROVE  row' # None /\ row'.status \in OnFileStatus /\ row'.maker = row.maker
  BY <1>5 DEF Release, HolderInv, HoldSteps
<1>6. ASSUME NEW a \in Attempts, SaveLabel(a)
      PROVE  row' # None /\ row'.status \in OnFileStatus /\ row'.maker = row.maker
  BY <1>6 DEF SaveLabel
<1>7. ASSUME NEW a \in Attempts, CompleteLabel(a)
      PROVE  row' # None /\ row'.status \in OnFileStatus /\ row'.maker = row.maker
  BY <1>7 DEF CompleteLabel
<1>8. CASE GoStale
  BY <1>8 DEF GoStale
<1>9. QED
  BY <1>1, <1>2, <1>3, <1>4, <1>5, <1>6, <1>7, <1>8
  DEF Next, Begin, Reconcile, FailBeforePurchase, SendPurchase, CarrierBooks, Answer, LoseAnswer,
         AskCarrier, Crash

\* Under Trusted (no attempt outlasts the lock, nothing lands late) a saved
\* label is never deleted or replaced, whatever stale snapshot of the row
\* another attempt acts on.
THEOREM LabelSavedForGood ==
  ASSUME Trusted
  PROVE  Spec => SavedForGood
<1>1. IInv /\ TypeOK' /\ [Next]_vars =>
        [row # None /\ row.status \in OnFileStatus
           => row' # None /\ row'.status \in OnFileStatus /\ row'.maker = row.maker]_vars
  BY RowStaysOnFile
<1>2. QED
  BY <1>1, Invariance, TypeCorrect, PTL DEF Spec, SavedForGood

Bought == {a \in Attempts : tx[a] = "success"}
Filed  == row # None /\ row.status \in OnFileStatus

\* A step leaves the successful purchases alone, or is the first success.
LEMMA FirstSuccess ==
  ASSUME IInv, IInv', Next
  PROVE  Bought' = Bought \/ (Bought = {} /\ (\E p \in Attempts : Bought' = {p}) /\ row' = row)
<1> USE DEF IInv, TypeOK, Bought
<1>1. CASE tx' = tx
  BY <1>1
<1>2. ASSUME NEW a \in Attempts, SendPurchase(a) PROVE Bought' = Bought
  BY <1>2 DEF SendPurchase, HolderInv, NothingBought, Unbought
<1>3. ASSUME NEW a \in Attempts, CarrierBooks(a)
      PROVE  Bought' = Bought \/ (Bought = {} /\ Bought' = {a} /\ row' = row)
  <2>1. tx[a] \in {"inflight", "queued"} /\ row' = row
        /\ \E s \in {"queued", "error", "success"} : tx' = [tx EXCEPT ![a] = s]
    BY <1>3 DEF CarrierBooks
  <2>2. CASE tx'[a] = "success"
    <3>1. \A b \in Attempts \ {a} : tx[b] # "success" /\ tx'[b] # "success"
      BY <2>1 DEF OneLivePurchase, Live
    <3>2. QED
      BY <2>1, <2>2, <3>1
  <2>3. CASE tx'[a] # "success"
    BY <2>1, <2>3
  <2>4. QED
    BY <2>2, <2>3
<1>4. QED
  BY <1>1, <1>2, <1>3
  DEF Next, Begin, Reconcile, Evict, Take, MarkBuying, FailBeforePurchase, Answer, LoseAnswer,
      AskCarrier, Release, SaveLabel, CompleteLabel, Crash, GoStale

\* generateLabel implements OneLabel: under any interleaving, crash and retry
\* it buys once, and files what it bought for good.
THEOREM Refinement ==
  ASSUME Trusted
  PROVE  Spec => KeepsPromise
<1>1. Init => Promise!Init
  BY DEF Init, Promise!Init
<1>2. IInv /\ IInv' /\ [Next]_vars =>
        [Promise!Buy \/ Promise!File]_<<Bought, Filed>>
  <2> SUFFICES ASSUME IInv, IInv', [Next]_vars
               PROVE  [Promise!Buy \/ Promise!File]_<<Bought, Filed>>
    OBVIOUS
  <2>1. CASE UNCHANGED vars
    BY <2>1 DEF vars, Bought, Filed
  <2>2. CASE Next
    <3>1. Filed => Filed'
      BY <2>2, RowStaysOnFile DEF Filed, IInv
    <3>2. Filed' => Bought' # {}
      BY DEF Filed, Bought, IInv, SavedInv, SomethingBought
    <3>3. Bought' = Bought \/ (Bought = {} /\ (\E p \in Attempts : Bought' = {p}) /\ Filed' = Filed)
      BY <2>2, FirstSuccess DEF Filed
    <3>4. Filed \in BOOLEAN /\ Filed' \in BOOLEAN
      BY DEF Filed
    <3>5. QED
      BY <3>1, <3>2, <3>3, <3>4 DEF Promise!Buy, Promise!File, Bought, Filed
  <2>3. QED
    BY <2>1, <2>2
<1>3. QED
  BY <1>1, <1>2, Invariance, PTL DEF Spec, KeepsPromise, Promise!Spec, Bought, Filed

=============================================================================
