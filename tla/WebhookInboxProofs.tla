------------------------- MODULE WebhookInboxProofs -------------------------
(***************************************************************************)
(* Proofs about what comes in by webhook: the inbox every event goes       *)
(* through, and the erasure requests behind it, which share no state with  *)
(* it.  For any number of deliveries, writers and faults.                  *)
(***************************************************************************)
EXTENDS WebhookInbox, PrivacyRequests, Integers, FiniteSets, FiniteSetTheorems, TLAPS

\* Deliveries, key and counters keep their shape.
THEOREM TypeCorrect == Spec => []TypeOK
<1>1. Init => TypeOK
  <2> SUFFICES ASSUME Init PROVE TypeOK
    OBVIOUS
  <2>1. acked \in BOOLEAN /\ blind \in BOOLEAN
    BY Zenon DEF Init
  <2>2. pc \in [Deliveries -> Steps] /\ key = "none" /\ applied \in Nat /\ faults \in 0..MaxFaults
    BY BoundAssumption DEF Init, Steps
  <2> QED BY <2>1, <2>2 DEF TypeOK
<1>2. TypeOK /\ [Next]_vars => TypeOK'
  <2> SUFFICES ASSUME TypeOK, [Next]_vars PROVE TypeOK'
    OBVIOUS
  <2> USE BoundAssumption DEF TypeOK, Goto, Fault, NoFault
  <2>1. ASSUME NEW d \in Deliveries, Arrive(d) PROVE TypeOK'
    BY <2>1 DEF Arrive, Steps
  <2>2. ASSUME NEW d \in Deliveries, Claim(d) PROVE TypeOK'
    BY <2>2 DEF Claim, Steps, Working
  <2>3. ASSUME NEW d \in Deliveries, ReadStatus(d) PROVE TypeOK'
    <3>1. acked' \in BOOLEAN /\ blind' \in BOOLEAN
      BY <2>3, Zenon DEF ReadStatus
    <3>2. /\ pc' \in [Deliveries -> Steps] /\ faults' \in 0..MaxFaults
          /\ UNCHANGED <<key, applied>>
      BY <2>3 DEF ReadStatus, Steps
    <3> QED BY <3>1, <3>2
  <2>4. ASSUME NEW d \in Deliveries, Handle(d) PROVE TypeOK'
    BY <2>4 DEF Handle, Steps, Working
  <2>5. ASSUME NEW d \in Deliveries, Answer(d) PROVE TypeOK'
    <3>1. acked' \in BOOLEAN /\ blind' \in BOOLEAN
      BY <2>5, Zenon DEF Answer
    <3>2. /\ pc' \in [Deliveries -> Steps] /\ faults' \in 0..MaxFaults
          /\ UNCHANGED <<key, applied>>
      BY <2>5 DEF Answer, Steps, Working
    <3> QED BY <3>1, <3>2
  <2>6. ASSUME NEW d \in Deliveries, Complete(d) PROVE TypeOK'
    BY <2>6 DEF Complete, Steps
  <2>7. ASSUME NEW d \in Deliveries, Release(d) PROVE TypeOK'
    BY <2>7 DEF Release, Steps
  <2>8. ASSUME NEW d \in Deliveries, Crash(d) PROVE TypeOK'
    BY <2>8 DEF Crash, Steps
  <2>9. CASE Lapse
    BY <2>9 DEF Lapse
  <2>10. CASE UNCHANGED vars
    BY <2>10 DEF vars
  <2> QED
    BY <2>1, <2>2, <2>3, <2>4, <2>5, <2>6, <2>7, <2>8, <2>9, <2>10 DEF Next, Serve
<1> QED BY <1>1, <1>2, PTL DEF Spec

-----------------------------------------------------------------------------
\* What an acknowledgement rests on: a handler's writes come before its
\* answer, and so before the key is left "done" for others to go by.
Applied == applied > 0

AckInv ==
  /\ acked /\ ~blind => Applied
  /\ key = "done" => Applied
  /\ \A d \in Deliveries : pc[d] \in {"answer", "complete"} => Applied

\* A delivery only ever adds to what was applied.
LEMMA AppliedStays ==
  ASSUME TypeOK, [Next]_vars
  PROVE  Applied => Applied'
BY DEF TypeOK, Next, Serve, Arrive, Claim, ReadStatus, Handle, Answer, Complete, Release, Crash,
       Lapse, Applied, vars

\* A 2xx answer rests on work that was done, unless it was given by a delivery
\* that found no key to go by.
THEOREM AcknowledgedIsApplied == Spec => []AckedIsApplied
<1>1. Init => AckInv
  BY DEF Init, AckInv
<1>2. TypeOK /\ AckInv /\ [Next]_vars => AckInv'
  <2> SUFFICES ASSUME TypeOK, AckInv, [Next]_vars PROVE AckInv'
    OBVIOUS
  <2>0. Applied => Applied'
    BY AppliedStays
  <2> USE <2>0 DEF AckInv, Goto
  <2>1. ASSUME NEW d \in Deliveries, Arrive(d) PROVE AckInv'
    BY <2>1 DEF Arrive, TypeOK
  <2>2. ASSUME NEW d \in Deliveries, Claim(d) PROVE AckInv'
    BY <2>2 DEF Claim, TypeOK
  <2>3. ASSUME NEW d \in Deliveries, ReadStatus(d) PROVE AckInv'
    <3>1. \A e \in Deliveries : pc'[e] \in {"answer", "complete"} => pc[e] \in {"answer", "complete"}
      BY <2>3 DEF ReadStatus, TypeOK
    <3>2. key' = key
      BY <2>3 DEF ReadStatus
    <3>3. acked' /\ ~blind' => Applied
      <4>1. CASE key = "done"
        BY <4>1
      <4>2. CASE key = "none"
        BY <4>2, <2>3, Zenon DEF ReadStatus
      <4>3. CASE key = "processing"
        <5>1. \/ (acked' <=> acked \/ key # "processing") /\ (blind' <=> blind \/ key = "none")
              \/ blind'
          BY <2>3, Zenon DEF ReadStatus
        <5> QED BY <5>1, <4>3
      <4> QED BY <4>1, <4>2, <4>3 DEF TypeOK
    <3> QED BY <3>1, <3>2, <3>3
  <2>4. ASSUME NEW d \in Deliveries, Handle(d) PROVE AckInv'
    <3>1. pc'[d] = "answer" => Applied'
      BY <2>4 DEF Handle, TypeOK, Applied
    <3>2. \A e \in Deliveries \ {d} : pc'[e] = pc[e]
      BY <2>4 DEF Handle, TypeOK
    <3>3. pc'[d] \in {"answer", "release"} /\ UNCHANGED <<key, acked, blind>>
      BY <2>4 DEF Handle, TypeOK
    <3> QED BY <3>1, <3>2, <3>3
  <2>5. ASSUME NEW d \in Deliveries, Answer(d) PROVE AckInv'
    <3>1. Applied
      BY <2>5 DEF Answer
    <3> QED BY <3>1
  <2>6. ASSUME NEW d \in Deliveries, Complete(d) PROVE AckInv'
    <3>1. Applied
      BY <2>6 DEF Complete
    <3> QED BY <3>1
  <2>7. ASSUME NEW d \in Deliveries, Release(d) PROVE AckInv'
    BY <2>7 DEF Release, TypeOK
  <2>8. ASSUME NEW d \in Deliveries, Crash(d) PROVE AckInv'
    BY <2>8 DEF Crash, TypeOK
  <2>9. CASE Lapse
    BY <2>9 DEF Lapse
  <2>10. CASE UNCHANGED vars
    BY <2>10 DEF vars, Applied
  <2> QED
    BY <2>1, <2>2, <2>3, <2>4, <2>5, <2>6, <2>7, <2>8, <2>9, <2>10 DEF Next, Serve
<1>3. AckInv => AckedIsApplied
  BY DEF AckInv, AckedIsApplied, Applied
<1> QED BY <1>1, <1>2, <1>3, TypeCorrect, PTL DEF Spec

-----------------------------------------------------------------------------
(* How often an event is applied.                                          *)

At(X) == {d \in Deliveries : pc[d] \in X}

One(b) == IF b THEN 1 ELSE 0

\* A delivery that moves changes what is counted at some steps by itself.
LEMMA MoveCounts ==
  ASSUME TypeOK, NEW d \in Deliveries, NEW step, Goto(d, step), NEW X, IsFiniteSet(At(X))
  PROVE  /\ IsFiniteSet(At(X)')
         /\ Cardinality(At(X)) \in Nat /\ Cardinality(At(X)') \in Nat
         /\ Cardinality(At(X)') = Cardinality(At(X)) + One(step \in X) - One(pc[d] \in X)
<1>1. pc'[d] = step /\ \A e \in Deliveries \ {d} : pc'[e] = pc[e]
  BY DEF Goto, TypeOK
<1>2. Cardinality(At(X)) \in Nat
  BY FS_CardinalityType
<1>3. d \in At(X) <=> pc[d] \in X
  BY DEF At
<1>4. CASE step \in X
  <2>1. At(X)' = At(X) \cup {d}
    BY <1>1, <1>4 DEF At
  <2>2. IsFiniteSet(At(X) \cup {d}) /\ Cardinality(At(X) \cup {d}) =
          IF d \in At(X) THEN Cardinality(At(X)) ELSE Cardinality(At(X)) + 1
    BY FS_AddElement
  <2>3. IsFiniteSet(At(X)') /\ Cardinality(At(X)') = IF pc[d] \in X THEN Cardinality(At(X)) ELSE Cardinality(At(X)) + 1
    BY <1>3, <2>1, <2>2
  <2> HIDE DEF At
  <2> QED BY <1>2, <1>4, <2>3 DEF One
<1>5. CASE step \notin X
  <2>1. At(X)' = At(X) \ {d}
    BY <1>1, <1>5 DEF At
  <2>2. IsFiniteSet(At(X) \ {d}) /\ Cardinality(At(X) \ {d}) =
          IF d \in At(X) THEN Cardinality(At(X)) - 1 ELSE Cardinality(At(X))
    BY FS_RemoveElement
  <2>3. IsFiniteSet(At(X)') /\ Cardinality(At(X)') = IF pc[d] \in X THEN Cardinality(At(X)) - 1 ELSE Cardinality(At(X))
    BY <1>3, <2>1, <2>2
  <2>4. Cardinality(At(X)') \in Nat
    BY <2>3, FS_CardinalityType
  <2> QED BY <1>2, <1>5, <2>3, <2>4 DEF One
<1> QED BY <1>4, <1>5

\* Those that may yet apply the event, or give the key to one that will.
Risky == At({"handle", "release"})

\* The key is free, or nobody is left to see that its lease is over.
Free == key = "none" \/ (key = "processing" /\ ~Held)

\* What was applied, what may be, and what a free key lets in, each beyond the
\* first was paid for.
OnceInv == IsFiniteSet(Risky) /\ applied + Cardinality(Risky) + One(Free) <= 1 + faults

\* Beyond the first, every time an event is applied was paid for by a fault.
THEOREM EventAppliedOnce == Spec => []AppliedOnce
<1>1. Init => OnceInv
  <2> SUFFICES ASSUME Init PROVE OnceInv
    OBVIOUS
  <2>1. Risky = {} /\ One(Free) = 1 /\ applied = 0 /\ faults = 0
    BY DEF Init, Risky, At, Free, One
  <2> QED BY <2>1, FS_EmptySet DEF OnceInv
<1>2. TypeOK /\ OnceInv /\ [Next]_vars => OnceInv'
  <2> SUFFICES ASSUME TypeOK, OnceInv, [Next]_vars PROVE OnceInv'
    OBVIOUS
  <2> DEFINE X == {"handle", "release"}
             N == Cardinality(Risky)
             NN == Cardinality(Risky')
             F == One(Free)
             FF == One(Free')
  <2>0. /\ applied \in Nat /\ faults \in Nat /\ N \in Nat /\ IsFiniteSet(Risky)
        /\ applied + N + F <= 1 + faults
    BY BoundAssumption, FS_CardinalityType DEF TypeOK, OnceInv
  <2>f. F \in 0..1 /\ FF \in 0..1 /\ ((Free' => Free) => FF <= F) /\ (~Free' => FF = 0) /\ (Free => F = 1)
    BY DEF One
  <2>m. ASSUME NEW d \in Deliveries, NEW step, Goto(d, step)
        PROVE  /\ IsFiniteSet(Risky') /\ NN \in Nat
               /\ NN = N + One(step \in X) - One(pc[d] \in X)
    BY <2>0, <2>m, MoveCounts DEF Risky
  <2>g. ASSUME IsFiniteSet(Risky'), applied' + NN + FF <= 1 + faults' PROVE OnceInv'
    BY <2>g DEF OnceInv
  <2>h. ASSUME NEW d \in Deliveries, NEW step, Goto(d, step)
        PROVE  /\ step \in Working => Held'
               /\ (pc[d] \in Working <=> step \in Working) => (Held' <=> Held)
    BY <2>h DEF Held, Goto, TypeOK
  <2> HIDE DEF N, NN, F, FF
  <2>1. ASSUME NEW d \in Deliveries, Arrive(d) PROVE OnceInv'
    <3>1. Goto(d, "claim") /\ pc[d] = "idle" /\ UNCHANGED <<key, applied, faults>>
      BY <2>1 DEF Arrive
    <3>2. Free' => Free
      BY <3>1, <2>h DEF Free, Working
    <3>3. IsFiniteSet(Risky') /\ NN = N
      BY <2>0, <2>m, <3>1 DEF One
    <3> QED BY <2>0, <2>f, <2>g, <3>1, <3>2, <3>3
  <2>2. ASSUME NEW d \in Deliveries, Claim(d) PROVE OnceInv'
    <3>1. CASE key = "none" /\ key' = "processing" /\ Goto(d, "handle") /\ NoFault
      <4>1. Free /\ ~Free'
        BY <3>1, <2>h DEF Free, Working
      <4>2. IsFiniteSet(Risky') /\ NN = N + 1
        BY <2>0, <2>2, <2>m, <3>1 DEF One, Claim
      <4> QED BY <2>0, <2>2, <2>f, <2>g, <3>1, <4>1, <4>2 DEF Claim, NoFault
    <3>2. CASE key # "none" /\ UNCHANGED key /\ Goto(d, "status") /\ NoFault
      <4>1. Free' => Free
        BY <2>2, <3>2, <2>h DEF Free, Working, Claim
      <4>2. IsFiniteSet(Risky') /\ NN = N
        BY <2>0, <2>2, <2>m, <3>2 DEF One, Claim
      <4> QED BY <2>0, <2>2, <2>f, <2>g, <3>2, <4>1, <4>2 DEF Claim, NoFault
    <3>3. CASE UNCHANGED key /\ Goto(d, "handle") /\ Fault
      <4>1. Free' => Free
        BY <3>3, <2>h DEF Free, Working
      <4>2. IsFiniteSet(Risky') /\ NN = N + 1
        BY <2>0, <2>2, <2>m, <3>3 DEF One, Claim
      <4> QED BY <2>0, <2>2, <2>f, <2>g, <3>3, <4>1, <4>2 DEF Claim, Fault
    <3> QED BY <2>2, <3>1, <3>2, <3>3 DEF Claim
  <2>3. ASSUME NEW d \in Deliveries, ReadStatus(d) PROVE OnceInv'
    <3>1. Goto(d, "idle") /\ pc[d] = "status" /\ UNCHANGED <<key, applied>> /\ (faults' = faults \/ faults' = faults + 1)
      BY <2>3 DEF ReadStatus, Fault, NoFault
    <3>2. Free' => Free
      BY <3>1, <2>h DEF Free, Working
    <3>3. IsFiniteSet(Risky') /\ NN = N
      BY <2>0, <2>m, <3>1 DEF One
    <3> QED BY <2>0, <2>f, <2>g, <3>1, <3>2, <3>3
  <2>4. ASSUME NEW d \in Deliveries, Handle(d) PROVE OnceInv'
    <3>1. pc[d] = "handle" /\ UNCHANGED key /\ (Goto(d, "answer") \/ Goto(d, "release"))
      BY <2>4 DEF Handle
    <3>2. Free' => Free
      BY <3>1, <2>h DEF Free, Working
    <3>3. CASE applied' = applied + 1 /\ Goto(d, "answer") /\ NoFault
      <4>1. IsFiniteSet(Risky') /\ NN = N - 1
        BY <2>0, <2>m, <3>1, <3>3 DEF One
      <4> QED BY <2>0, <2>f, <2>g, <3>2, <3>3, <4>1 DEF NoFault
    <3>4. CASE (applied' = applied \/ applied' = applied + 1) /\ Goto(d, "release") /\ Fault
      <4>1. IsFiniteSet(Risky') /\ NN = N
        BY <2>0, <2>m, <3>1, <3>4 DEF One
      <4> QED BY <2>0, <2>f, <2>g, <3>2, <3>4, <4>1 DEF Fault
    <3> QED BY <2>4, <3>3, <3>4 DEF Handle
  <2>5. ASSUME NEW d \in Deliveries, Answer(d) PROVE OnceInv'
    <3>1. pc[d] = "answer" /\ UNCHANGED <<key, applied>>
      BY <2>5 DEF Answer
    <3>2. CASE Goto(d, "complete") /\ (faults' = faults \/ faults' = faults + 1)
      <4>1. Free' => Free
        BY <3>1, <3>2, <2>h DEF Free, Working
      <4>2. IsFiniteSet(Risky') /\ NN = N
        BY <2>0, <2>m, <3>1, <3>2 DEF One
      <4> QED BY <2>0, <2>f, <2>g, <3>1, <3>2, <4>1, <4>2
    <3>3. CASE Goto(d, "idle") /\ faults' = faults + 1
      <4>1. IsFiniteSet(Risky') /\ NN = N
        BY <2>0, <2>m, <3>1, <3>3 DEF One
      <4> QED BY <2>0, <2>f, <2>g, <3>1, <3>3, <4>1
    <3> QED BY <2>5, <3>2, <3>3 DEF Answer, Fault, NoFault
  <2>6. ASSUME NEW d \in Deliveries, Complete(d) PROVE OnceInv'
    <3>1. /\ pc[d] = "complete" /\ Goto(d, "idle") /\ UNCHANGED applied
          /\ \/ key' = "done" /\ faults' = faults
             \/ faults' = faults + 1
      BY <2>6 DEF Complete, Fault, NoFault
    <3>2. key' = "done" => ~Free'
      BY DEF Free
    <3>3. IsFiniteSet(Risky') /\ NN = N
      BY <2>0, <2>m, <3>1 DEF One
    <3> QED BY <2>0, <2>f, <2>g, <3>1, <3>2, <3>3
  <2>7. ASSUME NEW d \in Deliveries, Release(d) PROVE OnceInv'
    <3>1. pc[d] = "release" /\ Goto(d, "idle") /\ UNCHANGED applied /\ (faults' = faults \/ faults' = faults + 1)
      BY <2>7 DEF Release, Fault, NoFault
    <3>2. IsFiniteSet(Risky') /\ NN = N - 1
      BY <2>0, <2>m, <3>1 DEF One
    <3> QED BY <2>0, <2>f, <2>g, <3>1, <3>2
  <2>8. ASSUME NEW d \in Deliveries, Crash(d) PROVE OnceInv'
    <3>1. Goto(d, "idle") /\ UNCHANGED applied /\ faults' = faults + 1
      BY <2>8 DEF Crash, Fault
    <3>2. IsFiniteSet(Risky') /\ NN \in Nat /\ NN <= N
      BY <2>0, <2>m, <3>1 DEF One
    <3> QED BY <2>0, <2>f, <2>g, <3>1, <3>2
  <2>9. CASE Lapse
    <3>1. Risky' = Risky /\ UNCHANGED applied
      BY <2>9 DEF Lapse, Risky, At
    <3>2. IsFiniteSet(Risky') /\ NN = N
      BY <2>0, <3>1 DEF N, NN
    <3>3. CASE Held
      BY <2>0, <2>f, <2>g, <2>9, <3>1, <3>2, <3>3 DEF Lapse, Fault
    <3>4. CASE ~Held
      <4>1. Free
        BY <2>9, <3>4 DEF Lapse, Free
      <4> QED BY <2>0, <2>f, <2>g, <2>9, <3>1, <3>2, <3>4, <4>1 DEF Lapse, NoFault
    <3> QED BY <3>3, <3>4
  <2>10. CASE UNCHANGED vars
    BY <2>10 DEF vars, OnceInv, Risky, At, Free, Held
  <2> QED
    BY <2>1, <2>2, <2>3, <2>4, <2>5, <2>6, <2>7, <2>8, <2>9, <2>10 DEF Next, Serve
<1>3. TypeOK /\ OnceInv => AppliedOnce
  <2> SUFFICES ASSUME TypeOK, OnceInv PROVE applied <= 1 + faults
    BY DEF AppliedOnce
  <2>1. Cardinality(Risky) \in Nat /\ One(Free) \in 0..1 /\ applied \in Nat /\ faults \in Nat
    BY BoundAssumption, FS_CardinalityType DEF OnceInv, One, TypeOK
  <2> QED BY <2>1 DEF OnceInv
<1> QED BY <1>1, <1>2, <1>3, TypeCorrect, PTL DEF Spec

-----------------------------------------------------------------------------
(* Erasure.  The parts of the invariant:                                   *)

Row      == [email : {"own", "alias"}, words : BOOLEAN, links : BOOLEAN, trail : BOOLEAN]
Handling == [found : SUBSET Returns, todo : SUBSET Returns]
Writing  == [kind : {"upload", "label", "data"}, of : SUBSET Returns, stage : {"read", "put"},
             begun : SUBSET Returns, personal : BOOLEAN]

Shape ==
  /\ ret \in [Returns -> Row \cup {None}]
  /\ files \in [Returns -> Nat]
  /\ attempt \in [Attempts -> Handling \cup {None}]
  /\ writer \in [Writers -> Writing \cup {None}]
  /\ erased \in SUBSET Returns
  /\ excuse \in [Returns -> SUBSET {"late", "overflow", "swallowed"}]

\* Where an attempt has been, no files are left.
DeletedInv ==
  \A a \in Attempts : attempt[a] # None =>
    \A r \in attempt[a].found \ attempt[a].todo : excuse[r] = {} => files[r] = 0

\* A writer that began after the erasure found nothing personal to write.
WriterInv ==
  \A w \in Writers : writer[w] # None =>
    \A r \in writer[w].of \ writer[w].begun :
      /\ r \in erased
      /\ (excuse[r] = {}) => (writer[w].kind = "label" /\ ~writer[w].personal)

ErasureInv == Shape /\ DeletedInv /\ WriterInv /\ Erased


\* Never below zero.
LEMMA MaxWithZero ==
  ASSUME NEW x \in Int
  PROVE  Max({0, x}) = IF x >= 0 THEN x ELSE 0
<1>1. \E z \in {0, x} : \A y \in {0, x} : z >= y
  OBVIOUS
<1>2. Max({0, x}) \in {0, x} /\ \A y \in {0, x} : Max({0, x}) >= y
  BY <1>1, Zenon DEF Max
<1> QED BY <1>2

\* What excuses a return is never forgotten.
LEMMA ExcusedTyped ==
  ASSUME Shape, NEW R, NEW why \in {"late", "overflow", "swallowed"}, Excused(R, why)
  PROVE  /\ excuse' \in [Returns -> SUBSET {"late", "overflow", "swallowed"}]
         /\ \A r \in Returns : /\ excuse'[r] = {} => (excuse[r] = {} /\ r \notin R)
BY DEF Shape, Excused

\* Every step keeps the shape.
LEMMA ShapeStep == Shape /\ [ErasureNext]_erasureVars => Shape'
<1> SUFFICES ASSUME Shape, [ErasureNext]_erasureVars PROVE Shape'
  OBVIOUS
<1> USE SizeAssumption DEF Shape
<1>1. CASE CreateReturn
  <2>1. PICK r \in Returns :
          ret' = [ret EXCEPT ![r] = [email |-> "own", words |-> TRUE, links |-> FALSE, trail |-> FALSE]]
    BY <1>1 DEF CreateReturn
  <2>2. [email |-> "own", words |-> TRUE, links |-> FALSE, trail |-> FALSE] \in Row
    BY Zenon DEF Row
  <2>3. UNCHANGED <<files, attempt, writer, erased, excuse>>
    BY <1>1 DEF CreateReturn
  <2> QED BY <2>1, <2>2, <2>3
<1>2. CASE Ask \/ LeaseLapses
  BY <1>2 DEF Ask, LeaseLapses
<1>3. CASE ProcessDies
  BY <1>3 DEF ProcessDies
<1>4. ASSUME NEW a \in Attempts, Deliver(a) PROVE Shape'
  <2>1. [found |-> OnFile, todo |-> OnFile] \in Handling
    BY DEF Handling, OnFile
  <2> QED BY <1>4, <2>1 DEF Deliver
<1>5. ASSUME NEW a \in Attempts, DeleteFiles(a) PROVE Shape'
  <2>1. PICK r \in attempt[a].todo :
          /\ files' = [files EXCEPT ![r] = Max({0, files[r] - PageSize})]
          /\ attempt' = [attempt EXCEPT ![a].todo = attempt[a].todo \ {r}]
          /\ Excused({r} \cap {q \in Returns : files[q] > PageSize}, "overflow")
    BY <1>5 DEF DeleteFiles
  <2>2. attempt[a] \in Handling /\ r \in Returns
    BY <1>5 DEF DeleteFiles, Handling
  <2>3. [attempt[a] EXCEPT !.todo = attempt[a].todo \ {r}] \in Handling
    BY <2>2 DEF Handling
  <2>4. Max({0, files[r] - PageSize}) \in Nat
    <3>1. files[r] \in Nat /\ files[r] - PageSize \in Int
      BY <2>2
    <3> QED BY <3>1, MaxWithZero
  <2>5. excuse' \in [Returns -> SUBSET {"late", "overflow", "swallowed"}]
    BY <2>1, ExcusedTyped
  <2>6. UNCHANGED <<ret, writer, erased>>
    BY <1>5 DEF DeleteFiles
  <2> QED BY <2>1, <2>3, <2>4, <2>5, <2>6
<1>6. ASSUME NEW a \in Attempts, StorageFails(a) PROVE Shape'
  <2>1. attempt[a] \in Handling
    BY <1>6 DEF StorageFails
  <2>2. files' \in [Returns -> Nat]
    <3>1. PICK r \in attempt[a].todo, n \in 0..MaxWrites : files' = [files EXCEPT ![r] = n]
      BY <1>6 DEF StorageFails
    <3>2. n \in Nat
      OBVIOUS
    <3> QED BY <3>1, <3>2
  <2>3. attempt' \in [Attempts -> Handling \cup {None}]
    <3>1. [attempt[a] EXCEPT !.todo = {}] \in Handling
      BY <2>1 DEF Handling
    <3> QED BY <1>6, <3>1 DEF StorageFails
  <2>4. excuse' \in [Returns -> SUBSET {"late", "overflow", "swallowed"}]
    <3>1. Excused(attempt[a].todo, "swallowed") \/ UNCHANGED excuse
      BY <1>6 DEF StorageFails
    <3> QED BY <3>1, ExcusedTyped
  <2> QED BY <1>6, <2>2, <2>3, <2>4 DEF StorageFails
<1>7. ASSUME NEW a \in Attempts, Redact(a) PROVE Shape'
  <2>1. attempt[a] \in Handling
    BY <1>7 DEF Redact
  <2>2. erased' \in SUBSET Returns
    BY <1>7, <2>1 DEF Redact, Handling
  <2>3. [email |-> "alias", words |-> FALSE, links |-> FALSE, trail |-> FALSE] \in Row
    BY Zenon DEF Row
  <2>4. ret' \in [Returns -> Row \cup {None}]
    BY <1>7, <2>3 DEF Redact
  <2> QED BY <1>7, <2>2, <2>4 DEF Redact
<1>8. ASSUME NEW a \in Attempts, DatabaseFails(a) PROVE Shape'
  BY <1>8 DEF DatabaseFails
<1>9. ASSUME NEW w \in Writers, Begin(w) PROVE Shape'
  <2>1. PICK kind \in {"upload", "label", "data"}, R \in SUBSET OnFile :
          writer' = [writer EXCEPT ![w] = [kind |-> kind, of |-> R, stage |-> "read", begun |-> R \ erased,
                                           personal |-> \E r \in R : ret[r].email = "own"]]
    BY <1>9 DEF Begin
  <2>2. [kind |-> kind, of |-> R, stage |-> "read", begun |-> R \ erased,
         personal |-> \E r \in R : ret[r].email = "own"] \in Writing
    <3>1. R \in SUBSET Returns /\ R \ erased \in SUBSET Returns
      BY DEF OnFile
    <3> QED BY <3>1, Zenon DEF Writing
  <2> QED BY <1>9, <2>1, <2>2 DEF Begin
<1>10. ASSUME NEW w \in Writers, PutFile(w) PROVE Shape'
  <2>1. writer[w] \in Writing
    BY <1>10 DEF PutFile
  <2>2. [writer[w] EXCEPT !.stage = "put"] \in Writing
    BY <2>1 DEF Writing
  <2>3. writer' = [writer EXCEPT ![w].stage = "put"] /\ UNCHANGED <<ret, attempt, erased>>
    BY <1>10 DEF PutFile
  <2>4. excuse' \in [Returns -> SUBSET {"late", "overflow", "swallowed"}]
    BY <1>10, ExcusedTyped DEF PutFile
  <2>5. files' \in [Returns -> Nat]
    BY <1>10 DEF PutFile
  <2> QED BY <2>2, <2>3, <2>4, <2>5
<1>11. ASSUME NEW w \in Writers, Write(w) PROVE Shape'
  <2>1. excuse' \in [Returns -> SUBSET {"late", "overflow", "swallowed"}]
    BY <1>11, ExcusedTyped DEF Write
  <2>2. writer[w] \in Writing
    BY <1>11 DEF Write
  <2>3. ASSUME NEW r \in Returns, r \in OnFile
        PROVE  /\ [ret[r] EXCEPT !.links = TRUE] \in Row
               /\ [ret[r] EXCEPT !.trail = ret[r].trail \/ writer[w].personal] \in Row
    <3>1. ret[r] \in Row
      BY <2>3 DEF OnFile
    <3>2. (ret[r].trail \/ writer[w].personal) \in BOOLEAN
      BY Zenon
    <3> QED BY <3>1, <3>2 DEF Row
  <2>4. ret' \in [Returns -> Row \cup {None}]
    BY <1>11, <2>3 DEF Write
  <2> QED BY <1>11, <2>1, <2>4 DEF Write
<1>12. ASSUME NEW w \in Writers, GiveUp(w) PROVE Shape'
  BY <1>12 DEF GiveUp
<1>13. CASE UNCHANGED erasureVars
  BY <1>13 DEF erasureVars
<1> QED
  BY <1>1, <1>2, <1>3, <1>4, <1>5, <1>6, <1>7, <1>8, <1>9, <1>10, <1>11, <1>12, <1>13
  DEF ErasureNext, Work

\* No step takes an excuse away.
LEMMA ExcusesStay ==
  ASSUME Shape, [ErasureNext]_erasureVars, NEW r \in Returns, excuse'[r] = {}
  PROVE  excuse[r] = {}
<1>1. ASSUME NEW R, Excused(R, "late") \/ Excused(R, "overflow") \/ Excused(R, "swallowed")
      PROVE  excuse[r] = {}
  BY <1>1, ExcusedTyped
<1>2. ASSUME NEW a \in Attempts, DeleteFiles(a) PROVE excuse[r] = {}
  BY <1>1, <1>2 DEF DeleteFiles
<1>3. ASSUME NEW a \in Attempts, StorageFails(a) PROVE excuse[r] = {}
  BY <1>1, <1>3 DEF StorageFails
<1>4. ASSUME NEW w \in Writers, PutFile(w) \/ Write(w) PROVE excuse[r] = {}
  BY <1>1, <1>4 DEF PutFile, Write
<1>5. ASSUME NEW a \in Attempts, Deliver(a) \/ Redact(a) \/ DatabaseFails(a)
      PROVE  UNCHANGED excuse
  BY <1>5 DEF Deliver, Redact, DatabaseFails
<1>6. ASSUME NEW w \in Writers, Begin(w) \/ GiveUp(w)
      PROVE  UNCHANGED excuse
  BY <1>6 DEF Begin, GiveUp
<1>7. CASE CreateReturn \/ Ask \/ LeaseLapses \/ ProcessDies \/ UNCHANGED erasureVars
  BY <1>7 DEF CreateReturn, Ask, LeaseLapses, ProcessDies, erasureVars
<1> QED BY <1>2, <1>3, <1>4, <1>5, <1>6, <1>7 DEF ErasureNext, Work

\* Files come back only where there is an excuse for it.
LEMMA DeletedStep == ErasureInv /\ [ErasureNext]_erasureVars => DeletedInv'
<1> SUFFICES ASSUME ErasureInv, [ErasureNext]_erasureVars,
                    NEW b \in Attempts, attempt'[b] # None,
                    NEW q \in attempt'[b].found \ attempt'[b].todo, excuse'[q] = {}
             PROVE  files'[q] = 0
  BY DEF DeletedInv
<1> USE SizeAssumption
<1>0. Shape /\ Shape' /\ DeletedInv /\ q \in Returns
  <2>1. Shape /\ Shape' /\ DeletedInv
    BY ShapeStep DEF ErasureInv
  <2> QED BY <2>1 DEF Shape, Handling
<1>1. excuse[q] = {}
  BY <1>0, ExcusesStay
<1>2. CASE UNCHANGED <<attempt, files>>
  BY <1>0, <1>1, <1>2 DEF DeletedInv
<1>3. CASE CreateReturn \/ Ask \/ LeaseLapses \/ UNCHANGED erasureVars
  BY <1>2, <1>3 DEF CreateReturn, Ask, LeaseLapses, erasureVars
<1>4. ASSUME NEW w \in Writers, Begin(w) \/ Write(w) \/ GiveUp(w) PROVE files'[q] = 0
  BY <1>2, <1>4 DEF Begin, Write, GiveUp
<1>5. ASSUME NEW a \in Attempts, Deliver(a) PROVE files'[q] = 0
  <2>1. b # a
    BY <1>0, <1>5 DEF Deliver, Shape
  <2> QED BY <1>0, <1>1, <1>5, <2>1 DEF Deliver, DeletedInv, Shape
<1>6. ASSUME NEW a \in Attempts, DatabaseFails(a) \/ Redact(a) PROVE files'[q] = 0
  BY <1>0, <1>1, <1>6 DEF DatabaseFails, Redact, DeletedInv, Shape
<1>7. CASE ProcessDies
  BY <1>7 DEF ProcessDies
<1>8. ASSUME NEW a \in Attempts, DeleteFiles(a) PROVE files'[q] = 0
  <2>1. PICK r \in attempt[a].todo :
          /\ files' = [files EXCEPT ![r] = Max({0, files[r] - PageSize})]
          /\ attempt' = [attempt EXCEPT ![a].todo = attempt[a].todo \ {r}]
          /\ Excused({r} \cap {p \in Returns : files[p] > PageSize}, "overflow")
    BY <1>8 DEF DeleteFiles
  <2>2. attempt[a] \in Handling /\ r \in Returns /\ attempt[b] # None
    BY <1>0, <1>8, <2>1 DEF DeleteFiles, Handling, Shape
  <2>3. CASE q = r
    <3>1. ~(files[r] > PageSize)
      BY <1>0, <2>1, <2>3, ExcusedTyped
    <3>2. files[r] \in Nat /\ files[r] - PageSize \in Int /\ files[r] - PageSize <= 0
      BY <1>0, <2>2, <3>1 DEF Shape
    <3>3. Max({0, files[r] - PageSize}) = 0
      BY <3>2, MaxWithZero
    <3> QED BY <1>0, <2>1, <2>3, <3>3 DEF Shape
  <2>4. CASE q # r
    <3>1. q \in attempt[b].found \ attempt[b].todo
      BY <1>0, <2>1, <2>2, <2>4 DEF Shape, Handling
    <3> QED BY <1>0, <1>1, <2>1, <2>2, <2>4, <3>1 DEF DeletedInv, Shape
  <2> QED BY <2>3, <2>4
<1>9. ASSUME NEW a \in Attempts, StorageFails(a) PROVE files'[q] = 0
  <2>1. PICK r \in attempt[a].todo, n \in 0..MaxWrites : n <= files[r] /\ files' = [files EXCEPT ![r] = n]
    BY <1>9 DEF StorageFails
  <2>2. attempt[a] \in Handling /\ r \in Returns
    BY <1>0, <1>9, <2>1 DEF StorageFails, Handling, Shape
  <2>3. ASSUME files[q] = 0 PROVE files'[q] = 0
    BY <1>0, <2>1, <2>3 DEF Shape
  <2>4. CASE q \in attempt[b].found \ attempt[b].todo /\ attempt[b] # None
    BY <1>0, <1>1, <2>3, <2>4 DEF DeletedInv
  <2>5. CASE ~(q \in attempt[b].found \ attempt[b].todo /\ attempt[b] # None)
    <3>1. b = a /\ request.topic = "shop/redact" /\ q \in attempt[a].todo
      BY <1>0, <1>9, <2>2, <2>5 DEF StorageFails, Shape, Handling
    <3>2. Excused(attempt[a].todo, "swallowed")
      BY <1>9, <3>1 DEF StorageFails
    <3> QED BY <1>0, <3>1, <3>2, ExcusedTyped
  <2> QED BY <2>4, <2>5
<1>10. ASSUME NEW w \in Writers, PutFile(w) PROVE files'[q] = 0
  <2>1. /\ writer[w] # None /\ writer[w].kind = "upload" /\ UNCHANGED attempt
        /\ files' = [r \in Returns |-> IF r \in writer[w].of THEN files[r] + 1 ELSE files[r]]
        /\ Excused(FilesGone(writer[w].of) \cap writer[w].begun, "late")
    BY <1>10 DEF PutFile
  <2>2. files[q] = 0
    BY <1>0, <1>1, <2>1 DEF DeletedInv
  <2>3. q \notin writer[w].of
    <3> SUFFICES ASSUME q \in writer[w].of PROVE FALSE
      OBVIOUS
    <3>1. q \in FilesGone(writer[w].of)
      BY <2>1 DEF FilesGone
    <3>2. q \notin writer[w].begun
      BY <1>0, <2>1, <3>1, ExcusedTyped
    <3> QED BY <1>1, <2>1, <3>2 DEF ErasureInv, WriterInv
  <2> QED BY <1>0, <2>1, <2>2, <2>3
<1> QED
  BY <1>3, <1>4, <1>5, <1>6, <1>7, <1>8, <1>9, <1>10 DEF ErasureNext, Work

\* Whoever reads a return after its erasure reads nothing personal.
LEMMA WriterStep == ErasureInv /\ [ErasureNext]_erasureVars => WriterInv'
<1> SUFFICES ASSUME ErasureInv, [ErasureNext]_erasureVars,
                    NEW v \in Writers, writer'[v] # None,
                    NEW q \in writer'[v].of \ writer'[v].begun
             PROVE  /\ q \in erased'
                    /\ (excuse'[q] = {}) => (writer'[v].kind = "label" /\ ~writer'[v].personal)
  BY Zenon DEF WriterInv
<1> DEFINE Known == /\ q \in erased'
                    /\ (excuse'[q] = {}) => (writer'[v].kind = "label" /\ ~writer'[v].personal)
<1>0. Shape /\ Shape' /\ WriterInv /\ q \in Returns
  <2>1. Shape /\ Shape' /\ WriterInv
    BY ShapeStep DEF ErasureInv
  <2>2. writer'[v] \in Writing
    BY <2>1 DEF Shape
  <2> QED BY <2>1, <2>2 DEF Writing
<1>1. (excuse'[q] = {}) => (excuse[q] = {})
  BY <1>0, ExcusesStay
<1>2. ASSUME erased \subseteq erased', writer[v] # None,
             writer'[v].of = writer[v].of, writer'[v].begun = writer[v].begun,
             writer'[v].kind = writer[v].kind, writer'[v].personal = writer[v].personal
      PROVE  Known
  <2>1. q \in writer[v].of \ writer[v].begun
    BY <1>2
  <2>2. q \in erased /\ ((excuse[q] = {}) => (writer[v].kind = "label" /\ ~writer[v].personal))
    BY <1>0, <1>2, <2>1, Zenon DEF WriterInv
  <2>3. q \in erased'
    BY <1>2, <2>2
  <2>4. ASSUME excuse'[q] = {} PROVE writer'[v].kind = "label" /\ ~writer'[v].personal
    BY <1>1, <1>2, <2>2, <2>4, Zenon
  <2> QED BY <2>3, <2>4
<1>3. CASE writer' = writer /\ erased \subseteq erased'
  BY <1>2, <1>3
<1>4. CASE CreateReturn \/ Ask \/ LeaseLapses \/ UNCHANGED erasureVars
  BY <1>3, <1>4 DEF CreateReturn, Ask, LeaseLapses, erasureVars
<1>5. ASSUME NEW a \in Attempts,
             Deliver(a) \/ DeleteFiles(a) \/ Redact(a) \/ StorageFails(a) \/ DatabaseFails(a)
      PROVE  Known
  BY <1>3, <1>5 DEF Deliver, DeleteFiles, Redact, StorageFails, DatabaseFails
<1>6. CASE ProcessDies
  BY <1>6 DEF ProcessDies
<1>7. ASSUME NEW w \in Writers, Write(w) \/ GiveUp(w) PROVE Known
  <2>1. writer' = [writer EXCEPT ![w] = None] /\ erased' = erased
    BY <1>7 DEF Write, GiveUp
  <2>2. v # w
    BY <1>0, <2>1 DEF Shape
  <2>3. writer'[v] = writer[v]
    BY <1>0, <2>1, <2>2 DEF Shape
  <2> QED BY <1>2, <2>1, <2>3
<1>8. ASSUME NEW w \in Writers, PutFile(w) PROVE Known
  <2>1. writer' = [writer EXCEPT ![w].stage = "put"] /\ erased' = erased /\ writer[w] \in Writing /\ writer[w] # None
    BY <1>0, <1>8 DEF PutFile, Shape
  <2>2. /\ writer'[v].of = writer[v].of /\ writer'[v].begun = writer[v].begun
        /\ writer'[v].kind = writer[v].kind
    BY <1>0, <2>1 DEF Shape, Writing
  <2>3. writer'[v].personal = writer[v].personal
    BY <1>0, <2>1 DEF Shape, Writing
  <2>4. writer[v] # None
    BY <1>0, <2>1 DEF Shape
  <2> QED BY <1>2, <2>1, <2>2, <2>3, <2>4
<1>9. ASSUME NEW w \in Writers, Begin(w) PROVE Known
  <2>1. PICK kind \in {"upload", "label", "data"}, R \in SUBSET OnFile :
          /\ (kind # "label") => (\A r \in R : ret[r].email = "own")
          /\ (kind = "data") => (R = {r \in OnFile : ret[r].email = "own"})
          /\ writer' = [writer EXCEPT ![w] = [kind |-> kind, of |-> R, stage |-> "read", begun |-> R \ erased,
                                              personal |-> \E r \in R : ret[r].email = "own"]]
          /\ (kind # "data") => (\E r \in R : R = {r})
    BY <1>9, Zenon DEF Begin
  <2>2. erased' = erased /\ excuse' = excuse
    BY <1>9 DEF Begin
  <2>3. CASE v # w
    <3>1. writer'[v] = writer[v]
      BY <1>0, <2>1, <2>3 DEF Shape
    <3> QED BY <1>2, <2>2, <3>1
  <2>4. CASE v = w
    <3> DEFINE personal == \E r \in R : ret[r].email = "own"
    <3>1. writer'[v] = [kind |-> kind, of |-> R, stage |-> "read", begun |-> R \ erased, personal |-> personal]
      BY <1>0, <2>1, <2>4, Zenon DEF Shape
    <3>2. writer'[v].kind = kind /\ writer'[v].of = R /\ writer'[v].begun = R \ erased
      BY <3>1
    <3>3. writer'[v].personal = personal
      <4> HIDE DEF personal
      <4> QED BY <3>1
    <3>4. q \in R /\ q \in erased
      BY <3>2
    <3>5. ASSUME excuse[q] = {} PROVE ret[q].email = "alias"
      BY <2>1, <3>4, <3>5 DEF ErasureInv, Erased, Nothing, OnFile
    <3>6. ASSUME excuse[q] = {} PROVE kind = "label" /\ ~personal
      <4>1. kind = "label"
        BY <2>1, <3>4, <3>5, <3>6
      <4>2. R = {q}
        BY <2>1, <3>4, <4>1
      <4> QED BY <3>5, <3>6, <4>1, <4>2
    <3>7. ASSUME excuse[q] = {} PROVE writer'[v].kind = "label" /\ ~writer'[v].personal
      BY <3>2, <3>3, <3>6, <3>7, Zenon
    <3> QED BY <2>2, <3>4, <3>7
  <2> QED BY <2>3, <2>4
<1> QED
  BY <1>4, <1>5, <1>6, <1>7, <1>8, <1>9 DEF ErasureNext, Work

\* What an erasure found stays gone.
LEMMA ErasedStep == ErasureInv /\ [ErasureNext]_erasureVars => Erased'
<1> SUFFICES ASSUME ErasureInv, [ErasureNext]_erasureVars,
                    NEW q \in erased', excuse'[q] = {}
             PROVE  Nothing(q)'
  BY DEF Erased
<1>0. Shape /\ Shape' /\ q \in Returns
  BY ShapeStep DEF ErasureInv, Shape
<1>1. excuse[q] = {}
  BY <1>0, ExcusesStay
<1>2. ASSUME erased' = erased PROVE Nothing(q)
  BY <1>1, <1>2 DEF ErasureInv, Erased
<1>3. ASSUME erased' = erased, ret'[q] = ret[q], files'[q] = 0 PROVE Nothing(q)'
  BY <1>2, <1>3, Zenon DEF Nothing
<1>4. CASE UNCHANGED <<erased, ret, files>>
  BY <1>2, <1>4, Zenon DEF Nothing
<1>5. CASE CreateReturn
  <2>1. PICK r \in Returns \ (OnFile \cup erased) :
          ret' = [ret EXCEPT ![r] = [email |-> "own", words |-> TRUE, links |-> FALSE, trail |-> FALSE]]
    BY <1>5 DEF CreateReturn
  <2>2. erased' = erased /\ files' = files
    BY <1>5 DEF CreateReturn
  <2>3. ret'[q] = ret[q]
    BY <1>0, <2>1, <2>2 DEF Shape
  <2> QED BY <1>2, <1>3, <2>2, <2>3 DEF Nothing
<1>6. CASE Ask \/ LeaseLapses \/ ProcessDies \/ UNCHANGED erasureVars
  BY <1>4, <1>6 DEF Ask, LeaseLapses, ProcessDies, erasureVars
<1>7. ASSUME NEW a \in Attempts, Deliver(a) \/ DatabaseFails(a) PROVE Nothing(q)'
  BY <1>4, <1>7 DEF Deliver, DatabaseFails
<1>8. ASSUME NEW w \in Writers, Begin(w) \/ GiveUp(w) PROVE Nothing(q)'
  BY <1>4, <1>8 DEF Begin, GiveUp
<1>9. ASSUME NEW a \in Attempts, DeleteFiles(a) PROVE Nothing(q)'
  <2>1. PICK r \in attempt[a].todo : files' = [files EXCEPT ![r] = Max({0, files[r] - PageSize})]
    BY <1>9 DEF DeleteFiles
  <2>2. erased' = erased /\ ret' = ret
    BY <1>9 DEF DeleteFiles
  <2>3. files[q] = 0
    BY <1>2, <2>2 DEF Nothing
  <2>4. Max({0, 0 - PageSize}) = 0
    <3>1. 0 - PageSize \in Int /\ 0 - PageSize < 0
      BY SizeAssumption
    <3> QED BY <3>1, MaxWithZero
  <2>5. files'[q] = 0
    BY <1>0, <2>1, <2>3, <2>4 DEF Shape
  <2> QED BY <1>3, <2>2, <2>5
<1>10. ASSUME NEW a \in Attempts, StorageFails(a) PROVE Nothing(q)'
  <2>1. PICK r \in attempt[a].todo, n \in 0..MaxWrites : n <= files[r] /\ files' = [files EXCEPT ![r] = n]
    BY <1>10 DEF StorageFails
  <2>2. erased' = erased /\ ret' = ret
    BY <1>10 DEF StorageFails
  <2>3. files[q] = 0
    BY <1>2, <2>2 DEF Nothing
  <2>4. files'[q] = 0
    BY <1>0, <2>1, <2>3 DEF Shape
  <2> QED BY <1>3, <2>2, <2>4
<1>11. ASSUME NEW a \in Attempts, Redact(a) PROVE Nothing(q)'
  <2>1. files' = files /\ erased' = erased \cup attempt[a].found /\ attempt[a] # None /\ attempt[a].todo = {}
    BY <1>11 DEF Redact
  <2>2. CASE q \in attempt[a].found
    <3>1. files[q] = 0
      BY <1>1, <2>1, <2>2 DEF ErasureInv, DeletedInv
    <3>2. \/ ret'[q] = None
          \/ ret'[q] = [email |-> "alias", words |-> FALSE, links |-> FALSE, trail |-> FALSE]
      BY <1>0, <1>11, <2>2 DEF Redact, OnFile
    <3>3. CASE ret'[q] = None
      BY <2>1, <3>1, <3>3, Zenon DEF Nothing
    <3>4. CASE ret'[q] = [email |-> "alias", words |-> FALSE, links |-> FALSE, trail |-> FALSE]
      <4>1. ret'[q].email = "alias" /\ ~ret'[q].words /\ ~ret'[q].links /\ ~ret'[q].trail
        BY <3>4
      <4> QED BY <2>1, <3>1, <4>1, Zenon DEF Nothing
    <3> QED BY <3>2, <3>3, <3>4
  <2>3. CASE q \notin attempt[a].found
    <3>1. Nothing(q)
      BY <1>1, <2>1, <2>3 DEF ErasureInv, Erased
    <3>2. ret'[q] = ret[q]
      BY <1>0, <1>11, <2>3 DEF Redact
    <3> QED BY <2>1, <3>1, <3>2, Zenon DEF Nothing
  <2> QED BY <2>2, <2>3
<1>12. ASSUME NEW w \in Writers, PutFile(w) PROVE Nothing(q)'
  <2>1. /\ writer[w] # None /\ writer[w].kind = "upload" /\ UNCHANGED <<erased, ret>>
        /\ files' = [r \in Returns |-> IF r \in writer[w].of THEN files[r] + 1 ELSE files[r]]
        /\ Excused(FilesGone(writer[w].of) \cap writer[w].begun, "late")
    BY <1>12 DEF PutFile
  <2>2. q \notin writer[w].of
    <3> SUFFICES ASSUME q \in writer[w].of PROVE FALSE
      OBVIOUS
    <3>1. q \in FilesGone(writer[w].of)
      BY <2>1 DEF FilesGone
    <3>2. q \notin writer[w].begun
      BY <1>0, <2>1, <3>1, ExcusedTyped
    <3> QED BY <1>1, <2>1, <3>2 DEF ErasureInv, WriterInv
  <2>3. files'[q] = 0
    BY <1>0, <1>2, <2>1, <2>2 DEF Nothing
  <2> QED BY <1>3, <2>1, <2>3
<1>13. ASSUME NEW w \in Writers, Write(w) PROVE Nothing(q)'
  <2>1. /\ writer[w] # None /\ UNCHANGED <<erased, files>>
        /\ Excused(writer[w].of \cap writer[w].begun \cap erased, "late")
    BY <1>13 DEF Write
  <2>2. CASE q \notin writer[w].of \cap OnFile
    <3>1. ret'[q] = ret[q]
      BY <1>0, <1>13, <2>2 DEF Write
    <3> QED BY <1>2, <1>3, <2>1, <3>1 DEF Nothing
  <2>3. CASE q \in writer[w].of \cap OnFile
    <3>1. q \notin writer[w].begun
      BY <1>0, <2>1, <2>3, ExcusedTyped
    <3>2. writer[w].kind = "label" /\ ~writer[w].personal
      BY <1>1, <2>1, <2>3, <3>1, Zenon DEF ErasureInv, WriterInv
    <3>3. ret'[q] = [ret[q] EXCEPT !.trail = ret[q].trail \/ writer[w].personal]
      BY <1>0, <1>13, <2>3, <3>2, Zenon DEF Write
    <3>4. ret[q] \in Row
      BY <1>0, <2>3 DEF Shape, OnFile
    <3>5. /\ ret'[q].email = ret[q].email /\ ret'[q].words = ret[q].words /\ ret'[q].links = ret[q].links
      BY <3>3, <3>4 DEF Row
    <3>6. ret'[q].trail = (ret[q].trail \/ writer[w].personal)
      BY <3>3, <3>4 DEF Row
    <3>7. ret[q] # None /\ Nothing(q)
      BY <1>2, <2>1, <2>3 DEF OnFile
    <3> QED BY <2>1, <3>2, <3>5, <3>6, <3>7, Zenon DEF Nothing
  <2> QED BY <2>2, <2>3
<1> QED
  BY <1>5, <1>6, <1>7, <1>8, <1>9, <1>10, <1>11, <1>12, <1>13 DEF ErasureNext, Work

\* Once an erasure is done, nothing of what it found is left or comes back,
\* however many deliveries, writers and failures there are, but for what
\* writers had read before, a second page of files and storage errors that
\* shop/redact passes over.
THEOREM ErasedStaysErased == ErasureSpec => []Erased
<1>1. ErasureInit => ErasureInv
  <2> SUFFICES ASSUME ErasureInit PROVE ErasureInv
    OBVIOUS
  <2>1. Shape
    BY DEF ErasureInit, Shape
  <2>2. DeletedInv /\ WriterInv /\ Erased
    BY DEF ErasureInit, DeletedInv, WriterInv, Erased
  <2> QED BY <2>1, <2>2 DEF ErasureInv
<1>2. ErasureInv /\ [ErasureNext]_erasureVars => ErasureInv'
  <2> SUFFICES ASSUME ErasureInv, [ErasureNext]_erasureVars PROVE ErasureInv'
    OBVIOUS
  <2>1. Shape'
    BY ShapeStep DEF ErasureInv
  <2> QED BY <2>1, DeletedStep, WriterStep, ErasedStep DEF ErasureInv
<1>3. ErasureInv => Erased
  BY DEF ErasureInv
<1> QED BY <1>1, <1>2, <1>3, PTL DEF ErasureSpec

=============================================================================
