-------------------------- MODULE CollectiveProofs --------------------------
(***************************************************************************)
(* What holds of the collectives for any number of cards, buffers of any   *)
(* length, and any values whose order is that of IEEE 754.                 *)
(***************************************************************************)
EXTENDS Collective, NaturalFacts, TLAPS

\* All buffers are as long as card 0's.
Fits == \A i \in DOMAIN passed : Len(passed[i]) = Len(passed[1])

Started  == {"clone", "fold", "average", "write_back", "gather"}
Reducing == Started \ {"gather"}

\* The buffers stay a sequence of as many buffers, which are the caller's until
\* results are written back; past the checks they fit.
ShapeInv ==
  /\ n_sails \in Nat /\ op \in ReduceOps \cup {"Gather"}
  /\ kind \in {"mock", "device"}
  /\ at \in Started => kind = "mock"
  /\ passed \in Seq(Seq(Vals))
  /\ (\E S : per_card \in Seq(S)) /\ Len(per_card) = Len(passed)
  /\ at \in Started \cup {"idle", "validate"}
  /\ at \notin {"write_back", "idle"} => per_card = passed
  /\ at # "idle" => result = Pending
  /\ at \in Started => Len(passed) = n_sails /\ Fits
  /\ at \in Reducing => op \in ReduceOps /\ passed # <<>>
  /\ at = "gather" => op = "Gather"
  /\ card \in Nat \ {0}

\* Writing one buffer leaves a sequence of as many buffers.
LEMMA ExceptKeepsSeq ==
  ASSUME NEW S, NEW s \in Seq(S), NEW i \in 1..Len(s), NEW x
  PROVE  /\ [s EXCEPT ![i] = x] \in Seq(S \cup {x})
         /\ Len([s EXCEPT ![i] = x]) = Len(s)
  OBVIOUS

\* Where all buffers are of one length, none is misshapen, and conversely.
LEMMA MisshapenIffMisfit ==
  ASSUME ShapeInv, per_card = passed
  PROVE  /\ Misshapen = {} <=> Fits
         /\ Misshapen = {i \in DOMAIN passed : Len(passed[i]) # Len(passed[1])}
<1>1. CASE passed = <<>>
  BY <1>1 DEF Misshapen, Fits
<1>2. CASE passed # <<>>
  BY <1>2 DEF Misshapen, Fits, Stride
<1> QED
  BY <1>1, <1>2

\* The sail named by ShapeMismatch is the first that disagrees.
LEMMA FirstMisfit ==
  ASSUME ShapeInv, per_card = passed, Misshapen # {}
  PROVE  FirstMisshapen \in Misshapen /\ \A j \in Misshapen : FirstMisshapen <= j
<1>1. Misshapen \subseteq Nat
  BY DEF Misshapen, ShapeInv
<1>2. \E i \in Misshapen : \A j \in Misshapen : i <= j
  BY <1>1, LeastMember
<1> QED
  BY <1>2 DEF FirstMisshapen

\* Every step keeps the buffers' shape, and enters a loop only past the checks.
LEMMA ShapeStep == ShapeInv /\ [Next]_vars => ShapeInv'
<1> SUFFICES ASSUME ShapeInv, [Next]_vars PROVE ShapeInv'
  OBVIOUS
<1> USE DEF ShapeInv, Started, Reducing
<1>1. CASE Validate
  <2>1. per_card = passed /\ UNCHANGED <<kind, n_sails, op, per_card, passed, card>>
    BY <1>1 DEF Validate, Leave, Proceed, request
  <2>2. CASE at' = "idle"
    BY <2>1, <2>2
  <2>3. CASE at' # "idle"
    <3>1. /\ Len(per_card) = n_sails /\ Misshapen = {}
          /\ at' = IF op = "Gather" THEN "gather" ELSE "clone"
          /\ op = "Gather" \/ Stride # 0
          /\ result' = result /\ at = "validate" /\ kind = "mock"
      BY <1>1, <2>3 DEF Validate, Leave, Proceed
    <3>2. Fits
      BY <2>1, <3>1, MisshapenIffMisfit
    <3>3. Fits'
      BY <2>1, <3>2 DEF Fits
    <3>4. op # "Gather" => passed # <<>>
      BY <2>1, <3>1 DEF Stride
    <3> QED
      BY <2>1, <3>1, <3>3, <3>4
  <2> QED
    BY <2>2, <2>3
<1>8. CASE DeviceCollective
  BY <1>8 DEF DeviceCollective, Leave, request
<1>2. CASE CloneFirst
  BY <1>2 DEF CloneFirst, Leave, Fits, request
<1>3. CASE Fold
  BY <1>3 DEF Fold, Fits, request
<1>4. CASE Average
  BY <1>4 DEF Average, Fits, request
<1>5. CASE WriteBack
  <2>1. CASE card <= Len(per_card)
    <3>1. /\ per_card' = [per_card EXCEPT ![card] = reduced]
          /\ card' = card + 1 /\ at = "write_back"
          /\ UNCHANGED <<at, kind, n_sails, op, passed, result>>
      BY <1>5, <2>1 DEF WriteBack, request
    <3>2. PICK S : per_card \in Seq(S)
      OBVIOUS
    <3>3. card \in 1..Len(per_card)
      BY <2>1, <3>2
    <3>4. /\ per_card' \in Seq(S \cup {reduced})
          /\ Len(per_card') = Len(per_card)
      BY <3>1, <3>2, <3>3, ExceptKeepsSeq
    <3>5. Fits'
      BY <3>1 DEF Fits
    <3> QED
      BY <3>1, <3>4, <3>5
  <2>2. CASE ~ (card <= Len(per_card))
    BY <1>5, <2>2 DEF WriteBack, Leave, request
  <2> QED
    BY <2>1, <2>2
<1>6. CASE Gather
  BY <1>6 DEF Gather, Leave, Fits, request
<1>7. CASE UNCHANGED vars
  BY <1>7 DEF vars, request, Fits
<1> QED
  BY <1>1, <1>2, <1>3, <1>4, <1>5, <1>6, <1>7, <1>8 DEF Next

\* The buffers keep their shape in every behaviour.
THEOREM Invariance == Spec => []ShapeInv
<1>1. Init => ShapeInv
  <2> SUFFICES ASSUME Init PROVE ShapeInv
    OBVIOUS
  <2>1. per_card \in Seq(Seq(Vals)) /\ n_sails \in Nat
    BY InputAssumption DEF Init
  <2> QED
    BY <2>1 DEF Init, ShapeInv, Started, Reducing
<1> QED
  BY <1>1, ShapeStep, PTL DEF Spec

-----------------------------------------------------------------------------
(* How a call ends.                                                         *)

\* What a call may answer, told from the caller's buffers.
HostAnswers(r) ==
  \/ Len(passed) # n_sails /\ r = TopologyMismatch
  \/ /\ Len(passed) = n_sails /\ ~ Fits
     /\ \E i \in {j \in DOMAIN passed : Len(passed[j]) # Len(passed[1])} :
          /\ r = ShapeMismatch(i)
          /\ \A j \in DOMAIN passed : Len(passed[j]) # Len(passed[1]) => i <= j
  \/ Len(passed) = n_sails /\ Fits /\ r = Ok
Answers(r) ==
  \/ kind = "device" /\ r = NotImplemented
  \/ kind = "mock" /\ HostAnswers(r)

\* A call that has ended gave its answer, and wrote to the caller's buffers only
\* if it reduced them.
AnswerInv ==
  at = "idle" => /\ Answers(result)
                 /\ result # Ok \/ op = "Gather" => per_card = passed

\* Buffers that fit are never found misshapen and the other way round.
LEMMA AnswersTellMisfits ==
  ASSUME ShapeInv, AnswerInv
  PROVE  MisfitsAreRefused /\ NeverPanics
<1>1. NeverPanics
  BY DEF NeverPanics, ShapeInv, AnswerInv, Answers, HostAnswers, NotImplemented, Panic, Pending, Ok,
         TopologyMismatch, ShapeMismatch
<1>2. ASSUME at = "idle" PROVE MisfitsAreRefused
  <2> DEFINE misfits == {i \in DOMAIN passed : Len(passed[i]) # Len(passed[1])}
  <2>1. Fits <=> misfits = {}
    BY DEF Fits
  <2>2. Answers(result) /\ (result # Ok \/ op = "Gather" => per_card = passed)
    BY <1>2 DEF AnswerInv
  <2>6. CASE kind = "device"
    BY <2>2, <2>6 DEF Answers, MisfitsAreRefused, NotImplemented, TopologyMismatch
  <2>7. kind = "device" \/ (kind = "mock" /\ HostAnswers(result))
    BY <2>2 DEF Answers
  <2>3. CASE kind = "mock" /\ Len(passed) # n_sails
    BY <2>2, <2>3, <2>7 DEF HostAnswers, MisfitsAreRefused, TopologyMismatch, Ok
  <2>4. CASE kind = "mock" /\ Len(passed) = n_sails /\ ~ Fits
    <3>1. PICK i \in misfits : /\ result = ShapeMismatch(i)
                               /\ \A j \in misfits : i <= j
      BY <2>4, <2>7 DEF HostAnswers
    <3> QED
      BY <2>1, <2>2, <2>4, <3>1
      DEF MisfitsAreRefused, TopologyMismatch, ShapeMismatch
  <2>5. CASE kind = "mock" /\ Len(passed) = n_sails /\ Fits
    BY <2>1, <2>2, <2>5, <2>7 DEF HostAnswers, MisfitsAreRefused, TopologyMismatch, Ok
  <2> QED
    BY <2>3, <2>4, <2>5, <2>6, <2>7
<1>3. ASSUME at # "idle" PROVE MisfitsAreRefused
  BY <1>3 DEF MisfitsAreRefused
<1> QED
  BY <1>1, <1>2, <1>3

\* Every statement that ends a call ends it with its answer.
LEMMA AnswerStep == ShapeInv /\ AnswerInv /\ [Next]_vars => AnswerInv'
<1> SUFFICES ASSUME ShapeInv, AnswerInv, [Next]_vars, at' = "idle"
             PROVE  /\ Answers(result)'
                    /\ (result # Ok \/ op = "Gather" => per_card = passed)'
  BY DEF AnswerInv
<1>1. CASE Validate
  <2>1. per_card = passed /\ UNCHANGED <<n_sails, op, per_card, passed>>
    BY <1>1 DEF Validate, ShapeInv, request
  <2>2. kind' = "mock" /\ kind = "mock"
    BY <1>1 DEF Validate, request
  <2>3. HostAnswers(result')
    <3>1. CASE Len(per_card) # n_sails /\ result' = TopologyMismatch
      BY <2>1, <3>1 DEF HostAnswers
    <3>2. CASE /\ Len(per_card) = n_sails /\ Misshapen # {}
               /\ result' = ShapeMismatch(FirstMisshapen)
      BY <2>1, <3>2, FirstMisfit, MisshapenIffMisfit DEF HostAnswers
    <3>3. CASE /\ Len(per_card) = n_sails /\ Misshapen = {}
               /\ result' = Ok
      BY <2>1, <3>3, MisshapenIffMisfit DEF HostAnswers
    <3> QED
      BY <1>1, <3>1, <3>2, <3>3 DEF Validate, Leave, Proceed
  <2> QED
    BY <2>1, <2>2, <2>3 DEF Answers, HostAnswers, Fits
<1>8. CASE DeviceCollective
  BY <1>8 DEF DeviceCollective, Leave, request, ShapeInv, Answers, NotImplemented, Ok
<1>2. CASE CloneFirst
  BY <1>2 DEF CloneFirst, ShapeInv, Started, Reducing
<1>3. CASE Fold
  BY <1>3 DEF Fold
<1>4. CASE Average
  BY <1>4 DEF Average
<1>5. CASE WriteBack
  <2>1. result' = Ok /\ op' # "Gather" /\ UNCHANGED <<kind, n_sails, passed>>
    BY <1>5 DEF WriteBack, Leave, ShapeInv, Started, Reducing, ReduceOps, request
  <2>2. kind = "mock" /\ Len(passed) = n_sails /\ Fits
    BY <1>5 DEF WriteBack, ShapeInv, Started
  <2> QED
    BY <2>1, <2>2 DEF Answers, HostAnswers, Fits
<1>6. CASE Gather
  <2>1. result' = Ok /\ UNCHANGED <<kind, n_sails, passed, per_card>>
    BY <1>6 DEF Gather, Leave, request
  <2>2. kind = "mock" /\ Len(passed) = n_sails /\ Fits /\ per_card = passed
    BY <1>6 DEF Gather, ShapeInv, Started
  <2> QED
    BY <2>1, <2>2 DEF Answers, HostAnswers, Fits
<1>7. CASE UNCHANGED vars
  BY <1>7 DEF vars, request, AnswerInv, Answers, HostAnswers, Fits
<1> QED
  BY <1>1, <1>2, <1>3, <1>4, <1>5, <1>6, <1>7, <1>8 DEF Next

\* On the host a call fails exactly if its buffers do not fit the topology and each other, the
\* first card that disagrees is the one named, and a call that fails leaves the
\* caller's buffers alone: validate_uniform runs before the first write.
THEOREM MisfitsRefused == Spec => []MisfitsAreRefused
<1>1. Init => AnswerInv
  BY DEF Init, AnswerInv
<1>2. ShapeInv /\ AnswerInv => MisfitsAreRefused
  BY AnswersTellMisfits
<1> QED
  BY <1>1, <1>2, Invariance, AnswerStep, PTL DEF Spec

\* per_card[0] is taken only where there is a card 0: an empty topology has left
\* by then.
THEOREM CardZeroIsThere == Spec => []NeverPanics
<1>1. Init => AnswerInv
  BY DEF Init, AnswerInv
<1>2. ShapeInv /\ AnswerInv => NeverPanics
  BY AnswersTellMisfits
<1> QED
  BY <1>1, <1>2, Invariance, AnswerStep, PTL DEF Spec

-----------------------------------------------------------------------------
(* Types.                                                                   *)

Results == {"none", "Ok", "TopologyMismatch", "ShapeMismatch", "NotImplemented", "panic"}

LEMMA ResultsAreResults ==
  /\ \A r \in {Ok, TopologyMismatch, NotImplemented, Panic, Pending} : r.is \in Results
  /\ \A i : ShapeMismatch(i).is \in Results
  BY DEF Results, Ok, TopologyMismatch, NotImplemented, Panic, Pending, ShapeMismatch

\* No loop runs past one card behind the last.
LEMMA TypeStep == ShapeInv /\ TypeOK /\ [Next]_vars => TypeOK'
<1> SUFFICES ASSUME ShapeInv, TypeOK, [Next]_vars PROVE TypeOK'
  OBVIOUS
<1> USE DEF TypeOK
<1>0. Len(per_card) \in Nat /\ card \in 1..Len(per_card) + 1
  <2>1. PICK S : per_card \in Seq(S)
    BY DEF ShapeInv
  <2> QED
    BY <2>1
<1>1. CASE Validate
  <2>1. UNCHANGED <<request, per_card, card>>
    BY <1>1 DEF Validate, Leave, Proceed
  <2>2. result'.is \in Results
        /\ at' \in {"idle", "gather", "clone"}
    BY <1>1, ResultsAreResults DEF Validate, Leave, Proceed, Results
  <2> QED
    BY <2>1, <2>2 DEF request, Results
<1>2. CASE DeviceCollective
  BY <1>2, ResultsAreResults DEF DeviceCollective, Leave, request, Results
<1>3. CASE CloneFirst
  <2>1. UNCHANGED <<request, per_card>> /\ result'.is \in Results
        /\ at' \in {"idle", "fold"}
    BY <1>3, ResultsAreResults DEF CloneFirst, Leave, Results
  <2>2. card' \in 1..Len(per_card) + 1
    BY <1>0, <1>3 DEF CloneFirst, Leave, ShapeInv
  <2> QED
    BY <2>1, <2>2 DEF request, Results
<1>4. CASE Fold
  BY <1>0, <1>4 DEF Fold, request
<1>5. CASE Average
  BY <1>0, <1>5 DEF Average, request
<1>6. CASE WriteBack
  <2>1. UNCHANGED request /\ result'.is \in Results /\ at' \in {"write_back", "idle"}
    BY <1>6, ResultsAreResults DEF WriteBack, Leave, Results
  <2>2. DOMAIN per_card' = DOMAIN per_card /\ Len(per_card') = Len(per_card)
        /\ card' \in 1..Len(per_card) + 1
    <3>1. CASE card <= Len(per_card)
      <4>1. PICK S : per_card \in Seq(S)
        BY DEF ShapeInv
      <4>2. per_card' = [per_card EXCEPT ![card] = reduced] /\ card' = card + 1
        BY <1>6, <3>1 DEF WriteBack
      <4>3. card \in 1..Len(per_card)
        BY <1>0, <3>1
      <4>4. Len(per_card') = Len(per_card)
        BY <4>1, <4>2, <4>3, ExceptKeepsSeq
      <4> QED
        BY <1>0, <3>1, <4>2, <4>4
    <3>2. CASE ~ (card <= Len(per_card))
      BY <1>0, <1>6, <3>2 DEF WriteBack, Leave
    <3> QED
      BY <3>1, <3>2
  <2> QED
    BY <2>1, <2>2 DEF request, Results
<1>7. CASE Gather
  BY <1>0, <1>7, ResultsAreResults DEF Gather, Leave, request, Results
<1>8. CASE UNCHANGED vars
  BY <1>8 DEF vars, request
<1> QED
  BY <1>1, <1>2, <1>3, <1>4, <1>5, <1>6, <1>7, <1>8 DEF Next

\* Loop counter, buffers and result keep their types, for any number of cards.
THEOREM TypeCorrect == Spec => []TypeOK
<1>1. Init => TypeOK
  <2> SUFFICES ASSUME Init PROVE TypeOK
    OBVIOUS
  <2>1. passed \in Seq(Seq(Vals)) /\ Len(passed) \in Nat
    BY InputAssumption DEF Init
  <2> QED
    BY <2>1 DEF Init, TypeOK, Pending
<1> QED
  BY <1>1, Invariance, TypeStep, PTL DEF Spec

-----------------------------------------------------------------------------
(* What a call computes. A sum, and the buffers one after the other, are    *)
(* told by the row of what each card made of the card before it: a row      *)
(* grows with the loop, where a fold over all cards does not.               *)

\* r is what adding up element e of the first n cards, in their order, comes to.
Summed(r, e, n) ==
  \E row : /\ row[1] = passed[1][e]
           /\ \A i \in 1..n - 1 : row[i + 1] = Add(row[i], passed[i + 1][e])
           /\ r = row[n]

\* r is a largest, a smallest element e of the first n cards, card 0's NaN prevailing.
Greatest(r, e, n) ==
  /\ \E i \in 1..n : r = passed[i][e]
  /\ \A i \in 1..n : ~ Gt(passed[i][e], r)
  /\ r \in NaNs <=> passed[1][e] \in NaNs
Smallest(r, e, n) ==
  /\ \E i \in 1..n : r = passed[i][e]
  /\ \A i \in 1..n : ~ Gt(r, passed[i][e])
  /\ r \in NaNs <=> passed[1][e] \in NaNs

\* The accumulator after n cards.
FoldedTo(r, e, n) ==
  /\ op \in {"Sum", "Avg"} => Summed(r, e, n)
  /\ op = "Max" => Greatest(r, e, n)
  /\ op = "Min" => Smallest(r, e, n)

\* The result for element e.
Reduced(r, e) ==
  \E s : FoldedTo(s, e, Len(passed)) /\ r = IF op = "Avg" THEN Over(s, Len(passed)) ELSE s

\* out is the first n buffers, one after the other.
Gathered(out, n) ==
  \E row : /\ row[0] = <<>>
           /\ \A i \in 1..n : row[i] = row[i - 1] \o passed[i]
           /\ out = row[n]

\* What an all_reduce or an all_gather that succeeds has computed.
CallComputes ==
  at = "idle" /\ result = Ok =>
    /\ op \in ReduceOps =>
         \A i \in DOMAIN passed :
           /\ per_card[i] = per_card[1]
           /\ DOMAIN per_card[i] = DOMAIN passed[i]
           /\ \A e \in DOMAIN passed[1] : Reduced(per_card[i][e], e)
    /\ op = "Gather" => Gathered(reduced, Len(passed))

\* How far the loops have come at each statement.
Elements == DOMAIN passed[1]
ComputeInv ==
  /\ at = "validate" => card = 1 /\ reduced = <<>>
  /\ at \in {"fold", "average", "write_back"} => DOMAIN reduced = Elements
  /\ at = "fold" => /\ card \in 2..Len(passed) + 1
                    /\ \A e \in Elements : FoldedTo(reduced[e], e, card - 1)
  /\ at = "average" => \A e \in Elements : FoldedTo(reduced[e], e, Len(passed))
  /\ at = "write_back" => /\ \A e \in Elements : Reduced(reduced[e], e)
                          /\ \A i \in 1..card - 1 : i \in DOMAIN passed => per_card[i] = reduced
  /\ at = "gather" => card \in 1..Len(passed) + 1 /\ Gathered(reduced, card - 1)
  /\ CallComputes

\* One card folded into what the cards before it have made.
LEMMA CombineFolds ==
  ASSUME NEW n \in Nat \ {0}, n + 1 \in DOMAIN passed, NEW e, NEW r,
         op \in ReduceOps,
         \A i \in DOMAIN passed : passed[i][e] \in Vals,
         DOMAIN passed = 1..Len(passed), Len(passed) \in Nat,
         FoldedTo(r, e, n)
  PROVE  FoldedTo(Combine(r, passed[n + 1][e]), e, n + 1)
<1> DEFINE x == passed[n + 1][e]
<1>0. /\ \A i \in 1..n + 1 : passed[i][e] \in Vals
      /\ x \in Vals
  OBVIOUS
<1>1. CASE op \in {"Sum", "Avg"}
  <2>1. PICK row : /\ row[1] = passed[1][e]
                   /\ \A i \in 1..n - 1 : row[i + 1] = Add(row[i], passed[i + 1][e])
                   /\ r = row[n]
    BY <1>1 DEF FoldedTo, Summed
  <2> DEFINE longer == [i \in 1..n + 1 |-> IF i = n + 1 THEN Add(r, x) ELSE row[i]]
  <2>2. longer[1] = passed[1][e]
    BY <2>1
  <2>3. ASSUME NEW i \in 1..n PROVE longer[i + 1] = Add(longer[i], passed[i + 1][e])
    <3>1. CASE i = n
      BY <2>1, <3>1
    <3>2. CASE i # n
      BY <2>1, <3>2
    <3> QED
      BY <3>1, <3>2
  <2>4. longer[n + 1] = Combine(r, x)
    BY <1>1 DEF Combine
  <2> HIDE DEF longer
  <2>5. Summed(Combine(r, x), e, n + 1)
    BY <2>2, <2>3, <2>4 DEF Summed
  <2> QED
    BY <1>1, <2>5 DEF FoldedTo
<1>2. CASE op = "Max"
  <2>1. Greatest(r, e, n)
    BY <1>2 DEF FoldedTo
  <2>2. Combine(r, x) = IF Gt(x, r) THEN x ELSE r
    BY <1>2 DEF Combine
  <2>3. r \in Vals
    BY <1>0, <2>1 DEF Greatest
  <2>4. Greatest(IF Gt(x, r) THEN x ELSE r, e, n + 1)
    <3>1. CASE Gt(x, r)
      BY <1>0, <2>1, <2>3, <3>1, OrderAssumption DEF Greatest
    <3>2. CASE ~ Gt(x, r)
      BY <1>0, <2>1, <2>3, <3>2, OrderAssumption DEF Greatest
    <3> QED
      BY <3>1, <3>2
  <2> QED
    BY <1>2, <2>2, <2>4 DEF FoldedTo
<1>3. CASE op = "Min"
  <2>1. Smallest(r, e, n)
    BY <1>3 DEF FoldedTo
  <2>2. Combine(r, x) = IF Gt(r, x) THEN x ELSE r
    BY <1>3 DEF Combine
  <2>3. r \in Vals
    BY <1>0, <2>1 DEF Smallest
  <2>4. Smallest(IF Gt(r, x) THEN x ELSE r, e, n + 1)
    <3>1. CASE Gt(r, x)
      BY <1>0, <2>1, <2>3, <3>1, OrderAssumption DEF Smallest
    <3>2. CASE ~ Gt(r, x)
      BY <1>0, <2>1, <2>3, <3>2, OrderAssumption DEF Smallest
    <3> QED
      BY <3>1, <3>2
  <2> QED
    BY <1>3, <2>2, <2>4 DEF FoldedTo
<1> QED
  BY <1>1, <1>2, <1>3 DEF ReduceOps

\* Card 0's buffer is what one card makes.
LEMMA OneCardFolds ==
  ASSUME NEW e, passed[1][e] \in Vals PROVE FoldedTo(passed[1][e], e, 1)
<1>1. Summed(passed[1][e], e, 1)
  <2> DEFINE row == [i \in {1} |-> passed[1][e]]
  <2>1. row[1] = passed[1][e] /\ \A i \in 1..1 - 1 : FALSE
    OBVIOUS
  <2> HIDE DEF row
  <2> QED
    BY <2>1 DEF Summed
<1>2. Greatest(passed[1][e], e, 1) /\ Smallest(passed[1][e], e, 1)
  BY OrderAssumption DEF Greatest, Smallest
<1> QED
  BY <1>1, <1>2 DEF FoldedTo

\* One more buffer gathered.
LEMMA OneMoreGathers ==
  ASSUME NEW n \in Nat, NEW out, Gathered(out, n)
  PROVE  Gathered(out \o passed[n + 1], n + 1)
<1>1. PICK row : /\ row[0] = <<>>
                 /\ \A i \in 1..n : row[i] = row[i - 1] \o passed[i]
                 /\ out = row[n]
  BY DEF Gathered
<1> DEFINE longer == [i \in 0..n + 1 |-> IF i = n + 1 THEN out \o passed[n + 1] ELSE row[i]]
<1>2. longer[0] = <<>> /\ longer[n + 1] = out \o passed[n + 1]
  BY <1>1
<1>3. ASSUME NEW i \in 1..n + 1 PROVE longer[i] = longer[i - 1] \o passed[i]
  <2>1. CASE i = n + 1
    <3>1. longer[i - 1] = out
      BY <1>1, <2>1
    <3> QED
      BY <1>2, <2>1, <3>1
  <2>2. CASE i # n + 1
    BY <1>1, <2>2
  <2> QED
    BY <2>1, <2>2
<1> HIDE DEF longer
<1> QED
  BY <1>2, <1>3 DEF Gathered

\* Past the checks: as many buffers as cards, of one length, with values in them.
LEMMA BuffersFit ==
  ASSUME ShapeInv, at \in Started
  PROVE  /\ Len(passed) \in Nat /\ DOMAIN passed = 1..Len(passed)
         /\ \A i \in DOMAIN passed : DOMAIN passed[i] = Elements
         /\ \A i \in DOMAIN passed : \A e \in Elements : passed[i][e] \in Vals
<1>1. passed \in Seq(Seq(Vals)) /\ Fits
  BY DEF ShapeInv
<1>2. \A i \in DOMAIN passed : passed[i] \in Seq(Vals) /\ Len(passed[i]) = Len(passed[1])
  BY <1>1 DEF Fits
<1>3. DOMAIN passed # {} => passed[1] \in Seq(Vals)
  BY <1>1
<1> QED
  BY <1>1, <1>2, <1>3 DEF Elements

\* Every statement takes its loop one card further.
LEMMA ComputeStep == ShapeInv /\ ComputeInv /\ [Next]_vars => ComputeInv'
<1> SUFFICES ASSUME ShapeInv, ComputeInv, [Next]_vars PROVE ComputeInv'
  OBVIOUS
<1> USE DEF ComputeInv
<1>1. CASE Validate
  <2>1. /\ per_card = passed /\ UNCHANGED <<kind, n_sails, op, per_card, passed, card, reduced>>
        /\ card = 1 /\ reduced = <<>> /\ op \in ReduceOps \cup {"Gather"}
        /\ passed \in Seq(Seq(Vals))
    BY <1>1 DEF Validate, Leave, Proceed, request, ShapeInv
  <2>2. CASE at' = "idle" /\ result' = Ok
    <3>1. Misshapen = {} /\ op # "Gather" /\ Stride = 0
      BY <1>1, <2>2 DEF Validate, Leave, Proceed, Ok, TopologyMismatch, ShapeMismatch
    <3>2. \A i \in DOMAIN passed : passed[i] \in Seq(Vals) /\ Len(passed[i]) = 0
      BY <2>1, <3>1 DEF Misshapen
    <3>3. \A i \in DOMAIN passed : passed[i] = <<>> /\ DOMAIN passed[i] = {} /\ 1 \in DOMAIN passed
      BY <2>1, <3>2
    <3>4. CallComputes'
      BY <2>1, <3>1, <3>3 DEF CallComputes
    <3> QED
      BY <2>2, <3>4
  <2>3. CASE at' = "idle" /\ result' # Ok
    BY <2>3 DEF CallComputes
  <2>4. CASE at' = "gather"
    <3> DEFINE row == [i \in {0} |-> <<>>]
    <3>1. row[0] = <<>> /\ \A i \in 1..0 : FALSE
      OBVIOUS
    <3> HIDE DEF row
    <3>2. Gathered(reduced, 0)
      BY <2>1, <3>1 DEF Gathered
    <3>3. Gathered(reduced, card - 1)' /\ card' \in 1..Len(passed') + 1
      BY <2>1, <3>2 DEF Gathered
    <3> QED
      BY <2>4, <3>3 DEF CallComputes
  <2>5. CASE at' = "clone"
    BY <2>5 DEF CallComputes
  <2> QED
    BY <1>1, <2>2, <2>3, <2>4, <2>5 DEF Validate, Leave, Proceed
<1>2. CASE DeviceCollective
  BY <1>2 DEF DeviceCollective, Leave, CallComputes, NotImplemented, Ok
<1>3. CASE CloneFirst
  <2>1. /\ passed # <<>> /\ per_card = passed /\ op \in ReduceOps
        /\ UNCHANGED <<op, passed, per_card>>
    BY <1>3 DEF CloneFirst, ShapeInv, Started, Reducing, request
  <2>2. reduced' = passed[1] /\ card' = 2 /\ at' = "fold"
    BY <1>3, <2>1 DEF CloneFirst
  <2>3. /\ Len(passed) \in Nat /\ 1 \in DOMAIN passed
        /\ \A e \in Elements : passed[1][e] \in Vals
    BY <1>3, <2>1, BuffersFit DEF CloneFirst, Started, ShapeInv
  <2>4. \A e \in Elements : FoldedTo(passed[1][e], e, 1)
    BY <2>3, OneCardFolds
  <2>5. \A e \in Elements : FoldedTo(reduced[e], e, card - 1)'
    BY <2>1, <2>2, <2>4 DEF FoldedTo, Summed, Greatest, Smallest
  <2> QED
    BY <2>1, <2>2, <2>3, <2>5 DEF CallComputes, Elements
<1>4. CASE Fold
  <2>1. /\ per_card = passed /\ op \in ReduceOps
        /\ UNCHANGED <<op, passed, per_card>>
    BY <1>4 DEF Fold, ShapeInv, Reducing, Started, request
  <2>2. /\ Len(passed) \in Nat /\ DOMAIN passed = 1..Len(passed)
        /\ \A i \in DOMAIN passed : DOMAIN passed[i] = Elements
        /\ \A i \in DOMAIN passed : \A e \in Elements : passed[i][e] \in Vals
    BY <1>4, BuffersFit DEF Fold, Started
  <2>3. CASE card <= Len(per_card)
    <3>1. /\ at' = "fold" /\ card' = card + 1 /\ card \in 2..Len(passed)
          /\ reduced' = FoldInto(passed[card])
      BY <1>4, <2>1, <2>2, <2>3 DEF Fold
    <3>2. DOMAIN reduced' = Elements
          /\ \A e \in Elements : reduced'[e] = Combine(reduced[e], passed[card][e])
      BY <1>4, <2>2, <3>1 DEF Fold, FoldInto
    <3>3. \A e \in Elements : FoldedTo(reduced[e], e, card - 1)
      BY <1>4 DEF Fold
    <3>4. \A e \in Elements : FoldedTo(reduced'[e], e, card)
      <4>1. SUFFICES ASSUME NEW e \in Elements
                     PROVE  FoldedTo(Combine(reduced[e], passed[card][e]), e, card)
        BY <3>2
      <4> DEFINE n == card - 1
      <4>2. n \in Nat \ {0} /\ n + 1 = card /\ n + 1 \in DOMAIN passed
        BY <2>2, <3>1
      <4>3. FoldedTo(reduced[e], e, n)
        BY <3>3
      <4> HIDE DEF n
      <4>4. FoldedTo(Combine(reduced[e], passed[n + 1][e]), e, n + 1)
        BY <2>1, <2>2, <4>2, <4>3, CombineFolds
      <4> QED
        BY <4>2, <4>4
    <3>5. \A e \in Elements : FoldedTo(reduced[e], e, card - 1)'
      BY <2>1, <3>1, <3>4 DEF FoldedTo, Summed, Greatest, Smallest
    <3> QED
      BY <2>1, <2>2, <3>1, <3>2, <3>5 DEF CallComputes, Elements
  <2>4. CASE ~ (card <= Len(per_card))
    <3>1. at' = "average" /\ UNCHANGED <<reduced, card>> /\ card - 1 = Len(passed)
          /\ DOMAIN reduced = Elements
      BY <1>4, <2>1, <2>2, <2>4 DEF Fold
    <3>2. \A e \in Elements : FoldedTo(reduced[e], e, Len(passed))
      BY <1>4, <3>1 DEF Fold
    <3>3. \A e \in Elements : FoldedTo(reduced[e], e, Len(passed))'
      BY <2>1, <3>1, <3>2 DEF FoldedTo, Summed, Greatest, Smallest
    <3> QED
      BY <2>1, <3>1, <3>3 DEF CallComputes, Elements
  <2> QED
    BY <2>3, <2>4
<1>5. CASE Average
  <2>1. /\ op \in ReduceOps /\ UNCHANGED <<op, passed, per_card>> /\ per_card = passed
        /\ at' = "write_back" /\ card' = 1 /\ DOMAIN reduced = Elements
        /\ \A e \in Elements : FoldedTo(reduced[e], e, Len(passed))
    BY <1>5 DEF Average, ShapeInv, Reducing, Started, request
  <2>2. DOMAIN reduced' = Elements
        /\ \A e \in Elements :
             reduced'[e] = IF op = "Avg" THEN Over(reduced[e], Len(passed)) ELSE reduced[e]
    BY <1>5, <2>1 DEF Average
  <2>3. \A e \in Elements : Reduced(reduced'[e], e)
    BY <2>1, <2>2 DEF Reduced
  <2>4. \A e \in Elements : Reduced(reduced[e], e)'
    BY <2>1, <2>3 DEF Reduced, FoldedTo, Summed, Greatest, Smallest
  <2> QED
    BY <2>1, <2>2, <2>4 DEF CallComputes, Elements
<1>6. CASE WriteBack
  <2>1. /\ op \in ReduceOps /\ UNCHANGED <<op, passed>> /\ DOMAIN reduced = Elements
        /\ \A e \in Elements : Reduced(reduced[e], e)
        /\ \A i \in 1..card - 1 : i \in DOMAIN passed => per_card[i] = reduced
        /\ card \in Nat \ {0} /\ Len(per_card) = Len(passed)
    BY <1>6 DEF WriteBack, ShapeInv, Reducing, Started, request
  <2>2. /\ Len(passed) \in Nat /\ DOMAIN passed = 1..Len(passed)
        /\ \A i \in DOMAIN passed : DOMAIN passed[i] = Elements
    BY <1>6, BuffersFit DEF WriteBack, Started
  <2>3. \A e \in Elements : Reduced(reduced[e], e)'
    <3>1. reduced' = reduced
      BY <1>6 DEF WriteBack, Leave
    <3> QED
      BY <2>1, <3>1 DEF Reduced, FoldedTo, Summed, Greatest, Smallest
  <2>4. CASE card <= Len(per_card)
    <3>1. /\ per_card' = [per_card EXCEPT ![card] = reduced] /\ card' = card + 1
          /\ UNCHANGED <<at, reduced, result>> /\ at = "write_back"
      BY <1>6, <2>1, <2>2, <2>4 DEF WriteBack
    <3>2. PICK S : per_card \in Seq(S)
      BY DEF ShapeInv
    <3>3. \A i \in 1..card : i \in DOMAIN passed => per_card'[i] = reduced
      BY <2>1, <2>2, <3>1, <3>2
    <3>4. card' - 1 = card
      BY <2>1, <3>1
    <3> QED
      BY <2>1, <2>3, <3>1, <3>3, <3>4 DEF CallComputes, Elements
  <2>5. CASE ~ (card <= Len(per_card))
    <3>1. at' = "idle" /\ result' = Ok /\ UNCHANGED <<reduced, per_card>>
      BY <1>6, <2>5 DEF WriteBack, Leave
    <3>2. \A i \in DOMAIN passed : per_card[i] = reduced /\ 1 \in DOMAIN passed
      BY <2>1, <2>2, <2>5
    <3>3. op # "Gather"
      BY <2>1 DEF ReduceOps
    <3>4. CallComputes'
      BY <2>1, <2>2, <2>3, <3>1, <3>2, <3>3 DEF CallComputes, Elements
    <3> QED
      BY <3>1, <3>4
  <2> QED
    BY <2>4, <2>5
<1>7. CASE Gather
  <2>1. /\ op = "Gather" /\ per_card = passed /\ UNCHANGED <<op, passed, per_card>>
        /\ card \in 1..Len(passed) + 1 /\ Gathered(reduced, card - 1)
        /\ Len(passed) \in Nat
    BY <1>7, BuffersFit DEF Gather, ShapeInv, Started, request
  <2>2. CASE card <= Len(per_card)
    <3>1. /\ reduced' = reduced \o passed[card] /\ card' = card + 1 /\ at' = "gather"
      BY <1>7, <2>1, <2>2 DEF Gather
    <3> DEFINE n == card - 1
    <3>2. n \in Nat /\ n + 1 = card /\ Gathered(reduced, n)
      BY <2>1
    <3> HIDE DEF n
    <3>3. Gathered(reduced \o passed[n + 1], n + 1)
      BY <3>2, OneMoreGathers
    <3>4. Gathered(reduced, card - 1)' /\ card' \in 1..Len(passed') + 1
      <4>1. (card - 1)' = n + 1 /\ passed' = passed /\ reduced' = reduced \o passed[n + 1]
        <5>1. card \in Int /\ card' = card + 1 /\ n + 1 = card
          BY <2>1, <3>1, <3>2
        <5>2. (card - 1)' = n + 1
          BY <5>1
        <5>3. passed' = passed
          BY <2>1
        <5>4. reduced' = reduced \o passed[n + 1]
          BY <3>1, <5>1
        <5> QED
          BY <5>2, <5>3, <5>4
      <4>2. Gathered(reduced, card - 1)'
        BY <3>3, <4>1 DEF Gathered
      <4>3. card' \in 1..Len(passed) + 1
        BY <2>1, <2>2, <3>1
      <4> QED
        BY <2>1, <4>2, <4>3
    <3> QED
      BY <3>1, <3>4 DEF CallComputes
  <2>3. CASE ~ (card <= Len(per_card))
    <3>1. at' = "idle" /\ UNCHANGED reduced /\ card - 1 = Len(passed)
      BY <1>7, <2>1, <2>3 DEF Gather, Leave
    <3>2. Gathered(reduced, Len(passed))'
      BY <2>1, <3>1 DEF Gathered
    <3>3. op' \notin ReduceOps
      BY <2>1 DEF ReduceOps
    <3> QED
      BY <3>1, <3>2, <3>3 DEF CallComputes
  <2> QED
    BY <2>2, <2>3
<1>8. CASE UNCHANGED vars
  <2>1. UNCHANGED <<op, passed, per_card, reduced, card, at, result>>
    BY <1>8 DEF vars, request
  <2>2. CallComputes'
    <3>1. ASSUME NEW i, NEW e PROVE Reduced(per_card[i][e], e)' <=> Reduced(per_card[i][e], e)
      BY <2>1 DEF Reduced, FoldedTo, Summed, Greatest, Smallest
    <3>2. Gathered(reduced, Len(passed))' <=> Gathered(reduced, Len(passed))
      BY <2>1 DEF Gathered
    <3> QED
      BY <2>1, <3>1, <3>2 DEF CallComputes
  <2>3. /\ (\A e \in Elements : FoldedTo(reduced[e], e, card - 1))'
             <=> \A e \in Elements : FoldedTo(reduced[e], e, card - 1)
        /\ (\A e \in Elements : FoldedTo(reduced[e], e, Len(passed)))'
             <=> \A e \in Elements : FoldedTo(reduced[e], e, Len(passed))
    BY <2>1 DEF Elements, FoldedTo, Summed, Greatest, Smallest
  <2>4. (\A e \in Elements : Reduced(reduced[e], e))'
          <=> \A e \in Elements : Reduced(reduced[e], e)
    BY <2>1 DEF Elements, Reduced, FoldedTo, Summed, Greatest, Smallest
  <2>5. Gathered(reduced, card - 1)' <=> Gathered(reduced, card - 1)
    BY <2>1 DEF Gathered
  <2> QED
    BY <2>1, <2>2, <2>3, <2>4, <2>5 DEF Elements
<1> QED
  BY <1>1, <1>2, <1>3, <1>4, <1>5, <1>6, <1>7, <1>8 DEF Next

\* A reduction that succeeds leaves every card with the same buffer, as long as it
\* was: sums added up from card 0 on, averages of such sums, or extremes; a gather
\* yields the buffers in order. For any number of cards, any length of buffers, and
\* whatever addition rounds to.
THEOREM CallsCompute == Spec => []CallComputes
<1>1. Init => ComputeInv
  BY DEF Init, ComputeInv, CallComputes
<1>2. ComputeInv => CallComputes
  BY DEF ComputeInv
<1> QED
  BY <1>1, <1>2, Invariance, ComputeStep, PTL DEF Spec
-----------------------------------------------------------------------------
(* The folds of the library, told by their rows. Both are recursive          *)
(* functions, CHOOSEn among those that obey their equation: one exists, by   *)
(* the least number of cards for which there would be none, and what it      *)
(* yields is the row's last, by the least card at which they would differ.   *)

\* The largest member of a set of numbers.
LEMMA MaxIsLargest ==
  ASSUME NEW T \in SUBSET Nat, NEW n \in T, \A j \in T : j <= n
  PROVE  Max(T) = n
<1>1. \A x \in T : (\A y \in T : x >= y) <=> x = n
  OBVIOUS
<1>2. Max(T) \in T /\ \A y \in T : Max(T) >= y
  BY <1>1 DEF Max
<1> QED
  BY <1>1, <1>2

\* What FoldLeft computes by: the members of a set of positions, the last one last.
IsFold(f, base, s, n) ==
  f = [T \in SUBSET (1..n) |-> IF T = {} THEN base ELSE Add(f[T \ {Max(T)}], s[Max(T)])]

\* A fold over one position more.
LEMMA FoldGrows ==
  ASSUME NEW base, NEW s, NEW n \in Nat, NEW g, IsFold(g, base, s, n)
  PROVE  \E f : IsFold(f, base, s, n + 1)
<1> DEFINE m == n + 1
           f == [T \in SUBSET (1..m) |-> IF m \in T THEN Add(g[T \ {m}], s[m]) ELSE g[T]]
           h == [T \in SUBSET (1..m) |-> IF T = {} THEN base
                                         ELSE Add(f[T \ {Max(T)}], s[Max(T)])]
<1>1. ASSUME NEW T \in SUBSET (1..m) PROVE f[T] = h[T]
  <2>1. CASE m \in T
    <3>1. Max(T) = m
      BY <2>1, MaxIsLargest
    <3>2. T \ {m} \in SUBSET (1..m) /\ m \notin T \ {m} /\ T # {}
      BY <2>1
    <3>3. f[T \ {m}] = g[T \ {m}] /\ f[T] = Add(g[T \ {m}], s[m])
      BY <2>1, <3>2
    <3>4. h[T] = Add(f[T \ {m}], s[m])
      BY <3>1, <3>2
    <3> QED
      BY <3>3, <3>4
  <2>2. CASE m \notin T
    <3>1. T \in SUBSET (1..n)
      <4>1. \A i \in T : i \in 1..m /\ i # m
        BY <2>2
      <4>2. \A i \in 1..m : i # m => i \in 1..n
        OBVIOUS
      <4> QED
        BY <4>1, <4>2
    <3>2. g[T] = IF T = {} THEN base ELSE Add(g[T \ {Max(T)}], s[Max(T)])
      <4> DEFINE g0 == [S \in SUBSET (1..n) |-> IF S = {} THEN base
                                                ELSE Add(g[S \ {Max(S)}], s[Max(S)])]
      <4>1. g = g0
        BY DEF IsFold
      <4>2. g0[T] = IF T = {} THEN base ELSE Add(g[T \ {Max(T)}], s[Max(T)])
        BY <3>1
      <4> HIDE DEF g0
      <4> QED
        BY <4>1, <4>2
    <3>3. f[T] = g[T] /\ f[T \ {Max(T)}] = g[T \ {Max(T)}]
      BY <2>2
    <3>4. h[T] = IF T = {} THEN base ELSE Add(f[T \ {Max(T)}], s[Max(T)])
      OBVIOUS
    <3> QED
      BY <3>2, <3>3, <3>4
  <2> QED
    BY <2>1, <2>2
<1>2. f = h
  BY <1>1
<1>3. IsFold(f, base, s, m)
  BY <1>2 DEF IsFold
<1> HIDE DEF f
<1> QED
  BY <1>3

\* There is a fold over any number of positions.
LEMMA FoldExists ==
  ASSUME NEW base, NEW s, NEW n \in Nat
  PROVE  \E f : IsFold(f, base, s, n)
<1> DEFINE Without == {i \in Nat : ~ \E f : IsFold(f, base, s, i)}
<1> SUFFICES ASSUME Without # {} PROVE FALSE
  OBVIOUS
<1>1. PICK i \in Without : \A j \in Without : i <= j
  BY LeastMember
<1>2. CASE i = 0
  <2> DEFINE f == [T \in SUBSET (1..0) |-> base]
  <2>1. \A T \in SUBSET (1..0) : T = {}
    OBVIOUS
  <2>2. IsFold(f, base, s, 0)
    BY <2>1 DEF IsFold
  <2> HIDE DEF f
  <2> QED
    BY <1>2, <2>2
<1>3. CASE i # 0
  <2>1. i - 1 \in Nat /\ (i - 1) + 1 = i /\ ~ (i <= i - 1)
    BY <1>3
  <2>2. PICK g : IsFold(g, base, s, i - 1)
    BY <1>1, <2>1
  <2>3. \E f : IsFold(f, base, s, (i - 1) + 1)
    BY <2>1, <2>2, FoldGrows
  <2> QED
    BY <2>1, <2>3
<1> QED
  BY <1>2, <1>3

\* A row that starts with a base and adds position by position.
IsRow(row, base, s, n) ==
  row[1] = base /\ \A i \in 1..n : row[i + 1] = Add(row[i], s[i])

\* A fold follows any row of its base and its positions.
LEMMA FoldFollowsRow ==
  ASSUME NEW base, NEW s, NEW n \in Nat, NEW f, NEW row,
         IsFold(f, base, s, n), IsRow(row, base, s, n)
  PROVE  f[1..n] = row[n + 1]
<1> USE DEF IsRow
<1> DEFINE Apart == {i \in 0..n : f[1..i] # row[i + 1]}
<1> SUFFICES ASSUME Apart # {} PROVE FALSE
  <2>1. n \in 0..n
    OBVIOUS
  <2> QED
    BY <2>1
<1>1. PICK i \in Apart : \A j \in Apart : i <= j
  <2>1. Apart \in SUBSET Nat
    OBVIOUS
  <2> HIDE DEF Apart
  <2> QED
    BY <2>1, LeastMember
<1>2. f[1..i] = IF 1..i = {} THEN base ELSE Add(f[(1..i) \ {Max(1..i)}], s[Max(1..i)])
  <2> DEFINE f0 == [T \in SUBSET (1..n) |-> IF T = {} THEN base
                                            ELSE Add(f[T \ {Max(T)}], s[Max(T)])]
  <2>1. f = f0
    BY DEF IsFold
  <2>2. 1..i \in SUBSET (1..n)
    BY <1>1
  <2>3. f0[1..i] = IF 1..i = {} THEN base ELSE Add(f[(1..i) \ {Max(1..i)}], s[Max(1..i)])
    BY <2>2
  <2> HIDE DEF f0
  <2> QED
    BY <2>1, <2>3
<1>3. CASE i = 0
  <2>1. 1..i = {} /\ i + 1 = 1
    BY <1>3
  <2> QED
    BY <1>1, <1>2, <2>1
<1>4. CASE i # 0
  <2>1. i \in 1..n /\ i - 1 \in 0..n /\ (i - 1) + 1 = i /\ ~ (i <= i - 1)
    BY <1>1, <1>4
  <2>2. Max(1..i) = i
    <3>1. 1..i \in SUBSET Nat /\ i \in 1..i /\ \A j \in 1..i : j <= i
      BY <2>1
    <3> QED
      BY <3>1, MaxIsLargest
  <2>3. (1..i) \ {i} = 1..i - 1 /\ 1..i # {}
    <3>1. \A j : j \in (1..i) \ {i} <=> j \in 1..i - 1
      BY <2>1
    <3>2. i \in 1..i
      BY <2>1
    <3> QED
      BY <3>1, <3>2
  <2>4. f[1..i - 1] = row[i]
    BY <1>1, <2>1
  <2>5. f[1..i] = Add(row[i], s[i])
    BY <1>2, <2>2, <2>3, <2>4
  <2> QED
    BY <1>1, <2>1, <2>5
<1> QED
  BY <1>3, <1>4

\* Adding up a column in topology order is what its row comes to.
LEMMA SumIsOrdered ==
  ASSUME NEW e, passed \in Seq(Seq(Vals)), Len(passed) # 0, NEW r,
         Summed(r, e, Len(passed))
  PROVE  r = OrderedSum(Column(e))
<1> DEFINE col == Column(e)
           s   == Tail(col)
           n   == Len(passed) - 1
           sum == CHOOSE f : IsFold(f, col[1], s, n)
<1>1. PICK row : /\ row[1] = passed[1][e]
                 /\ \A i \in 1..Len(passed) - 1 : row[i + 1] = Add(row[i], passed[i + 1][e])
                 /\ r = row[Len(passed)]
  BY DEF Summed
<1>2. /\ Len(passed) \in Nat /\ n \in Nat /\ n + 1 = Len(passed)
      /\ DOMAIN passed = 1..Len(passed)
  OBVIOUS
<1>3. /\ col[1] = passed[1][e]
      /\ DOMAIN s = 1..n
      /\ \A i \in 1..n : s[i] = passed[i + 1][e]
  <2>1. PICK S : S = {passed[i][e] : i \in DOMAIN passed}
    OBVIOUS
  <2>2. col = [i \in 1..Len(passed) |-> passed[i][e]] /\ col \in [1..Len(passed) -> S]
    BY <1>2, <2>1 DEF Column
  <2>3. col \in Seq(S) /\ Len(col) = Len(passed) /\ col # <<>>
    <3>1. \A i \in 1..Len(passed) : passed[i][e] \in S
      BY <1>2, <2>1
    <3>2. [i \in 1..Len(passed) |-> passed[i][e]] \in Seq(S)
      BY <1>2, <3>1
    <3>3. Len(col) = Len(passed)
      BY <1>2, <2>2
    <3> HIDE DEF col
    <3> QED
      BY <1>2, <2>2, <3>2, <3>3
  <2>4. DOMAIN s = 1..n /\ \A i \in 1..n : s[i] = col[i + 1]
    <3> HIDE DEF col
    <3> QED
      BY <1>2, <2>3
  <2> QED
    BY <1>2, <2>2, <2>4
<1>4. OrderedSum(col) = sum[1..n]
  <2> HIDE DEF col, n
  <2> QED
    BY <1>3 DEF OrderedSum, FoldLeft, MapThenFoldSet, IsFold
<1>5. IsFold(sum, col[1], s, n)
  <2> HIDE DEF col, s, n
  <2> QED
    BY <1>2, FoldExists
<1>6. IsRow(row, col[1], s, n)
  BY <1>1, <1>3 DEF IsRow
<1> HIDE DEF sum, col, s, n
<1>7. sum[1..n] = row[n + 1]
  <2>1. n \in Nat
    BY <1>2
  <2> QED
    BY <1>5, <1>6, <2>1, FoldFollowsRow
<1> QED
  BY <1>1, <1>2, <1>4, <1>7 DEF col

\* What FlattenSeq computes by.
IsFlatten(f, seqs) ==
  f = [i \in 1..Len(seqs) |-> IF i = 1 THEN seqs[i] ELSE f[i - 1] \o seqs[i]]

\* The buffers one after the other are what a gather has appended card by card.
LEMMA GatherIsFlat ==
  ASSUME passed \in Seq(Seq(Vals)), NEW out, Gathered(out, Len(passed))
  PROVE  out = FlattenSeq(passed)
<1>1. PICK row : /\ row[0] = <<>>
                 /\ \A i \in 1..Len(passed) : row[i] = row[i - 1] \o passed[i]
                 /\ out = row[Len(passed)]
  BY DEF Gathered
<1> DEFINE n == Len(passed)
           flatten == CHOOSE f : IsFlatten(f, passed)
           rows == [i \in 1..n |-> row[i]]
<1>2. n \in Nat /\ \A i \in 1..n : passed[i] \in Seq(Vals)
  OBVIOUS
<1>3. CASE n = 0
  <2>1. passed = <<>> /\ out = <<>>
    BY <1>1, <1>3
  <2> QED
    BY <1>3, <2>1 DEF FlattenSeq
<1>4. CASE n # 0
  <2>1. row[1] = passed[1]
    <3>1. 1 \in 1..n /\ passed[1] \in Seq(Vals)
      BY <1>2, <1>4
    <3>2. row[1] = row[1 - 1] \o passed[1]
      BY <1>1, <3>1
    <3>3. 1 - 1 = 0 /\ row[0] = <<>> /\ <<>> \o passed[1] = passed[1]
      BY <1>1, <3>1
    <3>4. row[1] = row[0] \o passed[1]
      BY <3>2, <3>3
    <3> QED
      BY <3>3, <3>4
  <2>2. IsFlatten(rows, passed)
    <3>1. ASSUME NEW i \in 1..n
          PROVE  rows[i] = IF i = 1 THEN passed[i] ELSE rows[i - 1] \o passed[i]
      <4>1. CASE i = 1
        BY <2>1, <4>1
      <4>2. CASE i # 1
        <5>1. i - 1 \in 1..n
          BY <1>2, <4>2
        <5>2. rows[i] = row[i] /\ rows[i - 1] = row[i - 1]
          BY <5>1
        <5> QED
          BY <1>1, <4>2, <5>2
      <4> QED
        BY <4>1, <4>2
    <3>2. rows = [i \in 1..n |-> IF i = 1 THEN passed[i] ELSE rows[i - 1] \o passed[i]]
      BY <3>1
    <3> QED
      BY <3>2 DEF IsFlatten
  <2>3. IsFlatten(flatten, passed)
    <3> HIDE DEF rows
    <3> QED
      BY <2>2
  <2>4. FlattenSeq(passed) = flatten[n]
    BY <1>4 DEF FlattenSeq, IsFlatten
  <2>5. \A i \in 1..n : flatten[i] = row[i]
    <3> DEFINE Apart == {i \in 1..n : flatten[i] # row[i]}
    <3> SUFFICES ASSUME Apart # {} PROVE FALSE
      OBVIOUS
    <3> HIDE DEF flatten
    <3>1. PICK i \in Apart : \A j \in Apart : i <= j
      <4>1. Apart \in SUBSET Nat
        BY <1>2
      <4> HIDE DEF Apart
      <4> QED
        BY <4>1, LeastMember
    <3>2. flatten[i] = IF i = 1 THEN passed[i] ELSE flatten[i - 1] \o passed[i]
      <4> DEFINE f0 == [j \in 1..n |-> IF j = 1 THEN passed[j] ELSE flatten[j - 1] \o passed[j]]
      <4>1. flatten = f0
        BY <2>3 DEF IsFlatten
      <4>2. f0[i] = IF i = 1 THEN passed[i] ELSE flatten[i - 1] \o passed[i]
        BY <3>1
      <4> HIDE DEF f0
      <4> QED
        BY <4>1, <4>2
    <3>3. CASE i = 1
      BY <2>1, <3>1, <3>2, <3>3
    <3>4. CASE i # 1
      <4>1. i \in 1..n /\ i - 1 \in 1..n /\ ~ (i <= i - 1)
        BY <1>2, <3>1, <3>4
      <4>2. flatten[i - 1] = row[i - 1]
        BY <3>1, <4>1
      <4>3. flatten[i] = row[i]
        BY <1>1, <3>2, <3>4, <4>1, <4>2
      <4> QED
        BY <3>1, <4>3
    <3> QED
      BY <3>3, <3>4
  <2>6. n \in 1..n
    BY <1>2, <1>4
  <2> HIDE DEF flatten
  <2> QED
    BY <1>1, <2>4, <2>5, <2>6
<1> QED
  BY <1>3, <1>4

\* A reduction of the rows is the reduction of the columns.
LEMMA ReducedIsReduction ==
  ASSUME passed \in Seq(Seq(Vals)), Len(passed) # 0, op \in ReduceOps,
         NEW e, NEW r, Reduced(r, e)
  PROVE  IsReduction(r, Column(e))
<1>1. PICK s : FoldedTo(s, e, Len(passed)) /\ r = IF op = "Avg" THEN Over(s, Len(passed)) ELSE s
  BY DEF Reduced
<1>2. /\ Len(passed) \in Nat /\ DOMAIN passed = 1..Len(passed) /\ 1 \in 1..Len(passed)
      /\ DOMAIN Column(e) = 1..Len(passed) /\ Len(Column(e)) = Len(passed)
      /\ \A i \in 1..Len(passed) : Column(e)[i] = passed[i][e]
  BY DEF Column
<1>3. op \in {"Sum", "Avg"} => s = OrderedSum(Column(e))
  BY <1>1, SumIsOrdered DEF FoldedTo
<1>4. op = "Max" => IsMax(r, Column(e))
  BY <1>1, <1>2 DEF FoldedTo, Greatest, IsMax
<1>5. op = "Min" => IsMin(r, Column(e))
  BY <1>1, <1>2 DEF FoldedTo, Smallest, IsMin
<1> QED
  BY <1>1, <1>2, <1>3, <1>4, <1>5 DEF IsReduction

\* The caller of an all_reduce finds, on every card and for every element, what
\* adding the cards up in topology order gives, that over the number of cards, or
\* an extreme of the column: for any number of cards and whatever addition rounds to.
THEOREM ReductionsAreExact == Spec => []ReductionIsExact
<1>1. ShapeInv /\ CallComputes => ReductionIsExact
  <2> SUFFICES ASSUME ShapeInv, CallComputes, at = "idle", result = Ok, op \in ReduceOps,
                      NEW i \in DOMAIN passed
               PROVE  /\ per_card[i] = per_card[1]
                      /\ DOMAIN per_card[i] = DOMAIN passed[i]
                      /\ \A e \in DOMAIN passed[1] : IsReduction(per_card[i][e], Column(e))
    BY DEF ReductionIsExact
  <2>1. passed \in Seq(Seq(Vals)) /\ Len(passed) # 0
    BY DEF ShapeInv
  <2>2. /\ per_card[i] = per_card[1]
        /\ DOMAIN per_card[i] = DOMAIN passed[i]
        /\ \A e \in DOMAIN passed[1] : Reduced(per_card[i][e], e)
    BY DEF CallComputes
  <2> QED
    BY <2>1, <2>2, ReducedIsReduction
<1> QED
  BY <1>1, Invariance, CallsCompute, PTL

\* The output of an all_gather is the callers' buffers one after the other, for any
\* number of cards, an empty topology included.
THEOREM GathersConcatenate == Spec => []GatherConcatenates
<1>1. ShapeInv /\ CallComputes => GatherConcatenates
  <2>1. ShapeInv => passed \in Seq(Seq(Vals))
    BY DEF ShapeInv
  <2> QED
    BY <2>1, GatherIsFlat DEF CallComputes, GatherConcatenates
<1> QED
  BY <1>1, Invariance, CallsCompute, PTL
=============================================================================
