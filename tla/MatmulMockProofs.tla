-------------------------- MODULE MatmulMockProofs --------------------------
(***************************************************************************)
(* What holds of MatmulMock for any number of threads, calls and shapes,   *)
(* any block layout and any width of usize.                                *)
(***************************************************************************)
EXTENDS MatmulMock, NaturalFacts, TLAPS

\* A product that checked_mul lets through is the product.
LEMMA CheckedMulIsExact ==
  ASSUME NEW x \in Nat, NEW y \in Nat, checked_mul(x, y) # None
  PROVE  checked_mul(x, y) = x * y /\ x * y <= MaxU
BY MatmulAssumption DEF checked_mul

\* So is a chain of two, for a missing first product makes the second missing.
LEMMA CheckedMulChains ==
  ASSUME NEW x \in Nat, NEW y \in Nat, NEW z \in Nat,
         checked_mul(checked_mul(x, y), z) # None
  PROVE  checked_mul(checked_mul(x, y), z) = (x * y) * z
<1>1. checked_mul(x, y) # None
  BY DEF checked_mul
<1>2. checked_mul(x, y) = x * y /\ x * y \in Nat
  BY <1>1, CheckedMulIsExact
<1> QED
  BY <1>2, CheckedMulIsExact

\* The bytes of k weights along each line, over whole blocks.
LEMMA BlockBytesAreExact ==
  ASSUME NEW lines \in Nat, NEW k \in Nat, BlockBytes(lines, k) # None
  PROVE  /\ BlockBytes(lines, k) * QK_K = lines * k * Q4_K_BLOCK_BYTES
         /\ BlockBytes(lines, k) \in Nat
<1> DEFINE q == k \div QK_K
           B == Q4_K_BLOCK_BYTES
<1>1. QK_K \in Nat \ {0} /\ B \in Nat
  BY MatmulAssumption
<1>2. ~ BadK(k)
  BY DEF BlockBytes
<1>3. q \in Nat /\ k = QK_K * q
  BY <1>1, <1>2 DEF BadK
<1>4. BlockBytes(lines, k) = (lines * q) * B
  BY <1>1, <1>2, <1>3, CheckedMulChains DEF BlockBytes
<1>5. lines * q \in Nat
  BY <1>3
<1> HIDE DEF q, B
<1>6. ((lines * q) * B) * QK_K = lines * (QK_K * q) * B
  BY <1>1, <1>3
<1>7. (lines * q) * B \in Nat
  BY <1>1, <1>5
<1> QED
  BY <1>3, <1>4, <1>6, <1>7 DEF B

\* What the lengths of a call must be.
TrueLengths(x) ==
  /\ x.a * QK_K = x.m * x.k * Q4_K_BLOCK_BYTES
  /\ x.b * QK_K = x.n * x.k * Q4_K_BLOCK_BYTES
  /\ x.out >= x.m * x.n * OUTPUT_ELEM_BYTES

\* A call that gets past every check of matmul_q4_k has true lengths.
LEMMA TrafficHasTrueLengths ==
  ASSUME NEW x \in Args, Verdict(x) = "Traffic"
  PROVE  TrueLengths(x)
<1>1. x.m \in Nat /\ x.k \in Nat /\ x.n \in Nat /\ x.out \in Nat
  BY MatmulAssumption
<1>2. OUTPUT_ELEM_BYTES \in Nat
  BY MatmulAssumption
<1>3. /\ expected_a_bytes(x.m, x.k) # None /\ x.a = expected_a_bytes(x.m, x.k)
      /\ expected_b_bytes(x.k, x.n) # None /\ x.b = expected_b_bytes(x.k, x.n)
      /\ expected_out_bytes(x.m, x.n) # None
      /\ ~ (x.out < expected_out_bytes(x.m, x.n))
  BY DEF Verdict
<1>4. x.a * QK_K = x.m * x.k * Q4_K_BLOCK_BYTES
  BY <1>1, <1>3, BlockBytesAreExact DEF expected_a_bytes
<1>5. x.b * QK_K = x.n * x.k * Q4_K_BLOCK_BYTES
  BY <1>1, <1>3, BlockBytesAreExact DEF expected_b_bytes
<1>6. expected_out_bytes(x.m, x.n) = (x.m * x.n) * OUTPUT_ELEM_BYTES
  BY <1>1, <1>2, <1>3, CheckedMulChains DEF expected_out_bytes
<1>7. (x.m * x.n) * OUTPUT_ELEM_BYTES \in Nat
  BY <1>1, <1>2
<1>8. x.out >= x.m * x.n * OUTPUT_ELEM_BYTES
  BY <1>1, <1>3, <1>6, <1>7
<1> QED
  BY <1>4, <1>5, <1>8 DEF TrueLengths

-----------------------------------------------------------------------------
\* What a push records is a transaction, and the record stays a sequence of them.
LEMMA PushType ==
  ASSUME TypeOK, NEW t \in Threads, NEW txn \in Transactions,
         NEW here, NEW next \in Phases, Push(t, here, txn, next)
  PROVE  /\ txns' \in Seq(Transactions)
         /\ at' \in [Threads -> Phases]
         /\ UNCHANGED <<snap, args, calls>>
BY DEF Push, TypeOK

\* The fields the code gives a transaction, and the call it belongs to.
LEMMA TransactionTypes ==
  ASSUME TypeOK, NEW t \in Threads
  PROVE  /\ Write(t, "BAR_A", args[t].a) \in Transactions
         /\ Write(t, "BAR_B", args[t].b) \in Transactions
         /\ Submit(t, args[t].m, args[t].k, args[t].n) \in Transactions
         /\ Read(t, args[t].out) \in Transactions
<1>1. /\ args[t].a \in 0..MaxU /\ args[t].b \in 0..MaxU /\ args[t].out \in 0..MaxU
      /\ args[t].m \in 0..MaxU /\ args[t].k \in 0..MaxU /\ args[t].n \in 0..MaxU
      /\ calls[t] \in 0..MaxCalls /\ MaxU \in Nat
  <2>1. args[t] \in Args
    BY DEF TypeOK
  <2>2. calls[t] \in 0..MaxCalls
    BY DEF TypeOK
  <2> QED
    BY <2>1, <2>2, MatmulAssumption
<1>2. CallOf(t) \in Threads \X (0..MaxCalls)
  BY <1>1 DEF CallOf
<1>3. 0 \in 0..MaxU
  BY <1>1
<1>4. /\ Write(t, "BAR_A", args[t].a) \in Transactions
      /\ Write(t, "BAR_B", args[t].b) \in Transactions
  BY <1>1, <1>2 DEF Write, Transactions
<1>5. Submit(t, args[t].m, args[t].k, args[t].n) \in Transactions
  BY <1>1, <1>2, <1>3 DEF Submit, Transactions
<1>6. Read(t, args[t].out) \in Transactions
  BY <1>1, <1>2 DEF Read, Transactions
<1> QED
  BY <1>4, <1>5, <1>6

\* Every step of a thread or of the observer keeps the types.
LEMMA TypeStep == TypeOK /\ [Next]_vars => TypeOK'
<1> SUFFICES ASSUME TypeOK, [Next]_vars PROVE TypeOK'
  OBVIOUS
<1>1. ASSUME NEW t \in Threads, NEW x \in Args, Call(t, x) PROVE TypeOK'
  <2>1. calls' \in [Threads -> 0..MaxCalls]
    <3>1. calls[t] + 1 \in 0..MaxCalls
      <4>1. calls[t] \in 0..MaxCalls /\ calls[t] < MaxCalls /\ MaxCalls \in Nat
        BY <1>1, MatmulAssumption DEF Call, TypeOK
      <4> QED
        BY <4>1
    <3> QED
      BY <1>1, <3>1 DEF Call, TypeOK
  <2>2. at' \in [Threads -> Phases] /\ args' \in [Threads -> Args]
        /\ UNCHANGED <<txns, snap>>
    BY <1>1 DEF Call, TypeOK, Phases
  <2>3. result' \in [Threads -> {"none", "Ok"} \cup Errors]
    BY <1>1 DEF Call, TypeOK
  <2> QED
    BY <2>1, <2>2, <2>3 DEF TypeOK
<1>2. ASSUME NEW t \in Threads, Check(t) PROVE TypeOK'
  <2>1. Verdict(args[t]) \in {"Ok", "Traffic"} \cup Errors
    BY DEF Verdict, Errors
  <2> QED
    BY <1>2, <2>1 DEF Check, TypeOK, Phases
<1>3. ASSUME NEW t \in Threads, PushA(t) \/ PushB(t) \/ PushSubmit(t) PROVE TypeOK'
  <2>1. txns' \in Seq(Transactions) /\ at' \in [Threads -> Phases]
        /\ UNCHANGED <<snap, args, calls, result>>
    BY <1>3, PushType, TransactionTypes DEF PushA, PushB, PushSubmit, Phases
  <2> QED
    BY <2>1 DEF TypeOK
<1>4. ASSUME NEW t \in Threads, PushRead(t) PROVE TypeOK'
  <2>1. txns' \in Seq(Transactions) /\ at' \in [Threads -> Phases]
        /\ UNCHANGED <<snap, args, calls>>
    BY <1>4, PushType, TransactionTypes DEF PushRead, Phases
  <2> QED
    BY <1>4, <2>1 DEF PushRead, TypeOK
<1>5. CASE Snapshot
  BY <1>5 DEF Snapshot, TypeOK
<1>6. CASE UNCHANGED vars
  BY <1>6 DEF vars, TypeOK
<1> QED
  BY <1>1, <1>2, <1>3, <1>4, <1>5, <1>6 DEF Next, CallStep

\* Every variable of the mock, its threads and its observer keeps its type.
THEOREM TypeCorrect == Spec => []TypeOK
<1>1. Init => TypeOK
  BY MatmulAssumption DEF Init, TypeOK, Phases
<1> QED
  BY <1>1, TypeStep, PTL DEF Spec

-----------------------------------------------------------------------------
(* Lengths: what a thread learnt from its checks stays true until it returns,*)
(* for nobody else writes its arguments.                                    *)

Transferring == {"write_a", "write_b", "submit", "read"}

CheckedInv == \A t \in Threads : at[t] \in Transferring => TrueLengths(args[t])

\* Only a call's own check lets it transfer, and only a new call changes its
\* arguments.
LEMMA CheckedStep == TypeOK /\ CheckedInv /\ [Next]_vars => CheckedInv'
<1> SUFFICES ASSUME TypeOK, CheckedInv, [Next]_vars,
                    NEW t \in Threads, at'[t] \in Transferring
             PROVE  TrueLengths(args'[t])
  BY DEF CheckedInv
<1>1. ASSUME NEW s \in Threads, NEW x \in Args, Call(s, x)
      PROVE  TrueLengths(args'[t])
  BY <1>1 DEF Call, TypeOK, CheckedInv, Transferring
<1>2. ASSUME NEW s \in Threads, Check(s) PROVE TrueLengths(args'[t])
  <2>1. CASE s = t
    <3>1. Verdict(args[t]) = "Traffic" /\ args' = args
      BY <1>2, <2>1 DEF Check, TypeOK, Transferring
    <3>2. args[t] \in Args
      BY DEF TypeOK
    <3> QED
      BY <3>1, <3>2, TrafficHasTrueLengths
  <2>2. CASE s # t
    BY <1>2, <2>2 DEF Check, TypeOK, CheckedInv
  <2> QED
    BY <2>1, <2>2
<1>3. ASSUME NEW s \in Threads,
             PushA(s) \/ PushB(s) \/ PushSubmit(s) \/ PushRead(s)
      PROVE  TrueLengths(args'[t])
  <2>1. at[t] \in Transferring /\ args' = args
    BY <1>3 DEF PushA, PushB, PushSubmit, PushRead, Push, TypeOK, Transferring
  <2> QED
    BY <2>1 DEF CheckedInv
<1>4. CASE Snapshot
  BY <1>4 DEF Snapshot, CheckedInv
<1>5. CASE UNCHANGED vars
  BY <1>5 DEF vars, CheckedInv
<1> QED
  BY <1>1, <1>2, <1>3, <1>4, <1>5 DEF Next, CallStep

\* No length that is transferred is one an overflowing product passed off,
\* whatever the width of usize and the layout of a block.
THEOREM Lengths == Spec => []LengthsAreTrue
<1>1. Init => TypeOK /\ CheckedInv
  BY MatmulAssumption DEF Init, TypeOK, Phases, CheckedInv, Transferring
<1>2. TypeOK /\ CheckedInv /\ [Next]_vars => (TypeOK /\ CheckedInv)'
  BY TypeStep, CheckedStep
<1>3. CheckedInv => LengthsAreTrue
  BY DEF CheckedInv, LengthsAreTrue, TrueLengths, Transferring
<1> QED
  BY <1>1, <1>2, <1>3, PTL DEF Spec

-----------------------------------------------------------------------------
\* A record grown by a push still starts as it did.
LEMMA AppendKeepsPrefix ==
  ASSUME NEW S, NEW s \in Seq(S), NEW r \in Seq(S), NEW e \in S, IsPrefix(s, r)
  PROVE  IsPrefix(s, Append(r, e))
<1>1. Len(Append(r, e)) = Len(r) + 1 /\ Len(s) \in Nat /\ Len(r) \in Nat
  OBVIOUS
<1>2. Len(s) <= Len(r) /\ SubSeq(s, 1, Len(s)) = SubSeq(r, 1, Len(s))
  BY DEF IsPrefix
<1>3. SubSeq(Append(r, e), 1, Len(s)) = SubSeq(r, 1, Len(s))
  BY <1>1, <1>2
<1> QED
  BY <1>1, <1>2, <1>3 DEF IsPrefix

\* The record is only ever appended to, so what an observer has seen stays its
\* beginning.
LEMMA SnapshotStep == TypeOK /\ SnapshotStaysTrue /\ [Next]_vars => SnapshotStaysTrue'
<1> SUFFICES ASSUME TypeOK, IsPrefix(snap, txns), [Next]_vars
             PROVE  IsPrefix(snap', txns')
  BY DEF SnapshotStaysTrue
<1>1. CASE UNCHANGED <<txns, snap>>
  BY <1>1
<1>2. ASSUME NEW txn \in Transactions, txns' = Append(txns, txn), snap' = snap
      PROVE  IsPrefix(snap', txns')
  BY <1>2, AppendKeepsPrefix DEF TypeOK
<1>3. CASE Snapshot
  BY <1>3 DEF Snapshot, IsPrefix, TypeOK
<1>4. ASSUME NEW t \in Threads, CallStep(t) \/ \E x \in Args : Call(t, x)
      PROVE  IsPrefix(snap', txns')
  BY <1>1, <1>2, <1>4, TransactionTypes
  DEF CallStep, Call, Check, PushA, PushB, PushSubmit, PushRead, Push
<1> QED
  BY <1>1, <1>3, <1>4 DEF Next, vars

\* A snapshot stays true for ever: the record only grows past it.
THEOREM SnapshotsStayTrue == Spec => []SnapshotStaysTrue
<1>1. Init => TypeOK /\ SnapshotStaysTrue
  BY MatmulAssumption DEF Init, TypeOK, Phases, SnapshotStaysTrue, IsPrefix
<1>2. TypeOK /\ SnapshotStaysTrue /\ [Next]_vars => (TypeOK /\ SnapshotStaysTrue)'
  BY TypeStep, SnapshotStep
<1> QED
  BY <1>1, <1>2, PTL DEF Spec

-----------------------------------------------------------------------------
(* What the record tells of the calls that made it.                         *)

\* Every transaction belongs to a call that has been made; those of one call stand
\* in the order of their places, and none before the one in the place before it.
RecordInv ==
  /\ \A i \in DOMAIN txns :
       \E t \in Threads : \E c \in 1..calls[t] : txns[i].by = <<t, c>>
  /\ \A i \in DOMAIN txns :
       /\ Place(txns[i]) \in 1..4
       /\ txns[i].kind = "Read" <=> Place(txns[i]) = 4
       /\ txns[i].kind = "ComputeSubmit" <=> Place(txns[i]) = 3
       /\ \A bar \in {"BAR_A", "BAR_B"} :
            IsWriteTo(i, bar) <=> Place(txns[i]) = IF bar = "BAR_A" THEN 1 ELSE 2
  /\ \A i, j \in DOMAIN txns :
       i < j /\ txns[i].by = txns[j].by => Place(txns[i]) < Place(txns[j])
  /\ \A i \in DOMAIN txns : Place(txns[i]) > 1 =>
       \E j \in 1..i - 1 : txns[j].by = txns[i].by /\ Place(txns[j]) = Place(txns[i]) - 1

\* How many transactions the call of t has recorded at its statement.
Progress(t) ==
  CASE at[t] \in {"check", "write_a"} -> 0
    [] at[t] = "write_b" -> 1
    [] at[t] = "submit"  -> 2
    [] at[t] = "read"    -> 3
    [] at[t] = "idle"    -> IF Complete(t) THEN 4 ELSE 0

ProgressInv ==
  \A t \in Threads :
    /\ \A p \in 0..4 : Progress(t) = p => Recorded(t, p)
    /\ at[t] \in Transferring => args[t].m # 0 /\ args[t].n # 0
    /\ at[t] # "idle" => calls[t] > 0

\* The four transactions of a call, each in its place.
LEMMA FullLogPlaces ==
  ASSUME NEW t \in Threads, NEW q \in 1..4
  PROVE  LET txn == FullLog(t)[q] IN
         /\ Place(txn) = q /\ txn.by = CallOf(t)
         /\ txn.kind = "Read" <=> q = 4
         /\ txn.kind = "ComputeSubmit" <=> q = 3
         /\ \A bar \in {"BAR_A", "BAR_B"} :
              txn.kind = "Write" /\ txn.dev_addr = bar <=> q = IF bar = "BAR_A" THEN 1 ELSE 2
<1>1. CASE q = 1
  BY <1>1 DEF FullLog, Place, Write
<1>2. CASE q = 2
  BY <1>2 DEF FullLog, Place, Write
<1>3. CASE q = 3
  BY <1>3 DEF FullLog, Place, Submit
<1>4. CASE q = 4
  BY <1>4 DEF FullLog, Place, Read
<1> QED
  BY <1>1, <1>2, <1>3, <1>4

\* The next transaction of a call, pushed, takes its record one place further and
\* leaves those of other threads as they were.
LEMMA PushRecords ==
  ASSUME TypeOK, RecordInv, NEW t \in Threads, NEW p \in 0..3, Recorded(t, p),
         calls[t] > 0,
         txns' = Append(txns, FullLog(t)[p + 1]), UNCHANGED <<calls, args>>
  PROVE  /\ RecordInv'
         /\ Recorded(t, p + 1)'
         /\ \A s \in Threads \ {t} : \A q \in 0..4 : Recorded(s, q) => Recorded(s, q)'
<1> DEFINE n   == Len(txns)
           txn == FullLog(t)[p + 1]
<1>1. /\ n \in Nat /\ DOMAIN txns = 1..n /\ DOMAIN txns' = 1..n + 1
      /\ txns'[n + 1] = txn /\ \A i \in 1..n : txns'[i] = txns[i]
  BY DEF TypeOK
<1>2. /\ p + 1 \in 1..4 /\ Place(txn) = p + 1 /\ txn.by = CallOf(t)
      /\ txn.kind = "Read" <=> p + 1 = 4
      /\ txn.kind = "ComputeSubmit" <=> p + 1 = 3
      /\ \A bar \in {"BAR_A", "BAR_B"} :
           txn.kind = "Write" /\ txn.dev_addr = bar <=> p + 1 = IF bar = "BAR_A" THEN 1 ELSE 2
  <2>1. p + 1 \in 1..4
    OBVIOUS
  <2> QED
    BY <2>1, FullLogPlaces
<1>3. \A s \in Threads : CallOf(s)' = CallOf(s) /\ FullLog(s)' = FullLog(s)
  BY DEF CallOf, FullLog, Write, Submit, Read
<1>4. \A i \in 1..n : txns[i].by = CallOf(t) =>
        /\ Place(txns[i]) \in 1..p
        /\ \E q \in 1..p : txns[i] = FullLog(t)[q]
  <2> SUFFICES ASSUME NEW i \in 1..n, txns[i].by = CallOf(t)
               PROVE  /\ Place(txns[i]) \in 1..p
                      /\ \E q \in 1..p : txns[i] = FullLog(t)[q]
    OBVIOUS
  <2>1. PICK q \in 1..p : txns[i] = FullLog(t)[q]
    BY <1>1 DEF Recorded, LogOf
  <2>2. Place(txns[i]) = q
    BY <2>1, FullLogPlaces
  <2> QED
    BY <2>1, <2>2
<1>5. \A q \in 1..p : \E i \in 1..n :
        txns[i].by = CallOf(t) /\ txns[i] = FullLog(t)[q] /\ Place(txns[i]) = q
  <2> SUFFICES ASSUME NEW q \in 1..p
               PROVE  \E i \in 1..n : txns[i].by = CallOf(t) /\ txns[i] = FullLog(t)[q]
                                      /\ Place(txns[i]) = q
    OBVIOUS
  <2>1. PICK i \in LogOf(CallOf(t)) : txns[i] = FullLog(t)[q]
    BY DEF Recorded
  <2>2. q \in 1..4
    OBVIOUS
  <2>3. Place(txns[i]) = q
    BY <2>1, <2>2, FullLogPlaces
  <2> QED
    BY <1>1, <2>1, <2>3 DEF LogOf
<1>6. \A i \in 1..n : Place(txns'[i]) = Place(txns[i])
  BY <1>1
<1>7. Place(txns'[n + 1]) = p + 1 /\ txns'[n + 1].by = CallOf(t)
  BY <1>1, <1>2
<1>0. n \in Nat /\ n + 1 \in Nat /\ p + 1 \in Nat
  BY <1>1
<1> HIDE DEF n, txn
<1>8. RecordInv'
  <2>1. \A i \in DOMAIN txns' :
          \E s \in Threads : \E c \in 1..calls'[s] : txns'[i].by = <<s, c>>
    <3>1. \A i \in 1..n : \E s \in Threads : \E c \in 1..calls[s] : txns[i].by = <<s, c>>
      BY <1>1 DEF RecordInv
    <3>2. calls[t] \in 1..calls[t]
      <4>1. calls[t] \in 0..MaxCalls /\ MaxCalls \in Nat
        BY MatmulAssumption DEF TypeOK
      <4>2. calls[t] \in Nat /\ calls[t] >= 1
        BY <1>1, <4>1
      <4> QED
        BY <4>2
    <3>3. txns'[n + 1].by = <<t, calls[t]>>
      BY <1>7 DEF CallOf
    <3> QED
      BY <1>1, <3>1, <3>2, <3>3
  <2>2. \A i \in DOMAIN txns' :
          /\ Place(txns'[i]) \in 1..4
          /\ txns'[i].kind = "Read" <=> Place(txns'[i]) = 4
          /\ txns'[i].kind = "ComputeSubmit" <=> Place(txns'[i]) = 3
          /\ \A bar \in {"BAR_A", "BAR_B"} :
               IsWriteTo(i, bar)' <=> Place(txns'[i]) = IF bar = "BAR_A" THEN 1 ELSE 2
    <3> SUFFICES ASSUME NEW i \in 1..n + 1
                 PROVE  /\ Place(txns'[i]) \in 1..4
                        /\ txns'[i].kind = "Read" <=> Place(txns'[i]) = 4
                        /\ txns'[i].kind = "ComputeSubmit" <=> Place(txns'[i]) = 3
                        /\ \A bar \in {"BAR_A", "BAR_B"} :
                             IsWriteTo(i, bar)'
                               <=> Place(txns'[i]) = IF bar = "BAR_A" THEN 1 ELSE 2
      BY <1>1
    <3>1. CASE i = n + 1
      BY <1>1, <1>2, <1>7, <3>1 DEF IsWriteTo
    <3>2. CASE i \in 1..n
      <4>1. txns'[i] = txns[i] /\ Place(txns'[i]) = Place(txns[i]) /\ i \in DOMAIN txns
        BY <1>1, <1>6, <3>2
      <4>2. /\ Place(txns[i]) \in 1..4
            /\ txns[i].kind = "Read" <=> Place(txns[i]) = 4
            /\ txns[i].kind = "ComputeSubmit" <=> Place(txns[i]) = 3
            /\ \A bar \in {"BAR_A", "BAR_B"} :
                 IsWriteTo(i, bar) <=> Place(txns[i]) = IF bar = "BAR_A" THEN 1 ELSE 2
        BY <4>1 DEF RecordInv
      <4> QED
        BY <4>1, <4>2 DEF IsWriteTo
    <3> QED
      BY <1>1, <3>1, <3>2
  <2>3. \A i, j \in DOMAIN txns' :
          i < j /\ txns'[i].by = txns'[j].by => Place(txns'[i]) < Place(txns'[j])
    <3> SUFFICES ASSUME NEW i \in 1..n + 1, NEW j \in 1..n + 1, i < j,
                        txns'[i].by = txns'[j].by
                 PROVE  Place(txns'[i]) < Place(txns'[j])
      BY <1>1
    <3>1. i \in 1..n
      BY <1>1
    <3>2. CASE j = n + 1
      <4>1. txns[i].by = CallOf(t)
        BY <1>1, <1>7, <3>1, <3>2
      <4>2. Place(txns[i]) \in 1..p
        BY <1>4, <3>1, <4>1
      <4>3. Place(txns'[j]) = p + 1
        BY <1>7, <3>2
      <4>4. Place(txns'[i]) = Place(txns[i])
        BY <1>6, <3>1
      <4> QED
        BY <4>2, <4>3, <4>4
    <3>3. CASE j \in 1..n
      <4>1. txns[i].by = txns[j].by /\ i \in DOMAIN txns /\ j \in DOMAIN txns
        BY <1>1, <3>1, <3>3
      <4>2. Place(txns[i]) < Place(txns[j])
        BY <4>1 DEF RecordInv
      <4> QED
        BY <1>6, <3>1, <3>3, <4>2
    <3> QED
      BY <1>1, <3>2, <3>3
  <2>4. \A i \in DOMAIN txns' : Place(txns'[i]) > 1 =>
          \E j \in 1..i - 1 : /\ txns'[j].by = txns'[i].by
                              /\ Place(txns'[j]) = Place(txns'[i]) - 1
    <3> SUFFICES ASSUME NEW i \in 1..n + 1, Place(txns'[i]) > 1
                 PROVE  \E j \in 1..i - 1 : /\ txns'[j].by = txns'[i].by
                                            /\ Place(txns'[j]) = Place(txns'[i]) - 1
      BY <1>1
    <3>1. CASE i = n + 1
      <4>0. Place(txns'[i]) = p + 1 /\ txns'[i].by = CallOf(t)
        BY <1>7, <3>1
      <4>1. p \in 1..p
        BY <4>0
      <4>2. PICK j \in 1..n : txns[j].by = CallOf(t) /\ Place(txns[j]) = p
        BY <1>5, <4>1
      <4>3. j \in 1..i - 1 /\ txns'[j].by = CallOf(t) /\ Place(txns'[j]) = p
        BY <1>1, <1>6, <3>1, <4>2
      <4>4. Place(txns'[i]) - 1 = p
        BY <4>0
      <4> QED
        BY <4>0, <4>3, <4>4
    <3>2. CASE i \in 1..n
      <4>1. i \in DOMAIN txns /\ Place(txns[i]) > 1
        BY <1>1, <1>6, <3>2
      <4>2. PICK j \in 1..i - 1 : txns[j].by = txns[i].by /\ Place(txns[j]) = Place(txns[i]) - 1
        BY <4>1 DEF RecordInv
      <4>3. j \in 1..n
        BY <1>1, <3>2
      <4> QED
        BY <1>1, <1>6, <3>2, <4>2, <4>3
    <3> QED
      BY <1>1, <3>1, <3>2
  <2> QED
    BY <2>1, <2>2, <2>3, <2>4 DEF RecordInv
<1>9. Recorded(t, p + 1)'
  <2>1. {i \in DOMAIN txns' : txns'[i].by = CallOf(t)} = LogOf(CallOf(t)) \cup {n + 1}
    BY <1>1, <1>7 DEF LogOf
  <2>2. \A i \in LogOf(CallOf(t)) \cup {n + 1} :
          \E q \in 1..p + 1 : txns'[i] = FullLog(t)[q]
    <3>1. \A i \in LogOf(CallOf(t)) : \E q \in 1..p : txns'[i] = FullLog(t)[q]
      BY <1>1, <1>4 DEF LogOf
    <3>2. txns'[n + 1] = FullLog(t)[p + 1] /\ p + 1 \in 1..p + 1
      BY <1>1 DEF txn
    <3>3. 1..p \subseteq 1..p + 1
      OBVIOUS
    <3> QED
      BY <3>1, <3>2, <3>3, Zenon
  <2>3. \A q \in 1..p + 1 : \E i \in LogOf(CallOf(t)) \cup {n + 1} :
          txns'[i] = FullLog(t)[q]
    <3>1. \A q \in 1..p : \E i \in LogOf(CallOf(t)) : txns'[i] = FullLog(t)[q]
      BY <1>1, <1>5 DEF LogOf
    <3>2. txns'[n + 1] = FullLog(t)[p + 1]
      BY <1>1 DEF txn
    <3>3. \A q \in 1..p + 1 : q \in 1..p \/ q = p + 1
      OBVIOUS
    <3> QED
      BY <3>1, <3>2, <3>3, Zenon
  <2>4. \A i, j \in LogOf(CallOf(t)) \cup {n + 1} :
          i < j => Place(txns'[i]) < Place(txns'[j])
    <3>1. \A i, j \in DOMAIN txns' :
            i < j /\ txns'[i].by = txns'[j].by => Place(txns'[i]) < Place(txns'[j])
      BY <1>8 DEF RecordInv
    <3>2. \A i \in LogOf(CallOf(t)) \cup {n + 1} : i \in DOMAIN txns' /\ txns'[i].by = CallOf(t)
      BY <1>1, <1>7 DEF LogOf
    <3> QED
      BY <1>0, <3>1, <3>2
  <2> QED
    <3> DEFINE its == {i \in DOMAIN txns' : txns'[i].by = CallOf(t)'}
    <3>1. its = LogOf(CallOf(t)) \cup {n + 1}
      BY <1>3, <2>1
    <3>2. FullLog(t)' = FullLog(t)
      BY <1>3
    <3>3. \A i \in its : \E q \in 1..p + 1 : txns'[i] = FullLog(t)'[q]
      BY <2>2, <3>1, <3>2, Zenon
    <3>4. \A q \in 1..p + 1 : \E i \in its : txns'[i] = FullLog(t)'[q]
      BY <2>3, <3>1, <3>2, Zenon
    <3>5. \A i, j \in its : i < j => Place(txns'[i]) < Place(txns'[j])
      BY <2>4, <3>1, Zenon
    <3> QED
      BY <3>3, <3>4, <3>5, Zenon DEF Recorded, LogOf
<1>10. ASSUME NEW s \in Threads \ {t}, NEW q \in 0..4, Recorded(s, q)
       PROVE  Recorded(s, q)'
  <2>1. CallOf(s) # CallOf(t)
    BY DEF CallOf
  <2>2. {i \in DOMAIN txns' : txns'[i].by = CallOf(s)} = {i \in DOMAIN txns : txns[i].by = CallOf(s)}
    BY <1>0, <1>1, <1>7, <2>1
  <2>3. \A i \in {j \in DOMAIN txns : txns[j].by = CallOf(s)} : txns'[i] = txns[i]
    BY <1>1
  <2>4. FullLog(s)' = FullLog(s) /\ CallOf(s)' = CallOf(s)
    BY <1>3
  <2> DEFINE its == {i \in DOMAIN txns : txns[i].by = CallOf(s)}
             now == {i \in DOMAIN txns' : txns'[i].by = CallOf(s)'}
  <2>5. now = its
    BY <2>2, <2>4
  <2>6. /\ \A i \in its : \E r \in 1..q : txns[i] = FullLog(s)[r]
        /\ \A r \in 1..q : \E i \in its : txns[i] = FullLog(s)[r]
        /\ \A i, j \in its : i < j => Place(txns[i]) < Place(txns[j])
    BY <1>10, Zenon DEF Recorded, LogOf
  <2>7. \A i \in now : \E r \in 1..q : txns'[i] = FullLog(s)'[r]
    <3> SUFFICES ASSUME NEW i \in now PROVE \E r \in 1..q : txns'[i] = FullLog(s)'[r]
      BY Zenon
    <3>1. i \in its
      BY <2>5
    <3>2. PICK r \in 1..q : txns[i] = FullLog(s)[r]
      BY <2>6, <3>1, Zenon
    <3>3. txns'[i] = FullLog(s)'[r]
      BY <2>3, <2>4, <3>1, <3>2
    <3> QED
      BY <3>3, Zenon
  <2>8. \A r \in 1..q : \E i \in now : txns'[i] = FullLog(s)'[r]
    BY <2>3, <2>4, <2>5, <2>6, Zenon
  <2>9. \A i, j \in now : i < j => Place(txns'[i]) < Place(txns'[j])
    BY <2>3, <2>5, <2>6, Zenon
  <2> QED
    BY <2>7, <2>8, <2>9, Zenon DEF Recorded, LogOf
<1> QED
  BY <1>8, <1>9, <1>10

\* What the record tells of a call does not change while neither does.
LEMMA RecordedStays ==
  ASSUME NEW s \in Threads, txns' = txns, calls'[s] = calls[s], args'[s] = args[s],
         NEW p \in 0..4, Recorded(s, p)
  PROVE  Recorded(s, p)'
<1>1. CallOf(s)' = CallOf(s) /\ FullLog(s)' = FullLog(s)
  BY DEF CallOf, FullLog, Write, Submit, Read
<1> QED
  BY <1>1 DEF Recorded, LogOf

\* A record that stays, of calls of which more may have been made.
LEMMA RecordStays ==
  ASSUME TypeOK, RecordInv, txns' = txns, \A t \in Threads : calls'[t] \in Nat /\ calls[t] <= calls'[t]
  PROVE  RecordInv'
<1>1. \A i \in DOMAIN txns' :
        \E t \in Threads : \E c \in 1..calls'[t] : txns'[i].by = <<t, c>>
  <2> SUFFICES ASSUME NEW i \in DOMAIN txns
               PROVE  \E t \in Threads : \E c \in 1..calls'[t] : txns[i].by = <<t, c>>
    OBVIOUS
  <2>0. PICK t \in Threads : \E c \in 1..calls[t] : txns[i].by = <<t, c>>
    BY DEF RecordInv
  <2>1. PICK c \in 1..calls[t] : txns[i].by = <<t, c>>
    BY <2>0
  <2>2. c \in 1..calls'[t]
    <3>1. calls[t] \in Nat
      BY MatmulAssumption DEF TypeOK
    <3>2. calls'[t] \in Nat /\ calls[t] <= calls'[t]
      OBVIOUS
    <3> QED
      BY <3>1, <3>2
  <2> QED
    BY <2>1, <2>2
<1>2. \A i \in DOMAIN txns' : \A bar : IsWriteTo(i, bar)' <=> IsWriteTo(i, bar)
  BY DEF IsWriteTo
<1> QED
  BY <1>1, <1>2 DEF RecordInv

LEMMA ProgressIsPlace ==
  ASSUME TypeOK, NEW t \in Threads
  PROVE  Progress(t) \in 0..4
<1>1. at[t] \in Phases
  BY DEF TypeOK
<1> QED
  BY <1>1 DEF Progress, Phases

\* A call, once made, has recorded nothing yet.
LEMMA CallRecordsNothing ==
  ASSUME TypeOK, RecordInv, NEW t \in Threads, NEW x \in Args, Call(t, x)
  PROVE  Recorded(t, 0)'
<1>1. CallOf(t)' = <<t, calls[t] + 1>> /\ txns' = txns /\ calls[t] \in Nat
  BY MatmulAssumption DEF Call, TypeOK, CallOf
<1>2. ASSUME NEW i \in DOMAIN txns PROVE txns[i].by # <<t, calls[t] + 1>>
  <2>0. PICK u \in Threads : \E c \in 1..calls[u] : txns[i].by = <<u, c>>
    BY DEF RecordInv
  <2>1. PICK c \in 1..calls[u] : txns[i].by = <<u, c>>
    BY <2>0
  <2>2. ~ (calls[t] + 1 \in 1..calls[t])
    BY <1>1
  <2> QED
    BY <2>1, <2>2
<1>3. LogOf(CallOf(t))' = {}
  BY <1>1, <1>2 DEF LogOf
<1> QED
  BY <1>3 DEF Recorded

\* Every statement that pushes records what its thread has come to.
LEMMA ProgressStep ==
  TypeOK /\ RecordInv /\ ProgressInv /\ [Next]_vars => RecordInv' /\ ProgressInv'
<1> SUFFICES ASSUME TypeOK, RecordInv, ProgressInv, [Next]_vars
             PROVE  RecordInv' /\ ProgressInv'
  OBVIOUS
<1>0. /\ \A t \in Threads : calls[t] \in Nat /\ at[t] \in Phases /\ Progress(t) \in 0..4
      /\ calls \in [Threads -> 0..MaxCalls] /\ at \in [Threads -> Phases]
      /\ args \in [Threads -> Args] /\ DOMAIN result = Threads
  BY ProgressIsPlace, MatmulAssumption DEF TypeOK
<1>1. ASSUME NEW t \in Threads, NEW x \in Args, Call(t, x)
      PROVE  RecordInv' /\ ProgressInv'
  <2>1. /\ txns' = txns /\ at'[t] = "check" /\ calls'[t] = calls[t] + 1
        /\ \A s \in Threads \ {t} : /\ calls'[s] = calls[s] /\ args'[s] = args[s]
                                    /\ at'[s] = at[s] /\ result'[s] = result[s]
    BY <1>0, <1>1 DEF Call
  <2>2. RecordInv'
    BY <1>0, <2>1, RecordStays
  <2>3. Progress(t)' = 0 /\ Recorded(t, 0)'
    BY <1>1, <2>1, CallRecordsNothing DEF Progress
  <2>4. ASSUME NEW s \in Threads \ {t}, NEW p \in 0..4, Progress(s)' = p
        PROVE  Recorded(s, p)'
    <3>1. Progress(s) = p
      BY <2>1, <2>4 DEF Progress, Complete
    <3>2. Recorded(s, p)
      BY <3>1 DEF ProgressInv
    <3> QED
      BY <2>1, <3>2, RecordedStays
  <2>5. ASSUME NEW p \in 0..4, Progress(t)' = p PROVE Recorded(t, p)'
    BY <2>3, <2>5
  <2>6. \A s \in Threads : /\ at'[s] \in Transferring => args'[s].m # 0 /\ args'[s].n # 0
                           /\ at'[s] # "idle" => calls'[s] > 0
    BY <1>0, <2>1 DEF ProgressInv, Transferring
  <2> QED
    BY <2>2, <2>4, <2>5, <2>6 DEF ProgressInv
<1>2. ASSUME NEW t \in Threads, Check(t) PROVE RecordInv' /\ ProgressInv'
  <2>1. /\ UNCHANGED <<txns, calls, args>> /\ at[t] = "check"
        /\ \A s \in Threads \ {t} : at'[s] = at[s] /\ result'[s] = result[s]
    BY <1>0, <1>2 DEF Check
  <2>2. RecordInv'
    BY <1>0, <2>1, RecordStays
  <2>3. /\ at'[t] \in {"idle", "write_a"}
        /\ at'[t] = "idle" => ~ Complete(t)'
        /\ at'[t] = "write_a" => args[t].m # 0 /\ args[t].n # 0
    BY <1>0, <1>2 DEF Check, Verdict, Complete
  <2>4. Progress(t) = 0 /\ Progress(t)' = 0
    BY <2>1, <2>3 DEF Progress
  <2>5. \A s \in Threads \ {t} : Progress(s)' = Progress(s)
    BY <2>1 DEF Progress, Complete
  <2>6. ASSUME NEW s \in Threads, NEW p \in 0..4, Progress(s)' = p
        PROVE  Recorded(s, p)'
    <3>1. Progress(s) = p
      BY <2>4, <2>5, <2>6
    <3>2. Recorded(s, p)
      BY <3>1 DEF ProgressInv
    <3> QED
      BY <2>1, <3>2, RecordedStays
  <2>7. \A s \in Threads : /\ at'[s] \in Transferring => args'[s].m # 0 /\ args'[s].n # 0
                           /\ at'[s] # "idle" => calls'[s] > 0
    BY <1>0, <2>1, <2>3 DEF ProgressInv, Transferring
  <2> QED
    BY <2>2, <2>6, <2>7 DEF ProgressInv
<1>3. ASSUME NEW t \in Threads, PushA(t) \/ PushB(t) \/ PushSubmit(t) \/ PushRead(t)
      PROVE  RecordInv' /\ ProgressInv'
  <2>1. PICK p \in 0..3 : /\ Progress(t) = p
                          /\ txns' = Append(txns, FullLog(t)[p + 1])
                          /\ at'[t] = IF p = 0 THEN "write_b" ELSE IF p = 1 THEN "submit"
                                      ELSE IF p = 2 THEN "read" ELSE "idle"
                          /\ p = 3 => result'[t] = "Ok"
    <3>1. CASE PushA(t)
      <4>1. Progress(t) = 0 /\ at'[t] = "write_b" /\ txns' = Append(txns, FullLog(t)[0 + 1])
        BY <1>0, <3>1 DEF PushA, Push, FullLog, Progress
      <4> QED
        BY <4>1
    <3>2. CASE PushB(t)
      <4>1. Progress(t) = 1 /\ at'[t] = "submit" /\ txns' = Append(txns, FullLog(t)[1 + 1])
        BY <1>0, <3>2 DEF PushB, Push, FullLog, Progress
      <4> QED
        BY <4>1
    <3>3. CASE PushSubmit(t)
      <4>1. Progress(t) = 2 /\ at'[t] = "read" /\ txns' = Append(txns, FullLog(t)[2 + 1])
        BY <1>0, <3>3 DEF PushSubmit, Push, FullLog, Progress
      <4> QED
        BY <4>1
    <3>4. CASE PushRead(t)
      <4>1. Progress(t) = 3 /\ at'[t] = "idle" /\ txns' = Append(txns, FullLog(t)[3 + 1])
            /\ result'[t] = "Ok"
        BY <1>0, <3>4 DEF PushRead, Push, FullLog, Progress
      <4> QED
        BY <4>1
    <3> QED
      BY <1>3, <3>1, <3>2, <3>3, <3>4
  <2>2. /\ UNCHANGED <<calls, args>> /\ at[t] \in Transferring
        /\ \A s \in Threads \ {t} : at'[s] = at[s] /\ result'[s] = result[s]
    BY <1>0, <1>3 DEF PushA, PushB, PushSubmit, PushRead, Push, Transferring
  <2>3. Recorded(t, p) /\ calls[t] > 0 /\ args[t].m # 0 /\ args[t].n # 0
    BY <2>1, <2>2 DEF ProgressInv, Transferring
  <2>4. /\ RecordInv' /\ Recorded(t, p + 1)'
        /\ \A s \in Threads \ {t} : \A q \in 0..4 : Recorded(s, q) => Recorded(s, q)'
    BY <2>1, <2>2, <2>3, PushRecords
  <2>5. Progress(t)' = p + 1
    <3>1. p = 3 => Complete(t)'
      BY <2>1, <2>2, <2>3 DEF Complete
    <3>2. p = 0 \/ p = 1 \/ p = 2 \/ p = 3
      OBVIOUS
    <3>3. CASE p = 0
      BY <2>1, <3>3 DEF Progress
    <3>4. CASE p = 1
      BY <2>1, <3>4 DEF Progress
    <3>5. CASE p = 2
      BY <2>1, <3>5 DEF Progress
    <3>6. CASE p = 3
      BY <2>1, <3>1, <3>6 DEF Progress
    <3> QED
      BY <3>2, <3>3, <3>4, <3>5, <3>6
  <2>6. \A s \in Threads \ {t} : Progress(s)' = Progress(s)
    BY <2>2 DEF Progress, Complete
  <2>7. ASSUME NEW s \in Threads, NEW q \in 0..4, Progress(s)' = q
        PROVE  Recorded(s, q)'
    <3>1. CASE s = t
      <4>1. q = p + 1
        BY <2>5, <2>7, <3>1
      <4> QED
        BY <2>4, <3>1, <4>1
    <3>2. CASE s # t
      <4>1. Recorded(s, q)
        BY <2>6, <2>7, <3>2 DEF ProgressInv
      <4> QED
        BY <2>4, <3>2, <4>1
    <3> QED
      BY <3>1, <3>2
  <2>8. \A s \in Threads : /\ at'[s] \in Transferring => args'[s].m # 0 /\ args'[s].n # 0
                           /\ at'[s] # "idle" => calls'[s] > 0
    BY <1>0, <2>2, <2>3 DEF ProgressInv, Transferring
  <2> QED
    BY <2>4, <2>7, <2>8 DEF ProgressInv
<1>4. CASE Snapshot \/ UNCHANGED vars
  <2>1. UNCHANGED <<txns, calls, args, at, result>>
    BY <1>4 DEF Snapshot, vars
  <2>2. RecordInv'
    BY <1>0, <2>1, RecordStays
  <2>3. \A s \in Threads : Progress(s)' = Progress(s)
    BY <2>1 DEF Progress, Complete
  <2>4. ASSUME NEW s \in Threads, NEW p \in 0..4, Progress(s)' = p
        PROVE  Recorded(s, p)'
    <3>1. Recorded(s, p)
      BY <2>3, <2>4 DEF ProgressInv
    <3> QED
      BY <2>1, <3>1, RecordedStays
  <2> QED
    BY <2>1, <2>2, <2>4 DEF ProgressInv
<1> QED
  BY <1>1, <1>2, <1>3, <1>4 DEF Next, CallStep

\* The record keeps the log of every call.
LEMMA RecordInvariant == Spec => [](TypeOK /\ RecordInv /\ ProgressInv)
<1>1. Init => TypeOK /\ RecordInv /\ ProgressInv
  <2> SUFFICES ASSUME Init PROVE TypeOK /\ RecordInv /\ ProgressInv
    OBVIOUS
  <2>1. TypeOK
    BY MatmulAssumption DEF Init, TypeOK, Phases
  <2>2. RecordInv
    BY DEF Init, RecordInv
  <2>3. \A t \in Threads : at[t] = "idle" /\ ~ Complete(t) /\ Recorded(t, 0)
    BY DEF Init, Complete, Recorded, LogOf
  <2>4. \A t \in Threads : Progress(t) = 0
    BY <2>3 DEF Progress
  <2> QED
    BY <2>1, <2>2, <2>3, <2>4 DEF ProgressInv, Transferring
<1> QED
  BY <1>1, TypeStep, ProgressStep, PTL DEF Spec

\* Whatever other threads push in between, the record shows of each thread's last
\* call what it has done, in order.
THEOREM RecordsTell == Spec => []RecordTellsTheCall
<1>1. TypeOK /\ ProgressInv => RecordTellsTheCall
  <2> SUFFICES ASSUME TypeOK, ProgressInv, NEW t \in Threads
               PROVE  /\ \E p \in 0..4 : Recorded(t, p)
                      /\ at[t] = "idle" => Recorded(t, IF Complete(t) THEN 4 ELSE 0)
    BY DEF RecordTellsTheCall
  <2>1. Progress(t) \in 0..4
    BY ProgressIsPlace
  <2>2. Recorded(t, Progress(t))
    BY <2>1 DEF ProgressInv
  <2>3. at[t] = "idle" => Progress(t) = IF Complete(t) THEN 4 ELSE 0
    BY DEF Progress
  <2> QED
    BY <2>1, <2>2, <2>3
<1> QED
  BY <1>1, RecordInvariant, PTL

-----------------------------------------------------------------------------
(* Operands.                                                                *)

\* Whatever is submitted, its call has written both operands before.
LEMMA OwnOperandsBefore ==
  ASSUME TypeOK, RecordInv, NEW i \in DOMAIN txns, txns[i].kind = "ComputeSubmit",
         NEW bar \in {"BAR_A", "BAR_B"}
  PROVE  \E f \in 1..i : txns[f].by = txns[i].by /\ IsWriteTo(f, bar)
<1>0. DOMAIN txns = 1..Len(txns) /\ Len(txns) \in Nat
  BY DEF TypeOK
<1>1. Place(txns[i]) = 3
  BY DEF RecordInv
<1>2. PICK b \in 1..i - 1 : txns[b].by = txns[i].by /\ Place(txns[b]) = 2
  <2>1. Place(txns[i]) > 1 /\ Place(txns[i]) - 1 = 2
    BY <1>1
  <2> QED
    BY <2>1 DEF RecordInv
<1>3. b \in DOMAIN txns
  BY <1>0
<1>4. PICK a \in 1..b - 1 : txns[a].by = txns[b].by /\ Place(txns[a]) = 1
  <2>1. Place(txns[b]) > 1 /\ Place(txns[b]) - 1 = 1
    BY <1>2
  <2> QED
    BY <1>3, <2>1 DEF RecordInv
<1>5. a \in DOMAIN txns
  BY <1>0
<1>6. CASE bar = "BAR_A"
  <2>1. IsWriteTo(a, bar)
    BY <1>4, <1>5, <1>6 DEF RecordInv
  <2> QED
    BY <1>0, <1>2, <1>4, <2>1
<1>7. CASE bar = "BAR_B"
  <2>1. IsWriteTo(b, bar)
    BY <1>2, <1>3, <1>7 DEF RecordInv
  <2> QED
    BY <1>0, <1>2, <2>1
<1> QED
  BY <1>6, <1>7

\* What was written last before a submission was written no earlier than the call's
\* own operand, so by a call that had not read its result when this one began.
LEMMA OperandsAreFresh == TypeOK /\ RecordInv => NoStaleOperand
<1> SUFFICES ASSUME TypeOK, RecordInv,
                    NEW i \in DOMAIN txns, txns[i].kind = "ComputeSubmit",
                    NEW bar \in {"BAR_A", "BAR_B"}
             PROVE  \E j \in 1..i :
                      /\ IsWriteTo(j, bar) /\ \A k \in j + 1..i : ~ IsWriteTo(k, bar)
                      /\ \A r \in LogOf(txns[j].by) :
                           txns[r].kind = "Read" => Began(txns[i].by, r)
                      /\ (\A k \in 1..i : Began(txns[i].by, k) => txns[k].by = txns[i].by)
                           => txns[j].by = txns[i].by
  BY DEF NoStaleOperand
<1>0. DOMAIN txns = 1..Len(txns) /\ Len(txns) \in Nat /\ i \in Nat
  BY DEF TypeOK
<1>1. PICK f \in 1..i : txns[f].by = txns[i].by /\ IsWriteTo(f, bar)
  BY OwnOperandsBefore
<1> DEFINE T == {k \in 1..i : IsWriteTo(k, bar)}
<1>2. PICK j \in T : \A k \in T : k <= j
  <2>1. T \subseteq 1..i /\ f \in T
    BY <1>1
  <2> HIDE DEF T
  <2> QED
    BY <1>0, <2>1, GreatestMember
<1>3. j \in 1..i /\ IsWriteTo(j, bar) /\ f <= j
  BY <1>1, <1>2
<1>4. \A k \in j + 1..i : ~ IsWriteTo(k, bar)
  BY <1>0, <1>2, <1>3
<1>5. ASSUME NEW r \in LogOf(txns[j].by), txns[r].kind = "Read"
      PROVE  Began(txns[i].by, r)
  <2>1. r \in DOMAIN txns /\ j \in DOMAIN txns /\ txns[r].by = txns[j].by
    BY <1>0, <1>3 DEF LogOf
  <2>2. Place(txns[r]) = 4 /\ Place(txns[j]) \in 1..2
    BY <1>3, <1>5, <2>1 DEF RecordInv
  <2>3. r < j => Place(txns[r]) < Place(txns[j])
    BY <2>1 DEF RecordInv
  <2>4. ~ (r < j)
    BY <2>2, <2>3
  <2>5. f \in 1..r
    BY <1>0, <1>3, <2>1, <2>4
  <2> QED
    BY <1>1, <2>5 DEF Began
<1>6. Began(txns[i].by, j)
  BY <1>0, <1>1, <1>3 DEF Began
<1> QED
  BY <1>3, <1>4, <1>5, <1>6

\* However calls overlap, a device that replays the record computes on no operand of
\* a call that had returned before this one began, and alone on its own operands.
THEOREM OperandsFresh == Spec => []NoStaleOperand
  BY RecordInvariant, OperandsAreFresh, PTL
=============================================================================
