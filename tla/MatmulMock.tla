----------------------------- MODULE MatmulMock -----------------------------
(***************************************************************************)
(* The mock backend (src/backends/ggml): threads that call matmul_q4_k on  *)
(* one shared MockSail, which validates the operands and records, one      *)
(* locked push at a time, the transactions a device would see; and an      *)
(* observer that takes snapshots of the record.                            *)
(*                                                                         *)
(* usize is 0..MaxU, so that products can overflow it.  Each transaction   *)
(* carries, beside the fields of the code, the call it belongs to ("by"),  *)
(* a history field no action reads.                                        *)
(***************************************************************************)
EXTENDS Naturals, Sequences, SequencesExt

CONSTANTS
  Threads,
  Args,          \* the arguments callers pass: m, k, n and the slices' lengths
  MaxCalls,      \* calls a thread makes
  MaxU,          \* usize::MAX
  QK_K, Q4_K_BLOCK_BYTES, OUTPUT_ELEM_BYTES,
  None

ASSUME MatmulAssumption ==
  /\ MaxCalls \in Nat /\ MaxU \in Nat
  /\ QK_K \in Nat \ {0} /\ Q4_K_BLOCK_BYTES \in Nat \ {0}
  /\ OUTPUT_ELEM_BYTES \in Nat \ {0}
  /\ None \notin Nat
  /\ Args # {}
  /\ Args \subseteq [m : 0..MaxU, k : 0..MaxU, n : 0..MaxU,
                     a : 0..MaxU, b : 0..MaxU, out : 0..MaxU]

VARIABLES
  txns,     \* the recorded transactions, behind the mutex
  snap,     \* what transactions() last returned
  at,       \* each thread's next statement
  args,     \* the arguments of its call
  calls,    \* how many calls it has made
  result    \* what its last call returned

Errors == {"BadDims", "OutputTooSmall"}

vars == <<txns, snap, at, args, calls, result>>

-----------------------------------------------------------------------------
(* Sizes (lib.rs).                                                          *)

Bug_WrappingMul(x, y) == IF x = None THEN None ELSE (x * y) % (MaxU + 1)
\* usize::checked_mul, and the ? that follows it.
checked_mul(x, y) == IF x = None \/ x * y > MaxU THEN None ELSE x * y

BadK(k) == k = 0 \/ k % QK_K # 0
\* Blocks of k along each of the given rows or columns.
BlockBytes(lines, k) ==
  IF BadK(k) THEN None
  ELSE checked_mul(checked_mul(lines, k \div QK_K), Q4_K_BLOCK_BYTES)
expected_a_bytes(m, k)   == BlockBytes(m, k)
expected_b_bytes(k, n)   == BlockBytes(n, k)
expected_out_bytes(m, n) == checked_mul(checked_mul(m, n), OUTPUT_ELEM_BYTES)

\* The checks of matmul_q4_k, in order; "Traffic" where none returns.
Verdict(x) ==
  LET need_a   == expected_a_bytes(x.m, x.k)
      need_b   == expected_b_bytes(x.k, x.n)
      need_out == expected_out_bytes(x.m, x.n)
  IN  IF BadK(x.k) \/ None \in {need_a, need_b, need_out} THEN "BadDims"
      ELSE IF x.a # need_a \/ x.b # need_b THEN "BadDims"
      ELSE IF x.out < need_out THEN "OutputTooSmall"
      ELSE IF x.m = 0 \/ x.n = 0 THEN "Ok"
      ELSE "Traffic"

-----------------------------------------------------------------------------
(* MockSail (mock.rs).                                                      *)

Transactions ==
  [kind : {"Write", "ComputeSubmit", "Read"},
   dev_addr : {"BAR_A", "BAR_B", "BAR_OUT", "CMD_FIFO"}, len : 0..MaxU,
   shape : (0..MaxU) \X (0..MaxU) \X (0..MaxU) \cup {None},
   by : Threads \X (0..MaxCalls)]

CallOf(t) == <<t, calls[t]>>
Write(t, bar, len) == [kind |-> "Write", dev_addr |-> bar, len |-> len,
                       shape |-> None, by |-> CallOf(t)]
\* A submission transfers nothing: it has the shape of the product instead of a length.
Submit(t, m, k, n) == [kind |-> "ComputeSubmit", dev_addr |-> "CMD_FIFO", len |-> 0,
                       shape |-> <<m, k, n>>, by |-> CallOf(t)]
Bug_ReadInBits(t, len) == [kind |-> "Read", dev_addr |-> "BAR_OUT", len |-> 8 * len,
                           shape |-> None, by |-> CallOf(t)]
Read(t, len)       == [kind |-> "Read", dev_addr |-> "BAR_OUT", len |-> len,
                       shape |-> None, by |-> CallOf(t)]

\* A thread calls matmul_q4_k.
Call(t, x) ==
  /\ at[t] = "idle"
  /\ calls[t] < MaxCalls
  /\ calls' = [calls EXCEPT ![t] = @ + 1]
  /\ args' = [args EXCEPT ![t] = x]
  /\ at' = [at EXCEPT ![t] = "check"]
  /\ result' = [result EXCEPT ![t] = "none"]
  /\ UNCHANGED <<txns, snap>>

Bug_CheckSkipsNoOp(t) ==
  /\ at[t] = "check"
  /\ LET verdict == Verdict(args[t]) IN
     \/ /\ verdict \in Errors
        /\ result' = [result EXCEPT ![t] = verdict]
        /\ at' = [at EXCEPT ![t] = "idle"]
     \/ /\ verdict \in {"Ok", "Traffic"}
        /\ at' = [at EXCEPT ![t] = "write_a"]
        /\ UNCHANGED result
  /\ UNCHANGED <<txns, snap, args, calls>>
\* Everything before the first push: errors and the empty product return.
Check(t) ==
  /\ at[t] = "check"
  /\ LET verdict == Verdict(args[t]) IN
     \/ /\ verdict # "Traffic"
        /\ result' = [result EXCEPT ![t] = verdict]
        /\ at' = [at EXCEPT ![t] = "idle"]
     \/ /\ verdict = "Traffic"
        /\ at' = [at EXCEPT ![t] = "write_a"]
        /\ UNCHANGED result
  /\ UNCHANGED <<txns, snap, args, calls>>

\* MockSail::push: one transaction, under the lock.
Push(t, here, txn, next) ==
  /\ at[t] = here
  /\ txns' = Append(txns, txn)
  /\ at' = [at EXCEPT ![t] = next]
  /\ UNCHANGED <<snap, args, calls>>

Bug_SubmitFirst(t) ==
  /\ Push(t, "write_a", Submit(t, args[t].m, args[t].k, args[t].n), "write_b")
  /\ UNCHANGED result
PushA(t) ==
  /\ Push(t, "write_a", Write(t, "BAR_A", args[t].a), "write_b")
  /\ UNCHANGED result
PushB(t) ==
  /\ Push(t, "write_b", Write(t, "BAR_B", args[t].b), "submit")
  /\ UNCHANGED result
Bug_SubmitTransposed(t) ==
  /\ Push(t, "submit", Submit(t, args[t].n, args[t].k, args[t].m), "read")
  /\ UNCHANGED result
PushSubmit(t) ==
  /\ Push(t, "submit", Submit(t, args[t].m, args[t].k, args[t].n), "read")
  /\ UNCHANGED result
PushRead(t) ==
  /\ Push(t, "read", Read(t, args[t].out), "idle")
  /\ result' = [result EXCEPT ![t] = "Ok"]

Bug_SnapshotDrains ==
  /\ snap' = txns
  /\ txns' = <<>>
  /\ UNCHANGED <<at, args, calls, result>>
\* MockSail::transactions.
Snapshot ==
  /\ snap' = txns
  /\ UNCHANGED <<txns, at, args, calls, result>>

-----------------------------------------------------------------------------
Init ==
  /\ txns = <<>>
  /\ snap = <<>>
  /\ at = [t \in Threads |-> "idle"]
  /\ args = [t \in Threads |-> CHOOSE x \in Args : TRUE]   \* no call yet
  /\ calls = [t \in Threads |-> 0]
  /\ result = [t \in Threads |-> "none"]

CallStep(t) == Check(t) \/ PushA(t) \/ PushB(t) \/ PushSubmit(t) \/ PushRead(t)

Next ==
  \/ \E t \in Threads : CallStep(t) \/ \E x \in Args : Call(t, x)
  \/ Snapshot

Spec == Init /\ [][Next]_vars

-----------------------------------------------------------------------------
(* Properties.                                                              *)

Phases == {"idle", "check", "write_a", "write_b", "submit", "read"}

TypeOK ==
  /\ txns \in Seq(Transactions)
  /\ snap \in Seq(Transactions)
  /\ at \in [Threads -> Phases]
  /\ args \in [Threads -> Args]
  /\ calls \in [Threads -> 0..MaxCalls]
  /\ result \in [Threads -> {"none", "Ok"} \cup Errors]

\* Where in the record one call has its transactions, and what it records in all.
LogOf(call) == {i \in DOMAIN txns : txns[i].by = call}
FullLog(t) ==
  <<Write(t, "BAR_A", args[t].a), Write(t, "BAR_B", args[t].b),
    Submit(t, args[t].m, args[t].k, args[t].n), Read(t, args[t].out)>>
\* The place of a transaction in its call.
Place(txn) ==
  CASE txn.dev_addr = "BAR_A" -> 1 [] txn.dev_addr = "BAR_B" -> 2
    [] txn.dev_addr = "CMD_FIFO" -> 3 [] txn.dev_addr = "BAR_OUT" -> 4

\* The current call of t has recorded the first p transactions of its log, in
\* order and each once.
Recorded(t, p) ==
  LET its == LogOf(CallOf(t)) IN
  /\ \A i \in its : \E q \in 1..p : txns[i] = FullLog(t)[q]
  /\ \A q \in 1..p : \E i \in its : txns[i] = FullLog(t)[q]
  /\ \A i, j \in its : i < j => Place(txns[i]) < Place(txns[j])

\* However threads interleave, the record shows of each thread's current or last
\* call what it has done: both operands before the submission, the submission with
\* the shape of the product before the result; nothing at all of a call that was
\* refused or was empty.
Complete(t) == result[t] = "Ok" /\ args[t].m # 0 /\ args[t].n # 0
RecordTellsTheCall ==
  \A t \in Threads :
    /\ \E p \in 0..4 : Recorded(t, p)
    /\ at[t] = "idle" => Recorded(t, IF Complete(t) THEN 4 ELSE 0)

\* No operand length that gets through is one an overflowing product passed off:
\* what is transferred is what the shape takes in unbounded arithmetic.
LengthsAreTrue ==
  \A t \in Threads :
    at[t] \in {"write_a", "write_b", "submit", "read"} =>
      LET x == args[t] IN
      /\ x.a * QK_K = x.m * x.k * Q4_K_BLOCK_BYTES
      /\ x.b * QK_K = x.n * x.k * Q4_K_BLOCK_BYTES
      /\ x.out >= x.m * x.n * OUTPUT_ELEM_BYTES

\* A snapshot stays true: the record only grows past it.
SnapshotStaysTrue == IsPrefix(snap, txns)

\* The record replayed on a device with one buffer for each operand. Calls that
\* overlap do mix their operands there, as nothing holds the mutex across the pushes
\* of a call; but a submission never finds an operand of a call that had returned
\* before its own began, and finds its own where no other call was under way.
IsWriteTo(j, bar) == txns[j].kind = "Write" /\ txns[j].dev_addr = bar
Began(call, k)    == \E f \in 1..k : txns[f].by = call
NoStaleOperand ==
  \A i \in DOMAIN txns : txns[i].kind = "ComputeSubmit" =>
    \A bar \in {"BAR_A", "BAR_B"} : \E j \in 1..i :
      LET own    == txns[i].by
          writer == txns[j].by
      IN  /\ IsWriteTo(j, bar) /\ \A k \in j + 1..i : ~ IsWriteTo(k, bar)
          /\ \A r \in LogOf(writer) : txns[r].kind = "Read" => Began(own, r)
          /\ (\A k \in 1..i : Began(own, k) => txns[k].by = own) => writer = own

\* The trait's doc: like a and b, out is m x n weights in the quantized layout, so
\* a buffer of that size is not too small.
OutIsQuantized ==
  \A t \in Threads :
    result[t] = "OutputTooSmall" =>
      LET x == args[t] IN
      ~ (x.n % QK_K = 0 /\ x.out * QK_K = x.m * x.n * Q4_K_BLOCK_BYTES)
=============================================================================
