---------------------------- MODULE TopologyProofs ----------------------------
(***************************************************************************)
(* What holds of Topology for any cards, any cap, any number of nodes and  *)
(* any order in which nodes come and go while enumerate runs.              *)
(*                                                                         *)
(* None of the properties is inductive: that the card just opened belongs  *)
(* at the end of sails rests on the number of handles being the loop       *)
(* index, and that it is there at all on what exists() saw one step        *)
(* earlier.  WalkInv says both; QuietInv adds what a walk knows of nodes   *)
(* that hold still.                                                        *)
(***************************************************************************)
EXTENDS Topology, FiniteSetTheorems, NaturalFacts, TLAPS

\* Inside enumerate nothing has been returned yet, and there is one handle for
\* each index passed; a node is opened only below the cap.
CountInv ==
  at # "idle" => /\ result = "none"
                 /\ sails \in Seq(Cards)
                 /\ index = Len(sails)
                 /\ at = "open" => index < Cap

\* While no node goes away, the handles are the cards of the first nodes, and a
\* node that exists() has found is still there.
OrderInv ==
  result # "Mock" /\ "removed" \notin churn =>
    /\ \A i \in 1..Len(sails) : i - 1 \in Indices /\ sails[i] = node[i - 1]
                                /\ node[i - 1] # NoCard
    /\ at = "open" => NodeAt(index) # NoCard

WalkInv == TypeOK /\ CountInv /\ OrderInv /\ FailureHasCause

-----------------------------------------------------------------------------
\* The links of with_mock are links between sails of the topology asked for.
LEMMA MeshLinksType ==
  ASSUME NEW n \in Nat \ {0}
  PROVE  MeshLinks(n) \in Seq(Links)
<1> DEFINE len == n * (n - 1)
<1>1. len \in Nat
  OBVIOUS
<1>2. ASSUME NEW i \in 1..len
      PROVE  MeshLinks(n)[i] \in Links
  <2> DEFINE local == (i - 1) \div (n - 1)
             rest  == (i - 1) % (n - 1)
  <2>1. n - 1 \in Nat /\ n - 1 > 0
    <3>1. CASE n = 1
      <4>1. len = 0
        BY <3>1
      <4> QED
        BY <4>1
    <3> QED
      BY <3>1
  <2>2. local \in Nat /\ rest \in Nat
    BY <2>1
  <2>3. MeshLinks(n)[i] = Link(local, IF rest < local THEN rest ELSE rest + 1)
    BY DEF MeshLinks
  <2> QED
    BY <2>2, <2>3 DEF Link, Links, LinkStates
<1>3. MeshLinks(n) = [i \in 1..len |-> MeshLinks(n)[i]]
  BY DEF MeshLinks
<1> QED
  BY <1>1, <1>2, <1>3

\* with_mock builds a topology of the declared types, without cards as well.
LEMMA WithMockType ==
  ASSUME NEW n \in 0..MaxMock, WithMock(n)
  PROVE  /\ sails' \in Seq(Cards \cup 0..MaxMock)
         /\ links' \in Seq(Links)
<1>1. n \in Nat /\ MaxMock \in Nat
  BY TopologyAssumption
<1>2. sails' \in Seq(Cards \cup 0..MaxMock)
  <2>1. sails' = [i \in 1..n |-> i - 1]
    BY DEF WithMock, MockSails
  <2>2. \A i \in 1..n : i - 1 \in 0..MaxMock
    BY <1>1
  <2> QED
    BY <1>1, <2>1, <2>2
<1>3. links' \in Seq(Links)
  BY <1>1, MeshLinksType DEF WithMock
<1> QED
  BY <1>2, <1>3

\* A node that opens is one of the nodes there may be, and stands for a card.
LEMMA OpenedIsCard ==
  ASSUME TypeOK, NodeAt(index) # NoCard
  PROVE  index \in Indices /\ node[index] \in Cards /\ node[index] = NodeAt(index)
BY DEF TypeOK, NodeAt

\* Every step of enumerate, of with_mock and of the nodes keeps the types.
LEMMA TypeStep == TypeOK /\ CountInv /\ [Next]_vars => TypeOK'
<1> SUFFICES ASSUME TypeOK, CountInv, [Next]_vars PROVE TypeOK'
  OBVIOUS
<1> USE TopologyAssumption
<1>1. ASSUME NEW i \in Indices, NEW c \in Cards, Appear(i, c) PROVE TypeOK'
  BY <1>1 DEF Appear, TypeOK, walkVars
<1>2. ASSUME NEW i \in Indices, Disappear(i) PROVE TypeOK'
  BY <1>2 DEF Disappear, TypeOK, walkVars
<1>3. CASE Enumerate
  BY <1>3 DEF Enumerate, TypeOK
<1>4. CASE Exists
  BY <1>4 DEF Exists, TypeOK
<1>5. CASE OpenPath
  <2>1. CASE Openable(index)
    <3>1. node[index] \in Cards
      BY <2>1, OpenedIsCard DEF Openable
    <3>2. sails' \in Seq(Cards \cup 0..MaxMock)
      BY <1>5, <2>1, <3>1 DEF OpenPath, TypeOK
    <3>3. index' \in 0..Cap
      BY <1>5, <2>1 DEF OpenPath, TypeOK, CountInv
    <3> QED
      BY <1>5, <2>1, <3>2, <3>3 DEF OpenPath, TypeOK
  <2>2. CASE ~ Openable(index)
    <3>1. sails' = <<>> /\ result' = "Runtime" /\ at' = "idle"
          /\ UNCHANGED <<denied, node, links, churn, index>>
      BY <1>5, <2>2 DEF OpenPath
    <3> QED
      BY <3>1 DEF TypeOK, Errors
  <2> QED
    BY <2>1, <2>2
<1>6. CASE Return
  BY <1>6 DEF Return, TypeOK, Errors
<1>7. ASSUME NEW n \in 0..MaxMock, WithMock(n) PROVE TypeOK'
  BY <1>7, WithMockType DEF WithMock, TypeOK
<1>8. CASE UNCHANGED vars
  BY <1>8 DEF vars, walkVars, TypeOK
<1> QED
  BY <1>1, <1>2, <1>3, <1>4, <1>5, <1>6, <1>7, <1>8 DEF Next, WalkStep

\* Types alone need the loop's bound; with it they hold in every state.
LEMMA CountStep == TypeOK /\ CountInv /\ [Next]_vars => CountInv'
<1> SUFFICES ASSUME TypeOK, CountInv, [Next]_vars PROVE CountInv'
  OBVIOUS
<1> USE DEF CountInv
<1>1. ASSUME NEW i \in Indices, NEW c \in Cards, Appear(i, c) PROVE CountInv'
  BY <1>1 DEF Appear, walkVars
<1>2. ASSUME NEW i \in Indices, Disappear(i) PROVE CountInv'
  BY <1>2 DEF Disappear, walkVars
<1>3. CASE Enumerate
  BY <1>3 DEF Enumerate
<1>4. CASE Exists
  BY <1>4, TopologyAssumption DEF Exists, TypeOK
<1>5. CASE OpenPath
  <2>1. CASE Openable(index)
    <3>1. node[index] \in Cards
      BY <2>1, OpenedIsCard DEF Openable
    <3> QED
      BY <1>5, <2>1, <3>1 DEF OpenPath
  <2>2. CASE ~ Openable(index)
    BY <1>5, <2>2 DEF OpenPath
  <2> QED
    BY <2>1, <2>2
<1>6. CASE Return
  BY <1>6 DEF Return
<1>7. ASSUME NEW n \in 0..MaxMock, WithMock(n) PROVE CountInv'
  BY <1>7 DEF WithMock
<1>8. CASE UNCHANGED vars
  BY <1>8 DEF vars, walkVars
<1> QED
  BY <1>1, <1>2, <1>3, <1>4, <1>5, <1>6, <1>7, <1>8 DEF Next, WalkStep

\* The handles stay the cards of the first nodes: an arrival only fills a gap, and
\* a handle opened is the card of the next index.
LEMMA OrderStep == TypeOK /\ CountInv /\ OrderInv /\ [Next]_vars => OrderInv'
<1> SUFFICES ASSUME TypeOK, CountInv, OrderInv, [Next]_vars,
                    result' # "Mock", "removed" \notin churn'
             PROVE  /\ \A i \in 1..Len(sails') :
                         i - 1 \in Indices /\ sails'[i] = node'[i - 1]
                                           /\ node'[i - 1] # NoCard
                    /\ at' = "open" => NodeAt(index)' # NoCard
  BY DEF OrderInv
<1>1. ASSUME NEW i \in Indices, NEW c \in Cards, Appear(i, c)
      PROVE  /\ \A j \in 1..Len(sails') :
                  j - 1 \in Indices /\ sails'[j] = node'[j - 1]
                                    /\ node'[j - 1] # NoCard
             /\ at' = "open" => NodeAt(index)' # NoCard
  <2>1. \A j \in Indices : node[j] # NoCard => node'[j] = node[j]
    BY <1>1 DEF Appear, TypeOK
  <2>2. UNCHANGED walkVars /\ result # "Mock" /\ "removed" \notin churn
    BY <1>1 DEF Appear, walkVars
  <2> QED
    BY <2>1, <2>2 DEF OrderInv, NodeAt, walkVars
<1>2. ASSUME NEW i \in Indices, Disappear(i) PROVE FALSE
  BY <1>2 DEF Disappear
<1>3. CASE Enumerate
  BY <1>3 DEF Enumerate
<1>4. CASE Exists
  BY <1>4 DEF Exists, OrderInv, NodeAt
<1>5. CASE OpenPath
  <2>1. CASE Openable(index)
    <3>1. index \in Indices /\ node[index] # NoCard /\ node[index] \in Cards
      BY <2>1, OpenedIsCard DEF Openable, NodeAt
    <3>2. sails \in Seq(Cards) /\ index = Len(sails)
      BY <1>5 DEF OpenPath, CountInv
    <3>3. sails' = Append(sails, node[index]) /\ node' = node /\ at' = "exists"
          /\ result' = result /\ churn' = churn
      BY <1>5, <2>1 DEF OpenPath
    <3>4. Len(sails') = index + 1 /\ sails'[index + 1] = node[index]
      BY <3>1, <3>2, <3>3
    <3>5. \A j \in 1..index : sails'[j] = sails[j]
      BY <3>1, <3>2, <3>3
    <3>6. ASSUME NEW j \in 1..Len(sails')
          PROVE  j - 1 \in Indices /\ sails'[j] = node'[j - 1] /\ node'[j - 1] # NoCard
      <4>1. CASE j = index + 1
        BY <3>1, <3>3, <3>4, <4>1 DEF Indices
      <4>2. CASE j # index + 1
        <5>1. j \in 1..index
          BY <3>2, <3>4, <4>2
        <5> QED
          BY <3>2, <3>3, <3>5, <5>1 DEF OrderInv
      <4> QED
        BY <4>1, <4>2
    <3> QED
      BY <3>3, <3>6
  <2>2. CASE ~ Openable(index)
    BY <1>5, <2>2 DEF OpenPath
  <2> QED
    BY <2>1, <2>2
<1>6. CASE Return
  <2>1. UNCHANGED <<node, index, sails, churn>> /\ result = "none" /\ at' = "idle"
    BY <1>6 DEF Return, CountInv
  <2> QED
    BY <2>1 DEF OrderInv
<1>7. ASSUME NEW n \in 0..MaxMock, WithMock(n) PROVE FALSE
  BY <1>7 DEF WithMock
<1>8. CASE UNCHANGED vars
  BY <1>8 DEF vars, walkVars, OrderInv, NodeAt
<1> QED
  BY <1>1, <1>2, <1>3, <1>4, <1>5, <1>6, <1>7, <1>8 DEF Next, WalkStep

\* An open fails only on a node this process may not open, unless one went away.
LEMMA FailureStep == WalkInv /\ [Next]_vars => FailureHasCause'
<1> SUFFICES ASSUME WalkInv, [Next]_vars PROVE FailureHasCause'
  OBVIOUS
<1> USE DEF FailureHasCause
<1>1. ASSUME NEW i \in Indices, NEW c \in Cards, Appear(i, c) PROVE FailureHasCause'
  BY <1>1 DEF Appear, walkVars, WalkInv
<1>2. ASSUME NEW i \in Indices, Disappear(i) PROVE FailureHasCause'
  BY <1>2 DEF Disappear
<1>3. CASE Enumerate
  BY <1>3 DEF Enumerate
<1>4. CASE Exists
  BY <1>4 DEF Exists, WalkInv
<1>5. CASE OpenPath
  BY <1>5 DEF OpenPath, Openable, WalkInv, OrderInv, CountInv
<1>6. CASE Return
  BY <1>6 DEF Return, WalkInv
<1>7. ASSUME NEW n \in 0..MaxMock, WithMock(n) PROVE FailureHasCause'
  BY <1>7 DEF WithMock
<1>8. CASE UNCHANGED vars
  BY <1>8 DEF vars, walkVars, WalkInv
<1> QED
  BY <1>1, <1>2, <1>3, <1>4, <1>5, <1>6, <1>7, <1>8 DEF Next, WalkStep

\* The walk keeps count, order and cause, whatever the nodes do meanwhile.
THEOREM Invariance == Spec => []WalkInv
<1>1. Init => WalkInv
  BY TopologyAssumption
  DEF Init, WalkInv, TypeOK, CountInv, OrderInv, FailureHasCause, Errors
<1>2. WalkInv /\ [Next]_vars => WalkInv'
  BY TypeStep, CountStep, OrderStep, FailureStep DEF WalkInv
<1> QED
  BY <1>1, <1>2, PTL DEF Spec

-----------------------------------------------------------------------------
\* Every variable of the walk keeps its type; the index never passes the cap.
THEOREM TypeCorrect == Spec => []TypeOK
<1>1. WalkInv => TypeOK
  BY DEF WalkInv
<1> QED
  BY <1>1, Invariance, PTL

\* Unless a node goes away, sail i of a topology or of a walk under way is the
\* card behind /dev/spanker<i>.
THEOREM Ordered == Spec => []SailsFollowIndices
<1>1. WalkInv => SailsFollowIndices
  BY DEF WalkInv, OrderInv, SailsFollowIndices
<1> QED
  BY <1>1, Invariance, PTL

\* enumerate fails on a node that may be opened only if one went away meanwhile.
THEOREM FailuresAreCaused == Spec => []FailureHasCause
<1>1. WalkInv => FailureHasCause
  BY DEF WalkInv
<1> QED
  BY <1>1, Invariance, PTL

\* enumerate makes two system calls for each index below the cap at the most,
\* against any pace of nodes that come and go: what WalkEnds rests on besides fairness.
THEOREM WalksAreBounded == Spec => WalkIsBounded
<1>1. WalkInv /\ [Next]_vars =>
        [at # "idle" => /\ StepsLeft \in 1..2 * Cap + 2
                        /\ StepsLeft' <= StepsLeft
                        /\ walkVars' # walkVars => StepsLeft' < StepsLeft]_vars
  <2> SUFFICES ASSUME WalkInv, Next, at # "idle"
               PROVE  /\ StepsLeft \in 1..2 * Cap + 2
                      /\ StepsLeft' <= StepsLeft
                      /\ walkVars' # walkVars => StepsLeft' < StepsLeft
    OBVIOUS
  <2>1. /\ at \in {"exists", "open", "return"}
        /\ Cap \in Nat /\ index \in 0..Cap
        /\ at = "open" => index < Cap
    BY TopologyAssumption DEF WalkInv, TypeOK, CountInv
  <2>2. StepsLeft \in 1..2 * Cap + 2
    BY <2>1 DEF StepsLeft
  <2>3. CASE UNCHANGED walkVars
    <3>1. StepsLeft' = StepsLeft
      BY <2>3 DEF StepsLeft, walkVars
    <3> QED
      BY <2>2, <2>3, <3>1
  <2>4. CASE Exists
    BY <2>1, <2>2, <2>4 DEF Exists, StepsLeft
  <2>5. CASE OpenPath
    BY <2>1, <2>2, <2>5 DEF OpenPath, StepsLeft
  <2>6. CASE Return
    BY <2>1, <2>2, <2>6 DEF Return, StepsLeft
  <2> QED
    BY <2>2, <2>3, <2>4, <2>5, <2>6
    DEF Next, WalkStep, Appear, Disappear, Enumerate, WithMock
<1> QED
  BY <1>1, Invariance, PTL DEF Spec, WalkIsBounded

-----------------------------------------------------------------------------
(* While the nodes hold still the walk computes EnumerateOf.                *)

\* The end of the run of nodes the walk has come to.
RunEndsAt(i) == i <= Cap /\ (i = Cap \/ NodeAt(i) = NoCard)

\* What a quiet walk has learnt: no index passed is denied, and, once it has
\* returned, where the run of nodes ends or which node it may not open.
QuietInv ==
  result # "Mock" /\ churn = {} =>
    /\ \A i \in 1..Len(sails) : i - 1 \notin denied
    /\ at = "return" \/ result \in {"Ok", "NoSails"} => RunEndsAt(Len(sails))
    /\ result = "Ok" => sails # <<>>
    /\ result = "NoSails" => sails = <<>>
    /\ result = "Runtime" =>
         sails = <<>> /\ index < Cap /\ 0..index \subseteq Present /\ index \in denied

\* Nodes that hold still leave what a walk has learnt true.
LEMMA QuietStep == WalkInv /\ QuietInv /\ [Next]_vars => QuietInv'
<1> SUFFICES ASSUME WalkInv, QuietInv, [Next]_vars, result' # "Mock", churn' = {}
             PROVE  /\ \A i \in 1..Len(sails') : i - 1 \notin denied'
                    /\ at' = "return" \/ result' \in {"Ok", "NoSails"}
                         => RunEndsAt(Len(sails))'
                    /\ result' = "Ok" => sails' # <<>>
                    /\ result' = "NoSails" => sails' = <<>>
                    /\ result' = "Runtime" =>
                         /\ sails' = <<>> /\ index' < Cap
                         /\ 0..index' \subseteq Present' /\ index' \in denied'
  BY DEF QuietInv
<1> USE DEF QuietInv
<1>1. ASSUME NEW i \in Indices, NEW c \in Cards, Appear(i, c) PROVE FALSE
  BY <1>1 DEF Appear
<1>2. ASSUME NEW i \in Indices, Disappear(i) PROVE FALSE
  BY <1>2 DEF Disappear
<1>3. CASE Enumerate
  BY <1>3 DEF Enumerate
<1>4. CASE Exists
  <2>1. /\ UNCHANGED <<denied, node, sails, index, result, churn>>
        /\ at' = "return" => index = Cap \/ NodeAt(index) = NoCard
        /\ result = "none" /\ index = Len(sails)
    BY <1>4 DEF Exists, WalkInv, CountInv
  <2>2. index <= Cap
    BY TopologyAssumption DEF WalkInv, TypeOK
  <2> QED
    BY <2>1, <2>2 DEF RunEndsAt, NodeAt
<1>5. CASE OpenPath
  <2>1. /\ index = Len(sails) /\ index < Cap /\ result = "none"
        /\ sails \in Seq(Cards) /\ result # "Mock" /\ churn = {}
        /\ UNCHANGED <<denied, node>>
    BY <1>5 DEF OpenPath, WalkInv, CountInv
  <2>2. CASE Openable(index)
    <3>1. node[index] \in Cards /\ index \notin denied
      BY <2>2, OpenedIsCard DEF Openable, WalkInv
    <3>2. sails' = Append(sails, node[index]) /\ at' = "exists" /\ result' = "none"
      BY <1>5, <2>1, <2>2 DEF OpenPath
    <3>3. Len(sails') = index + 1
      BY <2>1, <3>1, <3>2
    <3> QED
      BY <2>1, <3>1, <3>2, <3>3
  <2>3. CASE ~ Openable(index)
    <3>1. sails' = <<>> /\ result' = "Runtime" /\ at' = "idle" /\ index' = index
      BY <1>5, <2>3 DEF OpenPath
    <3>2. index \in Indices /\ node[index] # NoCard /\ index \in denied
      BY <1>5, <2>1, <2>3 DEF OpenPath, Openable, WalkInv, OrderInv, NodeAt
    <3>3. ASSUME NEW i \in 0..index PROVE i \in Present
      <4>1. CASE i = index
        BY <3>2, <4>1 DEF Present
      <4>2. CASE i # index
        <5>1. i + 1 \in 1..Len(sails) /\ (i + 1) - 1 = i
          BY <2>1, <4>2
        <5> QED
          BY <2>1, <5>1 DEF WalkInv, OrderInv, Present
      <4> QED
        BY <4>1, <4>2
    <3>4. 0..index' \subseteq Present'
      BY <2>1, <3>1, <3>3 DEF Present
    <3> QED
      BY <2>1, <3>1, <3>2, <3>4
  <2> QED
    BY <2>2, <2>3
<1>6. CASE Return
  BY <1>6 DEF Return, WalkInv, CountInv, RunEndsAt, NodeAt
<1>7. ASSUME NEW n \in 0..MaxMock, WithMock(n) PROVE FALSE
  BY <1>7 DEF WithMock
<1>8. CASE UNCHANGED vars
  BY <1>8 DEF vars, walkVars, RunEndsAt, NodeAt, Present
<1> QED
  BY <1>1, <1>2, <1>3, <1>4, <1>5, <1>6, <1>7, <1>8 DEF Next, WalkStep

\* A run that ends at i is the i first indices.
LEMMA RunIsInterval ==
  ASSUME NEW i \in Nat, RunEndsAt(i), 0..i-1 \subseteq Present
  PROVE  Run = 0..i-1 /\ Cardinality(Run) = i
<1>1. ASSUME NEW j \in Run PROVE j \in 0..i-1
  <2>1. j \in Nat /\ j < Cap /\ 0..j \subseteq Present
    BY TopologyAssumption DEF Run, Indices
  <2>2. SUFFICES ASSUME i <= j PROVE FALSE
    BY <2>1
  <2>3. i \in Present /\ NodeAt(i) = NoCard
    BY <2>1, <2>2, TopologyAssumption DEF RunEndsAt
  <2> QED
    BY <2>3 DEF Present, NodeAt
<1>2. ASSUME NEW j \in 0..i-1 PROVE j \in Run
  BY TopologyAssumption DEF RunEndsAt, Run, Present
<1>3. Run = 0..i-1
  BY <1>1, <1>2
<1>4. Cardinality(0..i-1) = i
  BY FS_Interval
<1> QED
  BY <1>3, <1>4

\* What the walk has learnt is what one look at the nodes shows.
LEMMA QuietIsExact == WalkInv /\ QuietInv => QuietWalkIsExact
<1> SUFFICES ASSUME WalkInv, QuietInv, churn = {},
                    result \in {"Ok", "NoSails", "Runtime"}
             PROVE  [result |-> result, sails |-> sails] = EnumerateOf
  BY DEF QuietWalkIsExact
<1> DEFINE len == Len(sails)
<1>1. sails \in Seq(Cards \cup 0..MaxMock) /\ len \in Nat
  BY DEF WalkInv, TypeOK
<1>2. \A i \in 1..len : /\ i - 1 \in Present /\ i - 1 \notin denied
                        /\ sails[i] = node[i - 1]
  BY DEF WalkInv, OrderInv, QuietInv, Present
<1>3. CASE result = "Runtime"
  <2>1. index \in Run /\ index \in denied
    BY <1>3 DEF QuietInv, Run, Present, WalkInv, TypeOK
  <2> QED
    BY <1>3, <2>1 DEF EnumerateOf, QuietInv
<1>4. CASE result # "Runtime"
  <2>1. RunEndsAt(len)
    BY <1>4 DEF QuietInv
  <2>2. \A j \in 0..len-1 : j \in Present /\ j \notin denied
    <3> TAKE j \in 0..len-1
    <3>1. j + 1 \in 1..len /\ (j + 1) - 1 = j
      BY <1>1
    <3> QED
      BY <1>2, <3>1
  <2>3. Run = 0..len-1 /\ Cardinality(Run) = len
    BY <1>1, <2>1, <2>2, RunIsInterval
  <2>4. Run \cap denied = {}
    BY <2>2, <2>3
  <2>5. CASE result = "NoSails"
    <3>1. sails = <<>> /\ Run = {}
      BY <2>3, <2>5 DEF QuietInv
    <3> QED
      BY <2>4, <2>5, <3>1 DEF EnumerateOf
  <2>6. CASE result = "Ok"
    <3>1. len > 0
      BY <1>1, <2>6 DEF QuietInv
    <3>2. 0 \in Run
      BY <1>1, <2>3, <3>1
    <3>3. sails = [i \in 1..len |-> node[i - 1]]
      BY <1>1, <1>2
    <3> QED
      BY <2>3, <2>4, <2>6, <3>2, <3>3 DEF EnumerateOf
  <2> QED
    BY <1>4, <2>5, <2>6
<1> QED
  BY <1>3, <1>4

\* A walk no node change disturbs returns what one look at all nodes would,
\* whatever the cap and however many nodes there are.
THEOREM QuietWalks == Spec => []QuietWalkIsExact
<1>1. Init => QuietInv
  BY DEF Init, QuietInv
<1>2. QuietInv /\ WalkInv /\ WalkInv' /\ [Next]_vars => QuietInv'
  BY QuietStep
<1>3. Spec => []QuietInv
  BY <1>1, <1>2, Invariance, PTL DEF Spec
<1> QED
  BY <1>3, Invariance, QuietIsExact, PTL

-----------------------------------------------------------------------------
(* The mesh of with_mock: two nested loops, told from the position of a     *)
(* link alone by division.                                                  *)

\* The link at position i joins two different sails.
LEMMA LinkJoinsTwo ==
  ASSUME NEW n \in Nat, n > 1, NEW i \in 1..n * (n - 1)
  PROVE  /\ MeshLinks(n)[i].local_sail \in 0..n-1
         /\ MeshLinks(n)[i].remote_sail \in 0..n-1
         /\ MeshLinks(n)[i].local_sail # MeshLinks(n)[i].remote_sail
<1> DEFINE m == n - 1
           local == (i - 1) \div m
           rest  == (i - 1) % m
<1>1. m \in Nat \ {0} /\ i - 1 \in Nat
  OBVIOUS
<1>2. local \in Nat /\ rest \in 0..m-1 /\ i - 1 = m * local + rest
  BY <1>1
<1>3. MeshLinks(n)[i] = Link(local, IF rest < local THEN rest ELSE rest + 1)
  BY DEF MeshLinks
<1> HIDE DEF local, rest
<1>4. local < n
  <2>1. SUFFICES ASSUME local >= n PROVE FALSE
    BY <1>2
  <2>2. m * local >= m * n
    BY <1>1, <1>2, <2>1
  <2>3. m * n = n * (n - 1) /\ i - 1 < n * (n - 1)
    OBVIOUS
  <2> QED
    BY <1>1, <1>2, <2>2, <2>3
<1> QED
  BY <1>1, <1>2, <1>3, <1>4 DEF Link

\* Each ordered pair of different sails has a link.
LEMMA PairHasLink ==
  ASSUME NEW n \in Nat, n > 1,
         NEW l \in 0..n-1, NEW r \in 0..n-1, l # r
  PROVE  \E i \in 1..n * (n - 1) : /\ MeshLinks(n)[i].local_sail = l
                                   /\ MeshLinks(n)[i].remote_sail = r
<1> DEFINE m == n - 1
           rest == IF r < l THEN r ELSE r - 1
           i == m * l + rest + 1
<1>1. m \in Nat \ {0} /\ rest \in 0..m-1 /\ l \in Nat
  OBVIOUS
<1>2. i \in 1..n * (n - 1)
  <2>1. m * l <= m * (n - 1)
    OBVIOUS
  <2>2. m * l \in Nat /\ m * (n - 1) + m = n * (n - 1)
    OBVIOUS
  <2> HIDE DEF rest
  <2> QED
    BY <1>1, <2>1, <2>2
<1>3. (i - 1) \div m = l /\ (i - 1) % m = rest
  <2>1. i - 1 = m * l + rest
    BY <1>1
  <2>2. (m * l + rest) \div m = l /\ (m * l + rest) % m = rest
    <3> HIDE DEF rest, m
    <3> QED
      BY <1>1, QuotientRemainder
  <2> HIDE DEF i, rest, m
  <2> QED
    BY <2>1, <2>2
<1>4. MeshLinks(n)[i] = Link(l, IF rest < l THEN rest ELSE rest + 1)
  BY <1>2, <1>3 DEF MeshLinks
<1>5. r = IF rest < l THEN rest ELSE rest + 1
  OBVIOUS
<1> QED
  BY <1>2, <1>4, <1>5 DEF Link

JoinsAll(links_, n) ==
  /\ Len(links_) = n * (n - 1)
  /\ {<<links_[i].local_sail, links_[i].remote_sail>> : i \in DOMAIN links_}
       = {p \in (0..n-1) \X (0..n-1) : p[1] # p[2]}

LEMMA MeshJoinsAll ==
  ASSUME NEW n \in Nat
  PROVE  JoinsAll(IF n = 0 THEN <<>> ELSE MeshLinks(n), n)
<1>1. CASE n = 0
  BY <1>1 DEF JoinsAll
<1>2. ASSUME n # 0 PROVE Len(MeshLinks(n)) = n * (n - 1) /\ DOMAIN MeshLinks(n) = 1..n * (n - 1)
  <2>1. n * (n - 1) \in Nat
    BY <1>2
  <2>2. MeshLinks(n) \in Seq(Links)
    BY <1>2, MeshLinksType
  <2> QED
    BY <2>1, <2>2 DEF MeshLinks
<1>3. CASE n = 1
  <2>1. n * (n - 1) = 0
    BY <1>3
  <2>2. 0..n-1 = {0}
    BY <1>3
  <2> QED
    BY <1>2, <1>3, <2>1, <2>2 DEF JoinsAll
<1>4. CASE n > 1
  <2> DEFINE L == MeshLinks(n)
             pairs == {<<L[i].local_sail, L[i].remote_sail>> : i \in DOMAIN L}
  <2>1. \A i \in 1..n * (n - 1) :
          /\ L[i].local_sail \in 0..n-1 /\ L[i].remote_sail \in 0..n-1
          /\ L[i].local_sail # L[i].remote_sail
    BY <1>4, LinkJoinsTwo
  <2>2. \A l, r \in 0..n-1 : l # r =>
          \E i \in 1..n * (n - 1) : L[i].local_sail = l /\ L[i].remote_sail = r
    BY <1>4, PairHasLink
  <2>3. DOMAIN L = 1..n * (n - 1) /\ Len(L) = n * (n - 1)
    BY <1>2, <1>4
  <2> HIDE DEF L
  <2>4. pairs = {p \in (0..n-1) \X (0..n-1) : p[1] # p[2]}
    <3>1. ASSUME NEW i \in DOMAIN L
          PROVE  <<L[i].local_sail, L[i].remote_sail>>
                   \in {p \in (0..n-1) \X (0..n-1) : p[1] # p[2]}
      BY <2>1, <2>3
    <3>2. ASSUME NEW p \in (0..n-1) \X (0..n-1), p[1] # p[2]
          PROVE  p \in pairs
      <4>1. p[1] \in 0..n-1 /\ p[2] \in 0..n-1 /\ p = <<p[1], p[2]>>
        OBVIOUS
      <4>2. PICK l \in 0..n-1, r \in 0..n-1 : l = p[1] /\ r = p[2]
        BY <4>1
      <4>3. PICK i \in 1..n * (n - 1) : L[i].local_sail = l /\ L[i].remote_sail = r
        <5>1. l # r
          BY <3>2, <4>2
        <5> QED
          BY <2>2, <5>1
      <4>4. i \in DOMAIN L /\ p = <<L[i].local_sail, L[i].remote_sail>>
        BY <2>3, <4>1, <4>2, <4>3
      <4> QED
        BY <4>4
    <3> QED
      BY <3>1, <3>2
  <2>5. (IF n = 0 THEN <<>> ELSE L) = L
    BY <1>4
  <2> QED
    BY <2>3, <2>4, <2>5 DEF JoinsAll, L
<1> QED
  BY <1>1, <1>3, <1>4

MeshInv ==
  /\ at # "idle" => links = <<>> /\ result = "none"
  /\ at = "idle" /\ result = "Ok" => sails # <<>> /\ links = <<>>
  /\ at = "idle" /\ result = "Mock" =>
       \E n \in Nat : sails = MockSails(n)
                      /\ links = IF n = 0 THEN <<>> ELSE MeshLinks(n)

LEMMA MeshStep == MeshInv /\ [Next]_vars => MeshInv'
<1> SUFFICES ASSUME MeshInv, [Next]_vars PROVE MeshInv'
  OBVIOUS
<1> USE DEF MeshInv
<1>1. ASSUME NEW i \in Indices, NEW c \in Cards, Appear(i, c) PROVE MeshInv'
  BY <1>1 DEF Appear, walkVars
<1>2. ASSUME NEW i \in Indices, Disappear(i) PROVE MeshInv'
  BY <1>2 DEF Disappear, walkVars
<1>3. CASE Enumerate
  BY <1>3 DEF Enumerate
<1>4. CASE Exists \/ OpenPath \/ Return
  BY <1>4 DEF Exists, OpenPath, Return
<1>5. ASSUME NEW n \in 0..MaxMock, WithMock(n) PROVE MeshInv'
  BY <1>5, TopologyAssumption DEF WithMock
<1>6. CASE UNCHANGED vars
  BY <1>6 DEF vars, walkVars
<1> QED
  BY <1>1, <1>2, <1>3, <1>4, <1>5, <1>6 DEF Next, WalkStep

\* Whatever the size of a mock topology, its links join each sail with each other
\* one, once in either direction; enumerate is never a success without sails.
THEOREM MeshIsComplete == Spec => []LinksJoinSails
<1>1. Init => MeshInv
  BY DEF Init, MeshInv
<1>2. MeshInv => LinksJoinSails
  <2> SUFFICES ASSUME MeshInv, at = "idle", result = "Mock"
               PROVE  JoinsAll(links, Len(sails))
    BY DEF MeshInv, LinksJoinSails, JoinsAll
  <2>1. PICK n \in Nat : sails = MockSails(n)
                         /\ links = IF n = 0 THEN <<>> ELSE MeshLinks(n)
    BY DEF MeshInv
  <2>2. Len(sails) = n
    BY <2>1 DEF MockSails
  <2> QED
    BY <2>1, <2>2, MeshJoinsAll
<1> QED
  BY <1>1, <1>2, MeshStep, PTL DEF Spec
=============================================================================
