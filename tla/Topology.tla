------------------------------ MODULE Topology ------------------------------
(***************************************************************************)
(* Topology (src/scheduler/src/topology.rs): the walk of enumerate over    *)
(* the device nodes /dev/spanker0, /dev/spanker1, ..., beside a world that *)
(* adds and removes nodes while it runs, and the fully meshed topologies   *)
(* of with_mock.                                                           *)
(*                                                                         *)
(* path.exists() and open_path are two system calls: a node can come or go *)
(* between them, and between one index and the next.                       *)
(***************************************************************************)
EXTENDS Naturals, Sequences, FiniteSets

CONSTANTS
  Cards,      \* cards a node may stand for
  Cap,        \* the walk tries the indices below it (256 in the code)
  LastNode,   \* the highest index a node may have here
  MaxMock,    \* the largest topology with_mock is asked for
  NoCard

ASSUME TopologyAssumption ==
  /\ Cap \in Nat /\ LastNode \in Nat /\ MaxMock \in Nat
  /\ NoCard \notin Cards

VARIABLES
  denied,    \* indices whose node this process may not open; never changes
  node,      \* the card behind each node, NoCard where there is no node
  at,        \* the next statement of enumerate, "idle" outside it
  index,     \* the loop variable
  sails,     \* the handles opened so far, as the cards they reach
  links,     \* the links of the topology
  result,    \* what enumerate returned
  churn      \* history: which node changes happened since the walk began

walkVars == <<at, index, sails, links, result>>
vars     == <<denied, node, walkVars, churn>>

Errors == {"NoSails", "Runtime"}

\* A MockSail is its id.
MockSails(n) == [i \in 1..n |-> i - 1]

LinkStates == {"Down", "Training", "Up", "Error"}
Links == [local_sail : Nat, remote_sail : Nat, state : LinkStates]
\* Link::new, in the one state this tree ever gives a link.
Link(local, remote) == [local_sail |-> local, remote_sail |-> remote, state |-> "Up"]

Indices == 0..LastNode
NodeAt(i) == IF i \in Indices THEN node[i] ELSE NoCard

-----------------------------------------------------------------------------
\* The kernel creates and removes nodes (external). A card has one node.
Appear(i, c) ==
  /\ node[i] = NoCard
  /\ \A j \in Indices : node[j] # c
  /\ node' = [node EXCEPT ![i] = c]
  /\ churn' = churn \cup {"added"}
  /\ UNCHANGED <<denied, walkVars>>

Disappear(i) ==
  /\ node[i] # NoCard
  /\ node' = [node EXCEPT ![i] = NoCard]
  /\ churn' = churn \cup {"removed"}
  /\ UNCHANGED <<denied, walkVars>>

-----------------------------------------------------------------------------
(* Topology::<SpankerControl>::enumerate.                                   *)

Enumerate ==
  /\ at = "idle"
  /\ at' = "exists"
  /\ index' = 0
  /\ sails' = <<>>
  /\ links' = <<>>
  /\ result' = "none"
  /\ churn' = {}
  /\ UNCHANGED <<denied, node>>

\* The loop ends at the cap or where path.exists() finds nothing.
Bug_ExistsSkipsGap ==
  /\ at = "exists"
  /\ \/ index = Cap /\ at' = "return" /\ UNCHANGED index
     \/ index < Cap /\ NodeAt(index) = NoCard /\ index' = index + 1 /\ UNCHANGED at
     \/ index < Cap /\ NodeAt(index) # NoCard /\ at' = "open" /\ UNCHANGED index
  /\ UNCHANGED <<denied, node, sails, links, result, churn>>
Bug_ExistsUncapped ==
  /\ at = "exists"
  /\ IF NodeAt(index) = NoCard THEN at' = "return" ELSE at' = "open"
  /\ UNCHANGED <<denied, node, index, sails, links, result, churn>>
Exists ==
  /\ at = "exists"
  /\ IF index = Cap \/ NodeAt(index) = NoCard
     THEN at' = "return"
     ELSE at' = "open"
  /\ UNCHANGED <<denied, node, index, sails, links, result, churn>>

\* open_path(&path)?: an error returns at once and drops the handles so far.
Bug_OpenOnlyFirst(i) == NodeAt(i) # NoCard /\ i \notin denied /\ sails = <<>>
Openable(i) == NodeAt(i) # NoCard /\ i \notin denied
Bug_OpenErrorSkipped ==
  /\ at = "open"
  /\ sails' = IF Openable(index) THEN Append(sails, node[index]) ELSE sails
  /\ index' = index + 1
  /\ at' = "exists"
  /\ UNCHANGED <<denied, node, links, result, churn>>
Bug_OpenRetried ==
  /\ at = "open"
  /\ IF Openable(index)
     THEN /\ sails' = Append(sails, node[index])
          /\ index' = index + 1
     ELSE UNCHANGED <<sails, index>>
  /\ at' = "exists"
  /\ UNCHANGED <<denied, node, links, result, churn>>
OpenPath ==
  /\ at = "open"
  /\ \/ /\ Openable(index)
        /\ sails' = Append(sails, node[index])
        /\ index' = index + 1
        /\ at' = "exists"
        /\ UNCHANGED result
     \/ /\ ~ Openable(index)
        /\ sails' = <<>>
        /\ result' = "Runtime"
        /\ at' = "idle"
        /\ UNCHANGED index
  /\ UNCHANGED <<denied, node, links, churn>>

Return ==
  /\ at = "return"
  /\ at' = "idle"
  /\ result' = IF sails = <<>> THEN "NoSails" ELSE "Ok"
  /\ UNCHANGED <<denied, node, index, sails, links, churn>>

-----------------------------------------------------------------------------
(* Topology::<MockSail>::with_mock.                                         *)

\* The n * (n - 1) pushes of the two nested loops, in their order: each local
\* card in turn, and for it every remote card but itself.
Bug_MeshLinks(n) ==
  [i \in 1..n * n |-> Link((i - 1) \div n, (i - 1) % n)]
MeshLinks(n) ==
  [i \in 1..n * (n - 1) |->
     LET local == (i - 1) \div (n - 1)
         rest  == (i - 1) % (n - 1)
     IN  Link(local, IF rest < local THEN rest ELSE rest + 1)]

WithMock(n) ==
  /\ at = "idle"
  /\ sails' = MockSails(n)
  /\ links' = IF n = 0 THEN <<>> ELSE MeshLinks(n)
  /\ result' = "Mock"
  /\ churn' = {}
  /\ UNCHANGED <<denied, node, at, index>>

-----------------------------------------------------------------------------
Init ==
  /\ denied \in SUBSET Indices
  /\ node = [i \in Indices |-> NoCard]
  /\ at = "idle"
  /\ index = 0
  /\ sails = <<>>
  /\ links = <<>>
  /\ result = "none"
  /\ churn = {}

WalkStep == Exists \/ OpenPath \/ Return

Next ==
  \/ \E i \in Indices, c \in Cards : Appear(i, c)
  \/ \E i \in Indices : Disappear(i)
  \/ Enumerate
  \/ WalkStep
  \/ \E n \in 0..MaxMock : WithMock(n)

\* A thread inside enumerate keeps running, whatever happens to the nodes.
Spec == Init /\ [][Next]_vars /\ WF_vars(WalkStep)

-----------------------------------------------------------------------------
(* What enumerate is to compute, of nodes that hold still.                  *)

Present == {i \in Indices : node[i] # NoCard}
\* The indices before the first gap, and below the cap.
Run == {i \in Indices : i < Cap /\ 0..i \subseteq Present}

EnumerateOf ==
  IF Run \cap denied # {} THEN [result |-> "Runtime", sails |-> <<>>]
  ELSE IF Run = {} THEN [result |-> "NoSails", sails |-> <<>>]
  ELSE [result |-> "Ok", sails |-> [i \in 1..Cardinality(Run) |-> node[i - 1]]]

-----------------------------------------------------------------------------
(* Properties.                                                              *)

TypeOK ==
  /\ denied \subseteq Indices
  /\ node \in [Indices -> Cards \cup {NoCard}]
  /\ at \in {"idle", "exists", "open", "return"}
  /\ index \in 0..Cap
  /\ sails \in Seq(Cards \cup 0..MaxMock)
  /\ links \in Seq(Links)
  /\ result \in {"none", "Ok", "Mock"} \cup Errors
  /\ churn \subseteq {"added", "removed"}

\* While the nodes hold still, the walk, one system call at a time, returns what
\* one look at all the nodes would: the cards before the first gap in index
\* order, the error of a node in that run that cannot be opened, or NoSails.
QuietWalkIsExact ==
  at = "idle" /\ result \in {"Ok", "NoSails", "Runtime"} /\ churn = {}
    => [result |-> result, sails |-> sails] = EnumerateOf

\* As long as no node goes away, later arrivals never disturb the order: sail i
\* is the card behind /dev/spanker<i>, so no card is listed twice.
SailsFollowIndices ==
  result # "Mock" /\ "removed" \notin churn =>
    \A i \in 1..Len(sails) : i - 1 \in Indices /\ sails[i] = node[i - 1]

\* Only nodes that go away can make enumerate fail on a node it may open.
FailureHasCause ==
  result = "Runtime" => "removed" \in churn \/ index \in denied

\* A topology is never a success without sails, and its links join two
\* different sails of it, every ordered pair once where it is a mock's.
LinksJoinSails ==
  at = "idle" =>
    /\ result = "Ok" => sails # <<>> /\ links = <<>>
    /\ result = "Mock" =>
         LET n == Len(sails) IN
         /\ Len(links) = n * (n - 1)
         /\ {<<links[i].local_sail, links[i].remote_sail>> : i \in DOMAIN links}
              = {p \in (0..n-1) \X (0..n-1) : p[1] # p[2]}

\* The walk ends, however nodes come and go while it runs.
WalkEnds == (at # "idle") ~> (at = "idle")

\* It ends after two system calls for each index at the most: whatever it finds, a
\* step of the walk leaves fewer of them to make, and no change of a node leaves more.
StepsLeft ==
  CASE at = "idle"   -> 0
    [] at = "exists" -> 2 * (Cap - index) + 2
    [] at = "open"   -> 2 * (Cap - index) + 1
    [] at = "return" -> 1
WalkIsBounded ==
  [][at # "idle" => /\ StepsLeft \in 1..2 * Cap + 2
                    /\ StepsLeft' <= StepsLeft
                    /\ walkVars' # walkVars => StepsLeft' < StepsLeft]_vars

\* The doc comment of enumerate: it stops at the first index without a node.
StopsAtFirstGap ==
  at = "idle" /\ result = "Ok" /\ churn = {} => NodeAt(Len(sails)) = NoCard
=============================================================================
