------------------------------ MODULE CtlDevice ------------------------------
(***************************************************************************)
(* What the control device promises the processes that use it: it appears  *)
(* with one version, everybody who connects is answered with that version, *)
(* every question gets its answer, and the device does not go away while   *)
(* anybody is connected.                                                   *)
(***************************************************************************)
CONSTANTS Users, Versions, NoVersion

VARIABLES
  up,        \* the version the device answers with, NoVersion while there is none
  session,   \* who is connected
  question,  \* what each user waits to be told, "none" while it does not wait
  answer     \* what each user was told last: the question, and a version

vars == <<up, session, question, answer>>

Questions == {"PING", "GET_VERSION"}
Nothing   == <<"none", NoVersion>>

Init ==
  /\ up = NoVersion
  /\ session = {}
  /\ question = [u \in Users |-> "none"]
  /\ answer = [u \in Users |-> Nothing]

Appear(v) ==
  /\ up = NoVersion
  /\ up' = v
  /\ UNCHANGED <<session, question, answer>>

Vanish ==
  /\ up # NoVersion
  /\ session = {}
  /\ up' = NoVersion
  /\ UNCHANGED <<session, question, answer>>

Connect(u) ==
  /\ up # NoVersion
  /\ u \notin session
  /\ session' = session \cup {u}
  /\ UNCHANGED <<up, question, answer>>

Ask(u, q) ==
  /\ u \in session
  /\ question[u] = "none"
  /\ question' = [question EXCEPT ![u] = q]
  /\ UNCHANGED <<up, session, answer>>

Tell(u) ==
  /\ question[u] # "none"
  /\ answer' = [answer EXCEPT ![u] =
       <<question[u], IF question[u] = "PING" THEN NoVersion ELSE up>>]
  /\ question' = [question EXCEPT ![u] = "none"]
  /\ UNCHANGED <<up, session>>

Leave(u) ==
  /\ u \in session
  /\ question[u] = "none"
  /\ session' = session \ {u}
  /\ answer' = [answer EXCEPT ![u] = Nothing]
  /\ UNCHANGED <<up, question>>

Next ==
  \/ \E v \in Versions : Appear(v)
  \/ Vanish
  \/ \E u \in Users :
       \/ Connect(u) \/ Tell(u) \/ Leave(u)
       \/ \E q \in Questions : Ask(u, q)

Spec == Init /\ [][Next]_vars /\ \A u \in Users : WF_vars(Tell(u))
=============================================================================
