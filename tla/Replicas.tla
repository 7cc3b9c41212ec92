------------------------------ MODULE Replicas ------------------------------
(***************************************************************************)
(* What the network owes the nodes' chains, whatever messages it uses: a   *)
(* node has what it made itself or what some node has made, each thing     *)
(* after everything it builds on, and loses something only by restarting.  *)
(***************************************************************************)
CONSTANTS Nodes, Items

VARIABLES
  made,  \* what has been made so far: blocks mined, transactions signed
  needs, \* the things each of them builds on
  has    \* what each node has accepted

Closed(S) == \A i \in S : needs[i] \subseteq S

Make(n, i) ==
  /\ i \notin made
  /\ made' = made \cup {i}
  /\ \E S \in SUBSET has[n] : needs' = [needs EXCEPT ![i] = S]
  /\ has' = [has EXCEPT ![n] = @ \cup {i}]

Learn(n, i) ==
  /\ i \in made /\ needs[i] \subseteq has[n]
  /\ has' = [has EXCEPT ![n] = @ \cup {i}]
  /\ UNCHANGED <<made, needs>>

\* a restart goes back to a snapshot
Forget(n) ==
  /\ \E S \in SUBSET has[n] : Closed(S) /\ has' = [has EXCEPT ![n] = S]
  /\ UNCHANGED <<made, needs>>

Init == made = {} /\ needs = [i \in Items |-> {}] /\ has = [n \in Nodes |-> {}]
Next == \E n \in Nodes : Forget(n) \/ \E i \in Items : Make(n, i) \/ Learn(n, i)
Spec == Init /\ [][Next]_<<made, needs, has>>

\* No node ever has something without what it builds on.
AllClosed == \A n \in Nodes : Closed(has[n])
=============================================================================
