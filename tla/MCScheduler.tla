---------------------------- MODULE MCScheduler ----------------------------
(***************************************************************************)
(* Instances of Scheduler for TLC.  Models are numbers and keep-alive      *)
(* values are 0 (unload when idle), 1 (a finite time) and 2 (forever).     *)
(***************************************************************************)
EXTENDS Scheduler, TLC

\* Requests are interchangeable, and so are management calls; sound for the
\* safety runs.
Symmetry == Permutations(Reqs) \cup Permutations(Apis)

\* Every request may ask for anything.
AskAny == [r \in Reqs |-> Requests]

\* Every request asks for a model of its own, the last one without GPU.
AskOwn ==
  LET own == CHOOSE f \in [Reqs -> Models] : \A a, b \in Reqs : a # b => f[a] # f[b]
      place(m) == IF \A n \in Models : n <= m THEN "cpu" ELSE "gpu"
  IN  [r \in Reqs |-> {q \in Requests : q.model = own[r] /\ q.place = place(own[r])}]

\* One request asks for model 1, the others for any.
AskFirst == LET one == CHOOSE r \in Reqs : TRUE
            IN  [r \in Reqs |-> {q \in Requests : r = one => q.model = 1}]
=============================================================================
