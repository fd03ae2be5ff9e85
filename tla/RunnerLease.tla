---------------------------- MODULE RunnerLease ----------------------------
(***************************************************************************)
(* What the scheduler promises to the handlers of requests, whatever goes  *)
(* on below (queues, loads and their retries, evictions, timers, events,   *)
(* shutdown): a request gets one answer; the answer is an error or the     *)
(* lease of a runner of its model with its options; at most Limit runners  *)
(* are open, no two of one model; and a runner is not closed while it is   *)
(* leased.  The last holds only until a closed runner is leased, which the *)
(* code does not exclude: broken remembers that it happened.               *)
(***************************************************************************)
EXTENDS Naturals, FiniteSets

CONSTANTS Reqs, Questions, Limit, None

VARIABLES
  asked,    \* what each request asks for, or None
  answer,   \* where each request is
  lease,    \* the runner it was given, or None
  runner,   \* the runner a request may have started: "none", "open", "closed"
  broken    \* a closed runner has been leased

leaseVars == <<asked, answer, lease, runner, broken>>

OpenRunners == {rn \in Reqs : runner[rn] = "open"}

Init == /\ asked = [r \in Reqs |-> None]
        /\ answer = [r \in Reqs |-> "none"]
        /\ lease = [r \in Reqs |-> None]
        /\ runner = [r \in Reqs |-> "none"]
        /\ broken = FALSE

Ask(r, q) == /\ answer[r] = "none"
             /\ asked' = [asked EXCEPT ![r] = q]
             /\ answer' = [answer EXCEPT ![r] = "awaited"]
             /\ UNCHANGED <<lease, runner, broken>>

\* A runner is started for a request that waits.
Open(r) == /\ answer[r] = "awaited" /\ runner[r] = "none"
           /\ Cardinality(OpenRunners) < Limit
           /\ \A rn \in OpenRunners : asked[rn].model # asked[r].model
           /\ runner' = [runner EXCEPT ![r] = "open"]
           /\ UNCHANGED <<asked, answer, lease, broken>>

Grant(r, rn) == /\ answer[r] = "awaited" /\ runner[rn] # "none"
                /\ asked[rn].model = asked[r].model
                /\ asked[rn].opts = asked[r].opts
                /\ answer' = [answer EXCEPT ![r] = "leased"]
                /\ lease' = [lease EXCEPT ![r] = rn]
                /\ broken' = (broken \/ runner[rn] = "closed")
                /\ UNCHANGED <<asked, runner>>

Refuse(r) == /\ answer[r] = "awaited"
             /\ answer' = [answer EXCEPT ![r] = "refused"]
             /\ UNCHANGED <<asked, lease, runner, broken>>

\* The request is over.
GiveBack(r) == /\ answer[r] = "leased"
               /\ answer' = [answer EXCEPT ![r] = "returned"]
               /\ UNCHANGED <<asked, lease, runner, broken>>

Close(rn) == /\ runner[rn] = "open"
             /\ broken \/ \A r \in Reqs : answer[r] = "leased" => lease[r] # rn
             /\ runner' = [runner EXCEPT ![rn] = "closed"]
             /\ UNCHANGED <<asked, answer, lease, broken>>

Next == \E r \in Reqs : \/ \E q \in Questions : Ask(r, q)
                        \/ Open(r) \/ Refuse(r) \/ GiveBack(r) \/ Close(r)
                        \/ \E rn \in Reqs : Grant(r, rn)

Spec == Init /\ [][Next]_leaseVars
=============================================================================
