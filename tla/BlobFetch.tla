----------------------------- MODULE BlobFetch -----------------------------
(***************************************************************************)
(* What downloading a blob promises to its callers, whatever goes on below *)
(* (parts, retries, shared downloads, cancellation, crashes): the file     *)
(* comes into being under its final name in one step and never goes away,  *)
(* and a caller is told of success only when it is there.  Nothing is      *)
(* promised about its content: that is what verifying it is for.           *)
(***************************************************************************)
CONSTANTS Clients, Contents, None

VARIABLES
  file,     \* the file under its final name: None, or its content
  told      \* what each caller has been told, or None

fetchVars == <<file, told>>

Init == file = None /\ told = [c \in Clients |-> None]

\* The file was there already.
Hit(c) == /\ told[c] = None
          /\ file # None
          /\ told' = [told EXCEPT ![c] = "hit"]
          /\ UNCHANGED file

\* A download ends well: the file appears, or is replaced as a whole.
Land(x) == file' = x /\ UNCHANGED told

Ok(c) == /\ told[c] = None
         /\ file # None
         /\ told' = [told EXCEPT ![c] = "ok"]
         /\ UNCHANGED file

\* Failures, cancellations and a restart may end any number of calls at once.
Fail(C, how) == /\ C # {}
                /\ \A c \in C : told[c] = None
                /\ told' = [c \in Clients |-> IF c \in C THEN how ELSE told[c]]
                /\ UNCHANGED file

Next == \/ \E c \in Clients : Hit(c) \/ Ok(c)
        \/ \E x \in Contents : Land(x)
        \/ \E C \in SUBSET Clients, how \in {"err", "canceled", "gone", "lost"} :
             Fail(C, how)

Spec == Init /\ [][Next]_fetchVars
=============================================================================
