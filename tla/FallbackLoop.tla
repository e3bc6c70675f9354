---------------------------- MODULE FallbackLoop ----------------------------
(***************************************************************************)
(* What every fallback loop of the router promises its caller, whatever it *)
(* falls back over (the accounts of a provider, the models of a combo): it *)
(* tries a candidate at most once, it answers once, and the answer, if it  *)
(* is a success, comes from the candidate tried last.                      *)
(***************************************************************************)
CONSTANTS Requests, Candidates, Nobody

VARIABLES
  tried,     \* tried[r]: the candidates request r has been sent to
  latest,    \* latest[r]: the one it was sent to last, or Nobody
  verdict,   \* verdict[r]: "open", "served" or "refused"
  winner     \* winner[r]: the candidate whose answer r returned, or Nobody

vars == <<tried, latest, verdict, winner>>

Init ==
  /\ tried = [r \in Requests |-> {}]
  /\ latest = [r \in Requests |-> Nobody]
  /\ verdict = [r \in Requests |-> "open"]
  /\ winner = [r \in Requests |-> Nobody]

Attempt(r, c) ==
  /\ verdict[r] = "open"
  /\ c \notin tried[r]
  /\ tried' = [tried EXCEPT ![r] = @ \cup {c}]
  /\ latest' = [latest EXCEPT ![r] = c]
  /\ UNCHANGED <<verdict, winner>>

Serve(r) ==
  /\ verdict[r] = "open"
  /\ latest[r] \in tried[r]
  /\ verdict' = [verdict EXCEPT ![r] = "served"]
  /\ winner' = [winner EXCEPT ![r] = latest[r]]
  /\ UNCHANGED <<tried, latest>>

Refuse(r) ==
  /\ verdict[r] = "open"
  /\ verdict' = [verdict EXCEPT ![r] = "refused"]
  /\ UNCHANGED <<tried, latest, winner>>

Next ==
  \E r \in Requests :
    \/ \E c \in Candidates : Attempt(r, c)
    \/ Serve(r)
    \/ Refuse(r)

Spec == Init /\ [][Next]_vars

=============================================================================
