------------------------------ MODULE MCResearch ------------------------------
(* The two things the research code does beside each other, one at a time. *)
EXTENDS WeeklyForecast, ResearchPulls

Init == WeeklyInit /\ PullsInit

\* They share nothing: only one of them leaves its initial state.  Which data is
\* wanted is nothing to the workflow.
Next ==
  \/ WeeklyNext /\ left.starts = MaxStarts /\ goal = "archive" /\ UNCHANGED pulls
  \/ PullsNext /\ WeeklyInit /\ UNCHANGED weekly

Spec == Init /\ [][Next]_<<weekly, pulls>>

\* Every batch waits its longest and 23 or 24 of the requests time out; or nine
\* batches are answered at the fourth request.
SomeDelays ==
  {[failed |-> <<0, 0, 0, 12>>, timeouts |-> 23], [failed |-> <<0, 0, 0, 12>>, timeouts |-> 24],
   [failed |-> <<0, 0, 9, 0>>, timeouts |-> 27]}

Same == Permutations(Run) \cup Permutations(Shell)
===============================================================================
