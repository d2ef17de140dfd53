-------------------------- MODULE MCOutboxPublisher --------------------------
(* Instances of OutboxPublisher for TLC. *)
EXTENDS OutboxPublisher, Sequences

CONSTANTS p1, p2, s1, s2, v1, v2

\* Odd rows go to the first stream, even rows to the second.
MCStreamOf == [e \in Events |-> IF e % 2 = 1 THEN s1 ELSE s2]

\* All publishers were built with the same contracts package ...
MCEncoding == [p \in Publishers |-> v1]

\* ... or one of them was deployed with another.
MCMixedEncoding ==
  LET old == CHOOSE p \in Publishers : TRUE
  IN  [p \in Publishers |-> IF p = old THEN v1 ELSE v2]

\* The delays of the first six failures, in seconds.
Schedule == <<30, 60, 120, 240, 300, 300>>

\* A counted failure defers its row by the scheduled delay, counted from the
\* start of the retry transaction: the time the transaction waited for the
\* row lock is not given back.
BackoffSchedule ==
  [][\A e \in Events : attempt_count'[e] > attempt_count[e] =>
       \E p \in Publishers :
         LET delay == Schedule[attempt_count'[e]]
         IN  /\ current[p] = e
             /\ wait'[e] = IF elapsed[p] < delay THEN delay - elapsed[p]
                                                ELSE 0]_vars
=============================================================================
