---------------------------- MODULE MCDeadLetters ----------------------------
(* DeadLetters with the notification service's two effects. *)
EXTENDS DeadLetters

CONSTANTS m0, m1, m2, m3

\* A poison record between two good ones.
MCLog == <<[msg |-> m1, ok |-> TRUE], [msg |-> m2, ok |-> FALSE],
           [msg |-> m3, ok |-> TRUE]>>

\* A record parked by a later version of the services.
MCForeign == <<[msg |-> m0, known |-> FALSE]>>

MCEffects == <<"email", "sms">>

=============================================================================
