---------------------------- MODULE MCRepository ----------------------------
(* The repository and its background jobs, on a small instance for TLC.     *)
EXTENDS Repository

Received == [old |-> 0, also |-> 1, twin |-> 1]
Principals == [old |-> "p", also |-> "p", twin |-> "q"]

Timestamp(match, period) ==
    [type |-> "timestamp", group |-> "", match |-> match, period |-> period, volume |-> 0]
Count(group, volume) ==
    [type |-> "count", group |-> group, match |-> Events, period |-> 0, volume |-> volume]

\* The shapes of the example policies of retention-policies.md: a period, a
\* buffer for each computer beside it, a longer period for some events; and
\* one that is not valid.
Deployable ==
    {<<Timestamp(Events, 1)>>,
     <<Count("principal", 1), Timestamp({"old", "twin"}, 2), Timestamp(Events, 1)>>,
     <<Timestamp({"also"}, 2), Count("global", 1)>>,
     <<Count("", 1)>>}
=============================================================================
