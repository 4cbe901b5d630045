-------------------------------- MODULE Pool --------------------------------
(* The round-robin connection pool (common/pkg/pool) that the blockchain    *)
(* client takes its connections from: Get and GetAll called by several      *)
(* goroutines, and the loop that brings dead connections back.  A call      *)
(* holds the mutex but for the time it tests a connection, so a test is a   *)
(* step of its own between two steps that hold the mutex; idx is one        *)
(* variable of all callers.                                                 *)
EXTENDS Naturals, FiniteSets, SequencesExt

CONSTANTS
    Conns,         \* connections the pool is made with
    Getters,       \* goroutines that call Get
    Listers        \* goroutines that call GetAll

VARIABLES
    up,            \* connections whose node answers
    recent,        \* connections tested within livenessValidThreshold
    array, len,    \* conns: its first len elements, and the capacity it has
    deadConns,     \* deadConns
    idx,           \* idx, counted from 1
    getter,        \* getter[g]: the connection g tests in Get
    lister,        \* lister[g]: the slice g ranges over in GetAll, the position and
                   \* the connection it tests, whether the array is still the pool's
    tester,        \* position the dead connection tester has reached
    panicked,      \* a slice index was out of range
    closed

vars == <<up, recent, array, len, deadConns, idx, getter, lister, tester, panicked, closed>>

conns == SubSeq(array, 1, len)

Idle == <<>>

\* Add, called by NewPool, tests the connections it is given.
Init ==
    /\ up \in SUBSET Conns
    /\ recent = Conns
    /\ array = SetToSeq(up) /\ len = Cardinality(up)
    /\ deadConns = SetToSeq(Conns \ up)
    /\ idx = 1
    /\ getter = [g \in Getters |-> Idle]
    /\ lister = [g \in Listers |-> Idle]
    /\ tester = 0
    /\ panicked = FALSE /\ closed = FALSE

\* A node stops or starts to answer.
NodeChanges(c) ==
    /\ up' = IF c \in up THEN up \ {c} ELSE up \cup {c}
    /\ UNCHANGED <<recent, array, len, deadConns, idx, getter, lister, tester, panicked, closed>>

\* Time passes; only Add refreshes the time of the last test.
TestExpires(c) ==
    /\ c \in recent
    /\ recent' = recent \ {c}
    /\ UNCHANGED <<up, array, len, deadConns, idx, getter, lister, tester, panicked, closed>>

\* Get moves idx on and returns a connection tested recently, or lets go of the
\* mutex to test it.
Get(g) ==
    /\ getter[g] = Idle /\ len > 0
    /\ idx' = IF idx + 1 > len THEN 1 ELSE idx + 1
    /\ getter' = [getter EXCEPT ![g] =
                    IF conns[idx'] \in recent THEN Idle ELSE <<conns[idx']>>]
    /\ UNCHANGED <<up, recent, array, len, deadConns, lister, tester, panicked, closed>>

\* append(s[:i], s[i+1:]...) moves the elements after i one down, in place.
Shifted(a, i) == [j \in DOMAIN a |-> IF i <= j /\ j < len THEN a[j + 1] ELSE a[j]]

\* The connection found dead goes to the dead ones, and the one at idx, as idx
\* is by now, is removed.  An idx past the end is out of range: the goroutine
\* panics with the mutex held.
MoveToDead(c) ==
    IF idx > len
    THEN panicked' = TRUE /\ UNCHANGED <<array, len, deadConns>>
    ELSE /\ array' = Shifted(array, idx)
         /\ len' = len - 1
         /\ deadConns' = Append(deadConns, c)
         /\ UNCHANGED panicked

\* The test is done: Get returns the connection, or moves it and tries again.
GetTested(g) ==
    /\ getter[g] # Idle
    /\ getter' = [getter EXCEPT ![g] = Idle]
    /\ IF getter[g][1] \in up THEN UNCHANGED <<array, len, deadConns, panicked>>
       ELSE MoveToDead(getter[g][1])
    /\ UNCHANGED <<up, recent, idx, lister, tester, closed>>

\* GetAll, without the dead ones, ranges over the slice conns is now and lets go
\* of the mutex to test the first, however recent its test.
GetAll(g) ==
    /\ lister[g] = Idle /\ len > 0
    /\ lister' = [lister EXCEPT ![g] =
                    <<[shared |-> TRUE, slice |-> conns, at |-> 1, conn |-> array[1]]>>]
    /\ UNCHANGED <<up, recent, array, len, deadConns, idx, getter, tester, panicked, closed>>

\* The test is done; with the mutex held a dead connection is moved and the next
\* one read, which removals have moved where the array is still the pool's.
GetAllTested(g) ==
    /\ lister[g] # Idle
    /\ LET l == lister[g][1]
           next == l.at + 1
       IN  /\ IF l.conn \in up THEN UNCHANGED <<array, len, deadConns, panicked>>
              ELSE MoveToDead(l.conn)
           /\ lister' = [lister EXCEPT ![g] =
                IF next > Len(l.slice) THEN Idle
                ELSE <<[l EXCEPT !.at = next,
                                 !.conn = (IF l.shared THEN array' ELSE l.slice)[next]]>>]
    /\ UNCHANGED <<up, recent, idx, getter, tester, closed>>

\* The tester's ticker fires; it goes from the last dead connection to the first.
TesterTicks ==
    /\ tester = 0 /\ ~closed
    /\ tester' = Len(deadConns)
    /\ UNCHANGED <<up, recent, array, len, deadConns, idx, getter, lister, panicked, closed>>

\* append(conns, c): a full array is copied to one of twice the size, and who
\* ranges over the old one keeps it.
AppendConn(c) ==
    /\ len' = len + 1
    /\ IF len < Len(array)
       THEN array' = [array EXCEPT ![len + 1] = c] /\ UNCHANGED lister
       ELSE /\ array' = array \o [i \in 1 .. IF len = 0 THEN 1 ELSE len |-> c]
            /\ lister' = [g \in Listers |->
                 IF lister[g] # Idle /\ lister[g][1].shared
                 THEN <<[lister[g][1] EXCEPT !.shared = FALSE,
                                             !.slice = SubSeq(array, 1, Len(@))]>>
                 ELSE lister[g]]

\* Only the tester takes elements out of deadConns, so its position stays valid.
TesterTests ==
    /\ tester > 0
    /\ tester' = tester - 1
    /\ IF deadConns[tester] \in up
       THEN /\ AppendConn(deadConns[tester])
            /\ deadConns' = RemoveAt(deadConns, tester)
       ELSE UNCHANGED <<array, len, deadConns, lister>>
    /\ UNCHANGED <<up, recent, idx, getter, panicked, closed>>

\* Close stops the tester and every connection.
Close ==
    /\ ~closed
    /\ closed' = TRUE
    /\ UNCHANGED <<up, recent, array, len, deadConns, idx, getter, lister, tester, panicked>>

Next ==
    /\ ~panicked
    /\ \/ \E c \in Conns : NodeChanges(c) \/ TestExpires(c)
       \/ \E g \in Getters : Get(g) \/ GetTested(g)
       \/ \E g \in Listers : GetAll(g) \/ GetAllTested(g)
       \/ TesterTicks \/ TesterTests \/ Close

Spec == Init /\ [][Next]_vars
-----------------------------------------------------------------------------
\* A connection found dead is removed from the pool ("If connection is dead,
\* remove it from the pool", pool.go:136 and 178), so it is not one of
\* conns and of deadConns at once.
DeadAreRemoved == ToSet(conns) \cap ToSet(deadConns) = {}
=============================================================================
