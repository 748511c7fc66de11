---------------------------- MODULE StreamPromise ----------------------------
(***************************************************************************)
(* What the message service promises the readers of its live streams,      *)
(* without users, devices, goroutines or channels: a message is promised   *)
(* once, to the readers it then has; each of them finds it in its stream   *)
(* once, at any time after, or misses it because too much was waiting.     *)
(***************************************************************************)
EXTENDS Integers, Sequences

CONSTANTS Readers, Ids, Capacity

VARIABLES
    promised, \* ids promised to a reader
    stream,   \* ids a reader was given, in order
    taken,    \* how many of them it has taken
    missed    \* ids it missed

vars == <<promised, stream, taken, missed>>

Init == /\ promised = [r \in Readers |-> {}]
        /\ stream = [r \in Readers |-> <<>>]
        /\ taken = [r \in Readers |-> 0]
        /\ missed = [r \in Readers |-> {}]

Waiting(r) == Len(stream[r]) - taken[r]

\* Promised to r, and neither given to it nor missed.
Due(r) == promised[r] \ (missed[r] \cup {stream[r][i] : i \in DOMAIN stream[r]})

Promise(id, to) ==
    /\ \A r \in Readers : id \notin promised[r]
    /\ promised' = [r \in Readers |->
                       IF r \in to THEN promised[r] \cup {id} ELSE promised[r]]
    /\ UNCHANGED <<stream, taken, missed>>

Give(r, id) ==
    /\ id \in Due(r)
    /\ Waiting(r) < Capacity
    /\ stream' = [stream EXCEPT ![r] = Append(@, id)]
    /\ UNCHANGED <<promised, taken, missed>>

\* Only a reader that has let Capacity ids wait misses one.
Miss(r, id) ==
    /\ id \in Due(r)
    /\ Waiting(r) = Capacity
    /\ missed' = [missed EXCEPT ![r] = @ \cup {id}]
    /\ UNCHANGED <<promised, stream, taken>>

Take(r) ==
    /\ Waiting(r) > 0
    /\ taken' = [taken EXCEPT ![r] = @ + 1]
    /\ UNCHANGED <<promised, stream, missed>>

Next == \/ \E id \in Ids, to \in SUBSET Readers : Promise(id, to)
        \/ \E r \in Readers, id \in Ids : Give(r, id) \/ Miss(r, id)
        \/ \E r \in Readers : Take(r)

Spec == Init /\ [][Next]_vars

=============================================================================
