------------------------------ MODULE Delivery ------------------------------
(***************************************************************************)
(* What the buffering client promises about the records it accepts,        *)
(* whatever threads, wakeups, timeouts and sinks it is made of: a bounded  *)
(* queue.  Records come in at the back until the client is closed; from    *)
(* the front they are settled, in order and once each, as delivered or as  *)
(* failed; and only a closed client may give up the back of the queue.     *)
(***************************************************************************)
EXTENDS Integers, Sequences

CONSTANT Capacity   \* the records the client may retain

VARIABLES
    queue,          \* the accepted records not settled yet
    accepted, delivered, failed, abandoned,
    shut            \* whether the client is closed

vars == <<queue, accepted, delivered, failed, abandoned, shut>>

Init ==
    /\ queue = <<>>
    /\ accepted = 0 /\ delivered = 0 /\ failed = 0 /\ abandoned = 0
    /\ shut = FALSE

Accept ==
    /\ ~shut
    /\ Len(queue) < Capacity
    /\ accepted' = accepted + 1
    /\ queue' = Append(queue, accepted + 1)
    /\ UNCHANGED <<delivered, failed, abandoned, shut>>

\* The outcome of one call of the sink, which carried the n oldest records.
Settle ==
    \E n \in 1..Len(queue) :
        /\ queue' = SubSeq(queue, n + 1, Len(queue))
        /\ \/ delivered' = delivered + n /\ UNCHANGED failed
           \/ failed' = failed + n /\ UNCHANGED delivered
        /\ UNCHANGED <<accepted, abandoned, shut>>

Shut ==
    /\ shut' = TRUE
    /\ UNCHANGED <<queue, accepted, delivered, failed, abandoned>>

\* All but the n oldest records, which a call of the sink still carries.
Abandon ==
    /\ shut
    /\ \E n \in 0..Len(queue) :
        /\ queue' = SubSeq(queue, 1, n)
        /\ abandoned' = abandoned + Len(queue) - n
    /\ UNCHANGED <<accepted, delivered, failed, shut>>

Next == Accept \/ Settle \/ Shut \/ Abandon

Spec == Init /\ [][Next]_vars
=============================================================================
