------------------------------ MODULE AMQPSink ------------------------------
(***************************************************************************)
(* The AMQP adapter of src/src/tokenweir/amqp.py: one channel, re-dialled  *)
(* by the next emit() after a failure when the sink knows how, under a     *)
(* backoff interval and a cap on the dials per interval.                   *)
(*                                                                         *)
(* One thread uses a sink.  A dial and a publish block, so the clock moves *)
(* while they are in progress: emit() is split where the driver is called. *)
(* The driver and the broker are external: a dial succeeds, is refused, or *)
(* gets a connection that refuses a channel; a publish returns or raises,  *)
(* and, without publisher confirms, its returning proves nothing.          *)
(***************************************************************************)
EXTENDS Integers, Sequences

CONSTANTS
    MaxDials,       \* MAX_DIALS_PER_INTERVAL
    Intervals,      \* the values of reconnect_interval to consider
    MaxEmits,       \* bound on the emit() calls of a behaviour
    MaxClock        \* bound on the clock

\* The cap is positive, and an interval is a non-negative number of ticks.
ASSUME CapAssumption ==
    /\ MaxDials \in Nat \ {0}
    /\ Intervals \subseteq Nat
    /\ MaxEmits \in Nat /\ MaxClock \in Nat

VARIABLES
    \* construction
    kind,           \* "url": from_url; "owned", "borrowed": a channel given
    interval,       \* _reconnect_interval
    \* attributes
    channel,        \* whether _channel (and with "url" _connection) is set
    closed,         \* _closed
    published, dropped,
    nextReconnectAt,            \* _next_reconnect_at
    connectionPublishes,        \* _connection_publishes
    consecutiveUnproductive,    \* _consecutive_unproductive
    dialWindowEnds,             \* _dial_window_ends
    dialsInWindow,              \* _dials_in_window
    backoffMessage,             \* _backoff_message
    pc,             \* where the current emit() is
    now,            \* the clock
    \* history
    opened, released,           \* connections opened and closed, all told
    dials,          \* when the last 2 * MaxDials dials began
    lastDial,       \* how the last dial ended
    fates,          \* of the last two connections discarded, the latest last
    lastFault       \* when a dial or a publish last failed

setup == <<kind, interval>>
counts == <<published, dropped>>
backoff == <<nextReconnectAt, consecutiveUnproductive, backoffMessage>>
window == <<dialWindowEnds, dialsInWindow>>
history == <<opened, released, dials, lastDial, fates, lastFault>>
vars == <<setup, channel, closed, counts, backoff, connectionPublishes, window,
          pc, now, history>>

\* Only from_url sets _reconnect; it owns the connection it opened.
CanReconnect == kind = "url"
OwnsConnection == kind \in {"url", "owned"}

Init ==
    /\ kind \in {"url", "owned", "borrowed"}
    /\ interval \in Intervals
    /\ channel \in BOOLEAN /\ (kind \in {"url", "owned"} => channel)
    /\ closed = FALSE
    /\ published = 0 /\ dropped = 0
    /\ nextReconnectAt = 0
    /\ connectionPublishes = 0 /\ consecutiveUnproductive = 0
    /\ dialWindowEnds = 0 /\ dialsInWindow = 0
    /\ backoffMessage = "redial"
    /\ pc = "idle" /\ now = 0
    /\ opened = (IF OwnsConnection THEN 1 ELSE 0) /\ released = 0
    /\ dials = <<>> /\ lastDial = "none" /\ fates = <<>> /\ lastFault = 0

-----------------------------------------------------------------------------
(* emit: the refusals *)

MayEmit == pc = "idle" /\ published + dropped < MaxEmits

Drop ==
    /\ dropped' = dropped + 1
    /\ UNCHANGED <<setup, channel, closed, published, backoff, connectionPublishes,
                   window, pc, now, history>>

EmitNotARecord == MayEmit /\ Drop

EmitClosed == MayEmit /\ closed /\ Drop

EmitNoChannel == MayEmit /\ ~closed /\ ~channel /\ ~CanReconnect /\ Drop

\* _live_channel looks for a connection of its own.
NeedsDial == MayEmit /\ ~closed /\ ~channel /\ CanReconnect

BackingOff == now < nextReconnectAt

EmitBackingOff == NeedsDial /\ BackingOff /\ Drop

\* Mutant: a window ends one tick early.
WindowOverEarly == now + 1 >= dialWindowEnds

WindowOver == now >= dialWindowEnds

\* _may_dial refuses: the window is not over and its dials are used up.
CapReached ==
    /\ interval # 0
    /\ ~WindowOver
    /\ dialsInWindow >= MaxDials

EmitCapped == NeedsDial /\ ~BackingOff /\ CapReached /\ Drop

-----------------------------------------------------------------------------
(* emit: the dial *)

\* _may_dial grants the dial and counts it.
CountDial ==
    IF interval = 0
    THEN UNCHANGED window
    ELSE IF WindowOver
    THEN dialWindowEnds' = now + interval /\ dialsInWindow' = 1
    ELSE dialsInWindow' = dialsInWindow + 1 /\ UNCHANGED dialWindowEnds

LastOf(n, s) == IF Len(s) > n THEN SubSeq(s, Len(s) - n + 1, Len(s)) ELSE s

EmitDials ==
    /\ NeedsDial
    /\ ~BackingOff
    /\ ~CapReached
    /\ CountDial
    /\ dials' = LastOf(2 * MaxDials, Append(dials, now))
    /\ pc' = "dialing"
    /\ UNCHANGED <<setup, channel, closed, counts, backoff, connectionPublishes,
                   now, opened, released, lastDial, fates, lastFault>>

DialSucceeds ==
    /\ pc = "dialing"
    /\ channel' = TRUE
    /\ opened' = opened + 1
    /\ lastDial' = "ok"
    /\ pc' = "publishing"
    /\ UNCHANGED <<setup, closed, counts, backoff, connectionPublishes, window, now,
                   released, dials, fates, lastFault>>

\* Mutant: the interval is counted from the clock as read before the dial.
BackoffSinceDial ==
    nextReconnectAt' = dials[Len(dials)] + interval /\ backoffMessage' = "redial"

BackoffAfterDial ==
    nextReconnectAt' = now + interval /\ backoffMessage' = "redial"

\* Mutant: a connection that refuses a channel is forgotten.
RefusedDialLeaks == opened' = opened + 1 /\ UNCHANGED released

\* The broker refuses the connection, or the channel on a connection that
\* connect() then closes.
RefusedDial ==
    \/ UNCHANGED <<opened, released>>
    \/ opened' = opened + 1 /\ released' = released + 1

DialFails ==
    /\ pc = "dialing"
    /\ RefusedDial
    /\ BackoffAfterDial
    /\ dropped' = dropped + 1
    /\ lastDial' = "failed" /\ lastFault' = now
    /\ pc' = "idle"
    /\ UNCHANGED <<setup, channel, closed, published, consecutiveUnproductive,
                   connectionPublishes, window, now, dials, fates>>

-----------------------------------------------------------------------------
(* emit: the publish *)

EmitPublishes ==
    /\ MayEmit
    /\ ~closed
    /\ channel
    /\ pc' = "publishing"
    /\ UNCHANGED <<setup, channel, closed, counts, backoff, connectionPublishes,
                   window, now, history>>

PublishSucceeds ==
    /\ pc = "publishing"
    /\ published' = published + 1
    /\ connectionPublishes' = connectionPublishes + 1
    /\ pc' = "idle"
    /\ UNCHANGED <<setup, channel, closed, dropped, backoff, window, now, history>>

\* Mutant: the first connection that did not publish arms the interval.
JudgeAtOnce ==
    IF connectionPublishes # 0
    THEN /\ consecutiveUnproductive' = 0
         /\ UNCHANGED <<nextReconnectAt, backoffMessage>>
    ELSE /\ consecutiveUnproductive' = consecutiveUnproductive + 1
         /\ nextReconnectAt' = now + interval /\ backoffMessage' = "publishable"

\* Whether the connection that failed earns an immediate re-dial.
JudgeConnection ==
    IF connectionPublishes # 0
    THEN /\ consecutiveUnproductive' = 0
         /\ UNCHANGED <<nextReconnectAt, backoffMessage>>
    ELSE /\ consecutiveUnproductive' = consecutiveUnproductive + 1
         /\ IF consecutiveUnproductive' > 1
            THEN nextReconnectAt' = now + interval /\ backoffMessage' = "publishable"
            ELSE UNCHANGED <<nextReconnectAt, backoffMessage>>

Invalidates == CanReconnect

\* _invalidate: discard a connection the sink can replace.
Invalidate ==
    IF Invalidates
    THEN /\ JudgeConnection
         /\ released' = released + 1
         /\ channel' = FALSE
         /\ connectionPublishes' = 0
         /\ fates' = LastOf(2, Append(fates,
                        IF connectionPublishes # 0 THEN "productive" ELSE "barren"))
    ELSE UNCHANGED <<backoff, released, channel, connectionPublishes, fates>>

PublishFails ==
    /\ pc = "publishing"
    /\ dropped' = dropped + 1
    /\ Invalidate
    /\ lastFault' = now
    /\ pc' = "idle"
    /\ UNCHANGED <<setup, closed, published, window, now, opened, dials, lastDial>>

-----------------------------------------------------------------------------
(* close, and the clock *)

\* _release closes an owned connection that is held.
Close ==
    /\ pc = "idle"
    /\ ~closed
    /\ closed' = TRUE
    /\ released' = IF OwnsConnection /\ channel THEN released + 1 ELSE released
    /\ UNCHANGED <<setup, channel, counts, backoff, connectionPublishes, window,
                   pc, now, opened, dials, lastDial, fates, lastFault>>

Tick ==
    /\ now < MaxClock
    /\ now' = now + 1
    /\ UNCHANGED <<setup, channel, closed, counts, backoff, connectionPublishes,
                   window, pc, history>>

Emit ==
    \/ EmitNotARecord \/ EmitClosed \/ EmitNoChannel
    \/ EmitBackingOff \/ EmitCapped \/ EmitDials \/ EmitPublishes

Driver == DialSucceeds \/ DialFails \/ PublishSucceeds \/ PublishFails

Next == Emit \/ Driver \/ Close \/ Tick

Spec == Init /\ [][Next]_vars

-----------------------------------------------------------------------------
(* Properties *)

\* Every variable has its type.
TypeOK ==
    /\ kind \in {"url", "owned", "borrowed"}
    /\ interval \in Intervals
    /\ channel \in BOOLEAN /\ closed \in BOOLEAN
    /\ published \in Nat /\ dropped \in Nat
    /\ nextReconnectAt \in Nat
    /\ connectionPublishes \in Nat /\ consecutiveUnproductive \in Nat
    /\ dialWindowEnds \in Nat /\ dialsInWindow \in 0..MaxDials
    /\ backoffMessage \in {"redial", "publishable"}
    /\ pc \in {"idle", "dialing", "publishing"}
    /\ now \in Nat
    /\ opened \in Nat /\ released \in Nat
    /\ dials \in Seq(Nat)
    /\ lastDial \in {"none", "ok", "failed"}
    /\ fates \in Seq({"productive", "barren"})
    /\ lastFault \in Nat

\* However connections fail, any span of one interval holds fewer than twice the
\* cap of dials (the bound the comment on MAX_DIALS_PER_INTERVAL derives from the
\* fixed window).
ChurnBound ==
    (interval # 0 /\ Len(dials) = 2 * MaxDials) =>
        dials[2 * MaxDials] - dials[1] >= interval

\* The sink backs off only for the reason it logs: the last dial failed, or the
\* last two connections were discarded without having published anything.  A
\* connection that had been publishing, and the first that had not, are replaced
\* without delay.
BackoffEarned ==
    (CanReconnect /\ ~channel /\ pc = "idle" /\ BackingOff) =>
        \/ backoffMessage = "redial" /\ lastDial = "failed"
        \/ backoffMessage = "publishable" /\ fates = <<"barren", "barren">>

\* An outage ends with its cause: a sink that can reconnect refuses a record,
\* by backoff or by cap, only within one interval of the last failure it saw.
RefusalBounded ==
    (CanReconnect /\ ~channel /\ pc = "idle" /\ (BackingOff \/ CapReached)) =>
        now < lastFault + interval

\* A record is refused only while there is a reason, and never for longer: the sink
\* neither gives up a broker that came back nor hammers one that is down.
BackoffJust == TypeOK /\ BackoffEarned /\ RefusalBounded

\* After a failed dial the next one waits a whole interval, counted from the
\* moment the failure was reported and not from the dial's beginning.
FailedDialSpaced ==
    [][(lastDial = "failed" /\ EmitDials) => now >= lastFault + interval]_vars

\* The sink never leaks a connection: each one it opened has been closed, or is
\* the one it holds; after close() none is left.
NoConnectionLeak ==
    OwnsConnection =>
        opened - released = (IF channel /\ ~closed THEN 1 ELSE 0)

\* A channel the sink cannot replace is never discarded, whoever owns it, and a
\* borrowed connection is never closed.
GivenChannelKept ==
    ~CanReconnect => channel' = channel /\ (kind = "borrowed" => released' = 0)

\* Of all connections, its own and those it was given, no step leaves one behind or
\* loses it.
ConnectionsKept == [][NoConnectionLeak' /\ GivenChannelKept]_vars
=============================================================================
