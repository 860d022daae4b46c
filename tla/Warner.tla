------------------------------- MODULE Warner -------------------------------
(***************************************************************************)
(* RateLimitedWarner of src/src/tokenweir/_ratelimit.py: a window and a    *)
(* count of what was held back for each reason, called by producer threads *)
(* and by a delivery worker.  The clock is read before the lock is taken,  *)
(* and the line is logged after it is released, so other calls come in     *)
(* between.  The logger is the application's: it may raise, and a handler  *)
(* of it may itself run code that warns.                                   *)
(***************************************************************************)
EXTENDS Integers, Sequences, FiniteSets, FiniteSetsExt

CONSTANTS
    Threads,
    Keys,           \* the reasons: one constant message each
    Intervals,      \* the values of interval considered
    MaxTime,        \* bound on the clock
    MaxWarnings     \* bound on the calls of warn()

\* Times are numbers; an interval of 0 disables the limit.
ASSUME TimesAssumption == Intervals \subseteq Nat /\ MaxTime \in Nat /\ MaxWarnings \in Nat

\* A process has so many threads.
ASSUME ThreadsAssumption == IsFiniteSet(Threads)

\* A call and the one a handler may make while the first is logging.
Calls == Threads \X {1, 2}
Outer(c) == <<c[1], 1>>
Inner(c) == <<c[1], 2>>

VARIABLES
    interval,
    clock,
    nextAllowed,    \* of each key, when its window ends; -1 if it has none
    suppressed,     \* of each key
    lock,           \* the calls that hold _lock: at most one
    \* each call
    pc,             \* "idle", "called", "timed", "logging"
    key,
    now,            \* the time it read
    count,          \* the suppressed count it took over, to be reported
    \* history
    occurred,       \* of each key, the warnings
    passed,         \* of each key, the times of the lines let through, in turn
    told,           \* of each key, the occurrences its lines have reported
    muted,          \* of each key, the lines whose logger raised
    mislaid         \* of each key, the counts that were to be in those lines

warner == <<nextAllowed, suppressed, lock>>
locals == <<pc, key, now, count>>
history == <<occurred, passed, told, muted, mislaid>>
vars == <<interval, clock, warner, locals, history>>

Zero == [k \in Keys |-> 0]
None == CHOOSE k \in Keys : TRUE

Init ==
    /\ interval \in Intervals
    /\ clock = 0
    /\ nextAllowed = [k \in Keys |-> -1]
    /\ suppressed = Zero
    /\ lock = {}
    /\ pc = [c \in Calls |-> "idle"]
    /\ key = [c \in Calls |-> None]
    /\ now = [c \in Calls |-> 0]
    /\ count = [c \in Calls |-> 0]
    /\ occurred = Zero /\ told = Zero /\ muted = Zero /\ mislaid = Zero
    /\ passed = [k \in Keys |-> <<>>]

Tick ==
    /\ clock < MaxTime
    /\ clock' = clock + 1
    /\ UNCHANGED <<interval, warner, locals, history>>

\* warn() is called, by a thread or by a handler in the middle of its logging.
Call(c, k) ==
    /\ pc[c] = "idle"
    /\ c = Outer(c) \/ pc[Outer(c)] = "logging"
    /\ MapThenSumSet(LAMBDA x : occurred[x], Keys) < MaxWarnings
    /\ pc' = [pc EXCEPT ![c] = "called"]
    /\ key' = [key EXCEPT ![c] = k]
    /\ occurred' = [occurred EXCEPT ![k] = @ + 1]
    /\ UNCHANGED <<interval, clock, warner, now, count, passed, told, muted, mislaid>>

ReadClock(c) ==
    /\ pc[c] = "called"
    /\ now' = [now EXCEPT ![c] = clock]
    /\ pc' = [pc EXCEPT ![c] = "timed"]
    /\ UNCHANGED <<interval, clock, warner, key, count, history>>

\* Mutant: one window for every reason.
BucketOfAll(k) == None

Bucket(k) == k

InWindow(b, t) == nextAllowed[b] # -1 /\ t < nextAllowed[b]

\* Mutant: the window of a reason is opened once.
WindowOnce(b, t) ==
    IF interval = 0 \/ nextAllowed[b] # -1 THEN nextAllowed[b] ELSE t + interval

WindowFrom(b, t) == IF interval = 0 THEN nextAllowed[b] ELSE t + interval

\* Mutant: the line is logged with the lock held.
HeldWhileLogging(c) == {c}

\* The with block is left before the line is logged.
AfterDeciding(c) == {}

Return(c) ==
    /\ pc' = [pc EXCEPT ![c] = "idle"]
    /\ key' = [key EXCEPT ![c] = None]
    /\ now' = [now EXCEPT ![c] = 0]
    /\ count' = [count EXCEPT ![c] = 0]

\* Under the lock: counted, ...
Suppress(c) ==
    /\ pc[c] = "timed" /\ lock = {}
    /\ InWindow(Bucket(key[c]), now[c])
    /\ suppressed' = [suppressed EXCEPT ![Bucket(key[c])] = @ + 1]
    /\ Return(c)
    /\ UNCHANGED <<interval, clock, nextAllowed, lock, history>>

\* Mutant: the count that was taken over stays.
KeepsCount(b) == suppressed[b]

CountLeft(b) == 0

\* ... or let through, with what was held back since the last line.
LetThrough(c) ==
    LET b == Bucket(key[c]) IN
    /\ pc[c] = "timed" /\ lock = {}
    /\ ~InWindow(b, now[c])
    /\ count' = [count EXCEPT ![c] = suppressed[b]]
    /\ suppressed' = [suppressed EXCEPT ![b] = CountLeft(b)]
    /\ nextAllowed' = [nextAllowed EXCEPT ![b] = WindowFrom(b, now[c])]
    /\ lock' = AfterDeciding(c)
    /\ pc' = [pc EXCEPT ![c] = "logging"]
    /\ passed' = [passed EXCEPT ![key[c]] = Append(@, now[c])]
    /\ UNCHANGED <<interval, clock, key, now, occurred, told, muted, mislaid>>

\* The logger writes the line, with the count in it, ...
LineWritten(c) ==
    /\ told' = [told EXCEPT ![key[c]] = @ + 1 + count[c]]
    /\ UNCHANGED <<muted, mislaid>>

\* ... or raises, which is swallowed: there is no line, and the count that was taken
\* over for it is not put back.
LoggerRaises(c) ==
    /\ muted' = [muted EXCEPT ![key[c]] = @ + 1]
    /\ mislaid' = [mislaid EXCEPT ![key[c]] = @ + count[c]]
    /\ UNCHANGED told

\* Either way warn() returns.
Logged(c) ==
    /\ pc[c] = "logging"
    /\ c = Inner(c) \/ pc[Inner(c)] = "idle"
    /\ LineWritten(c) \/ LoggerRaises(c)
    /\ lock' = lock \ {c}
    /\ Return(c)
    /\ UNCHANGED <<interval, clock, nextAllowed, suppressed, occurred, passed>>

Proceed(c) == ReadClock(c) \/ Suppress(c) \/ LetThrough(c) \/ Logged(c)

Next ==
    \/ Tick
    \/ \E c \in Calls : Proceed(c) \/ \E k \in Keys : Call(c, k)

Spec == Init /\ [][Next]_vars

\* A thread that has something to do runs; a logger call ends.
FairSpec == Spec /\ \A c \in Calls : WF_vars(Proceed(c))

-----------------------------------------------------------------------------
(* properties *)

\* Every window lies at most an interval ahead of the clock, and an interval of 0 opens
\* none; one thread at most is inside the lock; no call has read a time to come.
TypeOK ==
    /\ clock \in 0..MaxTime
    /\ \A k \in Keys : nextAllowed[k] \in
                         {-1} \cup (IF interval = 0 THEN {} ELSE 0..(MaxTime + interval))
    /\ \A k \in Keys : suppressed[k] \in Nat
    /\ lock \subseteq Calls /\ Cardinality(lock) <= 1
    /\ \A c \in Calls : count[c] \in Nat /\ now[c] <= clock

Pending(k) == {c \in Calls : key[c] = k /\ pc[c] # "idle"}

\* The occurrences in the hands of calls: of each call its own, number 0, and those it
\* took over.
OnTheWay(k) == UNION {{c} \X (0..count[c]) : c \in Pending(k)}

\* No count is attached to another cause or reported twice, and none disappears but
\* with a line whose logger raised: what happened for a reason is in the lines of that
\* reason, held back under it, still on its way, or went with such a line, the one case
\* in which the module's "Nothing is hidden" does not hold.
Conserved ==
    \A k \in Keys :
        occurred[k] = told[k] + suppressed[k] + Cardinality(OnTheWay(k))
                        + (muted[k] + mislaid[k])

\* An interval of 0 holds nothing back, however calls overtake each other between the
\* clock and the lock.
Unlimited == interval = 0 => \A k \in Keys : suppressed[k] = 0

\* A warning is held back only if a line of the same reason was let through less than
\* an interval before it, by the times the two calls read, however late they came to
\* the lock.  The line was handed to the logger, which may have raised.
HeldBackOnlyAfterALine ==
    \A c \in Calls :
        pc[c] = "timed" /\ InWindow(Bucket(key[c]), now[c]) =>
            \E i \in DOMAIN passed[key[c]] : now[c] - passed[key[c]][i] < interval

\* With a limit, two lines of one reason are an interval apart, by the times their
\* calls read: a thread that comes to the lock late with an old time, or with the time
\* another read, opens no second window.
LinesSpaced ==
    interval # 0 =>
        \A k \in Keys : \A i, j \in DOMAIN passed[k] :
            i < j => passed[k][j] - passed[k][i] >= interval

\* The limit holds nothing back without a line before it, lets no more lines through
\* than it says, and is no limit at all when the interval is 0.
RateLimited == TypeOK /\ Unlimited /\ HeldBackOnlyAfterALine /\ LinesSpaced

\* Every call of warn() returns, whatever the handlers of the logger do.
EveryCallReturns == \A c \in Calls : pc[c] # "idle" ~> pc[c] = "idle"
=============================================================================
