---- MODULE TokenBucket ----
(* One direction of the relay's bandwidth limit (relay/bandwidth.rs).  File    *)
(* chunks wait for their tokens in a queue, video frames are dropped when      *)
(* there are none, interactive messages are only counted and may leave a debt. *)
(* Tokens are worked out when somebody asks, from the time since the last one  *)
(* did.  A tick is MAX_SLEEP; amounts are in units of some bytes.              *)
EXTENDS Integers, SequencesExt

CONSTANTS
    Acquirers, Need,       \* calls of acquire, and how much each asks for
    MaxNeed, MaxFrame,     \* the most one of them, or one frame, asks for
    Frames, Interactive,   \* sizes of frames (try_acquire) and of messages (consume)
    Rates,                 \* what an administrator sets, per tick; 0 is no limit
    BurstTicks, MinBurst,  \* BURST_SECONDS, MIN_BURST_BYTES
    Load,                  \* bound: messages of a tick, together
    MaxFrames, MaxSettings,\* bounds: frames that pass, changes of the rate
    MaxIdle                \* bound: ticks in which nobody asks for anything

ASSUME BucketAssumption ==
    /\ {MaxNeed, MaxFrame} \subseteq Nat
    /\ Need \in [Acquirers -> 1 .. MaxNeed]
    /\ Frames \subseteq 1 .. MaxFrame /\ Interactive \subseteq Nat \ {0}
    /\ Rates \subseteq Nat /\ {Load, MaxFrames, MaxSettings, MaxIdle} \subseteq Nat
    /\ {BurstTicks, MinBurst} \subseteq Nat \ {0}

VARIABLES
    bucket,   \* rate, and State: tokens, ticks since `last`
    caller,   \* the calls of acquire
    gate,     \* queue: who holds it, and who waits for it in turn
    waiters,  \* the count of waiters
    setting,  \* set_rate between its two steps: the old rate; changes so far
    passed    \* history: messages of this tick, frames so far; what has passed in
              \* excess of the rate, since it was last set

limit == <<bucket, caller, gate, waiters, setting, passed>>

Settled == -1
Burst(rate) == Max({rate * BurstTicks, MinBurst})

BucketInit ==
    /\ \E r \in Rates : bucket = [rate |-> r, tokens |-> Burst(r), since |-> 0]
    /\ caller = [a \in Acquirers |-> [at |-> "none", woken |-> FALSE]]
    /\ gate = <<>> /\ waiters = 0
    /\ setting = [old |-> Settled, count |-> 0]
    /\ passed = [messages |-> 0, frames |-> 0, excess |-> 0]

(* Mutant: the time is not moved on, and counts again.                         *)
Refilled_TimeStays(b, rate, cap) ==
    IF b.since = 0 THEN b ELSE [b EXCEPT !.tokens = Min({@ + b.since * rate, cap})]

(* refill: whatever is above the caller's own idea of the capacity is lost.    *)
Refilled(b, rate, cap) ==
    IF b.since = 0 THEN b ELSE [b EXCEPT !.tokens = Min({@ + b.since * rate, cap}), !.since = 0]
Asked(cap) == Refilled(bucket, bucket.rate, cap)

Passes(n) == passed' = [passed EXCEPT !.excess = @ + n]

----------------------------------------------------------------------------
(* acquire.                                                                    *)

Served(a) == caller' = [caller EXCEPT ![a].at = "served"]

(* The fast path is for when nobody waits.                                     *)
AcquireLooks(a) ==
    /\ caller[a].at = "none"
    /\ IF bucket.rate = 0
       THEN Served(a)
       ELSE caller' = [caller EXCEPT ![a].at = IF waiters = 0 THEN "fast" ELSE "late"]
    /\ UNCHANGED <<bucket, gate, waiters, setting, passed>>

(* try_take, which does not borrow for acquire                                 *)
FastTake(a) ==
    /\ caller[a].at = "fast"
    /\ LET b == Asked(Burst(bucket.rate)) IN
       \/ /\ bucket.rate = 0
          /\ Served(a)
          /\ UNCHANGED <<bucket, passed>>
       \/ /\ bucket.rate # 0 /\ b.tokens >= Need[a]
          /\ Served(a)
          /\ bucket' = [b EXCEPT !.tokens = @ - Need[a]]
          /\ Passes(Need[a])
       \/ /\ bucket.rate # 0 /\ b.tokens < Need[a]
          /\ caller' = [caller EXCEPT ![a].at = "late"]
          /\ bucket' = b
          /\ UNCHANGED passed
    /\ UNCHANGED <<gate, waiters, setting>>

Counts(a) ==
    /\ caller[a].at = "late"
    /\ caller' = [caller EXCEPT ![a].at = "counted"]
    /\ waiters' = waiters + 1
    /\ UNCHANGED <<bucket, gate, setting, passed>>

Queues(a) ==
    /\ caller[a].at = "counted"
    /\ caller' = [caller EXCEPT ![a].at = "queued", ![a].woken = TRUE]
    /\ gate' = Append(gate, a)
    /\ UNCHANGED <<bucket, waiters, setting, passed>>

(* The gate is let go first, the count follows.                                *)
Leaves(a, outcome) ==
    /\ caller' = [caller EXCEPT ![a].at = outcome, ![a].woken = FALSE]
    /\ gate' = SelectSeq(gate, LAMBDA b : b # a)

(* A round of the loop, of the one that holds the gate.  The capacity is       *)
(* raised for a request that exceeds it.                                       *)
Polls(a) ==
    /\ gate # <<>> /\ Head(gate) = a /\ caller[a].woken
    /\ LET b == Asked(Max({Burst(bucket.rate), Need[a]})) IN
       \/ /\ bucket.rate = 0
          /\ Leaves(a, "taken")
          /\ UNCHANGED <<bucket, passed>>
       \/ /\ bucket.rate # 0 /\ b.tokens >= Need[a]
          /\ Leaves(a, "taken")
          /\ bucket' = [b EXCEPT !.tokens = @ - Need[a]]
          /\ Passes(Need[a])
       \/ /\ bucket.rate # 0 /\ b.tokens < Need[a]
          /\ caller' = [caller EXCEPT ![a].woken = FALSE]
          /\ bucket' = b
          /\ UNCHANGED <<gate, passed>>
    /\ UNCHANGED <<waiters, setting>>

(* The future is dropped: the client has gone.                                 *)
AcquireDropped(a) ==
    /\ caller[a].at = "queued"
    /\ Leaves(a, "dropped")
    /\ UNCHANGED <<bucket, waiters, setting, passed>>

(* WaiterGuard::drop                                                           *)
Uncounts(a) ==
    /\ caller[a].at \in {"taken", "dropped"}
    /\ caller' = [caller EXCEPT ![a].at = IF @ = "taken" THEN "served" ELSE "gone"]
    /\ waiters' = waiters - 1
    /\ UNCHANGED <<bucket, gate, setting, passed>>

----------------------------------------------------------------------------
(* What does not wait, and the administrator.                                  *)

(* try_acquire: a frame larger than the bucket passes when it is full.         *)
FrameAsks ==
    /\ passed.frames < MaxFrames /\ bucket.rate # 0
    /\ \E n \in Frames :
          LET b == Asked(Burst(bucket.rate)) IN
          IF b.tokens >= Min({n, Burst(bucket.rate)})
          THEN /\ bucket' = [b EXCEPT !.tokens = @ - n]
               /\ passed' = [passed EXCEPT !.frames = @ + 1, !.excess = @ + n]
          ELSE bucket' = b /\ UNCHANGED passed
    /\ UNCHANGED <<caller, gate, waiters, setting>>

(* consume                                                                     *)
MessageGoes ==
    /\ bucket.rate # 0
    /\ \E n \in Interactive :
          /\ passed.messages + n <= Load
          /\ bucket' = [Asked(Burst(bucket.rate)) EXCEPT !.tokens = @ - n]
          /\ passed' = [passed EXCEPT !.messages = @ + n]
    /\ UNCHANGED <<caller, gate, waiters, setting>>

(* set_rate: the rate is there before the tokens are settled.                  *)
RateSwapped(rate) ==
    /\ setting.old = Settled /\ setting.count < MaxSettings /\ rate # bucket.rate
    /\ bucket' = [bucket EXCEPT !.rate = rate]
    /\ setting' = [old |-> bucket.rate, count |-> setting.count + 1]
    /\ UNCHANGED <<caller, gate, waiters, passed>>

(* A sleeper that has not asked for the notice yet misses it.                  *)
RateSettled ==
    /\ setting.old # Settled
    /\ LET cap == Burst(Max({bucket.rate, 1}))
           b == IF setting.old > 0 THEN Refilled(bucket, setting.old, Burst(setting.old)) ELSE bucket
       IN bucket' = [b EXCEPT !.since = 0, !.tokens = Max({-cap, Min({@, cap})})]
    /\ \/ UNCHANGED caller
       \/ caller' = [a \in Acquirers |-> [caller[a] EXCEPT !.woken = caller[a].at = "queued"]]
    /\ setting' = [setting EXCEPT !.old = Settled]
    /\ passed' = [passed EXCEPT !.excess = 0]
    /\ UNCHANGED <<gate, waiters>>

(* Time passes for those who sleep; the others are faster than a tick.         *)
Tick ==
    /\ bucket.since < MaxIdle
    /\ \A a \in Acquirers : caller[a].at \in {"none", "queued", "served", "gone"}
    /\ gate # <<>> => ~caller[Head(gate)].woken
    /\ setting.old = Settled
    /\ bucket' = [bucket EXCEPT !.since = @ + 1]
    /\ caller' = [a \in Acquirers |-> [caller[a] EXCEPT !.woken = caller[a].at = "queued"]]
    /\ passed' = [passed EXCEPT !.messages = 0, !.excess = Max({0, @ - bucket.rate})]
    /\ UNCHANGED <<gate, waiters, setting>>

Works(a) == FastTake(a) \/ Counts(a) \/ Queues(a) \/ Polls(a) \/ Uncounts(a)

BucketNext ==
    \/ \E a \in Acquirers : AcquireLooks(a) \/ Works(a) \/ AcquireDropped(a)
    \/ FrameAsks \/ MessageGoes
    \/ \E r \in Rates : RateSwapped(r)
    \/ RateSettled \/ Tick

(* Those who wait, the administrator's call and the time go on.                *)
BucketProgress == (\E a \in Acquirers : Works(a)) \/ RateSettled \/ Tick

BucketSpec == BucketInit /\ [][BucketNext]_limit /\ WF_limit(BucketProgress)

----------------------------------------------------------------------------
(* Properties.                                                                 *)

(* What passes that has to wait for its turn or is dropped keeps to the rate:  *)
(* at any time, what has passed since any earlier time exceeds the rate by no  *)
(* more than a full bucket, or the largest request it was raised for, and what *)
(* one frame borrows.                                                          *)
RateKept ==
    setting.old = Settled /\ bucket.rate # 0 =>
        LET full == Burst(bucket.rate)
        IN passed.excess <= Max({full, MaxNeed}) + Max({MaxFrame - full, 0})

(* A request larger than the bucket is served, too, and does not wait for      *)
(* ever: acquire's comment.                                                    *)
LargeServed == \A a \in Acquirers : caller[a].at = "queued" ~> caller[a].at # "queued"
====
