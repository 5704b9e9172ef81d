------------------------------ MODULE Velocity ------------------------------
(***************************************************************************)
(* The velocity control of vls-core (util/velocity.rs) and the approvers   *)
(* built on it (vls-protocol-signer/approver.rs).                          *)
(*                                                                         *)
(* A control keeps the amounts of the last intervals in buckets, newest    *)
(* first, and refuses an amount that would take their sum over the limit.  *)
(* An approver answers whether a payment may be made; VelocityApprover     *)
(* answers yes below its own control's limit and asks its delegate above   *)
(* it, MemoApprover answers yes to a payment approved in advance.          *)
(***************************************************************************)
EXTENDS Naturals, Sequences, SequencesExt

CONSTANTS
    Interval,       \* bucket_interval, in seconds
    NumBuckets,     \* number of buckets
    NoLimit         \* the limit that disables a control (u64::MAX)

ASSUME VelocityAssumption ==
    /\ Interval \in Nat \ {0}
    /\ NumBuckets \in Nat \ {0}

(* new_with_intervals, new, update_spec on a spec that differs: a control  *)
(* starts with empty buckets.                                              *)
FreshControl(limit) ==
    [start |-> 0, buckets |-> [i \in 1..NumBuckets |-> 0], limit |-> limit]

ControlVelocity(c) == FoldLeft(LAMBDA sum, b : sum + b, 0, c.buckets)

(* The buckets move on by the whole intervals that passed; a clock behind  *)
(* start_sec makes the unsigned difference wrap to a number larger than    *)
(* the number of buckets, which empties them.                              *)
Shift(c, now) ==
    IF now < c.start \/ (now - c.start) \div Interval > NumBuckets
    THEN NumBuckets
    ELSE (now - c.start) \div Interval

(* A bug that keeps the oldest bucket when time moves on by dropping the   *)
(* newest one.                                                             *)
ShiftedWrongEnd(c, now) ==
    LET n == Shift(c, now)
    IN  [c EXCEPT !.start = now - (now % Interval),
                  !.buckets = [i \in 1..NumBuckets |->
                                 IF i + n <= NumBuckets THEN c.buckets[i + n] ELSE 0]]

Shifted(c, now) ==
    LET n == Shift(c, now)
    IN  [c EXCEPT !.start = now - (now % Interval),
                  !.buckets = [i \in 1..NumBuckets |->
                                 IF i <= n THEN 0 ELSE c.buckets[i - n]]]

Fits(c, v) == c.limit = NoLimit \/ ControlVelocity(c) + v <= c.limit

(* insert: the buckets have moved on even if the amount is refused.        *)
Inserted(c, now, v) ==
    LET s == Shifted(c, now)
    IN  IF Fits(s, v) THEN [s EXCEPT !.buckets[1] = @ + v] ELSE s

InsertFits(c, now, v) == Fits(Shifted(c, now), v)

Cleared(c) == [c EXCEPT !.buckets = [i \in 1..NumBuckets |-> 0]]

(* VelocityApprover: below the limit the approver answers itself, above    *)
(* it the delegate does, and the control starts afresh when it agrees.     *)
VelocityApproves(c, now, v, delegate) == InsertFits(c, now, v) \/ delegate

VelocityAfter(c, now, v, delegate) ==
    IF ~InsertFits(c, now, v) /\ delegate
    THEN Cleared(Inserted(c, now, v))
    ELSE Inserted(c, now, v)

(* MemoApprover: whatever is asked first uses up all the memorized         *)
(* approvals, matching or not.                                             *)
MemoApproves(memo, request, delegate) == request \in memo \/ delegate

=============================================================================
