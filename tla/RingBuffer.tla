----------------------------- MODULE RingBuffer -----------------------------
(***************************************************************************)
(* The supervisor's bounded, drop-oldest buffer of log frames              *)
(* (internal/supervisor/buffer.go).  Every method runs under one mutex, so *)
(* each is one atomic operator here; DrainTo, which releases the mutex     *)
(* while it writes, is split between TakeAll here and the write steps of   *)
(* module Shipper.                                                         *)
(*                                                                         *)
(* A frame is abstracted to the position in which it was enqueued and its  *)
(* length; its text is never inspected by this code.                       *)
(***************************************************************************)
EXTENDS Integers, Sequences

CONSTANTS
    MaxBytes,    \* buffer.max_bytes, 0 = this dimension is unbounded
    MaxRecords,  \* buffer.max_records, 0 = this dimension is unbounded
    Sizes        \* lengths a frame may have

ASSUME BudgetAssumption ==
    /\ MaxBytes \in Nat /\ MaxRecords \in Nat
    /\ MaxBytes > 0 \/ MaxRecords > 0

ASSUME SizesAssumption == Sizes \subseteq Nat \ {0}

VARIABLES
    frames,     \* the queued frames, oldest first
    bytes,      \* running total of their lengths
    drops,      \* frames evicted and not yet taken by TakeDrops
    evicted     \* history: frames ever evicted

bufVars == <<frames, bytes, drops, evicted>>

Frame == [id : Nat \ {0}, size : Sizes]

(* The loop that adds up the lengths of frames, as in requeueFront.        *)
Bytes(fs) ==
    LET total[i \in 0 .. Len(fs)] == IF i = 0 THEN 0 ELSE total[i - 1] + fs[i].size
    IN  total[Len(fs)]

NewRingBuffer ==
    /\ frames = << >>
    /\ bytes = 0
    /\ drops = 0
    /\ evicted = 0

OverBudget(n, b) ==
    \/ MaxRecords > 0 /\ n > MaxRecords
    \/ MaxBytes > 0 /\ b > MaxBytes

(* evict's loop stops after k rounds: the budget was exceeded before each  *)
(* of them, and after them it holds or the buffer is empty.                *)
EvictsExactly(fs, b, k) ==
    /\ \A j \in 0 .. k - 1 : OverBudget(Len(fs) - j, b - Bytes(SubSeq(fs, 1, j)))
    /\ \/ k = Len(fs)
       \/ ~OverBudget(Len(fs) - k, b - Bytes(SubSeq(fs, 1, k)))

(* The buffer becomes fs, counted as b bytes, less what evict drops.       *)
Evict(fs, b) ==
    \E k \in 0 .. Len(fs) :
        /\ EvictsExactly(fs, b, k)
        /\ frames' = SubSeq(fs, k + 1, Len(fs))
        /\ bytes' = b - Bytes(SubSeq(fs, 1, k))
        /\ drops' = drops + k
        /\ evicted' = evicted + k

BufEnqueue(f) == Evict(Append(frames, f), bytes + f.size)

(* The locked first half of DrainTo.                                       *)
TakeAll ==
    /\ frames' = << >>
    /\ bytes' = 0
    /\ UNCHANGED <<drops, evicted>>

(* Faulty variants of requeueFront, for mutation testing.                  *)
RequeueAtBack(unwritten) == Evict(frames \o unwritten, bytes + Bytes(unwritten))
RequeueUnbounded(unwritten) ==
    /\ frames' = unwritten \o frames
    /\ bytes' = bytes + Bytes(unwritten)
    /\ UNCHANGED <<drops, evicted>>

RequeueFront(unwritten) == Evict(unwritten \o frames, bytes + Bytes(unwritten))

TakeDrops ==
    /\ drops' = 0
    /\ UNCHANGED <<frames, bytes, evicted>>

-----------------------------------------------------------------------------

(* evict keeps both configured bounds: after every operation the queued    *)
(* frames fit the record and the byte budget (buffer.go overBudget), also  *)
(* when a failed drain puts its frames back in front of new ones.          *)
WithinBudget ==
    /\ MaxRecords > 0 => Len(frames) <= MaxRecords
    /\ MaxBytes > 0 => Bytes(frames) <= MaxBytes

(* The incrementally maintained byte total (buffer.go:36, 49, 76 and 99)   *)
(* never drifts from the frames it counts.                                 *)
ByteCountExact == bytes = Bytes(frames)
=============================================================================
