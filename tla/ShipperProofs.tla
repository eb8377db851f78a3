--------------------------- MODULE ShipperProofs ---------------------------
(***************************************************************************)
(* The shipper's safety properties, for every budget, every number of      *)
(* producers, any frame sizes and any number of faults.                    *)
(***************************************************************************)
EXTENDS Shipper, SequenceTheorems, FiniteSetTheorems, TLAPS

(* What evict (buffer.go:44-52) leaves of a queue: a suffix, with the      *)
(* frames before it counted as dropped.                                    *)
LEMMA EvictLeavesSuffix ==
    ASSUME NEW fs \in Seq(Frame), NEW b, Evict(fs, b)
    PROVE  \E k \in 0 .. Len(fs) :
              /\ frames' \in Seq(Frame)
              /\ Len(frames') = Len(fs) - k
              /\ \A i \in 1 .. Len(frames') : frames'[i] = fs[i + k]
              /\ drops' = drops + k
              /\ evicted' = evicted + k
  <1>1. PICK k \in 0 .. Len(fs) :
            /\ frames' = SubSeq(fs, k + 1, Len(fs))
            /\ drops' = drops + k
            /\ evicted' = evicted + k
    BY DEF Evict
  <1>2. \A i \in k + 1 .. Len(fs) : fs[i] \in Frame
    BY ElementOfSeq, LenProperties
  <1>3. Len(fs) \in Nat
    BY LenProperties
  <1>4. /\ frames' \in Seq(Frame)
        /\ Len(frames') = IF k + 1 <= Len(fs) THEN Len(fs) - (k + 1) + 1 ELSE 0
        /\ \A i \in 1 .. Len(fs) - (k + 1) + 1 : frames'[i] = fs[k + 1 + i - 1]
    BY <1>1, <1>2, <1>3, SubSeqProperties
  <1> QED
    BY <1>1, <1>3, <1>4

(* A new frame (buffer.go:32-38) is appended with the next id before the   *)
(* budget is applied.                                                      *)
LEMMA NewFrameEvicts ==
    ASSUME TypeOK, NEW size \in Sizes, NewFrame(size)
    PROVE  /\ enqueued' = enqueued + 1
           /\ LET f == [id |-> enqueued + 1, size |-> size]
              IN  /\ f \in Frame
                  /\ Append(frames, f) \in Seq(Frame)
                  /\ Evict(Append(frames, f), bytes + f.size)
  <1>1. [id |-> enqueued + 1, size |-> size] \in Frame
    BY DEF TypeOK, Frame
  <1>2. frames \in Seq(Frame)
    BY DEF TypeOK
  <1> QED
    BY <1>1, <1>2, AppendProperties DEF NewFrame, BufEnqueue

-----------------------------------------------------------------------------
(* TypeOK.                                                                 *)

(* buf.Enqueue keeps the buffer's shapes.                                  *)
LEMMA NewFrameTypes ==
    ASSUME TypeOK, NEW size \in Sizes, NewFrame(size)
    PROVE  frames' \in Seq(Frame) /\ drops' \in Nat /\ evicted' \in Nat /\ enqueued' \in Nat
  <1> DEFINE fs == Append(frames, [id |-> enqueued + 1, size |-> size])
  <1>1. enqueued' = enqueued + 1 /\ fs \in Seq(Frame) /\ \E b : Evict(fs, b)
    BY NewFrameEvicts
  <1> HIDE DEF fs
  <1>2. PICK k \in 0 .. Len(fs) :
            frames' \in Seq(Frame) /\ drops' = drops + k /\ evicted' = evicted + k
    BY <1>1, EvictLeavesSuffix
  <1>3. Len(fs) \in Nat
    BY <1>1, LenProperties
  <1> QED
    BY <1>1, <1>2, <1>3 DEF TypeOK

(* So does a warning of the shipper itself (shipper.go:124, 168).          *)
LEMMA WarningTypes ==
    ASSUME TypeOK, LogWarning
    PROVE  /\ frames' \in Seq(Frame) /\ drops' \in Nat /\ evicted' \in Nat
           /\ enqueued' \in Nat /\ wake' \in BOOLEAN
  <1>1. CASE WarnLogged
    <2>1. WarnSize \in Sizes /\ NewFrame(WarnSize) /\ wake' = TRUE
      BY <1>1, ShipperAssumption DEF LogWarning
    <2> QED
      BY <2>1, NewFrameTypes
  <1>2. CASE ~WarnLogged
    BY <1>2 DEF LogWarning, bufVars, TypeOK
  <1> QED
    BY <1>1, <1>2

(* Every step of the shipper keeps the shapes of its state.                *)
LEMMA TypeStep == TypeOK /\ [Next]_vars => TypeOK'
  <1> SUFFICES ASSUME TypeOK, [Next]_vars PROVE TypeOK'
    OBVIOUS
  <1> USE DEF TypeOK, bufVars, runVars, history, RunPoints, FlushPoints, Goto
  <1>1. ASSUME NEW p \in Producers, NEW size \in Sizes, Enqueue(p, size) PROVE TypeOK'
    <2>1. frames' \in Seq(Frame) /\ drops' \in Nat /\ evicted' \in Nat /\ enqueued' \in Nat
      BY <1>1, NewFrameTypes DEF Enqueue
    <2> QED
      BY <1>1, <2>1 DEF Enqueue
  <1>2. ASSUME NEW p \in Producers, Notify(p) PROVE TypeOK'
    BY <1>2 DEF Notify
  <1>3. CASE RunTop
    BY <1>3 DEF RunTop
  <1>4. CASE Sleep
    BY <1>4 DEF Sleep
  <1>5. CASE DialOk
    BY <1>5, ShipperAssumption DEF DialOk
  <1>6. CASE DialFail
    <2>1. /\ frames' \in Seq(Frame) /\ drops' \in Nat /\ evicted' \in Nat
          /\ enqueued' \in Nat /\ wake' \in BOOLEAN
      BY <1>6, WarningTypes DEF DialFail
    <2>2. backoff' \in {0} \cup (MinBackoff .. MaxBackoff)
      BY <1>6, ShipperAssumption DEF DialFail, nextBackoff
    <2> QED
      BY <1>6, <2>1, <2>2, ShipperAssumption DEF DialFail, Fault
  <1>7. CASE BeginDrain
    BY <1>7 DEF BeginDrain
  <1>8. CASE TakePending
    BY <1>8 DEF TakePending, TakeDrops
  <1>9. CASE WriteDrop
    BY <1>9 DEF WriteDrop
  <1>10. CASE WriteDropFail
    BY <1>10 DEF WriteDropFail, Fault
  <1>11. CASE ClearPending
    BY <1>11 DEF ClearPending
  <1>12. CASE DrainTake
    BY <1>12 DEF DrainTake, TakeAll
  <1>13. CASE WriteFrame
    <2>1. Head(inflight) \in Frame /\ Tail(inflight) \in Seq(Frame)
      BY <1>13, HeadTailProperties DEF WriteFrame
    <2>2. Head(inflight).id \in Nat
      BY <2>1 DEF Frame
    <2> QED
      BY <1>13, <2>1, <2>2 DEF WriteFrame
  <1>14. CASE WriteFrameFail
    <2>1. inflight \o frames \in Seq(Frame)
      BY ConcatProperties
    <2>2. Evict(inflight \o frames, bytes + Bytes(inflight))
      BY <1>14 DEF WriteFrameFail, RequeueFront
    <2>3. PICK k \in 0 .. Len(inflight \o frames) :
              frames' \in Seq(Frame) /\ drops' = drops + k /\ evicted' = evicted + k
      BY <2>1, <2>2, EvictLeavesSuffix
    <2>4. k \in Nat
      BY <2>1, <2>3, LenProperties
    <2>5. frames' \in Seq(Frame) /\ drops' \in Nat /\ evicted' \in Nat
      BY <2>3, <2>4
    <2> QED
      BY <1>14, <2>5, EmptySeq DEF WriteFrameFail, Fault
  <1>15. CASE WriteDone
    BY <1>15 DEF WriteDone
  <1>16. CASE EndDrain
    BY <1>16 DEF EndDrain
  <1>17. CASE ServeFail
    <2>1. /\ frames' \in Seq(Frame) /\ drops' \in Nat /\ evicted' \in Nat
          /\ enqueued' \in Nat /\ wake' \in BOOLEAN
      BY <1>17, WarningTypes DEF ServeFail
    <2> QED
      BY <1>17, <2>1 DEF ServeFail
  <1>18. CASE Select
    <2>1. pc' \in RunPoints /\ wake' \in BOOLEAN
      BY <1>18 DEF Select
    <2>2. UNCHANGED <<bufVars, pendingDrops, draining, backoff, inflight, ppc, fpc, history, faults>>
      BY <1>18 DEF Select
    <2> QED
      BY <2>1, <2>2
  <1>19. CASE FlushCall \/ Flush \/ FlushDeadline
    <2>1. fpc' \in FlushPoints /\ wake' \in BOOLEAN
      BY <1>19 DEF FlushCall, Flush, FlushNudge, IdleBusy, IdleLen, IdleDrops,
                   FlushPoll, FlushDeadline, FlushGoto
    <2>2. UNCHANGED <<bufVars, runVars, ppc, history, faults>>
      BY <1>19 DEF FlushCall, Flush, FlushNudge, IdleBusy, IdleLen, IdleDrops,
                   FlushPoll, FlushDeadline, FlushGoto
    <2> QED
      BY <2>1, <2>2
  <1>20. CASE UNCHANGED vars
    BY <1>20 DEF vars
  <1> QED
    BY <1>1, <1>2, <1>3, <1>4, <1>5, <1>6, <1>7, <1>8, <1>9, <1>10, <1>11, <1>12,
       <1>13, <1>14, <1>15, <1>16, <1>17, <1>18, <1>19, <1>20
       DEF Next, Produce, Run

(* NewShipper's state (shipper.go:67-94) has them.                         *)
LEMMA InitType == Init => TypeOK
  <1> SUFFICES ASSUME Init PROVE TypeOK
    OBVIOUS
  <1>1. frames \in Seq(Frame) /\ inflight \in Seq(Frame)
    BY DEF Init, NewRingBuffer
  <1>2. ppc \in [Producers -> {"idle", "notify"}]
    BY DEF Init
  <1>3. pc \in RunPoints /\ fpc \in FlushPoints
    BY DEF Init, RunPoints, FlushPoints
  <1>4. /\ drops \in Nat /\ evicted \in Nat /\ pendingDrops \in Nat
        /\ wake \in BOOLEAN /\ draining \in BOOLEAN
        /\ backoff \in {0} \cup (MinBackoff .. MaxBackoff)
        /\ enqueued \in Nat /\ delivered \in Nat /\ lastSent \in Nat
        /\ reported \in Nat /\ faults \in Nat
    BY DEF Init, NewRingBuffer
  <1> QED
    BY <1>1, <1>2, <1>3, <1>4 DEF TypeOK

(* Spec => []TypeOK: the shapes of the shipper's state, and backoff within *)
(* its bounds (shipper.go:136-146), for every MinBackoff <= MaxBackoff.    *)
THEOREM TypeCorrect == Spec => []TypeOK
  <1> QED
    BY InitType, TypeStep, PTL DEF Spec

-----------------------------------------------------------------------------
(* Accounting.                                                             *)

(* buf.Enqueue counts the new frame and every frame it evicts.             *)
LEMMA NewFrameAccounted ==
    ASSUME TypeOK, NEW size \in Sizes, NewFrame(size)
    PROVE  \E k \in Nat :
              /\ enqueued' = enqueued + 1
              /\ Len(frames') = Len(frames) + 1 - k
              /\ drops' = drops + k
              /\ evicted' = evicted + k
  <1> DEFINE f == [id |-> enqueued + 1, size |-> size]
             fs == Append(frames, f)
  <1>1. enqueued' = enqueued + 1 /\ f \in Frame /\ fs \in Seq(Frame) /\ \E b : Evict(fs, b)
    BY NewFrameEvicts
  <1>2. Len(fs) = Len(frames) + 1 /\ Len(fs) \in Nat
    BY <1>1, AppendProperties, LenProperties DEF TypeOK
  <1> HIDE DEF fs
  <1>3. PICK k \in 0 .. Len(fs) :
            Len(frames') = Len(fs) - k /\ drops' = drops + k /\ evicted' = evicted + k
    BY <1>1, EvictLeavesSuffix
  <1> QED
    BY <1>1, <1>2, <1>3

(* A warning of the shipper is counted like any other frame.               *)
LEMMA WarningAccounted ==
    ASSUME TypeOK, LogWarning
    PROVE  \E k, n \in Nat :
              /\ enqueued' = enqueued + n
              /\ Len(frames') = Len(frames) + n - k
              /\ drops' = drops + k
              /\ evicted' = evicted + k
  <1>1. CASE WarnLogged
    <2>1. WarnSize \in Sizes /\ NewFrame(WarnSize)
      BY <1>1, ShipperAssumption DEF LogWarning
    <2> QED
      BY <2>1, NewFrameAccounted
  <1>2. CASE ~WarnLogged
    <2>1. Len(frames) \in Nat
      BY LenProperties DEF TypeOK
    <2>2. /\ enqueued' = enqueued + 0 /\ Len(frames') = Len(frames) + 0 - 0
          /\ drops' = drops + 0 /\ evicted' = evicted + 0
      BY <1>2, <2>1 DEF LogWarning, bufVars, TypeOK
    <2> QED
      BY <2>2
  <1> QED
    BY <1>1, <1>2

(* Every step accounts for every frame and every drop.                     *)
LEMMA AccountingStep ==
    TypeOK /\ QueueOrder /\ Accounting /\ [Next]_vars => Accounting'
  <1> SUFFICES ASSUME TypeOK, QueueOrder, Accounting, [Next]_vars PROVE Accounting'
    OBVIOUS
  <1>a. /\ drops \in Nat /\ evicted \in Nat /\ pendingDrops \in Nat /\ enqueued \in Nat
        /\ delivered \in Nat /\ reported \in Nat
        /\ Len(frames) \in Nat /\ Len(inflight) \in Nat
    BY LenProperties DEF TypeOK
  <1>b. /\ enqueued = delivered + Len(inflight) + Len(frames) + evicted
        /\ evicted = reported + drops + (IF pc = "clear" THEN 0 ELSE pendingDrops)
    BY DEF Accounting
  <1>c. Len(<< >>) = 0
    BY EmptySeq
  <1> USE <1>a, <1>b, <1>c DEF Accounting, bufVars, runVars, history, Goto
  <1>1. ASSUME NEW p \in Producers, NEW size \in Sizes, Enqueue(p, size) PROVE Accounting'
    <2>1. PICK k \in Nat :
              /\ enqueued' = enqueued + 1 /\ Len(frames') = Len(frames) + 1 - k
              /\ drops' = drops + k /\ evicted' = evicted + k
      BY <1>1, NewFrameAccounted DEF Enqueue
    <2> QED
      BY <1>1, <2>1 DEF Enqueue
  <1>2. ASSUME NEW p \in Producers, Notify(p) PROVE Accounting'
    BY <1>2 DEF Notify
  <1>3. CASE RunTop \/ Sleep \/ DialOk \/ BeginDrain \/ WriteDropFail \/ WriteDone
             \/ EndDrain \/ Select
    BY <1>3 DEF RunTop, Sleep, DialOk, BeginDrain, WriteDropFail, WriteDone, EndDrain, Select
  <1>4. CASE DialFail \/ ServeFail
    <2>1. PICK k, n \in Nat :
              /\ enqueued' = enqueued + n /\ Len(frames') = Len(frames) + n - k
              /\ drops' = drops + k /\ evicted' = evicted + k
      BY <1>4, WarningAccounted DEF DialFail, ServeFail
    <2>2. /\ UNCHANGED <<delivered, reported, inflight, pendingDrops>>
          /\ pc # "clear" /\ pc' # "clear"
      BY <1>4 DEF DialFail, ServeFail
    <2> QED
      BY <2>1, <2>2
  <1>5. CASE TakePending
    BY <1>5 DEF TakePending, TakeDrops
  <1>6. CASE WriteDrop
    BY <1>6 DEF WriteDrop
  <1>7. CASE ClearPending
    BY <1>7 DEF ClearPending
  <1>8. CASE DrainTake
    <2>1. inflight = << >>
      BY <1>8 DEF DrainTake, QueueOrder
    <2> QED
      BY <1>8, <2>1 DEF DrainTake, TakeAll
  <1>9. CASE WriteFrame
    <2>1. Len(Tail(inflight)) = Len(inflight) - 1
      BY <1>9, HeadTailProperties DEF WriteFrame, TypeOK
    <2> QED
      BY <1>9, <2>1 DEF WriteFrame
  <1>10. CASE WriteFrameFail
    <2> DEFINE fs == inflight \o frames
    <2>1. fs \in Seq(Frame) /\ Len(fs) = Len(inflight) + Len(frames)
      BY ConcatProperties DEF TypeOK
    <2>2. Evict(fs, bytes + Bytes(inflight))
      BY <1>10 DEF WriteFrameFail, RequeueFront
    <2> HIDE DEF fs
    <2>3. PICK k \in 0 .. Len(fs) :
              Len(frames') = Len(fs) - k /\ drops' = drops + k /\ evicted' = evicted + k
      BY <2>1, <2>2, EvictLeavesSuffix
    <2>4. /\ UNCHANGED <<enqueued, delivered, reported, pendingDrops>>
          /\ inflight' = << >> /\ pc # "clear" /\ pc' # "clear"
      BY <1>10 DEF WriteFrameFail
    <2> QED
      BY <2>1, <2>3, <2>4
  <1>11. CASE FlushCall \/ Flush \/ FlushDeadline
    BY <1>11 DEF FlushCall, Flush, FlushNudge, IdleBusy, IdleLen, IdleDrops,
                 FlushPoll, FlushDeadline, FlushGoto
  <1>12. CASE UNCHANGED vars
    BY <1>12 DEF vars
  <1> QED
    BY <1>1, <1>2, <1>3, <1>4, <1>5, <1>6, <1>7, <1>8, <1>9, <1>10, <1>11, <1>12
       DEF Next, Produce, Run

-----------------------------------------------------------------------------
(* Order.                                                                  *)

(* The frames of a queue have natural numbers as ids.                      *)
LEMMA FrameIds ==
    ASSUME NEW fs \in Seq(Frame)
    PROVE  /\ Len(fs) \in Nat
           /\ \A i \in 1 .. Len(fs) : fs[i] \in Frame /\ fs[i].id \in Nat
  <1>1. \A i \in 1 .. Len(fs) : fs[i] \in Frame
    BY ElementOfSeq
  <1> QED
    BY <1>1, LenProperties DEF Frame

(* A suffix of an increasing queue is increasing.                          *)
LEMMA SuffixIncreasing ==
    ASSUME NEW fs, NEW gs, Len(fs) \in Nat, NEW k \in 0 .. Len(fs), Increasing(fs),
           Len(gs) = Len(fs) - k, \A i \in 1 .. Len(gs) : gs[i] = fs[i + k]
    PROVE  Increasing(gs)
  <1> SUFFICES ASSUME NEW i \in 1 .. Len(gs), NEW j \in 1 .. Len(gs), i < j
               PROVE  gs[i].id < gs[j].id
    BY DEF Increasing
  <1> DEFINE m == i + k
             n == j + k
  <1>1. m \in 1 .. Len(fs) /\ n \in 1 .. Len(fs) /\ m < n
    OBVIOUS
  <1>2. gs[i] = fs[m] /\ gs[j] = fs[n]
    OBVIOUS
  <1> HIDE DEF m, n
  <1>3. fs[m].id < fs[n].id
    BY <1>1 DEF Increasing
  <1> QED
    BY <1>2, <1>3

(* After a new frame everything queued is still increasing, newer than lo  *)
(* and not newer than the new frame.                                       *)
LEMMA NewFrameOrder ==
    ASSUME TypeOK, NEW size \in Sizes, NewFrame(size), Increasing(frames),
           \A j \in 1 .. Len(frames) : frames[j].id <= enqueued
    PROVE  /\ Increasing(frames')
           /\ \A j \in 1 .. Len(frames') :
                 /\ frames'[j].id <= enqueued'
                 /\ frames'[j].id = enqueued + 1
                    \/ \E i \in 1 .. Len(frames) : frames'[j] = frames[i]
  <1> DEFINE f == [id |-> enqueued + 1, size |-> size]
             fs == Append(frames, f)
  <1>1. enqueued' = enqueued + 1 /\ f \in Frame /\ fs \in Seq(Frame) /\ \E b : Evict(fs, b)
    BY NewFrameEvicts
  <1>2. /\ Len(frames) \in Nat /\ enqueued \in Nat
        /\ \A i \in 1 .. Len(frames) : frames[i] \in Frame /\ frames[i].id \in Nat
    BY FrameIds DEF TypeOK
  <1>3. /\ Len(fs) = Len(frames) + 1
        /\ \A i \in 1 .. Len(frames) : fs[i] = frames[i]
        /\ fs[Len(frames) + 1] = f
    BY <1>1, AppendProperties DEF TypeOK
  <1>4. f.id = enqueued + 1
    OBVIOUS
  <1> HIDE DEF fs, f
  <1>5. \A i \in 1 .. Len(fs) :
            /\ fs[i].id \in Nat /\ fs[i].id <= enqueued + 1
            /\ fs[i].id = enqueued + 1 \/ \E j \in 1 .. Len(frames) : fs[i] = frames[j]
    <2> SUFFICES ASSUME NEW i \in 1 .. Len(fs)
                 PROVE  /\ fs[i].id \in Nat /\ fs[i].id <= enqueued + 1
                        /\ fs[i].id = enqueued + 1 \/ \E j \in 1 .. Len(frames) : fs[i] = frames[j]
      OBVIOUS
    <2>1. CASE i \in 1 .. Len(frames)
      BY <1>2, <1>3, <2>1
    <2>2. CASE i = Len(frames) + 1
      BY <1>2, <1>3, <1>4, <2>2
    <2> QED
      BY <1>2, <1>3, <2>1, <2>2
  <1>6. ASSUME NEW i \in 1 .. Len(fs), NEW j \in 1 .. Len(fs), i < j
        PROVE  fs[i].id < fs[j].id
    <2>1. i \in 1 .. Len(frames) /\ fs[i] = frames[i] /\ frames[i].id <= enqueued
      BY <1>2, <1>3, <1>6
    <2>2. CASE j \in 1 .. Len(frames)
      BY <1>3, <1>6, <2>1, <2>2 DEF Increasing
    <2>3. CASE j = Len(frames) + 1
      BY <1>2, <1>3, <1>4, <2>1, <2>3
    <2> QED
      BY <1>2, <1>3, <2>2, <2>3
  <1>7. PICK k \in 0 .. Len(fs) :
            Len(frames') = Len(fs) - k /\ \A i \in 1 .. Len(frames') : frames'[i] = fs[i + k]
    BY <1>1, EvictLeavesSuffix
  <1>8. \A i \in 1 .. Len(frames') : i + k \in 1 .. Len(fs)
    BY <1>2, <1>3, <1>7
  <1>9. Increasing(frames')
    <2>1. Increasing(fs)
      BY <1>6 DEF Increasing
    <2>2. Len(fs) \in Nat
      BY <1>2, <1>3
    <2> QED
      BY <1>7, <2>1, <2>2, SuffixIncreasing
  <1> QED
    BY <1>1, <1>5, <1>7, <1>8, <1>9

(* buf.Enqueue keeps the queue in the order of the ids.                    *)
LEMMA NewFrameKeepsOrder ==
    ASSUME TypeOK, QueueOrder, NEW size \in Sizes, NewFrame(size),
           UNCHANGED <<inflight, lastSent>>, inflight # << >> => pc' = "write"
    PROVE  QueueOrder'
  <1>1. /\ enqueued' = enqueued + 1 /\ enqueued \in Nat /\ lastSent \in Nat
        /\ \A i \in 1 .. Len(inflight) : inflight[i].id \in Nat
        /\ \A i \in 1 .. Len(frames) : frames[i].id \in Nat
    BY NewFrameEvicts, FrameIds DEF TypeOK
  <1>2. /\ Increasing(frames')
        /\ \A j \in 1 .. Len(frames') :
              /\ frames'[j].id <= enqueued'
              /\ frames'[j].id = enqueued + 1
                 \/ \E i \in 1 .. Len(frames) : frames'[j] = frames[i]
    BY NewFrameOrder DEF QueueOrder
  <1>3. \A j \in 1 .. Len(frames') :
            /\ lastSent < frames'[j].id
            /\ \A i \in 1 .. Len(inflight) : inflight[i].id < frames'[j].id
    <2> SUFFICES ASSUME NEW j \in 1 .. Len(frames')
                 PROVE  /\ lastSent < frames'[j].id
                        /\ \A i \in 1 .. Len(inflight) : inflight[i].id < frames'[j].id
      OBVIOUS
    <2>1. CASE frames'[j].id = enqueued + 1
      BY <1>1, <2>1 DEF QueueOrder
    <2>2. ASSUME NEW i \in 1 .. Len(frames), frames'[j] = frames[i]
          PROVE  /\ lastSent < frames'[j].id
                 /\ \A m \in 1 .. Len(inflight) : inflight[m].id < frames'[j].id
      BY <2>2 DEF QueueOrder
    <2> QED
      BY <1>2, <2>1, <2>2
  <1>4. \A i \in 1 .. Len(inflight) : inflight[i].id <= enqueued'
    BY <1>1 DEF QueueOrder
  <1>5. Increasing(inflight') /\ lastSent <= enqueued'
    BY <1>1 DEF QueueOrder, Increasing
  <1> QED
    BY <1>2, <1>3, <1>4, <1>5 DEF QueueOrder

(* Every step keeps what is written, in flight and queued in that order.   *)
LEMMA OrderStep ==
    TypeOK /\ QueueOrder /\ [Next]_vars => QueueOrder'
  <1> SUFFICES ASSUME TypeOK, QueueOrder, [Next]_vars PROVE QueueOrder'
    OBVIOUS
  <1>a. /\ Len(frames) \in Nat /\ Len(inflight) \in Nat
        /\ lastSent \in Nat /\ enqueued \in Nat
        /\ \A i \in 1 .. Len(inflight) : inflight[i] \in Frame /\ inflight[i].id \in Nat
        /\ \A i \in 1 .. Len(frames) : frames[i] \in Frame /\ frames[i].id \in Nat
    BY FrameIds DEF TypeOK
  <1>b. ASSUME UNCHANGED <<frames, inflight, lastSent, enqueued>>,
               inflight # << >> => pc' = "write"
        PROVE  QueueOrder'
    BY <1>b DEF QueueOrder, Increasing
  <1>c. pc # "write" => inflight = << >>
    BY DEF QueueOrder
  <1> USE DEF bufVars, runVars, history, Goto
  <1>1. ASSUME NEW p \in Producers, NEW size \in Sizes, Enqueue(p, size) PROVE QueueOrder'
    <2>1. NewFrame(size) /\ UNCHANGED <<inflight, lastSent, pc>>
      BY <1>1 DEF Enqueue
    <2> QED
      BY <1>c, <2>1, NewFrameKeepsOrder
  <1>2. ASSUME NEW p \in Producers, Notify(p) PROVE QueueOrder'
    BY <1>2, <1>b, <1>c DEF Notify
  <1>3. CASE RunTop \/ Sleep \/ DialOk \/ BeginDrain \/ TakePending \/ WriteDrop
             \/ WriteDropFail \/ ClearPending \/ WriteDone \/ EndDrain \/ Select
    <2>1. pc # "write" \/ inflight = << >>
      BY <1>3 DEF RunTop, Sleep, DialOk, BeginDrain, TakePending, WriteDrop,
                  WriteDropFail, ClearPending, WriteDone, EndDrain, Select
    <2>2. UNCHANGED <<frames, inflight, lastSent, enqueued>>
      BY <1>3 DEF RunTop, Sleep, DialOk, BeginDrain, TakePending, TakeDrops, WriteDrop,
                  WriteDropFail, ClearPending, WriteDone, EndDrain, Select
    <2> QED
      BY <1>b, <1>c, <2>1, <2>2
  <1>4. CASE DialFail \/ ServeFail
    <2>1. LogWarning /\ UNCHANGED <<inflight, lastSent>> /\ inflight = << >>
      BY <1>4, <1>c DEF DialFail, ServeFail
    <2>2. CASE WarnLogged
      <3>1. WarnSize \in Sizes /\ NewFrame(WarnSize)
        BY <2>1, <2>2, ShipperAssumption DEF LogWarning
      <3> QED
        BY <2>1, <3>1, NewFrameKeepsOrder
    <2>3. CASE ~WarnLogged
      BY <1>b, <2>1, <2>3 DEF LogWarning
    <2> QED
      BY <2>2, <2>3
  <1>5. CASE DrainTake
    <2>1. /\ inflight' = frames /\ frames' = << >> /\ pc' = "write"
          /\ UNCHANGED <<lastSent, enqueued>>
      BY <1>5 DEF DrainTake, TakeAll
    <2>2. Len(frames') = 0
      BY <2>1
    <2> QED
      BY <1>a, <2>1, <2>2 DEF QueueOrder, Increasing
  <1>6. CASE WriteFrame
    <2>1. /\ inflight # << >> /\ lastSent' = Head(inflight).id /\ inflight' = Tail(inflight)
          /\ pc' = "write" /\ UNCHANGED <<frames, enqueued>>
      BY <1>6 DEF WriteFrame
    <2>2. /\ Len(inflight') = Len(inflight) - 1
          /\ \A i \in 1 .. Len(inflight') : inflight'[i] = inflight[i + 1]
      BY <2>1, HeadTailProperties DEF TypeOK
    <2>3. lastSent' = inflight[1].id /\ 1 \in 1 .. Len(inflight)
      BY <2>1, EmptySeq DEF TypeOK
    <2>4. Increasing(inflight')
      <3> SUFFICES ASSUME NEW i \in 1 .. Len(inflight'), NEW j \in 1 .. Len(inflight'), i < j
                   PROVE  inflight'[i].id < inflight'[j].id
        BY DEF Increasing
      <3>1. i + 1 \in 1 .. Len(inflight) /\ j + 1 \in 1 .. Len(inflight) /\ i + 1 < j + 1
        BY <1>a, <2>2
      <3>2. inflight[i + 1].id < inflight[j + 1].id
        BY <3>1 DEF QueueOrder, Increasing
      <3> QED
        BY <2>2, <3>2
    <2>5. \A i \in 1 .. Len(inflight') :
             /\ lastSent' < inflight'[i].id /\ inflight'[i].id <= enqueued'
             /\ \A j \in 1 .. Len(frames') : inflight'[i].id < frames'[j].id
      BY <1>a, <2>1, <2>2, <2>3 DEF QueueOrder, Increasing
    <2>6. /\ \A j \in 1 .. Len(frames') : lastSent' < frames'[j].id /\ frames'[j].id <= enqueued'
          /\ lastSent' <= enqueued'
      BY <1>a, <2>1, <2>3 DEF QueueOrder
    <2> QED
      BY <2>1, <2>4, <2>5, <2>6 DEF QueueOrder, Increasing
  <1>7. CASE WriteFrameFail
    <2> DEFINE fs == inflight \o frames
    <2>1. /\ fs \in Seq(Frame) /\ Len(fs) = Len(inflight) + Len(frames)
          /\ \A i \in 1 .. Len(fs) :
                fs[i] = IF i <= Len(inflight) THEN inflight[i] ELSE frames[i - Len(inflight)]
      BY ConcatProperties DEF TypeOK
    <2>2. /\ Evict(fs, bytes + Bytes(inflight)) /\ inflight' = << >>
          /\ UNCHANGED <<lastSent, enqueued>>
      BY <1>7 DEF WriteFrameFail, RequeueFront
    <2> HIDE DEF fs
    <2>3. PICK k \in 0 .. Len(fs) :
              Len(frames') = Len(fs) - k /\ \A i \in 1 .. Len(frames') : frames'[i] = fs[i + k]
      BY <2>1, <2>2, EvictLeavesSuffix
    <2>4. ASSUME NEW i \in 1 .. Len(fs), NEW j \in 1 .. Len(fs), i < j
          PROVE  fs[i].id < fs[j].id
      <3>1. CASE j <= Len(inflight)
        <4>1. i \in 1 .. Len(inflight) /\ j \in 1 .. Len(inflight)
          BY <1>a, <2>1, <2>4, <3>1
        <4> QED
          BY <2>1, <2>4, <4>1 DEF QueueOrder, Increasing
      <3>2. CASE Len(inflight) < j /\ i <= Len(inflight)
        <4> DEFINE n == j - Len(inflight)
        <4>1. i \in 1 .. Len(inflight) /\ n \in 1 .. Len(frames)
          BY <1>a, <2>1, <3>2
        <4>2. fs[i] = inflight[i] /\ fs[j] = frames[n]
          BY <1>a, <2>1, <3>2
        <4> HIDE DEF n
        <4>3. inflight[i].id < frames[n].id
          BY <4>1 DEF QueueOrder
        <4> QED
          BY <4>2, <4>3
      <3>3. CASE Len(inflight) < i
        <4> DEFINE m == i - Len(inflight)
                   n == j - Len(inflight)
        <4>1. m \in 1 .. Len(frames) /\ n \in 1 .. Len(frames) /\ m < n
          BY <1>a, <2>1, <2>4, <3>3
        <4>2. fs[i] = frames[m] /\ fs[j] = frames[n]
          BY <1>a, <2>1, <2>4, <3>3
        <4> HIDE DEF m, n
        <4> QED
          BY <4>1, <4>2 DEF QueueOrder, Increasing
      <3> QED
        BY <1>a, <2>1, <3>1, <3>2, <3>3
    <2>5. ASSUME NEW i \in 1 .. Len(fs) PROVE lastSent < fs[i].id /\ fs[i].id <= enqueued
      <3>1. CASE i <= Len(inflight)
        <4>1. i \in 1 .. Len(inflight) /\ fs[i] = inflight[i]
          BY <1>a, <2>1, <3>1
        <4> QED
          BY <4>1 DEF QueueOrder
      <3>2. CASE Len(inflight) < i
        <4> DEFINE m == i - Len(inflight)
        <4>1. m \in 1 .. Len(frames) /\ fs[i] = frames[m]
          BY <1>a, <2>1, <3>2
        <4> HIDE DEF m
        <4> QED
          BY <4>1 DEF QueueOrder
      <3> QED
        BY <1>a, <3>1, <3>2
    <2>6. \A i \in 1 .. Len(frames') : i + k \in 1 .. Len(fs)
      BY <1>a, <2>1, <2>3
    <2>7. Increasing(frames')
      <3>1. Increasing(fs)
        BY <2>4 DEF Increasing
      <3>2. Len(fs) \in Nat
        BY <1>a, <2>1
      <3> QED
        BY <2>3, <3>1, <3>2, SuffixIncreasing
    <2>8. \A j \in 1 .. Len(frames') : lastSent < frames'[j].id /\ frames'[j].id <= enqueued
      BY <2>3, <2>5, <2>6
    <2>9. Len(inflight') = 0
      BY <2>2
    <2> QED
      BY <2>2, <2>7, <2>8, <2>9 DEF QueueOrder, Increasing
  <1>8. CASE FlushCall \/ Flush \/ FlushDeadline
    <2>1. UNCHANGED <<frames, inflight, lastSent, enqueued, pc>>
      BY <1>8 DEF FlushCall, Flush, FlushNudge, IdleBusy, IdleLen, IdleDrops,
                  FlushPoll, FlushDeadline, FlushGoto
    <2> QED
      BY <1>b, <1>c, <2>1
  <1>9. CASE UNCHANGED vars
    BY <1>9, <1>b, <1>c DEF vars
  <1> QED
    BY <1>1, <1>2, <1>3, <1>4, <1>5, <1>6, <1>7, <1>8, <1>9
       DEF Next, Produce, Run

-----------------------------------------------------------------------------
(* The wake promise.                                                       *)

(* Every step keeps the promise that someone wakes the drain loop.         *)
LEMMA WakeStep ==
    TypeOK /\ QueueOrder /\ WakePromised /\ [Next]_vars => WakePromised'
  <1> SUFFICES ASSUME TypeOK, QueueOrder, WakePromised, [Next]_vars PROVE WakePromised'
    OBVIOUS
  <1> USE DEF WakePromised, bufVars, runVars, history, Goto
  <1>1. ASSUME NEW p \in Producers, NEW size \in Sizes, Enqueue(p, size) PROVE WakePromised'
    <2>1. ppc'[p] = "notify"
      BY <1>1 DEF Enqueue, TypeOK
    <2> QED
      BY <2>1
  <1>2. ASSUME NEW p \in Producers, Notify(p) PROVE WakePromised'
    BY <1>2 DEF Notify
  <1>3. CASE RunTop \/ Sleep \/ DialOk \/ DialFail \/ BeginDrain \/ WriteDropFail
             \/ WriteFrameFail \/ ServeFail \/ Select
    <2>1. pc' \in {"done", "sleep", "dial", "begin", "top", "take", "err"}
      BY <1>3 DEF RunTop, Sleep, DialOk, DialFail, BeginDrain, WriteDropFail,
                  WriteFrameFail, ServeFail, Select
    <2> QED
      BY <2>1
  <1>4. CASE TakePending
    BY <1>4 DEF TakePending, TakeDrops
  <1>5. CASE WriteDrop \/ ClearPending
    BY <1>5 DEF WriteDrop, ClearPending
  <1>6. CASE DrainTake
    BY <1>6 DEF DrainTake, TakeAll
  <1>7. CASE WriteFrame \/ WriteDone \/ EndDrain
    BY <1>7 DEF WriteFrame, WriteDone, EndDrain
  <1>8. CASE FlushCall \/ Flush \/ FlushDeadline
    BY <1>8 DEF FlushCall, Flush, FlushNudge, IdleBusy, IdleLen, IdleDrops,
                FlushPoll, FlushDeadline, FlushGoto
  <1>9. CASE UNCHANGED vars
    BY <1>9 DEF vars
  <1> QED
    BY <1>1, <1>2, <1>3, <1>4, <1>5, <1>6, <1>7, <1>8, <1>9
       DEF Next, Produce, Run

-----------------------------------------------------------------------------

(* The shipper starts in its invariant.                                    *)
LEMMA InitIInv == Init => IInv
  <1> SUFFICES ASSUME Init PROVE IInv
    OBVIOUS
  <1>1. TypeOK
    BY InitType
  <1>2. Len(frames) = 0 /\ Len(inflight) = 0
    BY DEF Init, NewRingBuffer
  <1>3. Accounting
    BY <1>2 DEF Init, NewRingBuffer, Accounting
  <1>4. QueueOrder
    BY <1>2 DEF Init, NewRingBuffer, QueueOrder, Increasing
  <1>5. WakePromised
    BY DEF Init, NewRingBuffer, WakePromised
  <1> QED
    BY <1>1, <1>3, <1>4, <1>5 DEF IInv

(* Spec => []IInv: the inductive invariant behind the theorems below       *)
(* (shipper.go and buffer.go as a whole).                                  *)
THEOREM IInvHolds == Spec => []IInv
  <1>1. IInv /\ [Next]_vars => IInv'
    BY TypeStep, AccountingStep, OrderStep, WakeStep DEF IInv
  <1> QED
    BY <1>1, InitIInv, PTL DEF Spec

(* No frame is lost without being counted and no loss is reported twice    *)
(* (buffer.go:103-112, shipper.go:180-203), for any number of faults.      *)
THEOREM AccountingHolds == Spec => []Accounting
  <1>1. IInv => Accounting
    BY DEF IInv
  <1> QED
    BY <1>1, IInvHolds, PTL

(* The drain loop never blocks on work nobody will wake it for             *)
(* (shipper.go:49-52, 96-109, 171-177), for any number of producers.       *)
THEOREM NoLostWakeHolds == Spec => []NoLostWake
  <1>1. IInv => NoLostWake
    <2> SUFFICES ASSUME IInv, pc = "select", frames # << >> \/ drops > 0
                 PROVE  wake \/ \E p \in Producers : ppc[p] = "notify"
      BY DEF NoLostWake
    <2>1. ~(frames = << >> /\ drops = 0)
      OBVIOUS
    <2> QED
      BY <2>1 DEF IInv, WakePromised
  <1> QED
    BY <1>1, IInvHolds, PTL

(* Frames are written in enqueue order and none twice, across any number   *)
(* of reconnects and requeues (buffer.go:66-101).                          *)
THEOREM InOrderHolds == Spec => InOrder
  <1>1. ASSUME IInv, [Next]_vars, delivered' # delivered PROVE lastSent' > lastSent
    <2>1. WriteFrame
      BY <1>1 DEF Next, Produce, Run, Enqueue, Notify, RunTop, Sleep, DialOk, DialFail,
                  BeginDrain, TakePending, WriteDrop, WriteDropFail, ClearPending,
                  DrainTake, WriteFrameFail, WriteDone, EndDrain, ServeFail, Select,
                  FlushCall, Flush, FlushNudge, IdleBusy, IdleLen, IdleDrops,
                  FlushPoll, FlushDeadline, FlushGoto, vars, history
    <2>2. lastSent' = inflight[1].id /\ 1 \in 1 .. Len(inflight)
      BY <1>1, <2>1, EmptySeq DEF WriteFrame, IInv, TypeOK
    <2>3. lastSent < inflight[1].id
      BY <1>1, <2>2 DEF IInv, QueueOrder
    <2>4. lastSent \in Nat /\ inflight[1].id \in Nat
      BY <1>1, <2>2, FrameIds DEF IInv, TypeOK
    <2> QED
      BY <2>2, <2>3, <2>4
  <1>2. IInv /\ [Next]_vars => [delivered' # delivered => lastSent' > lastSent]_vars
    BY <1>1
  <1> QED
    BY <1>2, IInvHolds, PTL DEF Spec, InOrder

-----------------------------------------------------------------------------
(* BufferInv.  What a loop over the frames adds up is shown by induction   *)
(* on the number of rounds.                                                *)

(* Induction over a set of numbers, from the library's theorem that the    *)
(* inclusion of finite sets is well founded: a smallest number outside the *)
(* set would follow one inside.                                            *)
LEMMA Induction ==
    ASSUME NEW S, S \subseteq Nat, 0 \in S, \A n \in S : n + 1 \in S
    PROVE  S = Nat
  <1> SUFFICES ASSUME Nat \ S # {} PROVE FALSE
    OBVIOUS
  <1> DEFINE R == StrictSubsetOrdering(Nat)
             U == {1 .. n : n \in Nat \ S}
  <1>1. \A n \in Nat : 1 .. n \in FiniteSubsetsOf(Nat)
    BY FS_Interval DEF FiniteSubsetsOf
  <1>2. U \subseteq FiniteSubsetsOf(Nat) /\ U # {}
    BY <1>1
  <1>3. PICK s \in U : \A u \in U : ~(<<u, s>> \in R)
    <2> HIDE DEF U
    <2>1. IsWellFoundedOn(R, FiniteSubsetsOf(Nat))
      BY FS_StrictSubsetOrderingWellFounded
    <2> HIDE DEF R
    <2> QED
      BY <1>2, <2>1, WFMin, Zenon
  <1>4. PICK n \in Nat \ S : s = 1 .. n
    BY <1>3
  <1>5. n \in Nat /\ n > 0 /\ n - 1 \in Nat /\ n - 1 \notin S
    <2>1. n \in Nat /\ n # 0
      BY <1>4
    <2>2. n - 1 \in Nat /\ (n - 1) + 1 = n
      BY <2>1
    <2> QED
      BY <1>4, <2>1, <2>2
  <1>6. /\ 1 .. n - 1 \in SUBSET Nat /\ 1 .. n \in SUBSET Nat
        /\ 1 .. n - 1 \subseteq 1 .. n /\ n \in 1 .. n /\ n \notin 1 .. n - 1
    BY <1>5
  <1>7. <<1 .. n - 1, 1 .. n>> \in R
    BY <1>6 DEF StrictSubsetOrdering
  <1> QED
    BY <1>3, <1>4, <1>5, <1>7

(* The running totals of the lengths of frames.                            *)
Totals(g, fs) ==
    /\ g \in [0 .. Len(fs) -> Nat]
    /\ g[0] = 0
    /\ \A i \in 1 .. Len(fs) : g[i] = g[i - 1] + fs[i].size

(* The lengths of frames are numbers.                                      *)
LEMMA FrameSizes ==
    ASSUME NEW fs \in Seq(Frame)
    PROVE  Len(fs) \in Nat /\ \A i \in 1 .. Len(fs) : fs[i].size \in Nat
  <1>1. Len(fs) \in Nat
    OBVIOUS
  <1>2. ASSUME NEW i \in 1 .. Len(fs) PROVE fs[i].size \in Nat
    <2>1. fs[i] \in Frame
      BY ElementOfSeq
    <2> QED
      BY <2>1, SizesAssumption DEF Frame
  <1> QED
    BY <1>1, <1>2

(* There are such totals.                                                  *)
LEMMA HasTotals ==
    ASSUME NEW fs \in Seq(Frame)
    PROVE  \E g : Totals(g, fs)
  <1> DEFINE To(g, n) == /\ g \in [0 .. n -> Nat]
                         /\ g[0] = 0
                         /\ \A i \in 1 .. n : g[i] = g[i - 1] + fs[i].size
             S == {n \in Nat : n <= Len(fs) => \E g : To(g, n)}
  <1>1. Len(fs) \in Nat /\ \A i \in 1 .. Len(fs) : fs[i].size \in Nat
    BY FrameSizes
  <1>2. 0 \in S
    <2>1. To([i \in 0 .. 0 |-> 0], 0)
      OBVIOUS
    <2> QED
      BY <2>1
  <1>3. ASSUME NEW n \in S PROVE n + 1 \in S
    <2> HIDE DEF To
    <2> SUFFICES ASSUME n + 1 <= Len(fs) PROVE \E g : To(g, n + 1)
      OBVIOUS
    <2>1. n \in Nat /\ n <= Len(fs)
      BY <1>1
    <2> USE DEF To
    <2>2. PICK g : To(g, n)
      BY <2>1
    <2> DEFINE h == [i \in 0 .. n + 1 |-> IF i = n + 1 THEN g[n] + fs[n + 1].size ELSE g[i]]
    <2>3. fs[n + 1].size \in Nat /\ g[n] \in Nat
      BY <1>1, <2>1, <2>2
    <2>4. \A i \in 0 .. n : i \in 0 .. n + 1 /\ i # n + 1 /\ h[i] = g[i]
      BY <2>1
    <2>5. h[n + 1] = g[n] + fs[n + 1].size
      BY <2>1
    <2>6. h \in [0 .. n + 1 -> Nat]
      <3>1. \A i \in 0 .. n + 1 : i # n + 1 => i \in 0 .. n
        BY <2>1
      <3> QED
        BY <2>2, <2>3, <3>1
    <2> HIDE DEF h
    <2>7. ASSUME NEW i \in 1 .. n + 1 PROVE h[i] = h[i - 1] + fs[i].size
      <3>1. CASE i = n + 1
        <4>1. i - 1 = n /\ n \in 0 .. n
          BY <2>1, <3>1
        <4> QED
          BY <2>4, <2>5, <3>1, <4>1
      <3>2. CASE i # n + 1
        <4>1. i \in 1 .. n /\ i \in 0 .. n /\ i - 1 \in 0 .. n
          BY <2>1, <3>2
        <4> QED
          BY <2>2, <2>4, <4>1
      <3> QED
        BY <3>1, <3>2
    <2>8. h[0] = 0
      BY <2>1, <2>2, <2>4
    <2> QED
      BY <2>6, <2>7, <2>8
  <1> HIDE DEF S
  <1>4. S = Nat
    <2>1. S \subseteq Nat
      BY DEF S
    <2> QED
      BY <1>2, <1>3, <2>1, Induction, Zenon
  <1>5. \E g : To(g, Len(fs))
    BY <1>1, <1>4 DEF S
  <1> QED
    BY <1>5 DEF Totals

(* Bytes is the last of them.                                              *)
LEMMA BytesTotal ==
    ASSUME NEW fs \in Seq(Frame), NEW g, Totals(g, fs)
    PROVE  Bytes(fs) = g[Len(fs)]
  <1> DEFINE Loop(f) == f = [i \in 0 .. Len(fs) |-> IF i = 0 THEN 0 ELSE f[i - 1] + fs[i].size]
             t == CHOOSE f : Loop(f)
  <1>1. Len(fs) \in Nat
    OBVIOUS
  <1>2. Loop(g)
    <2> DEFINE h == [i \in 0 .. Len(fs) |-> IF i = 0 THEN 0 ELSE g[i - 1] + fs[i].size]
    <2>1. ASSUME NEW i \in 0 .. Len(fs) PROVE g[i] = h[i]
      <3>1. i = 0 \/ i \in 1 .. Len(fs)
        BY <1>1
      <3> QED
        BY <3>1 DEF Totals
    <2>2. g = [i \in 0 .. Len(fs) |-> g[i]] /\ h = [i \in 0 .. Len(fs) |-> h[i]]
      BY DEF Totals
    <2>3. g = h
      BY <2>1, <2>2, Zenon
    <2> QED
      BY <2>3
  <1>3. Loop(t)
    <2> HIDE DEF Loop
    <2> QED
      BY <1>2, Zenon
  <1>4. Bytes(fs) = t[Len(fs)]
    BY Zenon DEF Bytes
  <1> DEFINE S == {n \in Nat : n <= Len(fs) => t[n] = g[n]}
  <1>5. \A i \in 0 .. Len(fs) : t[i] = IF i = 0 THEN 0 ELSE t[i - 1] + fs[i].size
    <2> HIDE DEF t
    <2> QED
      BY <1>3
  <1> HIDE DEF t
  <1>6. 0 \in S
    BY <1>1, <1>5 DEF Totals
  <1>7. ASSUME NEW n \in S PROVE n + 1 \in S
    <2> SUFFICES ASSUME n + 1 <= Len(fs) PROVE t[n + 1] = g[n + 1]
      OBVIOUS
    <2>1. n \in Nat /\ n <= Len(fs) /\ (n + 1) - 1 = n /\ n + 1 # 0
      BY <1>1
    <2>2. n + 1 \in 0 .. Len(fs) /\ n + 1 \in 1 .. Len(fs)
      BY <1>1, <2>1
    <2>3. t[n + 1] = t[n] + fs[n + 1].size
      BY <1>5, <2>1, <2>2
    <2>4. g[n + 1] = g[n] + fs[n + 1].size
      BY <2>1, <2>2 DEF Totals
    <2> QED
      BY <2>1, <2>3, <2>4
  <1>8. S = Nat
    <2>1. S \subseteq Nat
      OBVIOUS
    <2> HIDE DEF S
    <2> QED
      BY <1>6, <1>7, <2>1, Induction, Zenon
  <1> QED
    BY <1>1, <1>4, <1>8

(* Bytes of a sequence is a number, nothing for no frame, and a frame's    *)
(* length for one.                                                         *)
LEMMA BytesBase ==
    /\ \A fs \in Seq(Frame) : Bytes(fs) \in Nat
    /\ Bytes(<< >>) = 0
    /\ \A f \in Frame : Bytes(<<f>>) = f.size
  <1>1. ASSUME NEW fs \in Seq(Frame) PROVE Bytes(fs) \in Nat
    <2>1. PICK g : Totals(g, fs)
      BY HasTotals
    <2>2. Bytes(fs) = g[Len(fs)] /\ Len(fs) \in 0 .. Len(fs)
      BY <2>1, BytesTotal, FrameSizes
    <2> QED
      BY <2>1, <2>2 DEF Totals
  <1>2. Bytes(<< >>) = 0
    <2>1. << >> \in Seq(Frame) /\ Len(<< >>) = 0
      OBVIOUS
    <2>2. PICK g : Totals(g, << >>)
      BY <2>1, HasTotals
    <2>3. Bytes(<< >>) = g[0]
      BY <2>1, <2>2, BytesTotal
    <2> QED
      BY <2>2, <2>3 DEF Totals
  <1>3. ASSUME NEW f \in Frame PROVE Bytes(<<f>>) = f.size
    <2>1. <<f>> \in Seq(Frame) /\ Len(<<f>>) = 1 /\ <<f>>[1] = f
      OBVIOUS
    <2>2. PICK g : Totals(g, <<f>>)
      BY <2>1, HasTotals
    <2>3. Bytes(<<f>>) = g[1]
      BY <2>1, <2>2, BytesTotal
    <2>4. g[0] = 0 /\ g[1] = g[1 - 1] + f.size
      BY <2>1, <2>2 DEF Totals
    <2>5. f.size \in Sizes /\ 1 - 1 = 0
      BY DEF Frame
    <2>6. f.size \in Nat
      BY <2>5, SizesAssumption
    <2> QED
      BY <2>3, <2>4, <2>5, <2>6
  <1> QED
    BY <1>1, <1>2, <1>3

(* The bytes of two queues, one behind the other, add up.                  *)
LEMMA BytesConcat ==
    ASSUME NEW a \in Seq(Frame), NEW b \in Seq(Frame)
    PROVE  Bytes(a \o b) = Bytes(a) + Bytes(b)
  <1> DEFINE c == a \o b
             m == Len(a)
             n == Len(b)
  <1>1. /\ m \in Nat /\ n \in Nat /\ c \in Seq(Frame) /\ Len(c) = m + n
        /\ \A i \in 1 .. m + n : c[i] = IF i <= m THEN a[i] ELSE b[i - m]
    BY ConcatProperties
  <1>2. PICK ga : Totals(ga, a)
    BY HasTotals
  <1>3. PICK gb : Totals(gb, b)
    BY HasTotals
  <1> DEFINE g == [i \in 0 .. m + n |-> IF i <= m THEN ga[i] ELSE ga[m] + gb[i - m]]
  <1>4. Bytes(a) = ga[m] /\ Bytes(b) = gb[n]
    BY <1>2, <1>3, BytesTotal
  <1>5. /\ \A i \in 0 .. m : ga[i] \in Nat
        /\ \A i \in 1 .. m : ga[i] = ga[i - 1] + a[i].size
        /\ ga[0] = 0
    BY <1>2 DEF Totals
  <1>6. /\ \A i \in 0 .. n : gb[i] \in Nat
        /\ \A i \in 1 .. n : gb[i] = gb[i - 1] + b[i].size
        /\ gb[0] = 0
    BY <1>3 DEF Totals
  <1>7. \A i \in 1 .. n : b[i].size \in Nat
    BY FrameSizes
  <1> HIDE DEF c, m, n
  <1>8. \A i \in 0 .. m + n : g[i] = IF i <= m THEN ga[i] ELSE ga[m] + gb[i - m]
    OBVIOUS
  <1>9. ASSUME NEW i \in 0 .. m + n PROVE g[i] \in Nat
    <2>1. CASE i <= m
      BY <1>1, <1>5, <1>8, <2>1
    <2>2. CASE m < i
      <3>1. i - m \in 0 .. n /\ m \in 0 .. m /\ ~(i <= m)
        BY <1>1, <2>2
      <3>2. ga[m] \in Nat /\ gb[i - m] \in Nat /\ g[i] = ga[m] + gb[i - m]
        BY <1>5, <1>6, <1>8, <3>1
      <3> QED
        BY <3>2
    <2>3. i <= m \/ m < i
      BY <1>1
    <2> QED
      BY <2>1, <2>2, <2>3
  <1>10. g \in [0 .. m + n -> Nat]
    BY <1>9
  <1>11. g[0] = 0
    BY <1>1, <1>5, <1>8
  <1> HIDE DEF g
  <1>12. ASSUME NEW i \in 1 .. m + n PROVE g[i] = g[i - 1] + c[i].size
    <2>1. i \in 0 .. m + n /\ i - 1 \in 0 .. m + n
      BY <1>1
    <2>2. CASE i <= m
      <3>1. i \in 1 .. m /\ i - 1 <= m
        BY <1>1, <2>2
      <3>2. g[i] = ga[i] /\ g[i - 1] = ga[i - 1] /\ c[i] = a[i]
        BY <1>1, <1>8, <2>1, <2>2, <3>1
      <3> QED
        BY <1>5, <3>1, <3>2
    <2>3. CASE i = m + 1
      <3>1. 1 \in 1 .. n /\ ~(i <= m) /\ i - m = 1 /\ i - 1 = m /\ m <= m /\ 1 - 1 = 0
            /\ m \in 0 .. m
        BY <1>1, <2>3
      <3>2. g[i] = ga[m] + gb[1] /\ g[i - 1] = ga[m] /\ c[i] = b[1]
        BY <1>1, <1>8, <2>1, <3>1
      <3>3. gb[1] = 0 + b[1].size /\ b[1].size \in Nat
        BY <1>6, <1>7, <3>1
      <3> QED
        BY <3>2, <3>3
    <2>4. CASE i > m + 1
      <3>1. /\ i - m \in 1 .. n /\ i - m - 1 \in 0 .. n /\ ~(i <= m) /\ ~(i - 1 <= m)
            /\ (i - 1) - m = i - m - 1 /\ m \in 0 .. m
        BY <1>1, <2>4
      <3>2. g[i] = ga[m] + gb[i - m] /\ g[i - 1] = ga[m] + gb[i - m - 1] /\ c[i] = b[i - m]
        BY <1>1, <1>8, <2>1, <3>1
      <3>3. gb[i - m] = gb[i - m - 1] + b[i - m].size
        BY <1>6, <3>1
      <3>4. ga[m] \in Nat /\ gb[i - m - 1] \in Nat /\ b[i - m].size \in Nat
        BY <1>5, <1>6, <1>7, <3>1
      <3> QED
        BY <3>2, <3>3, <3>4
    <2>5. i <= m \/ i = m + 1 \/ i > m + 1
      BY <1>1
    <2> QED
      BY <2>2, <2>3, <2>4, <2>5
  <1>13. Totals(g, c)
    BY <1>1, <1>10, <1>11, <1>12 DEF Totals
  <1>14. Bytes(c) = g[m + n]
    BY <1>1, <1>13, BytesTotal
  <1>15. g[m + n] = ga[m] + gb[n]
    <2>1. CASE n = 0
      <3>1. m + n = m /\ m \in 0 .. m + n /\ m <= m /\ m \in 0 .. m
        BY <1>1, <2>1
      <3>2. g[m + n] = ga[m] /\ ga[m] \in Nat /\ gb[n] = 0
        BY <1>5, <1>6, <1>8, <2>1, <3>1
      <3> QED
        BY <3>2
    <2>2. CASE n > 0
      <3>1. m + n \in 0 .. m + n /\ ~(m + n <= m) /\ (m + n) - m = n
        BY <1>1, <2>2
      <3> QED
        BY <1>8, <3>1
    <2> QED
      BY <1>1, <2>1, <2>2
  <1> QED
    BY <1>4, <1>14, <1>15 DEF c

(* What evict's subtractions leave counts what evict leaves.               *)
LEMMA BytesSuffix ==
    ASSUME NEW fs \in Seq(Frame), NEW k \in 0 .. Len(fs)
    PROVE  /\ SubSeq(fs, 1, k) \in Seq(Frame) /\ SubSeq(fs, k + 1, Len(fs)) \in Seq(Frame)
           /\ Len(SubSeq(fs, k + 1, Len(fs))) = Len(fs) - k
           /\ Bytes(SubSeq(fs, k + 1, Len(fs))) = Bytes(fs) - Bytes(SubSeq(fs, 1, k))
  <1> DEFINE a == SubSeq(fs, 1, k)
             b == SubSeq(fs, k + 1, Len(fs))
             n == Len(fs)
  <1>1. n \in Nat /\ k \in Nat /\ k <= n
    OBVIOUS
  <1>2. /\ a \in Seq(Frame) /\ Len(a) = k
        /\ \A i \in 1 .. k : a[i] = fs[i]
    <2>1. \A i \in 1 .. k : fs[i] \in Frame
      BY <1>1, ElementOfSeq
    <2>2. /\ a \in Seq(Frame)
          /\ Len(a) = IF 1 <= k THEN k - 1 + 1 ELSE 0
          /\ \A i \in 1 .. k - 1 + 1 : a[i] = fs[1 + i - 1]
      BY <1>1, <2>1, SubSeqProperties
    <2>3. /\ k - 1 + 1 = k /\ \A i \in 1 .. k : 1 + i - 1 = i
      BY <1>1
    <2> HIDE DEF a
    <2> QED
      BY <1>1, <2>2, <2>3
  <1>3. /\ b \in Seq(Frame) /\ Len(b) = n - k
        /\ \A i \in 1 .. n - k : b[i] = fs[k + i]
    <2>1. \A i \in k + 1 .. n : fs[i] \in Frame
      BY <1>1, ElementOfSeq
    <2>2. /\ b \in Seq(Frame)
          /\ Len(b) = IF k + 1 <= n THEN n - (k + 1) + 1 ELSE 0
          /\ \A i \in 1 .. n - (k + 1) + 1 : b[i] = fs[k + 1 + i - 1]
      BY <1>1, <2>1, SubSeqProperties
    <2>3. /\ n - (k + 1) + 1 = n - k
          /\ \A i \in 1 .. n - k : k + 1 + i - 1 = k + i
      BY <1>1
    <2> HIDE DEF b, n
    <2> QED
      BY <1>1, <2>2, <2>3
  <1> HIDE DEF a, b
  <1>4. a \o b = fs
    <2>1. /\ a \o b \in Seq(Frame) /\ Len(a \o b) = Len(a) + Len(b)
          /\ \A i \in 1 .. Len(a) + Len(b) :
                 (a \o b)[i] = IF i <= Len(a) THEN a[i] ELSE b[i - Len(a)]
      BY <1>2, <1>3, ConcatProperties
    <2>2. Len(a) + Len(b) = n
      BY <1>1, <1>2, <1>3
    <2>3. ASSUME NEW i \in 1 .. n PROVE (a \o b)[i] = fs[i]
      <3>1. CASE i <= k
        BY <1>1, <1>2, <2>1, <2>2, <3>1
      <3>2. CASE k < i
        <4>1. i - k \in 1 .. n - k /\ k + (i - k) = i /\ ~(i <= k)
          BY <1>1, <3>2
        <4>2. (a \o b)[i] = b[i - k]
          BY <1>2, <2>1, <2>2, <4>1
        <4> QED
          BY <1>3, <4>1, <4>2
      <3>3. i <= k \/ k < i
        BY <1>1
      <3> QED
        BY <3>1, <3>2, <3>3
    <2> QED
      BY <2>1, <2>2, <2>3, SeqEqual
  <1>5. Bytes(fs) = Bytes(a) + Bytes(b)
    BY <1>2, <1>3, <1>4, BytesConcat
  <1>6. Bytes(fs) \in Nat /\ Bytes(a) \in Nat /\ Bytes(b) \in Nat
    BY <1>2, <1>3, BytesBase
  <1>7. Bytes(b) = Bytes(fs) - Bytes(a)
    BY <1>5, <1>6
  <1> QED
    BY <1>2, <1>3, <1>7 DEF a, b, n

(* evict (buffer.go:44-52), given the right count, leaves the right count  *)
(* and a queue within both budgets.                                        *)
LEMMA EvictCounts ==
    ASSUME NEW fs \in Seq(Frame), NEW b, b = Bytes(fs), Evict(fs, b)
    PROVE  (ByteCountExact /\ WithinBudget)'
  <1>1. PICK k \in 0 .. Len(fs) :
            /\ EvictsExactly(fs, b, k)
            /\ frames' = SubSeq(fs, k + 1, Len(fs))
            /\ bytes' = b - Bytes(SubSeq(fs, 1, k))
    BY DEF Evict
  <1>2. /\ frames' \in Seq(Frame) /\ Len(frames') = Len(fs) - k
        /\ Bytes(frames') = b - Bytes(SubSeq(fs, 1, k))
    BY <1>1, BytesSuffix
  <1>3. Bytes(frames)' = Bytes(frames')
    BY DEF Bytes
  <1>4. Len(frames') \in Nat /\ Bytes(frames') \in Nat /\ Len(fs) \in Nat
    BY <1>2, BytesBase, LenProperties
  <1>5. CASE k = Len(fs)
    <2>1. Len(frames') = 0
      BY <1>2, <1>4, <1>5
    <2>2. frames' = << >>
      BY <1>2, <2>1, EmptySeq
    <2>3. Bytes(frames') = 0
      BY <2>2, BytesBase
    <2> QED
      BY <1>1, <1>2, <1>3, <2>1, <2>3, BudgetAssumption DEF WithinBudget, ByteCountExact
  <1>6. CASE ~OverBudget(Len(fs) - k, b - Bytes(SubSeq(fs, 1, k)))
    <2>1. ~OverBudget(Len(frames'), Bytes(frames'))
      BY <1>2, <1>6
    <2> QED
      BY <1>1, <1>2, <1>3, <1>4, <2>1, BudgetAssumption
         DEF OverBudget, WithinBudget, ByteCountExact
  <1> QED
    BY <1>1, <1>5, <1>6 DEF EvictsExactly

(* Enqueue (buffer.go:32-38) evicts with the right count.                  *)
LEMMA NewFrameCounts ==
    ASSUME TypeOK, ByteCountExact, NEW size \in Sizes, NewFrame(size)
    PROVE  (ByteCountExact /\ WithinBudget)'
  <1> DEFINE f == [id |-> enqueued + 1, size |-> size]
  <1>1. f \in Frame /\ Append(frames, f) \in Seq(Frame) /\ Evict(Append(frames, f), bytes + f.size)
    BY NewFrameEvicts
  <1>2. frames \in Seq(Frame)
    BY DEF TypeOK
  <1> HIDE DEF f
  <1>3. Append(frames, f) = frames \o <<f>> /\ <<f>> \in Seq(Frame)
    BY <1>1, <1>2, AppendIsConcat
  <1>4. Bytes(Append(frames, f)) = bytes + f.size
    BY <1>1, <1>2, <1>3, BytesConcat, BytesBase DEF ByteCountExact
  <1> QED
    BY <1>1, <1>4, EvictCounts

(* So does a warning of the shipper itself (shipper.go:124, 168).          *)
LEMMA WarningCounts ==
    ASSUME TypeOK, ByteCountExact, WithinBudget, LogWarning
    PROVE  (ByteCountExact /\ WithinBudget)'
  <1>1. CASE WarnLogged
    <2>1. WarnSize \in Sizes /\ NewFrame(WarnSize)
      BY <1>1, ShipperAssumption DEF LogWarning
    <2> QED
      BY <2>1, NewFrameCounts
  <1>2. CASE ~WarnLogged
    BY <1>2 DEF LogWarning, bufVars, ByteCountExact, WithinBudget
  <1> QED
    BY <1>1, <1>2

(* Every step keeps the count and both budgets; what a drain had taken is  *)
(* counted again when it is put back (buffer.go:88-101).                   *)
LEMMA BufferStep ==
    ASSUME TypeOK, ByteCountExact, WithinBudget, [Next]_vars
    PROVE  (ByteCountExact /\ WithinBudget)'
  <1>1. CASE UNCHANGED <<frames, bytes>>
    BY <1>1 DEF ByteCountExact, WithinBudget
  <1>2. ASSUME NEW p \in Producers, NEW size \in Sizes, Enqueue(p, size)
        PROVE  (ByteCountExact /\ WithinBudget)'
    BY <1>2, NewFrameCounts DEF Enqueue
  <1>3. CASE DialFail \/ ServeFail
    BY <1>3, WarningCounts DEF DialFail, ServeFail
  <1>4. CASE DrainTake
    <2>1. frames' = << >> /\ bytes' = 0
      BY <1>4 DEF DrainTake, TakeAll
    <2>2. Bytes(frames)' = Bytes(frames')
      BY DEF Bytes
    <2> QED
      BY <2>1, <2>2, BytesBase, BudgetAssumption DEF ByteCountExact, WithinBudget
  <1>5. CASE WriteFrameFail
    <2>1. Evict(inflight \o frames, bytes + Bytes(inflight))
      BY <1>5 DEF WriteFrameFail, RequeueFront
    <2>2. inflight \in Seq(Frame) /\ frames \in Seq(Frame)
      BY DEF TypeOK
    <2>3. inflight \o frames \in Seq(Frame)
      BY <2>2, ConcatProperties
    <2>4. Bytes(inflight \o frames) = bytes + Bytes(inflight)
      BY <2>2, BytesConcat, BytesBase DEF ByteCountExact
    <2> QED
      BY <2>1, <2>3, <2>4, EvictCounts
  <1>6. ASSUME \/ \E p \in Producers : Notify(p)
               \/ RunTop \/ Sleep \/ DialOk \/ BeginDrain \/ TakePending
               \/ WriteDrop \/ WriteDropFail \/ ClearPending
               \/ WriteFrame \/ WriteDone \/ EndDrain \/ Select
               \/ FlushCall \/ Flush \/ FlushDeadline \/ UNCHANGED vars
        PROVE  UNCHANGED <<frames, bytes>>
    BY <1>6 DEF Notify, RunTop, Sleep, DialOk, BeginDrain, TakePending, WriteDrop, WriteDropFail,
                ClearPending, WriteFrame, WriteDone, EndDrain, Select, FlushCall, Flush,
                FlushNudge, IdleBusy, IdleLen, IdleDrops, FlushPoll, FlushDeadline, FlushGoto,
                TakeDrops, bufVars, vars
  <1> QED
    BY <1>1, <1>2, <1>3, <1>4, <1>5, <1>6 DEF Next, Produce, Run

(* Spec => []BufferInv: for any budgets, frame sizes, producers and        *)
(* faults, the queue fits the record and the byte budget and the byte      *)
(* total is the sum of the queued lengths (buffer.go:30-101).              *)
THEOREM BufferInvHolds == Spec => []BufferInv
  <1>1. Init => BufferInv
    <2> SUFFICES ASSUME Init PROVE BufferInv
      OBVIOUS
    <2>1. TypeOK
      BY InitType
    <2>2. frames = << >> /\ bytes = 0
      BY DEF Init, NewRingBuffer
    <2> QED
      BY <2>1, <2>2, BytesBase, BudgetAssumption DEF BufferInv, ByteCountExact, WithinBudget
  <1>2. BufferInv /\ [Next]_vars => BufferInv'
    BY TypeStep, BufferStep DEF BufferInv
  <1> QED
    BY <1>1, <1>2, PTL DEF Spec

-----------------------------------------------------------------------------
(* The refinement of LossyLog.                                             *)

(* The ids of a queue of frames.                                           *)
LEMMA IdsOfFrames ==
    ASSUME NEW fs \in Seq(Frame)
    PROVE  /\ Ids(fs) \in Seq(Nat) /\ Len(Ids(fs)) = Len(fs) /\ Len(fs) \in Nat
           /\ \A i \in 1 .. Len(fs) : Ids(fs)[i] = fs[i].id
  <1>1. Len(fs) \in Nat /\ DOMAIN fs = 1 .. Len(fs)
    BY LenProperties
  <1>2. \A i \in 1 .. Len(fs) : fs[i].id \in Nat
    BY FrameIds
  <1>3. Ids(fs) \in [1 .. Len(fs) -> Nat] /\ \A i \in 1 .. Len(fs) : Ids(fs)[i] = fs[i].id
    BY <1>1, <1>2 DEF Ids
  <1>4. Ids(fs) \in Seq(Nat)
    BY <1>1, <1>3, SeqDef
  <1>5. Len(Ids(fs)) \in Nat /\ DOMAIN Ids(fs) = 1 .. Len(Ids(fs)) /\ DOMAIN Ids(fs) = 1 .. Len(fs)
    BY <1>3, <1>4, LenProperties
  <1>6. Len(Ids(fs)) = Len(fs)
    <2> DEFINE m == Len(Ids(fs))
               n == Len(fs)
    <2>1. m \in Nat /\ n \in Nat /\ 1 .. m = 1 .. n
      BY <1>1, <1>5
    <2> HIDE DEF m, n
    <2>2. m <= n
      <3>1. m \in 1 .. m => m \in 1 .. n
        BY <2>1
      <3> QED
        BY <2>1, <3>1
    <2>3. n <= m
      <3>1. n \in 1 .. n => n \in 1 .. m
        BY <2>1
      <3> QED
        BY <2>1, <3>1
    <2>4. m = n
      BY <2>1, <2>2, <2>3
    <2> QED
      BY <2>4 DEF m, n
  <1> QED
    BY <1>1, <1>3, <1>4, <1>6

(* The ids of two queues in a row.                                         *)
LEMMA IdsOfConcat ==
    ASSUME NEW fs \in Seq(Frame), NEW gs \in Seq(Frame)
    PROVE  /\ Ids(fs \o gs) \in Seq(Nat) /\ Len(Ids(fs \o gs)) = Len(fs) + Len(gs)
           /\ Len(fs) \in Nat /\ Len(gs) \in Nat
           /\ \A i \in 1 .. Len(fs) + Len(gs) :
                 Ids(fs \o gs)[i] = IF i <= Len(fs) THEN fs[i].id ELSE gs[i - Len(fs)].id
  <1>1. /\ fs \o gs \in Seq(Frame) /\ Len(fs \o gs) = Len(fs) + Len(gs)
        /\ \A i \in 1 .. Len(fs) + Len(gs) :
              (fs \o gs)[i] = IF i <= Len(fs) THEN fs[i] ELSE gs[i - Len(fs)]
    BY ConcatProperties
  <1>2. Len(fs) \in Nat /\ Len(gs) \in Nat
    BY LenProperties
  <1>3. /\ Ids(fs \o gs) \in Seq(Nat) /\ Len(Ids(fs \o gs)) = Len(fs) + Len(gs)
        /\ \A i \in 1 .. Len(fs) + Len(gs) : Ids(fs \o gs)[i] = (fs \o gs)[i].id
    BY <1>1, IdsOfFrames
  <1> QED
    BY <1>1, <1>2, <1>3

(* gs is fs without its first k frames.                                    *)
DropsFirst(fs, gs, k) ==
    Len(gs) = Len(fs) - k /\ \A x \in 1 .. Len(gs) : gs[x] = fs[x + k]

(* When k frames are dropped from the head of the second queue, the ids    *)
(* lose the stretch between the first queue and what is left of it.        *)
LEMMA IdsWithoutStretch ==
    ASSUME NEW hs \in Seq(Frame), NEW fs \in Seq(Frame), NEW gs \in Seq(Frame),
           NEW k \in 0 .. Len(fs), DropsFirst(fs, gs, k)
    PROVE  Ids(hs \o gs) = SubSeq(Ids(hs \o fs), 1, Len(hs))
                              \o SubSeq(Ids(hs \o fs), Len(hs) + 1 + k, Len(Ids(hs \o fs)))
  <1> DEFINE q == Ids(hs \o fs)
             i == Len(hs) + 1
             a == SubSeq(q, 1, Len(hs))
             b == SubSeq(q, i + k, Len(q))
             r == Ids(hs \o gs)
  <1>0. Len(gs) = Len(fs) - k
    BY DEF DropsFirst
  <1>1. /\ q \in Seq(Nat) /\ Len(q) = Len(hs) + Len(fs) /\ Len(hs) \in Nat /\ Len(fs) \in Nat
        /\ \A x \in 1 .. Len(hs) + Len(fs) :
              q[x] = IF x <= Len(hs) THEN hs[x].id ELSE fs[x - Len(hs)].id
    BY IdsOfConcat
  <1>2. /\ r \in Seq(Nat) /\ Len(r) = Len(hs) + Len(gs) /\ Len(gs) \in Nat
        /\ \A x \in 1 .. Len(hs) + Len(gs) :
              r[x] = IF x <= Len(hs) THEN hs[x].id ELSE gs[x - Len(hs)].id
    BY IdsOfConcat
  <1>3. \A x \in 1 .. Len(q) : q[x] \in Nat
    BY <1>1, ElementOfSeq
  <1>n. Len(hs) \in Nat /\ Len(fs) \in Nat /\ Len(gs) \in Nat /\ k \in Nat
    BY <1>1, <1>2
  <1> HIDE DEF q, r
  <1>4. /\ a \in Seq(Nat) /\ Len(a) = Len(hs)
        /\ \A x \in 1 .. Len(hs) : a[x] = q[x]
    <2>1. \A x \in 1 .. Len(hs) : q[x] \in Nat
      BY <1>1, <1>3
    <2>2. /\ a \in Seq(Nat) /\ Len(a) = IF 1 <= Len(hs) THEN Len(hs) - 1 + 1 ELSE 0
          /\ \A x \in 1 .. Len(hs) - 1 + 1 : a[x] = q[1 + x - 1]
      BY <1>1, <2>1, SubSeqProperties
    <2> QED
      BY <1>1, <2>2
  <1>5. /\ b \in Seq(Nat) /\ Len(b) = Len(gs)
        /\ \A x \in 1 .. Len(gs) : b[x] = q[Len(hs) + k + x]
    <2>1. \A x \in i + k .. Len(q) : q[x] \in Nat
      BY <1>1, <1>3
    <2>2. /\ b \in Seq(Nat) /\ Len(b) = IF i + k <= Len(q) THEN Len(q) - (i + k) + 1 ELSE 0
          /\ \A x \in 1 .. Len(q) - (i + k) + 1 : b[x] = q[i + k + x - 1]
      <3> DEFINE m == i + k
                 n == Len(q)
      <3>1. m \in Int /\ n \in Int
        BY <1>1, <1>n
      <3> HIDE DEF m, n
      <3>2. \A x \in m .. n : q[x] \in Nat
        BY <2>1 DEF m, n
      <3>3. /\ SubSeq(q, m, n) \in Seq(Nat)
            /\ Len(SubSeq(q, m, n)) = IF m <= n THEN n - m + 1 ELSE 0
            /\ \A x \in 1 .. n - m + 1 : SubSeq(q, m, n)[x] = q[m + x - 1]
        BY <3>1, <3>2, SubSeqProperties
      <3> QED
        BY <3>3 DEF m, n
    <2>3. Len(q) - (i + k) + 1 = Len(gs) /\ Len(b) = Len(gs)
      BY <1>0, <1>1, <1>2, <2>2
    <2>4. ASSUME NEW x \in 1 .. Len(gs) PROVE b[x] = q[Len(hs) + k + x]
      <3>1. x \in 1 .. Len(q) - (i + k) + 1 /\ i + k + x - 1 = Len(hs) + k + x
        BY <1>1, <1>2, <2>3
      <3>2. b[x] = q[i + k + x - 1]
        BY <2>2, <3>1
      <3> QED
        BY <3>1, <3>2
    <2> QED
      BY <2>2, <2>3, <2>4
  <1> HIDE DEF a, b
  <1>6. /\ a \o b \in Seq(Nat) /\ Len(a \o b) = Len(hs) + Len(gs)
        /\ \A x \in 1 .. Len(hs) + Len(gs) :
              (a \o b)[x] = IF x <= Len(hs) THEN a[x] ELSE b[x - Len(hs)]
    <2>1. /\ a \o b \in Seq(Nat) /\ Len(a \o b) = Len(a) + Len(b)
          /\ \A x \in 1 .. Len(a) + Len(b) :
                (a \o b)[x] = IF x <= Len(a) THEN a[x] ELSE b[x - Len(a)]
      <3>1. a \in Seq(Nat) /\ b \in Seq(Nat)
        BY <1>4, <1>5
      <3> QED
        BY <3>1, ConcatProperties
    <2> QED
      BY <1>4, <1>5, <2>1
  <1>7. ASSUME NEW x \in 1 .. Len(r) PROVE r[x] = (a \o b)[x]
    <2>1. CASE x <= Len(hs)
      <3>1. x \in 1 .. Len(hs) /\ x \in 1 .. Len(hs) + Len(gs) /\ x \in 1 .. Len(hs) + Len(fs)
        BY <1>1, <1>2, <2>1
      <3>2. r[x] = hs[x].id /\ q[x] = hs[x].id /\ a[x] = q[x] /\ (a \o b)[x] = a[x]
        BY <1>1, <1>2, <1>4, <1>6, <2>1, <3>1
      <3> QED
        BY <3>2
    <2>2. CASE Len(hs) < x
      <3> DEFINE y == x - Len(hs)
                 z == Len(hs) + k + y
      <3>1. /\ y \in 1 .. Len(gs) /\ x \in 1 .. Len(hs) + Len(gs)
            /\ z \in 1 .. Len(hs) + Len(fs) /\ ~(z <= Len(hs)) /\ z - Len(hs) = y + k
            /\ ~(x <= Len(hs))
        <4>1. x \in 1 .. Len(hs) + Len(gs)
          BY <1>2
        <4> QED
          BY <1>0, <1>n, <2>2, <4>1
      <3>2. r[x] = gs[y].id /\ (a \o b)[x] = b[y]
        BY <1>2, <1>6, <3>1
      <3>3. b[y] = q[z] /\ gs[y] = fs[y + k]
        BY <1>5, <3>1 DEF DropsFirst
      <3>4. q[z] = fs[y + k].id
        BY <1>1, <3>1
      <3> QED
        BY <3>2, <3>3, <3>4
    <2>3. x \in Nat /\ Len(hs) \in Nat
      BY <1>1, <1>2
    <2>4. x <= Len(hs) \/ Len(hs) < x
      BY <2>3
    <2> QED
      BY <2>1, <2>2, <2>4
  <1>8. r = a \o b
    BY <1>2, <1>6, <1>7, SeqEqual
  <1> QED
    BY <1>8 DEF q, r, a, b

(* What evict leaves behind the frames in flight.                          *)
LEMMA IdsAfterEvict ==
    ASSUME NEW fs \in Seq(Frame), NEW k \in 0 .. Len(fs), inflight \in Seq(Frame),
           frames' \in Seq(Frame), DropsFirst(fs, frames', k)
    PROVE  Ids(inflight \o frames')
              = SubSeq(Ids(inflight \o fs), 1, Len(inflight))
                \o SubSeq(Ids(inflight \o fs), Len(inflight) + 1 + k, Len(Ids(inflight \o fs)))
  BY IdsWithoutStretch, Zenon

(* A frame queued last has its id last.                                    *)
LEMMA IdsOfAppend ==
    ASSUME NEW hs \in Seq(Frame), NEW fs \in Seq(Frame), NEW f \in Frame
    PROVE  Ids(hs \o Append(fs, f)) = Append(Ids(hs \o fs), f.id)
  <1> DEFINE gs == Append(fs, f)
             q == Ids(hs \o fs)
             r == Ids(hs \o gs)
             t == Append(q, f.id)
  <1>1. f.id \in Nat
    BY DEF Frame
  <1>2. /\ gs \in Seq(Frame) /\ Len(gs) = Len(fs) + 1
        /\ \A i \in 1 .. Len(fs) : gs[i] = fs[i]
        /\ gs[Len(fs) + 1] = f
    BY AppendProperties
  <1>3. /\ q \in Seq(Nat) /\ Len(q) = Len(hs) + Len(fs) /\ Len(hs) \in Nat /\ Len(fs) \in Nat
        /\ \A i \in 1 .. Len(hs) + Len(fs) :
              q[i] = IF i <= Len(hs) THEN hs[i].id ELSE fs[i - Len(hs)].id
    BY IdsOfConcat
  <1> HIDE DEF gs
  <1>4. /\ r \in Seq(Nat) /\ Len(r) = Len(hs) + Len(gs)
        /\ \A i \in 1 .. Len(hs) + Len(gs) :
              r[i] = IF i <= Len(hs) THEN hs[i].id ELSE gs[i - Len(hs)].id
    BY <1>2, IdsOfConcat
  <1> HIDE DEF q, r
  <1>5. /\ t \in Seq(Nat) /\ Len(t) = Len(q) + 1
        /\ \A i \in 1 .. Len(q) : t[i] = q[i]
        /\ t[Len(q) + 1] = f.id
    BY <1>1, <1>3, AppendProperties
  <1> HIDE DEF t
  <1>6. ASSUME NEW i \in 1 .. Len(r) PROVE r[i] = t[i]
    <2>1. CASE i <= Len(hs)
      <3>1. i \in 1 .. Len(q) /\ i \in 1 .. Len(hs) + Len(fs) /\ i \in 1 .. Len(hs) + Len(gs)
        BY <1>2, <1>3, <1>4, <2>1
      <3>2. r[i] = hs[i].id /\ q[i] = hs[i].id /\ t[i] = q[i]
        BY <1>3, <1>4, <1>5, <2>1, <3>1
      <3> QED
        BY <3>2
    <2>2. CASE Len(hs) < i /\ i <= Len(hs) + Len(fs)
      <3>1. i - Len(hs) \in 1 .. Len(fs) /\ i \in 1 .. Len(q) /\ ~(i <= Len(hs))
        BY <1>3, <2>2
      <3>2. r[i] = gs[i - Len(hs)].id /\ q[i] = fs[i - Len(hs)].id /\ t[i] = q[i]
        BY <1>2, <1>3, <1>4, <1>5, <3>1
      <3> QED
        BY <1>2, <3>1, <3>2
    <2>3. CASE i = Len(hs) + Len(fs) + 1
      <3>1. i - Len(hs) = Len(fs) + 1 /\ i = Len(q) + 1 /\ ~(i <= Len(hs))
        BY <1>3, <2>3
      <3>2. r[i] = gs[i - Len(hs)].id /\ t[i] = f.id
        BY <1>2, <1>3, <1>4, <1>5, <3>1
      <3> QED
        BY <1>2, <3>1, <3>2
    <2>4. i \in 1 .. Len(hs) + Len(fs) + 1
      BY <1>2, <1>3, <1>4
    <2> QED
      BY <1>3, <2>1, <2>2, <2>3, <2>4
  <1>7. Len(r) = Len(t)
    BY <1>2, <1>3, <1>4, <1>5
  <1>8. r = t
    BY <1>4, <1>5, <1>6, <1>7, SeqEqual
  <1> QED
    BY <1>8 DEF gs, q, r, t

(* What a step that only adds a frame to the buffer leaves alone.          *)
OnlyAddsFrame ==
    /\ UNCHANGED <<inflight, lastSent, reported, pendingDrops>>
    /\ pc' = "clear" <=> pc = "clear"

(* buf.Enqueue (buffer.go:32-52), whatever it evicts, is LossyLog's Accept.*)
LEMMA NewFrameAccepted ==
    ASSUME TypeOK, NEW size \in Sizes, NewFrame(size), OnlyAddsFrame
    PROVE  Log!Accept
  <1> DEFINE f == [id |-> enqueued + 1, size |-> size]
             all == Append(frames, f)
             q == Ids(inflight \o all)
  <1>1. /\ enqueued' = enqueued + 1 /\ f \in Frame /\ f.id = enqueued + 1
        /\ all \in Seq(Frame) /\ \E b : Evict(all, b)
    BY NewFrameEvicts
  <1>2. inflight \in Seq(Frame) /\ frames \in Seq(Frame) /\ drops \in Nat /\ pendingDrops \in Nat
    BY DEF TypeOK
  <1>3. q = Append(Ids(inflight \o frames), enqueued + 1)
    <2>1. q = Append(Ids(inflight \o frames), f.id)
      BY <1>1, <1>2, IdsOfAppend
    <2> QED
      BY <1>1, <2>1
  <1> HIDE DEF all, f
  <1>4. PICK k \in 0 .. Len(all) :
            frames' \in Seq(Frame) /\ DropsFirst(all, frames', k) /\ drops' = drops + k
    BY <1>1, EvictLeavesSuffix DEF DropsFirst
  <1> DEFINE i == Len(inflight) + 1
  <1>5. /\ i \in 1 .. Len(q) + 1 /\ i + k \in 1 .. Len(q) + 1
        /\ Ids(inflight \o frames') = SubSeq(q, 1, i - 1) \o SubSeq(q, i + k, Len(q))
    <2>1. all \in Seq(Frame) /\ frames' \in Seq(Frame) /\ DropsFirst(all, frames', k)
      BY <1>1, <1>4
    <2>2. Ids(inflight \o frames')
             = SubSeq(q, 1, Len(inflight)) \o SubSeq(q, Len(inflight) + 1 + k, Len(q))
      BY <1>2, <2>1, IdsAfterEvict
    <2>3. Len(q) = Len(inflight) + Len(all) /\ Len(inflight) \in Nat /\ Len(all) \in Nat
      BY <1>2, <2>1, IdsOfConcat
    <2> HIDE DEF q
    <2>4. i - 1 = Len(inflight) /\ i + k = Len(inflight) + 1 + k
      BY <2>3
    <2>5. i \in 1 .. Len(q) + 1 /\ i + k \in 1 .. Len(q) + 1
      BY <2>3
    <2> HIDE DEF i
    <2> QED
      BY <2>2, <2>4, <2>5
  <1> HIDE DEF q
  <1>6. k \in Nat /\ i \in Nat
    BY <1>1, <1>2, <1>4, LenProperties
  <1> HIDE DEF i
  <1>7. /\ drops' + (IF pc' = "clear" THEN 0 ELSE pendingDrops')
             = drops + (IF pc = "clear" THEN 0 ELSE pendingDrops) + (i + k - i)
        /\ i <= i + k
    <2>1. drops' = drops + k /\ pendingDrops' = pendingDrops /\ (pc' = "clear" <=> pc = "clear")
      BY <1>4 DEF OnlyAddsFrame
    <2>2. CASE pc = "clear"
      BY <1>2, <1>6, <2>1, <2>2
    <2>3. CASE pc # "clear"
      BY <1>2, <1>6, <2>1, <2>3
    <2> QED
      BY <2>2, <2>3
  <1>8. Log!KeepBut(q, i, i + k)
    BY <1>5, <1>7 DEF Log!KeepBut, OnlyAddsFrame
  <1>9. Log!LoseSome(q)
    BY <1>5, <1>7, <1>8 DEF Log!LoseSome
  <1> QED
    BY <1>1, <1>3, <1>9 DEF Log!Accept, OnlyAddsFrame

(* A step that leaves the queues, the counts and the debt alone, or only   *)
(* moves the debt, is a step LossyLog does not see.                        *)
LEMMA Unseen ==
    ASSUME UNCHANGED <<inflight, frames, enqueued, lastSent, reported>>,
           drops' + (IF pc' = "clear" THEN 0 ELSE pendingDrops')
             = drops + (IF pc = "clear" THEN 0 ELSE pendingDrops)
    PROVE  UNCHANGED Log!vars
  BY DEF Log!vars, Ids

(* The frames a failed write puts back (buffer.go:84-101), less what evict *)
(* takes of them: LossyLog's Lose.                                         *)
LEMMA RequeueLoses ==
    ASSUME TypeOK, WriteFrameFail
    PROVE  Log!Lose
  <1> DEFINE all == inflight \o frames
             q == Ids(all)
  <1>1. all \in Seq(Frame) /\ drops \in Nat /\ pendingDrops \in Nat
    BY ConcatProperties DEF TypeOK
  <1>2. /\ Evict(all, bytes + Bytes(inflight)) /\ inflight' = << >> /\ pc = "write" /\ pc' = "err"
        /\ UNCHANGED <<pendingDrops, enqueued, lastSent, reported>>
    BY DEF WriteFrameFail, RequeueFront, Goto, history
  <1> HIDE DEF all
  <1>3. PICK k \in 0 .. Len(all) :
            frames' \in Seq(Frame) /\ DropsFirst(all, frames', k) /\ drops' = drops + k
    BY <1>1, <1>2, EvictLeavesSuffix DEF DropsFirst
  <1>4. Ids(inflight' \o frames') = SubSeq(q, 1, 0) \o SubSeq(q, 1 + k, Len(q))
    <2>1. << >> \in Seq(Frame) /\ Len(<< >>) = 0 /\ << >> \o all = all
      BY <1>1, EmptySeq, ConcatEmptySeq
    <2> DEFINE none == << >>
    <2>2. none \in Seq(Frame) /\ Len(none) = 0 /\ none \o all = all /\ inflight' = none
      BY <1>2, <2>1
    <2> HIDE DEF none
    <2>3. Ids(none \o frames') = SubSeq(Ids(none \o all), 1, Len(none))
                \o SubSeq(Ids(none \o all), Len(none) + 1 + k, Len(Ids(none \o all)))
      BY <1>1, <1>3, <2>2, IdsWithoutStretch
    <2>4. 0 + 1 + k = 1 + k
      BY <1>1, <1>3, LenProperties
    <2> QED
      BY <2>2, <2>3, <2>4
  <1>5. Len(q) = Len(all) /\ Len(all) \in Nat
    BY <1>1, IdsOfFrames
  <1> HIDE DEF q
  <1>6. 1 \in 1 .. Len(q) + 1 /\ 1 + k \in 1 .. Len(q) + 1 /\ 1 <= 1 + k /\ 1 - 1 = 0
    BY <1>3, <1>5
  <1>7. drops' + (IF pc' = "clear" THEN 0 ELSE pendingDrops')
             = drops + (IF pc = "clear" THEN 0 ELSE pendingDrops) + (1 + k - 1)
    BY <1>1, <1>2, <1>3, <1>5
  <1>8. Log!KeepBut(q, 1, 1 + k)
    BY <1>4, <1>6, <1>7 DEF Log!KeepBut
  <1>9. Log!LoseSome(q)
    BY <1>6, <1>8 DEF Log!LoseSome
  <1> QED
    BY <1>2, <1>9 DEF Log!Lose, q, all

(* DrainTo's write of a whole frame sends the oldest pending one           *)
(* (buffer.go:84-96).                                                      *)
LEMMA WriteSends ==
    ASSUME TypeOK, WriteFrame
    PROVE  Log!Send
  <1> DEFINE q == Ids(inflight \o frames)
             r == Ids(Tail(inflight) \o frames)
  <1>1. /\ inflight # << >> /\ lastSent' = Head(inflight).id /\ inflight' = Tail(inflight)
        /\ UNCHANGED <<frames, drops, pc, pendingDrops, enqueued, reported>>
    BY DEF WriteFrame, bufVars
  <1>2. inflight \in Seq(Frame) /\ frames \in Seq(Frame)
    BY DEF TypeOK
  <1>3. /\ Tail(inflight) \in Seq(Frame) /\ Len(Tail(inflight)) = Len(inflight) - 1
        /\ \A i \in 1 .. Len(Tail(inflight)) : Tail(inflight)[i] = inflight[i + 1]
    BY <1>1, <1>2, HeadTailProperties
  <1>4. /\ q \in Seq(Nat) /\ Len(q) = Len(inflight) + Len(frames)
        /\ Len(inflight) \in Nat /\ Len(frames) \in Nat
        /\ \A i \in 1 .. Len(inflight) + Len(frames) :
              q[i] = IF i <= Len(inflight) THEN inflight[i].id ELSE frames[i - Len(inflight)].id
    BY <1>2, IdsOfConcat
  <1>5. Len(inflight) \in Nat \ {0} /\ Head(inflight) = inflight[1]
    BY <1>1, <1>2, EmptySeq
  <1> DEFINE ts == Tail(inflight)
  <1> HIDE DEF q, ts
  <1>6. /\ r \in Seq(Nat) /\ Len(r) = Len(ts) + Len(frames)
        /\ \A i \in 1 .. Len(ts) + Len(frames) :
              r[i] = IF i <= Len(ts) THEN ts[i].id ELSE frames[i - Len(ts)].id
    <2>1. ts \in Seq(Frame)
      BY <1>3 DEF ts
    <2> QED
      BY <1>2, <2>1, IdsOfConcat DEF ts
  <1>7. Len(ts) = Len(inflight) - 1 /\ \A i \in 1 .. Len(ts) : ts[i] = inflight[i + 1]
    BY <1>3 DEF ts
  <1> HIDE DEF r
  <1>8. /\ q # << >> /\ Head(q) = q[1] /\ Tail(q) \in Seq(Nat) /\ Len(Tail(q)) = Len(q) - 1
        /\ \A i \in 1 .. Len(Tail(q)) : Tail(q)[i] = q[i + 1]
    <2>1. q # << >>
      BY <1>4, <1>5, EmptySeq
    <2> QED
      BY <1>4, <2>1, HeadTailProperties
  <1>9. ASSUME NEW i \in 1 .. Len(r) PROVE r[i] = Tail(q)[i]
    <2>1. i \in 1 .. Len(Tail(q)) /\ i + 1 \in 1 .. Len(inflight) + Len(frames)
      BY <1>4, <1>5, <1>6, <1>7, <1>8
    <2>2. Tail(q)[i] = q[i + 1]
      BY <1>8, <2>1
    <2>3. CASE i <= Len(ts)
      <3>1. i \in 1 .. Len(ts) /\ i + 1 <= Len(inflight) /\ i \in 1 .. Len(ts) + Len(frames)
        BY <1>4, <1>5, <1>6, <1>7, <2>3
      <3>2. r[i] = ts[i].id /\ ts[i] = inflight[i + 1]
        BY <1>6, <1>7, <2>3, <3>1
      <3>3. q[i + 1] = inflight[i + 1].id
        BY <1>4, <2>1, <3>1, Zenon
      <3> QED
        BY <2>2, <3>2, <3>3
    <2>4. CASE Len(ts) < i
      <3>1. /\ ~(i <= Len(ts)) /\ ~(i + 1 <= Len(inflight)) /\ i \in 1 .. Len(ts) + Len(frames)
            /\ i - Len(ts) = i + 1 - Len(inflight)
        BY <1>4, <1>5, <1>6, <1>7, <2>4
      <3>2. r[i] = frames[i - Len(ts)].id
        BY <1>6, <3>1
      <3>3. q[i + 1] = IF i + 1 <= Len(inflight) THEN inflight[i + 1].id
                                                 ELSE frames[i + 1 - Len(inflight)].id
        <4>1. \A n \in 1 .. Len(inflight) + Len(frames) :
                  q[n] = IF n <= Len(inflight) THEN inflight[n].id ELSE frames[n - Len(inflight)].id
          BY <1>4
        <4> QED
          BY <2>1, <4>1
      <3> QED
        BY <2>2, <3>1, <3>2, <3>3
    <2>5. i \in Nat /\ Len(ts) \in Nat
      BY <1>4, <1>5, <1>6, <1>7
    <2>6. i <= Len(ts) \/ Len(ts) < i
      BY <2>5
    <2> QED
      BY <2>3, <2>4, <2>6
  <1>10. r = Tail(q)
    <2>1. Len(r) = Len(Tail(q))
      BY <1>4, <1>5, <1>6, <1>7, <1>8
    <2> QED
      BY <1>6, <1>8, <1>9, <2>1, SeqEqual
  <1>11. lastSent' = Head(q)
    <2>1. 1 \in 1 .. Len(inflight) + Len(frames) /\ 1 <= Len(inflight)
      BY <1>4, <1>5
    <2>2. q[1] = inflight[1].id
      BY <1>4, <2>1
    <2> QED
      BY <1>1, <1>5, <1>8, <2>2
  <1> QED
    BY <1>1, <1>8, <1>10, <1>11 DEF Log!Send, q, r, ts

(* A warning of the shipper (shipper.go:124, 168) is accepted like any     *)
(* other frame, or not logged at all.                                      *)
LEMMA WarningAccepted ==
    ASSUME TypeOK, LogWarning, pc # "clear", pc' # "clear",
           UNCHANGED <<inflight, lastSent, reported, pendingDrops>>
    PROVE  Log!Next \/ UNCHANGED Log!vars
  <1>1. CASE WarnLogged
    <2>1. WarnSize \in Sizes /\ NewFrame(WarnSize)
      BY <1>1, ShipperAssumption DEF LogWarning
    <2>2. OnlyAddsFrame
      BY DEF OnlyAddsFrame
    <2>3. Log!Accept
      BY <2>1, <2>2, NewFrameAccepted
    <2> QED
      BY <2>3 DEF Log!Next
  <1>2. CASE ~WarnLogged
    <2>1. UNCHANGED <<frames, drops, enqueued>>
      BY <1>2 DEF LogWarning, bufVars
    <2> QED
      BY <2>1, Unseen
  <1> QED
    BY <1>1, <1>2

(* Every step of the shipper is a step of LossyLog or one it does not see. *)
LEMMA LogStep ==
    ASSUME TypeOK, QueueOrder, [Next]_vars
    PROVE  Log!Next \/ UNCHANGED Log!vars
  <1> USE DEF bufVars, runVars, history, Goto
  <1>1. ASSUME NEW p \in Producers, NEW size \in Sizes, Enqueue(p, size) PROVE Log!Next
    <2>1. NewFrame(size) /\ OnlyAddsFrame
      BY <1>1 DEF Enqueue, OnlyAddsFrame
    <2> QED
      BY <2>1, NewFrameAccepted DEF Log!Next
  <1>2. CASE (\E p \in Producers : Notify(p)) \/ FlushCall \/ Flush \/ FlushDeadline
    <2>1. UNCHANGED <<inflight, frames, enqueued, lastSent, reported, drops, pc, pendingDrops>>
      BY <1>2 DEF Notify, FlushCall, Flush, FlushNudge, IdleBusy, IdleLen, IdleDrops,
                  FlushPoll, FlushDeadline, FlushGoto
    <2> QED
      BY <2>1, Unseen
  <1>3. CASE RunTop \/ Sleep \/ DialOk \/ BeginDrain \/ WriteDropFail \/ WriteDone
             \/ EndDrain \/ Select
    <2>1. /\ UNCHANGED <<inflight, frames, enqueued, lastSent, reported, drops, pendingDrops>>
          /\ pc # "clear" /\ pc' # "clear"
      BY <1>3 DEF RunTop, Sleep, DialOk, BeginDrain, WriteDropFail, WriteDone, EndDrain, Select
    <2> QED
      BY <2>1, Unseen
  <1>4. CASE DialFail \/ ServeFail
    <2>1. /\ LogWarning /\ UNCHANGED <<inflight, lastSent, reported, pendingDrops>>
          /\ pc # "clear" /\ pc' # "clear"
      BY <1>4 DEF DialFail, ServeFail
    <2> QED
      BY <2>1, WarningAccepted
  <1>5. CASE TakePending
    <2>1. /\ UNCHANGED <<inflight, frames, enqueued, lastSent, reported>>
          /\ pendingDrops' = pendingDrops + drops /\ drops' = 0
          /\ pc # "clear" /\ pc' # "clear" /\ drops \in Nat /\ pendingDrops \in Nat
      BY <1>5 DEF TakePending, TakeDrops, TypeOK
    <2> QED
      BY <2>1, Unseen
  <1>6. CASE WriteDrop
    <2>1. /\ UNCHANGED <<inflight, frames, enqueued, lastSent, drops, pendingDrops>>
          /\ reported' = reported + pendingDrops /\ pc = "drop" /\ pc' = "clear"
          /\ drops \in Nat /\ pendingDrops \in Nat /\ reported \in Nat
      BY <1>6 DEF WriteDrop, TypeOK
    <2>2. CASE pendingDrops = 0
      BY <2>1, <2>2, Unseen
    <2>3. CASE pendingDrops # 0
      <3>1. /\ pendingDrops \in 1 .. drops + (IF pc = "clear" THEN 0 ELSE pendingDrops)
            /\ drops' + (IF pc' = "clear" THEN 0 ELSE pendingDrops')
                 = drops + (IF pc = "clear" THEN 0 ELSE pendingDrops) - pendingDrops
        BY <2>1, <2>3
      <3>2. Ids(inflight \o frames)' = Ids(inflight \o frames)
        BY <2>1 DEF Ids
      <3>3. Log!Report
        BY <2>1, <3>1, <3>2 DEF Log!Report
      <3> QED
        BY <3>3 DEF Log!Next
    <2> QED
      BY <2>2, <2>3
  <1>7. CASE ClearPending
    <2>1. /\ UNCHANGED <<inflight, frames, enqueued, lastSent, reported, drops>>
          /\ pendingDrops' = 0 /\ pc = "clear" /\ pc' = "drain"
      BY <1>7 DEF ClearPending
    <2> QED
      BY <2>1, Unseen
  <1>8. CASE DrainTake
    <2>1. /\ inflight = << >> /\ inflight' = frames /\ frames' = << >>
          /\ UNCHANGED <<enqueued, lastSent, reported, drops, pendingDrops>>
          /\ pc # "clear" /\ pc' # "clear"
      BY <1>8 DEF DrainTake, TakeAll, QueueOrder
    <2>2. << >> \o frames = frames /\ frames \o << >> = frames
      BY ConcatEmptySeq DEF TypeOK
    <2>3. (inflight \o frames)' = inflight \o frames
      BY <2>1, <2>2
    <2> QED
      BY <2>1, <2>3 DEF Log!vars, Ids
  <1>9. CASE WriteFrame
    BY <1>9, WriteSends DEF Log!Next
  <1>10. CASE WriteFrameFail
    BY <1>10, RequeueLoses DEF Log!Next
  <1>11. CASE UNCHANGED vars
    <2>1. UNCHANGED <<inflight, frames, enqueued, lastSent, reported, drops, pc, pendingDrops>>
      BY <1>11 DEF vars
    <2> QED
      BY <2>1, Unseen
  <1> QED
    BY <1>1, <1>2, <1>3, <1>4, <1>5, <1>6, <1>7, <1>8, <1>9, <1>10, <1>11
       DEF Next, Produce, Run

(* The shipper implements the lossy log, for every budget, any number of   *)
(* producers and any number of faults: whatever dials and writes fail, it  *)
(* sends only the oldest pending frame and owns up once to every loss      *)
(* (shipper.go, buffer.go).                                                *)
THEOREM ImplementsLogHolds == Spec => ImplementsLog
  <1>1. Init => Log!Init
    <2> SUFFICES ASSUME Init PROVE Log!Init
      OBVIOUS
    <2>1. inflight \o frames = << >>
      BY DEF Init, NewRingBuffer
    <2>2. Ids(<< >>) = << >>
      BY DEF Ids
    <2> QED
      BY <2>1, <2>2 DEF Init, NewRingBuffer, Log!Init
  <1>2. IInv /\ [Next]_vars => [Log!Next]_(Log!vars)
    BY LogStep DEF IInv
  <1> QED
    BY <1>1, <1>2, IInvHolds, PTL DEF Spec, ImplementsLog, Log!Spec
=============================================================================
