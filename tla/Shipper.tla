------------------------------ MODULE Shipper ------------------------------
(***************************************************************************)
(* The supervisor's log shipper (internal/supervisor/shipper.go) and the   *)
(* goroutines around it (cmd/supervisor/main.go supervise):                *)
(*   - producers, the child pumps and the slog handler, call Enqueue;      *)
(*   - the Run goroutine dials the parent, drains the buffer into the      *)
(*     connection and reconnects with backoff;                             *)
(*   - the main goroutine calls Flush once the manager has returned.       *)
(* One step is one critical section, one connection write or one channel   *)
(* operation.  Dials and writes may fail, at most MaxFaults times.         *)
(***************************************************************************)
EXTENDS RingBuffer

CONSTANTS
    Producers,   \* goroutines that enqueue frames
    MinBackoff,  \* ShipperConfig.MinBackoff, after NewShipper's defaults
    MaxBackoff,  \* ShipperConfig.MaxBackoff, after NewShipper's defaults
    WarnLogged,  \* does the log level let the shipper's own warnings through
    WarnSize,    \* length of such a warning's frame
    MaxFrames,   \* bound: producers enqueue only below this many frames
    MaxFaults    \* bound: failing dials and writes

ASSUME ShipperAssumption ==
    /\ MinBackoff \in Nat \ {0}
    /\ MaxBackoff \in Nat /\ MinBackoff <= MaxBackoff
    /\ WarnLogged \in BOOLEAN
    /\ WarnSize \in Sizes
    /\ MaxFrames \in Nat /\ MaxFaults \in Nat

VARIABLES
    wake,          \* the wake channel (capacity 1) holds a token
    pendingDrops,  \* drops taken from the buffer, record not yet written
    draining,      \* a drain cycle is in progress
    pc,            \* where the Run goroutine is
    backoff,       \* Run's local: wait before the next dial
    inflight,      \* DrainTo's local: taken and not yet written frames
    ppc,           \* producers: idle, or between buf.Enqueue and notify
    fpc,           \* where Flush is
    enqueued,      \* history: frames ever enqueued, the id of the last
    delivered,     \* history: frames written in full to a connection
    lastSent,      \* history: id of the last frame written
    reported,      \* history: sum of the counts of written drop records
    faults         \* failed dials and writes so far

runVars == <<pendingDrops, draining, pc, backoff, inflight>>
history == <<enqueued, delivered, lastSent, reported>>
vars == <<bufVars, wake, runVars, ppc, fpc, history, faults>>

RunPoints == {"top", "sleep", "dial", "begin", "take", "drop", "clear", "drain",
              "write", "ok", "err", "warn", "select", "done"}
FlushPoints == {"off", "nudge", "busy", "len", "drops", "poll", "flushed", "expired"}

Init ==
    /\ NewRingBuffer
    /\ wake = FALSE
    /\ pendingDrops = 0
    /\ draining = FALSE
    /\ pc = "top"
    /\ backoff = 0
    /\ inflight = << >>
    /\ ppc = [p \in Producers |-> "idle"]
    /\ fpc = "off"
    /\ enqueued = 0 /\ delivered = 0 /\ lastSent = 0 /\ reported = 0
    /\ faults = 0

(* supervise cancels the shipper's context as soon as Flush has returned.  *)
ctxDone == fpc \in {"flushed", "expired"}

Goto(point) == pc' = point

Fault == faults < MaxFaults /\ faults' = faults + 1

NewFrame(size) ==
    /\ enqueued' = enqueued + 1
    /\ BufEnqueue([id |-> enqueued + 1, size |-> size])

-----------------------------------------------------------------------------
(* Producers: Shipper.Enqueue is buf.Enqueue, then notify.                 *)

EnqueueSwapped(p, size) ==
    /\ ppc[p] = "idle" /\ fpc = "off" /\ enqueued < MaxFrames
    /\ NewFrame(size)
    /\ UNCHANGED <<wake, ppc, runVars, fpc, delivered, lastSent, reported, faults>>

Enqueue(p, size) ==
    /\ ppc[p] = "idle" /\ fpc = "off" /\ enqueued < MaxFrames
    /\ NewFrame(size)
    /\ ppc' = [ppc EXCEPT ![p] = "notify"]
    /\ UNCHANGED <<wake, runVars, fpc, delivered, lastSent, reported, faults>>

Notify(p) ==
    /\ ppc[p] = "notify"
    /\ wake' = TRUE
    /\ ppc' = [ppc EXCEPT ![p] = "idle"]
    /\ UNCHANGED <<bufVars, runVars, fpc, history, faults>>

-----------------------------------------------------------------------------
(* The Run goroutine.                                                      *)

(* A warning of the shipper itself goes through the same slog handler and  *)
(* so into the same buffer.  Its Enqueue and notify are one step: only     *)
(* this goroutine receives from wake.                                      *)
LogWarning ==
    IF WarnLogged
    THEN NewFrame(WarnSize) /\ wake' = TRUE
    ELSE UNCHANGED <<bufVars, wake, enqueued>>

RunTop ==
    /\ pc = "top"
    /\ Goto(IF ctxDone THEN "done" ELSE IF backoff > 0 THEN "sleep" ELSE "dial")
    /\ UNCHANGED <<bufVars, wake, pendingDrops, draining, backoff, inflight,
                   ppc, fpc, history, faults>>

Sleep ==
    /\ pc = "sleep"
    /\ \/ Goto("dial")
       \/ ctxDone /\ Goto("done")
    /\ UNCHANGED <<bufVars, wake, pendingDrops, draining, backoff, inflight,
                   ppc, fpc, history, faults>>

nextBackoff(cur) ==
    IF cur = 0 THEN MinBackoff
    ELSE IF cur * 2 > MaxBackoff THEN MaxBackoff
    ELSE cur * 2

DialOk ==
    /\ pc = "dial"
    /\ backoff' = MinBackoff
    /\ Goto("begin")
    /\ UNCHANGED <<bufVars, wake, pendingDrops, draining, inflight,
                   ppc, fpc, history, faults>>

DialFailGivesUp ==
    /\ pc = "dial" /\ Fault
    /\ LogWarning
    /\ Goto("done")
    /\ UNCHANGED <<pendingDrops, draining, backoff, inflight, ppc, fpc,
                   delivered, lastSent, reported>>

DialFail ==
    /\ pc = "dial" /\ Fault
    /\ LogWarning
    /\ backoff' = nextBackoff(backoff)
    /\ Goto("top")
    /\ UNCHANGED <<pendingDrops, draining, inflight, ppc, fpc,
                   delivered, lastSent, reported>>

(* drainOnce: setDraining(true).                                           *)
BeginDrain ==
    /\ pc = "begin"
    /\ draining' = TRUE
    /\ Goto("take")
    /\ UNCHANGED <<bufVars, wake, pendingDrops, backoff, inflight,
                   ppc, fpc, history, faults>>

TakePendingOverwrite ==
    /\ pc = "take"
    /\ pendingDrops' = drops
    /\ TakeDrops
    /\ Goto(IF pendingDrops' > 0 THEN "drop" ELSE "drain")
    /\ UNCHANGED <<wake, draining, backoff, inflight, ppc, fpc, history, faults>>

TakePending ==
    /\ pc = "take"
    /\ pendingDrops' = pendingDrops + drops
    /\ TakeDrops
    /\ Goto(IF pendingDrops' > 0 THEN "drop" ELSE "drain")
    /\ UNCHANGED <<wake, draining, backoff, inflight, ppc, fpc, history, faults>>

(* The local copy `pending` equals pendingDrops throughout: only this      *)
(* goroutine writes the field.                                             *)
WriteDrop ==
    /\ pc = "drop"
    /\ reported' = reported + pendingDrops
    /\ Goto("clear")
    /\ UNCHANGED <<bufVars, wake, pendingDrops, draining, backoff, inflight,
                   ppc, fpc, enqueued, delivered, lastSent, faults>>

WriteDropFail ==
    /\ pc = "drop" /\ Fault
    /\ Goto("err")
    /\ UNCHANGED <<bufVars, wake, pendingDrops, draining, backoff, inflight,
                   ppc, fpc, history>>

ClearPending ==
    /\ pc = "clear"
    /\ pendingDrops' = 0
    /\ Goto("drain")
    /\ UNCHANGED <<bufVars, wake, draining, backoff, inflight,
                   ppc, fpc, history, faults>>

DrainTake ==
    /\ pc = "drain"
    /\ inflight' = frames
    /\ TakeAll
    /\ Goto("write")
    /\ UNCHANGED <<wake, pendingDrops, draining, backoff, ppc, fpc, history, faults>>

WriteFrame ==
    /\ pc = "write" /\ inflight # << >>
    /\ delivered' = delivered + 1
    /\ lastSent' = Head(inflight).id
    /\ inflight' = Tail(inflight)
    /\ UNCHANGED <<bufVars, wake, pendingDrops, draining, pc, backoff,
                   ppc, fpc, enqueued, reported, faults>>

(* A failed write delivers no whole frame; the failed frame and the ones   *)
(* after it are requeued.                                                  *)
WriteFrameFail ==
    /\ pc = "write" /\ inflight # << >> /\ Fault
    /\ RequeueFront(inflight)
    /\ inflight' = << >>
    /\ Goto("err")
    /\ UNCHANGED <<wake, pendingDrops, draining, backoff, ppc, fpc, history>>

WriteDone ==
    /\ pc = "write" /\ inflight = << >>
    /\ Goto("ok")
    /\ UNCHANGED <<bufVars, wake, pendingDrops, draining, backoff, inflight,
                   ppc, fpc, history, faults>>

(* drainOnce's deferred setDraining(false).                                *)
EndDrain ==
    /\ pc \in {"ok", "err"}
    /\ draining' = FALSE
    /\ Goto(IF pc = "ok" THEN "select" ELSE "warn")
    /\ UNCHANGED <<bufVars, wake, pendingDrops, backoff, inflight,
                   ppc, fpc, history, faults>>

(* serve logs the failure, closes the connection and returns to Run.       *)
ServeFail ==
    /\ pc = "warn"
    /\ LogWarning
    /\ Goto("top")
    /\ UNCHANGED <<pendingDrops, draining, backoff, inflight, ppc, fpc,
                   delivered, lastSent, reported, faults>>

(* serve's select: a wake token, the drain ticker or cancellation.         *)
Select ==
    /\ pc = "select"
    /\ \/ wake /\ wake' = FALSE /\ Goto("begin")
       \/ UNCHANGED wake /\ Goto("begin")
       \/ ctxDone /\ UNCHANGED wake /\ Goto("top")
    /\ UNCHANGED <<bufVars, pendingDrops, draining, backoff, inflight,
                   ppc, fpc, history, faults>>

-----------------------------------------------------------------------------
(* Flush, called by supervise when the manager, and with it every          *)
(* producer, is done.  idle() reads the state in three separate critical   *)
(* sections.                                                               *)

FlushGoto(point) ==
    /\ fpc' = point
    /\ UNCHANGED <<bufVars, runVars, ppc, history, faults>>

FlushCall ==
    /\ fpc = "off" /\ \A p \in Producers : ppc[p] = "idle"
    /\ FlushGoto("nudge") /\ UNCHANGED wake

FlushNudge == fpc = "nudge" /\ wake' = TRUE /\ FlushGoto("busy")

IdleBusy ==
    /\ fpc = "busy"
    /\ FlushGoto(IF draining \/ pendingDrops > 0 THEN "poll" ELSE "len")
    /\ UNCHANGED wake

IdleLen ==
    /\ fpc = "len"
    /\ FlushGoto(IF frames = << >> THEN "drops" ELSE "poll")
    /\ UNCHANGED wake

IdleDrops ==
    /\ fpc = "drops"
    /\ FlushGoto(IF drops = 0 THEN "flushed" ELSE "poll")
    /\ UNCHANGED wake

FlushPoll == fpc = "poll" /\ FlushGoto("nudge") /\ UNCHANGED wake

FlushDeadline == fpc = "poll" /\ FlushGoto("expired") /\ UNCHANGED wake

-----------------------------------------------------------------------------

Produce == \E p \in Producers : Notify(p) \/ \E size \in Sizes : Enqueue(p, size)

Run ==
    \/ RunTop \/ Sleep \/ DialOk \/ DialFail
    \/ BeginDrain \/ TakePending \/ WriteDrop \/ WriteDropFail \/ ClearPending
    \/ DrainTake \/ WriteFrame \/ WriteFrameFail \/ WriteDone
    \/ EndDrain \/ ServeFail \/ Select

Flush == FlushNudge \/ IdleBusy \/ IdleLen \/ IdleDrops \/ FlushPoll

Next == Produce \/ Run \/ FlushCall \/ Flush \/ FlushDeadline

Spec == Init /\ [][Next]_vars

(* Go schedules every runnable goroutine and timers fire, so each          *)
(* goroutine's next step is weakly fair.  New frames, and the call of      *)
(* Flush and its deadline, are never assumed to come.                      *)
Fairness ==
    /\ \A p \in Producers : WF_vars(Notify(p))
    /\ WF_vars(Run)
    /\ WF_vars(Flush)

FairSpec == Spec /\ Fairness

-----------------------------------------------------------------------------
(* Properties.                                                             *)

(* The shapes of the shipper's state; backoff stays between the configured *)
(* bounds once it is set (shipper.go:137-146).  The value of bytes is the  *)
(* subject of ByteCountExact.                                              *)
TypeOK ==
    /\ frames \in Seq(Frame) /\ inflight \in Seq(Frame)
    /\ drops \in Nat /\ evicted \in Nat /\ pendingDrops \in Nat
    /\ wake \in BOOLEAN /\ draining \in BOOLEAN
    /\ pc \in RunPoints /\ fpc \in FlushPoints
    /\ ppc \in [Producers -> {"idle", "notify"}]
    /\ backoff \in {0} \cup (MinBackoff .. MaxBackoff)
    /\ enqueued \in Nat /\ delivered \in Nat /\ lastSent \in Nat
    /\ reported \in Nat /\ faults \in Nat

(* The buffer, beside producers that go on while a drain has taken its     *)
(* frames and puts them back: it keeps both budgets, its byte total never  *)
(* drifts, and the state around it keeps its shapes.                       *)
BufferInv == TypeOK /\ WithinBudget /\ ByteCountExact

(* Every frame ever enqueued is in exactly one place: written, queued, in  *)
(* flight or evicted; and every evicted frame is counted exactly once in   *)
(* drop records written or still owed ("each dropped frame is reported     *)
(* exactly once", buffer.go:104), whatever write or dial fails.            *)
Accounting ==
    /\ enqueued = delivered + Len(inflight) + Len(frames) + evicted
    /\ evicted = reported + drops + (IF pc = "clear" THEN 0 ELSE pendingDrops)

(* Across reconnects and requeues the parent gets frames in the order in   *)
(* which they were enqueued and none of them twice (DrainTo's FIFO         *)
(* promise, buffer.go:66-71).                                              *)
InOrder == [][delivered' # delivered => lastSent' > lastSent]_vars

(* Buffered frames and unreported drops never wait for the drain ticker:   *)
(* when the drain loop blocks while there are any, a wake token is there   *)
(* or a producer is about to leave one (shipper.go:49-52).                 *)
NoLostWake ==
    pc = "select" /\ (frames # << >> \/ drops > 0) =>
        wake \/ \E p \in Producers : ppc[p] = "notify"

(* The frames in flight and then the queued ones are in the order of their *)
(* ids and newer than anything written.                                    *)
Increasing(fs) == \A i, j \in 1 .. Len(fs) : i < j => fs[i].id < fs[j].id

QueueOrder ==
    /\ Increasing(inflight) /\ Increasing(frames)
    /\ \A i \in 1 .. Len(inflight) :
          /\ lastSent < inflight[i].id /\ inflight[i].id <= enqueued
          /\ \A j \in 1 .. Len(frames) : inflight[i].id < frames[j].id
    /\ \A j \in 1 .. Len(frames) : lastSent < frames[j].id /\ frames[j].id <= enqueued
    /\ lastSent <= enqueued
    /\ inflight # << >> => pc = "write"

(* What entered the buffer after the current drain cycle emptied it has    *)
(* its notify behind or ahead of it, from the emptying on.                 *)
WakePromised ==
    \/ wake
    \/ \E p \in Producers : ppc[p] = "notify"
    \/ /\ pc \in {"write", "ok", "select"} => frames = << >>
       /\ pc \in {"drop", "clear", "drain", "write", "ok", "select"} => drops = 0

(* The strengthening of Accounting, NoLostWake and InOrder that every step *)
(* of the shipper preserves.                                               *)
IInv == TypeOK /\ Accounting /\ QueueOrder /\ WakePromised

Settled == frames = << >> /\ inflight = << >> /\ drops = 0 /\ pendingDrops = 0

(* Once dials and writes stop failing, every enqueued frame is written or  *)
(* its loss reported, unless the process stops first.                      *)
EventuallySettled == <>[](Settled \/ ctxDone)

(* "draining guards the in-flight window of a drain cycle so Flush waits   *)
(* for frames already taken from the buffer (and being written) before     *)
(* reporting the buffer fully drained" (shipper.go:59-61).                 *)
FlushWaitsForInflight == fpc = "flushed" => inflight = << >>

-----------------------------------------------------------------------------
(* The promise of module LossyLog: pending are the frames in flight and    *)
(* then the queued ones, owed the drops no record on the wire reports.     *)

Ids(fs) == [i \in DOMAIN fs |-> fs[i].id]

Log == INSTANCE LossyLog WITH
          accepted <- enqueued, pending <- Ids(inflight \o frames), sent <- lastSent,
          owed <- drops + (IF pc = "clear" THEN 0 ELSE pendingDrops)

(* The shipper is a lossy log: whatever dials and writes fail and whatever *)
(* is evicted meanwhile, it sends only the oldest pending frame and, if it *)
(* loses frames, counts each of them once (shipper.go, buffer.go).         *)
ImplementsLog == Log!Spec
=============================================================================
