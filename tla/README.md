# TLA+ models of vsockd and its supervisor

This directory holds TLA+ specifications of the repository's two
programs, TLC configurations that check them on small instances, and TLAPS
proofs of their main safety properties. Every definition is translated from
the Go source; `PROJECT.json` maps each one to its lines.

## The system

Two programs:

* **vsockd**, on the parent of a Nitro enclave, forwards connections between
  TCP and vsock. `inbound` listens on TCP, finds the host name (HTTP Host or
  TLS SNI) or takes a fixed target, and dials an enclave over vsock.
  `outbound` listens on vsock and is a forward proxy with per-CID allowlists
  (`http`), a raw passthrough (`tcp`) or a log sink (`log_relay`). `app` owns
  both, reloads them on SIGHUP and stops them on SIGTERM.
* **supervisor**, run under tini in the enclave, starts the configured processes,
  applies their restart and failure policies, captures their output into a
  bounded buffer and ships it to the parent's `log_relay`.

| Component | State | Operations | Hard because |
|---|---|---|---|
| `supervisor/buffer.go` RingBuffer | queued frames, byte total, drop count | Enqueue, DrainTo, requeueFront, TakeDrops, Len, Drops | producers run during a drain; requeue over budget |
| `supervisor/shipper.go` Shipper | wake token, pendingDrops, draining, backoff | Enqueue/notify, Run, serve, drainOnce, Flush | three kinds of goroutines; dials and writes fail anywhere |
| `supervisor/manager.go` Manager | unit states, restart history, cmd, kill timers, shuttingDown, exit code | spawn, handleExit, applyOnFailure, beginShutdown | exits, signals, timers and start failures in any order |
| `cmd/supervisor` | - | supervise: manager, then Flush, then cancel | who may still write when |
| `outbound/server.go` listeners | listener objects, sockets, accept loops, tracked connections | NewServer, Start, PrepareApply, CommitApply, AbortApply, Shutdown | partial failure of a staged reload; connections beside it |
| `outbound/logrelay.go` sinks | reference counts, the relayState of each listener | acquire, release, closeSink, handleLogRelay | a connection loads and acquires while a reload swaps and releases |
| `outbound/server.go` handlers, `outbound/tcp.go` | connections, upstreams | CONNECT, proxy, tunnel, shuttle | half-close, drain timeout, forced close |
| `inbound/*.go` | listeners, routes, tracked connections | sniff, dialUpstream, proxy, shuttle, reload, Shutdown | a dial that ends when shutdown forces connections closed |
| `app/app.go`, `cmd/vsockd` | both servers, current config, metrics server | Start, Reload, Shutdown, signal loop | staging over two servers; concurrent shutdown |
| `allowlist`, `config` | the file, compiled patterns | validate, compile, match | two readers of one syntax; rules across sections; ranges |
| `inbound/sni.go`, `httphost.go` | none | sniff | length arithmetic on untrusted bytes |
| `outbound/logrelay.go` handler, `supervisor/manager.go` pump | a line buffer | read, cut, enrich, write | reads of any size around the limit; host fields in the peer's records |

Producers and the manager meet the shipper only through `Enqueue` and `Flush`.
Reloads, connections and shutdown of a server meet in the listener objects
and, for log_relay, in the reference counts of the sinks. `reloadMu` keeps
Reload and Shutdown apart.

What makes the parts correct: the buffer keeps its budget and its count; no
frame is lost without being counted and none arrives twice or out of order;
the drain loop is always woken; no process is lost, doubled or left behind; a
shutdown reaches every child, restarts none and ends; the crash-loop cap
holds; the exit code tells the truth; a file is closed exactly when its last
user is done; a failed reload changes nothing and leaks nothing; both servers
end up on one configuration; a name leads where the file says and an enclave
reaches what its patterns say and nothing else; records are the lines, with
the host's fields unshadowed; a termination signal ends the daemon.

## Modules

| Module | Models |
|---|---|
| `RingBuffer` | the buffer; extended by `Shipper` |
| `Shipper` | producers, the Run goroutine and Flush around one buffer |
| `LossyLog` | abstract: what the shipper promises; implemented by `Shipper` |
| `Manager` | the run loop, its children, timers and reap goroutines |
| `Outbound` | listeners, two-phase reload, log_relay sinks and handlers, shutdown |
| `Inbound` | TCP listeners, two-phase reload of route tables, accept loops, shutdown |
| `Server` | abstract: what a server promises the daemon; implemented by `Inbound` and by `Outbound` |
| `App` | the daemon: start and rollback, signals, reload over two instances of `Server`, metrics server, shutdown |
| `Connection` | one connection through each of the five handlers, beside a forced shutdown |
| `Allowlist` | egress patterns: validation, compilation, matching, and what a pattern stands for |
| `Admission` | which files are accepted, the tables built from them, and what is decided for a connection; extends `Allowlist` |
| `LogRelay` | from a stream of bytes to log records: the relay's handler and the supervisor's pump |
| `MC...` | constants, and symmetry for `Inbound`, for TLC |
| `ShipperProofs`, `ManagerProofs`, `AppProofs`, `InboundProofs`, `OutboundProofs`, `ConnectionProofs`, `AdmissionProofs`, `LogRelayProofs` | theorems about the module each extends |

**RingBuffer, Shipper.** A frame is its position in the enqueue order and its
length; the text is never inspected. Each mutex section is one operator;
`DrainTo`, which releases the mutex while writing, is `DrainTake`, then one
`WriteFrame` or `WriteFrameFail` per frame. `pc` is the Run goroutine's point:
`top`, `sleep`, `dial` (Run), `begin` to `err` (drainOnce, one point per
critical section or write), `warn`, `select` (serve). `fpc` is Flush, with the
three reads of `idle()` as three steps. A producer is `Enqueue` and then
`Notify`. The shipper's own warnings re-enter the buffer (`LogWarning`), as
they do through the slog handler. `evicted`, `delivered`, `reported`,
`lastSent` and `enqueued` are history variables for the properties. A failed
connection write is taken to deliver no whole record.

**Manager.** A *job* is one spawn on its way back to the loop: alive, sent
SIGTERM or SIGKILL, exited with its pipes not yet drained, and finally its
exit event. The run loop alternates between `top` (the two checks) and
`select`; `HandleExit` is the whole of `handleExit`, with one action for each
of its outcomes. `cmd` and `timer` hold spawn numbers, so a stale `unit.cmd`
after a failed restart is what it is in the code. `now` moves only where a
step can observe it. `restarts` and `lastCode` are history.

**Outbound.** A listener object and a sink are named by port and by the
generation (start or reload) that made them, so a removed listener that still
serves a connection, and its successor on the same port, are different
objects. `pc` walks NewServer and Start (`construct`, `bind`), PrepareApply
entry by entry (`stage`), CommitApply (`swap`, `close`) and Shutdown. `job` is
the part of a `Swap` or `close()` still to be done: unlinking the relayState
and releasing the old sink are separate steps, between which handlers run. An
accept loop of a log_relay listener is at `accept`, `track`, `load`,
`acquire`, `relay` or `untrack`. AbortApply is offered to any caller, as the
type's contract says; `app.Reload` itself only aborts the inbound plan.

**Inbound.** As in `Outbound`, a listener object is an address and the
generation that made it. A configuration gives each address an HTTP mode or a
tcp_to_vsock target; a route table is known by the generation it came with,
which is all that a reload can change about it. The configuration loader has
ruled out two entries for one address. `pc` walks Start (`bind`), PrepareApply
entry by entry (`stage`), CommitApply (`swap`, `close`) and Shutdown, with
accepts and route look-ups of running connections between any two of its
steps. The context given to Start is never cancelled before Shutdown returns,
so an accept loop ends only when its listener is closed.

**Connection.** One proxied connection of a `kind`: `sni` (inbound `handle`,
both HTTP modes), `tcpin`, `tcpout` (the two `handleTCP` and `shuttleTCP`),
`connect` (CONNECT and its tunnel) and `forward` (a plain HTTP request). Data
are counted in units, at most `MaxData` from each peer; the
peers send, end and reset as they like. `hpc` is the handler, with one point
for each call that may block; each copy goroutine has a state of its own.
The five kinds share the actions whose code is the same and differ where it
differs: only the shuttles have a drain timer, only `sni` and `tcpin` dial
through the cancellable `dialUpstream` with its clean-up goroutine, a
`connect` starts with the bytes left in its bufio reader. Shutdown is the grace
period, the cancelled dials, and one sweep that closes the connections in
`activeConn` at that moment.

**Server, App.** `Server` is a set of endpoints, each serving a setting or
nothing. Prepare changes nothing, a commit moves some endpoints at a time
straight to their new setting, and a shutdown closes them and waits until no
connection is left. `App` has two of them, `In` and `Out`, and adds what
`app.go` and `cmd/vsockd` add: `at` is the main goroutine (Start and its
rollback, the signal loop, Reload call by call, Shutdown), `sigs` the channel
of signals, which drops what finds it full, and `metrics` the metrics server
with its own goroutine and its own grace, fixed when it started. `forced` and
`cut` record which shutdown ran out of time and whether it cut a connection.
Nothing makes a connection end here, not even that it was cut off:
`TermEndsDaemon` says that a termination signal ends the daemon *if* a server
that has cut its connections off loses them in the end (`ForcedConnsEnd`).
`Connection` shows this of every connection that the sweep closes
(`SweepEnds`), and `connection_overrun` that one whose dial completes after the
sweep can be an exception; then the daemon does not end either.

**Allowlist, Admission.** A host is the sequence of its labels, so a suffix
match on strings with a leading dot is a proper suffix of sequences. A pattern
is what `SplitHostPort` and `Atoi` make of it. `Validate` has every rule of the
configuration on listeners and across sections. `Load` is the check of a file
and the staging on both servers; `Commit` switches one listener over at a
time, in the order of the two `CommitApply`. One connection is followed at a
time, since connections do not affect one another's decisions, while reloads go
on. For a tls-sni listener the ClientHello is walked: what bytes are there is
irrelevant to the bounds, so each length is any number, and `left` and
`within` are the lengths of the slice in hand and of what was left around it.
For an http-host listener a Host header is a sequence of tokens, given with
the name a client means by it. An outbound connection goes from the CID's
matcher, taken a step after the connection is accepted, through the request and
the egress check to one counted outcome. The
table that a connection uses carries the file it was built from, which is
what the properties compare with; a pattern's meaning (`Denotes`) is stated
without reference to kinds of compiled patterns. Passthrough and log_relay
listeners take part in validation and in the refusal of changes that need a
restart, but their connections need no decision. A metrics endpoint from the
first start stays bound whatever later files say; a reload that wants its
port fails at bind, which is a refused `Load`.

**LogRelay.** A byte is a JSON token as the decoder sees it, or CR or LF.
Reads return any number of bytes; `HasLine`, `Full` and `Fill` are
`bufio.Reader.ReadSlice` over a buffer of `BufSize`. One module serves both
loops, which differ in trimming, in the record they make and in what a failing
sink does. What the records should be is stated without regard to buffers:
`LineStarts` and `LinesBegun` number the lines of the stream, and `Expected`
is what the line that starts at a position should become. The scan of
`hasReservedTopLevelKey` (`scanToken`, `Scan`) is compared with `RootKeys`,
which finds the keys by nesting depth and by the parity of the items of the
root.

## Runs

| Run | Bounds | Shows |
|---|---|---|
| `shipper` | 2 producers, 4 frames of 3 lengths (one over the byte budget), budgets 4 bytes and 3 records, 2 faults | budget, byte count, accounting, order, wake-up; everything is written or reported once faults stop; `LossyLog` is implemented |
| `shipper_flush_race` | no faults | **violated**: Flush may return with frames in flight |
| `manager` | 2 units, 4 policies each (every role, restart mode and on_failure mode), clock to 1, window 1, budget 1 | bookkeeping, shutdown, crash-loop cap, exit code; a shutdown ends; every trigger leads to one |
| `manager_orphans` | 1 unit, pipes may stay open | **violated**: Run never returns |
| `outbound` | 2 ports, one of any mode or absent, one log_relay; 2 reloads | reference counts, no leak, no write after close, reload atomicity; Shutdown returns; `Server` is implemented |
| `inbound` | 2 addresses, every configuration of 2 modes and 2 targets, 2 reloads, 1 connection | what is served is what was committed; kept addresses are not interrupted; no socket leaks; `Server` is implemented |
| `connection` | all five kinds, up to 2 units from each peer | no data lost by orderly peers; every return closes and untracks both sockets; late dials are closed, cancelled dials give way, the drain timer ends a shuttle, a swept handler ends; Shutdown returns for `tcpout` and `connect` |
| `connection_overrun` | `forward`, up to 1 unit | **violated**: a dial that completes too late keeps Shutdown waiting |
| `app` | 2 inbound endpoints, 1 outbound, 2 configurations of different grace, 2 queued signals, metrics on or off | one configuration after every reload, no outbound ahead of inbound, nothing left at exit, status 0 only if nothing was cut, a termination signal ends the daemon if connections that were cut off end |
| `app_start_hang` | the same | **violated**: a failed Start may never return |
| `log_relay` | lines of 0 to 2 limits+3 bytes, objects with host keys at every depth, LF, CRLF or nothing at the end, every enrichment, both loops | records are the lines, cut exactly at the limit; host fields neither shadowed nor needlessly rewrapped; the loop ends |
| `admission` | 3 loads of about 50 files (acceptable, or with one fault each), fragments of up to 29 bytes with a fixed part of 2 instead of 34, 3 CIDs, 15 requests, 10 Host headers | the walk stays in bounds; accepted files build; routing by name; egress by policy; one count per connection; one listener per enclave |

Where several facts are one invariant of the code's own state, they are named
one by one and checked as their conjunction: `BufferInv`, `SinkInv`,
`OutboundConfigInv`, `InboundConfigInv`, `SocketInv`, `ReloadInv`,
`FramingRight`, `EnrichedRight` and `AcceptedFilesServe`, and among the temporal
ones `DialsSettle` and `SweepEnds`. The type invariant of a module is a part of
one of these, except for `Manager`, whose `TypeOK` is proved. The inductive
invariants `IInv` of the eight proof modules are theorems and not checked by a
run.

The bounds are chosen so that the cases that matter occur: a frame larger than
the whole budget, evictions while a drain is in flight, a fault during the
retry of a fault, a drop record that fails; a budget used, exhausted and
renewed as the window passes, a restart that fails to start before a shutdown;
a port that is removed and returns while its first listener still relays; a
peer that ends one direction and goes on in the other, data still buffered
when a copy ends, a dial that completes before, during and after the sweep;
a reload that succeeds on one server and fails on the other, one that changes
the grace before a shutdown, a termination signal behind two reloads; a line
that fills the buffer to the byte, one that does with its CR, two of them in
turn; patterns and ports at 0, 1, 65535 and 65536, names that differ by case,
an extension that ends where its vector does.
A second connection would add nothing to `Connection`, since connections share
only the map that the sweep reads, nor to `Inbound`, where they share nothing.
The fragment of 29 bytes is the shortest in which a walk can skip one
extension and one name and still find another.
`MaxFrames` bounds only what producers enqueue; warnings come on top. Symmetry
is used only in `inbound`, over addresses and targets, which the module treats
alike, and where every property is a safety property. Deadlock is checked in `admission`,
where a connection always reaches an outcome; elsewhere the check is off
because the system may stop: Flush has returned and the context is cancelled,
Run, Shutdown or the loop has returned, the process has exited.

The four violated properties are recorded as findings. Each is a sentence of
the repository. `shipper_flush_race` is a narrow race, and Flush is
best-effort and bounded by its grace window in any case. `manager_orphans`
needs a descendant that outlives its parent with the pipes open. In
`connection_overrun` the upstream is tracked after the sweep and
`req.Write`, if the upstream does not read, or else `ReadResponse` waits on it
without a deadline; the inbound `proxy` can wait in
the same way, and a `tcpin` shuttle if even its client was not yet tracked at
the sweep. `tcpout` and `connect` are not affected: their dials take the
context, and a client already closed ends them. In `app_start_hang` the
inbound accept loops run while the rest of Start fails, and the rollback waits
for whoever has connected.

Other places where the code and its comments differ, seen while modelling and
not made runs of their own:

* `drainOnce` takes the drop count before the frames, so a gap can be reported
  one cycle after newer frames (`shipper.go:188`, the comment at 181).
* `setExitCode` ignores 0, so a `restart: always` task that exits 0 until its
  budget is used up is abandoned with exit code 0 (`manager.go:401`, the
  comment at 355).
* `handle` loads the route table after sniffing, not at accept
  (`inbound/server.go:582`, the comment at 430); what it uses is still a
  committed table (`RoutedByCommitted`, `RoutedByName`).
* When the grace runs out, closing `metricsLn` does nothing, because
  `srv.Shutdown` has closed it already; the metrics server ends by its own
  timer, whose length is the grace at Start (`app.go:211` and 317). After a
  reload that lowers the grace the daemon may outlast the new one.
* A line of `max_line_bytes - 1` bytes and CRLF fits the buffer, one of
  `max_line_bytes` and CRLF does not and is flagged truncated: the CR counts
  (`logrelay.go:430`). `LinesExact`, a part of `FramingRight`, states this.
* `maxChildLine` equals the relay's default limit, but the envelope makes the
  record longer, so a full-length child line is truncated again by the relay
  (`manager.go:253`).

### Refinement

`ImplementsServer` (in `Inbound` and in `Outbound`) and `ImplementsLog` (in
`Shipper`) say that the detailed specification implements the abstract one
under a refinement mapping written beside it; TLC checks on the runs' instances
that initial states and steps map to initial states and steps or stutters, and
all three are theorems. For a server the
mapping says what an endpoint serves: the setting its open listener object
would give the next connection. So the interleavings that `App` explores over
`Server` are those that the two real servers allow, one listener at a time
included. For the shipper, `pending` is what is in flight followed by what is
queued, and `owed` is every count of drops not yet written, wherever it is
carried.

### Fairness

* Shipper: weak fairness of the Run goroutine, of Flush and of each
  producer's `notify`: Go schedules runnable goroutines, timers and tickers
  fire. New frames, the call of Flush and its deadline are not assumed. Faults
  are finite (`MaxFaults`), which stands for "once the parent is reachable".
* Manager: weak fairness of the loop, of each kill timer and of the death of a
  SIGKILLed process; EOF on its pipes unless `Orphans`. No child is assumed to
  exit or to obey SIGTERM.
* Outbound: weak fairness of Shutdown's own steps, of the grace timer and of
  each handler; a relay ends for certain only once Shutdown has closed its
  connection. Peers are not assumed to hang up.
* Connection: weak fairness of the handler and of the copy goroutines, of the
  sniff and drain timers, of the grace timer and sweep, of the failure of a
  dial whose context is cancelled, and of the goroutine that closes a late
  dial. No peer is assumed to send, read or hang up, and no vsock dial to
  return.
* App: weak fairness of the main goroutine, of the three shutdown goroutines
  and of the two timers. Nothing is assumed of clients, scrapers or senders of
  signals, nor of connections that were cut off; what `TermEndsDaemon` needs of
  the latter is a condition of the property.
* LogRelay: weak fairness of the loop as a whole, the peer's data and its end
  included, because a stream that stays silent keeps the handler by design.
* Inbound and Admission state no liveness and need no fairness.

## Proofs

The eight proof modules hold for every value of the constants: any budgets,
frame sizes, producers, faults and backoff bounds; any set of units, any
policies that `Process.validate` accepts, any exit codes; any ports,
addresses, configurations, connections and number of reloads; any amount of
data; any files, patterns, requests and names; any stream, line limit, cut
into reads and JSON objects. The assumptions are named and
stand in the module that declares the constants, and TLC evaluates them in
every run:

* `BudgetAssumption`, `SizesAssumption`, `ShipperAssumption`,
  `ManagerAssumption`: what the configuration loaders and constructors ensure.
* `AppAssumption`, `InboundAssumption`, `OutboundAssumption`,
  `ConnectionAssumption`: the types of the constants.
* `LabelAssumption`: lower-casing a label is idempotent and makes no star or
  empty label of another one.
* `AdmissionAssumption`: a file has the shape that the YAML decoder gives it,
  a request's host is a sequence of at least one label, and a Host header for
  which a meaning is given has the form of RFC 7230 (nothing is assumed of the
  others).
* `RelayAssumption`: the line limit is at least the floor of `bufio`, as
  `minMaxLineBytes` ensures; the types of streams and objects; and objects are
  `WellFormed`, which is what `json.Valid` has ensured before they are
  scanned: the opening brace is not closed before the last token, and an
  object or array in the root is a value, never a key.

Every module proves `Spec => []IInv` for an inductive invariant `IInv`, one
step per action, and reads the listed properties off it.

*Shipper.* Accounting is inductive with the types. The order of delivery is
not: that a written frame is newer than the last needs that what is in flight
precedes what is queued and both are increasing (`QueueOrder`), kept by a
requeue only because it prepends. `NoLostWake` needs to know that, from the
moment the buffer is emptied until the loop blocks, whoever added something
has notified or will (`WakePromised`). `Evict` is handled by one lemma, that
what it leaves is a suffix and the rest is counted. The refinement of
`LossyLog` needs of each operation on the two queues what it does to the
sequence of ids `inflight \o frames`: an eviction or a requeue over budget
removes a stretch after the frames in flight, a drain moves nothing, a write
takes the first. `BufferInv` adds that the byte counter is the sum of the
lengths in the queue. The sum of a sequence is a recursive function of its
running totals; that the function exists and that the sum of a concatenation
is the sum of the sums are shown by induction on positions (lemma
`Induction`, drawn from the library's theorem that inclusion of finite sets is
well founded).

*Manager.* `OneJobPerUnit` and `ShutdownReachesAll` are inductive together
with `LoopEnds` (nothing is signalled and no timer armed before a shutdown).
`RestartBudget` needs that pruning never forgets a restart that still counts
(`HistoryCoversWindow`); its step is one fact on cardinalities, that the
recent restarts after an allowed one are the pruned history plus one.
`ExitCodeHonest` needs that the unit that explains the exit code is not
running and so never changes again.

*App.* Two tables: the place of the main goroutine fixes the phases of both
servers and of the metrics server, and the phase of a server fixes what it
serves and plans. The properties are read off at the places they speak of.
What `App` assumes of a server is module `Server`, which both servers are
proved to implement.

*Inbound.* `InboundConfigInv` speaks of a server between reloads; the
invariant says what holds on the way: the plan (`PlanSound`, `Walked`), which
socket an address has while a plan is staged, committed or taken back
(`Sockets`), which loops run (`Loops`) and which table a listener offers
(`Tables`). That only one socket of an address is open at a time also makes
the refinement mapping, which chooses the open listener of an endpoint, a
function of the step.

*Outbound.* Two layers. `Structure` is what `Inbound` has, and the settings of
each log_relay listener; it mentions no reference count. Above it, a count
equals the number of holders of the sink, because each step moves a holder and
the count together and a sink of a generation not yet reached has none
(`FreshSinks`). A sink is open exactly while its count is positive, so a relay,
which is a holder, writes to an open file. That nothing remains open after the
end needs that then there are no holders (`Drained`).

*Connection.* The place of the handler, with how far the dial is, fixes which
sockets exist, are tracked and are closed (`Places`); `SocketInv` is that at
the return. For `NoDataLoss`, as long as no timeout, reset or force-close has
occurred (`Orderly`), what was read from a peer is what the other one got,
plus what is in a copy's hand, in the bufio reader and in the header
(`Conserved`). With `EndsAtEOF`, that a copy then ends only when its stream
has, everything sent has arrived at the return.

*Admission.* Lemmas about the operators first: every pattern that
`validatePattern` accepts compiles (`AcceptedCompiles`); a compiled pattern
matches what the pattern denotes, for any labels, wildcard suffixes included
(`WildcardMeaning`, `MatchesMeaning`); `stripPort` finds the name that a
header means (`StripsPort`); in an accepted file an address, a port and a CID
each lead to one entry (`OneInbound`, `OneOutbound`, `OneEntry`). Then every
table in use, that of the connection included, was built from an accepted
file, and a listener that a commit has reached has the table of the last one.
The bounds of the ClientHello walk are arithmetic on each vector.

*LogRelay.* The invariant places the loop in the stream: the buffer is a
window of it that ends where reading has come to (`Window`); a line is read
from its start, and what is discarded is the inside of one (`Standing`); there
is a record for every line begun and dealt with (`Counted`), and each is the
one that `Expected` gives, with the host's keys as they should be
(`Recorded`). Both properties are read off. A step that writes a record uses
that the number of a line is its own (`NumberIsOwn`) and, for the keys,
`ScanRight`: for every well-formed object the scan reports a reserved key
exactly when the root has one, by induction on the tokens scanned.

Every safety property of a passing run is stated by a theorem. With TLC stay
the liveness properties, because fairness and ENABLED are out of the prover's
reach, and the four runs that expect a violation, which are counterexamples.

## The plan

A possible extension is `Supervise`, the manager and the shipper composed.
They meet in one place only, the order in which `main` lets the manager return,
flushes and cancels the shipper, and each module has its half of it.

## Not modelled

YAML decoding and JSON text are libraries' work. The text of HTTP requests
and headers is read by `net/textproto` and `net/http`; their failures are
steps, their grammar is not modelled. Log wording, Prometheus registration and
byte counters, flags, environment variables and the choice of log handlers
carry no state that a property depends on. `internal/vsockconn` is a thin
wrapper over a vsock library and an in-process double for tests: dial, accept
and close are modelled from how the servers use them. The slog handler of the
supervisor appears only as the path by which warnings reach the buffer.
