----------------------------- MODULE Connection -----------------------------
(***************************************************************************)
(* One proxied connection, from accept to the handler's return, beside the *)
(* server's Shutdown.  Five handlers have the same skeleton, track the     *)
(* client, dial, track the upstream, copy both ways, and differ in how     *)
(* they read a header, dial and end:                                       *)
(*                                                                         *)
(*   sni      inbound handle, proxy          (http-host and tls-sni)       *)
(*   tcpin    inbound handleTCP, shuttleTCP  (tcp_to_vsock)                *)
(*   tcpout   outbound handleTCP, shuttleTCP (vsock_to_tcp)                *)
(*   connect  outbound handleConnect, tunnel (HTTP CONNECT)                *)
(*   forward  outbound handleProxy           (plain HTTP request)          *)
(*                                                                         *)
(* Connections share only the tracking map and the WaitGroup, so one       *)
(* stands for all of them.  The peers send units of data, end their stream *)
(* or reset, and need never read or react.                                 *)
(***************************************************************************)
EXTENDS Integers

CONSTANTS
    Kinds,     \* the handlers considered
    MaxData    \* bound: units of data a peer sends

AllKinds == {"sni", "tcpin", "tcpout", "connect", "forward"}

ASSUME ConnectionAssumption == Kinds \subseteq AllKinds /\ MaxData \in Nat

Ends == {"client", "upstream"}
Other(e) == IF e = "client" THEN "upstream" ELSE "client"

VARIABLES
    kind,     \* which handler serves the connection
    hpc,      \* where the handler is
    sock,     \* the daemon's two sockets; "shut" after CloseWrite
    active,   \* Server.activeConn, of these two
    dial,     \* the upstream dial
    copy,     \* the io.Copy that reads from this end
    buf,      \* units read with the header and not yet forwarded
    spc,      \* where Shutdown is
    peer,     \* what each peer has done: open, ended its stream, reset
    sent,     \* units each peer has sent
    taken,    \* units the daemon has read from each peer
    got,      \* units the daemon has written to each peer
    cut,      \* history: rejected, not dialled or out of drain time
    swept     \* history: connections Shutdown has force-closed

dataVars == <<buf, taken, got>>
peerVars == <<peer, sent>>
vars == <<kind, hpc, sock, active, dial, copy, dataVars, spc, peerVars, cut, swept>>

Inbound == kind \in {"sni", "tcpin"}
Shuttled == kind \in {"tcpin", "tcpout"}

(* Units of the header that are not forwarded: sni replays all it has read.*)
HeaderUnits == IF kind \in {"connect", "forward"} THEN 1 ELSE 0

Init ==
    /\ kind \in Kinds
    /\ hpc = "track"
    /\ sock = [client |-> "open", upstream |-> "none"]
    /\ active = {}
    /\ dial = "none"
    /\ copy = [e \in Ends |-> "off"]
    /\ buf = 0
    /\ spc = "off"
    /\ peer = [e \in Ends |-> "open"] /\ sent = [e \in Ends |-> 0]
    /\ taken = [e \in Ends |-> 0] /\ got = [e \in Ends |-> 0]
    /\ cut = FALSE /\ swept = {}

-----------------------------------------------------------------------------
(* Sockets.                                                                *)

Closed(e) == sock[e] = "closed"

(* A read or a write on this socket fails at once.                         *)
Broken(e) == Closed(e) \/ peer[e] = "gone"

AfterClose(ends) == [e \in Ends |-> IF e \in ends /\ sock[e] # "none" THEN "closed" ELSE sock[e]]

AfterHalfCloseFull(e) == AfterClose({e})

(* halfCloseWrite: TCP and vsock sockets both have CloseWrite.             *)
AfterHalfClose(e) == [sock EXCEPT ![e] = IF @ = "open" THEN "shut" ELSE @]

-----------------------------------------------------------------------------
(* The peers.                                                              *)

PeerSend(e) ==
    /\ sock[e] # "none" /\ peer[e] = "open" /\ sent[e] < MaxData
    /\ sent' = [sent EXCEPT ![e] = @ + 1]
    /\ UNCHANGED <<kind, hpc, sock, active, dial, copy, dataVars, spc, peer, cut, swept>>

PeerEnd(e) ==
    /\ sock[e] # "none" /\ peer[e] = "open"
    /\ peer' = [peer EXCEPT ![e] = "eof"]
    /\ UNCHANGED <<kind, hpc, sock, active, dial, copy, dataVars, spc, sent, cut, swept>>

PeerReset(e) ==
    /\ sock[e] # "none" /\ peer[e] # "gone"
    /\ peer' = [peer EXCEPT ![e] = "gone"]
    /\ UNCHANGED <<kind, hpc, sock, active, dial, copy, dataVars, spc, sent, cut, swept>>

-----------------------------------------------------------------------------
(* The handler up to the copy.                                             *)

HandlerGoto(point) ==
    /\ hpc' = point
    /\ UNCHANGED <<kind, spc, peerVars, swept>>

TrackClient ==
    /\ hpc = "track"
    /\ active' = active \cup {"client"}
    /\ HandlerGoto(IF Shuttled THEN "dial" ELSE "sniff")
    /\ UNCHANGED <<sock, dial, copy, dataVars, cut>>

(* The header is there, and names a route or an allowed destination; more  *)
(* of the stream may have been read with it.                               *)
Sniff ==
    /\ hpc = "sniff" /\ ~Broken("client")
    /\ \E n \in 1 .. sent["client"] :
          /\ taken' = [taken EXCEPT !["client"] = n]
          /\ buf' = n - HeaderUnits
    /\ HandlerGoto("dial")
    /\ UNCHANGED <<sock, active, dial, copy, got, cut>>

(* The read deadline, a bad header, an unauthorized peer, a route miss or  *)
(* a denied destination.  The status line sent back has its own deadline.  *)
SniffFail ==
    /\ hpc = "sniff"
    /\ cut' = TRUE
    /\ HandlerGoto("untrack")
    /\ UNCHANGED <<sock, active, dial, copy, dataVars>>

DialStart ==
    /\ hpc = "dial"
    /\ dial' = "dialing"
    /\ HandlerGoto("dialing")
    /\ UNCHANGED <<sock, active, copy, dataVars, cut>>

cancelled == spc \in {"cancelled", "forced", "returned"}

(* The dialer returns.  DialContext gives no connection once its context   *)
(* is cancelled; the vsock dial knows no context.                          *)
DialOk ==
    /\ dial = "dialing" /\ (Inbound \/ ~cancelled)
    /\ dial' = "ok"
    /\ sock' = [sock EXCEPT !["upstream"] = "open"]
    /\ UNCHANGED <<kind, hpc, active, copy, dataVars, spc, peerVars, cut, swept>>

DialFail ==
    /\ dial = "dialing" /\ dial' = "failed"
    /\ UNCHANGED <<kind, hpc, sock, active, copy, dataVars, spc, peerVars, cut, swept>>

TakeDial ==
    /\ hpc = "dialing" /\ dial = "ok"
    /\ dial' = "taken"
    /\ HandlerGoto("trackUp")
    /\ UNCHANGED <<sock, active, copy, dataVars, cut>>

TakeDialError ==
    /\ hpc = "dialing" /\ dial = "failed"
    /\ cut' = TRUE
    /\ HandlerGoto("untrack")
    /\ UNCHANGED <<sock, active, dial, copy, dataVars>>

(* dialUpstream's select takes dialCtx.Done, though the dial may just have *)
(* succeeded; a goroutine stays behind to receive its result.              *)
DialCancelled ==
    /\ hpc = "dialing" /\ Inbound /\ cancelled
    /\ cut' = TRUE
    /\ HandlerGoto("untrack")
    /\ UNCHANGED <<sock, active, dial, copy, dataVars>>

abandoned == dial \in {"dialing", "ok"} /\ hpc \notin {"dial", "dialing"}

CloseLateDialLeaking ==
    /\ abandoned /\ dial = "ok" /\ dial' = "taken"
    /\ UNCHANGED <<kind, hpc, sock, active, copy, dataVars, spc, peerVars, cut, swept>>

CloseLateDial ==
    /\ abandoned /\ dial = "ok" /\ dial' = "taken"
    /\ sock' = AfterClose({"upstream"})
    /\ UNCHANGED <<kind, hpc, active, copy, dataVars, spc, peerVars, cut, swept>>

AfterTracking == CASE Shuttled -> "copy" [] kind = "sni" -> "replay"
                   [] kind = "connect" -> "reply" [] kind = "forward" -> "request"

StartCopy(point) ==
    copy' = IF point = "copy" THEN [e \in Ends |-> "read"] ELSE copy

TrackUpstream ==
    /\ hpc = "trackUp"
    /\ active' = active \cup {"upstream"}
    /\ StartCopy(AfterTracking)
    /\ HandlerGoto(AfterTracking)
    /\ UNCHANGED <<sock, dial, dataVars, cut>>

(* What sniff has read goes to the upstream first (sni), or the client is  *)
(* told that the tunnel is there (connect).                                *)
Replay ==
    /\ hpc = "replay" /\ ~Broken("upstream")
    /\ got' = [got EXCEPT !["upstream"] = @ + buf]
    /\ buf' = 0
    /\ StartCopy("copy") /\ HandlerGoto("copy")
    /\ UNCHANGED <<sock, active, dial, taken, cut>>

Reply ==
    /\ hpc = "reply" /\ ~Broken("client")
    /\ StartCopy("copy") /\ HandlerGoto("copy")
    /\ UNCHANGED <<sock, active, dial, dataVars, cut>>

FirstWriteFail ==
    /\ \/ hpc = "replay" /\ Broken("upstream")
       \/ hpc = "reply" /\ Broken("client")
    /\ HandlerGoto("untrackUp")
    /\ UNCHANGED <<sock, active, dial, copy, dataVars, cut>>

(* forward: one request, whose body comes from the client, and one         *)
(* response.                                                               *)
Request ==
    /\ hpc = "request" /\ ~Broken("upstream")
    /\ HandlerGoto("response")
    /\ UNCHANGED <<sock, active, dial, copy, dataVars, cut>>

Response ==
    /\ hpc = "response" /\ ~Broken("upstream") /\ sent["upstream"] > 0 /\ ~Broken("client")
    /\ HandlerGoto("untrackUp")
    /\ UNCHANGED <<sock, active, dial, copy, dataVars, cut>>

ExchangeFail ==
    /\ \/ hpc = "request" /\ Broken("upstream")
       \/ hpc = "response" /\ (Broken("upstream") \/ peer["upstream"] = "eof")
       \/ hpc = "response" /\ Broken("client") /\ sent["upstream"] > 0
    /\ HandlerGoto("untrackUp")
    /\ UNCHANGED <<sock, active, dial, copy, dataVars, cut>>

(* req.Write cannot read the rest of the body; it does not find out while  *)
(* it waits for the upstream to take what it has.                          *)
BodyFail ==
    /\ hpc = "request" /\ Broken("client")
    /\ HandlerGoto("untrackUp")
    /\ UNCHANGED <<sock, active, dial, copy, dataVars, cut>>

-----------------------------------------------------------------------------
(* The two copies; copy[e] moves what end e sends to the other end.        *)

CopyGoto(e, point) ==
    /\ copy' = [copy EXCEPT ![e] = point]
    /\ UNCHANGED <<kind, hpc, active, dial, spc, peerVars, cut, swept>>

(* mergeBuffered: what was read with the header comes first.               *)
CopyBuffered ==
    /\ copy["client"] = "read" /\ buf > 0
    /\ buf' = buf - 1
    /\ CopyGoto("client", "write")
    /\ UNCHANGED <<sock, taken, got>>

FromSocket(e) == copy[e] = "read" /\ (e = "client" => buf = 0)

CopyRead(e) ==
    /\ FromSocket(e) /\ ~Broken(e) /\ taken[e] < sent[e]
    /\ taken' = [taken EXCEPT ![e] = @ + 1]
    /\ CopyGoto(e, "write")
    /\ UNCHANGED <<sock, buf, got>>

CopyWrite(e) ==
    /\ copy[e] = "write" /\ ~Broken(Other(e))
    /\ got' = [got EXCEPT ![Other(e)] = @ + 1]
    /\ CopyGoto(e, "read")
    /\ UNCHANGED <<sock, buf, taken>>

CopyEOF(e) ==
    /\ FromSocket(e) /\ ~Broken(e) /\ taken[e] = sent[e] /\ peer[e] = "eof"
    /\ CopyGoto(e, "nil")
    /\ UNCHANGED <<sock, dataVars>>

CopyError(e) ==
    /\ \/ FromSocket(e) /\ Broken(e)
       \/ copy[e] = "write" /\ Broken(Other(e))
    /\ CopyGoto(e, "err")
    /\ UNCHANGED <<sock, dataVars>>

(* proxy and tunnel: the goroutine half-closes its sink, whatever ended it.*)
HalfClose(e) ==
    /\ ~Shuttled /\ copy[e] \in {"nil", "err"}
    /\ sock' = AfterHalfClose(Other(e))
    /\ CopyGoto(e, "done")
    /\ UNCHANGED dataVars

(* Their wg.Wait.                                                          *)
BothDone ==
    /\ hpc = "copy" /\ ~Shuttled /\ \A e \in Ends : copy[e] = "done"
    /\ HandlerGoto("untrackUp")
    /\ UNCHANGED <<sock, active, dial, copy, dataVars, cut>>

(* shuttleTCP: the first result, then the second or the drain timeout.     *)
First(e) ==
    /\ hpc = "copy" /\ Shuttled /\ copy[e] \in {"nil", "err"}
    /\ sock' = IF copy[e] = "nil" THEN AfterHalfClose(Other(e)) ELSE AfterClose(Ends)
    /\ copy' = [copy EXCEPT ![e] = "done"]
    /\ HandlerGoto("second")
    /\ UNCHANGED <<active, dial, dataVars, cut>>

Second(e) ==
    /\ hpc \in {"second", "drained"} /\ copy[e] \in {"nil", "err"}
    /\ copy' = [copy EXCEPT ![e] = "done"]
    /\ HandlerGoto("untrackUp")
    /\ UNCHANGED <<sock, active, dial, dataVars, cut>>

DrainTimeoutNoClose ==
    /\ hpc = "second"
    /\ cut' = TRUE
    /\ HandlerGoto("drained")
    /\ UNCHANGED <<sock, active, dial, copy, dataVars>>

DrainTimeout ==
    /\ hpc = "second"
    /\ sock' = AfterClose(Ends)
    /\ cut' = TRUE
    /\ HandlerGoto("drained")
    /\ UNCHANGED <<active, dial, copy, dataVars>>

-----------------------------------------------------------------------------
(* The deferred calls, last first.                                         *)

Untrack(e, point, next) ==
    /\ hpc = point
    /\ active' = active \ {e}
    /\ HandlerGoto(next)
    /\ UNCHANGED <<sock, dial, copy, dataVars, cut>>

CloseEnd(e, point, next) ==
    /\ hpc = point
    /\ sock' = AfterClose({e})
    /\ HandlerGoto(next)
    /\ UNCHANGED <<active, dial, copy, dataVars, cut>>

TeardownNoUpstreamClose ==
    \/ Untrack("upstream", "untrackUp", "untrack")
    \/ Untrack("client", "untrack", "close") \/ CloseEnd("client", "close", "returned")

Teardown ==
    \/ Untrack("upstream", "untrackUp", "closeUp") \/ CloseEnd("upstream", "closeUp", "untrack")
    \/ Untrack("client", "untrack", "close") \/ CloseEnd("client", "close", "returned")

-----------------------------------------------------------------------------
(* Shutdown.  wg.Wait waits for this handler; the goroutine left behind by *)
(* dialUpstream is not counted.                                            *)

ShutdownGoto(from, to) ==
    /\ spc \in from /\ spc' = to
    /\ UNCHANGED <<kind, hpc, active, dial, copy, dataVars, peerVars, cut>>

Shutdown == ShutdownGoto({"off"}, "wait") /\ UNCHANGED <<sock, swept>>

(* The grace period is over: cancelDial, then the sweep.                   *)
CancelDial == ShutdownGoto({"wait"}, "cancelled") /\ UNCHANGED <<sock, swept>>

ForceCloseClients ==
    /\ ShutdownGoto({"cancelled"}, "forced")
    /\ sock' = AfterClose(active \cap {"client"})
    /\ swept' = active

ForceClose ==
    /\ ShutdownGoto({"cancelled"}, "forced")
    /\ sock' = AfterClose(active)
    /\ swept' = active

ShutdownReturn ==
    /\ hpc = "returned"
    /\ ShutdownGoto({"wait", "forced"}, "returned") /\ UNCHANGED <<sock, swept>>

-----------------------------------------------------------------------------

Peers == \E e \in Ends : PeerSend(e) \/ PeerEnd(e) \/ PeerReset(e)

(* Steps of the handler that end for certain: they wait for nothing        *)
(* outside the daemon, or a deadline bounds them.                          *)
Handler ==
    \/ TrackClient \/ Sniff \/ SniffFail \/ DialStart
    \/ TakeDial \/ TakeDialError \/ DialCancelled \/ TrackUpstream
    \/ FirstWriteFail \/ ExchangeFail
    \/ BothDone \/ (\E e \in Ends : First(e) \/ Second(e))
    \/ Teardown

(* Writes, which wait for the peer to read, and its response.              *)
HandlerIO == Replay \/ Reply \/ Request \/ BodyFail \/ Response

Copy(e) == (e = "client" /\ CopyBuffered) \/ CopyRead(e) \/ CopyEOF(e) \/ CopyError(e)
           \/ HalfClose(e)

Dialer == DialOk \/ DialFail

Stopping == CancelDial \/ ForceClose \/ ShutdownReturn

Next ==
    \/ Peers \/ Handler \/ HandlerIO \/ Dialer \/ CloseLateDial \/ DrainTimeout
    \/ \E e \in Ends : Copy(e) \/ CopyWrite(e)
    \/ Shutdown \/ Stopping

Spec == Init /\ [][Next]_vars

(* Goroutines are scheduled and the daemon's own timers fire; a dial with  *)
(* a cancelled context fails.  The peers, and a vsock dial, may never do   *)
(* anything.                                                               *)
Fairness ==
    /\ WF_vars(Handler) /\ \A e \in Ends : WF_vars(Copy(e))
    /\ WF_vars(CloseLateDial) /\ WF_vars(DrainTimeout)
    /\ WF_vars(~Inbound /\ cancelled /\ DialFail)
    /\ WF_vars(Stopping)

FairSpec == Spec /\ Fairness

-----------------------------------------------------------------------------
(* Properties.                                                             *)

(* The shapes of the connection's state; nothing is read that was not sent.*)
TypeOK ==
    /\ kind \in Kinds
    /\ hpc \in {"track", "sniff", "dial", "dialing", "trackUp", "replay", "reply", "request",
                "response", "copy", "second", "drained", "untrackUp", "closeUp", "untrack",
                "close", "returned"}
    /\ sock \in [Ends -> {"none", "open", "shut", "closed"}]
    /\ active \subseteq Ends /\ swept \subseteq Ends
    /\ dial \in {"none", "dialing", "ok", "failed", "taken"}
    /\ copy \in [Ends -> {"off", "read", "write", "nil", "err", "done"}]
    /\ spc \in {"off", "wait", "cancelled", "forced", "returned"}
    /\ peer \in [Ends -> {"open", "eof", "gone"}]
    /\ sent \in [Ends -> Nat] /\ taken \in [Ends -> Nat] /\ got \in [Ends -> Nat]
    /\ \A e \in Ends : taken[e] <= sent[e]
    /\ buf \in Nat /\ cut \in BOOLEAN

(* A connection that both peers end in order loses nothing in either       *)
(* direction: the side that ends first does not cut off the other, and the *)
(* bytes read along with a header are forwarded.  "A full Close here would *)
(* truncate response bytes still in flight" (outbound/server.go:970).      *)
NoDataLoss ==
    /\ hpc = "returned" /\ kind # "forward" /\ ~cut /\ swept = {}
    /\ \A e \in Ends : peer[e] # "gone"
    => /\ got["upstream"] = sent["client"] - HeaderUnits
       /\ got["client"] = sent["upstream"]

(* Whatever way a handler returns, it has left the tracking map and closed *)
(* its sockets, but for a dial it has abandoned.                           *)
CleanReturn ==
    hpc = "returned" =>
        /\ active = {}
        /\ Closed("client")
        /\ sock["upstream"] \in {"none", "closed"} \/ abandoned

(* The sockets of a connection, on every path of the five handlers: their  *)
(* states stay within bounds and nothing is left of them at the end.       *)
SocketInv == TypeOK /\ CleanReturn

(* A dial that succeeds after its handler has gone is closed: "a cleanup   *)
(* goroutine closes the conn once the dial eventually returns"             *)
(* (inbound/server.go:623-624).                                            *)
LateDialClosed == abandoned /\ dial = "ok" ~> Closed("upstream")

(* "a stuck dial cannot hold the process past shutdown_grace"              *)
(* (inbound/server.go:53-54).                                              *)
DialGivesWay == hpc = "dialing" /\ cancelled ~> hpc # "dialing"

(* Shutdown and a pending dial: the handler gives it up, and nobody is     *)
(* left with its result.                                                   *)
DialsSettle == LateDialClosed /\ DialGivesWay

(* shuttleTCP returns once one direction has, though the other peer is     *)
(* silent: the drain timeout "keeps a wedged peer from leaking a goroutine *)
(* indefinitely" (inbound/tcp.go:17).                                      *)
DrainBounded == hpc = "second" ~> hpc = "returned"

(* A handler whose two sockets were both tracked at the sweep returns, and *)
(* Shutdown with it.                                                       *)
SweptReturns == spc = "forced" /\ swept = Ends ~> spc = "returned"

(* Shutdown returns after its grace period, wherever the handler is when   *)
(* the sweep comes and whatever the peers do, for the handlers whose dial  *)
(* takes the context and which notice a closed client before they wait for *)
(* the upstream.                                                           *)
PromptShutdownReturns ==
    spc = "wait" /\ kind \in {"tcpout", "connect"} ~> spc = "returned"

(* A forced shutdown ends, for every kind of handler as far as the code    *)
(* ensures it.                                                             *)
SweepEnds == SweptReturns /\ PromptShutdownReturns

(* "waits up to shutdown_grace for active connections to drain, then       *)
(* force-closes the rest" (README.md:677-680): Shutdown returns, whatever  *)
(* the peers do.  It is violated: a handler may track its upstream after   *)
(* the sweep and then wait for it without bound.                           *)
ForcedShutdownReturns == spc = "wait" ~> spc = "returned"
=============================================================================
