-------------------------- MODULE ConnectionProofs --------------------------
(***************************************************************************)
(* The safety properties of one proxied connection, for every set of       *)
(* handlers and any amount of data.                                        *)
(*                                                                         *)
(* Where the handler is, and how far the dial, decides which sockets exist,*)
(* are tracked and are closed; SocketInv is read off at the return.  Data  *)
(* are conserved as long as nothing is forced: what was read from a peer   *)
(* is the header, what is buffered, what a copy has in hand and what the   *)
(* other peer was given.  That a copy then ends only at the end of its     *)
(* stream is what needs the order in which the handlers close sockets.     *)
(***************************************************************************)
EXTENDS Connection, TLAPS

(* The handler has an upstream connection of its own.                      *)
Linked == {"trackUp", "replay", "reply", "request", "response", "copy", "second", "drained",
           "untrackUp", "closeUp"}

(* The deferred calls run.                                                 *)
Late == {"untrackUp", "closeUp", "untrack", "close", "returned"}

(* No copy has started.                                                    *)
Early == {"track", "sniff", "dial", "dialing", "trackUp", "replay", "reply", "request", "response"}

(* The dial belongs to the handler until it is taken or abandoned.         *)
Dials ==
    /\ hpc \in {"track", "sniff", "dial"} => dial = "none"
    /\ hpc = "dialing" => dial \in {"dialing", "ok", "failed"}
    /\ hpc \in Linked => dial = "taken"
    /\ sock["upstream"] = "none" <=> dial \in {"none", "dialing", "failed"}
    /\ sock["client"] # "none"

(* What is in activeConn, and what the sweep has taken from it.            *)
Tracked ==
    /\ spc \in {"off", "wait", "cancelled"} => swept = {}
    /\ "client" \in active => hpc \notin {"track", "close", "returned"}
    /\ "upstream" \in active => hpc \in Linked \ {"trackUp", "closeUp"}

(* What the deferred calls have closed.                                    *)
Closing ==
    /\ hpc \in {"untrack", "close", "returned"} /\ dial = "taken" => Closed("upstream")
    /\ hpc = "returned" => Closed("client")

(* Which handler is where, and how far its copies are.                     *)
Copies ==
    /\ hpc = "replay" => kind = "sni"
    /\ hpc = "reply" => kind = "connect"
    /\ hpc \in {"request", "response"} => kind = "forward"
    /\ hpc \in Early \/ kind = "forward" => \A e \in Ends : copy[e] = "off"
    /\ hpc \in {"second", "drained"} => \E e \in Ends : copy[e] = "done"
    /\ hpc = "drained" => cut

Places == Dials /\ Tracked /\ Closing /\ Copies

(* Nothing has gone wrong: no rejection, no timeout, no force-close and no *)
(* reset.                                                                  *)
Orderly == ~cut /\ swept = {} /\ \A e \in Ends : peer[e] # "gone"

(* Until the deferred calls run, the sockets of an orderly connection stay *)
(* open.                                                                   *)
StaysOpen == Orderly /\ hpc \notin Late => \A e \in Ends : ~Closed(e)

(* A copy of an orderly connection ends at the end of its stream, with     *)
(* everything read, and the handler returns after both.                    *)
EndsAtEOF ==
    Orderly =>
        /\ \A e \in Ends :
              /\ copy[e] # "err"
              /\ copy[e] \in {"nil", "done"} =>
                    peer[e] = "eof" /\ taken[e] = sent[e] /\ (e = "client" => buf = 0)
        /\ hpc \in Late /\ kind # "forward" => \A e \in Ends : copy[e] = "done"

InHand(e) == IF copy[e] = "write" THEN 1 ELSE 0

HeaderRead == IF hpc \in {"track", "sniff"} THEN 0 ELSE HeaderUnits

(* What was read from a peer is where it should be.                        *)
Conserved ==
    /\ hpc \in {"track", "sniff"} => taken["client"] = 0
    /\ Orderly =>
        /\ taken["client"] = got["upstream"] + InHand("client") + buf + HeaderRead
        /\ taken["upstream"] = got["client"] + InHand("upstream")

(* The inductive invariant.                                                *)
IInv == TypeOK /\ Places /\ StaysOpen /\ EndsAtEOF /\ Conserved

(* TypeOK in two parts.                                                    *)
Control ==
    /\ kind \in Kinds
    /\ hpc \in {"track", "sniff", "dial", "dialing", "trackUp", "replay", "reply", "request",
                "response", "copy", "second", "drained", "untrackUp", "closeUp", "untrack",
                "close", "returned"}
    /\ sock \in [Ends -> {"none", "open", "shut", "closed"}]
    /\ active \subseteq Ends /\ swept \subseteq Ends
    /\ dial \in {"none", "dialing", "ok", "failed", "taken"}
    /\ copy \in [Ends -> {"off", "read", "write", "nil", "err", "done"}]
    /\ spc \in {"off", "wait", "cancelled", "forced", "returned"}
    /\ peer \in [Ends -> {"open", "eof", "gone"}]

Numbers ==
    /\ sent \in [Ends -> Nat] /\ taken \in [Ends -> Nat] /\ got \in [Ends -> Nat]
    /\ \A e \in Ends : taken[e] <= sent[e]
    /\ buf \in Nat
-----------------------------------------------------------------------------

(* There are two ends, and the handlers are the five.                      *)
LEMMA Two ==
    /\ Ends = {"client", "upstream"} /\ Kinds \subseteq AllKinds
    /\ Other("client") = "upstream" /\ Other("upstream") = "client"
  BY ConnectionAssumption DEF Ends, Other

(* The shapes that are not numbers.                                        *)
LEMMA ControlStep ==
    Control /\ [Next]_vars => Control'
  <1> SUFFICES ASSUME Control, [Next]_vars PROVE Control'
    OBVIOUS
  <1> USE Two DEF Control, HandlerGoto, dataVars, peerVars
  <1>1. CASE \E e \in Ends : PeerSend(e) \/ PeerEnd(e) \/ PeerReset(e)
    BY <1>1 DEF PeerSend, PeerEnd, PeerReset
  <1>2. CASE TrackClient
    BY <1>2 DEF TrackClient, Shuttled
  <1>3. CASE Sniff \/ SniffFail
    BY <1>3 DEF Sniff, SniffFail, HeaderUnits
  <1>4. CASE DialStart \/ DialOk \/ DialFail
    BY <1>4 DEF DialStart, DialOk, DialFail
  <1>5. CASE TakeDial \/ TakeDialError \/ DialCancelled
    BY <1>5 DEF TakeDial, TakeDialError, DialCancelled
  <1>6. CASE CloseLateDial
    BY <1>6 DEF CloseLateDial, AfterClose, abandoned
  <1>7. CASE TrackUpstream
    BY <1>7 DEF TrackUpstream, StartCopy, AfterTracking, Shuttled, AllKinds
  <1>8. CASE Replay \/ Reply \/ FirstWriteFail
    BY <1>8 DEF Replay, Reply, FirstWriteFail, StartCopy, Broken
  <1>9. CASE Request \/ BodyFail \/ Response \/ ExchangeFail
    BY <1>9 DEF Request, BodyFail, Response, ExchangeFail
  <1>10. CASE CopyBuffered
    BY <1>10 DEF CopyBuffered, CopyGoto
  <1>11. CASE \E e \in Ends : CopyRead(e) \/ CopyWrite(e)
    <2>1. /\ UNCHANGED <<kind, hpc, sock, active, dial, spc, peer, swept>>
          /\ \E e \in Ends, to \in {"read", "write"} : copy' = [copy EXCEPT ![e] = to]
      BY <1>11 DEF CopyRead, CopyWrite, CopyGoto
    <2> QED
      BY <2>1
  <1>12. CASE \E e \in Ends : CopyEOF(e) \/ CopyError(e)
    <2>1. /\ UNCHANGED <<kind, hpc, sock, active, dial, spc, peer, swept>>
          /\ \E e \in Ends, to \in {"nil", "err"} : copy' = [copy EXCEPT ![e] = to]
      BY <1>12 DEF CopyEOF, CopyError, CopyGoto
    <2> QED
      BY <2>1
  <1>13. CASE (\E e \in Ends : HalfClose(e)) \/ BothDone
    <2>1. ASSUME NEW e \in Ends, HalfClose(e) PROVE Control'
      <3>1. Other(e) \in Ends
        OBVIOUS
      <3>2. sock' \in [Ends -> {"none", "open", "shut", "closed"}]
        BY <2>1, <3>1 DEF HalfClose, AfterHalfClose
      <3> QED
        BY <2>1, <3>2 DEF HalfClose, CopyGoto
    <2>2. CASE BothDone
      BY <2>2 DEF BothDone
    <2> QED
      BY <1>13, <2>1, <2>2
  <1>14. CASE \E e \in Ends : First(e)
    BY <1>14 DEF First, AfterHalfClose, AfterClose, Shuttled
  <1>15. CASE (\E e \in Ends : Second(e)) \/ DrainTimeout
    BY <1>15 DEF Second, DrainTimeout, AfterClose
  <1>16. CASE Teardown
    BY <1>16 DEF Teardown, Untrack, CloseEnd, AfterClose
  <1>17. CASE Shutdown \/ CancelDial \/ ShutdownReturn
    BY <1>17 DEF Shutdown, CancelDial, ShutdownReturn, ShutdownGoto
  <1>18. CASE ForceClose
    BY <1>18 DEF ForceClose, ShutdownGoto, AfterClose
  <1>19. CASE UNCHANGED vars
    BY <1>19 DEF vars
  <1> QED
    BY <1>1, <1>2, <1>3, <1>4, <1>5, <1>6, <1>7, <1>8, <1>9, <1>10, <1>11,
       <1>12, <1>13, <1>14, <1>15, <1>16, <1>17, <1>18, <1>19
       DEF Next, Peers, Handler, HandlerIO, Dialer, Copy, Stopping

(* The numbers; the header is the first that is read.                      *)
LEMMA NumbersStep ==
    Control /\ Numbers /\ Conserved /\ [Next]_vars => Numbers'
  <1> SUFFICES ASSUME Control, Numbers, Conserved, [Next]_vars PROVE Numbers'
    OBVIOUS
  <1> USE Two DEF Control, Numbers, Conserved, HandlerGoto, dataVars, peerVars
  <1>1. CASE \E e \in Ends : PeerSend(e) \/ PeerEnd(e) \/ PeerReset(e)
    BY <1>1 DEF PeerSend, PeerEnd, PeerReset
  <1>2. CASE TrackClient
    BY <1>2 DEF TrackClient, Shuttled
  <1>3. CASE Sniff \/ SniffFail
    BY <1>3 DEF Sniff, SniffFail, HeaderUnits
  <1>4. CASE DialStart \/ DialOk \/ DialFail
    BY <1>4 DEF DialStart, DialOk, DialFail
  <1>5. CASE TakeDial \/ TakeDialError \/ DialCancelled
    BY <1>5 DEF TakeDial, TakeDialError, DialCancelled
  <1>6. CASE CloseLateDial
    BY <1>6 DEF CloseLateDial, AfterClose, abandoned
  <1>7. CASE TrackUpstream
    BY <1>7 DEF TrackUpstream, StartCopy, AfterTracking, Shuttled, AllKinds
  <1>8. CASE Replay \/ Reply \/ FirstWriteFail
    BY <1>8 DEF Replay, Reply, FirstWriteFail, StartCopy, Broken
  <1>9. CASE Request \/ BodyFail \/ Response \/ ExchangeFail
    BY <1>9 DEF Request, BodyFail, Response, ExchangeFail
  <1>10. CASE CopyBuffered
    BY <1>10 DEF CopyBuffered, CopyGoto
  <1>11. CASE \E e \in Ends : CopyRead(e) \/ CopyWrite(e)
    BY <1>11 DEF CopyRead, CopyWrite, CopyGoto, FromSocket, Broken
  <1>12. CASE \E e \in Ends : CopyEOF(e) \/ CopyError(e)
    BY <1>12 DEF CopyEOF, CopyError, CopyGoto, FromSocket, Broken
  <1>13. CASE (\E e \in Ends : HalfClose(e)) \/ BothDone
    BY <1>13 DEF HalfClose, BothDone, AfterHalfClose, CopyGoto, Shuttled
  <1>14. CASE \E e \in Ends : First(e)
    BY <1>14 DEF First, AfterHalfClose, AfterClose, Shuttled
  <1>15. CASE (\E e \in Ends : Second(e)) \/ DrainTimeout
    BY <1>15 DEF Second, DrainTimeout, AfterClose
  <1>16. CASE Teardown
    BY <1>16 DEF Teardown, Untrack, CloseEnd, AfterClose
  <1>17. CASE Shutdown \/ CancelDial \/ ShutdownReturn
    BY <1>17 DEF Shutdown, CancelDial, ShutdownReturn, ShutdownGoto
  <1>18. CASE ForceClose
    BY <1>18 DEF ForceClose, ShutdownGoto, AfterClose
  <1>19. CASE UNCHANGED vars
    BY <1>19 DEF vars
  <1> QED
    BY <1>1, <1>2, <1>3, <1>4, <1>5, <1>6, <1>7, <1>8, <1>9, <1>10, <1>11,
       <1>12, <1>13, <1>14, <1>15, <1>16, <1>17, <1>18, <1>19
       DEF Next, Peers, Handler, HandlerIO, Dialer, Copy, Stopping

(* Dial, sockets, tracking map and copies.                                 *)
LEMMA PlacesStep ==
    Control /\ Places /\ [Next]_vars => Places'
  <1> SUFFICES ASSUME Control, Places, [Next]_vars PROVE Places'
    OBVIOUS
  <1> USE Two DEF Control, Places, Dials, Tracked, Closing, Copies, Linked,
             Early, Closed, HandlerGoto, dataVars, peerVars
  <1>1. CASE \E e \in Ends : PeerSend(e) \/ PeerEnd(e) \/ PeerReset(e)
    <2>1. UNCHANGED <<kind, hpc, sock, active, dial, copy, spc, cut, swept>>
      BY <1>1 DEF PeerSend, PeerEnd, PeerReset
    <2> QED
      BY <2>1
  <1>2. CASE TrackClient
    BY <1>2 DEF TrackClient, Shuttled
  <1>3. CASE Sniff \/ SniffFail
    BY <1>3 DEF Sniff, SniffFail, HeaderUnits
  <1>4. CASE DialStart \/ DialOk \/ DialFail
    BY <1>4 DEF DialStart, DialOk, DialFail
  <1>5. CASE TakeDial \/ TakeDialError \/ DialCancelled
    BY <1>5 DEF TakeDial, TakeDialError, DialCancelled
  <1>6. CASE CloseLateDial
    BY <1>6 DEF CloseLateDial, AfterClose, abandoned
  <1>7. CASE TrackUpstream
    BY <1>7 DEF TrackUpstream, StartCopy, AfterTracking, Shuttled, AllKinds
  <1>8. CASE Replay \/ Reply \/ FirstWriteFail
    BY <1>8 DEF Replay, Reply, FirstWriteFail, StartCopy, Broken
  <1>9. CASE Request \/ BodyFail \/ Response \/ ExchangeFail
    BY <1>9 DEF Request, BodyFail, Response, ExchangeFail
  <1>10. CASE CopyBuffered
    BY <1>10 DEF CopyBuffered, CopyGoto
  <1>11. CASE \E e \in Ends : CopyRead(e) \/ CopyWrite(e)
    <2>1. /\ UNCHANGED <<kind, hpc, sock, active, dial, spc, cut, swept>>
          /\ \E e \in Ends : /\ copy[e] \in {"read", "write"}
                             /\ \E to : copy' = [copy EXCEPT ![e] = to]
      BY <1>11 DEF CopyRead, CopyWrite, CopyGoto, FromSocket
    <2>2. Dials' /\ Tracked' /\ Closing'
      BY <2>1
    <2>3. Copies'
      BY <2>1
    <2> QED
      BY <2>2, <2>3
  <1>12. CASE \E e \in Ends : CopyEOF(e) \/ CopyError(e)
    <2>1. /\ UNCHANGED <<kind, hpc, sock, active, dial, spc, cut, swept>>
          /\ \E e \in Ends : /\ copy[e] \in {"read", "write"}
                             /\ \E to : copy' = [copy EXCEPT ![e] = to]
      BY <1>12 DEF CopyEOF, CopyError, CopyGoto, FromSocket
    <2>2. Dials' /\ Tracked' /\ Closing'
      BY <2>1
    <2>3. Copies'
      BY <2>1
    <2> QED
      BY <2>2, <2>3
  <1>13. CASE (\E e \in Ends : HalfClose(e)) \/ BothDone
    <2>1. ASSUME NEW e \in Ends, HalfClose(e) PROVE Places'
      <3>1. /\ UNCHANGED <<kind, hpc, active, dial, spc, cut, swept>>
            /\ copy[e] \in {"nil", "err"} /\ copy' = [copy EXCEPT ![e] = "done"]
            /\ \A d \in Ends : \/ sock'[d] = sock[d]
                               \/ sock[d] = "open" /\ sock'[d] = "shut"
        BY <2>1 DEF HalfClose, AfterHalfClose, CopyGoto
      <3>2. Dials' /\ Tracked' /\ Closing'
        BY <3>1
      <3>3. Copies'
        BY <3>1
      <3> QED
        BY <3>2, <3>3
    <2>2. CASE BothDone
      BY <2>2 DEF BothDone
    <2> QED
      BY <1>13, <2>1, <2>2
  <1>14. CASE \E e \in Ends : First(e)
    BY <1>14 DEF First, AfterHalfClose, AfterClose, Shuttled
  <1>15. CASE (\E e \in Ends : Second(e)) \/ DrainTimeout
    BY <1>15 DEF Second, DrainTimeout, AfterClose
  <1>16. CASE Teardown
    <2>1. CASE Untrack("upstream", "untrackUp", "closeUp") \/ Untrack("client", "untrack", "close")
      BY <2>1 DEF Untrack
    <2>2. CASE CloseEnd("upstream", "closeUp", "untrack")
      BY <2>2 DEF CloseEnd, AfterClose
    <2>3. CASE CloseEnd("client", "close", "returned")
      BY <2>3 DEF CloseEnd, AfterClose
    <2> QED
      BY <1>16, <2>1, <2>2, <2>3 DEF Teardown
  <1>17. CASE Shutdown \/ CancelDial \/ ShutdownReturn
    BY <1>17 DEF Shutdown, CancelDial, ShutdownReturn, ShutdownGoto
  <1>18. CASE ForceClose
    BY <1>18 DEF ForceClose, ShutdownGoto, AfterClose
  <1>19. CASE UNCHANGED vars
    BY <1>19 DEF vars
  <1> QED
    BY <1>1, <1>2, <1>3, <1>4, <1>5, <1>6, <1>7, <1>8, <1>9, <1>10, <1>11,
       <1>12, <1>13, <1>14, <1>15, <1>16, <1>17, <1>18, <1>19
       DEF Next, Peers, Handler, HandlerIO, Dialer, Copy, Stopping

(* A connection that is orderly has been so all along.                     *)
LEMMA OrderlyBack ==
    Control /\ Tracked /\ [Next]_vars => (Orderly' => Orderly)
  <1> SUFFICES ASSUME Control, Tracked, [Next]_vars PROVE (Orderly' => Orderly)
    OBVIOUS
  <1> USE Two DEF Control, Tracked, Orderly, HandlerGoto, dataVars, peerVars
  <1>1. CASE \E e \in Ends : PeerSend(e) \/ PeerEnd(e) \/ PeerReset(e)
    BY <1>1 DEF PeerSend, PeerEnd, PeerReset
  <1>2. CASE TrackClient
    BY <1>2 DEF TrackClient, Shuttled
  <1>3. CASE Sniff \/ SniffFail
    BY <1>3 DEF Sniff, SniffFail, HeaderUnits
  <1>4. CASE DialStart \/ DialOk \/ DialFail
    BY <1>4 DEF DialStart, DialOk, DialFail
  <1>5. CASE TakeDial \/ TakeDialError \/ DialCancelled
    BY <1>5 DEF TakeDial, TakeDialError, DialCancelled
  <1>6. CASE CloseLateDial
    BY <1>6 DEF CloseLateDial, AfterClose, abandoned
  <1>7. CASE TrackUpstream
    BY <1>7 DEF TrackUpstream, StartCopy, AfterTracking, Shuttled, AllKinds
  <1>8. CASE Replay \/ Reply \/ FirstWriteFail
    BY <1>8 DEF Replay, Reply, FirstWriteFail, StartCopy, Broken
  <1>9. CASE Request \/ BodyFail \/ Response \/ ExchangeFail
    BY <1>9 DEF Request, BodyFail, Response, ExchangeFail
  <1>10. CASE CopyBuffered
    BY <1>10 DEF CopyBuffered, CopyGoto
  <1>11. CASE \E e \in Ends : CopyRead(e) \/ CopyWrite(e)
    BY <1>11 DEF CopyRead, CopyWrite, CopyGoto, FromSocket, Broken
  <1>12. CASE \E e \in Ends : CopyEOF(e) \/ CopyError(e)
    BY <1>12 DEF CopyEOF, CopyError, CopyGoto, FromSocket, Broken
  <1>13. CASE (\E e \in Ends : HalfClose(e)) \/ BothDone
    BY <1>13 DEF HalfClose, BothDone, AfterHalfClose, CopyGoto, Shuttled
  <1>14. CASE \E e \in Ends : First(e)
    BY <1>14 DEF First, AfterHalfClose, AfterClose, Shuttled
  <1>15. CASE (\E e \in Ends : Second(e)) \/ DrainTimeout
    BY <1>15 DEF Second, DrainTimeout, AfterClose
  <1>16. CASE Teardown
    BY <1>16 DEF Teardown, Untrack, CloseEnd, AfterClose
  <1>17. CASE Shutdown \/ CancelDial \/ ShutdownReturn
    BY <1>17 DEF Shutdown, CancelDial, ShutdownReturn, ShutdownGoto
  <1>18. CASE ForceClose
    BY <1>18 DEF ForceClose, ShutdownGoto, AfterClose
  <1>19. CASE UNCHANGED vars
    BY <1>19 DEF vars
  <1> QED
    BY <1>1, <1>2, <1>3, <1>4, <1>5, <1>6, <1>7, <1>8, <1>9, <1>10, <1>11,
       <1>12, <1>13, <1>14, <1>15, <1>16, <1>17, <1>18, <1>19
       DEF Next, Peers, Handler, HandlerIO, Dialer, Copy, Stopping

(* The sockets and the copies of an orderly connection.                    *)
LEMMA OrderlyStep ==
    /\ Control /\ Numbers /\ Places /\ StaysOpen /\ EndsAtEOF
    /\ (Orderly' => Orderly) /\ [Next]_vars
    => StaysOpen' /\ EndsAtEOF'
  <1> SUFFICES ASSUME Control, Numbers, Places, StaysOpen, EndsAtEOF,
                      Orderly' => Orderly, [Next]_vars
               PROVE  StaysOpen' /\ EndsAtEOF'
    OBVIOUS
  <1> USE Two DEF Control, Places, Dials, Linked, Late, Early, Copies, StaysOpen,
             EndsAtEOF, Closed, Orderly, HandlerGoto, dataVars, peerVars
  <1>1. CASE \E e \in Ends : PeerSend(e) \/ PeerEnd(e) \/ PeerReset(e)
    <2>1. StaysOpen'
      BY <1>1 DEF PeerSend, PeerEnd, PeerReset
    <2>2. ASSUME NEW e \in Ends, PeerSend(e) \/ PeerEnd(e) PROVE EndsAtEOF'
      <3>1. /\ UNCHANGED <<kind, hpc, copy, taken, buf, cut, swept>>
            /\ \A d \in Ends : peer[d] = "eof" => peer'[d] = "eof" /\ sent'[d] = sent[d]
        <4>1. CASE PeerSend(e)
          <5>1. peer' = peer /\ peer[e] = "open" /\ \A d \in Ends : d # e => sent'[d] = sent[d]
            BY <4>1 DEF PeerSend, Numbers
          <5> QED
            BY <4>1, <5>1 DEF PeerSend
        <4>2. CASE PeerEnd(e)
          BY <4>2 DEF PeerEnd
        <4> QED
          BY <2>2, <4>1, <4>2
      <3>2. CASE ~Orderly'
        BY <3>2
      <3>3. CASE Orderly'
        <4>1. Orderly
          BY <3>3
        <4>2. ASSUME NEW d \in Ends
              PROVE  /\ copy'[d] # "err"
                     /\ copy'[d] \in {"nil", "done"} =>
                          peer'[d] = "eof" /\ taken'[d] = sent'[d] /\ (d = "client" => buf' = 0)
          BY <3>1, <4>1
        <4> QED
          BY <3>1, <4>1, <4>2
      <3> QED
        BY <3>2, <3>3
    <2>3. ASSUME NEW e \in Ends, PeerReset(e) PROVE EndsAtEOF'
      <3>1. ~Orderly'
        BY <2>3 DEF PeerReset
      <3> QED
        BY <3>1 DEF EndsAtEOF
    <2> QED
      BY <1>1, <2>1, <2>2, <2>3
  <1>2. CASE TrackClient
    BY <1>2 DEF TrackClient, Shuttled
  <1>3. CASE Sniff \/ SniffFail
    BY <1>3 DEF Sniff, SniffFail, HeaderUnits
  <1>4. CASE DialStart \/ DialOk \/ DialFail
    BY <1>4 DEF DialStart, DialOk, DialFail
  <1>5. CASE TakeDial \/ TakeDialError \/ DialCancelled
    BY <1>5 DEF TakeDial, TakeDialError, DialCancelled
  <1>6. CASE CloseLateDial
    BY <1>6 DEF CloseLateDial, AfterClose, abandoned
  <1>7. CASE TrackUpstream
    BY <1>7 DEF TrackUpstream, StartCopy, AfterTracking, Shuttled, AllKinds
  <1>8. CASE Replay \/ Reply \/ FirstWriteFail
    BY <1>8 DEF Replay, Reply, FirstWriteFail, StartCopy, Broken
  <1>9. CASE Request \/ BodyFail \/ Response \/ ExchangeFail
    BY <1>9 DEF Request, BodyFail, Response, ExchangeFail
  <1>10. CASE CopyBuffered
    BY <1>10 DEF CopyBuffered, CopyGoto
  <1>11. CASE \E e \in Ends : CopyRead(e) \/ CopyWrite(e)
    <2>1. StaysOpen'
      BY <1>11 DEF CopyRead, CopyWrite, CopyGoto
    <2>2. ASSUME NEW e \in Ends, CopyRead(e) PROVE EndsAtEOF'
      BY <2>2 DEF CopyRead, CopyGoto, FromSocket
    <2>3. ASSUME NEW e \in Ends, CopyWrite(e) PROVE EndsAtEOF'
      BY <2>3 DEF CopyWrite, CopyGoto
    <2> QED
      BY <1>11, <2>1, <2>2, <2>3
  <1>12. CASE \E e \in Ends : CopyEOF(e) \/ CopyError(e)
    BY <1>12 DEF CopyEOF, CopyError, CopyGoto, FromSocket, Broken
  <1>13. CASE (\E e \in Ends : HalfClose(e)) \/ BothDone
    BY <1>13 DEF HalfClose, BothDone, AfterHalfClose, CopyGoto, Shuttled
  <1>14. CASE \E e \in Ends : First(e)
    BY <1>14 DEF First, AfterHalfClose, AfterClose, Shuttled
  <1>15. CASE (\E e \in Ends : Second(e)) \/ DrainTimeout
    BY <1>15 DEF Second, DrainTimeout, AfterClose
  <1>16. CASE Teardown
    BY <1>16 DEF Teardown, Untrack, CloseEnd, AfterClose
  <1>17. CASE Shutdown \/ CancelDial \/ ShutdownReturn
    BY <1>17 DEF Shutdown, CancelDial, ShutdownReturn, ShutdownGoto
  <1>18. CASE ForceClose
    BY <1>18 DEF ForceClose, ShutdownGoto, AfterClose
  <1>19. CASE UNCHANGED vars
    BY <1>19 DEF vars
  <1> QED
    BY <1>1, <1>2, <1>3, <1>4, <1>5, <1>6, <1>7, <1>8, <1>9, <1>10, <1>11,
       <1>12, <1>13, <1>14, <1>15, <1>16, <1>17, <1>18, <1>19
       DEF Next, Peers, Handler, HandlerIO, Dialer, Copy, Stopping

(* Its data.                                                               *)
LEMMA ConservedStep ==
    /\ Control /\ Numbers /\ Copies /\ EndsAtEOF' /\ Conserved
    /\ (Orderly' => Orderly) /\ [Next]_vars
    => Conserved'
  <1> SUFFICES ASSUME Control, Numbers, Copies, EndsAtEOF', Conserved,
                      Orderly' => Orderly, [Next]_vars
               PROVE  Conserved'
    OBVIOUS
  <1> USE Two DEF Control, Numbers, Early, Copies, EndsAtEOF, Conserved, InHand,
             HeaderRead, HeaderUnits, HandlerGoto, dataVars, peerVars
  <1>1. CASE \E e \in Ends : PeerSend(e) \/ PeerEnd(e) \/ PeerReset(e)
    BY <1>1 DEF PeerSend, PeerEnd, PeerReset
  <1>2. CASE TrackClient
    BY <1>2 DEF TrackClient, Shuttled
  <1>3. CASE Sniff \/ SniffFail
    <2>1. CASE SniffFail
      <3>1. cut' /\ hpc' = "untrack"
        BY <2>1 DEF SniffFail
      <3> QED
        BY <3>1 DEF Orderly
    <2>2. CASE Sniff
      <3>1. /\ hpc = "sniff" /\ hpc' = "dial" /\ UNCHANGED <<kind, copy, got>>
            /\ taken'["upstream"] = taken["upstream"] /\ buf' = taken'["client"] - HeaderUnits
            /\ taken'["client"] \in Nat
        BY <2>2 DEF Sniff
      <3>2. taken["client"] = 0 /\ copy["client"] = "off"
        BY <3>1
      <3>3. Orderly => buf = 0 /\ got["upstream"] = 0
        BY <3>1, <3>2
      <3>4. Orderly' => taken'["client"] = got'["upstream"] + InHand("client")' + buf' + HeaderRead'
        BY <3>1, <3>2, <3>3
      <3>5. Orderly' => taken'["upstream"] = got'["client"] + InHand("upstream")'
        BY <3>1
      <3> QED
        BY <3>1, <3>4, <3>5
    <2> QED
      BY <1>3, <2>1, <2>2
  <1>4. CASE DialStart \/ DialOk \/ DialFail
    BY <1>4 DEF DialStart, DialOk, DialFail
  <1>5. CASE TakeDial \/ TakeDialError \/ DialCancelled
    BY <1>5 DEF TakeDial, TakeDialError, DialCancelled
  <1>6. CASE CloseLateDial
    BY <1>6 DEF CloseLateDial, AfterClose, abandoned
  <1>7. CASE TrackUpstream
    BY <1>7 DEF TrackUpstream, StartCopy, AfterTracking, Shuttled, AllKinds
  <1>8. CASE Replay \/ Reply \/ FirstWriteFail
    <2>1. CASE Replay
      <3>1. /\ hpc = "replay" /\ hpc' = "copy" /\ kind' = kind /\ taken' = taken /\ buf' = 0
            /\ got'["upstream"] = got["upstream"] + buf /\ got'["client"] = got["client"]
            /\ \A e \in Ends : copy[e] = "off" /\ copy'[e] = "read"
        BY <2>1 DEF Replay, StartCopy
      <3> QED
        BY <3>1
    <2>2. CASE Reply \/ FirstWriteFail
      <3>1. /\ hpc \in Early /\ hpc \notin {"track", "sniff"} /\ hpc' \notin {"track", "sniff"}
            /\ UNCHANGED <<kind, taken, buf, got>> /\ \A e \in Ends : copy'[e] \in {"off", "read"}
        BY <2>2 DEF Reply, FirstWriteFail, StartCopy
      <3> QED
        BY <3>1
    <2> QED
      BY <1>8, <2>1, <2>2
  <1>9. CASE Request \/ BodyFail \/ Response \/ ExchangeFail
    BY <1>9 DEF Request, BodyFail, Response, ExchangeFail
  <1>10. CASE CopyBuffered
    BY <1>10 DEF CopyBuffered, CopyGoto
  <1>11. CASE \E e \in Ends : CopyRead(e) \/ CopyWrite(e)
    BY <1>11 DEF CopyRead, CopyWrite, CopyGoto, FromSocket, Broken
  <1>12. CASE \E e \in Ends : CopyEOF(e) \/ CopyError(e)
    BY <1>12 DEF CopyEOF, CopyError, CopyGoto, FromSocket, Broken
  <1>13. CASE (\E e \in Ends : HalfClose(e)) \/ BothDone
    BY <1>13 DEF HalfClose, BothDone, AfterHalfClose, CopyGoto, Shuttled
  <1>14. CASE \E e \in Ends : First(e)
    BY <1>14 DEF First, AfterHalfClose, AfterClose, Shuttled
  <1>15. CASE (\E e \in Ends : Second(e)) \/ DrainTimeout
    BY <1>15 DEF Second, DrainTimeout, AfterClose
  <1>16. CASE Teardown
    BY <1>16 DEF Teardown, Untrack, CloseEnd, AfterClose
  <1>17. CASE Shutdown \/ CancelDial \/ ShutdownReturn
    <2>1. UNCHANGED <<kind, hpc, copy, buf, taken, got>>
      BY <1>17 DEF Shutdown, CancelDial, ShutdownReturn, ShutdownGoto
    <2> QED
      BY <2>1
  <1>18. CASE ForceClose
    BY <1>18 DEF ForceClose, ShutdownGoto, AfterClose
  <1>19. CASE UNCHANGED vars
    BY <1>19 DEF vars
  <1> QED
    BY <1>1, <1>2, <1>3, <1>4, <1>5, <1>6, <1>7, <1>8, <1>9, <1>10, <1>11,
       <1>12, <1>13, <1>14, <1>15, <1>16, <1>17, <1>18, <1>19
       DEF Next, Peers, Handler, HandlerIO, Dialer, Copy, Stopping

(* The history flag is only ever raised.                                   *)
LEMMA CutStep ==
    cut \in BOOLEAN /\ [Next]_vars => cut' \in BOOLEAN
  <1> SUFFICES ASSUME cut \in BOOLEAN, [Next]_vars PROVE cut' \in BOOLEAN
    OBVIOUS
  <1>1. CASE Peers \/ HandlerIO \/ Dialer \/ CloseLateDial
    <2>1. cut' = cut
      BY <1>1 DEF Peers, HandlerIO, Dialer, CloseLateDial, PeerSend, PeerEnd, PeerReset,
                  Replay, Reply, Request, BodyFail, Response, DialOk, DialFail
    <2> QED
      BY <2>1
  <1>2. CASE Handler
    <2>1. cut' = cut \/ cut' = TRUE
      BY <1>2 DEF Handler, TrackClient, Sniff, SniffFail, DialStart, TakeDial, TakeDialError,
                  DialCancelled, TrackUpstream, FirstWriteFail, ExchangeFail, BothDone, First,
                  Second, Teardown, Untrack, CloseEnd
    <2> QED
      BY <2>1, Zenon
  <1>3. CASE DrainTimeout
    <2>1. cut' = TRUE
      BY <1>3 DEF DrainTimeout
    <2> QED
      BY <2>1, Zenon
  <1>4. CASE \E e \in Ends : Copy(e) \/ CopyWrite(e)
    <2>1. cut' = cut
      BY <1>4 DEF Copy, CopyBuffered, CopyRead, CopyEOF, CopyError, HalfClose, CopyWrite, CopyGoto
    <2> QED
      BY <2>1
  <1>5. CASE Shutdown \/ Stopping
    <2>1. cut' = cut
      BY <1>5 DEF Shutdown, Stopping, CancelDial, ForceClose, ShutdownReturn, ShutdownGoto
    <2> QED
      BY <2>1
  <1>6. CASE UNCHANGED vars
    <2>1. cut' = cut
      BY <1>6 DEF vars
    <2> QED
      BY <2>1
  <1> QED
    BY <1>1, <1>2, <1>3, <1>4, <1>5, <1>6 DEF Next
-----------------------------------------------------------------------------

(* The parts make up the type invariant.                                   *)
LEMMA TypeParts ==
    TypeOK <=> Control /\ Numbers /\ cut \in BOOLEAN
  BY DEF TypeOK, Control, Numbers

(* A connection that has just been accepted.                               *)
LEMMA InitInv ==
    Init => IInv
  <1> SUFFICES ASSUME Init PROVE IInv
    OBVIOUS
  <1> USE Two DEF Init
  <1>1. Control
    BY DEF Control
  <1>2. Numbers
    BY DEF Numbers
  <1>3. cut \in BOOLEAN
    BY Zenon
  <1>4. Dials /\ Tracked /\ Closing
    BY DEF Dials, Tracked, Closing, Linked
  <1>5. Copies
    BY DEF Copies, Early
  <1>6. StaysOpen
    BY DEF StaysOpen, Closed
  <1>7. EndsAtEOF
    BY DEF EndsAtEOF, Late
  <1>8. Conserved
    BY DEF Conserved, InHand, HeaderRead
  <1> QED
    BY <1>1, <1>2, <1>3, <1>4, <1>5, <1>6, <1>7, <1>8, TypeParts DEF IInv, Places

(* Every step of handler, dial, copies, peers and Shutdown keeps it.       *)
LEMMA InvStep ==
    IInv /\ [Next]_vars => IInv'
  <1> SUFFICES ASSUME IInv, [Next]_vars PROVE IInv'
    OBVIOUS
  <1>1. /\ Control /\ Numbers /\ cut \in BOOLEAN
        /\ Places /\ Tracked /\ Copies /\ StaysOpen /\ EndsAtEOF /\ Conserved
    BY TypeParts DEF IInv, Places
  <1>2. Control'
    BY <1>1, ControlStep
  <1>3. Numbers'
    BY <1>1, NumbersStep
  <1>4. cut' \in BOOLEAN
    BY <1>1, CutStep
  <1>5. Places'
    BY <1>1, PlacesStep
  <1>6. Orderly' => Orderly
    BY <1>1, OrderlyBack
  <1>7. StaysOpen' /\ EndsAtEOF'
    BY <1>1, <1>6, OrderlyStep
  <1>8. Conserved'
    BY <1>1, <1>6, <1>7, ConservedStep
  <1>9. TypeOK'
    BY <1>2, <1>3, <1>4 DEF TypeOK, Control, Numbers
  <1> QED
    BY <1>5, <1>7, <1>8, <1>9 DEF IInv

(* What holds throughout a connection, from accept to the return of its    *)
(* handler and of Shutdown.                                                *)
THEOREM IInvHolds == Spec => []IInv
  BY InitInv, InvStep, PTL DEF Spec

(* A handler that has returned has left the tracking map and closed its    *)
(* two sockets, by the place of the dial and of the deferred calls.        *)
LEMMA ReturnsClean ==
    IInv => SocketInv
  <1> SUFFICES ASSUME IInv, hpc = "returned" PROVE CleanReturn
    BY DEF IInv, SocketInv, CleanReturn
  <1> USE Two DEF IInv, Places
  <1>1. active = {}
    <2>1. active \subseteq Ends
      BY DEF TypeOK
    <2> QED
      BY <2>1 DEF Tracked, Linked
  <1>2. Closed("client")
    BY DEF Closing
  <1>3. sock["upstream"] \in {"none", "closed"} \/ abandoned
    <2>1. dial \in {"none", "dialing", "ok", "failed", "taken"}
      BY DEF TypeOK
    <2>2. CASE dial \in {"none", "dialing", "failed"}
      BY <2>2 DEF Dials
    <2>3. CASE dial = "ok"
      BY <2>3 DEF abandoned
    <2>4. CASE dial = "taken"
      BY <2>4 DEF Closing, Closed
    <2> QED
      BY <2>1, <2>2, <2>3, <2>4
  <1> QED
    BY <1>1, <1>2, <1>3 DEF CleanReturn

(* Whatever way one of the five handlers returns, after a rejection, a     *)
(* failed or abandoned dial, an error, a drain timeout or a force-close,   *)
(* nothing of it is left in activeConn and its sockets are closed.         *)
THEOREM SocketInvHolds == Spec => []SocketInv
  BY IInvHolds, ReturnsClean, PTL

(* At the return of an orderly connection both copies have ended at the    *)
(* end of their stream, so nothing is in hand or buffered.                 *)
LEMMA LosesNothing ==
    IInv => NoDataLoss
  <1> SUFFICES ASSUME IInv, hpc = "returned", kind # "forward", Orderly
               PROVE  /\ got["upstream"] = sent["client"] - HeaderUnits
                      /\ got["client"] = sent["upstream"]
    BY DEF NoDataLoss, Orderly
  <1>1. \A e \in Ends : copy[e] = "done"
    BY DEF IInv, EndsAtEOF, Late
  <1>2. /\ taken["client"] = sent["client"] /\ taken["upstream"] = sent["upstream"]
        /\ buf = 0
    BY <1>1, Two DEF IInv, EndsAtEOF
  <1>3. InHand("client") = 0 /\ InHand("upstream") = 0
    BY <1>1, Two DEF InHand
  <1>4. HeaderRead = HeaderUnits
    BY DEF HeaderRead
  <1>5. /\ taken["client"] = got["upstream"] + 0 + 0 + HeaderUnits
        /\ taken["upstream"] = got["client"] + 0
    BY <1>2, <1>3, <1>4 DEF IInv, Conserved
  <1>6. got["upstream"] \in Nat /\ got["client"] \in Nat /\ HeaderUnits \in Nat
    BY Two DEF IInv, TypeOK, HeaderUnits
  <1> QED
    BY <1>2, <1>5, <1>6

(* However much the peers send and in whatever order they end, each gets   *)
(* all the other has sent, but for the header that a CONNECT carries.      *)
THEOREM NoDataLossHolds == Spec => []NoDataLoss
  BY IInvHolds, LosesNothing, PTL
=============================================================================
