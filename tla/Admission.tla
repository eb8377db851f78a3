----------------------------- MODULE Admission -----------------------------
(***************************************************************************)
(* From a configuration file to the peer a connection is joined to: which  *)
(* files internal/config/config.go accepts, the tables the servers build   *)
(* from them and swap at a reload, and what the handlers of                *)
(* internal/inbound and internal/outbound decide for one connection: the   *)
(* host name sniffed from a TLS ClientHello or an HTTP request, the route  *)
(* it takes, the enclave's authorization, the egress check and the         *)
(* outcome that is counted.                                                *)
(*                                                                         *)
(* Binding and closing sockets are Inbound and Outbound, the copying of    *)
(* bytes is Connection, patterns are Allowlist.  Connections do not affect *)
(* one another here, so one at a time is followed, while reloads go on.    *)
(*                                                                         *)
(* A host name is the sequence of its dot-separated labels for the egress  *)
(* check, and the sequence of its tokens, with ":", "[" and "]" tokens of  *)
(* their own, for routing.                                                 *)
(***************************************************************************)
EXTENDS Allowlist, FiniteSets

CONSTANTS
    Files,        \* configuration files an operator may write
    CIDs,         \* CIDs that connect to outbound listeners
    Requests,     \* what an enclave sends to an outbound listener
    HostHeaders,  \* Host headers, with the name the client means by them
    Names,        \* names in a server_name extension
    MaxLoads,     \* bound: the first start and the reloads
    PortAny,      \* vsockPortAny
    HelloFixed,   \* bytes of version and random in a ClientHello (34)
    MaxFragment   \* maxTLSRecordFragment

(* What a decoded file looks like.                                         *)
RouteShapes == [hostname : Seq(Labels), cid : Nat, vsockPort : Nat]
InboundShapes == [bind : STRING, port : Int, mode : STRING, routes : Seq(RouteShapes)]
EntryShapes == [cid : Nat, allowedHosts : Seq(PatternTexts)]
OutboundShapes == [port : Nat, cids : Seq(EntryShapes)]
TCPToVsockShapes == [bind : STRING, port : Int, vsockCID : Nat, vsockPort : Nat]
VsockToTCPShapes == [port : Nat, upstream : PatternTexts]
LogRelayShapes == [port : Nat, output : STRING, path : STRING, maxLineBytes : Int]

FileShapes ==
    [inbound : Seq(InboundShapes), outbound : Seq(OutboundShapes),
     tcpToVsock : Seq(TCPToVsockShapes), vsockToTCP : Seq(VsockToTCPShapes),
     logRelay : Seq(LogRelayShapes),
     metrics : [bind : STRING, vsockPort : Nat], optionsOK : BOOLEAN]

(* A Host header as RFC 7230 has it: a name or an address in brackets, and *)
(* perhaps a port.                                                         *)
HeaderFor(value, name) ==
    \/ /\ \A i \in DOMAIN name : name[i] # ":"
       /\ name[1] # "["
       /\ value = name \/ \E p \in Labels \ {":"} : value = name \o <<":", p>>
    \/ /\ \A i \in DOMAIN name : name[i] # "]"
       /\ \E port \in {<< >>} \cup {<<":", p>> : p \in Labels} :
              value = <<"[">> \o name \o <<"]">> \o port

ASSUME AdmissionAssumption ==
    /\ HelloFixed \in Nat /\ MaxFragment \in Nat
    /\ Files \subseteq FileShapes
    /\ \A r \in Requests : r.host \in Hosts
    /\ \A h \in HostHeaders : /\ h.value \in Seq(Labels) /\ h.means \in Seq(Labels)
                              /\ h.means # << >> => HeaderFor(h.value, h.means)

MinCID == 3
MinMaxLineBytes == 16

VARIABLES
    serving,  \* the table each listener uses, with the file it came from
    todo,     \* listeners a commit has still to switch over
    file,     \* the file accepted last
    built,    \* whether every accepted file could be built
    loads,    \* how many files have been loaded
    conn      \* the connection followed

vars == <<serving, todo, file, built, loads, conn>>

Elements(seq) == {seq[i] : i \in DOMAIN seq}

NoDuplicates(seq, Key(_)) == \A i, j \in DOMAIN seq : Key(seq[i]) = Key(seq[j]) => i = j

-----------------------------------------------------------------------------
(* Config.Validate.                                                        *)

VsockPortOK(port) == port # 0 /\ port < PortAny

RouteOK(r) == r.hostname # << >> /\ r.cid >= MinCID /\ VsockPortOK(r.vsockPort)

InboundOKByCase(l) ==
    /\ l.bind # "" /\ ValidPort(l.port) /\ l.mode \in {"http-host", "tls-sni"}
    /\ l.routes # << >> /\ \A r \in Elements(l.routes) : RouteOK(r)
    /\ NoDuplicates(l.routes, LAMBDA r : r.hostname)

(* InboundListener.validate.                                               *)
InboundOK(l) ==
    /\ l.bind # "" /\ ValidPort(l.port) /\ l.mode \in {"http-host", "tls-sni"}
    /\ l.routes # << >> /\ \A r \in Elements(l.routes) : RouteOK(r)
    /\ NoDuplicates(l.routes, LAMBDA r : Lower(r.hostname))

(* TCPToVsockListener.validate.                                            *)
TCPToVsockOK(l) == l.bind # "" /\ ValidPort(l.port) /\ l.vsockCID >= MinCID /\ VsockPortOK(l.vsockPort)

validateHostPort(s) == s.split /\ s.host # <<"">> /\ ~HasStar(s.host) /\ ValidPort(s.port)

(* VsockToTCPListener.validate.                                            *)
VsockToTCPOK(l) == VsockPortOK(l.port) /\ validateHostPort(l.upstream)

(* LogRelayListener.validate; enrich is module LogRelay.                   *)
LogRelayOK(l) ==
    /\ VsockPortOK(l.port)
    /\ \/ l.output = "file" /\ l.path # ""
       \/ l.output = "stdout" /\ l.path = ""
    /\ l.maxLineBytes = 0 \/ l.maxLineBytes >= MinMaxLineBytes

OutboundOK(l) ==
    /\ VsockPortOK(l.port)
    /\ l.cids # << >>
    /\ \A c \in Elements(l.cids) :
           /\ c.cid >= MinCID
           /\ c.allowedHosts # << >>
           /\ \A pat \in Elements(c.allowedHosts) : validatePattern(pat)

Addr(l) == <<l.bind, l.port>>

(* cidOwner: no CID twice in the lists of all outbound listeners.          *)
UniqueCIDs(f) ==
    \A i, j \in DOMAIN f.outbound :
        \A m \in DOMAIN f.outbound[i].cids, n \in DOMAIN f.outbound[j].cids :
            f.outbound[i].cids[m].cid = f.outbound[j].cids[n].cid => i = j /\ m = n

VsockPorts(f) ==
    LET ports(ls) == [i \in DOMAIN ls |-> ls[i].port]
    IN  ports(f.outbound) \o ports(f.vsockToTCP) \o ports(f.logRelay)
        \o (IF f.metrics.vsockPort = 0 THEN << >> ELSE <<f.metrics.vsockPort>>)

Validate(f) ==
    /\ f.inbound \o f.outbound \o f.tcpToVsock \o f.vsockToTCP \o f.logRelay # << >>
    /\ \A l \in Elements(f.inbound) : InboundOK(l)
    /\ \A l \in Elements(f.tcpToVsock) : TCPToVsockOK(l)
    /\ NoDuplicates(f.inbound \o f.tcpToVsock, Addr)
    /\ \A l \in Elements(f.outbound) : OutboundOK(l)
    /\ UniqueCIDs(f)
    /\ \A l \in Elements(f.vsockToTCP) : VsockToTCPOK(l)
    /\ \A l \in Elements(f.logRelay) : LogRelayOK(l)
    /\ NoDuplicates(VsockPorts(f), LAMBDA p : p)
    /\ ~(f.metrics.bind # "" /\ f.metrics.vsockPort # 0)
    /\ f.metrics.vsockPort # 0 => VsockPortOK(f.metrics.vsockPort)
    /\ f.optionsOK              \* log_format, log_level, shutdown_grace, metrics.bind

-----------------------------------------------------------------------------
(* Listeners and their tables.                                             *)

InKey(l) == <<"in", l.bind, l.port, l.mode>>
OutKey(l) == <<"out", l.port>>

Keys(f) == {InKey(l) : l \in Elements(f.inbound)} \cup {OutKey(l) : l \in Elements(f.outbound)}

ListenerOf(f, k) ==
    IF k[1] = "in" THEN CHOOSE l \in Elements(f.inbound) : InKey(l) = k
    ELSE CHOOSE l \in Elements(f.outbound) : OutKey(l) = k

(* A later route replaces an earlier one of the same name.                 *)
buildRouteMap(routes) ==
    [h \in {Lower(r.hostname) : r \in Elements(routes)} |->
        routes[CHOOSE i \in DOMAIN routes : /\ Lower(routes[i].hostname) = h
                                            /\ \A j \in DOMAIN routes : Lower(routes[j].hostname) = h => j <= i]]

buildMatchers(cids) ==
    [c \in {e.cid : e \in Elements(cids)} |-> New((CHOOSE e \in Elements(cids) : e.cid = c).allowedHosts)]

(* newHTTPListener of the outbound server returns no error.                *)
Builds(l) ==
    /\ l.cids # << >>
    /\ NoDuplicates(l.cids, LAMBDA e : e.cid)
    /\ \A e \in Elements(l.cids) : Compiles(e.allowedHosts)

Table(f, k) ==
    [file |-> f,
     map  |-> IF k[1] = "in" THEN buildRouteMap(ListenerOf(f, k).routes)
              ELSE buildMatchers(ListenerOf(f, k).cids)]

NoFile == [none |-> TRUE]

(* What cannot change on an address or a port while the daemon runs.       *)
Endpoints(f) ==
    {[at |-> <<"in", l.bind, l.port>>, mode |-> l.mode, target |-> << >>] : l \in Elements(f.inbound)}
    \cup {[at |-> <<"in", l.bind, l.port>>, mode |-> "tcp_to_vsock",
           target |-> <<l.vsockCID, l.vsockPort>>] : l \in Elements(f.tcpToVsock)}
    \cup {[at |-> <<"out", l.port>>, mode |-> "http", target |-> << >>] : l \in Elements(f.outbound)}
    \cup {[at |-> <<"out", l.port>>, mode |-> "vsock_to_tcp", target |-> << >>] : l \in Elements(f.vsockToTCP)}
    \cup {[at |-> <<"out", l.port>>, mode |-> "log_relay", target |-> << >>] : l \in Elements(f.logRelay)}

(* "cannot change ... at runtime; restart required".                       *)
Clash(f) ==
    file # NoFile /\ \E e \in Endpoints(f), o \in Endpoints(file) : e.at = o.at /\ e # o

NoConn == [at |-> "none"]

Init ==
    /\ serving = << >> /\ todo = {} /\ file = NoFile
    /\ built = TRUE /\ loads = 0 /\ conn = NoConn

(* config.Load, then Start or the two PrepareApply.                        *)
Load(f) ==
    /\ todo = {} /\ loads < MaxLoads
    /\ Validate(f)
    /\ loads' = loads + 1
    /\ LET ok == \A l \in Elements(f.outbound) : Builds(l) IN
       /\ built' = (built /\ ok)
       /\ IF ok /\ ~Clash(f)
          THEN file' = f /\ todo' = DOMAIN serving \cup Keys(f)
          ELSE UNCHANGED <<file, todo>>
    /\ UNCHANGED <<serving, conn>>

(* Inbound commits before outbound; each swaps the tables it keeps, starts *)
(* the new listeners and then closes the ones that are gone.               *)
Turn(k) ==
    (IF k[1] = "in" THEN 0 ELSE 3)
    + (IF k \in Keys(file) THEN IF k \in DOMAIN serving THEN 0 ELSE 1 ELSE 2)

(* A connection of a closed listener keeps that listener's last table.     *)
Commit(k) ==
    /\ k \in todo /\ \A o \in todo : Turn(k) <= Turn(o)
    /\ todo' = todo \ {k}
    /\ LET kept == k \in Keys(file)
           keys == IF kept THEN DOMAIN serving \cup {k} ELSE DOMAIN serving \ {k}
       IN  /\ serving' = [o \in keys |-> IF o = k THEN Table(file, k) ELSE serving[o]]
           /\ conn' = IF conn.at \in {"sniff", "sni", "route", "accepted"} /\ conn.live /\ conn.key = k
                      THEN [conn EXCEPT !.table = IF kept THEN Table(file, k) ELSE @, !.live = kept]
                      ELSE conn
    /\ UNCHANGED <<file, built, loads>>

-----------------------------------------------------------------------------
(* Inbound connections: listener.handle.                                   *)

Finish(c) == conn' = [c EXCEPT !.at = "done"]

AcceptInbound(k) ==
    /\ conn = NoConn
    /\ k \in DOMAIN serving /\ k[1] = "in"
    /\ conn' = [at |-> IF k[4] = "tls-sni" THEN "sni" ELSE "sniff",
                key |-> k, table |-> serving[k], live |-> TRUE,
                stage |-> "record", left |-> 0, within |-> 0,
                host |-> << >>, meant |-> << >>, result |-> "none", target |-> << >>]

(* The read fails or times out, or what was read is malformed.             *)
SniffFails ==
    /\ conn.at = "sniff" \/ (conn.at = "sni" /\ conn.stage = "record")
    /\ Finish([conn EXCEPT !.result = "sniff"])

stripPort(v) ==
    LET at(t) == {i \in DOMAIN v : v[i] = t} IN
    IF v[1] = "["
    THEN IF at("]") = {} THEN v
         ELSE SubSeq(v, 2, (CHOOSE i \in at("]") : \A j \in at("]") : i <= j) - 1)
    ELSE IF at(":") = {} THEN v
    ELSE SubSeq(v, 1, (CHOOSE i \in at(":") : \A j \in at(":") : j <= i) - 1)

(* SniffHost, the request line being well formed.                          *)
SniffHost(h) ==
    /\ conn.at = "sniff"
    /\ IF h.value = << >> \/ stripPort(h.value) = << >>
       THEN Finish([conn EXCEPT !.result = "sniff"])
       ELSE conn' = [conn EXCEPT !.at = "route", !.host = Lower(stripPort(h.value)), !.meant = h.means]

-----------------------------------------------------------------------------
(* SniffSNI.  Whatever the bytes are, the walk sees a length it can check  *)
(* against what is left of the vector it is in: left bytes, of the within  *)
(* bytes that were left around the vector when it was entered.             *)

Walk(stage) == conn.at = "sni" /\ conn.stage = stage

Malformed == Finish([conn EXCEPT !.result = "sniff"])

(* Past a vector of n bytes behind a prefix of w, to the given stage.      *)
SkipTo(stage, w, n) ==
    conn' = [conn EXCEPT !.stage = stage, !.left = @ - w - n, !.within = conn.left - w - n]

(* Into that vector.                                                       *)
EnterTo(stage, w, n) ==
    conn' = [conn EXCEPT !.stage = stage, !.left = n, !.within = conn.left - w]

Lengths == 0 .. MaxFragment

Record ==
    /\ Walk("record")
    /\ \E n \in 0 .. MaxFragment + 1 :
           IF n = 0 \/ n > MaxFragment THEN Malformed
           ELSE conn' = [conn EXCEPT !.stage = "handshake", !.left = n, !.within = n]

FitsPrefixForgotten(w, n) == n <= conn.left

(* The prefix is there, and the vector it announces too.                   *)
Fits(w, n) == conn.left >= w /\ n <= conn.left - w

(* HandshakeType and 24-bit length.                                        *)
Handshake ==
    /\ Walk("handshake")
    /\ \E n \in Lengths : IF Fits(4, n) THEN EnterTo("hello", 4, n) ELSE Malformed

Hello ==
    /\ Walk("hello")
    /\ IF conn.left < HelloFixed THEN Malformed ELSE SkipTo("session_id", HelloFixed, 0)

(* readVec8 or readVec16, by the width of the prefix.                      *)
Vector(stage, w, next) ==
    /\ Walk(stage)
    /\ \E n \in Lengths : IF Fits(w, n) THEN SkipTo(next, w, n) ELSE Malformed

Extensions ==
    /\ Walk("extensions")
    /\ \E n \in Lengths : IF Fits(2, n) THEN EnterTo("extension", 2, n) ELSE Malformed

(* One turn of the loop over extensions.                                   *)
Extension ==
    /\ Walk("extension")
    /\ \E n \in Lengths, sni \in BOOLEAN :
           IF ~Fits(4, n) THEN Malformed
           ELSE IF sni THEN EnterTo("server_name", 4, n)
           ELSE SkipTo("extension", 4, n)

(* parseSNIExtension: the list, and one turn of the loop over its entries. *)
ServerNameList ==
    /\ Walk("server_name")
    /\ \E n \in Lengths : IF Fits(2, n) THEN EnterTo("name", 2, n) ELSE Malformed

ServerName ==
    /\ Walk("name")
    /\ \E n \in Lengths :
           \/ ~Fits(3, n) /\ Malformed
           \/ Fits(3, n) /\ SkipTo("name", 3, n)
           \/ Fits(3, n) /\ n = 0 /\ Malformed
           \/ /\ Fits(3, n) /\ n > 0
              /\ \E h \in Names :
                     conn' = [conn EXCEPT !.at = "route", !.host = Lower(h), !.meant = h,
                                          !.stage = "record", !.left = 0, !.within = 0]

WalkStep ==
    /\ \/ Record \/ Handshake \/ Hello
       \/ Vector("session_id", 1, "cipher_suites")
       \/ Vector("cipher_suites", 2, "compression_methods")
       \/ Vector("compression_methods", 1, "extensions")
       \/ Extensions \/ Extension \/ ServerNameList \/ ServerName
    /\ UNCHANGED <<serving, todo, file, built, loads>>

(* routesSnapshot, the lookup and the dial it leads to.                    *)
Route ==
    /\ conn.at = "route"
    /\ IF conn.host \in DOMAIN conn.table.map
       THEN LET r == conn.table.map[conn.host]
            IN  Finish([conn EXCEPT !.result = "dialed", !.target = <<r.cid, r.vsockPort>>])
       ELSE Finish([conn EXCEPT !.result = "route"])

-----------------------------------------------------------------------------
(* Outbound connections: listener.handle, handleConnect, handleProxy.  A   *)
(* result is counted in outbound_connections_total under it.               *)

Counted(c, result) == [c EXCEPT !.result = result, !.counted = @ + 1]

AcceptOutbound(k, cid) ==
    /\ conn = NoConn
    /\ k \in DOMAIN serving /\ k[1] = "out"
    /\ conn' = [at |-> "accepted", key |-> k, cid |-> cid, table |-> serving[k], live |-> TRUE,
                request |-> << >>, result |-> "none", counted |-> 0, dest |-> << >>, vhost |-> << >>]

(* matchersSnapshot and the lookup of the peer's CID.                      *)
Authorize ==
    /\ conn.at = "accepted"
    /\ IF conn.cid \in DOMAIN conn.table.map THEN conn' = [conn EXCEPT !.at = "read"]
       ELSE Finish(Counted(conn, "denied"))

NoPort == -2

(* handleConnect or handleProxy, from the request's URL.                   *)
Destination(r) ==
    [host |-> r.host, port |-> IF r.form = "absolute" /\ r.port = NoPort THEN 80 ELSE r.port]

Acceptable(r) ==
    /\ r.form = "connect" \/ (r.form = "absolute" /\ r.scheme = "http")
    /\ ValidPort(Destination(r).port)

(* http.ReadRequest through the egress check.                              *)
ReadRequest(r) ==
    /\ conn.at = "read"
    /\ LET c == [conn EXCEPT !.request = r] IN
       IF ~Acceptable(r) THEN Finish(Counted(c, "error"))
       ELSE IF ~Allow(conn.table.map[conn.cid], Destination(r).host, Destination(r).port)
       THEN Finish(Counted(c, "denied"))
       ELSE conn' = [c EXCEPT !.at = "dial", !.dest = Destination(r)]

(* The read fails or times out, or the dial or a later read or write fails. *)
HandlerFails ==
    /\ conn.at \in {"read", "dial", "established", "forward", "response", "answer"}
    /\ Finish(Counted(conn, "error"))

Dialed ==
    /\ conn.at = "dial"
    /\ conn' = [conn EXCEPT !.at = IF conn.request.form = "connect" THEN "established" ELSE "forward"]

(* The 200 is written; the tunnel is module Connection.                    *)
Established == conn.at = "established" /\ Finish(Counted(conn, "allowed"))

(* The request goes out in origin form, its Host taken from the URL.       *)
Forward ==
    /\ conn.at = "forward"
    /\ conn' = [conn EXCEPT !.at = "response", !.vhost = conn.request.host]

ReadResponseCounts ==
    /\ conn.at = "response"
    /\ conn' = Counted([conn EXCEPT !.at = "answer"], "allowed")

ReadResponse == conn.at = "response" /\ conn' = [conn EXCEPT !.at = "answer"]

Answer == conn.at = "answer" /\ Finish(Counted(conn, "allowed"))

(* The next connection.                                                    *)
Forget == conn.at = "done" /\ conn' = NoConn

Handler ==
    /\ \/ SniffFails
       \/ \E h \in HostHeaders : SniffHost(h)
       \/ Route \/ Authorize
       \/ \E r \in Requests : ReadRequest(r)
       \/ HandlerFails \/ Dialed \/ Established \/ Forward \/ ReadResponse \/ Answer
    /\ UNCHANGED <<serving, todo, file, built, loads>>

Arrival ==
    /\ \/ \E k \in DOMAIN serving : AcceptInbound(k) \/ \E cid \in CIDs : AcceptOutbound(k, cid)
       \/ Forget
    /\ UNCHANGED <<serving, todo, file, built, loads>>

Next ==
    \/ \E f \in Files : Load(f)
    \/ \E k \in todo : Commit(k)
    \/ Arrival \/ WalkStep \/ Handler

Spec == Init /\ [][Next]_vars

-----------------------------------------------------------------------------
(* Properties.                                                             *)

Stages == {"record", "handshake", "hello", "session_id", "cipher_suites", "compression_methods",
           "extensions", "extension", "server_name", "name"}

Inbounds == "host" \in DOMAIN conn
Outbounds == "cid" \in DOMAIN conn

(* The walk over a ClientHello never takes a vector to be longer than what *)
(* holds it, and never reads past its end, whatever lengths the bytes      *)
(* announce (sni.go: readVec8, readVec16 and the loops' own checks).       *)
WalkInBounds ==
    Inbounds => /\ conn.stage \in Stages
                /\ 0 <= conn.left /\ conn.left <= conn.within /\ conn.within <= MaxFragment

(* Every file that Validate accepts can be built: its patterns parse when  *)
(* allowlist.New compiles them, and no listener has a CID twice, so a      *)
(* reload is never refused for a reason the validation missed.             *)
AcceptedFilesBuild == built

(* A connection for a name goes where the file says, in whatever case the  *)
(* name, the header or the file is written, with or without a port, and    *)
(* wherever an equal name stands in the file; it is turned away only if    *)
(* the file has no such name.                                              *)
RoutedByName ==
    Inbounds /\ conn.at = "done" /\ conn.meant # << >> =>
        LET ls == {l \in Elements(conn.table.file.inbound) : InKey(l) = conn.key}
            named == {r \in UNION {Elements(l.routes) : l \in ls} : Lower(r.hostname) = Lower(conn.meant)}
        IN  IF conn.result = "dialed"
            THEN named # {} /\ \A r \in named : conn.target = <<r.cid, r.vsockPort>>
            ELSE named = {}

(* The patterns a file lists for the connection's CID and port.            *)
Policy ==
    LET ls == {l \in Elements(conn.table.file.outbound) : OutKey(l) = conn.key}
        es == {e \in UNION {Elements(l.cids) : l \in ls} : e.cid = conn.cid}
    IN  UNION {Elements(e.allowedHosts) : e \in es}

(* An enclave is connected to a destination, under the Host of that        *)
(* destination, exactly when a pattern that the file lists for its CID on  *)
(* that port stands for it; the file is the one whose matchers the handler *)
(* took when it began.                                                     *)
EgressByPolicy ==
    Outbounds =>
        /\ conn.dest # << >> => \E pat \in Policy : Denotes(pat, conn.dest.host, conn.dest.port)
        /\ conn.vhost # << >> => conn.vhost = conn.dest.host
        /\ conn.result = "denied" /\ conn.request # << >> =>
               ~\E pat \in Policy : Denotes(pat, Destination(conn.request).host, Destination(conn.request).port)

(* "Each connection contributes exactly one outbound_connections_total     *)
(* event", on all paths of the three handlers.                             *)
CountedOnce == Outbounds /\ conn.at = "done" => conn.counted = 1

(* Once a file is in force everywhere, an enclave has one listener only.   *)
OneProxyPerEnclave ==
    todo = {} => \A k, o \in DOMAIN serving :
        k[1] = "out" /\ o[1] = "out" /\ DOMAIN serving[k].map \cap DOMAIN serving[o].map # {} => k = o

(* What the validation of a file ensures for the servers built from it.    *)
AcceptedFilesServe == AcceptedFilesBuild /\ OneProxyPerEnclave
=============================================================================
