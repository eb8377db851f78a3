---------------------------- MODULE MCAdmission ----------------------------
(***************************************************************************)
(* Small instances of Admission for TLC: files that are acceptable and     *)
(* files with one fault each, patterns of every form with the numbers at   *)
(* the edges of their ranges, names in two cases, and lengths around what  *)
(* a ClientHello has left.                                                 *)
(***************************************************************************)
EXTENDS Admission

SomeLabels == {"*", "", "x*", "a", "A", "com", "COM", ":", "[", "]", "1", "80"}
SomeLower == [l \in SomeLabels |-> CASE l = "A" -> "a" [] l = "COM" -> "com" [] OTHER -> l]

Pat(h, p) == [split |-> TRUE, host |-> h, port |-> p]

Patterns ==
    {Universal, [Universal EXCEPT !.host = <<"a", "com">>]}
    \cup {Pat(h, 443) : h \in {<<"*">>, <<"">>, <<"a", "COM">>, <<"com">>, <<"*", "COM">>, <<"*", "">>,
                               <<"*", "x*">>, <<"x*", "com">>, <<"a", "*">>}}
    \cup {Pat(<<"*">>, p) : p \in {0, 1, 80, MaxPort, MaxPort + 1, NotANumber}}

Cid(c, p) == [cid |-> c, allowedHosts |-> <<p>>]
Out(p, cs) == [port |-> p, cids |-> cs]
U(c) == Cid(c, Universal)
W(c) == Cid(c, Pat(<<"*", "COM">>, 443))

OutSections ==
    {<<Out(1, <<Cid(3, p)>>)>> : p \in Patterns}
    \cup {<<Out(1, <<U(3)>>), Out(2, <<W(4)>>)>>, <<Out(1, <<W(4)>>), Out(2, <<U(3)>>)>>,
          <<Out(1, <<U(3)>>), Out(2, <<W(3)>>)>>, <<Out(1, <<W(3), U(3)>>)>>,
          <<Out(1, <<W(3)>>), Out(1, <<W(4)>>)>>,
          <<Out(1, <<[W(3) EXCEPT !.allowedHosts = @ \o <<Pat(<<"*">>, 1)>>], U(4)>>)>>,
          <<Out(1, <<U(2)>>)>>, <<Out(0, <<U(3)>>)>>, <<Out(PortAny, <<U(3)>>)>>,
          <<Out(1, << >>)>>, <<Out(1, <<[cid |-> 3, allowedHosts |-> << >>]>>)>>}

R(h, c, p) == [hostname |-> h, cid |-> c, vsockPort |-> p]
In(p, m, rs) == [bind |-> "lo", port |-> p, mode |-> m, routes |-> rs]

InSections ==
    {<<In(8, m, rs)>> : m \in {"http-host", "tls-sni"},
                        rs \in {<<R(<<"A">>, 3, 1), R(<<"com">>, 4, 1)>>, <<R(<<"a">>, 4, 2)>>,
                                <<R(<<"A">>, 3, 1), R(<<"a">>, 4, 1)>>}}
    \cup {<<In(8, "http-host", <<R(<<":", ":", "1">>, 3, 1)>>)>>,
          <<In(8, "http-host", <<R(<<"a">>, 3, 1)>>), In(8, "tls-sni", <<R(<<"a">>, 4, 1)>>)>>,
          <<In(8, "http-host", <<R(<<"a">>, 3, 1)>>), In(8, "http-host", <<R(<<"com">>, 4, 1)>>)>>,
          <<In(8, "http-host", <<R(<<"a">>, 2, 1)>>)>>, <<In(8, "http-host", <<R(<<"a">>, 3, PortAny)>>)>>,
          <<In(0, "http-host", <<R(<<"a">>, 3, 1)>>)>>, <<In(MaxPort + 1, "http-host", <<R(<<"a">>, 3, 1)>>)>>,
          <<In(8, "tcp", <<R(<<"a">>, 3, 1)>>)>>, <<In(8, "tls-sni", << >>)>>}

Empty ==
    [inbound |-> << >>, outbound |-> << >>, tcpToVsock |-> << >>, vsockToTCP |-> << >>, logRelay |-> << >>,
     metrics |-> [bind |-> "", vsockPort |-> 0], optionsOK |-> TRUE]

T2V(p) == [bind |-> "lo", port |-> p, vsockCID |-> 3, vsockPort |-> 1]
V2T(p) == [port |-> p, upstream |-> Pat(<<"a">>, 443)]
Relay(p) == [port |-> p, output |-> "stdout", path |-> "", maxLineBytes |-> 0]

Base == [Empty EXCEPT !.inbound = <<In(8, "http-host", <<R(<<"a">>, 3, 1)>>)>>,
                      !.outbound = <<Out(1, <<W(3)>>)>>]

SomeFiles ==
    {Empty}
    \cup {[Base EXCEPT !.outbound = o] : o \in OutSections}
    \cup {[Base EXCEPT !.inbound = i] : i \in InSections}
    \cup {[Base EXCEPT !.tcpToVsock = <<T2V(8)>>], [Base EXCEPT !.vsockToTCP = <<V2T(1)>>],
          [Base EXCEPT !.vsockToTCP = <<[V2T(2) EXCEPT !.upstream.host = <<"*", "com">>]>>],
          [Base EXCEPT !.logRelay = <<Relay(1)>>],
          [Base EXCEPT !.outbound = <<Out(2, <<W(3)>>)>>, !.vsockToTCP = <<V2T(1)>>],
          [Base EXCEPT !.inbound = << >>, !.tcpToVsock = <<T2V(8)>>],
          [Base EXCEPT !.logRelay = <<[Relay(2) EXCEPT !.maxLineBytes = MinMaxLineBytes - 1]>>],
          [Base EXCEPT !.logRelay = <<[Relay(2) EXCEPT !.path = "log"]>>], [Base EXCEPT !.metrics.vsockPort = 1],
          [Base EXCEPT !.inbound = << >>, !.tcpToVsock = <<T2V(9)>>, !.vsockToTCP = <<V2T(2)>>,
                       !.logRelay = <<Relay(3)>>, !.metrics.vsockPort = 4]}

Connect(h, p) == [form |-> "connect", host |-> h, port |-> p, scheme |-> "", header |-> h]
Absolute(h, p) == [form |-> "absolute", host |-> h, port |-> p, scheme |-> "http", header |-> <<"com">>]

SomeRequests ==
    {Connect(h, 443) : h \in {<<"a", "com">>, <<"A", "com">>, <<"COM">>, <<"a", "a", "com">>, <<"a", "com", "a">>}}
    \cup {Connect(<<"a">>, p) : p \in {NoPort, NotANumber, 0, 1, MaxPort, MaxPort + 1}}
    \cup {Absolute(<<"a">>, NoPort), Absolute(<<"A", "com">>, 443), [Absolute(<<"a">>, 443) EXCEPT !.scheme = "https"],
          [Absolute(<<"a">>, 80) EXCEPT !.form = "origin"]}

SomeNames == {<<"a">>, <<"A">>, <<"com">>}

Header(v, h) == [value |-> v, means |-> h]
V6 == <<":", ":", "1">>

SomeHeaders ==
    {Header(h, h) : h \in SomeNames}
    \cup {Header(<<"A", ":", "80">>, <<"A">>), Header(<<"[">> \o V6 \o <<"]">>, V6),
          Header(<<"[">> \o V6 \o <<"]", ":", "80">>, V6),
          Header(<<"[">> \o V6, << >>), Header(V6, << >>), Header(<<":", "80">>, << >>), Header(<< >>, << >>)}
=============================================================================
