----------------------------- MODULE Allowlist -----------------------------
(***************************************************************************)
(* Egress patterns: the two readers of a pattern, validatePattern of       *)
(* internal/config/config.go, which decides whether a file is accepted,    *)
(* and parsePattern of internal/allowlist/allowlist.go, which compiles it, *)
(* and the matching of a destination against compiled patterns.            *)
(*                                                                         *)
(* A host is the sequence of its dot-separated labels, so that the string  *)
(* "." \o s is a suffix of a host exactly when the labels of s are its     *)
(* last ones and at least one label comes before them.  A pattern as       *)
(* written is the text "*" or what net.SplitHostPort and strconv.Atoi make *)
(* of it: split tells whether it is host:port at all, and port is          *)
(* NotANumber when Atoi fails.                                             *)
(***************************************************************************)
EXTENDS Integers, Sequences, SequencesExt

CONSTANTS
    Labels,     \* labels of host names, those with capitals or a * included
    Starred,    \* the labels that contain a *
    LowerLabel  \* strings.ToLower of a label

MaxPort == 65535
NotANumber == -1

ASSUME LabelAssumption ==
    /\ LowerLabel \in [Labels -> Labels]
    /\ \A l \in Labels : LowerLabel[LowerLabel[l]] = LowerLabel[l]
    /\ {"*", ""} \subseteq Labels /\ "*" \in Starred /\ "" \notin Starred
    /\ \A l \in Labels : /\ LowerLabel[l] \in Starred <=> l \in Starred
                         /\ LowerLabel[l] \in {"*", ""} <=> l \in {"*", ""}

(* The text "" is one empty label.                                         *)
Hosts == Seq(Labels) \ {<< >>}

PatternTexts == [split : BOOLEAN, host : Hosts, port : Int]

Lower(host) == [i \in DOMAIN host |-> LowerLabel[host[i]]]

Universal == [split |-> FALSE, host |-> <<"*">>, port |-> NotANumber]

HasStar(labels) == \E i \in DOMAIN labels : labels[i] \in Starred

ValidPort(port) == port \in 1 .. MaxPort

(* The host is "*.", followed by what becomes the suffix.                  *)
Wildcard(host) == Len(host) > 1 /\ host[1] = "*"

-----------------------------------------------------------------------------
(* The daemon's configuration accepts the pattern.                         *)

validatePatternAnyStar(pat) == pat = Universal \/ (pat.split /\ pat.host # <<"">> /\ ValidPort(pat.port))

validatePattern(pat) ==
    \/ pat = Universal
    \/ /\ pat.split
       /\ pat.host # <<"">>
       /\ \/ pat.host = <<"*">>
          \/ Wildcard(pat.host) /\ Tail(pat.host) # <<"">> /\ ~HasStar(Tail(pat.host))
          \/ ~HasStar(pat.host)
       /\ ValidPort(pat.port)

-----------------------------------------------------------------------------
(* Compiled patterns.  A pattern that does not parse is NoPattern.         *)

NoPattern == [kind |-> "error"]

parsePattern(pat) ==
    LET host == Lower(pat.host) IN
    IF pat = Universal THEN [kind |-> "universal"]
    ELSE IF ~pat.split \/ ~ValidPort(pat.port) \/ host = <<"">> THEN NoPattern
    ELSE IF host = <<"*">> THEN [kind |-> "anyHost", port |-> pat.port]
    ELSE IF Wildcard(host)
         THEN IF Tail(host) = <<"">> \/ HasStar(Tail(host)) THEN NoPattern
              ELSE [kind |-> "hostSuffix", suffix |-> Tail(host), port |-> pat.port]
    ELSE IF HasStar(host) THEN NoPattern
    ELSE [kind |-> "exact", host |-> host, port |-> pat.port]

(* allowlist.New succeeds.                                                 *)
Compiles(patterns) == patterns # << >> /\ \A i \in DOMAIN patterns : parsePattern(patterns[i]) # NoPattern

New(patterns) == {parsePattern(patterns[i]) : i \in DOMAIN patterns}

matchSelf(p, host, port) ==
    CASE p.kind = "universal"  -> TRUE
      [] p.kind = "anyHost"    -> port = p.port
      [] p.kind = "exact"      -> port = p.port /\ host = p.host
      [] p.kind = "hostSuffix" -> port = p.port /\ IsSuffix(p.suffix, host)

match(p, host, port) ==
    CASE p.kind = "universal"  -> TRUE
      [] p.kind = "anyHost"    -> port = p.port
      [] p.kind = "exact"      -> port = p.port /\ host = p.host
      [] p.kind = "hostSuffix" -> port = p.port /\ IsStrictSuffix(p.suffix, host)

Allow(matcher, host, port) ==
    ValidPort(port) /\ \E p \in matcher : match(p, Lower(host), port)

-----------------------------------------------------------------------------
(* The reference: what the package comment says a pattern stands for, with *)
(* a * in front standing for one label or more.                            *)
Denotes(pat, host, port) ==
    \/ pat = Universal
    \/ /\ pat.port = port
       /\ \/ pat.host = <<"*">>
          \/ Lower(host) = Lower(pat.host)
          \/ /\ pat.host[1] = "*"
             /\ \E k \in 1 .. Len(host) : Lower(host) = Lower(SubSeq(host, 1, k) \o Tail(pat.host))
=============================================================================
