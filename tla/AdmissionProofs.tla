-------------------------- MODULE AdmissionProofs --------------------------
(***************************************************************************)
(* What is decided for a connection, for any configuration files, requests *)
(* and names, any lengths in a ClientHello and any number of reloads.      *)
(*                                                                         *)
(* First the operators: a pattern that validatePattern accepts compiles    *)
(* and then matches what it denotes, stripPort finds the name in a Host    *)
(* header, and in a file that Validate accepts an address, a port and a    *)
(* CID each lead to one entry.  Then the steps: every table in use, that   *)
(* of the connection included, was built from an accepted file, so what    *)
(* was decided with it can be compared with that file.                     *)
(***************************************************************************)
EXTENDS Admission, SequenceTheorems, TLAPS

(* A table that was built from an accepted file, for a listener of it.     *)
FromFile(table, k) == \E f \in Files : Validate(f) /\ k \in Keys(f) /\ table = Table(f, k)

(* A file is in force before anything is served.                           *)
FileAccepted ==
    \/ file \in Files /\ Validate(file)
    \/ todo = {} /\ DOMAIN serving = {}

(* A listener has the table of an accepted file, and once a commit has     *)
(* reached it, the table of the last one.                                  *)
Serves ==
    \A k \in DOMAIN serving :
        /\ FromFile(serving[k], k)
        /\ k \notin todo => k \in Keys(file) /\ serving[k] = Table(file, k)

InFields == {"at", "key", "table", "live", "stage", "left", "within", "host", "meant", "result",
             "target"}

(* An inbound connection: the walk's bounds, the name that was found, and  *)
(* where it led.                                                           *)
InboundInv ==
    /\ DOMAIN conn = InFields
    /\ conn.at \in {"sni", "sniff", "route", "done"}
    /\ conn.key[1] = "in" /\ FromFile(conn.table, conn.key)
    /\ conn.stage \in Stages
    /\ conn.left \in Nat /\ conn.within \in Nat
    /\ conn.left <= conn.within /\ conn.within <= MaxFragment
    /\ conn.at \in {"sni", "sniff"} => conn.meant = << >>
    /\ conn.at = "route" /\ conn.meant # << >> => conn.host = Lower(conn.meant)
    /\ RoutedByName

OutFields == {"at", "key", "cid", "table", "request", "live", "result", "counted", "dest",
              "vhost"}

(* An outbound connection: what has been decided, and what was counted.    *)
OutboundInv ==
    /\ DOMAIN conn = OutFields
    /\ conn.at \in {"accepted", "read", "dial", "established", "forward", "response", "answer", "done"}
    /\ conn.key[1] = "out" /\ FromFile(conn.table, conn.key)
    /\ conn.counted = IF conn.at = "done" THEN 1 ELSE 0
    /\ conn.at # "done" => conn.result = "none"
    /\ conn.at \notin {"accepted", "done"} => conn.cid \in DOMAIN conn.table.map
    /\ conn.at \in {"accepted", "read"} => conn.request = << >> /\ conn.dest = << >> /\ conn.vhost = << >>
    /\ conn.at \notin {"accepted", "read", "done"} => conn.dest = Destination(conn.request)
    /\ EgressByPolicy

ConnInv == conn = NoConn \/ InboundInv \/ OutboundInv

(* The inductive invariant.                                                *)
IInv == built /\ FileAccepted /\ Serves /\ ConnInv

-----------------------------------------------------------------------------
(* Patterns.                                                               *)

(* The empty label.                                                        *)
Blank == ""

(* A host of one label.                                                    *)
LEMMA OneLabel ==
    ASSUME NEW h \in Seq(Labels), NEW x
    PROVE  h = <<x>> <=> Len(h) = 1 /\ h[1] = x
  OBVIOUS

(* Lower keeps the number of labels and works label by label.              *)
LEMMA LowerLabels ==
    ASSUME NEW h \in Seq(Labels)
    PROVE  /\ Lower(h) \in Seq(Labels)
           /\ Len(Lower(h)) = Len(h)
           /\ \A i \in 1 .. Len(h) : Lower(h)[i] = LowerLabel[h[i]]
  <1>1. DOMAIN h = 1 .. Len(h) /\ Len(h) \in Nat
    OBVIOUS
  <1>2. LowerLabel \in [Labels -> Labels]
    BY LabelAssumption
  <1>3. \A i \in 1 .. Len(h) : LowerLabel[h[i]] \in Labels
    BY <1>2
  <1> QED
    BY <1>1, <1>3, IsASeq DEF Lower

(* Only the one-label texts "*" and "" become "*" and "", and a label has  *)
(* a star exactly if it had one.                                           *)
LEMMA LowerSpecial ==
    ASSUME NEW h \in Seq(Labels)
    PROVE  /\ Lower(h) = <<"*">> <=> h = <<"*">>
           /\ Lower(h) = <<"">> <=> h = <<"">>
           /\ HasStar(Lower(h)) <=> HasStar(h)
           /\ Wildcard(Lower(h)) <=> Wildcard(h)
  <1>1. \A l \in Labels : /\ LowerLabel[l] = "*" <=> l = "*"
                          /\ LowerLabel[l] = Blank <=> l = Blank
                          /\ LowerLabel[l] \in Starred <=> l \in Starred
    BY LabelAssumption, Zenon DEF Blank
  <1>2. \A i \in 1 .. Len(h) : h[i] \in Labels
    OBVIOUS
  <1>3. /\ Lower(h) \in Seq(Labels) /\ Len(Lower(h)) = Len(h) /\ Len(h) \in Nat
        /\ \A i \in 1 .. Len(h) : Lower(h)[i] = LowerLabel[h[i]]
    BY LowerLabels
  <1>4. \A x : h = <<x>> <=> Len(h) = 1 /\ h[1] = x
    BY OneLabel
  <1>5. \A x : Lower(h) = <<x>> <=> Len(h) = 1 /\ Lower(h)[1] = x
    BY <1>3, OneLabel
  <1>6. Len(h) >= 1 => /\ Lower(h)[1] = "*" <=> h[1] = "*"
                       /\ Lower(h)[1] = Blank <=> h[1] = Blank
    <2>1. Len(h) >= 1 => Lower(h)[1] = LowerLabel[h[1]] /\ h[1] \in Labels
      BY <1>2, <1>3
    <2> QED
      BY <1>1, <2>1
  <1>7. HasStar(Lower(h)) <=> HasStar(h)
    <2>1. DOMAIN h = 1 .. Len(h) /\ DOMAIN Lower(h) = 1 .. Len(h)
      BY <1>3
    <2>2. \A i \in 1 .. Len(h) : Lower(h)[i] \in Starred <=> h[i] \in Starred
      BY <1>1, <1>2, <1>3
    <2> QED
      BY <2>1, <2>2 DEF HasStar
  <1>8. Wildcard(Lower(h)) <=> Wildcard(h)
    BY <1>3, <1>6 DEF Wildcard
  <1>9. Lower(h) = <<"*">> <=> h = <<"*">>
    BY <1>3, <1>4, <1>5, <1>6
  <1>10. Lower(h) = <<Blank>> <=> h = <<Blank>>
    BY <1>3, <1>4, <1>5, <1>6
  <1> QED
    BY <1>7, <1>8, <1>9, <1>10, Zenon DEF Blank

(* A wildcard has a star, and more than that.                              *)
LEMMA WildcardStar ==
    ASSUME NEW h \in Seq(Labels), Wildcard(h)
    PROVE  HasStar(h) /\ h # <<"*">>
  <1>1. "*" \in Starred
    BY LabelAssumption, Zenon
  <1>2. Len(h) > 1
    BY Zenon DEF Wildcard
  <1>3. h[1] = "*"
    BY Zenon DEF Wildcard
  <1>4. 1 \in DOMAIN h
    BY <1>2
  <1>5. Len(h) # 1
    <2>1. \A n : n > 1 => n # 1
      OBVIOUS
    <2> QED
      BY <1>2, <2>1, Zenon
  <1>6. Len(<<"*">>) = 1
    OBVIOUS
  <1>7. h # <<"*">>
    BY <1>5, <1>6, Zenon
  <1> QED
    BY <1>1, <1>3, <1>4, <1>7 DEF HasStar

(* Lower of the rest is the rest of Lower.                                 *)
LEMMA LowerTail ==
    ASSUME NEW h \in Hosts
    PROVE  /\ Tail(h) \in Seq(Labels) /\ Len(Tail(h)) = Len(h) - 1
           /\ \A i \in 1 .. Len(h) - 1 : Tail(h)[i] = h[i + 1]
           /\ Tail(Lower(h)) = Lower(Tail(h))
  <1>1. h \in Seq(Labels) /\ h # << >>
    BY DEF Hosts
  <1>2. /\ Tail(h) \in Seq(Labels) /\ Len(Tail(h)) = Len(h) - 1
        /\ \A i \in 1 .. Len(h) - 1 : Tail(h)[i] = h[i + 1]
    BY <1>1
  <1>3. Lower(h) \in Seq(Labels) /\ Len(Lower(h)) = Len(h) /\ Lower(h) # << >>
    BY <1>1, LowerLabels
  <1>4. /\ Tail(Lower(h)) \in Seq(Labels) /\ Len(Tail(Lower(h))) = Len(h) - 1
        /\ \A i \in 1 .. Len(h) - 1 : Tail(Lower(h))[i] = Lower(h)[i + 1]
    BY <1>3
  <1>5. /\ Lower(Tail(h)) \in Seq(Labels) /\ Len(Lower(Tail(h))) = Len(h) - 1
        /\ \A i \in 1 .. Len(h) - 1 : Lower(Tail(h))[i] = LowerLabel[Tail(h)[i]]
    BY <1>2, LowerLabels
  <1>6. \A i \in 1 .. Len(h) - 1 : Tail(Lower(h))[i] = Lower(Tail(h))[i]
    BY <1>1, <1>2, <1>4, <1>5, LowerLabels
  <1> QED
    BY <1>2, <1>4, <1>5, <1>6, SeqEqual

(* What the validation accepts, allowlist.New compiles.                    *)
LEMMA AcceptedCompiles ==
    ASSUME NEW pat \in PatternTexts, validatePattern(pat)
    PROVE  parsePattern(pat) # NoPattern
  <1>1. CASE pat = Universal
    BY <1>1 DEF parsePattern, NoPattern
  <1>2. CASE pat # Universal
    <2>1. pat.host \in Seq(Labels) /\ pat.host \in Hosts /\ Tail(pat.host) \in Seq(Labels)
      BY LowerTail DEF PatternTexts, Hosts
    <2>2. pat.split /\ pat.host # <<"">> /\ ValidPort(pat.port)
      BY <1>2 DEF validatePattern
    <2>3. Lower(pat.host) # <<"">>
      BY <2>1, <2>2, LowerSpecial
    <2>4. Wildcard(pat.host) => Tail(Lower(pat.host)) # <<"">> /\ ~HasStar(Tail(Lower(pat.host)))
      <3>1. Wildcard(pat.host) => HasStar(pat.host) /\ pat.host # <<"*">>
        BY <2>1, WildcardStar
      <3>2. Wildcard(pat.host) => Tail(pat.host) # <<"">> /\ ~HasStar(Tail(pat.host))
        BY <1>2, <3>1 DEF validatePattern
      <3> QED
        BY <2>1, <3>2, LowerTail, LowerSpecial
    <2>5. ~Wildcard(pat.host) /\ pat.host # <<"*">> => ~HasStar(pat.host)
      BY <1>2 DEF validatePattern
    <2>6. /\ Lower(pat.host) = <<"*">> <=> pat.host = <<"*">>
          /\ Wildcard(Lower(pat.host)) <=> Wildcard(pat.host)
          /\ HasStar(Lower(pat.host)) <=> HasStar(pat.host)
      BY <2>1, LowerSpecial
    <2> QED
      BY <1>2, <2>2, <2>3, <2>4, <2>5, <2>6 DEF parsePattern, NoPattern
  <1> QED
    BY <1>1, <1>2

(* A suffix, label by label from its end.                                  *)
LEMMA SuffixLabels ==
    ASSUME NEW s \in Seq(Labels), NEW t \in Seq(Labels)
    PROVE  IsSuffix(s, t) <=>
             Len(s) <= Len(t) /\ \A i \in 1 .. Len(s) : s[i] = t[Len(t) - Len(s) + i]
  <1> DEFINE r(q) == [i \in 1 .. Len(q) |-> q[Len(q) - i + 1]]
  <1>1. Reverse(s) = r(s) /\ Reverse(t) = r(t)
    BY DEF Reverse
  <1>2. /\ r(s) \in Seq(Labels) /\ Len(r(s)) = Len(s)
        /\ \A i \in 1 .. Len(s) : r(s)[i] = s[Len(s) - i + 1]
    BY IsASeq
  <1>3. /\ r(t) \in Seq(Labels) /\ Len(r(t)) = Len(t)
        /\ \A i \in 1 .. Len(t) : r(t)[i] = t[Len(t) - i + 1]
    BY IsASeq
  <1> HIDE DEF r
  <1>4. IsSuffix(s, t) <=> Len(s) <= Len(t) /\ SubSeq(r(s), 1, Len(s)) = SubSeq(r(t), 1, Len(s))
    BY <1>1, <1>2, <1>3 DEF IsSuffix, IsPrefix
  <1>5. ASSUME Len(s) <= Len(t)
        PROVE  SubSeq(r(s), 1, Len(s)) = SubSeq(r(t), 1, Len(s))
                 <=> \A i \in 1 .. Len(s) : r(s)[i] = r(t)[i]
    <2>1. Len(s) \in Nat /\ Len(t) \in Nat
      OBVIOUS
    <2>2. /\ SubSeq(r(s), 1, Len(s)) \in Seq(Labels) /\ Len(SubSeq(r(s), 1, Len(s))) = Len(s)
          /\ \A i \in 1 .. Len(s) : SubSeq(r(s), 1, Len(s))[i] = r(s)[i]
      BY <1>2, <2>1
    <2>3. /\ SubSeq(r(t), 1, Len(s)) \in Seq(Labels) /\ Len(SubSeq(r(t), 1, Len(s))) = Len(s)
          /\ \A i \in 1 .. Len(s) : SubSeq(r(t), 1, Len(s))[i] = r(t)[i]
      BY <1>3, <1>5, <2>1
    <2> QED
      BY <2>2, <2>3, SeqEqual
  <1>6. ASSUME Len(s) <= Len(t)
        PROVE  (\A i \in 1 .. Len(s) : r(s)[i] = r(t)[i])
                 <=> \A i \in 1 .. Len(s) : s[i] = t[Len(t) - Len(s) + i]
    <2>1. Len(s) \in Nat /\ Len(t) \in Nat
      OBVIOUS
    <2>2. ASSUME \A i \in 1 .. Len(s) : r(s)[i] = r(t)[i], NEW i \in 1 .. Len(s)
          PROVE  s[i] = t[Len(t) - Len(s) + i]
      <3> DEFINE k == Len(s) - i + 1
      <3>1. k \in 1 .. Len(s) /\ k \in 1 .. Len(t)
        BY <1>6, <2>1
      <3>2. Len(s) - k + 1 = i /\ Len(t) - k + 1 = Len(t) - Len(s) + i
        BY <2>1
      <3> HIDE DEF k
      <3>3. r(s)[k] = r(t)[k] /\ r(s)[k] = s[Len(s) - k + 1] /\ r(t)[k] = t[Len(t) - k + 1]
        BY <1>2, <1>3, <2>2, <3>1
      <3> QED
        BY <3>2, <3>3
    <2>3. ASSUME \A i \in 1 .. Len(s) : s[i] = t[Len(t) - Len(s) + i], NEW i \in 1 .. Len(s)
          PROVE  r(s)[i] = r(t)[i]
      <3>1. Len(s) - i + 1 \in 1 .. Len(s) /\ i \in 1 .. Len(t)
        BY <1>6, <2>1
      <3>2. s[Len(s) - i + 1] = t[Len(t) - Len(s) + (Len(s) - i + 1)]
        BY <2>3, <3>1
      <3>3. Len(t) - Len(s) + (Len(s) - i + 1) = Len(t) - i + 1
        BY <2>1
      <3> QED
        BY <1>2, <1>3, <3>1, <3>2, <3>3
    <2> QED
      BY <2>2, <2>3
  <1> QED
    BY <1>4, <1>5, <1>6

(* The labels that follow a first part of a host.                          *)
LEMMA Joined ==
    ASSUME NEW h \in Seq(Labels), NEW s \in Seq(Labels), NEW k \in 1 .. Len(h)
    PROVE  LET j == SubSeq(h, 1, k) \o s
           IN  /\ j \in Seq(Labels) /\ Len(j) = k + Len(s)
               /\ \A i \in 1 .. k : j[i] = h[i]
               /\ \A i \in 1 .. Len(s) : j[k + i] = s[i]
  <1> DEFINE p == SubSeq(h, 1, k)
  <1>1. k \in Nat /\ k <= Len(h) /\ Len(s) \in Nat
    OBVIOUS
  <1>2. p \in Seq(Labels) /\ Len(p) = k /\ \A i \in 1 .. k : p[i] = h[i]
    BY <1>1
  <1> HIDE DEF p
  <1>3. /\ p \o s \in Seq(Labels) /\ Len(p \o s) = k + Len(s)
        /\ \A i \in 1 .. k + Len(s) : (p \o s)[i] = IF i <= k THEN p[i] ELSE s[i - k]
    BY <1>1, <1>2
  <1>4. ASSUME NEW i \in 1 .. k PROVE (p \o s)[i] = h[i]
    BY <1>1, <1>2, <1>3
  <1>5. ASSUME NEW i \in 1 .. Len(s) PROVE (p \o s)[k + i] = s[i]
    <2>1. k + i \in 1 .. k + Len(s) /\ ~(k + i <= k) /\ (k + i) - k = i
      BY <1>1
    <2> QED
      BY <1>3, <2>1
  <1> QED
    BY <1>3, <1>4, <1>5 DEF p

(* A proper suffix, label by label.                                        *)
LEMMA StrictSuffixLabels ==
    ASSUME NEW s \in Seq(Labels), NEW t \in Seq(Labels)
    PROVE  IsStrictSuffix(s, t) <=>
             Len(s) < Len(t) /\ \A i \in 1 .. Len(s) : s[i] = t[Len(t) - Len(s) + i]
  <1>1. Len(s) \in Nat /\ Len(t) \in Nat
    OBVIOUS
  <1>2. IsStrictSuffix(s, t) <=>
          /\ Len(s) <= Len(t) /\ \A i \in 1 .. Len(s) : s[i] = t[Len(t) - Len(s) + i]
          /\ s # t
    BY SuffixLabels DEF IsStrictSuffix
  <1>3. ASSUME Len(s) = Len(t), \A i \in 1 .. Len(s) : s[i] = t[Len(t) - Len(s) + i]
        PROVE  s = t
    <2>1. \A i \in 1 .. Len(s) : s[i] = t[i]
      BY <1>1, <1>3
    <2> QED
      BY <1>3, <2>1, SeqEqual
  <1>4. s = t => Len(s) = Len(t)
    OBVIOUS
  <1>5. Len(s) < Len(t) <=> Len(s) <= Len(t) /\ Len(s) # Len(t)
    BY <1>1
  <1> QED
    BY <1>2, <1>3, <1>4, <1>5

(* A wildcard matches the hosts that put one label or more in the place of *)
(* its star.                                                               *)
LEMMA WildcardMeaning ==
    ASSUME NEW w \in Hosts, NEW h \in Hosts, Wildcard(w)
    PROVE  IsStrictSuffix(Tail(Lower(w)), Lower(h)) <=>
             \/ Lower(h) = Lower(w)
             \/ \E k \in 1 .. Len(h) : Lower(h) = Lower(SubSeq(h, 1, k) \o Tail(w))
  <1> DEFINE tail == Tail(w)
             s == Lower(tail)
             t == Lower(h)
  <1>1. w \in Seq(Labels) /\ h \in Seq(Labels)
    BY DEF Hosts
  <1>2. /\ tail \in Seq(Labels) /\ Len(tail) = Len(w) - 1 /\ Len(w) \in Nat
        /\ \A i \in 1 .. Len(w) - 1 : tail[i] = w[i + 1]
        /\ Tail(Lower(w)) = s
    BY <1>1, LowerTail
  <1> HIDE DEF tail
  <1>3. /\ s \in Seq(Labels) /\ Len(s) = Len(tail) /\ Len(s) \in Nat
        /\ \A i \in 1 .. Len(s) : s[i] = LowerLabel[tail[i]]
    <2>1. tail \in Seq(Labels) /\ Len(tail) \in Nat
      BY <1>2
    <2> QED
      BY <2>1, LowerLabels
  <1>4. /\ t \in Seq(Labels) /\ Len(t) = Len(h) /\ Len(t) \in Nat
        /\ \A i \in 1 .. Len(t) : t[i] = LowerLabel[h[i]]
    BY <1>1, LowerLabels
  <1>5. IsStrictSuffix(s, t) <=>
          Len(s) < Len(t) /\ \A i \in 1 .. Len(s) : s[i] = t[Len(t) - Len(s) + i]
    BY <1>3, <1>4, StrictSuffixLabels
  <1>6. ASSUME NEW k \in 1 .. Len(h)
        PROVE  LET j == Lower(SubSeq(h, 1, k) \o tail)
               IN  /\ j \in Seq(Labels) /\ Len(j) = k + Len(s)
                   /\ \A i \in 1 .. k : j[i] = t[i]
                   /\ \A i \in 1 .. Len(s) : j[k + i] = s[i]
    <2> DEFINE j == SubSeq(h, 1, k) \o tail
    <2>1. /\ j \in Seq(Labels) /\ Len(j) = k + Len(s)
          /\ \A i \in 1 .. k : j[i] = h[i]
          /\ \A i \in 1 .. Len(s) : j[k + i] = tail[i]
      <3>1. /\ j \in Seq(Labels) /\ Len(j) = k + Len(tail)
            /\ \A i \in 1 .. k : j[i] = h[i]
            /\ \A i \in 1 .. Len(tail) : j[k + i] = tail[i]
        BY <1>1, <1>2, Joined
      <3> QED
        BY <1>3, <3>1, Zenon
    <2> HIDE DEF j, s, t, tail
    <2>2. /\ Lower(j) \in Seq(Labels) /\ Len(Lower(j)) = Len(j)
          /\ \A i \in 1 .. Len(j) : Lower(j)[i] = LowerLabel[j[i]]
      BY <2>1, LowerLabels
    <2>3. k \in Nat /\ k <= Len(t)
      BY <1>4
    <2>4. ASSUME NEW i \in 1 .. k PROVE Lower(j)[i] = t[i]
      <3>1. i \in 1 .. Len(j) /\ i \in 1 .. Len(t)
        BY <1>3, <1>4, <2>1, <2>3
      <3>2. Lower(j)[i] = LowerLabel[j[i]] /\ t[i] = LowerLabel[h[i]]
        BY <1>4, <2>2, <3>1, Zenon
      <3> QED
        BY <2>1, <3>2, Zenon
    <2>5. ASSUME NEW i \in 1 .. Len(s) PROVE Lower(j)[k + i] = s[i]
      <3>1. k + i \in 1 .. Len(j)
        BY <1>3, <2>1, <2>3
      <3>2. Lower(j)[k + i] = LowerLabel[j[k + i]]
        BY <2>2, <3>1, Zenon
      <3>3. j[k + i] = tail[i] /\ s[i] = LowerLabel[tail[i]]
        BY <1>3, <2>1, Zenon
      <3> QED
        BY <3>2, <3>3, Zenon
    <2> QED
      BY <2>1, <2>2, <2>4, <2>5 DEF j
  <1> HIDE DEF tail, s, t
  <1>7. ASSUME NEW k \in 1 .. Len(h), t = Lower(SubSeq(h, 1, k) \o tail)
        PROVE  IsStrictSuffix(s, t)
    <2>1. k \in Nat /\ k > 0
      OBVIOUS
    <2>2. Len(t) = k + Len(s) /\ \A i \in 1 .. Len(s) : t[k + i] = s[i]
      BY <1>6, <1>7
    <2>3. Len(s) < Len(t) /\ Len(t) - Len(s) = k
      BY <1>3, <2>1, <2>2
    <2> QED
      BY <1>5, <2>2, <2>3
  <1>8. ASSUME t = Lower(w) PROVE IsStrictSuffix(s, t)
    <2>1. Len(t) = Len(w) /\ \A i \in 1 .. Len(w) : t[i] = LowerLabel[w[i]]
      BY <1>1, <1>8, LowerLabels
    <2>2. Len(s) < Len(t) /\ Len(t) - Len(s) = 1
      BY <1>2, <1>3, <2>1
    <2>3. ASSUME NEW i \in 1 .. Len(s) PROVE s[i] = t[1 + i]
      <3>1. i \in 1 .. Len(w) - 1 /\ 1 + i \in 1 .. Len(w) /\ 1 + i = i + 1
        BY <1>2, <1>3
      <3> QED
        BY <1>2, <1>3, <2>1, <3>1
    <2> QED
      BY <1>5, <2>2, <2>3
  <1>9. ASSUME IsStrictSuffix(s, t)
        PROVE  \E k \in 1 .. Len(h) : t = Lower(SubSeq(h, 1, k) \o tail)
    <2> DEFINE k == Len(t) - Len(s)
    <2>1. k \in 1 .. Len(h) /\ k + Len(s) = Len(t) /\ k \in Nat
      BY <1>3, <1>4, <1>5, <1>9
    <2>2. \A i \in 1 .. Len(s) : s[i] = t[k + i]
      BY <1>5, <1>9
    <2> HIDE DEF k
    <2> DEFINE j == Lower(SubSeq(h, 1, k) \o tail)
    <2>3. /\ j \in Seq(Labels) /\ Len(j) = k + Len(s)
          /\ \A i \in 1 .. k : j[i] = t[i]
          /\ \A i \in 1 .. Len(s) : j[k + i] = s[i]
      BY <1>6, <2>1
    <2> HIDE DEF j
    <2>4. ASSUME NEW i \in 1 .. Len(t) PROVE j[i] = t[i]
      <3>1. CASE i <= k
        BY <2>1, <2>3, <3>1
      <3>2. CASE i > k
        <4>1. i - k \in 1 .. Len(s) /\ k + (i - k) = i
          BY <1>3, <1>4, <2>1, <3>2
        <4> QED
          BY <2>2, <2>3, <4>1
      <3> QED
        BY <1>4, <2>1, <3>1, <3>2
    <2>5. j = t
      BY <1>4, <2>1, <2>3, <2>4, SeqEqual
    <2> QED
      BY <2>1, <2>5 DEF j
  <1> QED
    BY <1>2, <1>7, <1>8, <1>9 DEF tail, s, t

(* The compiled pattern matches what the pattern stands for.               *)
LEMMA MatchesMeaning ==
    ASSUME NEW pat \in PatternTexts, validatePattern(pat), NEW host \in Hosts, NEW port
    PROVE  match(parsePattern(pat), Lower(host), port) <=> Denotes(pat, host, port)
  <1>1. CASE pat = Universal
    BY <1>1 DEF parsePattern, match, Denotes
  <1>2. CASE pat # Universal
    <2>1. pat.host \in Seq(Labels) /\ pat.host \in Hosts
      BY DEF PatternTexts, Hosts
    <2>2. pat.split /\ ValidPort(pat.port) /\ Lower(pat.host) # <<"">>
      BY <1>2, <2>1, LowerSpecial, Zenon DEF validatePattern
    <2>3. /\ Lower(pat.host) = <<"*">> <=> pat.host = <<"*">>
          /\ Wildcard(Lower(pat.host)) <=> Wildcard(pat.host)
          /\ HasStar(Lower(pat.host)) <=> HasStar(pat.host)
      BY <2>1, LowerSpecial
    <2>4. parsePattern(pat) # NoPattern
      BY AcceptedCompiles
    <2>5. CASE pat.host = <<"*">>
      <3>1. parsePattern(pat) = [kind |-> "anyHost", port |-> pat.port]
        BY <1>2, <2>2, <2>3, <2>5, Zenon DEF parsePattern
      <3>2. match(parsePattern(pat), Lower(host), port) <=> port = pat.port
        BY <3>1 DEF match
      <3> QED
        BY <1>2, <2>5, <3>2, Zenon DEF Denotes
    <2>6. CASE Wildcard(pat.host)
      <3>1. pat.host # <<"*">> /\ pat.host[1] = "*"
        BY <2>1, <2>6, WildcardStar, Zenon DEF Wildcard
      <3>2. parsePattern(pat) = [kind |-> "hostSuffix", suffix |-> Tail(Lower(pat.host)),
                                 port |-> pat.port]
        BY <1>2, <2>2, <2>3, <2>4, <2>6, <3>1, Zenon DEF parsePattern
      <3>3. match(parsePattern(pat), Lower(host), port)
              <=> port = pat.port /\ IsStrictSuffix(Tail(Lower(pat.host)), Lower(host))
        BY <3>2 DEF match
      <3>4. IsStrictSuffix(Tail(Lower(pat.host)), Lower(host)) <=>
               \/ Lower(host) = Lower(pat.host)
               \/ \E k \in 1 .. Len(host) : Lower(host) = Lower(SubSeq(host, 1, k) \o Tail(pat.host))
        BY <2>1, <2>6, WildcardMeaning
      <3> QED
        BY <1>2, <3>1, <3>3, <3>4, Zenon DEF Denotes
    <2>7. CASE pat.host # <<"*">> /\ ~Wildcard(pat.host)
      <3>1. ~HasStar(pat.host)
        BY <1>2, <2>7, Zenon DEF validatePattern
      <3>2. pat.host[1] # "*"
        <4>1. 1 \in DOMAIN pat.host
          BY <2>1 DEF Hosts
        <4> QED
          BY <3>1, <4>1, LabelAssumption, Zenon DEF HasStar
      <3>3. parsePattern(pat) = [kind |-> "exact", host |-> Lower(pat.host), port |-> pat.port]
        BY <1>2, <2>2, <2>3, <2>7, <3>1, Zenon DEF parsePattern
      <3>4. match(parsePattern(pat), Lower(host), port)
              <=> port = pat.port /\ Lower(host) = Lower(pat.host)
        BY <3>3 DEF match
      <3> QED
        BY <1>2, <2>7, <3>2, <3>4, Zenon DEF Denotes
    <2> QED
      BY <2>5, <2>6, <2>7
  <1> QED
    BY <1>1, <1>2
-----------------------------------------------------------------------------
(* Host headers.                                                           *)

(* stripPort finds the name in every header that has one.                  *)
LEMMA StripsPort ==
    ASSUME NEW v \in Seq(Labels), NEW n \in Seq(Labels), n # << >>, HeaderFor(v, n)
    PROVE  stripPort(v) = n
  <1> DEFINE at(t) == {i \in DOMAIN v : v[i] = t}
             last == CHOOSE i \in at(":") : \A j \in at(":") : j <= i
             first == CHOOSE i \in at("]") : \A j \in at("]") : i <= j
  <1>1. stripPort(v) = IF v[1] = "[" THEN IF at("]") = {} THEN v ELSE SubSeq(v, 2, first - 1)
                       ELSE IF at(":") = {} THEN v ELSE SubSeq(v, 1, last - 1)
    BY DEF stripPort
  <1>2. Len(n) \in Nat /\ Len(n) > 0 /\ DOMAIN n = 1 .. Len(n)
    OBVIOUS
  <1>3. CASE (\A i \in DOMAIN n : n[i] # ":") /\ n[1] # "[" /\ v = n
    <2>1. at(":") = {}
      BY <1>3
    <2> QED
      BY <1>1, <1>3, <2>1
  <1>4. ASSUME \A i \in DOMAIN n : n[i] # ":", n[1] # "[",
               NEW p \in Labels \ {":"}, v = n \o <<":", p>>
        PROVE  stripPort(v) = n
    <2> DEFINE e == Len(n) + 1
    <2>1. Len(v) = Len(n) + 2 /\ \A i \in 1 .. Len(n) : v[i] = n[i]
      BY <1>2, <1>4
    <2>2. v[e] = ":" /\ v[e + 1] = p
      BY <1>2, <1>4
    <2>3. DOMAIN v = 1 .. e + 1
      BY <1>2, <2>1
    <2>4. at(":") = {e}
      <3>1. ASSUME NEW i \in DOMAIN v, v[i] = ":" PROVE i = e
        <4>1. i \in 1 .. Len(n) \/ i = e \/ i = e + 1
          BY <1>2, <2>3
        <4> QED
          BY <1>2, <1>4, <2>1, <2>2, <3>1, <4>1
      <3>2. e \in DOMAIN v
        BY <1>2, <2>3
      <3> QED
        BY <2>2, <3>1, <3>2
    <2>5. last = e
      BY <1>2, <2>4
    <2>6. v[1] # "["
      BY <1>2, <1>4, <2>1
    <2>7. SubSeq(v, 1, e - 1) = n
      <3>1. e - 1 = Len(n)
        BY <1>2
      <3>2. /\ SubSeq(v, 1, Len(n)) \in Seq(Labels) /\ Len(SubSeq(v, 1, Len(n))) = Len(n)
            /\ \A i \in 1 .. Len(n) : SubSeq(v, 1, Len(n))[i] = v[i]
        BY <1>2, <2>1
      <3> QED
        BY <2>1, <3>1, <3>2, SeqEqual
    <2> HIDE DEF at, last, first, e
    <2> QED
      BY <1>1, <2>4, <2>5, <2>6, <2>7
  <1>5. ASSUME \A i \in DOMAIN n : n[i] # "]",
               NEW r \in Seq(Labels \cup {":"}), v = <<"[">> \o n \o <<"]">> \o r
        PROVE  stripPort(v) = n
    <2> DEFINE e == Len(n) + 2
    <2>1. /\ v[1] = "[" /\ v[e] = "]" /\ e \in DOMAIN v
          /\ \A i \in 1 .. Len(n) : v[i + 1] = n[i]
      <3>1. /\ <<"[">> \o n \in Seq(Labels \cup {"["}) /\ Len(<<"[">> \o n) = Len(n) + 1
            /\ (<<"[">> \o n)[1] = "[" /\ \A i \in 1 .. Len(n) : (<<"[">> \o n)[i + 1] = n[i]
        BY <1>2
      <3> DEFINE a == <<"[">> \o n
      <3> HIDE DEF a
      <3>2. /\ Len(a \o <<"]">>) = Len(n) + 2 /\ a \o <<"]">> \in Seq(Labels \cup {"[", "]"})
            /\ (a \o <<"]">>)[Len(n) + 2] = "]"
            /\ \A i \in 1 .. Len(n) + 1 : (a \o <<"]">>)[i] = a[i]
        <4>1. /\ a \in Seq(Labels \cup {"["}) /\ Len(a) = Len(n) + 1
          BY <3>1 DEF a
        <4> QED
          BY <1>2, <4>1
      <3> DEFINE b == a \o <<"]">>
      <3> HIDE DEF b
      <3>3. b \in Seq(Labels \cup {"[", "]"}) /\ Len(b) = Len(n) + 2
        BY <3>2 DEF b
      <3>4. v = b \o r
        BY <1>5 DEF a, b
      <3>5. \A i \in 1 .. Len(n) + 2 : i \in DOMAIN v /\ v[i] = b[i]
        BY <1>2, <3>3, <3>4
      <3>6. \A i \in 1 .. Len(n) : i + 1 \in 1 .. Len(n) + 1 /\ i + 1 \in 1 .. Len(n) + 2
        BY <1>2
      <3>7. /\ b[Len(n) + 2] = "]" /\ \A i \in 1 .. Len(n) + 1 : b[i] = a[i]
            /\ a[1] = "[" /\ \A i \in 1 .. Len(n) : a[i + 1] = n[i]
        BY <3>1, <3>2 DEF a, b
      <3>8. 1 \in 1 .. Len(n) + 1 /\ 1 \in 1 .. Len(n) + 2 /\ Len(n) + 2 \in 1 .. Len(n) + 2
        BY <1>2
      <3> QED
        BY <3>5, <3>6, <3>7, <3>8
    <2>2. ASSUME NEW j \in at("]") PROVE e <= j
      <3>1. SUFFICES ASSUME j < e PROVE FALSE
        BY <1>2
      <3>2. j \in DOMAIN v /\ v[j] = "]" /\ j \in Nat /\ j >= 1
        OBVIOUS
      <3>3. CASE j = 1
        BY <2>1, <3>2, <3>3
      <3>4. CASE j # 1
        <4>1. j - 1 \in 1 .. Len(n) /\ (j - 1) + 1 = j
          BY <1>2, <3>1, <3>2, <3>4
        <4>2. v[j] = n[j - 1]
          BY <2>1, <4>1
        <4> QED
          BY <1>2, <1>5, <3>2, <4>1, <4>2
      <3> QED
        BY <3>3, <3>4
    <2>3. e \in at("]")
      BY <2>1
    <2>4. first = e
      <3>1. first \in at("]") /\ \A j \in at("]") : first <= j
        BY <2>2, <2>3
      <3>2. first \in Nat /\ e \in Nat
        BY <1>2, <3>1
      <3>3. first <= e /\ e <= first
        BY <2>2, <2>3, <3>1
      <3> QED
        BY <3>2, <3>3
    <2>5. SubSeq(v, 2, e - 1) = n
      <3>1. e - 1 = Len(n) + 1 /\ e \in 1 .. Len(v)
        BY <1>2, <2>1
      <3>2. /\ SubSeq(v, 2, Len(n) + 1) \in Seq(Labels) /\ Len(SubSeq(v, 2, Len(n) + 1)) = Len(n)
            /\ \A i \in 1 .. Len(n) : SubSeq(v, 2, Len(n) + 1)[i] = v[i + 1]
        BY <1>2, <3>1
      <3> QED
        BY <2>1, <3>1, <3>2, SeqEqual
    <2> HIDE DEF at, last, first, e
    <2> QED
      BY <1>1, <2>1, <2>3, <2>4, <2>5
  <1> HIDE DEF at, last, first
  <1>6. ASSUME NEW port \in {<< >>} \cup {<<":", p>> : p \in Labels}
        PROVE  port \in Seq(Labels \cup {":"})
    <2>1. CASE port = << >>
      BY <2>1
    <2>2. ASSUME NEW p \in Labels, port = <<":", p>> PROVE port \in Seq(Labels \cup {":"})
      BY <2>2
    <2> QED
      BY <2>1, <2>2
  <1> QED
    BY <1>3, <1>4, <1>5, <1>6 DEF HeaderFor
-----------------------------------------------------------------------------
(* Accepted files.                                                         *)

(* The sections of a file, and what is in them.                            *)
LEMMA FileShape ==
    ASSUME NEW f \in Files
    PROVE  /\ f.inbound \in Seq(InboundShapes) /\ f.outbound \in Seq(OutboundShapes)
           /\ f.tcpToVsock \in Seq(TCPToVsockShapes) /\ f.vsockToTCP \in Seq(VsockToTCPShapes)
           /\ f.logRelay \in Seq(LogRelayShapes)
           /\ f.metrics.vsockPort \in Nat
  <1>1. f \in FileShapes
    BY AdmissionAssumption
  <1> QED
    BY <1>1 DEF FileShapes

(* An element of a sequence.                                               *)
LEMMA ElementsIn ==
    ASSUME NEW S, NEW s \in Seq(S), NEW e \in Elements(s)
    PROVE  e \in S
  BY DEF Elements

(* The lists inside a listener.                                            *)
LEMMA ListenerShape ==
    ASSUME NEW f \in Files
    PROVE  /\ \A l \in Elements(f.inbound) : l.routes \in Seq(RouteShapes)
           /\ \A l \in Elements(f.outbound) :
                 /\ l.cids \in Seq(EntryShapes)
                 /\ \A e \in Elements(l.cids) : e.allowedHosts \in Seq(PatternTexts)
  <1>1. ASSUME NEW l \in Elements(f.inbound) PROVE l.routes \in Seq(RouteShapes)
    <2>1. l \in InboundShapes
      BY FileShape, ElementsIn
    <2> QED
      BY <2>1 DEF InboundShapes
  <1>2. ASSUME NEW l \in Elements(f.outbound) PROVE l.cids \in Seq(EntryShapes)
    <2>1. l \in OutboundShapes
      BY FileShape, ElementsIn
    <2> QED
      BY <2>1 DEF OutboundShapes
  <1>3. ASSUME NEW l \in Elements(f.outbound), NEW e \in Elements(l.cids)
        PROVE  e.allowedHosts \in Seq(PatternTexts)
    <2>1. e \in EntryShapes
      BY <1>2, ElementsIn
    <2> QED
      BY <2>1 DEF EntryShapes
  <1> QED
    BY <1>1, <1>2, <1>3

(* The ports of a section.                                                 *)
LEMMA PortsOf ==
    ASSUME NEW S, NEW s \in Seq(S), \A x \in S : x.port \in Nat
    PROVE  [i \in DOMAIN s |-> s[i].port] \in Seq(Nat)
  <1>1. DOMAIN s = 1 .. Len(s) /\ Len(s) \in Nat /\ \A i \in 1 .. Len(s) : s[i].port \in Nat
    OBVIOUS
  <1> QED
    BY <1>1, IsASeq

(* No two inbound listeners have the same address.                         *)
LEMMA OneInbound ==
    ASSUME NEW f \in Files, Validate(f),
           NEW l \in Elements(f.inbound), NEW m \in Elements(f.inbound), Addr(l) = Addr(m)
    PROVE  l = m
  <1>1. PICK i \in DOMAIN f.inbound, j \in DOMAIN f.inbound : l = f.inbound[i] /\ m = f.inbound[j]
    BY DEF Elements
  <1> DEFINE a == f.inbound
             b == f.tcpToVsock
  <1>2. a \in Seq(InboundShapes) /\ b \in Seq(TCPToVsockShapes)
    BY FileShape
  <1>3. \A x, y \in DOMAIN (a \o b) : Addr((a \o b)[x]) = Addr((a \o b)[y]) => x = y
    BY DEF Validate, NoDuplicates
  <1> HIDE DEF a, b
  <1>4. \A x \in DOMAIN a : x \in DOMAIN (a \o b) /\ (a \o b)[x] = a[x]
    BY <1>2
  <1>5. i \in DOMAIN a /\ j \in DOMAIN a /\ l = a[i] /\ m = a[j]
    BY <1>1 DEF a
  <1> QED
    BY <1>3, <1>4, <1>5

(* No two outbound listeners have the same port.                           *)
LEMMA OneOutbound ==
    ASSUME NEW f \in Files, Validate(f),
           NEW l \in Elements(f.outbound), NEW m \in Elements(f.outbound), l.port = m.port
    PROVE  l = m
  <1>1. PICK i \in DOMAIN f.outbound, j \in DOMAIN f.outbound : l = f.outbound[i] /\ m = f.outbound[j]
    BY DEF Elements
  <1> DEFINE a == [x \in DOMAIN f.outbound |-> f.outbound[x].port]
             b == [x \in DOMAIN f.vsockToTCP |-> f.vsockToTCP[x].port]
             c == [x \in DOMAIN f.logRelay |-> f.logRelay[x].port]
             d == IF f.metrics.vsockPort = 0 THEN << >> ELSE <<f.metrics.vsockPort>>
  <1>2. VsockPorts(f) = a \o b \o c \o d
    BY DEF VsockPorts
  <1>3. /\ f.outbound \in Seq(OutboundShapes) /\ f.vsockToTCP \in Seq(VsockToTCPShapes)
        /\ f.logRelay \in Seq(LogRelayShapes) /\ f.metrics.vsockPort \in Nat
    BY FileShape
  <1>4. a \in Seq(Nat)
    <2>1. \A x \in OutboundShapes : x.port \in Nat
      BY DEF OutboundShapes
    <2> QED
      BY <1>3, <2>1, PortsOf
  <1>5. b \in Seq(Nat)
    <2>1. \A x \in VsockToTCPShapes : x.port \in Nat
      BY DEF VsockToTCPShapes
    <2> QED
      BY <1>3, <2>1, PortsOf
  <1>6. c \in Seq(Nat)
    <2>1. \A x \in LogRelayShapes : x.port \in Nat
      BY DEF LogRelayShapes
    <2> QED
      BY <1>3, <2>1, PortsOf
  <1>7. d \in Seq(Nat)
    BY <1>3
  <1>8. i \in DOMAIN a /\ j \in DOMAIN a /\ a[i] = a[j]
    BY <1>1
  <1> DEFINE all == a \o b \o c \o d
  <1>9. \A x, y \in DOMAIN all : all[x] = all[y] => x = y
    BY <1>2, Zenon DEF Validate, NoDuplicates
  <1> HIDE DEF a, b, c, d
  <1>10. \A x \in DOMAIN a : x \in DOMAIN all /\ all[x] = a[x]
    BY <1>4, <1>5, <1>6, <1>7
  <1> QED
    BY <1>1, <1>8, <1>9, <1>10

(* No CID has two entries.                                                 *)
LEMMA OneEntry ==
    ASSUME NEW f \in Files, Validate(f),
           NEW l \in Elements(f.outbound), NEW m \in Elements(f.outbound),
           NEW d \in Elements(l.cids), NEW e \in Elements(m.cids), d.cid = e.cid
    PROVE  l = m /\ d = e
  <1>1. PICK i \in DOMAIN f.outbound, j \in DOMAIN f.outbound : l = f.outbound[i] /\ m = f.outbound[j]
    BY DEF Elements
  <1>2. PICK x \in DOMAIN l.cids, y \in DOMAIN m.cids : d = l.cids[x] /\ e = m.cids[y]
    BY DEF Elements
  <1>3. UniqueCIDs(f)
    BY DEF Validate
  <1> QED
    BY <1>1, <1>2, <1>3 DEF UniqueCIDs

(* Every accepted file can be built.                                       *)
LEMMA AcceptedBuilds ==
    ASSUME NEW f \in Files, Validate(f), NEW l \in Elements(f.outbound)
    PROVE  Builds(l)
  <1>1. OutboundOK(l)
    BY DEF Validate
  <1>2. NoDuplicates(l.cids, LAMBDA e : e.cid)
    <2>1. PICK i \in DOMAIN f.outbound : l = f.outbound[i]
      BY DEF Elements
    <2>2. UniqueCIDs(f)
      BY DEF Validate
    <2> QED
      BY <2>1, <2>2 DEF UniqueCIDs, NoDuplicates
  <1>3. ASSUME NEW e \in Elements(l.cids) PROVE Compiles(e.allowedHosts)
    <2>1. e.allowedHosts \in Seq(PatternTexts)
      BY ListenerShape
    <2>2. e.allowedHosts # << >> /\ \A pat \in Elements(e.allowedHosts) : validatePattern(pat)
      BY <1>1 DEF OutboundOK
    <2>3. ASSUME NEW i \in DOMAIN e.allowedHosts PROVE parsePattern(e.allowedHosts[i]) # NoPattern
      <3>1. e.allowedHosts[i] \in PatternTexts /\ e.allowedHosts[i] \in Elements(e.allowedHosts)
        BY <2>1 DEF Elements
      <3> QED
        BY <2>2, <3>1, AcceptedCompiles
    <2> QED
      BY <2>2, <2>3 DEF Compiles
  <1> QED
    BY <1>1, <1>2, <1>3 DEF Builds, OutboundOK
-----------------------------------------------------------------------------
(* Tables.                                                                 *)

(* The routes that a file gives a name on a listener.                      *)
Named(f, k, h) ==
    LET ls == {l \in Elements(f.inbound) : InKey(l) = k}
    IN  {r \in UNION {Elements(l.routes) : l \in ls} : Lower(r.hostname) = h}

(* The patterns that a file lists for a CID on a port.                     *)
PolicyOf(f, k, cid) ==
    LET ls == {l \in Elements(f.outbound) : OutKey(l) = k}
        es == {e \in UNION {Elements(l.cids) : l \in ls} : e.cid = cid}
    IN  UNION {Elements(e.allowedHosts) : e \in es}

(* The listener that an inbound key names.                                 *)
LEMMA InboundOf ==
    ASSUME NEW f \in Files, Validate(f), NEW k \in Keys(f), k[1] = "in"
    PROVE  /\ ListenerOf(f, k) \in Elements(f.inbound)
           /\ {l \in Elements(f.inbound) : InKey(l) = k} = {ListenerOf(f, k)}
  <1>1. PICK m \in Elements(f.inbound) : InKey(m) = k
    BY DEF Keys, OutKey
  <1>2. ListenerOf(f, k) = CHOOSE l \in Elements(f.inbound) : InKey(l) = k
    BY DEF ListenerOf
  <1>3. ListenerOf(f, k) \in Elements(f.inbound) /\ InKey(ListenerOf(f, k)) = k
    BY <1>1, <1>2
  <1>4. ASSUME NEW l \in Elements(f.inbound), InKey(l) = k PROVE l = ListenerOf(f, k)
    <2>1. Addr(l) = Addr(ListenerOf(f, k))
      BY <1>3, <1>4 DEF InKey, Addr
    <2> QED
      BY <1>3, <2>1, OneInbound
  <1> QED
    BY <1>3, <1>4

(* The same for an outbound key.                                           *)
LEMMA OutboundOf ==
    ASSUME NEW f \in Files, Validate(f), NEW k \in Keys(f), k[1] = "out"
    PROVE  /\ ListenerOf(f, k) \in Elements(f.outbound)
           /\ {l \in Elements(f.outbound) : OutKey(l) = k} = {ListenerOf(f, k)}
  <1>1. PICK m \in Elements(f.outbound) : OutKey(m) = k
    BY DEF Keys, InKey
  <1>2. ListenerOf(f, k) = CHOOSE l \in Elements(f.outbound) : OutKey(l) = k
    BY DEF ListenerOf
  <1>3. ListenerOf(f, k) \in Elements(f.outbound) /\ OutKey(ListenerOf(f, k)) = k
    BY <1>1, <1>2
  <1>4. ASSUME NEW l \in Elements(f.outbound), OutKey(l) = k PROVE l = ListenerOf(f, k)
    <2>1. l.port = ListenerOf(f, k).port
      BY <1>3, <1>4 DEF OutKey
    <2> QED
      BY <1>3, <2>1, OneOutbound
  <1> QED
    BY <1>3, <1>4

(* The route map takes a name to the one route that has it.                *)
LEMMA RoutesRight ==
    ASSUME NEW f \in Files, Validate(f), NEW k \in Keys(f), k[1] = "in", NEW h
    PROVE  LET map == Table(f, k).map
           IN  /\ h \in DOMAIN map => Named(f, k, h) = {map[h]}
               /\ h \notin DOMAIN map => Named(f, k, h) = {}
  <1> DEFINE routes == ListenerOf(f, k).routes
             map == buildRouteMap(routes)
  <1>1. Table(f, k).map = map
    BY DEF Table
  <1>2. ListenerOf(f, k) \in Elements(f.inbound)
    BY InboundOf
  <1>3. {l \in Elements(f.inbound) : InKey(l) = k} = {ListenerOf(f, k)}
    BY InboundOf
  <1>4. Named(f, k, h) = {r \in Elements(routes) : Lower(r.hostname) = h}
    BY <1>3, Zenon DEF Named
  <1>5. \A i, j \in DOMAIN routes : Lower(routes[i].hostname) = Lower(routes[j].hostname) => i = j
    BY <1>2 DEF Validate, InboundOK, NoDuplicates
  <1>6. routes \in Seq(RouteShapes)
    BY <1>2, ListenerShape
  <1> HIDE DEF routes
  <1>7. DOMAIN map = {Lower(r.hostname) : r \in Elements(routes)}
    BY DEF buildRouteMap
  <1>8. ASSUME NEW i \in DOMAIN routes, Lower(routes[i].hostname) = h
        PROVE  map[h] = routes[i]
    <2> DEFINE Is(x) == /\ Lower(routes[x].hostname) = h
                        /\ \A j \in DOMAIN routes : Lower(routes[j].hostname) = h => j <= x
    <2>1. h \in {Lower(r.hostname) : r \in Elements(routes)}
      BY <1>8 DEF Elements
    <2>2. map[h] = routes[CHOOSE x \in DOMAIN routes : Is(x)]
      BY <2>1 DEF buildRouteMap
    <2>3. i <= i
      BY <1>6
    <2>4. Is(i) /\ \A x \in DOMAIN routes : Is(x) => x = i
      BY <1>5, <1>8, <2>3
    <2>5. (CHOOSE x \in DOMAIN routes : Is(x)) = i
      <3> HIDE DEF Is
      <3> QED
        BY <2>4
    <2> QED
      BY <2>2, <2>5
  <1> HIDE DEF map
  <1>9. ASSUME h \in DOMAIN map PROVE Named(f, k, h) = {map[h]}
    <2>1. PICK i \in DOMAIN routes : Lower(routes[i].hostname) = h
      BY <1>7, <1>9 DEF Elements
    <2> QED
      BY <1>4, <1>8, <2>1 DEF Elements
  <1>10. ASSUME h \notin DOMAIN map PROVE Named(f, k, h) = {}
    BY <1>4, <1>7, <1>10
  <1> QED
    BY <1>1, <1>9, <1>10

(* The matcher of a CID allows what the patterns of its entry stand for.   *)
LEMMA MatchersRight ==
    ASSUME NEW f \in Files, Validate(f), NEW k \in Keys(f), k[1] = "out",
           NEW cid \in DOMAIN Table(f, k).map, NEW host \in Hosts, NEW port
    PROVE  Allow(Table(f, k).map[cid], host, port) <=>
             ValidPort(port) /\ \E pat \in PolicyOf(f, k, cid) : Denotes(pat, host, port)
  <1> DEFINE l == ListenerOf(f, k)
  <1>1. Table(f, k).map = buildMatchers(l.cids)
    BY DEF Table
  <1>2. l \in Elements(f.outbound)
    BY OutboundOf
  <1>3. {m \in Elements(f.outbound) : OutKey(m) = k} = {l}
    BY OutboundOf
  <1> HIDE DEF l
  <1>4. PICK e \in Elements(l.cids) : e.cid = cid
    BY <1>1 DEF buildMatchers
  <1>5. \A d \in Elements(l.cids) : d.cid = cid => d = e
    BY <1>2, <1>4, OneEntry
  <1>6. Table(f, k).map[cid] = New(e.allowedHosts)
    <2>1. (CHOOSE d \in Elements(l.cids) : d.cid = cid) = e
      BY <1>4, <1>5
    <2> QED
      BY <1>1, <1>4, <2>1 DEF buildMatchers
  <1>7. PolicyOf(f, k, cid) = Elements(e.allowedHosts)
    <2>1. {d \in UNION {Elements(m.cids) : m \in {l}} : d.cid = cid} = {e}
      BY <1>4, <1>5
    <2>2. PolicyOf(f, k, cid) = UNION {Elements(d.allowedHosts) : d \in {e}}
      BY <1>3, <2>1, Zenon DEF PolicyOf
    <2> QED
      BY <2>2
  <1>8. \A i \in DOMAIN e.allowedHosts :
           e.allowedHosts[i] \in PatternTexts /\ validatePattern(e.allowedHosts[i])
    <2>1. e.allowedHosts \in Seq(PatternTexts)
      BY <1>2, <1>4, ListenerShape
    <2>2. \A pat \in Elements(e.allowedHosts) : validatePattern(pat)
      BY <1>2, <1>4 DEF Validate, OutboundOK
    <2> QED
      BY <2>1, <2>2 DEF Elements
  <1>9. \A i \in DOMAIN e.allowedHosts :
           match(parsePattern(e.allowedHosts[i]), Lower(host), port)
             <=> Denotes(e.allowedHosts[i], host, port)
    BY <1>8, MatchesMeaning
  <1> QED
    BY <1>6, <1>7, <1>9, Zenon DEF Allow, New, Elements

(* A CID has a matcher on one port only.                                   *)
LEMMA OneMatcher ==
    ASSUME NEW f \in Files, Validate(f), NEW k \in Keys(f), NEW o \in Keys(f),
           k[1] = "out", o[1] = "out",
           NEW cid \in DOMAIN Table(f, k).map \cap DOMAIN Table(f, o).map
    PROVE  k = o
  <1> DEFINE l == ListenerOf(f, k)
             m == ListenerOf(f, o)
  <1>1. /\ l \in Elements(f.outbound) /\ OutKey(l) = k
        /\ m \in Elements(f.outbound) /\ OutKey(m) = o
    BY OutboundOf
  <1>2. Table(f, k).map = buildMatchers(l.cids) /\ Table(f, o).map = buildMatchers(m.cids)
    BY DEF Table
  <1> HIDE DEF l, m
  <1>3. PICK d \in Elements(l.cids), e \in Elements(m.cids) : d.cid = cid /\ e.cid = cid
    BY <1>2 DEF buildMatchers
  <1>4. l = m
    BY <1>1, <1>3, OneEntry
  <1> QED
    BY <1>1, <1>4
-----------------------------------------------------------------------------
(* Start and reloads.                                                      *)

(* A file is accepted and staged, or refused.                              *)
LEMMA LoadStep ==
    ASSUME IInv, NEW f \in Files, Load(f)
    PROVE  built' /\ FileAccepted' /\ Serves' /\ conn' = conn
  <1>1. Validate(f) /\ todo = {} /\ serving' = serving /\ conn' = conn
    BY DEF Load
  <1>2. \A l \in Elements(f.outbound) : Builds(l)
    BY <1>1, AcceptedBuilds
  <1>3. built'
    BY <1>2, Zenon DEF Load, IInv
  <1>4. \/ file' = f /\ todo' = DOMAIN serving \cup Keys(f)
        \/ file' = file /\ todo' = todo
    BY <1>2, Zenon DEF Load
  <1>5. CASE file' = f /\ todo' = DOMAIN serving \cup Keys(f)
    <2>1. FileAccepted'
      BY <1>1, <1>5 DEF FileAccepted
    <2>2. Serves'
      BY <1>1, <1>5 DEF Serves, IInv
    <2> QED
      BY <1>1, <1>3, <2>1, <2>2
  <1>6. CASE file' = file /\ todo' = todo
    <2>1. FileAccepted'
      BY <1>1, <1>6 DEF FileAccepted, IInv
    <2>2. Serves'
      BY <1>1, <1>6 DEF Serves, IInv
    <2> QED
      BY <1>1, <1>3, <2>1, <2>2
  <1> QED
    BY <1>4, <1>5, <1>6

(* A listener is switched over, started or closed.                         *)
LEMMA CommitStep ==
    ASSUME IInv, NEW k \in todo, Commit(k)
    PROVE  built' /\ FileAccepted' /\ Serves'
  <1>1. todo' = todo \ {k} /\ file' = file /\ built' = built
    BY DEF Commit
  <1>2. file \in Files /\ Validate(file)
    BY DEF IInv, FileAccepted
  <1>3. FileAccepted'
    BY <1>1, <1>2 DEF FileAccepted
  <1>4. CASE k \in Keys(file)
    <2>1. serving' = [o \in DOMAIN serving \cup {k} |-> IF o = k THEN Table(file, k) ELSE serving[o]]
      BY <1>4 DEF Commit
    <2>2. ASSUME NEW o \in DOMAIN serving'
          PROVE  /\ FromFile(serving'[o], o)
                 /\ o \notin todo' => o \in Keys(file') /\ serving'[o] = Table(file', o)
      <3>1. CASE o = k
        <4>1. serving'[o] = Table(file, k)
          BY <2>1, <3>1
        <4> QED
          BY <1>1, <1>2, <1>4, <3>1, <4>1 DEF FromFile
      <3>2. CASE o # k
        <4>1. o \in DOMAIN serving /\ serving'[o] = serving[o]
          BY <2>1, <2>2, <3>2
        <4> QED
          BY <1>1, <3>2, <4>1 DEF IInv, Serves
      <3> QED
        BY <3>1, <3>2
    <2> QED
      BY <1>1, <1>3, <2>2 DEF Serves, IInv
  <1>5. CASE k \notin Keys(file)
    <2>1. serving' = [o \in DOMAIN serving \ {k} |-> IF o = k THEN Table(file, k) ELSE serving[o]]
      BY <1>5 DEF Commit
    <2>2. ASSUME NEW o \in DOMAIN serving'
          PROVE  /\ FromFile(serving'[o], o)
                 /\ o \notin todo' => o \in Keys(file') /\ serving'[o] = Table(file', o)
      <3>1. o \in DOMAIN serving /\ o # k /\ serving'[o] = serving[o]
        BY <2>1, <2>2
      <3> QED
        BY <1>1, <3>1 DEF IInv, Serves
    <2> QED
      BY <1>1, <1>3, <2>2 DEF Serves, IInv
  <1> QED
    BY <1>4, <1>5

(* A connection on its way takes the new table, or keeps the old one.      *)
LEMMA CommitConn ==
    ASSUME IInv, NEW k \in todo, Commit(k)
    PROVE  ConnInv'
  <1>1. file \in Files /\ Validate(file)
    BY DEF IInv, FileAccepted
  <1>2. CASE conn' = conn
    BY <1>2 DEF IInv, ConnInv, InboundInv, OutboundInv, RoutedByName, EgressByPolicy, Policy,
                Inbounds, Outbounds
  <1>3. CASE conn' # conn
    <2>1. /\ conn.at \in {"sniff", "sni", "route", "accepted"} /\ conn.key = k
          /\ conn' = [conn EXCEPT !.table = IF k \in Keys(file) THEN Table(file, k) ELSE @,
                                  !.live = k \in Keys(file)]
      BY <1>3, Zenon DEF Commit
    <2>2. CASE InboundInv
      <3>1. /\ DOMAIN conn' = InFields
            /\ conn'.at = conn.at /\ conn'.key = conn.key /\ conn'.stage = conn.stage
            /\ conn'.left = conn.left /\ conn'.within = conn.within
            /\ conn'.meant = conn.meant /\ conn'.host = conn.host
            /\ conn'.table = IF k \in Keys(file) THEN Table(file, k) ELSE conn.table
        BY <2>1, <2>2 DEF InboundInv, InFields
      <3>2. FromFile(conn'.table, conn'.key)
        BY <1>1, <2>1, <2>2, <3>1 DEF FromFile, InboundInv
      <3>3. conn.at # "done"
        BY <2>1
      <3>4. RoutedByName'
        BY <3>1, <3>3 DEF RoutedByName
      <3> QED
        BY <2>2, <3>1, <3>2, <3>4 DEF ConnInv, InboundInv
    <2>3. CASE OutboundInv
      <3>1. conn.at = "accepted"
        BY <2>1, <2>3 DEF OutboundInv
      <3>2. /\ DOMAIN conn' = OutFields /\ conn'.at = "accepted" /\ conn'.key = conn.key
            /\ conn'.cid = conn.cid /\ conn'.counted = 0 /\ conn'.result = "none"
            /\ conn'.request = << >> /\ conn'.dest = << >> /\ conn'.vhost = << >>
            /\ conn'.table = IF k \in Keys(file) THEN Table(file, k) ELSE conn.table
        BY <2>1, <2>3, <3>1 DEF OutboundInv, OutFields
      <3>3. FromFile(conn'.table, conn'.key)
        BY <1>1, <2>1, <2>3, <3>2 DEF FromFile, OutboundInv
      <3>4. EgressByPolicy'
        BY <3>2 DEF EgressByPolicy
      <3> QED
        BY <2>3, <3>2, <3>3, <3>4 DEF ConnInv, OutboundInv
    <2>4. conn # NoConn
      BY <2>1 DEF NoConn
    <2> QED
      BY <2>2, <2>3, <2>4 DEF IInv, ConnInv
  <1> QED
    BY <1>2, <1>3
-----------------------------------------------------------------------------
(* Connections.                                                            *)

(* A connection arrives or is forgotten.                                   *)
LEMMA ArrivalConn ==
    ASSUME IInv, Arrival
    PROVE  ConnInv'
  <1>1. ASSUME NEW k \in DOMAIN serving, AcceptInbound(k) PROVE InboundInv'
    <2>1. /\ DOMAIN conn' = InFields /\ conn'.at \in {"sni", "sniff"}
          /\ conn'.key = k /\ k[1] = "in" /\ conn'.table = serving[k] /\ conn'.stage = "record"
          /\ conn'.left = 0 /\ conn'.within = 0 /\ conn'.meant = << >>
      BY <1>1 DEF AcceptInbound, InFields
    <2>2. FromFile(conn'.table, conn'.key)
      BY <2>1 DEF IInv, Serves
    <2>3. RoutedByName'
      BY <2>1 DEF RoutedByName
    <2> QED
      BY <2>1, <2>2, <2>3, AdmissionAssumption DEF InboundInv, Stages
  <1>2. ASSUME NEW k \in DOMAIN serving, NEW cid \in CIDs, AcceptOutbound(k, cid) PROVE OutboundInv'
    <2>1. /\ DOMAIN conn' = OutFields /\ conn'.at = "accepted"
          /\ conn'.key = k /\ k[1] = "out" /\ conn'.table = serving[k]
          /\ conn'.request = << >> /\ conn'.dest = << >> /\ conn'.vhost = << >>
          /\ conn'.counted = 0 /\ conn'.result = "none"
      BY <1>2 DEF AcceptOutbound, OutFields
    <2>2. FromFile(conn'.table, conn'.key)
      BY <2>1 DEF IInv, Serves
    <2>3. EgressByPolicy'
      BY <2>1 DEF EgressByPolicy
    <2> QED
      BY <2>1, <2>2, <2>3 DEF OutboundInv
  <1>3. CASE Forget
    BY <1>3 DEF Forget, ConnInv
  <1> QED
    BY <1>1, <1>2, <1>3 DEF Arrival, ConnInv

(* The walk goes on within its bounds.                                     *)
LEMMA WalksOn ==
    ASSUME InboundInv, conn.at = "sni", NEW stage \in Stages, NEW left \in Nat, NEW within \in Nat,
           left <= within, within <= MaxFragment,
           conn' = [conn EXCEPT !.stage = stage, !.left = left, !.within = within]
    PROVE  InboundInv'
  <1>1. /\ DOMAIN conn' = InFields
        /\ conn'.at = "sni" /\ conn'.key = conn.key /\ conn'.table = conn.table
        /\ conn'.stage = stage /\ conn'.left = left /\ conn'.within = within
        /\ conn'.meant = conn.meant
    BY DEF InboundInv, InFields
  <1>2. RoutedByName'
    BY <1>1 DEF RoutedByName
  <1> QED
    BY <1>1, <1>2 DEF InboundInv

(* What cannot be sniffed is turned away before a name is known.           *)
LEMMA TurnedAway ==
    ASSUME InboundInv, conn.at \in {"sni", "sniff"}, Malformed
    PROVE  InboundInv'
  <1> DEFINE c == [conn EXCEPT !.result = "sniff"]
  <1>1. conn' = [c EXCEPT !.at = "done"]
    BY DEF Malformed, Finish
  <1>2. DOMAIN c = InFields /\ \A x \in InFields \ {"result"} : c[x] = conn[x]
    BY DEF InboundInv
  <1> HIDE DEF c
  <1>3. /\ DOMAIN conn' = InFields /\ conn'.at = "done"
        /\ \A x \in InFields \ {"result", "at"} : conn'[x] = conn[x]
    BY <1>1, <1>2 DEF InFields
  <1>4. /\ conn'.key = conn.key /\ conn'.table = conn.table /\ conn'.stage = conn.stage
        /\ conn'.left = conn.left /\ conn'.within = conn.within /\ conn'.meant = conn.meant
    BY <1>3 DEF InFields
  <1>5. conn.meant = << >>
    BY DEF InboundInv
  <1>6. RoutedByName'
    BY <1>4, <1>5 DEF RoutedByName
  <1> QED
    BY <1>3, <1>4, <1>6 DEF InboundInv

(* Past or into a vector that is there.                                    *)
LEMMA VectorStep ==
    ASSUME InboundInv, conn.at = "sni", NEW stage \in Stages, NEW w \in Nat, NEW n \in Nat,
           Fits(w, n), SkipTo(stage, w, n) \/ EnterTo(stage, w, n)
    PROVE  InboundInv'
  <1>1. /\ conn.left \in Nat /\ conn.within \in Nat /\ MaxFragment \in Nat
        /\ conn.left <= MaxFragment
    BY AdmissionAssumption DEF InboundInv
  <1>2. conn.left >= w /\ n <= conn.left - w
    BY DEF Fits
  <1> DEFINE rest == conn.left - w - n
             around == conn.left - w
  <1>3. rest \in Nat /\ around \in Nat /\ rest <= MaxFragment /\ around <= MaxFragment /\ n <= around
    BY <1>1, <1>2
  <1>4. CASE SkipTo(stage, w, n)
    <2>1. conn' = [conn EXCEPT !.stage = stage, !.left = rest, !.within = rest]
      BY <1>4 DEF SkipTo
    <2> HIDE DEF rest, around
    <2>2. rest <= rest
      BY <1>3
    <2> QED
      BY <1>3, <2>1, <2>2, WalksOn
  <1>5. CASE EnterTo(stage, w, n)
    <2>1. conn' = [conn EXCEPT !.stage = stage, !.left = n, !.within = around]
      BY <1>5 DEF EnterTo
    <2> HIDE DEF rest, around
    <2> QED
      BY <1>3, <2>1, WalksOn
  <1> QED
    BY <1>4, <1>5

(* Each step of SniffSNI.                                                  *)
LEMMA WalkConn ==
    ASSUME IInv, WalkStep
    PROVE  ConnInv'
  <1>1. conn.at = "sni"
    BY DEF WalkStep, Record, Handshake, Hello, Vector, Extensions, Extension, ServerNameList,
           ServerName, Walk
  <1>2. InboundInv
    BY <1>1 DEF IInv, ConnInv, NoConn, OutboundInv
  <1>3. CASE Malformed
    BY <1>1, <1>2, <1>3, TurnedAway DEF ConnInv
  <1>4. CASE \E stage \in Stages, w, n \in Nat :
               Fits(w, n) /\ (SkipTo(stage, w, n) \/ EnterTo(stage, w, n))
    BY <1>1, <1>2, <1>4, VectorStep DEF ConnInv
  <1>5. MaxFragment \in Nat /\ HelloFixed \in Nat /\ Lengths \subseteq Nat
    BY AdmissionAssumption DEF Lengths
  <1>6. CASE Record /\ ~Malformed
    <2>1. PICK n \in 1 .. MaxFragment :
             conn' = [conn EXCEPT !.stage = "handshake", !.left = n, !.within = n]
      <3>1. PICK n \in 0 .. MaxFragment + 1 :
               IF n = 0 \/ n > MaxFragment THEN Malformed
               ELSE conn' = [conn EXCEPT !.stage = "handshake", !.left = n, !.within = n]
        BY <1>6 DEF Record
      <3>2. ~(n = 0 \/ n > MaxFragment)
        BY <1>6, <3>1
      <3>3. n \in 1 .. MaxFragment
        BY <1>5, <3>2
      <3> QED
        BY <3>1, <3>2, <3>3
    <2>2. n \in Nat /\ n <= n /\ n <= MaxFragment
      BY <1>5
    <2> QED
      BY <1>1, <1>2, <2>1, <2>2, WalksOn DEF ConnInv, Stages
  <1>7. CASE Hello
    <2>1. CASE conn.left < HelloFixed
      BY <1>3, <1>7, <2>1 DEF Hello
    <2>2. CASE ~(conn.left < HelloFixed)
      <3>1. SkipTo("session_id", HelloFixed, 0)
        BY <1>7, <2>2 DEF Hello
      <3>2. Fits(HelloFixed, 0)
        BY <1>2, <1>5, <2>2 DEF Fits, InboundInv
      <3> QED
        BY <1>4, <1>5, <3>1, <3>2 DEF Stages
    <2> QED
      BY <2>1, <2>2
  <1>8. CASE Handshake \/ Extensions \/ Extension \/ ServerNameList
    BY <1>3, <1>4, <1>5, <1>8 DEF Handshake, Extensions, Extension, ServerNameList, Stages
  <1>9. CASE \/ Vector("session_id", 1, "cipher_suites")
             \/ Vector("cipher_suites", 2, "compression_methods")
             \/ Vector("compression_methods", 1, "extensions")
    BY <1>3, <1>4, <1>5, <1>9 DEF Vector, Stages
  <1>10. CASE ServerName
    <2>1. CASE \E n \in Lengths : Fits(3, n) /\ SkipTo("name", 3, n)
      BY <1>4, <1>5, <2>1 DEF Stages
    <2>2. ASSUME NEW h \in Names,
                 conn' = [conn EXCEPT !.at = "route", !.host = Lower(h), !.meant = h,
                                      !.stage = "record", !.left = 0, !.within = 0]
          PROVE  InboundInv'
      <3>1. /\ DOMAIN conn' = InFields
            /\ conn'.at = "route" /\ conn'.key = conn.key /\ conn'.table = conn.table
            /\ conn'.stage = "record" /\ conn'.left = 0 /\ conn'.within = 0
            /\ conn'.meant = h /\ conn'.host = Lower(h)
        BY <1>2, <2>2 DEF InboundInv, InFields
      <3>2. RoutedByName'
        BY <3>1 DEF RoutedByName
      <3> QED
        BY <1>2, <1>5, <3>1, <3>2 DEF InboundInv, Stages
    <2> QED
      BY <1>3, <1>10, <2>1, <2>2 DEF ServerName, ConnInv
  <1> QED
    BY <1>3, <1>6, <1>7, <1>8, <1>9, <1>10 DEF WalkStep

(* A Host header leads to the name the client means.                       *)
LEMMA SniffHostConn ==
    ASSUME IInv, NEW h \in HostHeaders, SniffHost(h)
    PROVE  InboundInv'
  <1>1. conn.at = "sniff" /\ InboundInv
    BY DEF SniffHost, IInv, ConnInv, NoConn, OutboundInv
  <1>2. CASE h.value = << >> \/ stripPort(h.value) = << >>
    <2>1. Malformed
      BY <1>2 DEF SniffHost, Malformed
    <2> QED
      BY <1>1, <2>1, TurnedAway
  <1>3. CASE ~(h.value = << >> \/ stripPort(h.value) = << >>)
    <2>1. conn' = [conn EXCEPT !.at = "route", !.host = Lower(stripPort(h.value)), !.meant = h.means]
      BY <1>3 DEF SniffHost
    <2>2. /\ DOMAIN conn' = InFields
          /\ conn'.at = "route" /\ conn'.key = conn.key /\ conn'.table = conn.table
          /\ conn'.stage = conn.stage /\ conn'.left = conn.left /\ conn'.within = conn.within
          /\ conn'.meant = h.means /\ conn'.host = Lower(stripPort(h.value))
      BY <1>1, <2>1 DEF InboundInv, InFields
    <2>3. h.means # << >> => stripPort(h.value) = h.means
      BY AdmissionAssumption, StripsPort
    <2>4. RoutedByName'
      BY <2>2 DEF RoutedByName
    <2> QED
      BY <1>1, <2>2, <2>3, <2>4 DEF InboundInv
  <1> QED
    BY <1>2, <1>3

(* The look-up finds the file's route for the name, or there is none.      *)
LEMMA RouteConn ==
    ASSUME IInv, Route
    PROVE  InboundInv'
  <1>1. conn.at = "route" /\ InboundInv
    BY DEF Route, IInv, ConnInv, NoConn, OutboundInv
  <1>2. PICK f \in Files : Validate(f) /\ conn.key \in Keys(f) /\ conn.table = Table(f, conn.key)
    BY <1>1 DEF InboundInv, FromFile
  <1> DEFINE map == conn.table.map
             named == Named(f, conn.key, conn.host)
  <1>3. conn.table.file = f
    BY <1>2 DEF Table
  <1>4. /\ conn.host \in DOMAIN map => named = {map[conn.host]}
        /\ conn.host \notin DOMAIN map => named = {}
    BY <1>1, <1>2, RoutesRight DEF InboundInv
  <1>5. PICK result, target :
          /\ conn' = [[conn EXCEPT !.result = result, !.target = target] EXCEPT !.at = "done"]
          /\ conn.host \in DOMAIN map =>
                result = "dialed" /\ target = <<map[conn.host].cid, map[conn.host].vsockPort>>
          /\ conn.host \notin DOMAIN map => result = "route"
    <2>1. CASE conn.host \in DOMAIN map
      BY <2>1 DEF Route, Finish
    <2>2. CASE conn.host \notin DOMAIN map
      <3>1. conn' = [[conn EXCEPT !.result = "route"] EXCEPT !.at = "done"]
        BY <2>2 DEF Route, Finish
      <3>2. [conn EXCEPT !.result = "route"] = [conn EXCEPT !.result = "route", !.target = conn.target]
        BY <1>1 DEF InboundInv, InFields
      <3> QED
        BY <2>2, <3>1, <3>2
    <2> QED
      BY <2>1, <2>2
  <1>6. /\ DOMAIN conn' = InFields
        /\ conn'.at = "done" /\ conn'.key = conn.key /\ conn'.table = conn.table
        /\ conn'.stage = conn.stage /\ conn'.left = conn.left /\ conn'.within = conn.within
        /\ conn'.meant = conn.meant /\ conn'.result = result /\ conn'.target = target
    BY <1>1, <1>5 DEF InboundInv, InFields
  <1>7. conn.meant # << >> => conn.host = Lower(conn.meant)
    BY <1>1 DEF InboundInv
  <1>8. conn.meant # << >> =>
           IF result = "dialed" THEN named # {} /\ \A r \in named : target = <<r.cid, r.vsockPort>>
           ELSE named = {}
    <2> HIDE DEF map, named
    <2> QED
      BY <1>4, <1>5
  <1>9. RoutedByName'
    <2>1. conn.meant # << >> => named = Named(conn'.table.file, conn'.key, Lower(conn'.meant))
      BY <1>3, <1>6, <1>7
    <2> HIDE DEF named, map
    <2> QED
      BY <1>6, <1>8, <2>1, Zenon DEF RoutedByName, Named
  <1> QED
    BY <1>1, <1>6, <1>9 DEF InboundInv

(* The peer's CID is looked up, or denied before a request is read.        *)
LEMMA AuthorizeConn ==
    ASSUME IInv, Authorize
    PROVE  OutboundInv'
  <1>1. conn.at = "accepted" /\ OutboundInv
    BY DEF Authorize, IInv, ConnInv, NoConn, InboundInv
  <1>2. /\ DOMAIN conn' = OutFields /\ conn'.key = conn.key /\ conn'.table = conn.table
        /\ conn'.cid = conn.cid
        /\ conn'.request = << >> /\ conn'.dest = << >> /\ conn'.vhost = << >>
        /\ \/ /\ conn'.at = "read" /\ conn'.result = "none" /\ conn'.counted = 0
              /\ conn.cid \in DOMAIN conn.table.map
           \/ conn'.at = "done" /\ conn'.counted = 1
    <2>1. CASE conn.cid \in DOMAIN conn.table.map
      BY <1>1, <2>1 DEF Authorize, OutboundInv, OutFields
    <2>2. CASE conn.cid \notin DOMAIN conn.table.map
      <3>1. conn' = [[conn EXCEPT !.result = "denied", !.counted = @ + 1] EXCEPT !.at = "done"]
        BY <2>2 DEF Authorize, Finish, Counted
      <3> QED
        BY <1>1, <3>1 DEF OutboundInv, OutFields
    <2> QED
      BY <2>1, <2>2
  <1>3. EgressByPolicy'
    BY <1>2 DEF EgressByPolicy
  <1> QED
    BY <1>1, <1>2, <1>3 DEF OutboundInv

(* The egress check is one of the file's patterns.                         *)
LEMMA ReadRequestConn ==
    ASSUME IInv, NEW r \in Requests, ReadRequest(r)
    PROVE  OutboundInv'
  <1>1. conn.at = "read" /\ OutboundInv
    BY DEF ReadRequest, IInv, ConnInv, NoConn, InboundInv
  <1>2. PICK f \in Files : Validate(f) /\ conn.key \in Keys(f) /\ conn.table = Table(f, conn.key)
    BY <1>1 DEF OutboundInv, FromFile
  <1>3. conn.table.file = f
    BY <1>2 DEF Table
  <1> DEFINE c == [conn EXCEPT !.request = r]
             host == Destination(r).host
             port == Destination(r).port
             policy == PolicyOf(f, conn.key, conn.cid)
  <1>4. r.host \in Hosts /\ host = r.host
    BY AdmissionAssumption DEF Destination
  <1>5. Allow(conn.table.map[conn.cid], host, port) <=>
          ValidPort(port) /\ \E pat \in policy : Denotes(pat, host, port)
    <2>1. host \in Hosts /\ conn.cid \in DOMAIN Table(f, conn.key).map /\ conn.key[1] = "out"
      BY <1>1, <1>2, <1>4 DEF OutboundInv
    <2> HIDE DEF host, port
    <2> QED
      BY <1>2, <2>1, MatchersRight
  <1>6. /\ DOMAIN c = OutFields /\ c.at = "read" /\ c.key = conn.key /\ c.table = conn.table
        /\ c.cid = conn.cid /\ c.request = r /\ c.result = "none" /\ c.counted = 0
        /\ c.dest = << >> /\ c.vhost = << >>
    BY <1>1 DEF OutboundInv, OutFields
  <1>7. \/ ~Acceptable(r) /\ Finish(Counted(c, "error"))
        \/ /\ Acceptable(r) /\ ~Allow(conn.table.map[conn.cid], host, port)
           /\ Finish(Counted(c, "denied"))
        \/ /\ Acceptable(r) /\ Allow(conn.table.map[conn.cid], host, port)
           /\ conn' = [c EXCEPT !.at = "dial", !.dest = Destination(r)]
    BY DEF ReadRequest
  <1> HIDE DEF c, host, port
  <1>8. ASSUME NEW result, Finish(Counted(c, result))
        PROVE  /\ DOMAIN conn' = OutFields /\ conn'.at = "done" /\ conn'.key = conn.key
               /\ conn'.table = conn.table /\ conn'.cid = conn.cid /\ conn'.request = r
               /\ conn'.result = result /\ conn'.counted = 1
               /\ conn'.dest = << >> /\ conn'.vhost = << >>
    <2>1. conn' = [[c EXCEPT !.result = result, !.counted = @ + 1] EXCEPT !.at = "done"]
      BY <1>8 DEF Finish, Counted
    <2> QED
      BY <1>6, <2>1 DEF OutFields
  <1>9. CASE Finish(Counted(c, "error"))
    <2>1. EgressByPolicy'
      BY <1>8, <1>9 DEF EgressByPolicy
    <2> QED
      BY <1>1, <1>8, <1>9, <2>1 DEF OutboundInv
  <1>10. CASE /\ Acceptable(r) /\ ~Allow(conn.table.map[conn.cid], host, port)
              /\ Finish(Counted(c, "denied"))
    <2>1. ~\E pat \in policy : Denotes(pat, host, port)
      BY <1>5, <1>10 DEF Acceptable, port
    <2>2. Policy' = policy
      BY <1>3, <1>8, <1>10 DEF Policy, PolicyOf
    <2>3. EgressByPolicy'
      BY <1>8, <1>10, <2>1, <2>2 DEF EgressByPolicy, host, port
    <2> QED
      BY <1>1, <1>8, <1>10, <2>3 DEF OutboundInv
  <1>11. CASE /\ Acceptable(r) /\ Allow(conn.table.map[conn.cid], host, port)
              /\ conn' = [c EXCEPT !.at = "dial", !.dest = Destination(r)]
    <2>1. /\ DOMAIN conn' = OutFields /\ conn'.at = "dial" /\ conn'.key = conn.key
          /\ conn'.table = conn.table /\ conn'.cid = conn.cid /\ conn'.request = r
          /\ conn'.result = "none" /\ conn'.counted = 0
          /\ conn'.dest = Destination(r) /\ conn'.vhost = << >>
      BY <1>6, <1>11 DEF OutFields
    <2>2. \E pat \in policy : Denotes(pat, host, port)
      BY <1>5, <1>11
    <2>3. Policy' = policy
      BY <1>3, <2>1 DEF Policy, PolicyOf
    <2>4. EgressByPolicy'
      BY <2>1, <2>2, <2>3 DEF EgressByPolicy, host, port
    <2> QED
      BY <1>1, <2>1, <2>4 DEF OutboundInv
  <1> QED
    BY <1>7, <1>9, <1>10, <1>11

(* An outcome after the check is counted, and changes no decision.         *)
LEMMA OutcomeConn ==
    ASSUME OutboundInv, conn.at \notin {"accepted", "done"}, NEW result \in {"error", "allowed"},
           Finish(Counted(conn, result))
    PROVE  OutboundInv'
  <1>1. conn' = [[conn EXCEPT !.result = result, !.counted = @ + 1] EXCEPT !.at = "done"]
    BY DEF Finish, Counted
  <1>2. /\ DOMAIN conn' = OutFields /\ conn'.at = "done" /\ conn'.key = conn.key
        /\ conn'.table = conn.table /\ conn'.cid = conn.cid /\ conn'.result = result
        /\ conn'.counted = 1 /\ conn'.dest = conn.dest /\ conn'.vhost = conn.vhost
    BY <1>1 DEF OutboundInv, OutFields
  <1>3. Policy' = Policy
    BY <1>2 DEF Policy
  <1>4. EgressByPolicy'
    BY <1>2, <1>3 DEF EgressByPolicy, OutboundInv, Outbounds, OutFields
  <1> QED
    BY <1>2, <1>4 DEF OutboundInv

(* The steps of the handlers in between.                                   *)
LEMMA OnwardConn ==
    ASSUME OutboundInv, Dialed \/ Forward \/ ReadResponse
    PROVE  OutboundInv'
  <1>1. conn.at \in {"dial", "forward", "response"}
    BY DEF Dialed, Forward, ReadResponse
  <1>2. /\ DOMAIN conn' = OutFields /\ conn'.at \in {"established", "forward", "response", "answer"}
        /\ conn'.key = conn.key /\ conn'.table = conn.table /\ conn'.cid = conn.cid
        /\ conn'.request = conn.request /\ conn'.result = conn.result
        /\ conn'.counted = conn.counted /\ conn'.dest = conn.dest
        /\ conn'.vhost = conn.vhost \/ conn'.vhost = conn.request.host
    <2>1. CASE Dialed
      BY <2>1 DEF Dialed, OutboundInv, OutFields
    <2>2. CASE Forward
      BY <2>2 DEF Forward, OutboundInv, OutFields
    <2>3. CASE ReadResponse
      BY <2>3 DEF ReadResponse, OutboundInv, OutFields
    <2> QED
      BY <2>1, <2>2, <2>3
  <1>3. Policy' = Policy
    BY <1>2 DEF Policy
  <1>4. conn.dest = Destination(conn.request) /\ conn.dest.host = conn.request.host
    BY <1>1 DEF OutboundInv, Destination
  <1>5. EgressByPolicy'
    BY <1>1, <1>2, <1>3, <1>4 DEF EgressByPolicy, OutboundInv, Outbounds, OutFields
  <1> QED
    BY <1>1, <1>2, <1>4, <1>5 DEF OutboundInv

(* Each step of a handler.                                                 *)
LEMMA HandlerConn ==
    ASSUME IInv, Handler
    PROVE  ConnInv'
  <1>1. CASE SniffFails
    <2>1. conn.at \in {"sni", "sniff"} /\ Malformed
      BY <1>1 DEF SniffFails, Malformed
    <2>2. InboundInv
      BY <2>1 DEF IInv, ConnInv, NoConn, OutboundInv
    <2> QED
      BY <2>1, <2>2, TurnedAway DEF ConnInv
  <1>2. CASE \E h \in HostHeaders : SniffHost(h)
    BY <1>2, SniffHostConn DEF ConnInv
  <1>3. CASE Route
    BY <1>3, RouteConn DEF ConnInv
  <1>4. CASE \E r \in Requests : ReadRequest(r)
    BY <1>4, ReadRequestConn DEF ConnInv
  <1>5. CASE HandlerFails \/ Established \/ Answer
    <2>1. /\ conn.at \in {"read", "dial", "established", "forward", "response", "answer"}
          /\ \E result \in {"error", "allowed"} : Finish(Counted(conn, result))
      BY <1>5 DEF HandlerFails, Established, Answer
    <2>2. OutboundInv
      BY <2>1 DEF IInv, ConnInv, NoConn, InboundInv
    <2> QED
      BY <2>1, <2>2, OutcomeConn DEF ConnInv
  <1>6. CASE Dialed \/ Forward \/ ReadResponse
    <2>1. conn.at \in {"dial", "forward", "response"}
      BY <1>6 DEF Dialed, Forward, ReadResponse
    <2>2. OutboundInv
      BY <2>1 DEF IInv, ConnInv, NoConn, InboundInv
    <2> QED
      BY <1>6, <2>2, OnwardConn DEF ConnInv
  <1>7. CASE Authorize
    BY <1>7, AuthorizeConn DEF ConnInv
  <1> QED
    BY <1>1, <1>2, <1>3, <1>4, <1>5, <1>6, <1>7 DEF Handler
-----------------------------------------------------------------------------

(* Nothing is served and nobody is connected.                              *)
LEMMA InitInv ==
    Init => IInv
  <1> SUFFICES ASSUME Init PROVE IInv
    OBVIOUS
  <1>1. DOMAIN serving = {} /\ todo = {} /\ conn = NoConn
    BY DEF Init
  <1>2. built
    BY Zenon DEF Init
  <1> QED
    BY <1>1, <1>2 DEF IInv, FileAccepted, Serves, ConnInv

(* The connection is as it was.                                            *)
LEMMA SameConn ==
    ASSUME ConnInv, conn' = conn
    PROVE  ConnInv'
  BY DEF ConnInv, InboundInv, OutboundInv, RoutedByName, EgressByPolicy, Policy, Inbounds, Outbounds

(* Every load, commit and step of a connection keeps the invariant.        *)
LEMMA InvStep ==
    IInv /\ [Next]_vars => IInv'
  <1> SUFFICES ASSUME IInv, [Next]_vars PROVE IInv'
    OBVIOUS
  <1>1. ASSUME NEW f \in Files, Load(f) PROVE IInv'
    BY <1>1, LoadStep, SameConn DEF IInv
  <1>2. ASSUME NEW k \in todo, Commit(k) PROVE IInv'
    BY <1>2, CommitStep, CommitConn DEF IInv
  <1>3. ASSUME UNCHANGED <<serving, todo, file, built, loads>> PROVE built' /\ FileAccepted' /\ Serves'
    <2>1. built' = built /\ serving' = serving /\ todo' = todo /\ file' = file
      BY <1>3
    <2>2. built'
      BY <2>1, Zenon DEF IInv
    <2> QED
      BY <2>1, <2>2 DEF IInv, FileAccepted, Serves
  <1>4. CASE Arrival
    BY <1>3, <1>4, ArrivalConn DEF Arrival, IInv
  <1>5. CASE WalkStep
    BY <1>3, <1>5, WalkConn DEF WalkStep, IInv
  <1>6. CASE Handler
    BY <1>3, <1>6, HandlerConn DEF Handler, IInv
  <1>7. CASE UNCHANGED vars
    BY <1>3, <1>7, SameConn DEF vars, IInv
  <1> QED
    BY <1>1, <1>2, <1>4, <1>5, <1>6, <1>7 DEF Next

(* What holds of files, tables and connections throughout.                 *)
THEOREM IInvHolds == Spec => []IInv
  BY InitInv, InvStep, PTL DEF Spec

(* What the invariant says of the connection that is followed.             *)
LEMMA Decided ==
    IInv => WalkInBounds /\ RoutedByName /\ EgressByPolicy /\ CountedOnce
  <1> SUFFICES ASSUME IInv PROVE WalkInBounds /\ RoutedByName /\ EgressByPolicy /\ CountedOnce
    OBVIOUS
  <1> USE DEF Inbounds, Outbounds
  <1>1. CASE conn = NoConn
    <2>1. ~Inbounds /\ ~Outbounds
      BY <1>1 DEF NoConn
    <2> QED
      BY <2>1 DEF WalkInBounds, RoutedByName, EgressByPolicy, CountedOnce
  <1>2. CASE InboundInv
    <2>1. ~Outbounds
      BY <1>2 DEF InboundInv, InFields
    <2>2. WalkInBounds
      BY <1>2, AdmissionAssumption DEF InboundInv, WalkInBounds
    <2> QED
      BY <1>2, <2>1, <2>2 DEF InboundInv, EgressByPolicy, CountedOnce
  <1>3. CASE OutboundInv
    <2>1. ~Inbounds
      BY <1>3 DEF OutboundInv, OutFields
    <2>2. CountedOnce
      BY <1>3 DEF OutboundInv, CountedOnce
    <2> QED
      BY <1>3, <2>1, <2>2 DEF OutboundInv, WalkInBounds, RoutedByName
  <1> QED
    BY <1>1, <1>2, <1>3 DEF IInv, ConnInv

(* Between reloads an enclave has one listener.                            *)
LEMMA FilesServe ==
    IInv => AcceptedFilesServe
  <1> SUFFICES ASSUME IInv PROVE AcceptedFilesServe
    OBVIOUS
  <1>1. AcceptedFilesBuild
    BY Zenon DEF IInv, AcceptedFilesBuild
  <1>2. ASSUME todo = {}, NEW k \in DOMAIN serving, NEW o \in DOMAIN serving,
               k[1] = "out", o[1] = "out",
               DOMAIN serving[k].map \cap DOMAIN serving[o].map # {}
        PROVE  k = o
    <2>1. file \in Files /\ Validate(file)
      BY DEF IInv, FileAccepted
    <2>2. /\ k \in Keys(file) /\ serving[k] = Table(file, k)
          /\ o \in Keys(file) /\ serving[o] = Table(file, o)
      BY <1>2 DEF IInv, Serves
    <2>3. PICK cid : cid \in DOMAIN Table(file, k).map \cap DOMAIN Table(file, o).map
      BY <1>2, <2>2
    <2> QED
      BY <1>2, <2>1, <2>2, <2>3, OneMatcher
  <1> QED
    BY <1>1, <1>2 DEF AcceptedFilesServe, OneProxyPerEnclave

(* Whatever lengths a ClientHello announces, SniffSNI never takes a vector *)
(* to be longer than what holds it.                                        *)
THEOREM WalkInBoundsHolds == Spec => []WalkInBounds
  BY IInvHolds, Decided, PTL

(* Every file that Validate accepts is built, and when it is in force each *)
(* enclave has one listener.                                               *)
THEOREM AcceptedFilesServeHolds == Spec => []AcceptedFilesServe
  BY IInvHolds, FilesServe, PTL

(* A connection goes where a committed file says for the name the client   *)
(* means, across any number of reloads.                                    *)
THEOREM RoutedByNameHolds == Spec => []RoutedByName
  BY IInvHolds, Decided, PTL

(* An enclave reaches exactly what the patterns of its entry stand for.    *)
THEOREM EgressByPolicyHolds == Spec => []EgressByPolicy
  BY IInvHolds, Decided, PTL

(* Each outbound connection is counted once, on every path.                *)
THEOREM CountedOnceHolds == Spec => []CountedOnce
  BY IInvHolds, Decided, PTL
=============================================================================
