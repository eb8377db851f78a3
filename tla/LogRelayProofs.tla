--------------------------- MODULE LogRelayProofs ---------------------------
(***************************************************************************)
(* The records of the log relay and of the supervisor's pump, for any      *)
(* stream, any limit on lines, any way the stream is cut into reads, any   *)
(* JSON objects and any enrichment that the configuration accepts.         *)
(*                                                                         *)
(* Framing rests on where the loop stands in the stream: what it has taken *)
(* from the buffer ends at a line's end, or inside a line that it is       *)
(* discarding, and there is a record for every line begun before.          *)
(* Enrichment rests on what the scan of a JSON object finds, shown by      *)
(* induction on the number of tokens it has read.                          *)
(***************************************************************************)
EXTENDS LogRelay, SequenceTheorems, FiniteSetTheorems, TLAPS

(* Induction over a set of numbers, from the library's theorem that the    *)
(* inclusion of finite sets is well founded: a smallest number outside the *)
(* set would follow one inside.                                            *)
LEMMA Induction ==
    ASSUME NEW S, S \subseteq Nat, 0 \in S, \A n \in S : n + 1 \in S
    PROVE  S = Nat
  <1> SUFFICES ASSUME Nat \ S # {} PROVE FALSE
    OBVIOUS
  <1> DEFINE R == StrictSubsetOrdering(Nat)
             U == {1 .. n : n \in Nat \ S}
  <1>1. \A n \in Nat : 1 .. n \in FiniteSubsetsOf(Nat)
    BY FS_Interval DEF FiniteSubsetsOf
  <1>2. U \subseteq FiniteSubsetsOf(Nat) /\ U # {}
    BY <1>1
  <1>3. PICK s \in U : \A u \in U : ~(<<u, s>> \in R)
    <2> HIDE DEF U
    <2>1. IsWellFoundedOn(R, FiniteSubsetsOf(Nat))
      BY FS_StrictSubsetOrderingWellFounded
    <2> HIDE DEF R
    <2> QED
      BY <1>2, <2>1, WFMin, Zenon
  <1>4. PICK n \in Nat \ S : s = 1 .. n
    BY <1>3
  <1>5. n \in Nat /\ n > 0 /\ n - 1 \in Nat /\ n - 1 \notin S
    <2>1. n \in Nat /\ n # 0
      BY <1>4
    <2>2. n - 1 \in Nat /\ (n - 1) + 1 = n
      BY <2>1
    <2> QED
      BY <1>4, <2>1, <2>2
  <1>6. /\ 1 .. n - 1 \in SUBSET Nat /\ 1 .. n \in SUBSET Nat
        /\ 1 .. n - 1 \subseteq 1 .. n /\ n \in 1 .. n /\ n \notin 1 .. n - 1
    BY <1>5
  <1>7. <<1 .. n - 1, 1 .. n>> \in R
    BY <1>6 DEF StrictSubsetOrdering
  <1> QED
    BY <1>3, <1>4, <1>5, <1>7

-----------------------------------------------------------------------------
(* The scan of hasReservedTopLevelKey (logrelay.go:251-297).               *)

(* One round of the loop.                                                  *)
LEMMA Round ==
    ASSUME NEW tok, NEW reserved, NEW s \in ScanStates
    PROVE  LET r == scanToken(tok, reserved)[s]
           IN  /\ r \in ScanStates
               /\ s.found \/ s.depth = 0 => r = s
               /\ ~s.found /\ s.depth # 0 =>
                     /\ tok \in Opening => r.depth = s.depth + 1 /\ ~r.found
                     /\ tok \in Closing =>
                           r.depth = s.depth - 1 /\ r.expectKey = (s.depth = 2) /\ ~r.found
                     /\ tok \notin Brackets /\ s.depth # 1 => r = s
                     /\ tok \notin Brackets /\ s.depth = 1 =>
                           /\ r.depth = 1 /\ r.expectKey = ~s.expectKey
                           /\ r.found = (s.expectKey /\ tok \in reserved)
  <1> DEFINE r == scanToken(tok, reserved)[s]
  <1>1. r = IF s.found \/ s.depth = 0 THEN s
            ELSE IF tok \in Opening THEN [s EXCEPT !.depth = @ + 1, !.expectKey = FALSE]
            ELSE IF tok \in Closing THEN [s EXCEPT !.depth = @ - 1, !.expectKey = s.depth = 2]
            ELSE IF s.depth # 1 THEN s
            ELSE [s EXCEPT !.found = s.expectKey /\ tok \in reserved, !.expectKey = ~@]
    BY DEF scanToken
  <1> HIDE DEF r
  <1>2. s.depth \in Nat /\ s.expectKey \in BOOLEAN /\ s.found \in BOOLEAN
    BY DEF ScanStates
  <1>3. Opening \cap Closing = {} /\ \A t : t \notin Brackets <=> t \notin Opening /\ t \notin Closing
    BY DEF Opening, Closing, Brackets
  <1>4. CASE s.found \/ s.depth = 0
    BY <1>1, <1>4 DEF r
  <1>5. CASE ~s.found /\ s.depth # 0 /\ tok \in Opening
    <2>1. r = [s EXCEPT !.depth = @ + 1, !.expectKey = FALSE]
      BY <1>1, <1>5
    <2>2. s.depth + 1 \in Nat
      BY <1>2
    <2>3. r \in ScanStates /\ r.depth = s.depth + 1 /\ r.found = s.found
      BY <2>1, <2>2 DEF ScanStates
    <2> QED
      BY <1>3, <1>5, <2>3 DEF r
  <1>6. CASE ~s.found /\ s.depth # 0 /\ tok \in Closing
    <2>1. r = [s EXCEPT !.depth = @ - 1, !.expectKey = s.depth = 2]
      BY <1>1, <1>3, <1>6
    <2>2. s.depth - 1 \in Nat
      BY <1>2, <1>6
    <2>3. (s.depth = 2) \in BOOLEAN
      OBVIOUS
    <2>4. r \in ScanStates /\ r.depth = s.depth - 1 /\ r.expectKey = (s.depth = 2) /\ r.found = s.found
      BY <2>1, <2>2, <2>3 DEF ScanStates
    <2> QED
      BY <1>3, <1>6, <2>4 DEF r
  <1>7. CASE ~s.found /\ s.depth # 0 /\ tok \notin Brackets /\ s.depth # 1
    BY <1>1, <1>3, <1>7 DEF r
  <1>8. CASE ~s.found /\ s.depth = 1 /\ tok \notin Brackets
    <2>1. r = [s EXCEPT !.found = s.expectKey /\ tok \in reserved, !.expectKey = ~@]
      BY <1>1, <1>3, <1>8
    <2>2. (s.expectKey /\ tok \in reserved) \in BOOLEAN /\ (~s.expectKey) \in BOOLEAN
      OBVIOUS
    <2>3. /\ r \in ScanStates /\ r.depth = s.depth /\ r.expectKey = ~s.expectKey
          /\ r.found = (s.expectKey /\ tok \in reserved)
      BY <2>1, <2>2 DEF ScanStates
    <2> QED
      BY <1>3, <1>8, <2>3 DEF r
  <1> QED
    BY <1>3, <1>4, <1>5, <1>6, <1>7, <1>8

(* The states of the loop are what its rounds make of each other.          *)
LEMMA ScanRounds ==
    ASSUME NEW toks, NEW reserved, Len(toks) \in Nat \ {0}
    PROVE  LET scan == Scan(toks, reserved)
           IN  /\ scan[1] = [depth |-> 1, expectKey |-> TRUE, found |-> FALSE]
               /\ \A i \in 1 .. Len(toks) : scan[i] \in ScanStates
               /\ \A i \in 2 .. Len(toks) : scan[i] = scanToken(toks[i], reserved)[scan[i - 1]]
  <1> DEFINE Start == [depth |-> 1, expectKey |-> TRUE, found |-> FALSE]
             To(g, n) ==
                /\ g \in [1 .. n + 1 -> ScanStates]
                /\ \A i \in 1 .. n + 1 :
                      g[i] = IF i = 1 THEN Start ELSE scanToken(toks[i], reserved)[g[i - 1]]
             Loop(g) == g = [i \in 1 .. Len(toks) |->
                               IF i = 1 THEN Start ELSE scanToken(toks[i], reserved)[g[i - 1]]]
             E == {n \in Nat : \E g : To(g, n)}
             t == CHOOSE g : Loop(g)
  <1>1. Start \in ScanStates
    BY DEF ScanStates
  <1> HIDE DEF Start
  <1>2. 0 \in E
    <2>1. To([i \in 1 .. 1 |-> Start], 0)
      BY <1>1
    <2> QED
      BY <2>1
  <1>3. ASSUME NEW n \in E PROVE n + 1 \in E
    <2> SUFFICES \E g : To(g, n + 1)
      OBVIOUS
    <2>1. n \in Nat /\ (n + 1) + 1 = n + 2 /\ n + 2 # 1 /\ n + 1 \in 1 .. n + 1
      OBVIOUS
    <2>2. PICK g : To(g, n)
      OBVIOUS
    <2> DEFINE last == scanToken(toks[n + 2], reserved)[g[n + 1]]
               h == [i \in 1 .. n + 2 |-> IF i = n + 2 THEN last ELSE g[i]]
    <2>3. g[n + 1] \in ScanStates
      BY <2>1, <2>2
    <2>4. last \in ScanStates
      BY <2>3, Round
    <2> HIDE DEF last
    <2>5. /\ \A i \in 1 .. n + 1 : i \in 1 .. n + 2 /\ i # n + 2
          /\ \A i \in 1 .. n + 2 : i = n + 2 \/ i \in 1 .. n + 1
          /\ n + 2 \in 1 .. n + 2
      BY <2>1
    <2>6. (\A i \in 1 .. n + 1 : h[i] = g[i]) /\ h[n + 2] = last
      BY <2>5
    <2>7. h \in [1 .. n + 2 -> ScanStates]
      BY <2>2, <2>4, <2>5
    <2> HIDE DEF h
    <2>8. ASSUME NEW i \in 1 .. n + 2
          PROVE  h[i] = IF i = 1 THEN Start ELSE scanToken(toks[i], reserved)[h[i - 1]]
      <3>1. CASE i = n + 2
        <4>1. i - 1 = n + 1 /\ i # 1
          BY <2>1, <3>1
        <4>2. h[i - 1] = g[n + 1]
          BY <2>1, <2>6, <4>1
        <4> QED
          BY <2>6, <3>1, <4>1, <4>2 DEF last
      <3>2. CASE i \in 1 .. n + 1 /\ i # 1
        <4>1. i - 1 \in 1 .. n + 1
          BY <2>1, <3>2
        <4> QED
          BY <2>2, <2>6, <3>2, <4>1
      <3>3. CASE i \in 1 .. n + 1 /\ i = 1
        BY <2>2, <2>6, <3>3
      <3> QED
        BY <2>5, <3>1, <3>2, <3>3
    <2> QED
      BY <2>1, <2>7, <2>8
  <1>4. E = Nat
    <2>1. E \subseteq Nat
      OBVIOUS
    <2> HIDE DEF E
    <2> QED
      BY <1>2, <1>3, <2>1, Induction, Zenon
  <1>5. PICK g : Loop(g)
    <2>1. Len(toks) - 1 \in Nat /\ (Len(toks) - 1) + 1 = Len(toks)
      OBVIOUS
    <2> HIDE DEF To
    <2>2. PICK g : To(g, Len(toks) - 1)
      BY <1>4, <2>1
    <2>3. /\ g \in [1 .. Len(toks) -> ScanStates]
          /\ \A i \in 1 .. Len(toks) :
                g[i] = IF i = 1 THEN Start ELSE scanToken(toks[i], reserved)[g[i - 1]]
      BY <2>1, <2>2 DEF To
    <2>4. Loop(g)
      BY <2>3
    <2> QED
      BY <2>4
  <1>6. Loop(t)
    <2> HIDE DEF Loop
    <2> QED
      BY <1>5, Zenon
  <1>7. Scan(toks, reserved) = t
    BY Zenon DEF Scan, Start
  <1> HIDE DEF t
  <1>8. \A i \in 1 .. Len(toks) :
            t[i] = IF i = 1 THEN Start ELSE scanToken(toks[i], reserved)[t[i - 1]]
    BY <1>6
  <1> DEFINE S == {n \in Nat : n + 1 <= Len(toks) => t[n + 1] \in ScanStates}
  <1>9. t[1] = Start
    BY <1>8
  <1>10. 0 \in S
    BY <1>1, <1>9
  <1>11. ASSUME NEW n \in S PROVE n + 1 \in S
    <2> SUFFICES ASSUME (n + 1) + 1 <= Len(toks) PROVE t[(n + 1) + 1] \in ScanStates
      OBVIOUS
    <2>1. /\ n + 1 <= Len(toks) /\ n + 2 \in 1 .. Len(toks) /\ n + 2 # 1
          /\ (n + 2) - 1 = n + 1 /\ (n + 1) + 1 = n + 2
      OBVIOUS
    <2>2. t[n + 1] \in ScanStates
      BY <2>1
    <2>3. t[n + 2] = scanToken(toks[n + 2], reserved)[t[n + 1]]
      BY <1>8, <2>1
    <2> QED
      BY <2>1, <2>2, <2>3, Round
  <1>12. S = Nat
    <2>1. S \subseteq Nat
      OBVIOUS
    <2> HIDE DEF S
    <2> QED
      BY <1>10, <1>11, <2>1, Induction, Zenon
  <1>13. ASSUME NEW i \in 1 .. Len(toks) PROVE t[i] \in ScanStates
    <2>1. i - 1 \in Nat /\ (i - 1) + 1 = i /\ i <= Len(toks)
      OBVIOUS
    <2>2. i - 1 \in S
      BY <1>12, <2>1
    <2> QED
      BY <2>1, <2>2
  <1>14. ASSUME NEW i \in 2 .. Len(toks) PROVE t[i] = scanToken(toks[i], reserved)[t[i - 1]]
    <2>1. i \in 1 .. Len(toks) /\ i # 1
      OBVIOUS
    <2> QED
      BY <1>8, <2>1
  <1> QED
    BY <1>7, <1>9, <1>13, <1>14 DEF Start

(* Depth moves by one at a bracket.                                        *)
LEMMA DepthStep ==
    ASSUME NEW toks, NEW i \in Nat \ {0}
    PROVE  /\ Depth(toks, i) \in Int
           /\ toks[i] \in Opening => Depth(toks, i + 1) = Depth(toks, i) + 1
           /\ toks[i] \in Closing => Depth(toks, i + 1) = Depth(toks, i) - 1
           /\ toks[i] \notin Brackets => Depth(toks, i + 1) = Depth(toks, i)
  <1> DEFINE O(n) == {j \in 1 .. n - 1 : toks[j] \in Opening}
             C(n) == {j \in 1 .. n - 1 : toks[j] \in Closing}
  <1>1. IsFiniteSet(1 .. i - 1) /\ (i + 1) - 1 = i
    BY FS_Interval
  <1>2. O(i) \in SUBSET (1 .. i - 1) /\ C(i) \in SUBSET (1 .. i - 1)
    OBVIOUS
  <1>3. IsFiniteSet(O(i)) /\ IsFiniteSet(C(i)) /\ i \notin O(i) /\ i \notin C(i)
    BY <1>1, <1>2, FS_Subset
  <1>4. \A j : j \in 1 .. (i + 1) - 1 <=> j \in 1 .. i - 1 \/ j = i
    OBVIOUS
  <1>5. /\ O(i + 1) = IF toks[i] \in Opening THEN O(i) \cup {i} ELSE O(i)
        /\ C(i + 1) = IF toks[i] \in Closing THEN C(i) \cup {i} ELSE C(i)
    BY <1>4
  <1> DEFINE co(n) == Cardinality(O(n))
             cc(n) == Cardinality(C(n))
  <1>6. /\ Depth(toks, i) = co(i) - cc(i)
        /\ Depth(toks, i + 1) = co(i + 1) - cc(i + 1)
    BY DEF Depth
  <1> HIDE DEF O, C
  <1>7. co(i) \in Nat /\ cc(i) \in Nat
    BY <1>3, FS_CardinalityType
  <1>8. /\ toks[i] \in Opening => co(i + 1) = co(i) + 1
        /\ toks[i] \notin Opening => co(i + 1) = co(i)
        /\ toks[i] \in Closing => cc(i + 1) = cc(i) + 1
        /\ toks[i] \notin Closing => cc(i + 1) = cc(i)
    <2>1. /\ Cardinality(O(i) \cup {i}) = Cardinality(O(i)) + 1
          /\ Cardinality(C(i) \cup {i}) = Cardinality(C(i)) + 1
      BY <1>3, FS_AddElement
    <2>2. CASE toks[i] \in Opening /\ toks[i] \in Closing
      BY <1>5, <2>1, <2>2
    <2>3. CASE toks[i] \in Opening /\ toks[i] \notin Closing
      BY <1>5, <2>1, <2>3
    <2>4. CASE toks[i] \notin Opening /\ toks[i] \in Closing
      BY <1>5, <2>1, <2>4
    <2>5. CASE toks[i] \notin Opening /\ toks[i] \notin Closing
      BY <1>5, <2>5
    <2> QED
      BY <2>2, <2>3, <2>4, <2>5
  <1>9. Opening \cap Closing = {} /\ \A t : t \notin Brackets <=> t \notin Opening /\ t \notin Closing
    BY DEF Opening, Closing, Brackets
  <1> HIDE DEF co, cc
  <1>10. CASE toks[i] \in Opening
    <2>1. toks[i] \notin Closing
      BY <1>9, <1>10
    <2> QED
      BY <1>6, <1>7, <1>8, <1>9, <1>10, <2>1
  <1>11. CASE toks[i] \notin Opening
    BY <1>6, <1>7, <1>8, <1>9, <1>11
  <1> QED
    BY <1>10, <1>11

(* The root object is entered at its opening brace.                        *)
LEMMA DepthStart ==
    ASSUME NEW toks, toks[1] \in Opening
    PROVE  Depth(toks, 2) = 1
  <1>1. 1 .. 1 - 1 = {}
    OBVIOUS
  <1>2. {j \in 1 .. 1 - 1 : toks[j] \in Opening} = {} /\ {j \in 1 .. 1 - 1 : toks[j] \in Closing} = {}
    BY <1>1, Zenon
  <1>3. Cardinality({}) = 0
    BY FS_EmptySet
  <1>4. Depth(toks, 1) = 0
    <2>1. Depth(toks, 1) = Cardinality({}) - Cardinality({})
      BY <1>2, Zenon DEF Depth
    <2>2. 0 - 0 = 0
      OBVIOUS
    <2> QED
      BY <1>3, <2>1, <2>2
  <1>5. 1 \in Nat \ {0} /\ 1 + 1 = 2
    OBVIOUS
  <1>6. Depth(toks, 1 + 1) = Depth(toks, 1) + 1
    BY <1>5, DepthStep
  <1> QED
    BY <1>4, <1>5, <1>6

(* An item more begins in the root at a token of depth 1 that closes       *)
(* nothing.                                                                *)
LEMMA ItemStep ==
    ASSUME NEW toks, NEW i \in Nat, i >= 2
    PROVE  LET n == Cardinality(RootItems(toks, i))
           IN  /\ n \in Nat
               /\ Cardinality(RootItems(toks, i + 1)) =
                     IF Depth(toks, i) = 1 /\ toks[i] \notin Closing THEN n + 1 ELSE n
  <1>1. IsFiniteSet(2 .. i - 1)
    BY FS_Interval
  <1>2. RootItems(toks, i) \in SUBSET (2 .. i - 1) /\ i \notin 2 .. i - 1
    BY DEF RootItems
  <1>3. IsFiniteSet(RootItems(toks, i)) /\ i \notin RootItems(toks, i)
    BY <1>1, <1>2, FS_Subset
  <1>4. \A j : j \in 2 .. (i + 1) - 1 <=> j \in 2 .. i - 1 \/ j = i
    OBVIOUS
  <1>5. RootItems(toks, i + 1) =
           IF Depth(toks, i) = 1 /\ toks[i] \notin Closing THEN RootItems(toks, i) \cup {i}
                                                           ELSE RootItems(toks, i)
    BY <1>4 DEF RootItems
  <1> QED
    BY <1>3, <1>5, FS_AddElement, FS_CardinalityType

(* Nothing has begun in the root behind its brace.                         *)
LEMMA ItemStart ==
    ASSUME NEW toks
    PROVE  Cardinality(RootItems(toks, 2)) = 0
  <1>1. RootItems(toks, 2) = {}
    BY DEF RootItems
  <1> QED
    BY <1>1, FS_EmptySet

(* Keys and values alternate.                                              *)
LEMMA Parity ==
    ASSUME NEW n \in Nat
    PROVE  /\ n % 2 = 0 \/ n % 2 = 1
           /\ n % 2 = 0 <=> (n + 1) % 2 = 1
           /\ n % 2 = 1 <=> (n + 1) % 2 = 0
  OBVIOUS

(* Where the scan is after i tokens of an object: whether it has found a   *)
(* reserved key of the root, and if not, how deep it is and whether the    *)
(* root expects a key.  Inside a nested value the root has seen as many    *)
(* keys as values.                                                         *)
ScanAt(toks, reserved, i) ==
    LET s == Scan(toks, reserved)[i]
        n == Cardinality(RootItems(toks, i + 1))
    IN  /\ s.found <=> \E j \in RootKeys(toks) : j <= i /\ toks[j] \in reserved
        /\ ~s.found =>
              /\ s.depth = Depth(toks, i + 1)
              /\ s.depth = 1 => (s.expectKey <=> n % 2 = 0)
              /\ s.depth >= 2 => n % 2 = 0

(* A round keeps it.                                                       *)
LEMMA ScanStep ==
    ASSUME NEW toks, Len(toks) \in Nat \ {0}, WellFormed(toks), NEW reserved,
           NEW i \in 1 .. Len(toks), i + 1 <= Len(toks), ScanAt(toks, reserved, i)
    PROVE  ScanAt(toks, reserved, i + 1)
  <1> DEFINE scan == Scan(toks, reserved)
             s == scan[i]
             r == scan[i + 1]
             tok == toks[i + 1]
             n == Cardinality(RootItems(toks, i + 1))
             m == Cardinality(RootItems(toks, i + 2))
             d == Depth(toks, i + 1)
             e == Depth(toks, i + 2)
             Hit(j) == \E k \in RootKeys(toks) : k <= j /\ toks[k] \in reserved
  <1>1. /\ i + 1 \in 2 .. Len(toks) /\ (i + 1) - 1 = i /\ (i + 1) + 1 = i + 2 /\ i \in Nat
        /\ i + 1 \in Nat \ {0} /\ i + 1 >= 2
    OBVIOUS
  <1>2. s \in ScanStates /\ r = scanToken(tok, reserved)[s]
    BY <1>1, ScanRounds
  <1>3. /\ s.found <=> Hit(i)
        /\ ~s.found => /\ s.depth = d /\ (s.depth = 1 => (s.expectKey <=> n % 2 = 0))
                       /\ s.depth >= 2 => n % 2 = 0
    BY DEF ScanAt
  <1>4. /\ d \in Int
        /\ tok \in Opening => e = d + 1
        /\ tok \in Closing => e = d - 1
        /\ tok \notin Brackets => e = d
    BY <1>1, DepthStep
  <1>5. n \in Nat /\ m = IF d = 1 /\ tok \notin Closing THEN n + 1 ELSE n
    BY <1>1, ItemStep
  <1>6. d >= 1 /\ (d = 1 /\ tok \in Opening => n % 2 = 1)
    BY <1>1 DEF WellFormed
  <1>7. i + 1 \in RootKeys(toks) <=> tok \notin Brackets /\ d = 1 /\ n % 2 = 0
    BY <1>1 DEF RootKeys
  <1>8. Hit(i + 1) <=> Hit(i) \/ (i + 1 \in RootKeys(toks) /\ tok \in reserved)
    <2>1. ASSUME NEW k \in RootKeys(toks) PROVE k <= i + 1 <=> k <= i \/ k = i + 1
      <3>1. k \in Nat
        BY DEF RootKeys
      <3> QED
        BY <1>1, <3>1
    <2> QED
      BY <2>1
  <1>9. /\ r \in ScanStates
        /\ s.found \/ s.depth = 0 => r = s
        /\ ~s.found /\ s.depth # 0 =>
              /\ tok \in Opening => r.depth = s.depth + 1 /\ ~r.found
              /\ tok \in Closing =>
                    r.depth = s.depth - 1 /\ r.expectKey = (s.depth = 2) /\ ~r.found
              /\ tok \notin Brackets /\ s.depth # 1 => r = s
              /\ tok \notin Brackets /\ s.depth = 1 =>
                    /\ r.depth = 1 /\ r.expectKey = ~s.expectKey
                    /\ r.found = (s.expectKey /\ tok \in reserved)
    BY <1>2, Round
  <1>10. /\ n % 2 = 0 \/ n % 2 = 1
         /\ n % 2 = 0 <=> (n + 1) % 2 = 1
         /\ n % 2 = 1 <=> (n + 1) % 2 = 0
         /\ 0 # 1
    BY <1>5, Parity
  <1>11. /\ tok \in Brackets <=> tok \in Opening \/ tok \in Closing
         /\ ~(tok \in Opening /\ tok \in Closing)
    BY DEF Brackets, Opening, Closing
  <1>12. s.depth \in Nat /\ s.found \in BOOLEAN /\ s.expectKey \in BOOLEAN
    BY <1>2 DEF ScanStates
  <1> SUFFICES /\ r.found <=> Hit(i + 1)
               /\ ~r.found => /\ r.depth = e /\ (r.depth = 1 => (r.expectKey <=> m % 2 = 0))
                              /\ r.depth >= 2 => m % 2 = 0
    BY <1>1 DEF ScanAt
  <1> HIDE DEF scan, s, r, tok, n, m, d, e, Hit
  <1>13. CASE s.found
    BY <1>3, <1>8, <1>9, <1>13
  <1>14. CASE ~s.found /\ tok \in Opening
    <2>1. s.depth = d /\ s.depth # 0
      BY <1>3, <1>4, <1>6, <1>14
    <2>2. ~r.found /\ r.depth = d + 1 /\ e = d + 1 /\ d + 1 # 1
      BY <1>4, <1>6, <1>9, <1>14, <2>1
    <2>3. ~Hit(i + 1)
      BY <1>3, <1>7, <1>8, <1>11, <1>14
    <2>4. m % 2 = 0
      <3>1. CASE d = 1
        BY <1>5, <1>6, <1>10, <1>11, <1>14, <3>1
      <3>2. CASE d # 1
        <4>1. s.depth >= 2
          BY <1>4, <1>6, <2>1, <3>2
        <4> QED
          BY <1>3, <1>5, <1>14, <3>2, <4>1
      <3> QED
        BY <3>1, <3>2
    <2> QED
      BY <2>2, <2>3, <2>4
  <1>15. CASE ~s.found /\ tok \in Closing
    <2>1. s.depth = d /\ s.depth # 0
      BY <1>3, <1>4, <1>6, <1>15
    <2>2. ~r.found /\ r.depth = d - 1 /\ e = d - 1 /\ r.expectKey = (d = 2) /\ m = n
      BY <1>4, <1>5, <1>9, <1>15, <2>1
    <2>3. ~Hit(i + 1)
      BY <1>3, <1>7, <1>8, <1>11, <1>15
    <2>4. d - 1 >= 1 => d >= 2 /\ (d - 1 = 1 => d = 2)
      BY <1>4
    <2>5. d >= 2 => n % 2 = 0
      BY <1>3, <1>15, <2>1
    <2>6. d - 1 = 1 => d = 2 /\ n % 2 = 0
      BY <1>4, <2>5
    <2>7. d - 1 >= 2 => n % 2 = 0
      BY <1>4, <2>5
    <2> QED
      BY <2>2, <2>3, <2>6, <2>7
  <1>16. CASE ~s.found /\ tok \notin Brackets /\ d # 1
    <2>1. s.depth = d /\ s.depth # 0 /\ s.depth # 1
      BY <1>3, <1>4, <1>6, <1>16
    <2>2. r = s /\ e = d /\ m = n
      BY <1>4, <1>5, <1>9, <1>16, <2>1
    <2>3. ~Hit(i + 1)
      BY <1>3, <1>7, <1>8, <1>16
    <2> QED
      BY <1>3, <1>16, <2>1, <2>2, <2>3
  <1>17. CASE ~s.found /\ tok \notin Brackets /\ d = 1
    <2>1. s.depth = 1 /\ s.depth # 0 /\ (s.expectKey <=> n % 2 = 0)
      BY <1>3, <1>17
    <2>2. /\ r.depth = 1 /\ r.expectKey = ~s.expectKey
          /\ r.found = (s.expectKey /\ tok \in reserved)
          /\ e = 1 /\ m = n + 1
      BY <1>4, <1>5, <1>9, <1>11, <1>17, <2>1
    <2>3. Hit(i + 1) <=> n % 2 = 0 /\ tok \in reserved
      BY <1>3, <1>7, <1>8, <1>17
    <2>4. r.found <=> Hit(i + 1)
      BY <2>1, <2>2, <2>3
    <2>5. r.expectKey <=> m % 2 = 0
      BY <1>10, <2>1, <2>2
    <2>6. ~(r.depth >= 2)
      BY <2>2
    <2> QED
      BY <2>2, <2>4, <2>5, <2>6
  <1> QED
    BY <1>11, <1>13, <1>14, <1>15, <1>16, <1>17

(* hasReservedTopLevelKey answers whether the root object has a reserved   *)
(* key, whatever is nested in its values and wherever the key stands       *)
(* (logrelay.go:247-250).                                                  *)
THEOREM ScanRight ==
    ASSUME NEW line, NEW reserved, isJSONObject(line)
    PROVE  hasReservedTopLevelKey(line, reserved)
             <=> \E j \in RootKeys(Tokens(line)) : Tokens(line)[j] \in reserved
  <1> DEFINE toks == Tokens(line)
             S == {n \in Nat : n + 1 <= Len(toks) => ScanAt(toks, reserved, n + 1)}
  <1>1. WellFormed(toks) /\ toks \in Seq(Brackets \cup Keys \cup {"7"})
    BY RelayAssumption DEF isJSONObject
  <1> HIDE DEF toks
  <1>2. toks[1] \in Opening
    BY <1>1, Zenon DEF WellFormed, Opening
  <1>3. Len(toks) \in Nat \ {0}
    <2>1. toks # << >>
      BY <1>1, Zenon DEF WellFormed
    <2> QED
      BY <1>1, <2>1, EmptySeq
  <1>4. 0 \in S
    <2>1. Scan(toks, reserved)[1] = [depth |-> 1, expectKey |-> TRUE, found |-> FALSE]
      BY <1>3, ScanRounds
    <2>2. Depth(toks, 2) = 1 /\ Cardinality(RootItems(toks, 2)) = 0
      BY <1>2, DepthStart, ItemStart
    <2>3. \A j \in RootKeys(toks) : ~(j <= 1)
      BY DEF RootKeys
    <2>4. 1 + 1 = 2 /\ 0 + 1 = 1 /\ 0 % 2 = 0 /\ ~(1 >= 2)
      OBVIOUS
    <2>5. ScanAt(toks, reserved, 1)
      BY <2>1, <2>2, <2>3, <2>4 DEF ScanAt
    <2> QED
      BY <2>4, <2>5
  <1>5. ASSUME NEW n \in S PROVE n + 1 \in S
    <2> SUFFICES ASSUME (n + 1) + 1 <= Len(toks) PROVE ScanAt(toks, reserved, (n + 1) + 1)
      OBVIOUS
    <2>1. n + 1 \in 1 .. Len(toks) /\ n + 1 <= Len(toks)
      BY <1>3
    <2>2. ScanAt(toks, reserved, n + 1)
      BY <2>1
    <2> QED
      BY <1>1, <1>3, <2>1, <2>2, ScanStep
  <1>6. S = Nat
    <2>1. S \subseteq Nat
      OBVIOUS
    <2> HIDE DEF S
    <2> QED
      BY <1>4, <1>5, <2>1, Induction, Zenon
  <1>7. ScanAt(toks, reserved, Len(toks))
    <2>1. Len(toks) - 1 \in Nat /\ (Len(toks) - 1) + 1 = Len(toks) /\ Len(toks) <= Len(toks)
      BY <1>3
    <2>2. Len(toks) - 1 \in S
      BY <1>6, <2>1
    <2> QED
      BY <2>1, <2>2
  <1>8. \A j \in RootKeys(toks) : j <= Len(toks)
    BY DEF RootKeys
  <1>9. hasReservedTopLevelKey(line, reserved) <=> Scan(toks, reserved)[Len(toks)].found
    BY DEF hasReservedTopLevelKey, toks
  <1> QED
    BY <1>7, <1>8, <1>9 DEF ScanAt, toks

-----------------------------------------------------------------------------
(* What emit makes of a line (logrelay.go:231-352).                        *)

(* Whether a record carries each of the host's keys once, hides none of    *)
(* the peer's without need, and, if it flags a cut, has no key twice.      *)
Enriched(e, r) ==
    LET toks == Tokens(r.payload)
        host == ToSet(PrefixKeys(e))
    IN  /\ e.on \/ r.truncated => \A k \in host : Occurrences(k, r) = 1
        /\ r.truncated => \A k \in ToSet(r.keys) : Occurrences(k, r) = 1
        /\ /\ e.on /\ ~r.truncated /\ toks \in Objects
           /\ \A i \in RootKeys(toks) : toks[i] \notin host
           => r.spliced /\ r.keys = PrefixKeys(e)

(* No key twice.                                                           *)
Distinct(q) == \A i, j \in 1 .. Len(q) : q[i] = q[j] => i = j

(* An element of a sequence without repetitions is in it once.             *)
LEMMA Once ==
    ASSUME NEW S, NEW q \in Seq(S), Distinct(q), NEW k \in ToSet(q)
    PROVE  Cardinality({i \in 1 .. Len(q) : q[i] = k}) = 1
  <1>1. DOMAIN q = 1 .. Len(q)
    BY LenProperties
  <1>2. PICK i \in 1 .. Len(q) : q[i] = k
    BY <1>1 DEF ToSet
  <1>3. {j \in 1 .. Len(q) : q[j] = k} = {i}
    BY <1>2 DEF Distinct
  <1> QED
    BY <1>3, FS_Singleton

(* The keys that a record can get.                                         *)
Names == HostKeys \cup {"host", "cid", "type", "msg", "truncated"}

(* A tuple of two and one of one.                                          *)
LEMMA TripleConcat ==
    ASSUME NEW S, NEW a \in S, NEW b \in S, NEW c \in S
    PROVE  <<a, b>> \o <<c>> = <<a, b, c>>
  <1> DEFINE y == <<a, b>>
             u == <<a, b>> \o <<c>>
             v == <<a, b, c>>
  <1>1. y \in Seq(S) /\ Len(y) = 2
    OBVIOUS
  <1>2. /\ u \in Seq(S) /\ Len(u) = 3 /\ u[1] = a /\ u[2] = b /\ u[3] = c
    <2>1. /\ u \in Seq(S) /\ Len(u) = 2 + 1
          /\ \A i \in 1 .. 2 + 1 : u[i] = IF i <= 2 THEN y[i] ELSE <<c>>[i - 2]
      <3>1. <<c>> \in Seq(S) /\ Len(<<c>>) = 1
        OBVIOUS
      <3>2. /\ u \in Seq(S) /\ Len(u) = Len(y) + Len(<<c>>)
            /\ \A i \in 1 .. Len(y) + Len(<<c>>) :
                  u[i] = IF i <= Len(y) THEN y[i] ELSE <<c>>[i - Len(y)]
        BY <1>1, <3>1, ConcatProperties
      <3> HIDE DEF u
      <3> QED
        BY <1>1, <3>1, <3>2
    <2>2. <<c>>[1] = c /\ y[1] = a /\ y[2] = b
      OBVIOUS
    <2> HIDE DEF u, y
    <2>3. u[1] = y[1] /\ u[2] = y[2]
      BY <2>1
    <2>4. u[3] = <<c>>[1]
      BY <2>1
    <2> QED
      BY <2>1, <2>2, <2>3, <2>4
  <1>3. v \in Seq(S) /\ Len(v) = 3 /\ v[1] = a /\ v[2] = b /\ v[3] = c
    OBVIOUS
  <1> HIDE DEF y, u, v
  <1>4. \A i \in 1 .. Len(u) : u[i] = v[i]
    BY <1>2, <1>3
  <1>5. u = v
    BY <1>2, <1>3, <1>4, SeqEqual
  <1> QED
    BY <1>5 DEF u, v

(* Short tuples.                                                           *)
LEMMA ShortTuples ==
    ASSUME NEW S, NEW a \in S, NEW b \in S, NEW c \in S
    PROVE  /\ <<a>> \in Seq(S) /\ <<a, b>> \in Seq(S) /\ <<a, b, c>> \in Seq(S)
           /\ <<a>> \o <<b>> = <<a, b>>
           /\ Distinct(<< >>) /\ Distinct(<<a>>)
           /\ a # b => Distinct(<<a, b>>)
           /\ a # b /\ a # c /\ b # c => Distinct(<<a, b, c>>)
           /\ \A i \in 1 .. Len(<<a>>) : <<a>>[i] = a
           /\ \A i \in 1 .. Len(<<a, b>>) : <<a, b>>[i] \in {a, b}
           /\ \A i \in 1 .. Len(<<a, b, c>>) : <<a, b, c>>[i] \in {a, b, c}
  <1>1. /\ Len(<<a>>) = 1 /\ <<a>>[1] = a /\ <<a>> \in Seq(S)
        /\ Len(<<a, b>>) = 2 /\ <<a, b>>[1] = a /\ <<a, b>>[2] = b /\ <<a, b>> \in Seq(S)
        /\ Len(<<a, b, c>>) = 3 /\ <<a, b, c>>[1] = a /\ <<a, b, c>>[2] = b /\ <<a, b, c>>[3] = c
        /\ <<a, b, c>> \in Seq(S) /\ Len(<< >>) = 0
    <2>1. Len(<<a>>) = 1 /\ <<a>>[1] = a /\ <<a>> \in Seq(S)
      OBVIOUS
    <2>2. Len(<<a, b>>) = 2 /\ <<a, b>>[1] = a /\ <<a, b>>[2] = b /\ <<a, b>> \in Seq(S)
      OBVIOUS
    <2>3. Len(<<a, b, c>>) = 3 /\ <<a, b, c>>[1] = a /\ <<a, b, c>>[2] = b /\ <<a, b, c>>[3] = c
      OBVIOUS
    <2>4. <<a, b, c>> \in Seq(S)
      OBVIOUS
    <2>5. Len(<< >>) = 0
      BY EmptySeq
    <2> QED
      BY <2>1, <2>2, <2>3, <2>4, <2>5
  <1>2. <<a>> \o <<b>> = <<a, b>>
    <2> DEFINE x == <<a>> \o <<b>>
               y == <<a, b>>
    <2>1. /\ x \in Seq(S) /\ Len(x) = 2 /\ x[1] = a /\ x[2] = b
      <3>1. /\ x \in Seq(S) /\ Len(x) = 1 + 1
            /\ \A i \in 1 .. 1 + 1 : x[i] = IF i <= 1 THEN a ELSE <<b>>[i - 1]
        <4>1. <<b>> \in Seq(S) /\ Len(<<b>>) = 1
          OBVIOUS
        <4>2. /\ x \in Seq(S) /\ Len(x) = Len(<<a>>) + Len(<<b>>)
              /\ \A i \in 1 .. Len(<<a>>) + Len(<<b>>) :
                    x[i] = IF i <= Len(<<a>>) THEN <<a>>[i] ELSE <<b>>[i - Len(<<a>>)]
          BY <1>1, <4>1, ConcatProperties
        <4> QED
          BY <1>1, <4>1, <4>2
      <3>2. <<b>>[1] = b
        OBVIOUS
      <3> HIDE DEF x
      <3>3. x[1] = a
        BY <3>1
      <3>4. x[2] = <<b>>[1]
        BY <3>1
      <3> QED
        BY <3>1, <3>2, <3>3, <3>4
    <2>2. y \in Seq(S) /\ Len(y) = 2 /\ y[1] = a /\ y[2] = b
      BY <1>1
    <2> HIDE DEF x, y
    <2>3. \A i \in 1 .. Len(x) : x[i] = y[i]
      BY <2>1, <2>2
    <2>4. x = y
      BY <2>1, <2>2, <2>3, SeqEqual
    <2> QED
      BY <2>4 DEF x, y
  <1>3. 1 .. 0 = {} /\ 1 .. 1 = {1} /\ 1 .. 2 = {1, 2} /\ 1 .. 3 = {1, 2, 3}
    OBVIOUS
  <1> DEFINE q == <<a>>
             r == <<a, b>>
             t == <<a, b, c>>
             z == << >>
  <1>4. /\ 1 .. Len(q) = {1} /\ q[1] = a
        /\ 1 .. Len(r) = {1, 2} /\ r[1] = a /\ r[2] = b
        /\ 1 .. Len(t) = {1, 2, 3} /\ t[1] = a /\ t[2] = b /\ t[3] = c
        /\ 1 .. Len(z) = {}
    BY <1>1, <1>3
  <1> HIDE DEF q, r, t, z
  <1>5. Distinct(z) /\ Distinct(q) /\ \A i \in 1 .. Len(q) : q[i] = a
    BY <1>4 DEF Distinct
  <1>6. (a # b => Distinct(r)) /\ \A i \in 1 .. Len(r) : r[i] \in {a, b}
    BY <1>4 DEF Distinct
  <1>7. (a # b /\ a # c /\ b # c => Distinct(t)) /\ \A i \in 1 .. Len(t) : t[i] \in {a, b, c}
    BY <1>4 DEF Distinct
  <1> QED
    BY <1>1, <1>2, <1>5, <1>6, <1>7 DEF q, r, t, z

(* What an enrichment is made of.                                          *)
LEMMA EnrichType ==
    ASSUME NEW e \in Enrichments
    PROVE  e.on \in BOOLEAN /\ e.cid \in BOOLEAN /\ e.tags \in BOOLEAN /\ e.hostKey \in Names
  <1>1. CASE e = NoEnrich
    <2>1. e.on = FALSE /\ e.cid = FALSE /\ e.tags = FALSE /\ e.hostKey = "host"
      BY <1>1 DEF NoEnrich
    <2>2. "host" \in Names
      BY Zenon DEF Names
    <2> QED
      BY <2>1, <2>2, Zenon
  <1>2. CASE e \in [on : {TRUE}, cid : BOOLEAN, tags : BOOLEAN, hostKey : HostKeys]
    <2>1. e.on = TRUE /\ e.cid \in BOOLEAN /\ e.tags \in BOOLEAN /\ e.hostKey \in HostKeys
      BY <1>2
    <2>2. HostKeys \subseteq Names
      BY Zenon DEF Names
    <2> QED
      BY <2>1, <2>2, Zenon
  <1> QED
    BY <1>1, <1>2 DEF Enrichments

(* buildPrefix: at most the connection's CID and the host's name, under    *)
(* two different keys, neither of them a key of the wrapper.               *)
LEMMA PrefixShape ==
    ASSUME NEW e \in Enrichments, ValidEnrich(e)
    PROVE  /\ PrefixKeys(e) \in Seq(Names)
           /\ Distinct(PrefixKeys(e))
           /\ \A i \in 1 .. Len(PrefixKeys(e)) : PrefixKeys(e)[i] \notin RelayReservedKeys
  <1>1. e.cid \in BOOLEAN /\ e.tags \in BOOLEAN /\ e.hostKey \in Names
    BY EnrichType
  <1>2. e.tags => e.hostKey \notin RelayReservedKeys /\ (e.cid => e.hostKey # "cid")
    BY DEF ValidEnrich
  <1>3. "cid" \notin RelayReservedKeys /\ "cid" \in Names
    BY DEF RelayReservedKeys, Names
  <1> DEFINE h == e.hostKey
             c == "cid"
             p == PrefixKeys(e)
  <1>4. p = (IF e.cid THEN <<c>> ELSE << >>) \o (IF e.tags THEN <<h>> ELSE << >>)
    BY Zenon DEF PrefixKeys
  <1>5. h \in Names /\ c \in Names /\ c \notin RelayReservedKeys
    BY <1>1, <1>3
  <1>6. e.tags => h \notin RelayReservedKeys /\ (e.cid => c # h)
    BY <1>2
  <1> HIDE DEF h, c, p
  <1>7. <<c>> \in Seq(Names) /\ <<h>> \in Seq(Names) /\ << >> \in Seq(Names)
    BY <1>5, ShortTuples, EmptySeq
  <1>8. CASE e.cid /\ e.tags
    <2>1. p = <<c, h>>
      <3>1. <<c>> \o <<h>> = <<c, h>>
        BY <1>5, ShortTuples
      <3> QED
        BY <1>4, <1>8, <3>1
    <2>2. <<c, h>> \in Seq(Names) /\ Distinct(<<c, h>>) /\ \A i \in 1 .. Len(<<c, h>>) : <<c, h>>[i] \in {c, h}
      BY <1>5, <1>6, <1>8, ShortTuples
    <2>3. p \in Seq(Names) /\ Distinct(p) /\ \A i \in 1 .. Len(p) : p[i] \in {c, h}
      BY <2>1, <2>2
    <2>4. \A i \in 1 .. Len(p) : p[i] \notin RelayReservedKeys
      BY <1>5, <1>6, <1>8, <2>3
    <2> QED
      BY <2>3, <2>4 DEF p
  <1>9. CASE e.cid /\ ~e.tags
    <2>1. p = <<c>>
      BY <1>4, <1>7, <1>9, ConcatEmptySeq
    <2>2. <<c>> \in Seq(Names) /\ Distinct(<<c>>) /\ \A i \in 1 .. Len(<<c>>) : <<c>>[i] = c
      BY <1>5, ShortTuples
    <2>3. p \in Seq(Names) /\ Distinct(p) /\ \A i \in 1 .. Len(p) : p[i] = c
      BY <2>1, <2>2
    <2> QED
      BY <1>5, <2>3 DEF p
  <1>10. CASE ~e.cid /\ e.tags
    <2>1. p = <<h>>
      BY <1>4, <1>7, <1>10, ConcatEmptySeq
    <2>2. <<h>> \in Seq(Names) /\ Distinct(<<h>>) /\ \A i \in 1 .. Len(<<h>>) : <<h>>[i] = h
      BY <1>5, ShortTuples
    <2>3. p \in Seq(Names) /\ Distinct(p) /\ \A i \in 1 .. Len(p) : p[i] = h
      BY <2>1, <2>2
    <2> QED
      BY <1>6, <1>10, <2>3 DEF p
  <1>11. CASE ~e.cid /\ ~e.tags
    <2>1. p = << >>
      BY <1>4, <1>7, <1>11, ConcatEmptySeq
    <2>2. Distinct(<< >>) /\ Len(<< >>) = 0
      BY <1>5, ShortTuples
    <2>3. 1 .. 0 = {}
      OBVIOUS
    <2> QED
      BY <1>7, <2>1, <2>2, <2>3 DEF p
  <1> QED
    BY <1>1, <1>8, <1>9, <1>10, <1>11

(* wrapRaw's keys behind the prefix.                                       *)
LEMMA WrapperShape ==
    ASSUME NEW truncated \in BOOLEAN
    PROVE  LET w == <<"type", "msg">> \o (IF truncated THEN <<"truncated">> ELSE << >>)
           IN  /\ w \in Seq(Names)
               /\ Distinct(w)
               /\ \A i \in 1 .. Len(w) : w[i] \in RelayReservedKeys
  <1> DEFINE a == "type"
             b == "msg"
             c == "truncated"
             w == <<"type", "msg">> \o (IF truncated THEN <<"truncated">> ELSE << >>)
  <1>1. a \in Names /\ b \in Names /\ c \in Names /\ a # b /\ a # c /\ b # c
    BY DEF Names
  <1>2. RelayReservedKeys = {a, b, c}
    BY DEF RelayReservedKeys
  <1>3. w = <<a, b>> \o (IF truncated THEN <<c>> ELSE << >>)
    OBVIOUS
  <1> HIDE DEF a, b, c, w
  <1>4. /\ <<a, b>> \in Seq(Names) /\ <<a, b, c>> \in Seq(Names)
        /\ <<a, b>> \o <<c>> = <<a, b, c>>
        /\ Distinct(<<a, b>>) /\ Distinct(<<a, b, c>>)
        /\ \A i \in 1 .. Len(<<a, b>>) : <<a, b>>[i] \in {a, b}
        /\ \A i \in 1 .. Len(<<a, b, c>>) : <<a, b, c>>[i] \in {a, b, c}
    <2>1. <<a, b>> \in Seq(Names) /\ <<a, b, c>> \in Seq(Names)
      BY <1>1, ShortTuples
    <2>2. <<a, b>> \o <<c>> = <<a, b, c>>
      BY <1>1, TripleConcat, Zenon
    <2>3. Distinct(<<a, b>>)
      BY <1>1, ShortTuples
    <2>4. Distinct(<<a, b, c>>)
      BY <1>1, ShortTuples
    <2>5. \A i \in 1 .. Len(<<a, b>>) : <<a, b>>[i] \in {a, b}
      BY <1>1, ShortTuples
    <2>6. \A i \in 1 .. Len(<<a, b, c>>) : <<a, b, c>>[i] \in {a, b, c}
      BY <1>1, ShortTuples
    <2> QED
      BY <2>1, <2>2, <2>3, <2>4, <2>5, <2>6
  <1>5. CASE truncated
    <2>1. w = <<a, b, c>>
      BY <1>3, <1>4, <1>5
    <2>2. w \in Seq(Names) /\ Distinct(w) /\ \A i \in 1 .. Len(w) : w[i] \in {a, b, c}
      BY <1>4, <2>1
    <2> QED
      BY <1>2, <2>2 DEF w
  <1>6. CASE ~truncated
    <2>1. w = <<a, b>>
      BY <1>3, <1>4, <1>6, ConcatEmptySeq
    <2>2. w \in Seq(Names) /\ Distinct(w) /\ \A i \in 1 .. Len(w) : w[i] \in {a, b}
      BY <1>4, <2>1
    <2> QED
      BY <1>2, <2>2 DEF w
  <1> QED
    BY <1>5, <1>6

(* Two sequences without repetitions and without a common element make     *)
(* one.                                                                    *)
LEMMA DistinctConcat ==
    ASSUME NEW p \in Seq(Names), NEW q \in Seq(Names), NEW R, Distinct(p), Distinct(q),
           \A i \in 1 .. Len(p) : p[i] \notin R, \A i \in 1 .. Len(q) : q[i] \in R
    PROVE  /\ p \o q \in Seq(Names) /\ Distinct(p \o q)
           /\ ToSet(p) \subseteq ToSet(p \o q)
  <1> DEFINE s == p \o q
             n == Len(p)
  <1>1. /\ s \in Seq(Names) /\ Len(s) = n + Len(q) /\ n \in Nat /\ Len(q) \in Nat
        /\ \A i \in 1 .. n + Len(q) : s[i] = IF i <= n THEN p[i] ELSE q[i - n]
    BY ConcatProperties, LenProperties
  <1>2. DOMAIN p = 1 .. n /\ DOMAIN s = 1 .. Len(s)
    BY <1>1, LenProperties
  <1> HIDE DEF s, n
  <1>3. ASSUME NEW i \in 1 .. Len(s)
        PROVE  \/ i \in 1 .. n /\ s[i] = p[i] /\ s[i] \notin R
               \/ i - n \in 1 .. Len(q) /\ s[i] = q[i - n] /\ s[i] \in R
    <2>1. CASE i <= n
      <3>1. i \in 1 .. n /\ s[i] = p[i]
        BY <1>1, <2>1
      <3> QED
        BY <3>1 DEF n
    <2>2. CASE ~(i <= n)
      <3>1. i - n \in 1 .. Len(q) /\ s[i] = q[i - n]
        BY <1>1, <2>2
      <3> QED
        BY <3>1
    <2> QED
      BY <2>1, <2>2
  <1>4. ASSUME NEW i \in 1 .. Len(s), NEW j \in 1 .. Len(s), s[i] = s[j] PROVE i = j
    <2>1. CASE s[i] \in R
      <3>1. i - n \in 1 .. Len(q) /\ j - n \in 1 .. Len(q) /\ q[i - n] = q[j - n]
        BY <1>3, <1>4, <2>1
      <3>2. i - n = j - n
        BY <3>1 DEF Distinct
      <3> QED
        BY <1>1, <3>2
    <2>2. CASE s[i] \notin R
      <3>1. i \in 1 .. n /\ j \in 1 .. n /\ p[i] = p[j]
        BY <1>3, <1>4, <2>2
      <3> QED
        BY <3>1 DEF Distinct, n
    <2> QED
      BY <2>1, <2>2
  <1>5. Distinct(s)
    BY <1>4 DEF Distinct
  <1>6. ToSet(p) \subseteq ToSet(s)
    <2>1. ASSUME NEW i \in 1 .. n PROVE i \in 1 .. Len(s) /\ s[i] = p[i]
      BY <1>1
    <2> QED
      BY <1>2, <2>1 DEF ToSet
  <1> QED
    BY <1>1, <1>5, <1>6 DEF s

(* Each of emit's three ways to write a line: wrapped, verbatim, spliced.  *)
LEMMA EmitRight ==
    ASSUME NEW e \in Enrichments, ValidEnrich(e), NEW line, NEW truncated \in BOOLEAN
    PROVE  LET r == emit(e, line, truncated)
           IN  /\ r.payload = line /\ r.truncated = truncated
               /\ r.spliced \in BOOLEAN /\ r.keys \in Seq(Names)
               /\ r = [payload |-> r.payload, truncated |-> r.truncated, spliced |-> r.spliced,
                       keys |-> r.keys]
               /\ Enriched(e, r)
  <1> DEFINE p == PrefixKeys(e)
             w == <<"type", "msg">> \o (IF truncated THEN <<"truncated">> ELSE << >>)
             toks == Tokens(line)
             r == emit(e, line, truncated)
  <1>1. p \in Seq(Names) /\ Distinct(p)
    BY PrefixShape
  <1>2. p \o w \in Seq(Names) /\ Distinct(p \o w) /\ ToSet(p) \subseteq ToSet(p \o w)
    BY PrefixShape, WrapperShape, DistinctConcat
  <1>3. e.on \in BOOLEAN
    BY EnrichType
  <1>4. CASE r = wrapRaw(p, line, truncated)
               /\ (truncated \/ (e.on /\ ~(isJSONObject(line) /\ ~hasReservedTopLevelKey(line, ToSet(p)))))
    <2> HIDE DEF r, p, toks
    <2>1. r = [payload |-> line, truncated |-> truncated, spliced |-> FALSE, keys |-> p \o w]
      <3>1. wrapRaw(p, line, truncated)
              = [payload |-> line, truncated |-> truncated, spliced |-> FALSE,
                 keys |-> p \o <<"type", "msg">> \o (IF truncated THEN <<"truncated">> ELSE << >>)]
        BY DEF wrapRaw
      <3>2. p \o <<"type", "msg">> \o (IF truncated THEN <<"truncated">> ELSE << >>) = p \o w
        <4>1. <<"type", "msg">> \in Seq(Names) /\ (IF truncated THEN <<"truncated">> ELSE << >>) \in Seq(Names)
          <5>1. "type" \in Names /\ "msg" \in Names /\ "truncated" \in Names
            BY DEF Names
          <5>2. <<"type", "msg">> \in Seq(Names) /\ <<"truncated">> \in Seq(Names) /\ << >> \in Seq(Names)
            BY <5>1, ShortTuples, EmptySeq
          <5> QED
            BY <5>2, Zenon
        <4> QED
          BY <1>1, <4>1, ConcatAssociative
      <3> QED
        BY <1>4, <3>1, <3>2
    <2> HIDE DEF w
    <2>2. r.payload = line /\ r.truncated = truncated /\ r.spliced = FALSE /\ r.keys = p \o w
      BY <2>1
    <2>3. ASSUME NEW k \in ToSet(r.keys) PROVE Occurrences(k, r) = 1
      <3>1. Cardinality({i \in 1 .. Len(r.keys) : r.keys[i] = k}) = 1
        <4>1. r.keys \in Seq(Names) /\ Distinct(r.keys)
          BY <1>2, <2>2
        <4> QED
          BY <2>3, <4>1, Once
      <3>2. 1 + 0 = 1
        OBVIOUS
      <3>3. Occurrences(k, r) = Cardinality({i \in 1 .. Len(r.keys) : r.keys[i] = k}) + 0
        BY <2>2, Zenon DEF Occurrences
      <3> QED
        BY <3>1, <3>2, <3>3
    <2>4. \A k \in ToSet(p) : Occurrences(k, r) = 1
      BY <1>2, <2>2, <2>3
    <2>5. ASSUME e.on, ~truncated, toks \in Objects, \A i \in RootKeys(toks) : toks[i] \notin ToSet(p)
          PROVE  FALSE
      <3>1. isJSONObject(line)
        BY <2>5 DEF isJSONObject, toks
      <3>2. ~hasReservedTopLevelKey(line, ToSet(p))
        BY <2>5, <3>1, ScanRight DEF toks
      <3> QED
        BY <1>4, <2>5, <3>1, <3>2
    <2>6. Enriched(e, r)
      BY <2>2, <2>3, <2>4, <2>5 DEF Enriched, p, toks
    <2> QED
      BY <1>2, <2>1, <2>2, <2>6 DEF r
  <1>5. CASE r = verbatim(line) /\ ~truncated /\ ~e.on
    <2> HIDE DEF r, p, w, toks
    <2>1. r = [payload |-> line, truncated |-> FALSE, spliced |-> FALSE, keys |-> << >>]
      BY <1>5 DEF verbatim
    <2>2. r.payload = line /\ r.truncated = FALSE /\ r.spliced = FALSE /\ r.keys = << >>
      BY <2>1
    <2>3. Enriched(e, r)
      BY <1>5, <2>2 DEF Enriched
    <2>4. << >> \in Seq(Names)
      OBVIOUS
    <2> QED
      BY <1>5, <2>1, <2>2, <2>3, <2>4 DEF r
  <1>6. CASE r = spliceObject(p, line) /\ ~truncated /\ isJSONObject(line)
               /\ ~hasReservedTopLevelKey(line, ToSet(p))
    <2> HIDE DEF r, p, w, toks
    <2>1. r = [payload |-> line, truncated |-> FALSE, spliced |-> TRUE, keys |-> p]
      BY <1>6 DEF spliceObject
    <2>2. r.payload = line /\ r.truncated = FALSE /\ r.spliced = TRUE /\ r.keys = p
      BY <2>1
    <2>3. ASSUME NEW k \in ToSet(p) PROVE Occurrences(k, r) = 1
      <3>1. Cardinality({i \in 1 .. Len(r.keys) : r.keys[i] = k}) = 1
        BY <1>1, <2>2, Once
      <3>2. {i \in RootKeys(toks) : toks[i] = k} = {}
        BY <1>6, <2>3, ScanRight DEF toks
      <3>3. Cardinality({i \in RootKeys(toks) : toks[i] = k}) = 0
        BY <3>2, FS_EmptySet
      <3>4. Occurrences(k, r) = Cardinality({i \in 1 .. Len(r.keys) : r.keys[i] = k})
                                + Cardinality({i \in RootKeys(toks) : toks[i] = k})
        BY <2>2, Zenon DEF Occurrences, toks
      <3>5. 1 + 0 = 1
        OBVIOUS
      <3> QED
        BY <3>1, <3>3, <3>4, <3>5
    <2>4. Enriched(e, r)
      BY <2>2, <2>3 DEF Enriched, p
    <2> QED
      BY <1>1, <1>6, <2>1, <2>2, <2>4 DEF r
  <1> QED
    <2> HIDE DEF w, toks
    <2>1. \/ r = wrapRaw(p, line, truncated)
               /\ (truncated \/ (e.on /\ ~(isJSONObject(line) /\ ~hasReservedTopLevelKey(line, ToSet(p)))))
          \/ r = verbatim(line) /\ ~truncated /\ ~e.on
          \/ r = spliceObject(p, line) /\ ~truncated /\ isJSONObject(line)
               /\ ~hasReservedTopLevelKey(line, ToSet(p))
      <3>1. CASE truncated
        BY <3>1 DEF emit
      <3>2. CASE ~truncated
        BY <3>2 DEF emit
      <3> QED
        BY <3>1, <3>2
    <2> QED
      BY <1>4, <1>5, <1>6, <2>1

-----------------------------------------------------------------------------
(* The invariant.                                                          *)

Byte == Brackets \cup Keys \cup {"7", "cr", "lf"}

Recs == [payload : Seq(Byte), truncated : BOOLEAN, spliced : BOOLEAN, keys : Seq(Names)]

(* How much of the stream has been taken from the buffer.                  *)
Base == pos - Len(buf)

(* The record is what a line should become.                                *)
Matches(r, x) == <<r.payload, r.truncated>> = x

(* The configuration is one that validate has accepted.                    *)
Configured ==
    /\ stream \in Seq(Byte) /\ who \in {"relay", "pump"}
    /\ enrich \in Enrichments /\ ValidEnrich(enrich)

(* The buffer is a window of the stream; after an error it holds its end,  *)
(* no longer than a line may be.                                           *)
Window ==
    /\ pos \in 0 .. Len(stream) /\ buf \in Seq(Byte)
    /\ Len(buf) <= pos /\ Len(buf) <= BufSize
    /\ \A i \in 1 .. Len(buf) : buf[i] = stream[Base + i]
    /\ ended \in BOOLEAN
    /\ ended => pos = Len(stream) /\ Len(buf) <= MaxLine

(* A line is read from its start, and discarded inside it.                 *)
Standing ==
    /\ at \in {"line", "discard", "done"} /\ failed \in BOOLEAN
    /\ at = "line" => Base = 0 \/ stream[Base] = "lf"
    /\ at = "discard" => Base > 0 /\ stream[Base] # "lf"

(* There is a record for every line begun so far.                          *)
Counted ==
    /\ at # "done" => Len(out) = LinesBegun(stream, Base)
    /\ Len(out) <= Cardinality(LineStarts(stream))
    /\ at = "done" /\ ~failed => Len(out) = Cardinality(LineStarts(stream))

(* And it is the right one.                                                *)
Recorded ==
    /\ out \in Seq(Recs)
    /\ \A k \in 1 .. Len(out) :
          Len(out[k].payload) <= MaxLine /\ (who = "relay" => Enriched(enrich, out[k]))
    /\ \A i \in LineStarts(stream) :
          LinesBegun(stream, i) <= Len(out)
          => Matches(out[LinesBegun(stream, i)], Expected(who, stream, i))

IInv == Configured /\ Window /\ Standing /\ Counted /\ Recorded

-----------------------------------------------------------------------------
(* The lines of a stream.                                                  *)

(* A set of numbers has a smallest one.                                    *)
LEMMA Smallest ==
    ASSUME NEW S, S \subseteq Nat, S # {}
    PROVE  \E m \in S : \A k \in S : m <= k
  <1> SUFFICES ASSUME \A m \in S : \E k \in S : ~(m <= k) PROVE FALSE
    OBVIOUS
  <1> DEFINE T == {n \in Nat : \A k \in S : n <= k}
  <1>1. T \subseteq Nat /\ 0 \in T
    OBVIOUS
  <1>2. ASSUME NEW n \in T PROVE n + 1 \in T
    <2>1. n \notin S
      OBVIOUS
    <2> QED
      BY <2>1
  <1>3. T = Nat
    <2> HIDE DEF T
    <2> QED
      BY <1>1, <1>2, Induction, Zenon
  <1>4. PICK n \in S : TRUE
    OBVIOUS
  <1>5. n \in Nat /\ n + 1 \in Nat
    BY <1>4
  <1>6. n + 1 \in T
    BY <1>3, <1>5
  <1> QED
    BY <1>4, <1>5, <1>6

(* ReadSlice finds the first LF.                                           *)
LEMMA LineEndIs ==
    ASSUME HasLine, Len(buf) \in Nat
    PROVE  /\ LineEnd \in 1 .. Len(buf) /\ buf[LineEnd] = "lf"
           /\ \A j \in 1 .. LineEnd - 1 : buf[j] # "lf"
  <1> DEFINE S == {i \in 1 .. Len(buf) : buf[i] = "lf"}
  <1>1. S \subseteq Nat /\ S # {}
    BY DEF HasLine
  <1>2. PICK m \in S : \A k \in S : m <= k
    <2> HIDE DEF S
    <2> QED
      BY <1>1, Smallest
  <1>3. ASSUME NEW j \in 1 .. m - 1 PROVE buf[j] # "lf"
    <2>1. j \in 1 .. Len(buf) /\ ~(m <= j)
      BY <1>2
    <2> QED
      BY <1>2, <2>1
  <1>4. \E i \in 1 .. Len(buf) : buf[i] = "lf" /\ \A j \in 1 .. i - 1 : buf[j] # "lf"
    BY <1>2, <1>3
  <1> QED
    BY <1>4, Zenon DEF LineEnd

(* The buffer holds one byte more than a line may have.                    *)
LEMMA BufSizeIs == MaxLine \in Nat /\ BufSize = MaxLine + 1
  <1>1. MaxLine \in Nat /\ BufFloor \in Nat /\ MaxLine >= BufFloor
    BY RelayAssumption
  <1>2. ~(MaxLine + 1 < BufFloor)
    BY <1>1
  <1> QED
    BY <1>1, <1>2 DEF BufSize

(* Counting lines: the lines of a stream are finitely many, and the count  *)
(* at a position is at most theirs.                                        *)
LEMMA BegunType ==
    ASSUME NEW s, Len(s) \in Nat, NEW i \in Int
    PROVE  /\ IsFiniteSet(LineStarts(s)) /\ Cardinality(LineStarts(s)) \in Nat
           /\ IsFiniteSet({j \in LineStarts(s) : j <= i})
           /\ LinesBegun(s, i) \in Nat /\ LinesBegun(s, i) <= Cardinality(LineStarts(s))
  <1>1. IsFiniteSet(1 .. Len(s)) /\ LineStarts(s) \in SUBSET (1 .. Len(s))
    BY FS_Interval DEF LineStarts
  <1>2. IsFiniteSet(LineStarts(s))
    BY <1>1, FS_Subset
  <1>3. {j \in LineStarts(s) : j <= i} \in SUBSET LineStarts(s)
    OBVIOUS
  <1>4. /\ IsFiniteSet({j \in LineStarts(s) : j <= i})
        /\ Cardinality({j \in LineStarts(s) : j <= i}) <= Cardinality(LineStarts(s))
    BY <1>2, <1>3, FS_Subset
  <1> QED
    BY <1>2, <1>4, FS_CardinalityType DEF LinesBegun

(* No line begins before the stream, and all of them within it.            *)
LEMMA BegunEnds ==
    ASSUME NEW s, Len(s) \in Nat
    PROVE  LinesBegun(s, 0) = 0 /\ LinesBegun(s, Len(s)) = Cardinality(LineStarts(s))
  <1>1. {j \in LineStarts(s) : j <= 0} = {}
    BY DEF LineStarts
  <1>2. {j \in LineStarts(s) : j <= Len(s)} = LineStarts(s)
    BY DEF LineStarts
  <1> QED
    BY <1>1, <1>2, FS_EmptySet DEF LinesBegun

(* Where no line begins the count stands still.                            *)
LEMMA NoneBegun ==
    ASSUME NEW s, NEW a \in Nat, NEW b \in Nat, a <= b, \A j \in a + 1 .. b : j \notin LineStarts(s)
    PROVE  LinesBegun(s, b) = LinesBegun(s, a)
  <1>1. LineStarts(s) \subseteq Nat
    BY DEF LineStarts
  <1>2. {j \in LineStarts(s) : j <= b} = {j \in LineStarts(s) : j <= a}
    BY <1>1
  <1> QED
    BY <1>2 DEF LinesBegun

(* Where one begins it has grown: two lines have different numbers.        *)
LEMMA SomeBegun ==
    ASSUME NEW s, Len(s) \in Nat, NEW a \in Nat, NEW b \in LineStarts(s), a < b
    PROVE  LinesBegun(s, b) >= LinesBegun(s, a) + 1
  <1> DEFINE A == {j \in LineStarts(s) : j <= a}
             B == {j \in LineStarts(s) : j <= b}
  <1>1. LineStarts(s) \subseteq Nat
    BY DEF LineStarts
  <1>2. b \in Nat /\ b \notin A /\ A \cup {b} \subseteq B
    BY <1>1
  <1>3. IsFiniteSet(A) /\ IsFiniteSet(B)
    BY <1>2, BegunType
  <1>4. LinesBegun(s, b) = Cardinality(B) /\ LinesBegun(s, a) = Cardinality(A)
    BY DEF LinesBegun
  <1> HIDE DEF A, B
  <1>5. Cardinality(A \cup {b}) = Cardinality(A) + 1 /\ Cardinality(A \cup {b}) <= Cardinality(B)
    BY <1>2, <1>3, FS_AddElement, FS_Subset
  <1>6. Cardinality(A) \in Nat /\ Cardinality(B) \in Nat
    BY <1>3, FS_CardinalityType
  <1> QED
    BY <1>4, <1>5, <1>6

(* The count grows by one.                                                 *)
LEMMA OneBegun ==
    ASSUME NEW s, Len(s) \in Nat, NEW a \in Nat, a + 1 \in LineStarts(s)
    PROVE  LinesBegun(s, a + 1) = LinesBegun(s, a) + 1
  <1> DEFINE A == {j \in LineStarts(s) : j <= a}
  <1>1. LineStarts(s) \subseteq Nat
    BY DEF LineStarts
  <1>2. {j \in LineStarts(s) : j <= a + 1} = A \cup {a + 1} /\ a + 1 \notin A
    BY <1>1
  <1>3. IsFiniteSet(A)
    BY BegunType
  <1>4. LinesBegun(s, a + 1) = Cardinality(A \cup {a + 1}) /\ LinesBegun(s, a) = Cardinality(A)
    BY <1>2 DEF LinesBegun
  <1> HIDE DEF A
  <1> QED
    BY <1>2, <1>3, <1>4, FS_AddElement

(* A line's number is its own.                                             *)
LEMMA NumberIsOwn ==
    ASSUME NEW s, Len(s) \in Nat, NEW i \in LineStarts(s), NEW j \in LineStarts(s),
           LinesBegun(s, i) = LinesBegun(s, j)
    PROVE  i = j
  <1>1. i \in Nat /\ j \in Nat /\ i \in Int
    BY DEF LineStarts
  <1>2. LinesBegun(s, i) \in Nat
    BY <1>1, BegunType, Zenon
  <1>3. CASE i < j
    <2>1. LinesBegun(s, j) >= LinesBegun(s, i) + 1
      BY <1>1, <1>3, SomeBegun
    <2> QED
      BY <1>2, <2>1
  <1>4. CASE j < i
    <2>1. LinesBegun(s, i) >= LinesBegun(s, j) + 1
      BY <1>1, <1>4, SomeBegun
    <2> QED
      BY <1>2, <2>1
  <1> QED
    BY <1>1, <1>3, <1>4

(* Within a line no other begins.                                          *)
LEMMA WithinLine ==
    ASSUME NEW s, Len(s) \in Nat, NEW a \in Nat, NEW b \in Nat, 1 <= a, a <= b,
           \A k \in a .. b - 1 : s[k] # "lf"
    PROVE  LinesBegun(s, b) = LinesBegun(s, a)
  <1>1. ASSUME NEW j \in a + 1 .. b PROVE j \notin LineStarts(s)
    <2>1. j - 1 \in a .. b - 1 /\ j # 1
      OBVIOUS
    <2>2. s[j - 1] # "lf"
      BY <2>1
    <2> QED
      BY <2>1, <2>2 DEF LineStarts
  <1> QED
    BY <1>1, NoneBegun

(* The length of a line that ends in front of e.                           *)
LEMMA ContentExact ==
    ASSUME NEW s, Len(s) \in Nat, NEW i \in 1 .. Len(s), NEW e \in i .. Len(s) + 1,
           \A k \in i .. e - 1 : s[k] # "lf", e = Len(s) + 1 \/ s[e] = "lf"
    PROVE  ContentLen(s, i) = e - i
  <1> DEFINE C == {j \in i .. Len(s) : \A k \in i .. j : s[k] # "lf"}
  <1>1. ASSUME NEW j \in C PROVE j \in i .. e - 1
    <2>1. CASE e = Len(s) + 1
      BY <2>1
    <2>2. CASE s[e] = "lf"
      <3>1. ~(e \in i .. j)
        BY <2>2
      <3> QED
        BY <3>1
    <2> QED
      BY <2>1, <2>2
  <1>2. ASSUME NEW j \in i .. e - 1 PROVE j \in C
    OBVIOUS
  <1>3. C = i .. e - 1
    BY <1>1, <1>2
  <1>4. Cardinality(i .. e - 1) = e - i
    <2>1. e - 1 \in Int /\ i \in Int
      OBVIOUS
    <2>2. Cardinality(i .. e - 1) = IF i > e - 1 THEN 0 ELSE (e - 1) - i + 1
      BY <2>1, FS_Interval
    <2> QED
      BY <2>2
  <1> QED
    BY <1>3, <1>4 DEF ContentLen

(* The length of a line that goes on up to e, at least.                    *)
LEMMA ContentAtLeast ==
    ASSUME NEW s, Len(s) \in Nat, NEW i \in 1 .. Len(s), NEW e \in i .. Len(s) + 1,
           \A k \in i .. e - 1 : s[k] # "lf"
    PROVE  /\ ContentLen(s, i) \in Nat /\ ContentLen(s, i) >= e - i
           /\ i + ContentLen(s, i) - 1 <= Len(s)
  <1> DEFINE C == {j \in i .. Len(s) : \A k \in i .. j : s[k] # "lf"}
  <1>1. C \in SUBSET (i .. Len(s)) /\ i .. e - 1 \in SUBSET C
    OBVIOUS
  <1> HIDE DEF C
  <1>2. /\ IsFiniteSet(i .. Len(s)) /\ Cardinality(i .. Len(s)) = Len(s) - i + 1
        /\ Cardinality(i .. e - 1) = e - i
    <2>1. e - 1 \in Int /\ i \in Int /\ Len(s) \in Int
      OBVIOUS
    <2>2. /\ Cardinality(i .. e - 1) = IF i > e - 1 THEN 0 ELSE (e - 1) - i + 1
          /\ Cardinality(i .. Len(s)) = IF i > Len(s) THEN 0 ELSE Len(s) - i + 1
          /\ IsFiniteSet(i .. Len(s))
      BY <2>1, FS_Interval
    <2> QED
      BY <2>2
  <1>3. IsFiniteSet(C) /\ Cardinality(C) <= Cardinality(i .. Len(s))
    BY <1>1, <1>2, FS_Subset
  <1>4. Cardinality(i .. e - 1) <= Cardinality(C) /\ Cardinality(C) \in Nat
    BY <1>1, <1>3, FS_Subset, FS_CardinalityType
  <1>5. ContentLen(s, i) = Cardinality(C)
    BY DEF ContentLen, C
  <1> QED
    BY <1>2, <1>3, <1>4, <1>5

-----------------------------------------------------------------------------
(* Slices of sequences.                                                    *)

(* The m elements behind the first a.                                      *)
LEMMA Slice ==
    ASSUME NEW B, NEW s \in Seq(B), NEW a \in Nat, NEW m \in Nat, a + m <= Len(s)
    PROVE  LET q == SubSeq(s, a + 1, a + m)
           IN  q \in Seq(B) /\ Len(q) = m /\ \A k \in 1 .. m : q[k] = s[a + k]
  <1>1. Len(s) \in Nat /\ a + 1 \in Int /\ a + m \in Int
    BY LenProperties
  <1>2. ASSUME NEW i \in a + 1 .. a + m PROVE s[i] \in B
    <2>1. i \in 1 .. Len(s)
      BY <1>1
    <2> QED
      BY <2>1, ElementOfSeq
  <1> DEFINE q == SubSeq(s, a + 1, a + m)
  <1>3. /\ q \in Seq(B)
        /\ Len(q) = IF a + 1 <= a + m THEN (a + m) - (a + 1) + 1 ELSE 0
        /\ \A i \in 1 .. (a + m) - (a + 1) + 1 : q[i] = s[(a + 1) + i - 1]
    BY <1>1, <1>2, SubSeqProperties
  <1> HIDE DEF q
  <1>4. Len(q) = m /\ (a + m) - (a + 1) + 1 = m
    BY <1>3
  <1>5. ASSUME NEW k \in 1 .. m PROVE q[k] = s[a + k]
    <2>1. (a + 1) + k - 1 = a + k
      OBVIOUS
    <2> QED
      BY <1>3, <1>4, <2>1
  <1> QED
    BY <1>3, <1>4, <1>5 DEF q

(* Slices with the same elements are equal.                                *)
LEMMA SlicesEqual ==
    ASSUME NEW B, NEW s \in Seq(B), NEW t \in Seq(B), NEW a \in Nat, NEW c \in Nat, NEW m \in Nat,
           a + m <= Len(s), c + m <= Len(t), \A k \in 1 .. m : s[a + k] = t[c + k]
    PROVE  SubSeq(s, a + 1, a + m) = SubSeq(t, c + 1, c + m)
  <1> DEFINE q == SubSeq(s, a + 1, a + m)
             r == SubSeq(t, c + 1, c + m)
  <1>1. /\ q \in Seq(B) /\ Len(q) = m /\ \A k \in 1 .. m : q[k] = s[a + k]
        /\ r \in Seq(B) /\ Len(r) = m /\ \A k \in 1 .. m : r[k] = t[c + k]
    BY Slice
  <1> HIDE DEF q, r
  <1>2. \A k \in 1 .. Len(q) : q[k] = r[k]
    BY <1>1
  <1>3. q = r
    BY <1>1, <1>2, SeqEqual
  <1> QED
    BY <1>3 DEF q, r

(* The first m elements.                                                   *)
LEMMA Prefix ==
    ASSUME NEW B, NEW s \in Seq(B), NEW m \in Nat, m <= Len(s)
    PROVE  LET q == SubSeq(s, 1, m)
           IN  q \in Seq(B) /\ Len(q) = m /\ \A k \in 1 .. m : q[k] = s[k]
  <1>1. 0 \in Nat /\ 0 + m = m /\ 0 + 1 = 1 /\ \A k \in 1 .. m : 0 + k = k
    OBVIOUS
  <1>2. LET q == SubSeq(s, 0 + 1, 0 + m)
        IN  q \in Seq(B) /\ Len(q) = m /\ \A k \in 1 .. m : q[k] = s[0 + k]
    BY <1>1, Slice
  <1> QED
    BY <1>1, <1>2

(* Prefixes with the same elements are equal.                              *)
LEMMA PrefixesEqual ==
    ASSUME NEW B, NEW s \in Seq(B), NEW t \in Seq(B), NEW m \in Nat, m <= Len(s), m <= Len(t),
           \A k \in 1 .. m : s[k] = t[k]
    PROVE  SubSeq(s, 1, m) = SubSeq(t, 1, m)
  <1> DEFINE q == SubSeq(s, 1, m)
             r == SubSeq(t, 1, m)
  <1>1. /\ q \in Seq(B) /\ Len(q) = m /\ \A k \in 1 .. m : q[k] = s[k]
        /\ r \in Seq(B) /\ Len(r) = m /\ \A k \in 1 .. m : r[k] = t[k]
    BY Prefix
  <1> HIDE DEF q, r
  <1>2. \A k \in 1 .. Len(q) : q[k] = r[k]
    BY <1>1
  <1>3. q = r
    BY <1>1, <1>2, SeqEqual
  <1> QED
    BY <1>3 DEF q, r

-----------------------------------------------------------------------------
(* Line endings.                                                           *)

(* The first n numbers.                                                    *)
LEMMA UpTo ==
    ASSUME NEW n \in Nat
    PROVE  IsFiniteSet(1 .. n) /\ Cardinality(1 .. n) = n
  <1>1. IsFiniteSet(1 .. n) /\ Cardinality(1 .. n) = IF 1 > n THEN 0 ELSE n - 1 + 1
    BY FS_Interval
  <1> QED
    BY <1>1

(* bytes.TrimRight keeps a prefix, and does not see a last LF.             *)
LEMMA Trimmed ==
    ASSUME NEW B, NEW c \in Seq(B)
    PROVE  TrimRight(c) \in Seq(B) /\ Len(TrimRight(c)) <= Len(c)
  <1> DEFINE K == {i \in 1 .. Len(c) : \E j \in i .. Len(c) : c[j] \notin {"cr", "lf"}}
  <1>1. Len(c) \in Nat
    BY LenProperties
  <1>2. IsFiniteSet(1 .. Len(c)) /\ Cardinality(1 .. Len(c)) = Len(c)
    BY <1>1, UpTo
  <1>3. K \in SUBSET (1 .. Len(c))
    OBVIOUS
  <1> HIDE DEF K
  <1>4. IsFiniteSet(K) /\ Cardinality(K) <= Len(c)
    BY <1>2, <1>3, FS_Subset
  <1>5. Cardinality(K) \in Nat
    BY <1>4, FS_CardinalityType
  <1>6. SubSeq(c, 1, Cardinality(K)) \in Seq(B) /\ Len(SubSeq(c, 1, Cardinality(K))) = Cardinality(K)
    BY <1>4, <1>5, Prefix
  <1> QED
    BY <1>4, <1>6 DEF TrimRight, K

(* A line and its content without the LF: both readers make the same of    *)
(* them, the relay but for one CR.                                         *)
LEMMA LastLF ==
    ASSUME NEW B, NEW c \in Seq(B), NEW l \in Seq(B), Len(l) = Len(c) + 1,
           \A k \in 1 .. Len(c) : l[k] = c[k], l[Len(l)] = "lf"
    PROVE  TrimRight(l) = TrimRight(c) /\ dropNewline(l) = DropOneCR(c)
  <1>1. Len(c) \in Nat /\ Len(l) \in Nat
    BY LenProperties
  <1> DEFINE K(q) == {i \in 1 .. Len(q) : \E j \in i .. Len(q) : q[j] \notin {"cr", "lf"}}
  <1>2. K(l) = K(c)
    <2>1. ASSUME NEW i \in K(l) PROVE i \in K(c)
      <3>1. PICK j \in i .. Len(l) : l[j] \notin {"cr", "lf"}
        OBVIOUS
      <3>2. j # Len(l)
        BY <3>1
      <3>3. i \in 1 .. Len(c) /\ j \in i .. Len(c) /\ j \in 1 .. Len(c)
        BY <1>1, <3>2
      <3> QED
        BY <3>1, <3>3
    <2>2. ASSUME NEW i \in K(c) PROVE i \in K(l)
      <3>1. PICK j \in i .. Len(c) : c[j] \notin {"cr", "lf"}
        OBVIOUS
      <3>2. i \in 1 .. Len(l) /\ j \in i .. Len(l) /\ j \in 1 .. Len(c)
        BY <1>1
      <3> QED
        BY <3>1, <3>2
    <2> QED
      BY <2>1, <2>2
  <1>3. K(c) \in SUBSET (1 .. Len(c)) /\ IsFiniteSet(1 .. Len(c)) /\ Cardinality(1 .. Len(c)) = Len(c)
    <2>1. K(c) \in SUBSET (1 .. Len(c))
      OBVIOUS
    <2>2. IsFiniteSet(1 .. Len(c)) /\ Cardinality(1 .. Len(c)) = Len(c)
      BY <1>1, UpTo
    <2> QED
      BY <2>1, <2>2
  <1>4. TrimRight(l) = SubSeq(l, 1, Cardinality(K(l))) /\ TrimRight(c) = SubSeq(c, 1, Cardinality(K(c)))
    BY DEF TrimRight
  <1> DEFINE m == Cardinality(K(c))
  <1> HIDE DEF K
  <1>5. IsFiniteSet(K(c)) /\ m <= Len(c)
    BY <1>3, FS_Subset
  <1>6. m \in Nat
    BY <1>5, FS_CardinalityType
  <1> HIDE DEF m
  <1>7. m <= Len(l) /\ \A k \in 1 .. m : l[k] = c[k]
    BY <1>1, <1>5, <1>6
  <1>8. SubSeq(l, 1, m) = SubSeq(c, 1, m)
    BY <1>5, <1>6, <1>7, PrefixesEqual
  <1>9. TrimRight(l) = TrimRight(c)
    BY <1>2, <1>4, <1>8 DEF m
  <1>10. Front(l) = c
    <2>1. Front(l) = SubSeq(l, 1, Len(l) - 1) /\ Len(l) - 1 = Len(c)
      BY <1>1 DEF Front
    <2>2. SubSeq(l, 1, Len(c)) = SubSeq(c, 1, Len(c))
      BY <1>1, PrefixesEqual
    <2>3. SubSeq(c, 1, Len(c)) = c
      BY SubSeqFull
    <2> QED
      BY <2>1, <2>2, <2>3
  <1>11. l # << >> /\ Last(l) = "lf"
    <2>1. l # << >>
      BY <1>1, EmptySeq
    <2> QED
      BY <2>1 DEF Last
  <1>12. dropNewline(l) = DropOneCR(c)
    BY <1>10, <1>11 DEF dropNewline
  <1> QED
    BY <1>9, <1>12

(* A line that has no LF keeps all of it.                                  *)
LEMMA NoLF ==
    ASSUME NEW B, NEW c \in Seq(B), \A k \in 1 .. Len(c) : c[k] # "lf"
    PROVE  dropNewline(c) = c
  <1>1. Len(c) \in Nat
    BY LenProperties
  <1>2. CASE c = << >>
    BY <1>2 DEF dropNewline
  <1>3. CASE c # << >>
    <2>1. Len(c) \in 1 .. Len(c)
      <3>1. Len(c) \in Nat \ {0}
        BY <1>3, EmptySeq
      <3> QED
        BY <3>1
    <2>2. Last(c) # "lf"
      BY <2>1 DEF Last
    <2> QED
      BY <2>2 DEF dropNewline
  <1> QED
    BY <1>2, <1>3

(* Dropping a CR shortens.                                                 *)
LEMMA Dropped ==
    ASSUME NEW B, NEW c \in Seq(B)
    PROVE  DropOneCR(c) \in Seq(B) /\ Len(DropOneCR(c)) <= Len(c)
  <1>1. Len(c) \in Nat
    BY LenProperties
  <1>2. CASE c # << >> /\ Last(c) = "cr"
    <2>1. Len(c) - 1 \in Nat /\ Len(c) - 1 <= Len(c)
      <3>1. Len(c) \in Nat \ {0}
        BY <1>2, EmptySeq
      <3> QED
        BY <3>1
    <2>2. SubSeq(c, 1, Len(c) - 1) \in Seq(B) /\ Len(SubSeq(c, 1, Len(c) - 1)) = Len(c) - 1
      BY <2>1, Prefix
    <2>3. DropOneCR(c) = SubSeq(c, 1, Len(c) - 1)
      BY <1>2 DEF DropOneCR, Front
    <2> QED
      BY <2>1, <2>2, <2>3
  <1>3. CASE ~(c # << >> /\ Last(c) = "cr")
    <2>1. DropOneCR(c) = c
      BY <1>3 DEF DropOneCR
    <2> QED
      BY <1>1, <2>1
  <1> QED
    BY <1>2, <1>3

-----------------------------------------------------------------------------
(* What a line should become, read off the buffer.                         *)

(* The line from base on that ends at base + n + 1 with an LF.             *)
LEMMA WholeExpected ==
    ASSUME NEW s \in Seq(Byte), NEW base \in Nat, NEW n \in Nat, n <= MaxLine,
           base + n + 1 <= Len(s), s[base + n + 1] = "lf",
           \A k \in base + 1 .. base + n : s[k] # "lf", who \in {"relay", "pump"}
    PROVE  LET p == Payload(SubSeq(s, base + 1, base + n + 1))
           IN  /\ Expected(who, s, base + 1) = <<p, FALSE>>
               /\ p \in Seq(Byte) /\ Len(p) <= MaxLine
  <1> DEFINE i == base + 1
             e == base + n + 1
             c == SubSeq(s, base + 1, base + n)
             l == SubSeq(s, base + 1, base + (n + 1))
  <1>1. Len(s) \in Nat /\ MaxLine \in Nat
    BY LenProperties, BufSizeIs
  <1>2. /\ i \in 1 .. Len(s) /\ e \in i .. Len(s) + 1 /\ e - 1 = base + n /\ e - i = n
        /\ i + n - 1 = base + n /\ ~(n > MaxLine) /\ i + n <= Len(s)
        /\ base + (n + 1) = e /\ n + 1 \in Nat /\ base + n <= Len(s)
    BY <1>1
  <1>3. ContentLen(s, i) = n
    <2>1. /\ \A k \in i .. e - 1 : s[k] # "lf"
          /\ s[e] = "lf"
      BY <1>2
    <2> HIDE DEF i, e
    <2>2. ContentLen(s, i) = e - i
      BY <1>1, <1>2, <2>1, ContentExact
    <2> QED
      BY <1>2, <2>2
  <1>4. /\ c \in Seq(Byte) /\ Len(c) = n /\ \A k \in 1 .. n : c[k] = s[base + k]
    <2>1. base + n <= Len(s)
      BY <1>2
    <2> QED
      BY <2>1, Slice, Zenon
  <1>5. /\ l \in Seq(Byte) /\ Len(l) = n + 1 /\ \A k \in 1 .. n + 1 : l[k] = s[base + k]
    <2>1. n + 1 \in Nat /\ base + (n + 1) <= Len(s)
      BY <1>1
    <2> QED
      BY <2>1, Slice, Zenon
  <1>6. SubSeq(s, i, i + n - 1) = c /\ SubSeq(s, base + 1, base + n + 1) = l
    BY <1>2
  <1> HIDE DEF c, l
  <1>7. l[Len(l)] = "lf" /\ \A k \in 1 .. Len(c) : l[k] = c[k]
    <2>1. n + 1 \in 1 .. n + 1 /\ \A k \in 1 .. n : k \in 1 .. n + 1
      OBVIOUS
    <2>2. l[n + 1] = s[base + (n + 1)] /\ \A k \in 1 .. n : l[k] = c[k]
      BY <1>4, <1>5, <2>1
    <2> QED
      BY <1>2, <1>4, <1>5, <2>2
  <1>8. TrimRight(l) = TrimRight(c) /\ dropNewline(l) = DropOneCR(c)
    BY <1>4, <1>5, <1>7, LastLF
  <1>9. /\ who = "pump" => Expected(who, s, i) = <<TrimRight(c), FALSE>>
        /\ who # "pump" => Expected(who, s, i) = <<DropOneCR(c), FALSE>>
    <2> HIDE DEF i
    <2>1. /\ ~(n > MaxLine) /\ who = "pump" =>
                Expected(who, s, i) = <<TrimRight(SubSeq(s, i, i + n - 1)), FALSE>>
          /\ ~(n > MaxLine) /\ who # "pump" /\ i + n <= Len(s) =>
                Expected(who, s, i) = <<DropOneCR(SubSeq(s, i, i + n - 1)), FALSE>>
      BY <1>3 DEF Expected
    <2> QED
      BY <1>2, <1>6, <2>1
  <1>10. /\ who = "pump" => Payload(l) = TrimRight(c)
         /\ who # "pump" => Payload(l) = DropOneCR(c)
    BY <1>8 DEF Payload
  <1>11. /\ TrimRight(c) \in Seq(Byte) /\ Len(TrimRight(c)) <= n
         /\ DropOneCR(c) \in Seq(Byte) /\ Len(DropOneCR(c)) <= n
    BY <1>4, Trimmed, Dropped
  <1>12. Expected(who, s, i) = <<Payload(l), FALSE>> /\ Payload(l) \in Seq(Byte) /\ Len(Payload(l)) <= n
    BY <1>9, <1>10, <1>11
  <1>13. Len(Payload(l)) \in Nat
    BY <1>12, LenProperties
  <1>14. Len(Payload(l)) <= MaxLine
    BY <1>1, <1>12, <1>13
  <1> QED
    BY <1>6, <1>12, <1>14

(* The last line, without an LF.                                           *)
LEMMA LastExpected ==
    ASSUME NEW s \in Seq(Byte), NEW base \in Nat, NEW n \in Nat \ {0}, n <= MaxLine,
           base + n = Len(s), \A k \in base + 1 .. base + n : s[k] # "lf",
           who \in {"relay", "pump"}
    PROVE  LET p == Payload(SubSeq(s, base + 1, base + n))
           IN  /\ Expected(who, s, base + 1) = <<p, FALSE>>
               /\ p \in Seq(Byte) /\ Len(p) <= MaxLine
  <1> DEFINE i == base + 1
             e == base + n + 1
             c == SubSeq(s, base + 1, base + n)
  <1>1. Len(s) \in Nat /\ MaxLine \in Nat
    BY LenProperties, BufSizeIs
  <1>2. /\ i \in 1 .. Len(s) /\ e \in i .. Len(s) + 1 /\ e - 1 = base + n /\ e - i = n
        /\ i + n - 1 = base + n /\ ~(n > MaxLine) /\ ~(i + n <= Len(s)) /\ e = Len(s) + 1
        /\ base + n <= Len(s) /\ n \in Nat
    BY <1>1
  <1>3. ContentLen(s, i) = n
    <2>1. \A k \in i .. e - 1 : s[k] # "lf"
      BY <1>2
    <2> HIDE DEF i, e
    <2>2. ContentLen(s, i) = e - i
      BY <1>1, <1>2, <2>1, ContentExact
    <2> QED
      BY <1>2, <2>2
  <1>4. /\ c \in Seq(Byte) /\ Len(c) = n /\ \A k \in 1 .. n : c[k] = s[base + k]
    <2>1. n \in Nat /\ base + n <= Len(s)
      BY <1>2
    <2> QED
      BY <2>1, Slice
  <1>5. SubSeq(s, i, i + n - 1) = c
    BY <1>2
  <1> HIDE DEF c
  <1>6. ASSUME NEW k \in 1 .. Len(c) PROVE c[k] # "lf"
    <2>1. k \in 1 .. n /\ base + k \in base + 1 .. base + n
      BY <1>4
    <2>2. s[base + k] # "lf"
      BY <2>1
    <2> QED
      BY <1>4, <2>1, <2>2
  <1>7. dropNewline(c) = c
    BY <1>4, <1>6, NoLF
  <1>8. /\ who = "pump" => Expected(who, s, i) = <<TrimRight(c), FALSE>>
        /\ who # "pump" => Expected(who, s, i) = <<c, FALSE>>
    <2> HIDE DEF i
    <2>1. /\ ~(n > MaxLine) /\ who = "pump" =>
                Expected(who, s, i) = <<TrimRight(SubSeq(s, i, i + n - 1)), FALSE>>
          /\ ~(n > MaxLine) /\ who # "pump" /\ ~(i + n <= Len(s)) =>
                Expected(who, s, i) = <<SubSeq(s, i, i + n - 1), FALSE>>
      BY <1>3 DEF Expected
    <2> QED
      BY <1>2, <1>5, <2>1
  <1>9. /\ who = "pump" => Payload(c) = TrimRight(c)
        /\ who # "pump" => Payload(c) = c
    BY <1>7 DEF Payload
  <1>10. TrimRight(c) \in Seq(Byte) /\ Len(TrimRight(c)) <= n /\ Len(c) <= n
    BY <1>4, Trimmed
  <1>11. Expected(who, s, i) = <<Payload(c), FALSE>> /\ Payload(c) \in Seq(Byte) /\ Len(Payload(c)) <= n
    BY <1>4, <1>8, <1>9, <1>10
  <1>12. Len(Payload(c)) \in Nat
    BY <1>11, LenProperties
  <1>13. Len(Payload(c)) <= MaxLine
    BY <1>1, <1>11, <1>12
  <1> QED
    BY <1>11, <1>13 DEF c

(* A line longer than the limit.                                           *)
LEMMA LongExpected ==
    ASSUME NEW s \in Seq(Byte), NEW base \in Nat, base + MaxLine + 1 <= Len(s),
           \A k \in base + 1 .. base + MaxLine + 1 : s[k] # "lf"
    PROVE  LET p == SubSeq(s, base + 1, base + MaxLine)
           IN  /\ Expected(who, s, base + 1) = <<p, TRUE>>
               /\ p \in Seq(Byte) /\ Len(p) <= MaxLine
  <1> DEFINE i == base + 1
             e == base + MaxLine + 2
             n == ContentLen(s, i)
             c == SubSeq(s, base + 1, base + n)
             p == SubSeq(s, base + 1, base + MaxLine)
  <1>1. Len(s) \in Nat /\ MaxLine \in Nat
    BY LenProperties, BufSizeIs
  <1>2. /\ i \in 1 .. Len(s) /\ e \in i .. Len(s) + 1 /\ e - 1 = base + MaxLine + 1
        /\ e - i = MaxLine + 1 /\ base + MaxLine <= Len(s)
    BY <1>1
  <1>3. n \in Nat /\ n >= MaxLine + 1 /\ base + n <= Len(s) /\ i + n - 1 = base + n
    <2>1. \A k \in i .. e - 1 : s[k] # "lf"
      BY <1>2
    <2>2. n \in Nat /\ n >= e - i /\ i + n - 1 <= Len(s)
      <3> HIDE DEF i, e
      <3> QED
        BY <1>1, <1>2, <2>1, ContentAtLeast
    <2> HIDE DEF n
    <2> QED
      BY <1>1, <1>2, <2>2
  <1>4. n > MaxLine /\ MaxLine <= n
    <2> HIDE DEF n
    <2> QED
      BY <1>1, <1>3
  <1>5. Expected(who, s, i) = <<SubSeq(SubSeq(s, i, i + n - 1), 1, MaxLine), TRUE>>
    <2> HIDE DEF i
    <2> QED
      BY <1>4 DEF Expected, n
  <1>6. SubSeq(s, i, i + n - 1) = c
    <2> HIDE DEF n
    <2> QED
      BY <1>3
  <1> HIDE DEF n
  <1>7. c \in Seq(Byte) /\ Len(c) = n /\ \A k \in 1 .. n : c[k] = s[base + k]
    <2>1. n \in Nat /\ base + n <= Len(s)
      BY <1>3
    <2> QED
      BY <2>1, Slice, Zenon
  <1>8. p \in Seq(Byte) /\ Len(p) = MaxLine /\ \A k \in 1 .. MaxLine : p[k] = s[base + k]
    <2>1. MaxLine \in Nat /\ base + MaxLine <= Len(s)
      BY <1>1, <1>2
    <2> QED
      BY <2>1, Slice, Zenon
  <1> HIDE DEF c, p
  <1>9. ASSUME NEW k \in 1 .. MaxLine PROVE c[k] = p[k]
    <2>1. k \in 1 .. n
      BY <1>1, <1>3, <1>4
    <2> QED
      BY <1>7, <1>8, <2>1
  <1>10. SubSeq(c, 1, MaxLine) = SubSeq(p, 1, MaxLine)
    BY <1>1, <1>4, <1>7, <1>8, <1>9, PrefixesEqual
  <1>11. SubSeq(p, 1, MaxLine) = p
    <2>1. SubSeq(p, 1, Len(p)) = p
      BY <1>8, SubSeqFull
    <2> QED
      BY <1>8, <2>1
  <1>12. Len(p) <= MaxLine
    BY <1>1, <1>8
  <1> QED
    BY <1>5, <1>6, <1>8, <1>10, <1>11, <1>12 DEF p

(* A record, made of a line by the relay or by the pump.                   *)
LEMMA RecordRight ==
    ASSUME Configured, NEW line \in Seq(Byte), NEW truncated \in BOOLEAN
    PROVE  LET r == Record(line, truncated)
           IN  /\ r \in Recs /\ r.payload = line /\ r.truncated = truncated
               /\ who = "relay" => Enriched(enrich, r)
  <1> DEFINE r == Record(line, truncated)
  <1>1. CASE who = "relay"
    <2>1. r = emit(enrich, line, truncated)
      BY <1>1 DEF Record
    <2>2. enrich \in Enrichments /\ ValidEnrich(enrich)
      BY DEF Configured
    <2>3. /\ r.payload = line /\ r.truncated = truncated
          /\ r.spliced \in BOOLEAN /\ r.keys \in Seq(Names)
          /\ r = [payload |-> r.payload, truncated |-> r.truncated, spliced |-> r.spliced,
                  keys |-> r.keys]
          /\ Enriched(enrich, r)
      BY <2>1, <2>2, EmitRight
    <2> HIDE DEF r
    <2>4. r \in Recs
      BY <2>3 DEF Recs
    <2> QED
      BY <2>3, <2>4 DEF r
  <1>2. CASE who # "relay"
    <2>1. r = [payload |-> line, truncated |-> truncated, spliced |-> FALSE, keys |-> <<"type", "msg">>]
      BY <1>2 DEF Record, logLine
    <2>2. <<"type", "msg">> \in Seq(Names)
      <3>1. "type" \in Names /\ "msg" \in Names
        BY DEF Names
      <3> QED
        BY <3>1, ShortTuples
    <2> HIDE DEF r
    <2>3. FALSE \in BOOLEAN
      OBVIOUS
    <2>4. r \in Recs
      BY <2>1, <2>2, <2>3 DEF Recs
    <2>5. r.payload = line /\ r.truncated = truncated
      BY <2>1
    <2> QED
      BY <1>2, <2>4, <2>5 DEF r
  <1> QED
    BY <1>1, <1>2

-----------------------------------------------------------------------------
(* The buffer as a window of the stream.                                   *)

(* Its numbers.                                                            *)
LEMMA WindowType ==
    ASSUME Configured, Window
    PROVE  /\ stream \in Seq(Byte) /\ buf \in Seq(Byte)
           /\ Len(stream) \in Nat /\ Len(buf) \in Nat /\ pos \in Nat /\ Base \in Nat
           /\ pos <= Len(stream) /\ Base + Len(buf) = pos /\ Base <= pos
  <1>1. stream \in Seq(Byte) /\ buf \in Seq(Byte) /\ pos \in 0 .. Len(stream) /\ Len(buf) <= pos
    BY DEF Configured, Window
  <1>2. Len(stream) \in Nat /\ Len(buf) \in Nat
    BY <1>1, LenProperties
  <1>3. Base = pos - Len(buf)
    BY DEF Base
  <1> QED
    BY <1>1, <1>2, <1>3

(* Its first m bytes.                                                      *)
LEMMA WindowSlice ==
    ASSUME Configured, Window, NEW m \in Nat, m <= Len(buf)
    PROVE  SubSeq(buf, 1, m) = SubSeq(stream, Base + 1, Base + m)
  <1>1. /\ stream \in Seq(Byte) /\ buf \in Seq(Byte) /\ Len(stream) \in Nat /\ Len(buf) \in Nat
        /\ Base \in Nat /\ pos \in Nat /\ pos <= Len(stream) /\ Base + Len(buf) = pos
    BY WindowType
  <1>2. 0 \in Nat /\ 0 + m = m /\ 0 + 1 = 1 /\ Base + m <= Len(stream)
    BY <1>1
  <1>3. ASSUME NEW k \in 1 .. m PROVE buf[0 + k] = stream[Base + k]
    <2>1. k \in 1 .. Len(buf) /\ 0 + k = k
      BY <1>1
    <2> QED
      BY <2>1 DEF Window
  <1>4. SubSeq(buf, 0 + 1, 0 + m) = SubSeq(stream, Base + 1, Base + m)
    BY <1>1, <1>2, <1>3, SlicesEqual
  <1> QED
    BY <1>2, <1>4

(* The line that is in it, if one is.                                      *)
LEMMA LineInWindow ==
    ASSUME Configured, Window, HasLine
    PROVE  /\ LineEnd \in 1 .. Len(buf) /\ stream[Base + LineEnd] = "lf"
           /\ \A k \in Base + 1 .. Base + LineEnd - 1 : stream[k] # "lf"
  <1>1. Len(buf) \in Nat /\ Base \in Nat
    BY WindowType
  <1>2. /\ LineEnd \in 1 .. Len(buf) /\ buf[LineEnd] = "lf"
        /\ \A j \in 1 .. LineEnd - 1 : buf[j] # "lf"
    BY <1>1, LineEndIs
  <1>3. \A i \in 1 .. Len(buf) : buf[i] = stream[Base + i]
    BY DEF Window
  <1>4. ASSUME NEW k \in Base + 1 .. Base + LineEnd - 1 PROVE stream[k] # "lf"
    <2>1. k - Base \in 1 .. LineEnd - 1 /\ k - Base \in 1 .. Len(buf) /\ Base + (k - Base) = k
      BY <1>1, <1>2
    <2>2. buf[k - Base] # "lf" /\ buf[k - Base] = stream[Base + (k - Base)]
      BY <1>2, <1>3, <2>1
    <2> QED
      BY <2>1, <2>2
  <1> QED
    BY <1>2, <1>3, <1>4

(* If none is, there is no LF up to where the stream has been read.        *)
LEMMA NoLineInWindow ==
    ASSUME Configured, Window, ~HasLine
    PROVE  \A k \in Base + 1 .. pos : stream[k] # "lf"
  <1>1. Len(buf) \in Nat /\ Base \in Nat /\ pos \in Nat /\ Base + Len(buf) = pos
    BY WindowType
  <1>2. \A i \in 1 .. Len(buf) : buf[i] = stream[Base + i] /\ buf[i] # "lf"
    BY DEF Window, HasLine
  <1>3. ASSUME NEW k \in Base + 1 .. pos PROVE stream[k] # "lf"
    <2>1. k - Base \in 1 .. Len(buf) /\ Base + (k - Base) = k
      BY <1>1
    <2> QED
      BY <1>2, <2>1
  <1> QED
    BY <1>3

(* Taking bytes from it.                                                   *)
LEMMA WindowTake ==
    ASSUME Configured, Window, NEW m \in Nat, m <= Len(buf), buf' = SubSeq(buf, m + 1, Len(buf)),
           stream' = stream, pos' = pos, ended' = ended
    PROVE  Window' /\ Base' = Base + m /\ Base' \in Nat /\ Base' <= Len(stream)
  <1> DEFINE b == Base
             l == Len(buf)
             r == l - m
  <1>1. /\ stream \in Seq(Byte) /\ buf \in Seq(Byte) /\ Len(stream) \in Nat /\ l \in Nat
        /\ b \in Nat /\ pos \in Nat /\ pos <= Len(stream) /\ b + l = pos
    BY WindowType
  <1>2. r \in Nat /\ m + r = l /\ m + r <= Len(buf)
    BY <1>1
  <1>3. /\ buf' \in Seq(Byte) /\ Len(buf') = r
        /\ \A k \in 1 .. r : buf'[k] = buf[m + k]
    <2> HIDE DEF r
    <2>1. buf' = SubSeq(buf, m + 1, m + r)
      BY <1>2
    <2> QED
      BY <1>1, <1>2, <2>1, Slice
  <1>4. Base' = b + m
    <2>1. Base' = pos - Len(buf')
      BY DEF Base
    <2> HIDE DEF b, l
    <2> QED
      BY <1>1, <1>2, <1>3, <2>1
  <1>5. ASSUME NEW k \in 1 .. Len(buf') PROVE buf'[k] = stream[Base' + k]
    <2> HIDE DEF b, l
    <2>1. k \in 1 .. r /\ m + k \in 1 .. l /\ b + (m + k) = Base' + k
      BY <1>1, <1>2, <1>3, <1>4
    <2>2. buf[m + k] = stream[b + (m + k)]
      BY <2>1 DEF Window, b, l
    <2> QED
      BY <1>3, <2>1, <2>2
  <1>6. r <= l /\ r <= pos
    <2> HIDE DEF b, l
    <2> QED
      BY <1>1, <1>2
  <1>7. l <= BufSize /\ ended \in BOOLEAN /\ (ended => pos = Len(stream) /\ l <= MaxLine)
        /\ pos \in 0 .. Len(stream)
    BY DEF Window
  <1>8. MaxLine \in Nat /\ BufSize \in Nat
    BY BufSizeIs
  <1>9. r <= BufSize /\ (ended => r <= MaxLine)
    <2> HIDE DEF l, r
    <2> QED
      BY <1>1, <1>2, <1>6, <1>7, <1>8
  <1>10. Window'
    <2> HIDE DEF l, r, b
    <2> QED
      BY <1>3, <1>5, <1>6, <1>7, <1>9 DEF Window
  <1>11. b + m \in Nat /\ b + m <= Len(stream)
    <2> HIDE DEF l, r, b
    <2> QED
      BY <1>1, <1>2
  <1> QED
    BY <1>4, <1>10, <1>11

(* Emptying it.                                                            *)
LEMMA WindowEmpty ==
    ASSUME Configured, Window, buf' = << >>, stream' = stream, pos' = pos, ended' = ended
    PROVE  Window' /\ Base' = pos
  <1>1. buf \in Seq(Byte) /\ Len(buf) \in Nat /\ Base + Len(buf) = pos
    BY WindowType
  <1>2. Len(buf) + 1 \in Int /\ Len(buf) \in Int /\ Len(buf) < Len(buf) + 1 /\ Len(buf) <= Len(buf)
    BY <1>1
  <1>3. buf' = SubSeq(buf, Len(buf) + 1, Len(buf))
    BY <1>2, SubSeqEmpty
  <1>4. Window' /\ Base' = Base + Len(buf)
    BY <1>1, <1>2, <1>3, WindowTake
  <1> QED
    BY <1>1, <1>4

-----------------------------------------------------------------------------
(* The invariant holds.                                                    *)

(* A record more, for the line that begins behind what has been taken.     *)
LEMMA Written ==
    ASSUME Configured, Window, Counted, Recorded, at = "line", Base + 1 \in LineStarts(stream),
           NEW r \in Recs, Matches(r, Expected(who, stream, Base + 1)), Len(r.payload) <= MaxLine,
           who = "relay" => Enriched(enrich, r), out' = Append(out, r),
           stream' = stream, who' = who, enrich' = enrich
    PROVE  Recorded' /\ Len(out') = LinesBegun(stream, Base + 1) /\ Len(out') \in Nat
  <1> DEFINE n == Len(out)
             i0 == Base + 1
  <1>1. out \in Seq(Recs) /\ n = LinesBegun(stream, Base)
    BY DEF Recorded, Counted
  <1>2. Len(stream) \in Nat /\ Base \in Nat
    BY WindowType
  <1>3. n \in Nat
    BY <1>1, LenProperties
  <1>4. LinesBegun(stream, i0) = n + 1
    BY <1>1, <1>2, OneBegun
  <1>5. /\ out' \in Seq(Recs) /\ Len(out') = n + 1
        /\ \A k \in 1 .. n : out'[k] = out[k]
        /\ out'[n + 1] = r
    BY <1>1, AppendProperties
  <1>6. ASSUME NEW k \in 1 .. Len(out')
        PROVE  Len(out'[k].payload) <= MaxLine /\ (who = "relay" => Enriched(enrich, out'[k]))
    <2>1. CASE k = n + 1
      BY <1>5, <2>1
    <2>2. CASE k # n + 1
      <3>1. k \in 1 .. n
        BY <1>3, <1>5, <2>2
      <3>2. Len(out[k].payload) <= MaxLine /\ (who = "relay" => Enriched(enrich, out[k]))
        BY <3>1 DEF Recorded
      <3> QED
        BY <1>5, <3>1, <3>2
    <2> QED
      BY <2>1, <2>2
  <1>7. ASSUME NEW i \in LineStarts(stream), LinesBegun(stream, i) <= Len(out')
        PROVE  Matches(out'[LinesBegun(stream, i)], Expected(who, stream, i))
    <2> DEFINE c == LinesBegun(stream, i)
    <2>1. i \in Nat /\ i \in Int /\ 0 < i /\ 0 \in Nat
      BY DEF LineStarts
    <2>2. c \in Nat /\ c >= 1
      <3>1. c \in Nat
        BY <1>2, <2>1, BegunType, Zenon
      <3>2. c >= LinesBegun(stream, 0) + 1
        BY <1>2, <2>1, SomeBegun
      <3>3. LinesBegun(stream, 0) = 0
        BY <1>2, BegunEnds
      <3> QED
        BY <3>1, <3>2, <3>3
    <2>3. CASE c = n + 1
      <3>1. i = i0
        BY <1>2, <1>4, <2>3, NumberIsOwn
      <3> QED
        BY <1>5, <2>3, <3>1
    <2>4. CASE c # n + 1
      <3>1. c <= n /\ c \in 1 .. n
        <4> HIDE DEF c, n
        <4>1. c <= n + 1
          BY <1>5, <1>7 DEF c
        <4> QED
          BY <1>3, <2>2, <2>4, <4>1
      <3>2. Matches(out[c], Expected(who, stream, i))
        BY <3>1 DEF Recorded
      <3> QED
        BY <1>5, <3>1, <3>2
    <2> QED
      BY <2>3, <2>4
  <1>8. Recorded'
    BY <1>5, <1>6, <1>7 DEF Recorded
  <1> QED
    BY <1>3, <1>4, <1>5, <1>8

(* A write that succeeds, or one that fails and ends the handler: what the *)
(* step leaves, given the number of the lines begun where it stands then.  *)
LEMMA WriteKeeps ==
    ASSUME IInv, at = "line", Base + 1 \in LineStarts(stream),
           NEW line \in Seq(Byte), Len(line) <= MaxLine, NEW truncated \in BOOLEAN,
           Expected(who, stream, Base + 1) = <<line, truncated>>,
           NEW point \in {"line", "discard", "done"}, Write(Record(line, truncated), point),
           stream' = stream, who' = who, enrich' = enrich,
           point # "done" => LinesBegun(stream, Base') = LinesBegun(stream, Base + 1),
           point = "done" => LinesBegun(stream, Base + 1) = Cardinality(LineStarts(stream))
    PROVE  /\ Recorded' /\ Counted'
           /\ at' \in {point, "done"} /\ failed' \in BOOLEAN
  <1> DEFINE r == Record(line, truncated)
  <1>1. Configured /\ Window /\ Counted /\ Recorded /\ failed \in BOOLEAN
    BY DEF IInv, Standing
  <1>2. Len(stream) \in Nat /\ Base \in Nat /\ Base + 1 \in Int
    BY <1>1, WindowType
  <1>3. /\ r \in Recs /\ r.payload = line /\ r.truncated = truncated
        /\ who = "relay" => Enriched(enrich, r)
    BY <1>1, RecordRight
  <1>4. LinesBegun(stream, Base + 1) <= Cardinality(LineStarts(stream))
    BY <1>2, BegunType
  <1> HIDE DEF r
  <1>5. Matches(r, Expected(who, stream, Base + 1)) /\ Len(r.payload) <= MaxLine
    BY <1>3 DEF Matches
  <1>6. CASE out' = Append(out, r) /\ at' = point /\ failed' = failed
    <2>1. Recorded' /\ Len(out') = LinesBegun(stream, Base + 1)
      BY <1>1, <1>3, <1>5, <1>6, Written
    <2>2. /\ at' # "done" => Len(out') = LinesBegun(stream, Base')
          /\ at' = "done" => Len(out') = Cardinality(LineStarts(stream))
      BY <1>6, <2>1
    <2>3. Len(out') <= Cardinality(LineStarts(stream))
      BY <1>4, <2>1
    <2>4. Counted'
      BY <2>2, <2>3 DEF Counted
    <2> QED
      BY <1>1, <1>6, <2>1, <2>4
  <1>7. CASE failed' = TRUE /\ at' = "done" /\ out' = out
    <2>1. Recorded'
      BY <1>1, <1>7 DEF Recorded
    <2>2. Counted'
      <3>1. Len(out') <= Cardinality(LineStarts(stream))
        BY <1>1, <1>7 DEF Counted
      <3> QED
        BY <1>7, <3>1 DEF Counted
    <2>3. failed' \in BOOLEAN
      BY <1>7, Zenon
    <2> QED
      BY <1>7, <2>1, <2>2, <2>3
  <1> QED
    BY <1>6, <1>7 DEF Write, r

(* Where a line is read, one begins if the stream goes on.                 *)
LEMMA LineBegins ==
    ASSUME IInv, at = "line", Base + 1 <= Len(stream)
    PROVE  Base + 1 \in LineStarts(stream)
  <1>1. Len(stream) \in Nat /\ Base \in Nat /\ (Base = 0 \/ stream[Base] = "lf")
    BY WindowType DEF IInv, Standing
  <1>2. Base + 1 \in 1 .. Len(stream) /\ (Base + 1) - 1 = Base
    BY <1>1
  <1>3. Base + 1 = 1 \/ stream[(Base + 1) - 1] = "lf"
    BY <1>1, <1>2
  <1> QED
    BY <1>2, <1>3 DEF LineStarts

(* It holds at the start.                                                  *)
LEMMA InitIInv == Init => IInv
  <1> SUFFICES ASSUME Init PROVE IInv
    OBVIOUS
  <1>1. Configured
    <2>1. stream \in Seq(Byte)
      BY RelayAssumption DEF Init, Byte
    <2>2. who \in {"relay", "pump"}
      BY DEF Init
    <2>3. enrich \in Enrichments /\ ValidEnrich(enrich)
      <3>1. CASE who = "relay"
        BY <3>1 DEF Init
      <3>2. CASE who # "relay"
        <4>1. enrich = NoEnrich
          BY <3>2 DEF Init
        <4>2. NoEnrich \in Enrichments
          BY DEF Enrichments
        <4>3. ValidEnrich(NoEnrich)
          BY DEF ValidEnrich, NoEnrich
        <4> QED
          BY <4>1, <4>2, <4>3
      <3> QED
        BY <3>1, <3>2
    <2> QED
      BY <2>1, <2>2, <2>3 DEF Configured
  <1>2. stream \in Seq(Byte) /\ Len(stream) \in Nat
    BY <1>1, LenProperties DEF Configured
  <1>3. /\ pos = 0 /\ buf = << >> /\ ended = FALSE /\ at = "line" /\ out = << >> /\ failed = FALSE
    BY DEF Init
  <1>4. /\ buf \in Seq(Byte) /\ Len(buf) = 0 /\ out \in Seq(Recs) /\ Len(out) = 0
    BY <1>3, EmptySeq
  <1>5. Base = 0
    <2>1. Base = pos - Len(buf) /\ 0 - 0 = 0
      BY DEF Base
    <2>2. pos = 0 /\ Len(buf) = 0
      BY <1>3, <1>4
    <2> QED
      BY <2>1, <2>2
  <1>6. ended \in BOOLEAN /\ failed \in BOOLEAN
    BY <1>3, Zenon
  <1>7. BufSize \in Nat
    BY BufSizeIs
  <1>8. Window
    <2>1. pos \in 0 .. Len(stream) /\ Len(buf) <= pos /\ Len(buf) <= BufSize
      BY <1>2, <1>3, <1>4, <1>7
    <2>2. ASSUME NEW i \in 1 .. Len(buf) PROVE FALSE
      BY <1>4
    <2> QED
      BY <1>3, <1>4, <1>6, <2>1, <2>2 DEF Window
  <1>9. Standing
    BY <1>3, <1>5, <1>6 DEF Standing
  <1>10. LinesBegun(stream, 0) = 0 /\ Cardinality(LineStarts(stream)) \in Nat
    <2>1. LinesBegun(stream, 0) = 0
      BY <1>2, BegunEnds
    <2>2. 0 \in Int
      OBVIOUS
    <2>3. Cardinality(LineStarts(stream)) \in Nat
      BY <1>2, <2>2, BegunType, Zenon
    <2> QED
      BY <2>1, <2>3
  <1>11. Counted
    BY <1>3, <1>4, <1>5, <1>10 DEF Counted
  <1>12. Recorded
    <2>1. ASSUME NEW k \in 1 .. Len(out) PROVE FALSE
      BY <1>4
    <2>2. ASSUME NEW i \in LineStarts(stream), LinesBegun(stream, i) <= Len(out) PROVE FALSE
      <3>1. i \in Nat /\ i \in Int /\ 0 < i /\ 0 \in Nat
        BY DEF LineStarts
      <3>2. LinesBegun(stream, i) >= LinesBegun(stream, 0) + 1
        BY <1>2, <3>1, SomeBegun
      <3>3. LinesBegun(stream, i) \in Nat
        BY <1>2, <3>1, BegunType, Zenon
      <3> QED
        BY <1>4, <1>10, <2>2, <3>2, <3>3
    <2> QED
      BY <1>4, <2>1, <2>2 DEF Recorded
  <1> QED
    BY <1>1, <1>8, <1>9, <1>11, <1>12 DEF IInv

(* A read adds to the window and takes nothing from it.                    *)
LEMMA FillStep ==
    ASSUME IInv, NEW n \in 1 .. BufSize, Fill(n)
    PROVE  IInv'
  <1> DEFINE b == Base
             l == Len(buf)
             q == SubSeq(stream, pos + 1, pos + n)
  <1>1. Configured /\ Window /\ Standing /\ Counted /\ Recorded
    BY DEF IInv
  <1>2. /\ ~ended /\ pos + n <= Len(stream) /\ l + n <= BufSize /\ buf' = buf \o q /\ pos' = pos + n
        /\ stream' = stream /\ ended' = ended /\ at' = at /\ who' = who /\ enrich' = enrich
        /\ out' = out /\ failed' = failed
    BY DEF Fill, Wanting
  <1>3. /\ stream \in Seq(Byte) /\ buf \in Seq(Byte) /\ Len(stream) \in Nat /\ l \in Nat
        /\ pos \in Nat /\ b \in Nat /\ b + l = pos
    BY <1>1, WindowType
  <1>4. n \in Nat
    BY BufSizeIs
  <1>5. q \in Seq(Byte) /\ Len(q) = n /\ \A k \in 1 .. n : q[k] = stream[pos + k]
    BY <1>2, <1>3, <1>4, Slice
  <1> HIDE DEF q
  <1>6. /\ buf' \in Seq(Byte) /\ Len(buf') = l + n
        /\ \A i \in 1 .. l + n : buf'[i] = IF i <= l THEN buf[i] ELSE q[i - l]
    BY <1>2, <1>3, <1>5, ConcatProperties
  <1>7. Base' = b
    <2>1. Base' = pos' - Len(buf')
      BY DEF Base
    <2> HIDE DEF b, l
    <2> QED
      BY <1>2, <1>3, <1>4, <1>6, <2>1
  <1>8. ASSUME NEW i \in 1 .. Len(buf') PROVE buf'[i] = stream[Base' + i]
    <2>1. CASE i <= l
      <3>1. i \in 1 .. l /\ i \in 1 .. l + n
        BY <1>3, <1>4, <1>6, <2>1
      <3>2. buf[i] = stream[b + i]
        BY <1>1, <3>1 DEF Window
      <3> QED
        BY <1>6, <1>7, <2>1, <3>1, <3>2
    <2>2. CASE ~(i <= l)
      <3> HIDE DEF b, l
      <3>1. i \in 1 .. l + n /\ i - l \in 1 .. n /\ pos + (i - l) = b + i
        BY <1>3, <1>4, <1>6, <2>2
      <3>2. buf'[i] = q[i - l] /\ q[i - l] = stream[pos + (i - l)]
        BY <1>5, <1>6, <2>2, <3>1
      <3> QED
        BY <1>7, <3>1, <3>2
    <2> QED
      BY <2>1, <2>2
  <1>9. pos' \in 0 .. Len(stream) /\ Len(buf') <= pos' /\ Len(buf') <= BufSize
    <2> HIDE DEF b, l
    <2> QED
      BY <1>2, <1>3, <1>4, <1>6
  <1>10. ended' \in BOOLEAN /\ ~ended'
    BY <1>1, <1>2 DEF Window
  <1>11. Window'
    BY <1>2, <1>6, <1>8, <1>9, <1>10 DEF Window
  <1>12. Configured' /\ Recorded'
    BY <1>1, <1>2 DEF Configured, Recorded
  <1>13. Standing' /\ Counted'
    BY <1>1, <1>2, <1>7 DEF Standing, Counted
  <1> QED
    BY <1>11, <1>12, <1>13 DEF IInv

(* The read that fails leaves less than a full buffer.                     *)
LEMMA EndsStep ==
    ASSUME IInv, ReadEnds
    PROVE  IInv'
  <1>1. Configured /\ Window /\ Standing /\ Counted /\ Recorded
    BY DEF IInv
  <1>2. /\ Len(buf) < BufSize /\ pos = Len(stream) /\ ended' = TRUE /\ buf' = buf /\ pos' = pos
        /\ stream' = stream /\ at' = at /\ who' = who /\ enrich' = enrich /\ out' = out /\ failed' = failed
    BY DEF ReadEnds, Wanting
  <1>3. Base' = Base
    BY <1>2 DEF Base
  <1>4. Len(buf) \in Nat /\ MaxLine \in Nat /\ BufSize = MaxLine + 1
    BY <1>1, WindowType, BufSizeIs
  <1>5. Len(buf) <= MaxLine
    BY <1>2, <1>4
  <1>6. ended' \in BOOLEAN
    BY <1>2, Zenon
  <1>7. Window'
    BY <1>1, <1>2, <1>3, <1>5, <1>6 DEF Window
  <1>8. Configured' /\ Recorded'
    BY <1>1, <1>2 DEF Configured, Recorded
  <1>9. Standing' /\ Counted'
    BY <1>1, <1>2, <1>3 DEF Standing, Counted
  <1> QED
    BY <1>7, <1>8, <1>9 DEF IInv

(* A whole line becomes its record.                                        *)
LEMMA WholeStep ==
    ASSUME IInv, WholeLine
    PROVE  IInv'
  <1> DEFINE b == Base
             e == LineEnd
             n == e - 1
  <1>1. Configured /\ Window /\ Standing /\ Counted /\ Recorded /\ who \in {"relay", "pump"}
    BY DEF IInv, Configured
  <1>2. /\ at = "line" /\ HasLine /\ Write(Record(Payload(SubSeq(buf, 1, e)), FALSE), "line")
        /\ buf' = SubSeq(buf, e + 1, Len(buf)) /\ stream' = stream /\ pos' = pos /\ ended' = ended
        /\ who' = who /\ enrich' = enrich
    BY DEF WholeLine
  <1>3. /\ stream \in Seq(Byte) /\ buf \in Seq(Byte) /\ Len(stream) \in Nat /\ Len(buf) \in Nat
        /\ pos \in Nat /\ b \in Nat /\ pos <= Len(stream) /\ b + Len(buf) = pos
    BY <1>1, WindowType
  <1>4. /\ e \in 1 .. Len(buf) /\ stream[b + e] = "lf"
        /\ \A k \in b + 1 .. b + e - 1 : stream[k] # "lf"
    BY <1>1, <1>2, LineInWindow
  <1>5. Len(buf) <= BufSize /\ BufSize = MaxLine + 1 /\ MaxLine \in Nat
    BY <1>1, BufSizeIs DEF Window
  <1> HIDE DEF b, e
  <1>6. /\ e \in Nat /\ e <= Len(buf) /\ n \in Nat /\ n <= MaxLine /\ b + n + 1 = b + e
        /\ b + n = b + e - 1 /\ b + e <= Len(stream) /\ b + 1 <= Len(stream)
        /\ b + 1 \in Nat /\ b + e \in Nat /\ 1 <= b + 1 /\ b + 1 <= b + e
    BY <1>3, <1>4, <1>5
  <1>7. SubSeq(buf, 1, e) = SubSeq(stream, b + 1, b + e)
    BY <1>1, <1>6, WindowSlice DEF b
  <1> DEFINE p == Payload(SubSeq(stream, b + 1, b + e))
  <1>8. Expected(who, stream, b + 1) = <<p, FALSE>> /\ p \in Seq(Byte) /\ Len(p) <= MaxLine
    <2>1. /\ n \in Nat /\ n <= MaxLine /\ b + n + 1 <= Len(stream) /\ stream[b + n + 1] = "lf"
          /\ \A k \in b + 1 .. b + n : stream[k] # "lf"
      BY <1>4, <1>6
    <2> HIDE DEF n
    <2>2. LET x == Payload(SubSeq(stream, b + 1, b + n + 1))
          IN  Expected(who, stream, b + 1) = <<x, FALSE>> /\ x \in Seq(Byte) /\ Len(x) <= MaxLine
      BY <1>1, <1>3, <2>1, WholeExpected
    <2> QED
      BY <1>6, <2>2
  <1> HIDE DEF p
  <1>9. Window' /\ Base' = b + e
    BY <1>1, <1>2, <1>6, WindowTake DEF b, e
  <1>10. LinesBegun(stream, b + e) = LinesBegun(stream, b + 1)
    BY <1>3, <1>4, <1>6, WithinLine
  <1>11. Recorded' /\ Counted' /\ at' \in {"line", "done"} /\ failed' \in BOOLEAN
    <2>1. Base + 1 \in LineStarts(stream)
      BY <1>2, <1>6, LineBegins DEF b
    <2>2. Write(Record(p, FALSE), "line")
      BY <1>2, <1>7 DEF p
    <2>3. Expected(who, stream, Base + 1) = <<p, FALSE>>
      BY <1>8 DEF b
    <2>4. LinesBegun(stream, Base') = LinesBegun(stream, Base + 1)
      BY <1>9, <1>10 DEF b
    <2>5. FALSE \in BOOLEAN /\ "line" \in {"line", "discard", "done"} /\ "line" # "done"
      OBVIOUS
    <2> QED
      BY <1>2, <1>8, <2>1, <2>2, <2>3, <2>4, <2>5, WriteKeeps
  <1>12. Standing'
    <2>1. stream'[Base'] = "lf"
      BY <1>2, <1>4, <1>9
    <2> QED
      BY <1>11, <2>1 DEF Standing
  <1>13. Configured'
    BY <1>1, <1>2 DEF Configured
  <1> QED
    BY <1>9, <1>11, <1>12, <1>13 DEF IInv

(* The last line, or nothing, ends the loop.                               *)
LEMMA LastStep ==
    ASSUME IInv, LastLine
    PROVE  IInv'
  <1> DEFINE b == Base
             n == Len(buf)
  <1>1. Configured /\ Window /\ Standing /\ Counted /\ Recorded /\ who \in {"relay", "pump"}
    BY DEF IInv, Configured
  <1>2. /\ at = "line" /\ ~HasLine /\ ended /\ buf' = << >>
        /\ stream' = stream /\ pos' = pos /\ ended' = ended /\ who' = who /\ enrich' = enrich
        /\ buf # << >> => Write(Record(Payload(buf), FALSE), "done")
        /\ buf = << >> => at' = "done" /\ out' = out /\ failed' = failed
    BY DEF LastLine
  <1>3. /\ stream \in Seq(Byte) /\ buf \in Seq(Byte) /\ Len(stream) \in Nat /\ n \in Nat
        /\ pos \in Nat /\ b \in Nat /\ b + n = pos
    BY <1>1, WindowType
  <1>4. pos = Len(stream) /\ n <= MaxLine
    BY <1>1, <1>2 DEF Window
  <1>5. Window'
    BY <1>1, <1>2, WindowEmpty
  <1>6. LinesBegun(stream, Len(stream)) = Cardinality(LineStarts(stream))
    BY <1>3, BegunEnds
  <1>7. CASE buf = << >>
    <2>1. n = 0
      BY <1>7, EmptySeq
    <2>2. b = Len(stream)
      <3> HIDE DEF b, n
      <3> QED
        BY <1>3, <1>4, <2>1
    <2>3. Len(out) = LinesBegun(stream, b)
      BY <1>1, <1>2 DEF Counted
    <2>4. Len(out) = Cardinality(LineStarts(stream)) /\ Len(out) <= Cardinality(LineStarts(stream))
      BY <1>1, <1>6, <2>2, <2>3 DEF Counted
    <2>5. Counted' /\ Recorded'
      BY <1>1, <1>2, <1>7, <2>4 DEF Counted, Recorded
    <2>6. Standing' /\ Configured'
      BY <1>1, <1>2, <1>7 DEF Standing, Configured
    <2> QED
      BY <1>5, <2>5, <2>6 DEF IInv
  <1>8. CASE buf # << >>
    <2>1. n \in Nat \ {0}
      BY <1>3, <1>8, EmptySeq
    <2>2. /\ b + 1 <= Len(stream) /\ b + n = Len(stream) /\ b + 1 \in Nat /\ b + n \in Nat
          /\ 1 <= b + 1 /\ b + 1 <= b + n /\ n <= n
      <3> HIDE DEF b, n
      <3> QED
        BY <1>3, <1>4, <2>1
    <2>3. \A k \in b + 1 .. b + n : stream[k] # "lf"
      <3>1. \A k \in b + 1 .. pos : stream[k] # "lf"
        BY <1>1, <1>2, NoLineInWindow
      <3> QED
        BY <1>3, <3>1
    <2>4. buf = SubSeq(stream, b + 1, b + n)
      <3>1. SubSeq(buf, 1, n) = SubSeq(stream, b + 1, b + n)
        BY <1>1, <1>3, <2>2, WindowSlice
      <3>2. SubSeq(buf, 1, n) = buf
        BY <1>3, SubSeqFull
      <3> QED
        BY <3>1, <3>2
    <2> DEFINE p == Payload(buf)
    <2>5. Expected(who, stream, b + 1) = <<p, FALSE>> /\ p \in Seq(Byte) /\ Len(p) <= MaxLine
      <3> HIDE DEF n, b
      <3>1. LET x == Payload(SubSeq(stream, b + 1, b + n))
            IN  Expected(who, stream, b + 1) = <<x, FALSE>> /\ x \in Seq(Byte) /\ Len(x) <= MaxLine
        BY <1>1, <1>3, <1>4, <2>1, <2>2, <2>3, LastExpected
      <3> QED
        BY <2>4, <3>1
    <2> HIDE DEF p
    <2>6. LinesBegun(stream, b + 1) = Cardinality(LineStarts(stream))
      <3> HIDE DEF n, b
      <3>1. \A k \in b + 1 .. (b + n) - 1 : stream[k] # "lf"
        BY <1>3, <2>1, <2>3
      <3>2. LinesBegun(stream, b + n) = LinesBegun(stream, b + 1)
        BY <1>3, <2>2, <3>1, WithinLine
      <3> QED
        BY <1>6, <2>2, <3>2
    <2>7. Recorded' /\ Counted' /\ at' \in {"done", "done"} /\ failed' \in BOOLEAN
      <3>1. Base + 1 \in LineStarts(stream)
        BY <1>2, <2>2, LineBegins
      <3>2. Write(Record(p, FALSE), "done")
        BY <1>2, <1>8 DEF p
      <3>3. Expected(who, stream, Base + 1) = <<p, FALSE>>
        BY <2>5
      <3>4. LinesBegun(stream, Base + 1) = Cardinality(LineStarts(stream))
        BY <2>6
      <3>5. FALSE \in BOOLEAN /\ "done" \in {"line", "discard", "done"}
        OBVIOUS
      <3> QED
        BY <1>2, <2>5, <3>1, <3>2, <3>3, <3>4, <3>5, WriteKeeps
    <2>8. Standing' /\ Configured'
      BY <1>1, <1>2, <2>7 DEF Standing, Configured
    <2> QED
      BY <1>5, <2>7, <2>8 DEF IInv
  <1> QED
    BY <1>7, <1>8

(* An over-long line is cut, flagged, and discarded from there.            *)
LEMMA LongStep ==
    ASSUME IInv, LongLine
    PROVE  IInv'
  <1> DEFINE b == Base
             m == MaxLine
  <1>1. Configured /\ Window /\ Standing /\ Counted /\ Recorded /\ who \in {"relay", "pump"}
    BY DEF IInv, Configured
  <1>2. /\ at = "line" /\ ~HasLine /\ Len(buf) >= BufSize /\ buf' = << >>
        /\ Write(Record(SubSeq(buf, 1, MaxLine), TRUE), "discard")
        /\ stream' = stream /\ pos' = pos /\ ended' = ended /\ who' = who /\ enrich' = enrich
    BY DEF LongLine, Full
  <1>3. /\ stream \in Seq(Byte) /\ buf \in Seq(Byte) /\ Len(stream) \in Nat /\ Len(buf) \in Nat
        /\ pos \in Nat /\ b \in Nat /\ pos <= Len(stream) /\ b + Len(buf) = pos
    BY <1>1, WindowType
  <1>4. Len(buf) <= BufSize /\ BufSize = m + 1 /\ m \in Nat
    BY <1>1, BufSizeIs DEF Window
  <1> HIDE DEF b
  <1>5. /\ Len(buf) = m + 1 /\ m <= Len(buf) /\ pos = b + m + 1 /\ b + m + 1 <= Len(stream)
        /\ b + 1 <= Len(stream) /\ b + 1 \in Nat /\ 1 <= b + 1 /\ b + 1 <= pos
        /\ pos > 0 /\ pos \in b + 1 .. pos
    BY <1>2, <1>3, <1>4
  <1>6. \A k \in b + 1 .. pos : stream[k] # "lf"
    BY <1>1, <1>2, NoLineInWindow DEF b
  <1>7. SubSeq(buf, 1, m) = SubSeq(stream, b + 1, b + m)
    BY <1>1, <1>4, <1>5, WindowSlice DEF b
  <1> DEFINE p == SubSeq(stream, b + 1, b + MaxLine)
  <1>8. Expected(who, stream, b + 1) = <<p, TRUE>> /\ p \in Seq(Byte) /\ Len(p) <= MaxLine
    BY <1>3, <1>5, <1>6, LongExpected
  <1> HIDE DEF p
  <1>9. Window' /\ Base' = pos
    BY <1>1, <1>2, WindowEmpty
  <1>10. LinesBegun(stream, pos) = LinesBegun(stream, b + 1)
    <2>1. \A k \in b + 1 .. pos - 1 : stream[k] # "lf"
      BY <1>3, <1>6
    <2> QED
      BY <1>3, <1>5, <2>1, WithinLine
  <1>11. Recorded' /\ Counted' /\ at' \in {"discard", "done"} /\ failed' \in BOOLEAN
    <2>1. Base + 1 \in LineStarts(stream)
      BY <1>2, <1>5, LineBegins DEF b
    <2>2. Write(Record(p, TRUE), "discard")
      BY <1>2, <1>7 DEF p
    <2>3. Expected(who, stream, Base + 1) = <<p, TRUE>>
      BY <1>8 DEF b
    <2>4. LinesBegun(stream, Base') = LinesBegun(stream, Base + 1)
      BY <1>9, <1>10 DEF b
    <2>5. TRUE \in BOOLEAN /\ "discard" \in {"line", "discard", "done"} /\ "discard" # "done"
      OBVIOUS
    <2> QED
      BY <1>2, <1>8, <2>1, <2>2, <2>3, <2>4, <2>5, WriteKeeps
  <1>12. Standing'
    <2>1. stream'[Base'] # "lf" /\ Base' > 0
      BY <1>2, <1>5, <1>6, <1>9
    <2> QED
      BY <1>11, <2>1 DEF Standing
  <1>13. Configured'
    BY <1>1, <1>2 DEF Configured
  <1> QED
    BY <1>9, <1>11, <1>12, <1>13 DEF IInv

(* Discarding stays within the line, and ends with it.                     *)
LEMMA DiscardStep ==
    ASSUME IInv, discardToNewline
    PROVE  IInv'
  <1> DEFINE b == Base
             e == LineEnd
  <1>1. Configured /\ Window /\ Standing /\ Counted /\ Recorded
    BY DEF IInv
  <1>2. /\ at = "discard" /\ stream' = stream /\ pos' = pos /\ ended' = ended /\ who' = who
        /\ enrich' = enrich /\ out' = out /\ failed' = failed
    BY DEF discardToNewline
  <1>3. /\ Len(stream) \in Nat /\ Len(buf) \in Nat
        /\ pos \in Nat /\ b \in Nat /\ pos <= Len(stream) /\ b + Len(buf) = pos /\ b <= pos
    BY <1>1, WindowType
  <1>4. b > 0 /\ stream[b] # "lf" /\ Len(out) = LinesBegun(stream, b)
    BY <1>1, <1>2 DEF Standing, Counted
  <1>5. Configured' /\ Recorded'
    BY <1>1, <1>2 DEF Configured, Recorded
  <1>6. Len(out) <= Cardinality(LineStarts(stream)) /\ failed \in BOOLEAN
    BY <1>1 DEF Counted, Standing
  <1> HIDE DEF b
  <1>7. CASE HasLine /\ buf' = SubSeq(buf, e + 1, Len(buf)) /\ at' = "line"
    <2>1. /\ e \in 1 .. Len(buf) /\ stream[b + e] = "lf"
          /\ \A k \in b + 1 .. b + e - 1 : stream[k] # "lf"
      BY <1>1, <1>7, LineInWindow DEF b
    <2> HIDE DEF e
    <2>2. e \in Nat /\ e <= Len(buf) /\ 1 <= b /\ b <= b + e /\ b + e \in Nat
      BY <1>3, <1>4, <2>1
    <2>3. Window' /\ Base' = b + e
      BY <1>1, <1>2, <1>7, <2>2, WindowTake DEF b, e
    <2>4. ASSUME NEW k \in b .. (b + e) - 1 PROVE stream[k] # "lf"
      <3>1. k = b \/ k \in b + 1 .. b + e - 1
        BY <1>3, <2>2
      <3> QED
        BY <1>4, <2>1, <3>1
    <2>5. LinesBegun(stream, b + e) = LinesBegun(stream, b)
      BY <1>3, <2>2, <2>4, WithinLine
    <2>6. Counted'
      BY <1>2, <1>4, <1>6, <1>7, <2>3, <2>5 DEF Counted
    <2>7. Standing'
      BY <1>2, <1>6, <1>7, <2>1, <2>3 DEF Standing
    <2> QED
      BY <1>5, <2>3, <2>6, <2>7 DEF IInv
  <1>8. CASE ~HasLine /\ buf' = << >>
    <2>1. \A k \in b + 1 .. pos : stream[k] # "lf"
      BY <1>1, <1>8, NoLineInWindow DEF b
    <2>2. ASSUME NEW k \in b .. pos PROVE stream[k] # "lf"
      <3>1. k = b \/ k \in b + 1 .. pos
        BY <1>3
      <3> QED
        BY <1>4, <2>1, <3>1
    <2>3. 1 <= b /\ pos \in b .. pos /\ \A k \in b .. pos - 1 : k \in b .. pos
      BY <1>3, <1>4
    <2>4. LinesBegun(stream, pos) = LinesBegun(stream, b)
      BY <1>3, <2>2, <2>3, WithinLine
    <2>5. Window' /\ Base' = pos
      BY <1>1, <1>2, <1>8, WindowEmpty
    <2>6. stream[pos] # "lf" /\ pos > 0
      BY <1>3, <1>4, <2>2, <2>3
    <2>7. CASE at' = at
      <3>1. Counted'
        BY <1>2, <1>4, <1>6, <2>4, <2>5, <2>7 DEF Counted
      <3>2. Standing'
        BY <1>2, <1>6, <2>5, <2>6, <2>7 DEF Standing
      <3> QED
        BY <1>5, <2>5, <3>1, <3>2 DEF IInv
    <2>8. CASE ended /\ at' = "done"
      <3>1. pos = Len(stream)
        BY <1>1, <2>8 DEF Window
      <3>2. Len(out) = Cardinality(LineStarts(stream))
        BY <1>3, <1>4, <2>4, <3>1, BegunEnds
      <3>3. Counted'
        BY <1>2, <1>6, <2>8, <3>2 DEF Counted
      <3>4. Standing'
        BY <1>2, <1>6, <2>8 DEF Standing
      <3> QED
        BY <1>5, <2>5, <3>3, <3>4 DEF IInv
    <2> QED
      BY <1>2, <1>8, <2>7, <2>8 DEF discardToNewline
  <1> QED
    BY <1>7, <1>8 DEF discardToNewline, Full

(* The invariant, for every stream, limit and configuration.               *)
THEOREM IInvHolds == Spec => []IInv
  <1>1. IInv /\ [Next]_vars => IInv'
    <2> SUFFICES ASSUME IInv, [Next]_vars PROVE IInv'
      OBVIOUS
    <2>1. ASSUME NEW n \in 1 .. BufSize, Fill(n) PROVE IInv'
      BY <2>1, FillStep
    <2>2. CASE ReadEnds
      BY <2>2, EndsStep
    <2>3. CASE WholeLine
      BY <2>3, WholeStep
    <2>4. CASE LastLine
      BY <2>4, LastStep
    <2>5. CASE LongLine
      BY <2>5, LongStep
    <2>6. CASE discardToNewline
      BY <2>6, DiscardStep
    <2>7. CASE UNCHANGED vars
      BY <2>7 DEF vars, IInv, Configured, Window, Standing, Counted, Recorded, Base
    <2> QED
      BY <2>1, <2>2, <2>3, <2>4, <2>5, <2>6, <2>7 DEF Next
  <1> QED
    BY <1>1, InitIInv, PTL DEF Spec

(* However the stream is cut into reads, and wherever a write fails, the   *)
(* records are its lines, each once and in order, none longer than the     *)
(* limit, and exactly the over-long ones flagged (logrelay.go:430-485,     *)
(* manager.go:266-292).                                                    *)
THEOREM FramingRightHolds == Spec => []FramingRight
  <1>1. IInv => FramingRight
    <2> SUFFICES ASSUME IInv PROVE FramingRight
      OBVIOUS
    <2>1. TypeOK
      BY DEF IInv, Window, Standing, Recorded, TypeOK
    <2>2. LinesExact
      <3>1. ASSUME NEW i \in LineStarts(stream), LinesBegun(stream, i) <= Len(out)
            PROVE  <<out[LinesBegun(stream, i)].payload, out[LinesBegun(stream, i)].truncated>>
                     = Expected(who, stream, i)
        BY <3>1 DEF IInv, Recorded, Matches
      <3>2. /\ Len(out) <= Cardinality(LineStarts(stream))
            /\ at = "done" /\ ~failed => Len(out) = Cardinality(LineStarts(stream))
        BY DEF IInv, Counted
      <3> QED
        BY <3>1, <3>2 DEF LinesExact
    <2> QED
      BY <2>1, <2>2 DEF FramingRight
  <1> QED
    BY <1>1, IInvHolds, PTL

(* A record has each of the host's keys exactly once at its top level,     *)
(* whatever the peer wrote, and an object is wrapped only when one of its  *)
(* own top-level keys is reserved (logrelay.go:231-250).                   *)
THEOREM EnrichedRightHolds == Spec => []EnrichedRight
  <1>1. IInv => EnrichedRight
    <2> SUFFICES ASSUME IInv, who = "relay" PROVE EnrichedRight
      BY DEF EnrichedRight, HostKeysUnshadowed, SplicedWhenSafe
    <2>1. out \in Seq(Recs) /\ \A k \in 1 .. Len(out) : Enriched(enrich, out[k])
      BY DEF IInv, Recorded
    <2>2. DOMAIN out = 1 .. Len(out)
      BY <2>1, LenProperties
    <2>3. ASSUME NEW r \in ToSet(out) PROVE Enriched(enrich, r)
      BY <2>1, <2>2 DEF ToSet
    <2>4. HostKeysUnshadowed
      BY <2>3 DEF HostKeysUnshadowed, Enriched
    <2>5. SplicedWhenSafe
      BY <2>3 DEF SplicedWhenSafe, Enriched
    <2> QED
      BY <2>4, <2>5 DEF EnrichedRight
  <1> QED
    BY <1>1, IInvHolds, PTL
=============================================================================
