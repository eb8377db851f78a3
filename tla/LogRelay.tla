------------------------------ MODULE LogRelay ------------------------------
(***************************************************************************)
(* How a stream of log lines becomes records: the log_relay connection     *)
(* handler with its enrichment (internal/outbound/logrelay.go), the part   *)
(* of the configuration that keeps enrichment unambiguous                  *)
(* (internal/config/config.go) and, with the same loop over another pipe,  *)
(* the supervisor's pump of a child's output                               *)
(* (internal/supervisor/manager.go).  Which sink a connection writes to is *)
(* module Outbound.                                                        *)
(*                                                                         *)
(* A byte of the stream stands for one JSON token, as the decoder sees it  *)
(* (escapes resolved; commas and colons implied), or for CR or LF.  Reads  *)
(* return any number of bytes, and the sink may fail at any record.        *)
(***************************************************************************)
EXTENDS Integers, Sequences, FiniteSets, SequencesExt

CONSTANTS
    MaxLine,   \* max_line_bytes (relay), maxChildLine (pump)
    BufFloor,  \* smallest buffer bufio makes
    Streams,   \* what the peer sends before it closes
    Objects,   \* the token sequences that are JSON objects
    Keys,      \* object keys, also as string values
    HostKeys   \* values of enrich.host_key

Opening == {"{", "["}
Closing == {"}", "]"}
Brackets == Opening \cup Closing

(* How deep the i-th token is nested.                                      *)
Depth(toks, i) ==
    Cardinality({j \in 1 .. i - 1 : toks[j] \in Opening})
    - Cardinality({j \in 1 .. i - 1 : toks[j] \in Closing})

(* Where a key or a value of the root object begins before position i.     *)
RootItems(toks, i) == {j \in 2 .. i - 1 : Depth(toks, j) = 1 /\ toks[j] \notin Closing}

(* Where the root object's own keys are: every other item in it.           *)
RootKeys(toks) ==
    {i \in 2 .. Len(toks) : /\ toks[i] \notin Brackets /\ Depth(toks, i) = 1
                            /\ Cardinality(RootItems(toks, i)) % 2 = 0}

(* What json.Valid ensures for a text that begins with a brace: that brace *)
(* is closed by nothing but the last token, and an object or array in the  *)
(* root is a value, never a key.                                           *)
WellFormed(toks) ==
    /\ toks # << >> /\ toks[1] = "{"
    /\ \A i \in 2 .. Len(toks) :
          /\ Depth(toks, i) >= 1
          /\ Depth(toks, i) = 1 /\ toks[i] \in Opening => Cardinality(RootItems(toks, i)) % 2 = 1

ASSUME RelayAssumption ==
    /\ BufFloor \in Nat /\ MaxLine \in Nat
    /\ MaxLine >= BufFloor                    \* minMaxLineBytes
    /\ Objects \subseteq Seq(Brackets \cup Keys \cup {"7"})
    /\ \A o \in Objects : WellFormed(o)
    /\ Streams \subseteq Seq(Brackets \cup Keys \cup {"7", "cr", "lf"})

VARIABLES
    stream,  \* all that the peer sends
    pos,     \* how much of it has been read
    buf,     \* the bufio.Reader's unread bytes
    ended,   \* a read has returned an error, EOF or other
    at,      \* the loop: reading a line, discarding one, or returned
    who,     \* the relay's handler, or the supervisor's pump
    enrich,  \* log_relay.enrich, as validate has left it
    out,     \* records written
    failed   \* a write to the sink has failed

vars == <<stream, pos, buf, ended, at, who, enrich, out, failed>>

-----------------------------------------------------------------------------
(* Configuration.                                                          *)

NoEnrich == [on |-> FALSE, cid |-> FALSE, tags |-> FALSE, hostKey |-> "host"]

Enrichments == [on : {TRUE}, cid : BOOLEAN, tags : BOOLEAN, hostKey : HostKeys] \cup {NoEnrich}

RelayReservedKeys == {"type", "msg", "truncated"}

AnyHostKey(e) == TRUE

(* The end of LogRelayListener.validate.                                   *)
ValidEnrich(e) ==
    e.tags => e.hostKey \notin RelayReservedKeys /\ ~(e.cid /\ e.hostKey = "cid")

(* buildPrefix: the keys it puts in front; they are also enrich.reserved.  *)
PrefixKeys(e) ==
    (IF e.cid THEN <<"cid">> ELSE << >>) \o (IF e.tags THEN <<e.hostKey>> ELSE << >>)

-----------------------------------------------------------------------------
(* JSON objects, without the white space a CR is.                         *)

Tokens(line) == SelectSeq(line, LAMBDA b : b # "cr")

(* json.Valid accepts exactly the sequences in Objects.                    *)
isJSONObject(line) == Tokens(line) \in Objects

ScanStates == [depth : Nat, expectKey : BOOLEAN, found : BOOLEAN]

(* A round of the loop of hasReservedTopLevelKey; at depth 0, or when it   *)
(* has found a key, the loop has returned.                                 *)
scanToken(tok, reserved) ==
    [s \in ScanStates |->
        IF s.found \/ s.depth = 0 THEN s
        ELSE IF tok \in Opening THEN [s EXCEPT !.depth = @ + 1, !.expectKey = FALSE]
        ELSE IF tok \in Closing THEN [s EXCEPT !.depth = @ - 1, !.expectKey = s.depth = 2]
        ELSE IF s.depth # 1 THEN s
        ELSE [s EXCEPT !.found = s.expectKey /\ tok \in reserved, !.expectKey = ~@]]

(* The state of the loop after each token, the opening brace first.        *)
Scan(toks, reserved) ==
    LET scan[i \in 1 .. Len(toks)] ==
            IF i = 1 THEN [depth |-> 1, expectKey |-> TRUE, found |-> FALSE]
            ELSE scanToken(toks[i], reserved)[scan[i - 1]]
    IN  scan

hasReservedTopLevelKey(line, reserved) ==
    LET toks == Tokens(line) IN Scan(toks, reserved)[Len(toks)].found

-----------------------------------------------------------------------------
(* Records: the payload, whether it is flagged truncated, the keys that    *)
(* were put at the record's top level, and whether the payload's own       *)
(* members follow them there.                                              *)

wrapRaw(prefix, line, truncated) ==
    [payload |-> line, truncated |-> truncated, spliced |-> FALSE,
     keys |-> prefix \o <<"type", "msg">> \o (IF truncated THEN <<"truncated">> ELSE << >>)]

spliceObject(prefix, line) ==
    [payload |-> line, truncated |-> FALSE, spliced |-> TRUE, keys |-> prefix]

verbatim(line) == [payload |-> line, truncated |-> FALSE, spliced |-> FALSE, keys |-> << >>]

emit(e, line, truncated) ==
    IF truncated THEN wrapRaw(PrefixKeys(e), line, TRUE)
    ELSE IF ~e.on THEN verbatim(line)
    ELSE IF isJSONObject(line) /\ ~hasReservedTopLevelKey(line, ToSet(PrefixKeys(e)))
         THEN spliceObject(PrefixKeys(e), line)
    ELSE wrapRaw(PrefixKeys(e), line, FALSE)

(* The envelope of Framer.logLine: only msg depends on the line.           *)
logLine(line, truncated) ==
    [payload |-> line, truncated |-> truncated, spliced |-> FALSE, keys |-> <<"type", "msg">>]

Record(line, truncated) ==
    IF who = "relay" THEN emit(enrich, line, truncated) ELSE logLine(line, truncated)

-----------------------------------------------------------------------------
(* The reading loop.                                                       *)

Init ==
    /\ stream \in Streams
    /\ who \in {"relay", "pump"}
    /\ enrich \in IF who = "relay" THEN {e \in Enrichments : ValidEnrich(e)} ELSE {NoEnrich}
    /\ pos = 0 /\ buf = << >> /\ ended = FALSE
    /\ at = "line"
    /\ out = << >> /\ failed = FALSE

BufSizeExact == IF MaxLine < BufFloor THEN BufFloor ELSE MaxLine

(* bufio.NewReaderSize(c, maxLine+1).                                      *)
BufSize == IF MaxLine + 1 < BufFloor THEN BufFloor ELSE MaxLine + 1

HasLine == \E i \in 1 .. Len(buf) : buf[i] = "lf"

LineEnd == CHOOSE i \in 1 .. Len(buf) : buf[i] = "lf" /\ \A j \in 1 .. i - 1 : buf[j] # "lf"

(* ReadSlice looks for the delimiter, then for an error, then at the       *)
(* buffer's size, and only then reads on.                                  *)
Full == ~HasLine /\ ~ended /\ Len(buf) >= BufSize
Wanting == at # "done" /\ ~HasLine /\ ~ended /\ Len(buf) < BufSize

Fill(n) ==
    /\ Wanting /\ pos + n <= Len(stream) /\ Len(buf) + n <= BufSize
    /\ buf' = buf \o SubSeq(stream, pos + 1, pos + n)
    /\ pos' = pos + n
    /\ UNCHANGED <<stream, ended, at, who, enrich, out, failed>>

(* EOF, a read error, or the connection closed by Shutdown.                *)
ReadEnds ==
    /\ Wanting /\ pos = Len(stream)
    /\ ended' = TRUE
    /\ UNCHANGED <<stream, pos, buf, at, who, enrich, out, failed>>

DropOneCR(line) == IF line # << >> /\ Last(line) = "cr" THEN Front(line) ELSE line

(* dropNewline of a line whose LF, if it had one, was at its end.          *)
dropNewline(line) ==
    IF line # << >> /\ Last(line) = "lf" THEN DropOneCR(Front(line)) ELSE line

(* bytes.TrimRight(payload, "\r\n").                                       *)
TrimRight(line) ==
    SubSeq(line, 1, Cardinality({i \in 1 .. Len(line) :
                        \E j \in i .. Len(line) : line[j] \notin {"cr", "lf"}}))

Payload(line) == IF who = "relay" THEN dropNewline(line) ELSE TrimRight(line)

(* The record is written and the loop goes on at that point, or the        *)
(* sink fails and the handler returns.  The pump's sink is the shipper's   *)
(* buffer, which takes everything.                                         *)
Write(record, point) ==
    \/ out' = Append(out, record) /\ at' = point /\ UNCHANGED failed
    \/ who = "relay" /\ failed' = TRUE /\ at' = "done" /\ UNCHANGED out

WholeLine ==
    /\ at = "line" /\ HasLine
    /\ Write(Record(Payload(SubSeq(buf, 1, LineEnd)), FALSE), "line")
    /\ buf' = SubSeq(buf, LineEnd + 1, Len(buf))
    /\ UNCHANGED <<stream, pos, ended, who, enrich>>

LastLine ==
    /\ at = "line" /\ ~HasLine /\ ended
    /\ IF buf # << >>
       THEN Write(Record(Payload(buf), FALSE), "done")
       ELSE at' = "done" /\ UNCHANGED <<out, failed>>
    /\ buf' = << >>
    /\ UNCHANGED <<stream, pos, ended, who, enrich>>

(* ErrBufferFull.                                                          *)
LongLine ==
    /\ at = "line" /\ Full
    /\ Write(Record(SubSeq(buf, 1, MaxLine), TRUE), "discard")
    /\ buf' = << >>
    /\ UNCHANGED <<stream, pos, ended, who, enrich>>

DiscardEndsOnFull ==
    /\ at = "discard"
    /\ \/ HasLine /\ buf' = SubSeq(buf, LineEnd + 1, Len(buf)) /\ at' = "line"
       \/ Full /\ UNCHANGED <<buf, at>>
       \/ ~HasLine /\ ended /\ buf' = << >> /\ at' = "done"
    /\ UNCHANGED <<stream, pos, ended, who, enrich, out, failed>>

discardToNewline ==
    /\ at = "discard"
    /\ \/ HasLine /\ buf' = SubSeq(buf, LineEnd + 1, Len(buf)) /\ at' = "line"
       \/ Full /\ buf' = << >> /\ UNCHANGED at
       \/ ~HasLine /\ ended /\ buf' = << >> /\ at' = "done"
    /\ UNCHANGED <<stream, pos, ended, who, enrich, out, failed>>

-----------------------------------------------------------------------------

Next ==
    \/ (\E n \in 1 .. BufSize : Fill(n)) \/ ReadEnds
    \/ WholeLine \/ LastLine \/ LongLine \/ discardToNewline

Spec == Init /\ [][Next]_vars

(* Reads return: the stream is what the peer sends until it closes or the  *)
(* connection is closed.                                                   *)
FairSpec == Spec /\ WF_vars(Next)

-----------------------------------------------------------------------------
(* Reference: the lines of a stream s, cut without regard to buffers.      *)

LineStarts(s) == {i \in 1 .. Len(s) : i = 1 \/ s[i - 1] = "lf"}

(* How many lines begin at or before i.                                    *)
LinesBegun(s, i) == Cardinality({j \in LineStarts(s) : j <= i})

(* The length of the line that starts at i, its LF not counted.            *)
ContentLen(s, i) == Cardinality({j \in i .. Len(s) : \A k \in i .. j : s[k] # "lf"})

(* What the reader w is to write for the line that starts at i, and        *)
(* whether it is to flag it.                                               *)
Expected(w, s, i) ==
    LET n == ContentLen(s, i)
        content == SubSeq(s, i, i + n - 1)
        terminated == i + n <= Len(s)
    IN  IF n > MaxLine THEN <<SubSeq(content, 1, MaxLine), TRUE>>
        ELSE IF w = "pump" THEN <<TrimRight(content), FALSE>>
        ELSE IF terminated THEN <<DropOneCR(content), FALSE>>
        ELSE <<content, FALSE>>

-----------------------------------------------------------------------------
(* Properties.                                                             *)

(* The shapes of the loop's state; the buffer never exceeds its size.      *)
TypeOK ==
    /\ pos \in 0 .. Len(stream) /\ Len(buf) <= BufSize
    /\ at \in {"line", "discard", "done"}
    /\ ended \in BOOLEAN /\ failed \in BOOLEAN
    /\ \A k \in 1 .. Len(out) : Len(out[k].payload) <= MaxLine

(* However the stream is cut into reads, the records are its lines, each   *)
(* once and in order, none longer than max_line_bytes, and exactly the     *)
(* over-long ones flagged; only what follows a failed write is missing     *)
(* (logrelay.go:430-485, manager.go:266-292).  The CR of a CRLF counts for *)
(* the length of the line.                                                 *)
LinesExact ==
    /\ \A i \in LineStarts(stream) :
          LET k == LinesBegun(stream, i)
          IN  k <= Len(out) => <<out[k].payload, out[k].truncated>> = Expected(who, stream, i)
    /\ Len(out) <= Cardinality(LineStarts(stream))
    /\ at = "done" /\ ~failed => Len(out) = Cardinality(LineStarts(stream))

(* Framing: the lines, through a buffer that keeps its bounds.             *)
FramingRight == TypeOK /\ LinesExact

(* With every enrichment that validate accepts, a record has each of the   *)
(* host's keys exactly once at its top level, whatever keys, nested or     *)
(* not, the enclave's own record has: the "un-spoofable guarantee" of emit *)
(* (logrelay.go:231-244).  A wrapped record has no key twice.              *)
Occurrences(k, r) ==
    LET toks == Tokens(r.payload)
    IN  Cardinality({i \in 1 .. Len(r.keys) : r.keys[i] = k})
        + IF r.spliced THEN Cardinality({i \in RootKeys(toks) : toks[i] = k}) ELSE 0

HostKeysUnshadowed ==
    who = "relay" =>
        \A r \in ToSet(out) :
            /\ enrich.on \/ r.truncated =>
                  \A k \in ToSet(PrefixKeys(enrich)) : Occurrences(k, r) = 1
            /\ r.truncated => \A k \in ToSet(r.keys) : Occurrences(k, r) = 1

(* A record is wrapped only when it must be: an object that carries none   *)
(* of the host's keys at its top level is spliced, so its own keys stay    *)
(* visible, whatever it has inside its values (logrelay.go:247-250).       *)
SplicedWhenSafe ==
    who = "relay" /\ enrich.on =>
        \A r \in ToSet(out) :
            LET toks == Tokens(r.payload)
            IN  /\ ~r.truncated /\ toks \in Objects
                /\ \A i \in RootKeys(toks) : toks[i] \notin ToSet(PrefixKeys(enrich))
                => r.spliced /\ r.keys = PrefixKeys(enrich)

(* The host's fields are there once, and the peer's are not hidden without *)
(* need.                                                                   *)
EnrichedRight == HostKeysUnshadowed /\ SplicedWhenSafe

(* The loop never wedges on a line of any length: once the stream has      *)
(* ended the handler returns.                                              *)
NeverWedges == <>(at = "done")
=============================================================================
