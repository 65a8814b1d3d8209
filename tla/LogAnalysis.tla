----------------------------- MODULE LogAnalysis -----------------------------
(***************************************************************************)
(* The analysis of a log file that is still being written.  The file is    *)
(* read three times: a sample to choose the parser, all of it in chunks    *)
(* for the counts, and all of it again for the timestamps; it grows        *)
(* between and during the three, and not by whole lines only.  A reading   *)
(* that meets the end of the file in the middle of a line takes what is    *)
(* there for a line, and what is written of it later for another.  (A file *)
(* that is replaced by another one meanwhile is not modelled.)             *)
(***************************************************************************)
EXTENDS Integers, FiniteSets, SequencesExt

CONSTANTS
    LogLine,        \* lines, and parts of lines: [format, level, at]
    ChunkLines,     \* lines handled at a time (2048 in the code)
    SampleLines,    \* lines the parser is chosen by (50)
    LongGap,        \* minutes of silence that are an anomaly (30)
    ManyErrors,     \* fewer errors in a file are no burst (10)
    BurstErrors,    \* fewer errors in a minute are none either (5)
    BurstExcess,    \* errors above the mean that are a burst (5)
    MaxLine,        \* bound: the length of the file
    MaxPart         \* bound: how often a line is written to before it ends

LogLevel == {"INFO", "ERROR", "UNKNOWN"}
Undated == -1       \* a timestamp that is in the form of one, but names no date

ASSUME LogAssumption ==
    /\ \A line \in LogLine : line.level \in LogLevel /\ line.at \in Nat \union {Undated}
    /\ ChunkLines \in Nat /\ SampleLines \in Nat \ {0} /\ LongGap \in Nat
    /\ MaxLine \in Nat /\ MaxPart \in Nat
    /\ ManyErrors \in Nat /\ BurstErrors \in Nat /\ BurstExcess \in Nat \ {0}

VARIABLES
    log,            \* the lines of the file that have ended
    tail,           \* what the last line, which has not, was after each write to it
    analysis        \* the analysis: its stage, token and what it has gathered

logVars == <<log, tail, analysis>>

Parser == <<"python", "syslog", "generic">>
Minute == {line.at : line \in LogLine} \ {Undated}

\* parse_line of the three parsers: what each makes an entry of. The generic one
\* finds the level tokens of Python's lines, too.
Parses(parser, line) ==
    CASE parser = "python"  -> line.format = "python"
      [] parser = "syslog"  -> line.format = "syslog"
      [] parser = "generic" -> line.format \in {"python", "token"}

Timed(parser, line) == Parses(parser, line) /\ parser # "generic" /\ line.at # Undated
LevelOf(parser, line) == IF Parses(parser, line) THEN line.level ELSE "UNKNOWN"

\* The lines, by their numbers, that count as a level, and the errors of a minute.
OfLevel(parser, lines, level) ==
    {i \in DOMAIN lines : LevelOf(parser, lines[i]) = level}
ErrorsOf(parser, lines, minute) ==
    {i \in DOMAIN lines : /\ Timed(parser, lines[i])
                          /\ lines[i].level = "ERROR" /\ lines[i].at = minute}

\* ParserRegistry.detect: the first of those that parse the most lines of the
\* sample, or the generic one when that is less than 30 % of the lines.
Detected(sample) ==
    LET Hits(p) == Cardinality({i \in DOMAIN sample : Parses(Parser[p], sample[i])})
        lines   == Cardinality({i \in DOMAIN sample : sample[i].format # "blank"})
        best    == CHOOSE p \in 1 .. 3 : \A q \in 1 .. 3 :
                     Hits(p) > Hits(q) \/ (Hits(p) = Hits(q) /\ p <= q)
    IN  IF Hits(best) > 0 /\ 10 * Hits(best) >= 3 * lines
        THEN Parser[best] ELSE "generic"

\* read and parts: where a reading is, in lines, and in writes to the next one that it
\* has taken. taken (what the counting has read) and end (where it ended) are history.
LogInit ==
    /\ log \in {<<line>> : line \in LogLine} \union {<< >>} /\ tail = << >>
    /\ analysis = [stage |-> "sampling", cancelled |-> FALSE, parser |-> "generic",
                   read |-> 0, parts |-> 0, total |-> 0, buffer |-> << >>,
                   counts |-> [l \in LogLevel |-> 0], errors |-> [m \in Minute |-> 0],
                   stamps |-> << >>, taken |-> << >>, end |-> 0]

-----------------------------------------------------------------------------
(* The program that writes the log; what it writes later is of no concern *)

Running == analysis.stage \in {"sampling", "reading", "stamping"}

WritePart(text) ==
    /\ Running /\ Len(log) < MaxLine /\ Len(tail) < MaxPart
    /\ tail' = Append(tail, text)
    /\ UNCHANGED <<log, analysis>>

EndLine(line) ==
    /\ Running /\ Len(log) < MaxLine
    /\ log' = Append(log, line) /\ tail' = << >>
    /\ UNCHANGED analysis

-----------------------------------------------------------------------------
(* analyze *)

\* "for line in handle": the next line; what there is of it; or the rest of it, which
\* may look like any line. There is none at the end of the file.
Readable(a) ==
    IF a.read < Len(log) THEN IF a.parts = 0 THEN {log[a.read + 1]} ELSE LogLine
    ELSE IF a.parts < Len(tail) THEN IF a.parts = 0 THEN {Last(tail)} ELSE LogLine
    ELSE {}

Advanced(a) ==
    IF a.read < Len(log) THEN [a EXCEPT !.read = @ + 1, !.parts = 0]
    ELSE [a EXCEPT !.parts = Len(tail)]

\* The next reading starts at the beginning of the file.
Rewound(a, stage) == [a EXCEPT !.stage = stage, !.read = 0, !.parts = 0, !.buffer = << >>]

CancelAnalysis ==
    /\ Running /\ ~ analysis.cancelled
    /\ analysis' = [analysis EXCEPT !.cancelled = TRUE]
    /\ UNCHANGED <<log, tail>>

\* The file cannot be read, or the activity log cannot be written.
AnalysisFails ==
    /\ Running
    /\ analysis' = [analysis EXCEPT !.stage = "failed"]
    /\ UNCHANGED <<log, tail>>

\* _consume: the counts, and the errors of each minute that have a timestamp.
Consumed(a) ==
    [a EXCEPT
       !.buffer = << >>,
       !.counts = [l \in LogLevel |->
                     a.counts[l] + Cardinality(OfLevel(a.parser, a.buffer, l))],
       !.errors = [m \in Minute |->
                     a.errors[m] + Cardinality(ErrorsOf(a.parser, a.buffer, m))]]

\* raise_if_cancelled, then the rest.
Unless(a, next) == IF a.cancelled THEN [a EXCEPT !.stage = "cancelled"] ELSE next

\* _detect_parser
SampleLine ==
    /\ analysis.stage = "sampling" /\ Len(analysis.buffer) < SampleLines
    /\ \E text \in Readable(analysis) :
         analysis' = [Advanced(analysis) EXCEPT !.buffer = Append(@, text)]
    /\ UNCHANGED <<log, tail>>

Detect ==
    /\ analysis.stage = "sampling"
    /\ Len(analysis.buffer) >= SampleLines \/ Readable(analysis) = {}
    /\ analysis' = Unless(analysis, [Rewound(analysis, "reading") EXCEPT
                                       !.parser = Detected(analysis.buffer)])
    /\ UNCHANGED <<log, tail>>

\* What the counting takes, of which line, and whether that line was read in parts.
Piece(a, text) ==
    [line |-> a.read + 1, text |-> text, part |-> a.parts > 0 \/ a.read = Len(log)]

WithPiece(a, text) ==
    [Advanced(a) EXCEPT !.total = @ + 1, !.buffer = Append(@, text),
                        !.taken = Append(@, Piece(a, text))]

ReadLine ==
    /\ analysis.stage = "reading"
    /\ \E text \in Readable(analysis) :
         LET next == WithPiece(analysis, text)
         IN  analysis' = IF Len(next.buffer) >= ChunkLines
                         THEN Unless(next, Consumed(next)) ELSE next
    /\ UNCHANGED <<log, tail>>

\* The generic parser finds no timestamps, and the file is not read again for it.
CountingEnded(a) ==
    [Rewound(a, IF a.parser = "generic" THEN "done" ELSE "stamping") EXCEPT !.end = a.read]

\* Bug: what is left of the last chunk is not handled.
EndOfFileDropsRest ==
    /\ analysis.stage = "reading" /\ Readable(analysis) = {}
    /\ analysis' = CountingEnded(analysis)
    /\ UNCHANGED <<log, tail>>

\* The token is not looked at when the last chunk was full.
EndOfFile ==
    /\ analysis.stage = "reading" /\ Readable(analysis) = {}
    /\ analysis' = IF analysis.buffer = << >> THEN CountingEnded(Consumed(analysis))
                   ELSE Unless(analysis, CountingEnded(Consumed(analysis)))
    /\ UNCHANGED <<log, tail>>

\* _timestamp_stats: the token is not looked at.
TimestampStats ==
    /\ analysis.stage = "stamping"
    /\ \/ \E text \in Readable(analysis) :
            analysis' = [Advanced(analysis) EXCEPT
                           !.stamps = IF Timed(analysis.parser, text) THEN Append(@, text.at)
                                      ELSE @]
       \/ /\ Readable(analysis) = {}
          /\ analysis' = [analysis EXCEPT !.stage = "done"]
    /\ UNCHANGED <<log, tail>>

LogNext ==
    \/ \E line \in LogLine : WritePart(line) \/ EndLine(line)
    \/ CancelAnalysis \/ AnalysisFails \/ SampleLine \/ Detect \/ ReadLine \/ EndOfFile
    \/ TimestampStats

LogSpec == LogInit /\ [][LogNext]_logVars

-----------------------------------------------------------------------------
(* _detect_anomalies *)

\* The minutes with errors are the keys of a Counter.
ErrorMinutes == {m \in Minute : analysis.errors[m] > 0}

\* The mean is that of the minutes with errors; errors without a timestamp raise
\* it, too. Both sides are multiplied by the number of minutes.
Bursts ==
    LET total == analysis.counts["ERROR"]
        n     == Cardinality(ErrorMinutes)
    IN  IF total < ManyErrors THEN {}
        ELSE {m \in ErrorMinutes :
                /\ analysis.errors[m] >= BurstErrors
                /\ \/ analysis.errors[m] * n >= 3 * total
                   \/ (analysis.errors[m] - BurstExcess) * n >= total}

\* sorted(timestamps): the place of a timestamp, and what is at a place.
SortedPlace(stamps, i) ==
    Cardinality({j \in DOMAIN stamps :
                   stamps[j] < stamps[i] \/ (stamps[j] = stamps[i] /\ j <= i)})
Sorted(stamps) ==
    [k \in 1 .. Cardinality(DOMAIN stamps) |->
       stamps[CHOOSE i \in DOMAIN stamps : SortedPlace(stamps, i) = k]]

\* Bug: the timestamps are taken in the order of the file.
GapsUnsorted ==
    LET s == analysis.stamps
    IN  {<<s[k], s[k + 1]>> : k \in {j \in 1 .. Len(s) - 1 : s[j + 1] - s[j] > LongGap}}

Gaps ==
    LET s == Sorted(analysis.stamps)
    IN  {<<s[k], s[k + 1]>> : k \in {j \in 1 .. Cardinality(DOMAIN analysis.stamps) - 1 :
                                      s[j + 1] - s[j] > LongGap}}

-----------------------------------------------------------------------------
(* Properties *)

\* The counts of a summary add up to its total and are those of the lines there were
\* at the end of the reading, whatever was written meanwhile and wherever a chunk ended:
\* each of these lines is counted once, as what it is, or was being written when the
\* reading came to it, and is counted as the parts in which it was read. What else is
\* counted is a part of the line after them. The errors of each minute are those of the
\* same lines, and a line that was counted whole is among those of the timestamps,
\* although these are of a later reading.
EachLineIsCounted ==
    analysis.stage = "done" =>
      LET taken == analysis.taken
          texts == [k \in DOMAIN taken |-> taken[k].text]
          Readings(i) == {k \in DOMAIN taken : taken[k].line = i}
      IN  /\ \A l \in LogLevel :
               analysis.counts[l] = Cardinality(OfLevel(analysis.parser, texts, l))
          /\ analysis.total = analysis.counts["INFO"] + analysis.counts["ERROR"]
                               + analysis.counts["UNKNOWN"]
          /\ \A m \in Minute :
               analysis.errors[m] = Cardinality(ErrorsOf(analysis.parser, texts, m))
          /\ \A i \in 1 .. analysis.end :
               \/ \E k \in DOMAIN taken : /\ Readings(i) = {k}
                                          /\ ~ taken[k].part /\ texts[k] = log[i]
               \/ Readings(i) # {} /\ \A k \in Readings(i) : taken[k].part
          /\ \A k \in DOMAIN taken :
               /\ taken[k].line <= analysis.end \/ taken[k].part
               /\ ~ taken[k].part /\ Timed(analysis.parser, texts[k])
                    => texts[k].at \in Range(analysis.stamps)

\* The gaps of a summary are those of the timestamps, which need not be in the
\* order of time: there is none between the ends of a gap, and every silence longer
\* than LongGap is there. No summary calls every minute with errors a burst.
AnomaliesAreReal ==
    analysis.stage = "done" =>
      LET at == Range(analysis.stamps)
      IN  /\ Gaps = {g \in at \X at : /\ g[2] - g[1] > LongGap
                                      /\ \A t \in at : t <= g[1] \/ t >= g[2]}
          /\ ErrorMinutes # {} => Bursts # ErrorMinutes

=============================================================================
