------------------------- MODULE DiagnosticsWriter -------------------------
(***************************************************************************)
(* The outputs of the diagnostics (src/diagnostics.rs): each has a bounded  *)
(* channel, a task that writes its lines to a file, rotates the file when   *)
(* it would grow too large, compresses what was rotated in the background,  *)
(* and, when the task starts, deletes the oldest rotated files.  The        *)
(* process may die and start again; writing and opening may fail.           *)
(*                                                                         *)
(* A file name is a record: `stem` is the words of its stem between the     *)
(* dashes, `day` and `seq` are zero for the file being written.             *)
(***************************************************************************)
EXTENDS Naturals, Sequences, FiniteSets, FiniteSetsExt, SequencesExt

CONSTANTS
    Writer,          \* the outputs: stats or dump, of each section
    Stem,            \* Stem[w]: the words of the stem of its file
    StemOrder,       \* StemOrder[w]: the place of its stem among the names
    None,            \* an option that is not set
    Capacity,        \* 1024 in the code
    MaxFileSize,     \* max_file_size, or None
    MaxRotatedSize,  \* max_rotated_size, or None
    FlushPeriod,     \* TRUE: lines may stay in the buffer of the file
    Compression,     \* TRUE: rotated files are compressed
    HasExtension,    \* TRUE: the path has an extension
    PerSection,      \* TRUE: a writer is started by its first line
    DiagnosticMode,  \* "Off", "Error" or "All"
    ErrorLines,      \* the lines that report an error
    LineSize,        \* LineSize[l], with the newline
    MaxDay,          \* bound of the calendar
    MaxFaults        \* bound of the crashes, and of the failures of the disk

Line == DOMAIN LineSize

ASSUME WriterAssumption ==
    /\ IsFiniteSet(Line) /\ Line = 1..Cardinality(Line)
    /\ LineSize \in [Line -> Nat \ {0}]
    /\ Capacity \in Nat \ {0} /\ MaxDay \in Nat \ {0} /\ MaxFaults \in Nat
    /\ MaxFileSize = None \/ MaxFileSize \in Nat
    /\ MaxRotatedSize = None \/ MaxRotatedSize \in Nat
    /\ {FlushPeriod, Compression, HasExtension, PerSection} \subseteq BOOLEAN
    /\ DiagnosticMode \in {"Off", "Error", "All"}

\* Each output has a file of its own; outputs that are configured to write to
\* one file are not modelled.
ASSUME OutputsAssumption ==
    \A v, w \in Writer : Stem[v] = Stem[w] => v = w

VARIABLES
    sent,         \* how many lines were recorded
    chan,         \* chan[w]: the lines in the channel
    mode,         \* mode[w]: where its writer_loop is
    files,        \* the directory: name -> [lines, whole]
    linked,       \* linked[w]: the file it has open is the file of that name
    buf,          \* buf[w]: lines in the BufWriter
    bytes_written,\* bytes_written[w]
    compressing,  \* the rotated files whose compression was started
    day, crashes, failures,
    newest        \* history: newest[w] is the newest line that reached a file

vars == <<sent, chan, mode, files, linked, buf, bytes_written, compressing,
          day, crashes, failures, newest>>
writerVars == <<mode, linked, buf, bytes_written>>

-----------------------------------------------------------------------------
(* Names and sizes *)

Live(w) == [stem |-> Stem[w], day |-> 0, seq |-> 0, zip |-> FALSE]
Rotated(w, d, n) == [stem |-> Stem[w], day |-> d, seq |-> n, zip |-> FALSE]
Zipped(f) == [f EXCEPT !.zip = TRUE]
WriterOf(f) == CHOOSE w \in Writer : Stem[w] = f.stem

\* A compressed file takes one byte here, whole or not.
Size(f, fs) ==
    IF f.zip THEN 1
    ELSE FoldLeft(LAMBDA n, l : n + LineSize[l], 0, fs[f].lines)
TotalSize(names, fs) == MapThenSumSet(LAMBDA f : Size(f, fs), names)

Without(fs, names) == [f \in DOMAIN fs \ names |-> fs[f]]
With(fs, f, content) ==
    [g \in DOMAIN fs \union {f} |-> IF g = f THEN content ELSE fs[g]]
Content(lines) == [lines |-> lines, whole |-> TRUE]

\* Whether f comes before g, by the first of their keys that differ.
Before(key(_), f, g) ==
    \E i \in DOMAIN key(f) : /\ key(f)[i] < key(g)[i]
                             /\ \A j \in 1..(i - 1) : key(f)[j] = key(g)[j]

\* Where f stands when the names are sorted.  The dash sorts before the dot, so
\* the rotated files of a stem come before its live file.  The number has at
\* least three digits and sorts as text: 1000 after 100 and before 101.
NameBefore(f, g) ==
    LET digits(n) == Min({d \in 3..9 : n < 10 ^ d})
        key(x) == <<StemOrder[WriterOf(x)], IF x.day = 0 THEN MaxDay + 1 ELSE x.day,
                    x.seq * 10 ^ (9 - digits(x.seq)), digits(x.seq),
                    IF x.zip THEN 1 ELSE 0>>
    IN Before(key, f, g)

\* Mutant: the number is how many files there are.
rotate_filename_counted(w) ==
    Rotated(w, day, 1 + Cardinality({f \in DOMAIN files :
                                         f.stem = Stem[w] /\ f.day = day}))

\* One more than the highest number of today; without an extension no
\* suffix is tried and every file is numbered 1.
rotate_filename(w) ==
    LET today == {f \in DOMAIN files :
                      f.stem = Stem[w] /\ f.day = day /\ HasExtension}
    IN Rotated(w, day, 1 + Max({f.seq : f \in today} \union {0}))

-----------------------------------------------------------------------------
(* cleanup_rotated_files *)

\* The names that start with the stem and a dash.
Matches(w, f) ==
    /\ f # Live(w)
    /\ \/ f.stem = Stem[w]
       \/ IsStrictPrefix(Stem[w], f.stem)

\* The oldest of them, until what is left fits.
CleanedUp(w) ==
    LET rotated == {f \in DOMAIN files : Matches(w, f)}
        older(f) == {g \in rotated : NameBefore(g, f)}
    IN IF MaxRotatedSize = None THEN {}
       ELSE {f \in rotated : TotalSize(older(f), files) + MaxRotatedSize
                             < TotalSize(rotated, files)}

-----------------------------------------------------------------------------
(* The channel *)

Recordable(l) ==
    \/ DiagnosticMode = "All"
    \/ DiagnosticMode = "Error" /\ l \in ErrorLines

\* Mutant: the channel is taken to be unbounded.
RecordUnbounded(w) ==
    /\ sent < Cardinality(Line)
    /\ sent' = sent + 1
    /\ mode' = [mode EXCEPT ![w] = IF @ = "unspawned" THEN "cleanup" ELSE @]
    /\ chan' = [chan EXCEPT ![w] = Append(@, sent')]
    /\ UNCHANGED <<files, linked, buf, bytes_written, compressing, day,
                   crashes, failures, newest>>

\* record_stats and record_dump: filter by the mode, start the writer of the
\* section if need be, and try_send, which drops the line if the channel is
\* full.
Record(w) ==
    /\ sent < Cardinality(Line)
    /\ sent' = sent + 1
    /\ IF Recordable(sent')
       THEN /\ mode' = [mode EXCEPT ![w] = IF @ = "unspawned" THEN "cleanup" ELSE @]
            /\ chan' = [chan EXCEPT ![w] =
                           IF Len(@) < Capacity THEN Append(@, sent') ELSE @]
       ELSE UNCHANGED <<mode, chan>>
    /\ UNCHANGED <<files, linked, buf, bytes_written, compressing, day,
                   crashes, failures, newest>>

-----------------------------------------------------------------------------
(* writer_loop *)

\* The files that are deleted may be the live files of other writers, which
\* then go on writing to a file that no longer has a name.
Cleanup(w) ==
    /\ mode[w] = "cleanup"
    /\ files' = Without(files, CleanedUp(w))
    /\ linked' = [v \in Writer |-> linked[v] /\ Live(v) \notin CleanedUp(w)]
    /\ mode' = [mode EXCEPT ![w] = "open"]
    /\ UNCHANGED <<sent, chan, buf, bytes_written, compressing, day, crashes,
                   failures, newest>>

\* Whether the file is rotated before a line of n bytes (mutant: without it).
Limit == IF MaxFileSize = 0 THEN None ELSE MaxFileSize
TooLargeLate(w, n) == Limit # None /\ bytes_written[w] > Limit
TooLarge(w, n) == Limit # None /\ bytes_written[w] + n > Limit

\* The directory once the live file, with these lines, has been renamed and
\* opened anew.
Rotate(w, lines) ==
    With(With(files, rotate_filename(w), Content(lines)), Live(w), Content(<<>>))
Compress(w) ==
    compressing' = compressing \union
                       (IF Compression THEN {rotate_filename(w)} ELSE {})

\* RotatingWriter::new, then the rotation of a file that is full already,
\* for which max_file_size = 0 counts.  If that rotation fails before it has
\* renamed the file, the writer goes on with the file it has (a failure between
\* the rename and the new file is left out here).
Open(w) ==
    /\ mode[w] = "open"
    /\ mode' = [mode EXCEPT ![w] = "file"]
    /\ linked' = [linked EXCEPT ![w] = TRUE]
    /\ LET old == IF Live(w) \in DOMAIN files THEN files[Live(w)].lines ELSE <<>>
           present == With(files, Live(w), Content(old))
           size == Size(Live(w), present)
           full == MaxFileSize # None /\ size >= MaxFileSize
       IN \/ /\ full
             /\ files' = Rotate(w, old)
             /\ bytes_written' = [bytes_written EXCEPT ![w] = 0]
             /\ Compress(w)
             /\ UNCHANGED failures
          \/ /\ IF full THEN failures < MaxFaults /\ failures' = failures + 1
                        ELSE UNCHANGED failures
             /\ files' = present
             /\ bytes_written' = [bytes_written EXCEPT ![w] = size]
             /\ UNCHANGED compressing
    /\ UNCHANGED <<sent, chan, buf, day, crashes, newest>>

\* Mutant: the writer stops instead of going on with stderr.
OpenFailsStops(w) ==
    /\ mode[w] = "open" /\ failures < MaxFaults
    /\ failures' = failures + 1
    /\ mode' = [mode EXCEPT ![w] = "stopped"]
    /\ UNCHANGED <<sent, chan, files, linked, buf, bytes_written, compressing,
                   day, crashes, newest>>

OpenFails(w) ==
    /\ mode[w] = "open" /\ failures < MaxFaults
    /\ failures' = failures + 1
    /\ mode' = [mode EXCEPT ![w] = "stderr"]
    /\ UNCHANGED <<sent, chan, files, linked, buf, bytes_written, compressing,
                   day, crashes, newest>>

(* writer_loop_rotating: one line per step *)

Pending(w) == buf[w] \o <<Head(chan[w])>>
Receive(w) ==
    /\ chan[w] # <<>>
    /\ chan' = [chan EXCEPT ![w] = Tail(@)]

DiskFails == failures < MaxFaults /\ failures' = failures + 1

\* How k of the pending lines are in the file after a write.  All of them, when
\* every line is flushed; else as many as the buffer or the period let through.
\* If the write or the flush fails, what reached the file stays, the rest is
\* lost, and the writer goes on with stderr.
Settle(w, pending, k) ==
    \/ /\ FlushPeriod \/ k = Len(pending)
       /\ buf' = [buf EXCEPT ![w] = SubSeq(pending, k + 1, Len(pending))]
       /\ UNCHANGED <<mode, failures>>
    \/ /\ DiskFails
       /\ mode' = [mode EXCEPT ![w] = "stderr"]
       /\ buf' = [buf EXCEPT ![w] = <<>>]

LiveLines(w) == IF linked[w] THEN files[Live(w)].lines ELSE <<>>

\* A file without a name takes the lines too, but nobody reads them there.
WriteLine(w) ==
    /\ mode[w] = "file"
    /\ Receive(w)
    /\ ~TooLarge(w, LineSize[Head(chan[w])])
    /\ \E k \in 0..Len(Pending(w)) :
           /\ Settle(w, Pending(w), k)
           /\ files' = IF linked[w]
                       THEN With(files, Live(w),
                                 Content(LiveLines(w) \o SubSeq(Pending(w), 1, k)))
                       ELSE files
           /\ newest' = [newest EXCEPT ![w] =
                            IF linked[w] /\ k > 0 THEN Pending(w)[k] ELSE @]
    /\ bytes_written' = [bytes_written EXCEPT ![w] = @ + LineSize[Head(chan[w])]]
    /\ UNCHANGED <<sent, linked, compressing, day, crashes>>

\* rotate() flushes, renames and opens.
WriteAfterRotation(w) ==
    /\ mode[w] = "file" /\ linked[w]
    /\ Receive(w)
    /\ TooLarge(w, LineSize[Head(chan[w])])
    /\ LET line == <<Head(chan[w])>>
       IN \E k \in 0..1 :
              /\ Settle(w, line, k)
              /\ files' = With(Rotate(w, LiveLines(w) \o buf[w]), Live(w),
                               Content(SubSeq(line, 1, k)))
              /\ newest' = [newest EXCEPT ![w] =
                               IF k = 1 THEN line[1]
                               ELSE IF buf[w] # <<>> THEN Last(buf[w]) ELSE @]
    /\ bytes_written' = [bytes_written EXCEPT ![w] = LineSize[Head(chan[w])]]
    /\ Compress(w)
    /\ UNCHANGED <<sent, linked, day, crashes>>

\* rotate() fails: before the rename; after it, when the compression of the
\* renamed file has already been started; or because the file has no name.
RotationFails(w) ==
    /\ mode[w] = "file"
    /\ Receive(w)
    /\ TooLarge(w, LineSize[Head(chan[w])])
    /\ LET flushed == LiveLines(w) \o buf[w]
       IN \/ /\ linked[w] /\ DiskFails
             /\ files' = With(files, Live(w), Content(flushed))
             /\ UNCHANGED compressing
          \/ /\ linked[w] /\ DiskFails
             /\ files' = With(Without(files, {Live(w)}), rotate_filename(w),
                              Content(flushed))
             /\ Compress(w)
          \/ ~linked[w] /\ UNCHANGED <<files, failures, compressing>>
    /\ newest' = [newest EXCEPT ![w] =
                     IF linked[w] /\ buf[w] # <<>> THEN Last(buf[w]) ELSE @]
    /\ mode' = [mode EXCEPT ![w] = "stderr"]
    /\ buf' = [buf EXCEPT ![w] = <<>>]
    /\ UNCHANGED <<sent, linked, bytes_written, day, crashes>>

\* writer_loop_stream
WriteStderr(w) ==
    /\ mode[w] = "stderr"
    /\ Receive(w)
    /\ UNCHANGED <<writerVars, sent, files, compressing, day, crashes, failures,
                   newest>>

-----------------------------------------------------------------------------
(* compress_file: the output is created, filled, and only then replaces the  *)
(* input; the input may have been deleted in the meantime.                   *)

CompressionBegins(f) ==
    /\ f \in compressing /\ f \in DOMAIN files /\ Zipped(f) \notin DOMAIN files
    /\ files' = With(files, Zipped(f), [lines |-> files[f].lines, whole |-> FALSE])
    /\ UNCHANGED <<writerVars, sent, chan, compressing, day, crashes, failures,
                   newest>>

CompressionEnds(f) ==
    /\ f \in compressing /\ Zipped(f) \in DOMAIN files
    /\ files' = Without(With(files, Zipped(f), Content(files[Zipped(f)].lines)), {f})
    /\ compressing' = compressing \ {f}
    /\ UNCHANGED <<writerVars, sent, chan, day, crashes, failures, newest>>

CompressionFails(f) ==
    /\ f \in compressing
    /\ \/ f \notin DOMAIN files /\ Zipped(f) \notin DOMAIN files /\ UNCHANGED failures
       \/ DiskFails
    /\ files' = Without(files, {Zipped(f)})
    /\ compressing' = compressing \ {f}
    /\ UNCHANGED <<writerVars, sent, chan, day, crashes, newest>>

-----------------------------------------------------------------------------
(* The process and the calendar *)

Start == [w \in Writer |-> IF PerSection THEN "unspawned" ELSE "cleanup"]

\* What is in channels and buffers is gone; a compression stays half done.
Crash ==
    /\ crashes < MaxFaults
    /\ crashes' = crashes + 1
    /\ chan' = [w \in Writer |-> <<>>]
    /\ buf' = [w \in Writer |-> <<>>]
    /\ mode' = Start
    /\ linked' = [w \in Writer |-> FALSE]
    /\ compressing' = {}
    /\ UNCHANGED <<sent, files, bytes_written, day, failures, newest>>

NextDay ==
    /\ day < MaxDay
    /\ day' = day + 1
    /\ UNCHANGED <<writerVars, sent, chan, files, compressing, crashes, failures,
                   newest>>

Init ==
    /\ sent = 0 /\ day = 1 /\ crashes = 0 /\ failures = 0
    /\ chan = [w \in Writer |-> <<>>]
    /\ mode = Start
    /\ files = [f \in {} |-> Content(<<>>)]
    /\ linked = [w \in Writer |-> FALSE]
    /\ buf = [w \in Writer |-> <<>>]
    /\ bytes_written = [w \in Writer |-> 0]
    /\ compressing = {}
    /\ newest = [w \in Writer |-> 0]

writer_loop(w) ==
    \/ Cleanup(w) \/ Open(w) \/ OpenFails(w)
    \/ WriteLine(w) \/ WriteAfterRotation(w) \/ RotationFails(w)
    \/ WriteStderr(w)

compress_file(f) ==
    CompressionBegins(f) \/ CompressionEnds(f) \/ CompressionFails(f)

Next ==
    \/ \E w \in Writer : Record(w) \/ writer_loop(w)
    \/ \E f \in compressing : compress_file(f)
    \/ Crash \/ NextDay

\* A writer is a thread of its own: it runs whenever it can.
Spec == Init /\ [][Next]_vars /\ \A w \in Writer : WF_vars(writer_loop(w))

-----------------------------------------------------------------------------
(* Properties *)

\* Types.
TypeOK ==
    /\ sent \in 0..Cardinality(Line) /\ day \in 1..MaxDay
    /\ crashes \in 0..MaxFaults /\ failures \in 0..MaxFaults
    /\ mode \in [Writer -> {"unspawned", "cleanup", "open", "file", "stderr"}]
    /\ linked \in [Writer -> BOOLEAN]
    /\ bytes_written \in [Writer -> Nat]
    /\ \A w \in Writer : /\ chan[w] \in Seq(Line) /\ Len(chan[w]) <= Capacity
                         /\ buf[w] \in Seq(Line) /\ newest[w] \in Nat
    /\ \A f \in DOMAIN files : /\ f.stem \in {Stem[w] : w \in Writer}
                               /\ files[f].lines \in Seq(Line)
                               /\ files[f].whole \in BOOLEAN
    /\ \A f \in compressing : ~f.zip /\ f.day # 0

\* No file grows beyond max_file_size, unless a single line does: the count
\* of bytes must be right after every restart, rotation and failed rotation,
\* although a part of them is still in the buffer.
FilesWithinLimit ==
    Limit # None =>
        \A f \in DOMAIN files :
            ~f.zip => Len(files[f].lines) <= 1 \/ Size(f, files) <= Limit

\* The lines of an output that can be read back: those of its rotated files by
\* day and number, then those of the live file.
Log(w) ==
    LET rotated == {f \in DOMAIN files : f.stem = Stem[w] /\ f.day # 0 /\ files[f].whole}
        once == {f \in rotated : f.zip => [f EXCEPT !.zip = FALSE] \notin rotated}
        key(f) == <<f.day, f.seq>>
        parts == SetToSortSeq(once, LAMBDA f, g : Before(key, f, g))
        live == IF Live(w) \in DOMAIN files THEN files[Live(w)].lines ELSE <<>>
    IN FlattenSeq([i \in 1..Len(parts) |-> files[parts[i]].lines]) \o live

Output(w) == INSTANCE OrderedLog WITH log <- Log(w), last <- newest[w]

\* Every output implements the ordered log: rotation, numbering by day,
\* compression, restarts and failures neither lose a line that reached the
\* file, nor show one twice, nor change the order; only the oldest are deleted.
OutputsAreOrderedLogs ==
    /\ \A w \in Writer : Output(w)!Init
    /\ [][\A w \in Writer : Output(w)!Next \/ UNCHANGED Output(w)!vars]_vars

\* A line in a channel does not stay there: a writer that loses its file goes
\* on with stderr, and every channel is drained.
ChannelsDrain ==
    \A w \in Writer : \A l \in Line :
        (\E i \in 1..Len(chan[w]) : chan[w][i] = l) ~>
            ~\E i \in 1..Len(chan[w]) : chan[w][i] = l

=============================================================================
