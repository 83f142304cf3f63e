------------------------------ MODULE TailFile ------------------------------
(***************************************************************************)
(* tailJSONL (pkg/claudep/jsonl.go) down to the reads of the file: the     *)
(* start offset, the buffered reader, the fragment kept of a line that is  *)
(* not complete yet, the end of file and the context, against a claude     *)
(* whose lines may become visible piece by piece.                          *)
(*                                                                         *)
(* A line is LineUnits pieces long, the last one the newline; piece u of   *)
(* the file belongs to line LineOf(u).                                     *)
(***************************************************************************)
EXTENDS Integers, SequencesExt

CONSTANTS
    LineUnits,    \* pieces a line can become visible in
    MaxLines,     \* bound: lines written
    Offsets,      \* the start offsets callers come with
    EndLines,     \* the lines the callback is done with
    MayTimeOut,   \* whether the context may run out
    MayFail,      \* whether reading may fail
    MayVanish     \* whether the file may be removed

ASSUME TailAssumption ==
    /\ LineUnits \in Nat \ {0} /\ MaxLines \in Nat
    /\ Offsets \subseteq Nat /\ EndLines \subseteq 1..MaxLines
    /\ {MayTimeOut, MayFail, MayVanish} \subseteq BOOLEAN

VARIABLES
    \* the file
    size,         \* pieces in it
    exists,
    \* the tail
    offset,       \* startOffset
    at,           \* "open", "read", "eof", "done"
    first,        \* where reading began
    opened,       \* the size when it did, 0 before
    fpos,         \* pieces read from the file
    buf,          \* read from the file, not returned by ReadBytes yet
    partial,
    delivered,    \* the lines handed to the callback
    outcome

fileVars == <<size, exists>>
readVars == <<offset, first, opened, fpos, buf, partial, delivered>>
vars     == <<fileVars, readVars, at, outcome>>

LineOf(u)  == (u - 1) \div LineUnits + 1
Newline(u) == u % LineUnits = 0
Pieces(i, j) == [k \in 1..j - i |-> i + k]    \* pieces i+1 to j
WholeLine(n) == Pieces((n - 1) * LineUnits, n * LineUnits)

TypeOK ==
    /\ size \in 0..MaxLines * LineUnits /\ exists \in BOOLEAN
    /\ offset \in Offsets
    /\ at \in {"open", "read", "eof", "done"}
    /\ first \in 0..size /\ opened \in 0..size /\ fpos \in first..size
    /\ buf \in Seq(1..fpos) /\ partial \in Seq(1..fpos)
    /\ delivered \in Seq(1..MaxLines)
    /\ outcome \in {"none", "done", "context", "neverAppeared", "error"}

Init == /\ size = 0 /\ exists = FALSE /\ offset \in Offsets
        /\ at = "open" /\ first = 0 /\ opened = 0 /\ fpos = 0
        /\ buf = <<>> /\ partial = <<>> /\ delivered = <<>>
        /\ outcome = "none"

-----------------------------------------------------------------------------
(* The tail.                                                               *)

Return(o) == at' = "done" /\ outcome' = o

\* os.Open, then the seek: a file shorter than the offset is another file, and
\* is read from the beginning.
Open ==
    /\ at = "open" /\ exists
    /\ first' = IF size >= offset THEN offset ELSE 0
    /\ opened' = size /\ fpos' = first'
    /\ at' = "read"
    /\ UNCHANGED <<fileVars, offset, buf, partial, delivered, outcome>>

NeverOpened ==
    /\ at = "open"
    /\ \/ ~exists /\ MayTimeOut /\ \E o \in {"context", "neverAppeared"} : Return(o)
       \/ MayFail /\ Return("error")
    /\ UNCHANGED <<fileVars, readVars>>

HasNewline == \E i \in 1..Len(buf) : Newline(buf[i])

\* ReadBytes finds no newline in what is buffered: one read of the file, which
\* returns some of what is there.
Fill ==
    /\ at = "read" /\ ~HasNewline /\ fpos < size
    /\ \E n \in fpos + 1..size : buf' = buf \o Pieces(fpos, n) /\ fpos' = n
    /\ UNCHANGED <<fileVars, offset, first, opened, partial, delivered, at, outcome>>

\* The pieces up to and with the first newline, and those after it.
LineLen   == CHOOSE i \in 1..Len(buf) :
                 Newline(buf[i]) /\ \A j \in 1..i - 1 : ~Newline(buf[j])
LineRead  == SubSeq(buf, 1, LineLen)
LeftInBuf == SubSeq(buf, LineLen + 1, Len(buf))

\* Only a whole line is a JSON object: the end of one is not.
Decodes(full, n) == full = WholeLine(n)

\* Mutants: the fragment is thrown away; or is not reset.
TakeLineAlone ==
    /\ at = "read" /\ HasNewline
    /\ LET full == LineRead
       IN  \/ \E n \in 1..MaxLines :
                /\ Decodes(full, n)
                /\ delivered' = Append(delivered, n)
                /\ IF n \in EndLines THEN Return("done") ELSE UNCHANGED <<at, outcome>>
           \/ /\ \A n \in 1..MaxLines : ~Decodes(full, n)
              /\ UNCHANGED <<delivered, at, outcome>>
    /\ buf' = LeftInBuf /\ partial' = <<>>
    /\ UNCHANGED <<fileVars, offset, first, opened, fpos>>

TakeLineKeeping ==
    /\ at = "read" /\ HasNewline
    /\ LET full == partial \o LineRead
       IN  \/ \E n \in 1..MaxLines :
                /\ Decodes(full, n)
                /\ delivered' = Append(delivered, n)
                /\ IF n \in EndLines THEN Return("done") ELSE UNCHANGED <<at, outcome>>
           \/ /\ \A n \in 1..MaxLines : ~Decodes(full, n)
              /\ UNCHANGED <<delivered, at, outcome>>
    /\ buf' = LeftInBuf
    /\ UNCHANGED <<fileVars, offset, first, opened, fpos, partial>>

\* ReadBytes returns a line: it is decoded with the fragment before it, and
\* handed to the callback.  A line that does not decode is skipped.
TakeLine ==
    /\ at = "read" /\ HasNewline
    /\ LET full == partial \o LineRead
       IN  \/ \E n \in 1..MaxLines :
                /\ Decodes(full, n)
                /\ delivered' = Append(delivered, n)
                /\ IF n \in EndLines THEN Return("done") ELSE UNCHANGED <<at, outcome>>
           \/ /\ \A n \in 1..MaxLines : ~Decodes(full, n)
              /\ UNCHANGED <<delivered, at, outcome>>
    /\ buf' = LeftInBuf /\ partial' = <<>>
    /\ UNCHANGED <<fileVars, offset, first, opened, fpos>>

\* ReadBytes returns the rest of the file without a newline, and io.EOF.
ReachEOF ==
    /\ at = "read" /\ ~HasNewline /\ fpos = size
    /\ partial' = partial \o buf /\ buf' = <<>>
    /\ at' = "eof"
    /\ UNCHANGED <<fileVars, offset, first, opened, fpos, delivered, outcome>>

\* Mutant: the context is looked at before every read.
TimeOutAnywhere ==
    /\ at \in {"read", "eof"} /\ MayTimeOut
    /\ Return("context")
    /\ UNCHANGED <<fileVars, readVars>>

\* The context is only looked at at the end of the file.
TimeOut ==
    /\ at = "eof" /\ MayTimeOut
    /\ Return("context")
    /\ UNCHANGED <<fileVars, readVars>>

\* The next look, 100 ms later.
Resume ==
    /\ at = "eof" /\ at' = "read"
    /\ UNCHANGED <<fileVars, readVars, outcome>>

ReadFails ==
    /\ at = "read" /\ MayFail
    /\ Return("error")
    /\ UNCHANGED <<fileVars, readVars>>

Reader == \/ Open \/ NeverOpened \/ Fill \/ TakeLine \/ ReachEOF
          \/ TimeOut \/ Resume \/ ReadFails

-----------------------------------------------------------------------------
(* The file (external): it grows piece by piece, and what is open stays    *)
(* readable when it is removed.                                            *)

Write ==
    /\ size < MaxLines * LineUnits /\ (exists \/ size = 0)
    /\ size' = size + 1 /\ exists' = TRUE
    /\ UNCHANGED <<readVars, at, outcome>>

Vanish ==
    /\ MayVanish /\ exists
    /\ exists' = FALSE
    /\ UNCHANGED <<size, readVars, at, outcome>>

-----------------------------------------------------------------------------
Next == Reader \/ Write \/ Vanish

Spec == Init /\ [][Next]_vars

\* The goroutine runs.
FairSpec == /\ Spec
            /\ WF_vars(Open \/ Fill \/ TakeLine \/ ReachEOF \/ Resume)

-----------------------------------------------------------------------------
(* Properties.                                                             *)

\* The first line that begins at or after the place reading began.
FirstLine == LineOf(first + LineUnits)

\* However the reads cut the file up and wherever the offset points, even into
\* a line: the callback gets the whole lines after it, each once, in order, and
\* nothing made up of fragments (jsonl.go:149-172).
DeliversInOrder == delivered = [i \in 1..Len(delivered) |-> FirstLine + i - 1]

\* A line that is written is handed over, unless the tail is over before, or
\* the file was removed before it was opened (jsonl.go:114-135, 149-183).
EveryLineRead ==
    \A n \in 1..MaxLines :
        size >= n * LineUnits ~>
            \/ at = "done" \/ n < FirstLine \/ n \in ToSet(delivered)
            \/ at = "open" /\ ~exists

\* The byte-level tail is a line-level one: Conversation may read its transcript
\* line by line.
LineLevel == INSTANCE LineTail WITH
    lines <- size \div LineUnits,
    cursor <- IF opened = 0 THEN 0 ELSE FirstLine - 1 + Len(delivered),
    caughtUp <- at = "eof",
    state <- CASE outcome = "done" -> "done"
               [] outcome = "context" /\ opened # 0 -> "context"
               [] outcome = "context" /\ opened = 0 -> "failed"
               [] outcome \in {"neverAppeared", "error"} -> "failed"
               [] outcome = "none" /\ at = "open" -> "open"
               [] OTHER -> "reading"

ImplementsLineTail == LineLevel!TailSpec
=============================================================================
