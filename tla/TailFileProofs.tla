--------------------------- MODULE TailFileProofs ---------------------------
(***************************************************************************)
(* TailFile, proved for lines of any length, any start offset and any way  *)
(* the reads cut the file up.                                              *)
(*                                                                         *)
(* What was read and not yet taken, the fragment and the reader's buffer,  *)
(* is one stretch of the file up to fpos.  It begins at a line's start,    *)
(* or where reading began (Place); so the next newline in it ends the line *)
(* to be delivered next, or the fragment the offset pointed into, which    *)
(* does not decode.                                                        *)
(***************************************************************************)
EXTENDS TailFile, SequenceTheorems, TLAPS

\* Where the stretch begins, and the lines before the next one to deliver.
Unread == fpos - Len(partial) - Len(buf)
Taken  == FirstLine - 1 + Len(delivered)

Types ==
    /\ size \in Nat /\ size <= MaxLines * LineUnits /\ fpos \in Nat /\ fpos <= size
    /\ first \in Nat /\ first <= Unread /\ offset \in Nat
    /\ buf \in Seq(Nat) /\ partial \in Seq(Nat) /\ delivered \in Seq(Nat)

Unopened == at = "open" => buf = <<>> /\ partial = <<>> /\ delivered = <<>>

Stretch ==
    /\ \A i \in 1..Len(partial) : partial[i] = Unread + i /\ ~Newline(partial[i])
    /\ \A i \in 1..Len(buf) : buf[i] = Unread + Len(partial) + i

Place == Unread = LineUnits * Taken \/ (delivered = <<>> /\ Unread = first)

Order == \A i \in 1..Len(delivered) : delivered[i] = FirstLine + i - 1

TailInv == Types /\ Unopened /\ Stretch /\ Place /\ Order

-----------------------------------------------------------------------------
(* Lines and pieces.                                                       *)

LEMMA LessTimes ==
    ASSUME NEW L \in Nat \ {0}, NEW a \in Int, NEW b \in Int, L * a < L * b PROVE a < b
  BY SMT

LEMMA DivMod ==
    ASSUME NEW L \in Nat \ {0}, NEW u \in Int
    PROVE  u = L * (u \div L) + (u % L) /\ u % L \in 0..L - 1 /\ u \div L \in Int
  BY SMT

LEMMA TimesMod == ASSUME NEW L \in Nat \ {0}, NEW m \in Int PROVE (L * m) % L = 0
  BY SMT

\* Between the ends of two lines there is none.
LEMMA Between ==
    ASSUME NEW m \in Int, NEW u \in Int, LineUnits * m < u, u < LineUnits * (m + 1)
    PROVE  ~Newline(u)
<1> SUFFICES ASSUME Newline(u) PROVE FALSE
  OBVIOUS
<1> DEFINE q == u \div LineUnits
<1>1. u = LineUnits * q /\ q \in Int
  BY TailAssumption, DivMod DEF TailAssumption, Newline
<1> HIDE DEF q
<1>2. m < q /\ q < m + 1
  BY <1>1, TailAssumption, LessTimes DEF TailAssumption
<1> QED BY <1>1, <1>2

\* The first line that begins at a place or after it.
LEMMA LineStarts ==
    ASSUME NEW f \in Nat
    PROVE  /\ LineOf(f + LineUnits) \in Nat \ {0}
           /\ LineUnits * (LineOf(f + LineUnits) - 2) < f
           /\ f <= LineUnits * (LineOf(f + LineUnits) - 1)
<1> DEFINE u == f + LineUnits - 1
           q == u \div LineUnits
<1>1. LineUnits \in Nat \ {0} /\ u \in Nat /\ LineOf(f + LineUnits) = q + 1
  BY TailAssumption DEF TailAssumption, LineOf
<1>2. u = LineUnits * q + (u % LineUnits) /\ u % LineUnits \in 0..LineUnits - 1 /\ q \in Int
  BY <1>1, DivMod
<1>3. q >= 0
  BY <1>1, <1>2
<1>4. LineUnits * (q + 1 - 2) = LineUnits * q - LineUnits
  BY <1>1, <1>2
<1> QED
  BY <1>1, <1>2, <1>3, <1>4

LEMMA FirstLineStarts ==
    ASSUME first \in Nat
    PROVE  /\ FirstLine \in Nat \ {0}
           /\ LineUnits * (FirstLine - 2) < first /\ first <= LineUnits * (FirstLine - 1)
  BY LineStarts DEF FirstLine

\* The end of the line the stretch begins with.
End == IF Unread = LineUnits * Taken THEN LineUnits * (Taken + 1) ELSE LineUnits * Taken

\* A newline, and none after a place that the line before ends at or before.
LEMMA NextNewline ==
    ASSUME NEW m \in Int, NEW s \in Nat, LineUnits * (m - 1) <= s, s < LineUnits * m
    PROVE  /\ LineUnits * m \in Nat /\ Newline(LineUnits * m)
           /\ \A u \in Nat : s < u /\ u < LineUnits * m => ~Newline(u)
<1>1. LineUnits \in Nat \ {0} /\ LineUnits * m \in Int
  BY TailAssumption DEF TailAssumption
<1>2. (LineUnits * m) % LineUnits = 0
  BY <1>1, TimesMod
<1>3. ASSUME NEW u \in Nat, s < u, u < LineUnits * m PROVE ~Newline(u)
  <2>1. LineUnits * (m - 1) \in Int /\ LineUnits * (m - 1) < u /\ LineUnits * ((m - 1) + 1) = LineUnits * m
    BY <1>1, <1>3
  <2> QED BY <1>3, <2>1, Between
<1> QED BY <1>1, <1>2, <1>3 DEF Newline

LEMMA EndIsNextNewline ==
    ASSUME TailInv
    PROVE  /\ Taken \in Nat /\ Unread \in Nat /\ End \in Nat
           /\ Newline(End) /\ Unread < End
           /\ \A u \in Nat : Unread < u /\ u < End => ~Newline(u)
<1>1. FirstLine \in Nat \ {0} /\ Len(delivered) \in Nat /\ Taken \in Nat /\ Unread \in Nat
  BY FirstLineStarts DEF Taken, Unread, TailInv, Types
<1>2. CASE Unread = LineUnits * Taken
  <2>1. End = LineUnits * (Taken + 1) /\ LineUnits * (Taken + 1) = LineUnits * Taken + LineUnits
        /\ LineUnits * ((Taken + 1) - 1) = Unread
    BY <1>1, <1>2, TailAssumption DEF TailAssumption, End
  <2>2. LineUnits * ((Taken + 1) - 1) <= Unread /\ Unread < LineUnits * (Taken + 1)
    BY <1>1, <1>2, <2>1, TailAssumption DEF TailAssumption
  <2> QED BY <1>1, <2>1, <2>2, NextNewline
<1>3. CASE Unread # LineUnits * Taken
  <2>1. Unread = first /\ Taken = FirstLine - 1 /\ End = LineUnits * Taken
    BY <1>1, <1>3 DEF TailInv, Place, Taken, End
  <2>2. LineUnits * (Taken - 1) < Unread /\ Unread < LineUnits * Taken
    BY <1>1, <1>3, <2>1, FirstLineStarts, TailAssumption DEF TailAssumption
  <2>3. LineUnits * (Taken - 1) <= Unread
    BY <1>1, <2>2, TailAssumption DEF TailAssumption
  <2> QED BY <1>1, <2>1, <2>2, <2>3, NextNewline
<1> QED BY <1>2, <1>3

-----------------------------------------------------------------------------
(* Taking a line.                                                          *)

\* ReadBytes returns the stretch up to End.
LEMMA LineEnds ==
    ASSUME TailInv, HasNewline
    PROVE  LineLen = End - Unread - Len(partial) /\ LineLen \in 1..Len(buf)
<1> DEFINE p == Len(partial)
           k == End - Unread - p
           Shortest(i) == Newline(buf[i]) /\ \A j \in 1..i - 1 : ~Newline(buf[j])
<1>1. /\ Unread \in Nat /\ End \in Nat /\ Newline(End) /\ Unread < End
      /\ \A u \in Nat : Unread < u /\ u < End => ~Newline(u)
  BY EndIsNextNewline
<1>2. p \in Nat /\ Len(buf) \in Nat
  BY DEF TailInv, Types
<1>3. \A i \in 1..p : partial[i] = Unread + i /\ ~Newline(partial[i])
  BY DEF TailInv, Stretch
<1>4. \A i \in 1..Len(buf) : buf[i] = Unread + p + i
  BY DEF TailInv, Stretch
<1>5. PICK i \in 1..Len(buf) : Newline(buf[i])
  BY DEF HasNewline
<1> HIDE DEF p
<1>6. k <= i
  <2>1. buf[i] \in Nat /\ Unread < buf[i] /\ buf[i] = Unread + p + i
    BY <1>1, <1>2, <1>4
  <2>2. End <= buf[i]
    BY <1>1, <1>5, <2>1
  <2> QED BY <1>1, <1>2, <2>1, <2>2
<1>7. k >= 1
  <2> SUFFICES ASSUME k < 1 PROVE FALSE
    BY <1>1, <1>2
  <2>1. End - Unread \in 1..p
    BY <1>1, <1>2
  <2>2. partial[End - Unread] = End
    BY <1>1, <1>3, <2>1
  <2> QED BY <1>1, <1>3, <2>1, <2>2
<1>8. k \in 1..Len(buf)
  BY <1>1, <1>2, <1>6, <1>7
<1>9. Shortest(k)
  <2>1. buf[k] = End
    BY <1>1, <1>2, <1>4, <1>8
  <2>2. ASSUME NEW j \in 1..k - 1 PROVE ~Newline(buf[j])
    <3>1. buf[j] = Unread + p + j
      BY <1>2, <1>4, <1>8
    <3>2. buf[j] \in Nat /\ Unread < buf[j] /\ buf[j] < End
      BY <1>1, <1>2, <3>1
    <3> QED BY <1>1, <3>2
  <2> QED BY <1>1, <2>1, <2>2
<1>10. ASSUME NEW j \in 1..Len(buf), Shortest(j) PROVE j = k
  <2>1. ~(j < k)
    BY <1>8, <1>9, <1>10
  <2>2. ~(k < j)
    BY <1>8, <1>9, <1>10
  <2> QED BY <1>2, <1>8, <2>1, <2>2
<1>11. LineLen = CHOOSE j \in 1..Len(buf) : Shortest(j)
  BY DEF LineLen
<1> HIDE DEF k, Shortest
<1>12. LineLen = k
  BY <1>8, <1>9, <1>10, <1>11
<1> QED BY <1>8, <1>12 DEF k, p

\* With the fragment before it: all the pieces from Unread to End.
LEMMA FullLine ==
    ASSUME TailInv, HasNewline
    PROVE  /\ partial \o LineRead \in Seq(Nat)
           /\ Len(partial \o LineRead) = End - Unread
           /\ \A i \in 1..End - Unread : (partial \o LineRead)[i] = Unread + i
<1> DEFINE p == Len(partial)
<1>1. /\ Unread \in Nat /\ End \in Nat /\ LineLen = End - Unread - p /\ LineLen \in 1..Len(buf)
      /\ partial \in Seq(Nat) /\ buf \in Seq(Nat) /\ p \in Nat /\ Len(buf) \in Nat
  BY EndIsNextNewline, LineEnds DEF TailInv, Types
<1>2. /\ LineRead \in Seq(Nat) /\ Len(LineRead) = LineLen
      /\ \A i \in 1..LineLen : LineRead[i] = buf[i]
  BY <1>1, SubSeqProperties DEF LineRead
<1>3. \A i \in 1..LineLen : LineRead[i] = Unread + p + i
  BY <1>1, <1>2 DEF TailInv, Stretch
<1>4. \A i \in 1..p : partial[i] = Unread + i
  BY DEF TailInv, Stretch
<1> HIDE DEF p
<1>5. /\ partial \o LineRead \in Seq(Nat)
      /\ Len(partial \o LineRead) = p + LineLen
      /\ \A i \in 1..p + LineLen : (partial \o LineRead)[i] = IF i <= p THEN partial[i] ELSE LineRead[i - p]
  <2>1. partial \in Seq(Nat) /\ LineRead \in Seq(Nat)
    BY <1>1, <1>2
  <2>2. Len(partial) = p /\ Len(LineRead) = LineLen
    BY <1>2 DEF p
  <2> QED
    BY <2>1, <2>2, ConcatProperties
<1>6. ASSUME NEW i \in 1..End - Unread PROVE (partial \o LineRead)[i] = Unread + i
  <2>1. i \in 1..p + LineLen
    BY <1>1
  <2>2. CASE i <= p
    BY <1>1, <1>4, <1>5, <2>1, <2>2
  <2>3. CASE ~(i <= p)
    <3>1. i - p \in 1..LineLen
      BY <1>1, <2>1, <2>3
    <3>2. LineRead[i - p] = Unread + p + (i - p)
      BY <1>3, <3>1
    <3>3. (partial \o LineRead)[i] = LineRead[i - p]
      BY <1>5, <2>1, <2>3
    <3>4. Unread + p + (i - p) = Unread + i
      BY <1>1
    <3> QED BY <3>2, <3>3, <3>4
  <2> QED BY <2>2, <2>3
<1> QED BY <1>1, <1>5, <1>6

\* The pieces of a line.
LEMMA LinePieces ==
    ASSUME NEW n \in Int
    PROVE  WholeLine(n) = [k \in 1..LineUnits |-> LineUnits * (n - 1) + k]
<1>1. n * LineUnits - (n - 1) * LineUnits = LineUnits /\ (n - 1) * LineUnits = LineUnits * (n - 1)
  BY TailAssumption DEF TailAssumption
<1> QED BY <1>1 DEF WholeLine, Pieces

\* At a line's start, that line decodes and no other.
LEMMA WholeDecodes ==
    ASSUME TailInv, HasNewline, Unread = LineUnits * Taken
    PROVE  /\ Taken + 1 \in 1..MaxLines
           /\ \A n \in 1..MaxLines : Decodes(partial \o LineRead, n) <=> n = Taken + 1
<1> DEFINE full == partial \o LineRead
<1>1. /\ Taken \in Nat /\ Unread \in Nat /\ LineUnits \in Nat \ {0} /\ MaxLines \in Nat
      /\ End = LineUnits * (Taken + 1) /\ LineUnits * (Taken + 1) = LineUnits * Taken + LineUnits
  BY EndIsNextNewline, TailAssumption DEF TailAssumption, End
<1>2. /\ full \in Seq(Nat) /\ Len(full) = LineUnits
      /\ \A i \in 1..LineUnits : full[i] = LineUnits * Taken + i
  <2>1. End - Unread = LineUnits
    BY <1>1
  <2> QED BY <2>1, FullLine
<1> HIDE DEF full
<1>3. full = [k \in 1..LineUnits |-> LineUnits * Taken + k]
  BY <1>2, LenProperties
<1>4. full = WholeLine(Taken + 1)
  BY <1>1, <1>3, LinePieces
<1>5. Taken + 1 \in 1..MaxLines
  <2>1. End <= fpos /\ fpos <= LineUnits * MaxLines
    <3>1. End = Unread + Len(partial) + LineLen /\ LineLen <= Len(buf)
      BY <1>1, LineEnds DEF TailInv, Types
    <3>2. fpos = Unread + Len(partial) + Len(buf)
      BY DEF Unread, TailInv, Types
    <3> QED BY <1>1, <3>1, <3>2, LineEnds DEF TailInv, Types
  <2>2. LineUnits * Taken < LineUnits * MaxLines
    <3>1. LineUnits * Taken \in Int /\ LineUnits * MaxLines \in Int /\ fpos \in Nat
      BY <1>1 DEF TailInv, Types
    <3> QED BY <1>1, <2>1, <3>1
  <2>3. Taken < MaxLines
    BY <1>1, <2>2, LessTimes
  <2> QED BY <1>1, <2>3
<1>6. ASSUME NEW n \in 1..MaxLines, full = WholeLine(n) PROVE n = Taken + 1
  <2>1. full[1] = LineUnits * (n - 1) + 1 /\ full[1] = LineUnits * Taken + 1
    BY <1>1, <1>3, <1>6, LinePieces
  <2>2. ~(LineUnits * (n - 1) < LineUnits * Taken) /\ ~(LineUnits * Taken < LineUnits * (n - 1))
    BY <1>1, <2>1
  <2>3. ~(n - 1 < Taken) /\ ~(Taken < n - 1)
    <3>1. \A a, b \in Int : a < b => LineUnits * a < LineUnits * b
      BY <1>1
    <3> QED BY <1>1, <2>2, <3>1
  <2> QED BY <1>1, <2>3
<1> QED BY <1>4, <1>5, <1>6 DEF Decodes, full

\* The end of a line that the offset points into does not decode.
LEMMA FragmentDoesNot ==
    ASSUME TailInv, HasNewline, Unread # LineUnits * Taken
    PROVE  \A n \in 1..MaxLines : ~Decodes(partial \o LineRead, n)
<1> DEFINE full == partial \o LineRead
<1>1. /\ Taken \in Nat /\ Unread \in Nat /\ LineUnits \in Nat \ {0} /\ MaxLines \in Nat
      /\ End \in Nat /\ Unread < End
  BY EndIsNextNewline, TailAssumption DEF TailAssumption
<1>2. full[1] = Unread + 1
  BY <1>1, FullLine
<1>3. LineUnits * (Taken - 1) < Unread /\ Unread < LineUnits * Taken
  <2>1. Unread = first /\ Taken = FirstLine - 1 /\ first \in Nat /\ FirstLine \in Nat
    BY FirstLineStarts DEF TailInv, Types, Place, Taken
  <2> QED BY <1>1, <2>1, FirstLineStarts
<1> HIDE DEF full
<1>4. ASSUME NEW n \in 1..MaxLines, full = WholeLine(n) PROVE FALSE
  <2>1. Unread = LineUnits * (n - 1)
    <3>1. full[1] = LineUnits * (n - 1) + 1
      BY <1>1, <1>4, LinePieces
    <3>2. LineUnits * (n - 1) \in Int
      BY <1>1
    <3> HIDE <1>4
    <3> QED BY <1>1, <1>2, <3>1, <3>2
  <2>2. Taken - 1 < n - 1 /\ n - 1 < Taken
    BY <1>1, <1>3, <2>1, LessTimes
  <2> QED BY <1>1, <2>2
<1> QED BY <1>4 DEF Decodes, full

-----------------------------------------------------------------------------
(* The steps.                                                              *)

LEMMA InitTail == Init => TailInv
<1> SUFFICES ASSUME Init PROVE TailInv
  OBVIOUS
<1>1. Unread = 0 /\ Len(buf) = 0 /\ Len(partial) = 0 /\ Len(delivered) = 0
  <2>1. Len(buf) = 0 /\ Len(partial) = 0 /\ Len(delivered) = 0 /\ fpos = 0
    BY EmptySeq DEF Init
  <2> QED BY <2>1 DEF Unread
<1>2. Types /\ Unopened
  BY <1>1, EmptySeq, TailAssumption DEF TailAssumption, Init, Types, Unopened
<1> QED
  BY <1>1, <1>2 DEF Init, TailInv, Stretch, Place, Order

\* Steps that neither read the file nor take a line.
LEMMA IdleStep ==
    ASSUME TailInv, UNCHANGED readVars, at' = "open" => at = "open",
           size' \in Nat, size <= size', size' <= MaxLines * LineUnits
    PROVE  TailInv'
<1>1. Unread' = Unread /\ Taken' = Taken /\ FirstLine' = FirstLine
  BY DEF readVars, Unread, Taken, FirstLine
<1>2. MaxLines * LineUnits \in Nat
  BY TailAssumption DEF TailAssumption
<1> QED
  BY <1>1, <1>2 DEF readVars, TailInv, Types, Unopened, Stretch, Place, Order

LEMMA OpenTail == ASSUME TailInv, Open PROVE TailInv'
<1>1. /\ first' \in Nat /\ first' <= size /\ fpos' = first' /\ at' = "read"
      /\ UNCHANGED <<size, offset, buf, partial, delivered>>
      /\ buf = <<>> /\ partial = <<>> /\ delivered = <<>>
  BY DEF Open, TailInv, Types, Unopened, fileVars
<1>2. Unread' = first' /\ Unread' \in Nat /\ Len(buf') = 0 /\ Len(partial') = 0 /\ Len(delivered') = 0
  <2>1. Len(buf') = 0 /\ Len(partial') = 0 /\ Len(delivered') = 0
    BY <1>1, EmptySeq
  <2>2. fpos' = first' /\ first' \in Nat
    BY <1>1
  <2>3. \A n \in Nat : n - 0 - 0 = n
    OBVIOUS
  <2>4. first' - 0 - 0 = first'
    BY <2>2, <2>3
  <2>5. Unread' = first'
    BY <2>1, <2>2, <2>4 DEF Unread
  <2> QED BY <2>1, <2>2, <2>5
<1> QED
  BY <1>1, <1>2 DEF TailInv, Types, Unopened, Stretch, Place, Order

\* One read appends to the stretch.
LEMMA FillTail == ASSUME TailInv, Fill PROVE TailInv'
<1>1. PICK n \in fpos + 1..size : buf' = buf \o Pieces(fpos, n) /\ fpos' = n
  BY DEF Fill
<1>2. UNCHANGED <<size, offset, first, partial, delivered>> /\ at' = "read"
  BY DEF Fill, fileVars
<1>3. /\ fpos \in Nat /\ size \in Nat /\ buf \in Seq(Nat) /\ Len(buf) \in Nat /\ Len(partial) \in Nat
      /\ Unread \in Nat /\ fpos = Unread + Len(partial) + Len(buf)
  BY EndIsNextNewline DEF TailInv, Types, Unread
<1>4. Pieces(fpos, n) \in Seq(Nat) /\ Len(Pieces(fpos, n)) = n - fpos
      /\ \A i \in 1..n - fpos : Pieces(fpos, n)[i] = fpos + i
  BY <1>3 DEF Pieces
<1>5. /\ buf' \in Seq(Nat) /\ Len(buf') = Len(buf) + (n - fpos)
      /\ \A i \in 1..Len(buf) + (n - fpos) :
            buf'[i] = IF i <= Len(buf) THEN buf[i] ELSE Pieces(fpos, n)[i - Len(buf)]
  BY <1>1, <1>3, <1>4, ConcatProperties
<1>6. Unread' = Unread /\ Taken' = Taken /\ FirstLine' = FirstLine
  <2>1. Unread' = n - Len(partial) - (Len(buf) + (n - fpos))
    BY <1>1, <1>2, <1>5 DEF Unread
  <2> QED BY <1>2, <1>3, <2>1 DEF Taken, FirstLine
<1>7. ASSUME NEW i \in 1..Len(buf') PROVE buf'[i] = Unread + Len(partial) + i
  <2>1. CASE i <= Len(buf)
    BY <1>3, <1>5, <2>1 DEF TailInv, Stretch
  <2>2. CASE ~(i <= Len(buf))
    <3>1. i - Len(buf) \in 1..n - fpos
      BY <1>3, <1>5, <2>2
    <3> QED BY <1>3, <1>4, <1>5, <2>2, <3>1
  <2> QED BY <2>1, <2>2
<1>8. Types'
  BY <1>1, <1>2, <1>3, <1>5, <1>6 DEF TailInv, Types
<1> QED
  BY <1>2, <1>6, <1>7, <1>8 DEF TailInv, Unopened, Stretch, Place, Order

\* At the end of the file the buffer becomes part of the fragment.
LEMMA EOFTail == ASSUME TailInv, ReachEOF PROVE TailInv'
<1>1. /\ partial' = partial \o buf /\ buf' = <<>> /\ at' = "eof"
      /\ UNCHANGED <<size, offset, first, fpos, delivered>> /\ ~HasNewline
  BY DEF ReachEOF, fileVars
<1>2. /\ fpos \in Nat /\ partial \in Seq(Nat) /\ buf \in Seq(Nat) /\ Len(buf) \in Nat /\ Len(partial) \in Nat
  BY DEF TailInv, Types
<1>3. /\ partial' \in Seq(Nat) /\ Len(partial') = Len(partial) + Len(buf) /\ Len(buf') = 0
      /\ \A i \in 1..Len(partial) + Len(buf) :
            partial'[i] = IF i <= Len(partial) THEN partial[i] ELSE buf[i - Len(partial)]
  BY <1>1, <1>2, ConcatProperties
<1>4. Unread' = Unread /\ Taken' = Taken /\ FirstLine' = FirstLine /\ Unread \in Nat
  BY <1>1, <1>2, <1>3, EndIsNextNewline DEF Unread, Taken, FirstLine
<1>5. ASSUME NEW i \in 1..Len(partial') PROVE partial'[i] = Unread + i /\ ~Newline(partial'[i])
  <2>1. CASE i <= Len(partial)
    <3>1. i \in 1..Len(partial)
      BY <1>2, <1>3, <2>1
    <3>2. partial'[i] = partial[i]
      BY <1>2, <1>3, <2>1
    <3> QED BY <3>1, <3>2 DEF TailInv, Stretch
  <2>2. CASE ~(i <= Len(partial))
    <3>1. i - Len(partial) \in 1..Len(buf)
      BY <1>2, <1>3, <2>2
    <3>2. buf[i - Len(partial)] = Unread + Len(partial) + (i - Len(partial))
      BY <3>1 DEF TailInv, Stretch
    <3>3. ~Newline(buf[i - Len(partial)])
      BY <1>1, <3>1 DEF HasNewline
    <3>4. partial'[i] = buf[i - Len(partial)]
      BY <1>2, <1>3, <2>2
    <3>5. Unread + Len(partial) + (i - Len(partial)) = Unread + i
      BY <1>2, <1>4
    <3> QED BY <3>2, <3>3, <3>4, <3>5
  <2> QED BY <2>1, <2>2
<1>6. Types'
  BY <1>1, <1>2, <1>3, <1>4, EmptySeq DEF TailInv, Types
<1> QED
  BY <1>1, <1>3, <1>4, <1>5, <1>6 DEF TailInv, Unopened, Stretch, Place, Order

\* What is left of the stretch begins at End.
LEMMA RestBegins ==
    ASSUME TailInv, HasNewline, buf' = LeftInBuf, partial' = <<>>, UNCHANGED <<size, offset, first, fpos>>
    PROVE  /\ buf' \in Seq(Nat) /\ Unread' = End /\ Len(partial') = 0 /\ FirstLine' = FirstLine
           /\ \A i \in 1..Len(buf') : buf'[i] = End + i
<1>1. /\ Unread \in Nat /\ End \in Nat /\ LineLen = End - Unread - Len(partial) /\ LineLen \in 1..Len(buf)
      /\ buf \in Seq(Nat) /\ Len(buf) \in Nat /\ Len(partial) \in Nat /\ fpos \in Nat
      /\ fpos = Unread + Len(partial) + Len(buf)
  BY EndIsNextNewline, LineEnds DEF TailInv, Types, Unread
<1>2. \A i \in LineLen + 1..Len(buf) : buf[i] \in Nat
  BY <1>1
<1>3. /\ buf' \in Seq(Nat) /\ Len(buf') = Len(buf) - LineLen
      /\ \A i \in 1..Len(buf) - LineLen : buf'[i] = buf[LineLen + i]
  <2>1. /\ buf' \in Seq(Nat)
        /\ Len(buf') = IF LineLen + 1 <= Len(buf) THEN Len(buf) - (LineLen + 1) + 1 ELSE 0
        /\ \A i \in 1..Len(buf) - (LineLen + 1) + 1 : buf'[i] = buf[LineLen + 1 + i - 1]
    BY <1>1, <1>2, SubSeqProperties DEF LeftInBuf
  <2> QED BY <1>1, <2>1
<1>4. \A i \in 1..Len(buf') : buf'[i] = End + i
  <2> SUFFICES ASSUME NEW i \in 1..Len(buf') PROVE buf'[i] = End + i
    OBVIOUS
  <2>0. Len(buf') = Len(buf) - LineLen
    BY <1>3
  <2>1. i \in 1..Len(buf) - LineLen /\ LineLen + i \in 1..Len(buf) /\ buf'[i] = buf[LineLen + i]
    <3>1. i \in 1..Len(buf) - LineLen
      BY <2>0
    <3>2. LineLen + i \in 1..Len(buf)
      BY <1>1, <3>1
    <3>3. buf'[i] = buf[LineLen + i]
      BY <1>3, <3>1
    <3> QED BY <3>1, <3>2, <3>3
  <2>2. buf[LineLen + i] = Unread + Len(partial) + (LineLen + i)
    BY <2>1 DEF TailInv, Stretch
  <2> QED BY <1>1, <1>3, <2>1, <2>2
<1>5. Unread' = End
  BY <1>1, <1>3 DEF Unread
<1> QED BY <1>3, <1>4, <1>5 DEF FirstLine

\* A line is taken: the next one of the file is delivered, or the end of the line
\* that the offset points into is skipped.
LEMMA TakeTail == ASSUME TailInv, TakeLine PROVE TailInv'
<1>1. /\ HasNewline /\ buf' = LeftInBuf /\ partial' = <<>> /\ at' # "open"
      /\ UNCHANGED <<size, offset, first, fpos>>
  BY DEF TakeLine, Return, fileVars
<1>2. /\ buf' \in Seq(Nat) /\ Unread' = End /\ Len(partial') = 0 /\ FirstLine' = FirstLine
      /\ \A i \in 1..Len(buf') : buf'[i] = End + i
  BY <1>1, RestBegins
<1>3. /\ Taken \in Nat /\ Unread \in Nat /\ End \in Nat /\ Unread < End /\ FirstLine \in Nat
      /\ delivered \in Seq(Nat) /\ Len(delivered) \in Nat
      /\ Taken = FirstLine - 1 + Len(delivered)
  BY EndIsNextNewline, FirstLineStarts DEF TailInv, Types, Taken
<1>4. CASE Unread = LineUnits * Taken
  <2>1. delivered' = Append(delivered, Taken + 1)
    BY <1>1, <1>4, WholeDecodes DEF TakeLine
  <2>2. /\ delivered' \in Seq(Nat) /\ Len(delivered') = Len(delivered) + 1
        /\ \A i \in 1..Len(delivered) : delivered'[i] = delivered[i]
        /\ delivered'[Len(delivered) + 1] = Taken + 1
    BY <1>3, <2>1
  <2>3. ASSUME NEW i \in 1..Len(delivered') PROVE delivered'[i] = FirstLine' + i - 1
    <3>1. CASE i <= Len(delivered)
      <4>1. i \in 1..Len(delivered)
        BY <1>3, <2>2, <3>1
      <4> QED BY <1>2, <2>2, <4>1 DEF TailInv, Order
    <3>2. CASE ~(i <= Len(delivered))
      <4>1. i = Len(delivered) + 1
        BY <1>3, <2>2, <3>2
      <4> QED BY <1>2, <1>3, <2>2, <4>1
    <3> QED BY <3>1, <3>2
  <2>4. Taken' = Taken + 1 /\ Unread' = LineUnits * (Taken + 1)
    BY <1>2, <1>3, <1>4, <2>2 DEF Taken, End
  <2>5. Types'
    BY <1>1, <1>2, <1>3, <2>2, EmptySeq DEF TailInv, Types
  <2> QED
    BY <1>1, <1>2, <1>3, <2>3, <2>4, <2>5 DEF TailInv, Unopened, Stretch, Place, Order
<1>5. CASE Unread # LineUnits * Taken
  <2>1. delivered' = delivered
    BY <1>1, <1>5, FragmentDoesNot DEF TakeLine
  <2>2. Taken' = Taken /\ Unread' = LineUnits * Taken
    BY <1>2, <1>5, <2>1 DEF Taken, End
  <2>3. Types'
    BY <1>1, <1>2, <1>3, <2>1, EmptySeq DEF TailInv, Types
  <2> QED
    BY <1>1, <1>2, <1>3, <2>1, <2>2, <2>3 DEF TailInv, Unopened, Stretch, Place, Order
<1> QED BY <1>4, <1>5

LEMMA NextTail == TailInv /\ [Next]_vars => TailInv'
<1> SUFFICES ASSUME TailInv, [Next]_vars PROVE TailInv'
  OBVIOUS
<1>1. CASE NeverOpened \/ TimeOut \/ Resume \/ ReadFails \/ Vanish \/ UNCHANGED vars
  <2>1. UNCHANGED <<readVars, size>> /\ (at' = "open" => at = "open")
    BY <1>1 DEF NeverOpened, TimeOut, Resume, ReadFails, Vanish, Return, fileVars, vars
  <2> QED BY <2>1, IdleStep DEF TailInv, Types
<1>2. CASE Write
  <2>1. MaxLines * LineUnits \in Nat
    BY TailAssumption DEF TailAssumption
  <2> QED BY <1>2, <2>1, IdleStep DEF Write, TailInv, Types
<1> QED
  BY <1>1, <1>2, OpenTail, FillTail, EOFTail, TakeTail DEF Next, Reader

\* However the reads cut the file up, and wherever the offset points, the callback
\* gets the whole lines after it, each once, in order (jsonl.go:149-172).
THEOREM LinesInOrder == Spec => []DeliversInOrder
<1>1. TailInv => DeliversInOrder
  <2> SUFFICES ASSUME TailInv PROVE DeliversInOrder
    OBVIOUS
  <2>1. delivered = [i \in 1..Len(delivered) |-> delivered[i]]
    BY LenProperties DEF TailInv, Types
  <2> QED BY <2>1 DEF TailInv, Order, DeliversInOrder
<1> QED
  BY <1>1, InitTail, NextTail, PTL DEF Spec

-----------------------------------------------------------------------------
(* The line-level tail.                                                    *)

\* Where the tail is, and what it has returned.
Phase ==
    /\ exists => size > 0
    /\ at = "open" => opened = 0 /\ outcome = "none"
    /\ at \in {"read", "eof"} => opened # 0 /\ outcome = "none"
    /\ at \in {"open", "read", "eof", "done"}
    /\ outcome \in {"none", "done", "context", "neverAppeared", "error"}
    /\ at = "done" => outcome # "none"

LEMMA NextPhase == TailInv /\ Phase /\ [Next]_vars => Phase'
<1> SUFFICES ASSUME TailInv, Phase, [Next]_vars PROVE Phase'
  OBVIOUS
<1> USE DEF Phase, readVars, fileVars
<1>1. size \in Nat
  BY DEF TailInv, Types
<1>2. CASE Open
  BY <1>1, <1>2 DEF Open
<1>3. CASE NeverOpened \/ Fill \/ ReachEOF \/ TimeOut \/ Resume \/ ReadFails
  BY <1>3 DEF NeverOpened, Fill, ReachEOF, TimeOut, Resume, ReadFails, Return
<1>4. CASE TakeLine
  <2>1. UNCHANGED <<exists, size, opened>> /\ at = "read"
        /\ ((at' = "done" /\ outcome' = "done") \/ UNCHANGED <<at, outcome>>)
    BY <1>4 DEF TakeLine, Return
  <2> QED BY <2>1
<1>5. CASE Write \/ Vanish \/ UNCHANGED vars
  BY <1>1, <1>5 DEF Write, Vanish, vars
<1> QED
  BY <1>2, <1>3, <1>4, <1>5 DEF Next, Reader

\* The whole lines in the file.
LEMMA LinesInFile ==
    ASSUME NEW u \in Nat
    PROVE  /\ u \div LineUnits \in Nat
           /\ LineUnits * (u \div LineUnits) <= u
           /\ u < LineUnits * ((u \div LineUnits) + 1)
           /\ (u + 1) \div LineUnits \in {u \div LineUnits, (u \div LineUnits) + 1}
<1> DEFINE q == u \div LineUnits
           r == (u + 1) \div LineUnits
<1>1. LineUnits \in Nat \ {0}
  BY TailAssumption DEF TailAssumption
<1>2. u = LineUnits * q + (u % LineUnits) /\ u % LineUnits \in 0..LineUnits - 1 /\ q \in Int
  BY <1>1, DivMod
<1>3. u + 1 = LineUnits * r + ((u + 1) % LineUnits) /\ (u + 1) % LineUnits \in 0..LineUnits - 1 /\ r \in Int
  BY <1>1, DivMod
<1> HIDE DEF q, r
<1>4. LineUnits * (q + 1) = LineUnits * q + LineUnits /\ LineUnits * (r + 1) = LineUnits * r + LineUnits
      /\ LineUnits * (q + 2) = LineUnits * q + LineUnits + LineUnits
      /\ LineUnits * q \in Int /\ LineUnits * r \in Int
  BY <1>1, <1>2, <1>3
<1>5. q >= 0
  BY <1>1, <1>2
<1>6. LineUnits * q < LineUnits * (r + 1) /\ LineUnits * r < LineUnits * (q + 2)
  BY <1>1, <1>2, <1>3, <1>4
<1>7. q < r + 1 /\ r < q + 2
  BY <1>1, <1>2, <1>3, <1>6, LessTimes
<1> QED BY <1>1, <1>2, <1>3, <1>4, <1>5, <1>7 DEF q, r

\* A line that is taken is in the file; at the end of the file none is left.
LEMMA TakenInFile ==
    ASSUME TailInv
    PROVE  /\ HasNewline /\ Unread = LineUnits * Taken => Taken < size \div LineUnits
           /\ ~HasNewline /\ fpos = size => Taken >= size \div LineUnits
<1> DEFINE q == size \div LineUnits
<1>1. /\ LineUnits \in Nat \ {0} /\ Taken \in Nat /\ Unread \in Nat /\ End \in Nat /\ Unread < End
      /\ Newline(End) /\ size \in Nat /\ fpos \in Nat /\ fpos <= size
      /\ Len(partial) \in Nat /\ Len(buf) \in Nat /\ fpos = Unread + Len(partial) + Len(buf)
  BY EndIsNextNewline, TailAssumption DEF TailAssumption, TailInv, Types, Unread
<1>2. q \in Nat /\ LineUnits * q <= size /\ size < LineUnits * (q + 1)
  BY <1>1, LinesInFile
<1> HIDE DEF q
<1>3. LineUnits * (Taken + 1) = LineUnits * Taken + LineUnits /\ LineUnits * Taken \in Nat
      /\ LineUnits * (q + 1) \in Nat /\ LineUnits * q \in Nat
  BY <1>1, <1>2
<1>4. ASSUME HasNewline, Unread = LineUnits * Taken PROVE Taken < q
  <2>1. End <= fpos /\ End = LineUnits * (Taken + 1)
    BY <1>1, <1>4, LineEnds DEF End
  <2>2. LineUnits * (Taken + 1) < LineUnits * (q + 1)
    BY <1>1, <1>2, <1>3, <2>1
  <2>3. Taken + 1 < q + 1
    BY <1>1, <1>2, <2>2, LessTimes
  <2> QED BY <1>1, <1>2, <2>3
<1>5. ASSUME ~HasNewline, fpos = size PROVE Taken >= q
  <2>1. size < End
    <3> SUFFICES ASSUME End <= fpos PROVE FALSE
      BY <1>1, <1>5
    <3>1. CASE End <= Unread + Len(partial)
      <4>1. End - Unread \in 1..Len(partial)
        BY <1>1, <3>1
      <4>2. partial[End - Unread] = Unread + (End - Unread) /\ ~Newline(partial[End - Unread])
        BY <4>1 DEF TailInv, Stretch
      <4>3. Unread + (End - Unread) = End
        BY <1>1
      <4> QED BY <1>1, <4>2, <4>3
    <3>2. CASE ~(End <= Unread + Len(partial))
      <4> DEFINE i == End - Unread - Len(partial)
      <4>1. i \in 1..Len(buf) /\ Unread + Len(partial) + i = End
        BY <1>1, <3>2
      <4>2. buf[i] = Unread + Len(partial) + i
        BY <4>1 DEF TailInv, Stretch
      <4>3. ~Newline(buf[i])
        BY <1>5, <4>1 DEF HasNewline
      <4> QED BY <1>1, <4>1, <4>2, <4>3
    <3> QED BY <3>1, <3>2
  <2>2. End <= LineUnits * (Taken + 1)
    BY <1>1, <1>3 DEF End
  <2>3. LineUnits * q < LineUnits * (Taken + 1)
    BY <1>1, <1>2, <1>3, <2>1, <2>2
  <2>4. q < Taken + 1
    BY <1>1, <1>2, <2>3, LessTimes
  <2> QED BY <1>1, <1>2, <2>4
<1> QED BY <1>4, <1>5 DEF q

\* The state that the line-level tail sees.
State == CASE outcome = "done" -> "done"
           [] outcome = "context" /\ opened # 0 -> "context"
           [] outcome = "context" /\ opened = 0 -> "failed"
           [] outcome \in {"neverAppeared", "error"} -> "failed"
           [] outcome = "none" /\ at = "open" -> "open"
           [] OTHER -> "reading"

\* Reading begins somewhere in the file.
LEMMA BeginsInFile ==
    ASSUME TailInv, TailInv', Open
    PROVE  FirstLine' \in Nat \ {0} /\ FirstLine' - 1 <= size \div LineUnits + 1
<1>1. first' \in Nat /\ first' <= size /\ size \in Nat
  BY DEF Open, TailInv, Types
<1>2. FirstLine' \in Nat \ {0} /\ LineUnits * (FirstLine' - 2) < first'
  <2>1. FirstLine' = LineOf(first' + LineUnits)
    BY DEF FirstLine, LineOf
  <2> QED BY <1>1, <2>1, LineStarts
<1>3. /\ size \div LineUnits \in Nat /\ size < LineUnits * ((size \div LineUnits) + 1)
  BY <1>1, LinesInFile
<1>4. LineUnits \in Nat \ {0}
  BY TailAssumption DEF TailAssumption
<1>5. FirstLine' - 2 < (size \div LineUnits) + 1
  <2> DEFINE q == size \div LineUnits
  <2> HIDE DEF q
  <2>1. LineUnits * (FirstLine' - 2) \in Int /\ LineUnits * (q + 1) \in Int
    BY <1>2, <1>3, <1>4 DEF q
  <2>2. LineUnits * (FirstLine' - 2) < LineUnits * (q + 1)
    BY <1>1, <1>2, <1>3, <2>1 DEF q
  <2> QED BY <1>2, <1>3, <1>4, <2>2, LessTimes DEF q
<1> QED BY <1>2, <1>3, <1>5

\* Every step of the byte-level tail is a step of the line-level one, or none.
LEMMA StepImplements ==
    ASSUME TailInv, TailInv', Phase, Phase', [Next]_vars
    PROVE  LineLevel!TailNext \/ UNCHANGED LineLevel!tailVars
<1> USE DEF LineLevel!TailNext, LineLevel!tailVars, Phase, readVars, fileVars
<1>1. CASE Open
  <2>1. /\ outcome = "none" /\ outcome' = "none" /\ at = "open" /\ at' = "read"
        /\ opened = 0 /\ opened' # 0 /\ size' = size /\ Len(delivered') = 0
    BY <1>1, EmptySeq DEF Open, TailInv, Unopened
  <2>2. FirstLine' - 1 + 0 \in 0..size \div LineUnits + 1
    <3>1. size \div LineUnits \in Nat
      BY LinesInFile DEF TailInv, Types
    <3> QED BY <1>1, <3>1, BeginsInFile
  <2>3. LineLevel!Begin
    BY <2>1, <2>2 DEF LineLevel!Begin
  <2> QED BY <2>3
<1>2. CASE NeverOpened
  <2>1. /\ at = "open" /\ at' = "done" /\ outcome = "none" /\ opened = 0
        /\ outcome' \in {"context", "neverAppeared", "error"}
        /\ UNCHANGED <<size, opened>>
    BY <1>2 DEF NeverOpened, Return
  <2>2. LineLevel!GiveUp
    BY <2>1 DEF LineLevel!GiveUp
  <2> QED BY <2>2
<1>3. CASE Fill \/ Vanish \/ UNCHANGED vars
  <2>1. UNCHANGED <<size, first, opened, delivered, at, outcome>>
    BY <1>3 DEF Fill, Vanish, vars
  <2> QED BY <2>1 DEF FirstLine
<1>4. CASE TakeLine
  <2>1. /\ HasNewline /\ at = "read" /\ outcome = "none" /\ opened # 0
        /\ UNCHANGED <<size, first, opened>>
    BY <1>4 DEF TakeLine
  <2>2. CASE Unread = LineUnits * Taken
    <3>1. /\ delivered' = Append(delivered, Taken + 1)
          /\ UNCHANGED <<at, outcome>> \/ (at' = "done" /\ outcome' = "done")
      BY <1>4, <2>1, <2>2, WholeDecodes DEF TakeLine, Return
    <3>2. /\ FirstLine' = FirstLine /\ FirstLine \in Nat /\ Len(delivered) \in Nat
          /\ Len(delivered') = Len(delivered) + 1
      BY <2>1, <3>1, FirstLineStarts DEF TailInv, Types, FirstLine
    <3>3. FirstLine - 1 + Len(delivered) < size \div LineUnits
      BY <2>1, <2>2, TakenInFile DEF Taken
    <3>4. FirstLine' - 1 + Len(delivered') = FirstLine - 1 + Len(delivered) + 1
      BY <3>2
    <3>5. CASE UNCHANGED <<at, outcome>>
      BY <2>1, <3>3, <3>4, <3>5 DEF LineLevel!HandOver
    <3>6. CASE at' = "done" /\ outcome' = "done"
      <4>1. State = "reading" /\ State' = "done"
        BY <2>1, <3>6 DEF State
      <4>2. LineLevel!HandOver
        BY <2>1, <3>3, <3>4, <3>6, <4>1 DEF LineLevel!HandOver, State
      <4> QED BY <4>2
    <3> QED BY <3>1, <3>5, <3>6
  <2>3. CASE Unread # LineUnits * Taken
    <3>1. UNCHANGED <<size, first, opened, delivered, at, outcome>>
      BY <1>4, <2>1, <2>3, FragmentDoesNot DEF TakeLine
    <3> QED BY <3>1 DEF FirstLine
  <2> QED BY <2>2, <2>3
<1>5. CASE ReachEOF
  <2>1. /\ ~HasNewline /\ fpos = size /\ at = "read" /\ at' = "eof" /\ opened # 0
        /\ outcome = "none" /\ UNCHANGED <<size, first, opened, delivered, outcome>>
    BY <1>5 DEF ReachEOF
  <2>2. FirstLine - 1 + Len(delivered) >= size \div LineUnits
    BY <2>1, TakenInFile DEF Taken
  <2>3. FirstLine' = FirstLine
    BY <2>1 DEF FirstLine
  <2>4. LineLevel!CatchUp
    BY <2>1, <2>2, <2>3 DEF LineLevel!CatchUp
  <2> QED BY <2>4
<1>6. CASE TimeOut
  <2>1. /\ at = "eof" /\ at' = "done" /\ outcome = "none" /\ outcome' = "context" /\ opened # 0
        /\ opened' # 0 /\ UNCHANGED <<size, first, opened, delivered>> /\ FirstLine' = FirstLine
    BY <1>6 DEF TimeOut, Return, FirstLine
  <2>2. LineLevel!GiveUp
    <3>1. size' \div LineUnits = size \div LineUnits
          /\ FirstLine' - 1 + Len(delivered') = FirstLine - 1 + Len(delivered)
      BY <2>1
    <3>2. State = "reading" /\ State' = "context"
      BY <2>1 DEF State
    <3>3. (at' = "eof") = FALSE
      BY <2>1
    <3> QED BY <2>1, <3>1, <3>2, <3>3 DEF LineLevel!GiveUp, State
  <2> QED BY <2>2
<1>7. CASE Resume
  <2>1. /\ at = "eof" /\ at' = "read" /\ outcome = "none" /\ opened # 0
        /\ UNCHANGED <<size, first, opened, delivered, outcome>> /\ FirstLine' = FirstLine
    BY <1>7 DEF Resume, FirstLine
  <2>2. LineLevel!LookAgain
    BY <2>1 DEF LineLevel!LookAgain
  <2> QED BY <2>2
<1>8. CASE ReadFails
  <2>1. /\ at = "read" /\ at' = "done" /\ outcome = "none" /\ outcome' = "error" /\ opened # 0
        /\ UNCHANGED <<size, first, opened, delivered>> /\ FirstLine' = FirstLine
    BY <1>8 DEF ReadFails, Return, FirstLine
  <2>2. LineLevel!GiveUp
    BY <2>1 DEF LineLevel!GiveUp
  <2> QED BY <2>2
<1>9. CASE Write
  <2>1. /\ UNCHANGED <<first, opened, delivered, at, outcome>> /\ FirstLine' = FirstLine
        /\ size' = size + 1
    BY <1>9 DEF Write, FirstLine
  <2>2. size' \div LineUnits \in {size \div LineUnits, (size \div LineUnits) + 1}
    BY <2>1, LinesInFile DEF TailInv, Types
  <2>3. LineLevel!AppendLine \/ UNCHANGED LineLevel!tailVars
    BY <2>1, <2>2 DEF LineLevel!AppendLine
  <2> QED BY <2>3
<1> QED
  BY <1>1, <1>2, <1>3, <1>4, <1>5, <1>6, <1>7, <1>8, <1>9 DEF Next, Reader

\* The byte-level tail is a line-level one, for lines of any length: Conversation may
\* read its transcript line by line (jsonl.go:114-183).
THEOREM LineTailImplemented == Spec => ImplementsLineTail
<1>1. Init => TailInv /\ Phase /\ LineLevel!TailInit
  <2>1. Init => Phase
    BY DEF Init, Phase
  <2>2. Init => LineLevel!TailInit
    <3>1. 0 \div LineUnits = 0
      BY TailAssumption DEF TailAssumption
    <3> QED BY <3>1 DEF Init, LineLevel!TailInit
  <2> QED BY <2>1, <2>2, InitTail
<1>2. TailInv /\ Phase /\ [Next]_vars => (TailInv /\ Phase)'
  BY NextTail, NextPhase
<1>3. TailInv /\ Phase /\ (TailInv /\ Phase)' /\ [Next]_vars => [LineLevel!TailNext]_LineLevel!tailVars
  BY StepImplements
<1> QED
  BY <1>1, <1>2, <1>3, PTL DEF Spec, ImplementsLineTail, LineLevel!TailSpec
=============================================================================
