------------------------------- MODULE TextScan -------------------------------
(***************************************************************************)
(* What a search does with one file (src/internal/filesearch/search.go):   *)
(* the whole file is checked to be text, in pieces that may split a        *)
(* character; then its lines are read through a small buffer, one longer   *)
(* than the limit is left out without losing the next, and each match is   *)
(* told until the caller has enough.  The file may be written anew between *)
(* the two.  How a line is matched and shown is left out: a line matches   *)
(* that has an m in it.                                                    *)
(***************************************************************************)
EXTENDS Integers, Sequences, FiniteSets

CONSTANTS MaxBytes,   \* of a file
          BufferSize, \* of the reader, and of a piece that is checked
          LineLimit

VARIABLE sc

\* a byte: one that matches, one that does not, the two of a longer character,
\* a NUL, and the end of a line
Bytes == {"m", "a", "head", "tail", "nul", "cr", "nl"}
Plain == {"m", "nul", "cr", "nl"}
Contents ==
  UNION {[1..n -> Plain] : n \in 0..MaxBytes} \cup UNION {[1..n -> {"m", "a", "head", "tail"}] : n \in 0..4}
Changed == {<<"m", "nl">>, <<"nul", "m">>, <<"m", "head", "nl", "m">>}
AtMost(a, b) == IF a < b THEN a ELSE b
Has(bytes, b) == \E i \in DOMAIN bytes : bytes[i] = b

-----------------------------------------------------------------------------
\* Characters are whole where every first byte is followed by its last.
Valid(bytes) ==
  \A i \in DOMAIN bytes :
    /\ bytes[i] = "head" => i < Len(bytes) /\ bytes[i + 1] = "tail"
    /\ bytes[i] = "tail" => i > 1 /\ bytes[i - 1] = "head"
completeWhole(bytes) == Len(bytes)
completeUTF8Prefix(bytes) ==
  IF bytes # <<>> /\ bytes[Len(bytes)] = "head" THEN Len(bytes) - 1 ELSE Len(bytes)

\* The pieces are read one after another; what is not whole is carried over.
validateTextFile(content) ==
  LET from[pos \in 0..Len(content), carry \in 0..Len(content)] ==
        LET end == AtMost(Len(content), pos + BufferSize)
            buffer == SubSeq(content, pos - carry + 1, end)
            whole == completeUTF8Prefix(buffer)
        IN /\ ~Has(buffer, "nul") /\ Valid(SubSeq(buffer, 1, whole))
           /\ IF end = pos THEN whole = Len(buffer) ELSE from[end, Len(buffer) - whole]
  IN from[0, 0]

-----------------------------------------------------------------------------
\* A fragment ends with the line, the buffer or the file.
Fragment(content, pos) ==
  LET ends == {n \in 1..BufferSize : pos + n <= Len(content) /\ content[pos + n] = "nl"}
      size == IF ends # {} THEN CHOOSE n \in ends : \A m \in ends : n <= m
              ELSE AtMost(BufferSize, Len(content) - pos)
  IN [bytes |-> SubSeq(content, pos + 1, pos + size), end |-> pos + size,
      full |-> ends = {} /\ size = BufferSize, eof |-> ends = {} /\ size < BufferSize]
trimLineEnding(line) ==
  LET n == Len(line) IN
  IF n = 0 \/ line[n] # "nl" THEN line
  ELSE IF n > 1 /\ line[n - 1] = "cr" THEN SubSeq(line, 1, n - 2) ELSE SubSeq(line, 1, n - 1)

\* One line, whole even when it is too long (readBoundedLine).
readGivingUp(content, start) ==
  LET more[pos \in 0..Len(content)] ==
        LET f == Fragment(content, pos)
            line == SubSeq(content, start + 1, f.end)
        IN IF Len(line) > LineLimit + 2 THEN [line |-> <<>>, tooLong |-> TRUE, eof |-> f.eof, end |-> f.end]
           ELSE IF f.full THEN more[f.end]
           ELSE [line |-> line, tooLong |-> Len(trimLineEnding(line)) > LineLimit, eof |-> f.eof, end |-> f.end]
  IN more[start]
readBoundedLine(content, start) ==
  LET more[pos \in 0..Len(content), tooLong \in BOOLEAN] ==
        LET f == Fragment(content, pos)
            line == SubSeq(content, start + 1, f.end)
            long == tooLong \/ Len(line) > LineLimit + 2
        IN IF f.full THEN more[f.end, long]
           ELSE LET over == long \/ Len(trimLineEnding(line)) > LineLimit
                IN [line |-> IF over THEN <<>> ELSE line, tooLong |-> over, eof |-> f.eof, end |-> f.end]
  IN more[start, FALSE]

-----------------------------------------------------------------------------
Init ==
  \E content \in Contents :
    sc = [content |-> content, checked |-> <<>>, phase |-> "check", pos |-> 0, line |-> 1,
          told |-> <<>>, oversized |-> 0]

Validate ==
  /\ sc.phase = "check"
  /\ IF ~validateTextFile(sc.content) THEN sc' = [sc EXCEPT !.phase = "skipped"]
     ELSE \E content \in {sc.content} \cup (IF sc.content = <<"m">> THEN Changed ELSE {}) :
            sc' = [sc EXCEPT !.phase = "read", !.checked = sc.content, !.content = content]

\* The caller stops a search when it has enough.
ReadLine ==
  /\ sc.phase = "read"
  /\ LET r == readBoundedLine(sc.content, sc.pos)
         bytes == trimLineEnding(r.line)
         next == [sc EXCEPT !.pos = r.end, !.line = @ + 1, !.phase = IF r.eof THEN "done" ELSE "read"]
     IN IF r.tooLong THEN sc' = [next EXCEPT !.oversized = @ + 1]
        ELSE IF r.line = <<>> /\ r.eof THEN sc' = [sc EXCEPT !.phase = "done"]
        ELSE IF Has(bytes, "nul") \/ ~Valid(bytes) THEN sc' = [sc EXCEPT !.phase = "changed"]
        ELSE IF Has(bytes, "m")
        THEN \/ sc' = [next EXCEPT !.told = Append(@, sc.line)]
             \/ sc' = [sc EXCEPT !.told = Append(@, sc.line), !.phase = "stopped"]
        ELSE sc' = next

Next == Validate \/ ReadLine

-----------------------------------------------------------------------------
ScanTypeOK ==
  /\ sc.phase \in {"check", "skipped", "read", "done", "changed", "stopped"}
  /\ sc.pos \in 0..Len(sc.content)

\* The lines of a file, by the places of their ends.
LineOf(content, i) == 1 + Cardinality({n \in 1..(i - 1) : content[n] = "nl"})
LineBytes(content, l) ==
  LET own == {i \in DOMAIN content : LineOf(content, i) = l}
      first == CHOOSE i \in own : \A j \in own : i <= j
  IN IF own = {} THEN <<>> ELSE SubSeq(content, first, first + Cardinality(own) - 1)
Length(line) == Len(trimLineEnding(line))
LineCount(content) == IF content = <<>> THEN 0 ELSE LineOf(content, Len(content))

\* A file that is no text is passed over as a whole.
OnlyTextIsRead ==
  sc.phase = "skipped" <=> sc.phase # "check" /\ (Has(sc.content, "nul") \/ ~Valid(sc.content)) /\ sc.checked = <<>>

\* The lines that match are told, each by its number and in order, except those
\* that are too long, which are counted; nothing of a file that is not what was
\* checked is told as if it were text.
LinesAreTold ==
  LET short(l) == Length(LineBytes(sc.content, l)) <= LineLimit
      match(l) == short(l) /\ Has(LineBytes(sc.content, l), "m")
      read == 1..(IF sc.phase = "done" THEN LineCount(sc.content) ELSE sc.line - 1)
  IN sc.phase \in {"read", "done"} =>
       /\ {sc.told[n] : n \in DOMAIN sc.told} = {l \in read : match(l)}
       /\ \A n \in DOMAIN sc.told : n > 1 => sc.told[n - 1] < sc.told[n]
       /\ sc.oversized = Cardinality({l \in read : ~short(l)})
       /\ \A l \in read : short(l) => ~Has(LineBytes(sc.content, l), "nul")
       /\ \A l \in read : short(l) => Valid(LineBytes(sc.content, l))

\* A search tells the lines of text files that match, and only those
\* (validateTextFile, readBoundedLine, scanFile).
ScanIsSound == OnlyTextIsRead /\ LinesAreTold
=============================================================================
