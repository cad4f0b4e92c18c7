------------------------------ MODULE TextUtil ------------------------------
(* Clipping and packing of texts by their size in UTF-8.  A text is the     *)
(* sequence of the sizes of its characters; a line feed takes one byte.     *)
EXTENDS Integers, Sequences, FiniteSetsExt

Bytes(text) ==
    LET size[n \in 0 .. Len(text)] == IF n = 0 THEN 0 ELSE size[n - 1] + text[n]
    IN  size[Len(text)]

(* The longest part of a text at its beginning that is allowed: a character *)
(* that would be cut in two is dropped.                                     *)
ClipUtf8(text, max) ==
    SubSeq(text, 1, Max({n \in 0 .. Len(text) : n = 0 \/ Bytes(SubSeq(text, 1, n)) <= max}))

Join(lines) ==
    LET text[n \in 0 .. Len(lines)] ==
          IF n = 0 THEN <<>> ELSE IF n = 1 THEN lines[1] ELSE text[n - 1] \o <<1>> \o lines[n]
    IN  text[Len(lines)]

(* Fault: the line feed between two lines is not counted.                   *)
JoinedSizeBare(size, line) == size + Bytes(line)

JoinedSize(size, line) == size + 1 + Bytes(line)

(* One line more: with the current ones, or in a chunk of its own.          *)
Flushed(packed) ==
    IF packed.current = <<>> THEN packed.chunks ELSE Append(packed.chunks, packed.current)

PackLine(packed, line, max) ==
    CASE Bytes(line) > max ->
           [chunks |-> Append(Flushed(packed), <<ClipUtf8(line, max)>>), current |-> <<>>, size |-> 0]
      [] Bytes(line) <= max /\ packed.current # <<>> /\ JoinedSize(packed.size, line) <= max ->
           [packed EXCEPT !.current = Append(@, line), !.size = JoinedSize(@, line)]
      [] OTHER ->
           [chunks |-> Flushed(packed), current |-> <<line>>, size |-> Bytes(line)]

(* pack_lines_utf8_chunks: the chunks, each the sequence of its lines.      *)
PackLines(lines, max) ==
    LET packed[n \in 0 .. Len(lines)] ==
          IF n = 0 THEN [chunks |-> <<>>, current |-> <<>>, size |-> 0]
          ELSE PackLine(packed[n - 1], lines[n], max)
    IN  Flushed(packed[Len(lines)])

(* The parts of an answer to the node command, each with the mention of the *)
(* one who asked before it.                                                 *)
NodeParts(mention, lines, max) ==
    LET budget == Max({1, max - Bytes(mention)})
        chunks == PackLines(lines, budget)
    IN  [i \in DOMAIN chunks |-> ClipUtf8(mention \o Join(chunks[i]), max)]
=============================================================================
