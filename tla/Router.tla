------------------------------- MODULE Router -------------------------------
(* parse_incoming.  A line is a sequence of words in small letters, colons, *)
(* spaces (or line feeds) and characters that cannot be seen; no two words  *)
(* touch.                                                                   *)
EXTENDS Integers, Sequences, SequencesExt

CONSTANTS
    Names,    \* [kind -> the words for it, those of the code and the aliases]
    Order     \* the kinds in the order in which the code compares them

Space == "_"
Colon == ":"
Hidden == "0"

(* A name is a word: aliases lose the spaces and colons at their ends.      *)
ASSUME RouterAssumption ==
    /\ Order \in Seq(DOMAIN Names)
    /\ \A k \in DOMAIN Names : Space \notin Names[k] /\ Colon \notin Names[k]

IsColon(s) == s = Colon
IsSpace(s) == s = Space

(* Without spaces at either end.                                            *)
Strip(line) ==
    LET kept == {i \in DOMAIN line : ~ IsSpace(line[i])}
    IN  IF kept = {} THEN <<>> ELSE SubSeq(line, Min(kept), Max(kept))

(* And without two spaces in a row.                                         *)
Collapse(line) ==
    SelectSeq([i \in DOMAIN line |->
                 IF i > 1 /\ IsSpace(line[i]) /\ IsSpace(line[i - 1]) THEN "" ELSE line[i]],
              LAMBDA s : s # "")

(* _normalize_cmd_text.                                                     *)
Normalize(line) == Strip(Collapse(SelectSeq(Strip(line), LAMBDA s : s # Hidden)))

UpTo(line, Test(_)) ==
    LET i == SelectInSeq(line, Test) IN IF i = 0 THEN line ELSE SubSeq(line, 1, i - 1)

After(line, Test(_)) ==
    LET i == SelectInSeq(line, Test) IN IF i = 0 THEN <<>> ELSE SubSeq(line, i + 1, Len(line))

NoCommand == [kind |-> "none", arg |-> <<>>]
WithArg == {"weather", "time", "msg", "node"}

(* _parse_command_tokens_with_cfg: the first of the kinds that has a name   *)
(* equal to the first token, without the colons at its end.                 *)
ParseTokens(line) ==
    LET token == UpTo(line, IsSpace)
        name  == SubSeq(token, 1, SelectLastInSeq(token, LAMBDA s : ~ IsColon(s)))
        arg   == Strip(After(line, IsSpace))
        match == SelectInSeq(Order, LAMBDA k : \E w \in Names[k] : name = <<w>>)
    IN  IF match = 0 THEN NoCommand
        ELSE [kind |-> Order[match], arg |-> IF Order[match] \in WithArg THEN arg ELSE <<>>]

(* _body_after_channel_label: nothing after the colon leaves all of it.     *)
Body(line) ==
    LET after == Strip(After(line, IsColon)) IN IF after = <<>> THEN line ELSE after

(* Fault: the part after the colon is always taken.                         *)
ParseBody(line) == ParseTokens(Body(Normalize(line)))

(* The whole line, or else what follows the name of the sender.             *)
ParseIncoming(line) ==
    LET text  == Normalize(line)
        whole == ParseTokens(text)
    IN  CASE whole.kind # "none"                       -> whole
          [] whole.kind = "none" /\ Body(text) # text  -> ParseTokens(Body(text))
          [] OTHER                                     -> NoCommand
=============================================================================
