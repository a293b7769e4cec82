------------------------------- MODULE Tokenizer -------------------------------
(* tokenize (tokenizer.c:97-117): one action per round of its loop.  A file is a   *)
(* sequence of bytes; a token has a kind, the bytes it views and a number.          *)
EXTENDS Integers, Sequences

CONSTANTS
    Inputs,    \* the files
    Unwritten, \* what a byte of the arena that nobody has written may be
    Keywords,  \* token_string: the kind of each word in it
    Modulus,   \* numbers of an u64, 2^64 in the code
    Short,     \* numbers of an u16, 2^16 in the code
    MaxTokens  \* bound: tokens of an input

ASSUME InputsAssumption    == Inputs \subseteq Seq(0 .. 255)
ASSUME MaxTokensAssumption == MaxTokens \in Nat
ASSUME ModulusAssumption   ==
    Modulus \in Nat \ {0} /\ Short \in Nat \ {0} /\ Modulus % Short = 0

VARIABLES
    input,  \* the file
    behind, \* the byte behind it
    idx,    \* bytes read
    token,  \* token_list without its first, unused element
    pc      \* "reading", "done", or "aborted" by a read out of bounds

vars == <<input, behind, idx, token, pc>>

(* char_is_space, char_is_alpha, and char_is_digit for bytes within its table of   *)
(* 128: what it reads for the others is no part of the table.                      *)
Space   == {9, 11, 12, 13, 32}
Alpha   == (65 .. 90) \cup (97 .. 122)
Digit   == 48 .. 57
OutOfTable == 128 .. 255

(* lut_one_character_token: [ ] + - : , 0 and the newline. *)
Marks   == {91, 93, 43, 45, 58, 44, 48, 10}
lut_one_character_token(ch) ==
    CASE ch = 91 -> "LSQUARE_BR" [] ch = 93 -> "RSQUARE_BR" [] ch = 43 -> "PLUS"
      [] ch = 45 -> "MINUS"      [] ch = 58 -> "COLON"      [] ch = 44 -> "COMMA"
      [] ch = 48 -> "ZERO"       [] ch = 10 -> "EOL"
(* Nothing but the tokens above. *)
ASSUME UnwrittenAssumption == Unwritten \subseteq (0 .. 255) \ (Space \cup Alpha \cup Digit \cup Marks)

Byte(k) == IF k < Len(input) THEN input[k + 1] ELSE behind
Text(start, end) == SubSeq(input, start + 1, end)

(* The first offset from k on whose byte is not in S. *)
EndOfRun(k, S) ==
    CHOOSE e \in k .. Len(input) :
        /\ Byte(e) \notin S
        /\ \A m \in k .. e - 1 : Byte(m) \in S

(* The word that has the kind 0 in token_string, "null", becomes a label too. *)
WordKind(word) ==
    IF word \in DOMAIN Keywords /\ Keywords[word] # "NULL" THEN Keywords[word] ELSE "LABEL"

(* Mutant: only the last product is cut to 64 bits, and not the sum. *)
u64_from_string_Saturates(s) ==
    LET x[n \in 0 .. Len(s)] ==
            IF n = 0 THEN 0
            ELSE IF x[n - 1] * 10 + s[n] - 48 >= Modulus THEN Modulus - 1
            ELSE x[n - 1] * 10 + s[n] - 48
    IN  x[Len(s)]

u64_from_string(s) ==
    LET x[n \in 0 .. Len(s)] ==
            IF n = 0 THEN 0 ELSE (x[n - 1] * 10 + s[n] - 48) % Modulus
    IN  x[Len(s)]

Init ==
    /\ input \in Inputs
    /\ behind \in Unwritten
    /\ idx = 0
    /\ token = <<>>
    /\ pc = "reading"

start == EndOfRun(idx, Space)

(* One round: skip blanks, then peek_token adds a token of the kind and returns  *)
(* the offset of its end.  token_list_add keeps the view and the number.          *)
Token(kind, from, end, num) == [kind |-> kind, start |-> from, end |-> end, num |-> num]

Round(kind, end, num) ==
    /\ pc = "reading"
    /\ idx < Len(input)
    /\ Len(token) < MaxTokens
    /\ token' = Append(token, Token(kind, start, end, num))
    /\ idx' = end
    /\ UNCHANGED <<input, behind, pc>>

(* Mutants: a mark taken for two characters; end not moved behind it. *)
ReadMark_TwoWide ==
    /\ Byte(start) \in Marks
    /\ Round(lut_one_character_token(Byte(start)), start + 2, 0)

ReadMark_NoStep ==
    /\ Byte(start) \in Marks
    /\ Round(lut_one_character_token(Byte(start)), start, 0)

ReadMark ==
    /\ Byte(start) \in Marks
    /\ Round(lut_one_character_token(Byte(start)), start + 1, 0)

(* Mutant: a word ends one character early. *)
ReadWord_Short ==
    /\ Byte(start) \in Alpha
    /\ LET end == EndOfRun(start, Alpha) IN
           Round(WordKind(Text(start, end)), IF end = start + 1 THEN end ELSE end - 1, 0)

ReadWord ==
    /\ Byte(start) \in Alpha
    /\ LET end == EndOfRun(start, Alpha) IN Round(WordKind(Text(start, end)), end, 0)

ReadNumber ==
    /\ Byte(start) \in Digit \ Marks
    /\ LET end == EndOfRun(start, Digit) IN
           Round("NUM", end, u64_from_string(Text(start, end)))

(* Mutant: a character that begins no token is passed over. *)
ReadOther_Skips ==
    /\ Byte(start) \notin Marks \cup Alpha \cup Digit
    /\ Round("NULL", IF start < Len(input) THEN start + 1 ELSE start, 0)

(* Any other character: TOK_NULL, and the offset stays where it was.  For a byte  *)
(* out of the table char_is_digit may also say yes, and the loop over the digits   *)
(* then stops at once.                                                             *)
ReadOther ==
    /\ Byte(start) \notin Marks \cup Alpha \cup Digit
    /\ \E kind \in IF Byte(start) \in OutOfTable THEN {"NULL", "NUM"} ELSE {"NULL"} :
           Round(kind, start, 0)

(* The sanitizer build.sh asks for may stop the program at such a byte instead. *)
Abort ==
    /\ pc = "reading"
    /\ idx < Len(input)
    /\ Byte(start) \in OutOfTable
    /\ pc' = "aborted"
    /\ UNCHANGED <<input, behind, idx, token>>

(* The element behind the last token decides whether a TOK_EOL is added: none has *)
(* been written there, so one is, unless it lies outside its block (TokenList).    *)
Finish(added) ==
    /\ pc = "reading"
    /\ idx >= Len(input)
    /\ token' = IF added THEN Append(token, Token("EOL", Len(input), Len(input), 0)) ELSE token
    /\ pc' = "done"
    /\ UNCHANGED <<input, behind, idx>>

Read == ReadMark \/ ReadWord \/ ReadNumber \/ ReadOther
Next == Read \/ Abort \/ Finish(TRUE)

Spec == Init /\ [][Next]_vars /\ WF_vars(Next)

------------------------------------------------------------------------------
Kinds  == {"NULL", "LABEL", "NUM", "EOL", "LSQUARE_BR", "RSQUARE_BR", "PLUS", "MINUS",
           "COLON", "COMMA", "ZERO"} \cup {Keywords[word] : word \in DOMAIN Keywords}
Token_ == [kind : Kinds, start : Nat, end : Nat, num : 0 .. Modulus - 1]

(* The next character is within the file, and a token is one of the kinds that    *)
(* the tables name with a number of an u64 (tokenizer.c:44-117).                   *)
TypeOK ==
    /\ input \in Inputs
    /\ behind \in Unwritten
    /\ idx \in 0 .. Len(input)
    /\ token \in Seq(Token_)
    /\ pc \in {"reading", "done", "aborted"}

Covers(t, p) == t.start <= p /\ p < t.end

(* The tokens are the file, cut where the classes change: in the order of the    *)
(* file, each byte read that is no blank in exactly one token, a word neither      *)
(* split nor joined with its neighbour, and a number not split, whatever stands    *)
(* next to it and behind the file (tokenizer.c:56-90, 99-109).                     *)
TokensTile ==
    /\ \A k \in 1 .. Len(token) : token[k].start <= token[k].end /\ token[k].end <= idx
    /\ \A k \in 1 .. Len(token) - 1 : token[k].end <= token[k + 1].start
    /\ \A p \in 0 .. idx - 1 : Byte(p) \notin Space =>
           \E k \in 1 .. Len(token) : Covers(token[k], p)
    /\ \A k \in 1 .. Len(token) : \A p \in token[k].start .. token[k].end - 1 :
           Byte(p) \notin Space
    /\ \A k \in 1 .. Len(token) :
           LET t == token[k] IN
           t.start < t.end =>
               /\ Byte(t.start) \in Alpha =>
                      (t.start = 0 \/ Byte(t.start - 1) \notin Alpha) /\ Byte(t.end) \notin Alpha
               /\ t.kind = "NUM" /\ Byte(t.start) \in Digit => Byte(t.end) \notin Digit

(* Numbers are kept modulo 2^64, and the parser cuts them to 2^16 (parser.c:522): *)
(* what is left is what the digits of the file say, for numerals of any length      *)
(* (string.c:240-251).                                                             *)
NumeralsKept ==
    \A k \in 1 .. Len(token) :
        LET t == token[k]
            value[n \in 0 .. t.end] ==
                IF n <= t.start THEN 0 ELSE (value[n - 1] * 10 + input[n] - 48)
        IN  t.start < t.end /\ Byte(t.start) \in Digit \ Marks => t.num % Short = value[t.end] % Short

(* Every file of characters the tables know is read to its end. At any other one  *)
(* the loop stays (tokenizer.c:45-95).                                              *)
Known    == Space \cup Alpha \cup Digit \cup Marks
Readable == \A p \in 0 .. Len(input) - 1 : Byte(p) \in Known
Returns  == Readable => <>(pc # "reading")

(* No character is dropped in silence, and none gives the parser a token without a *)
(* kind: a file whose list is done has only characters that the tables know, and   *)
(* a TOK_NULL in that list was read behind blanks at the end of the file            *)
(* (tokenizer.c:45-109).                                                            *)
KnownTokens ==
    pc = "done" =>
        /\ Readable
        /\ \A k \in 1 .. Len(token) : token[k].kind = "NULL" => token[k].start = Len(input)
===============================================================================
