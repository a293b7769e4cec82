----------------------------- MODULE MCTokenList ------------------------------
(* Files of up to four bytes of a sample of each class, and files of three words, *)
(* numbers and marks next to each other or with blanks between them and behind     *)
(* the last, and files with a character that begins no token.  Three tokens fit the *)
(* first block with a file of up to eight bytes.                                    *)
EXTENDS TokenList, TLC

Sample == {97, 57, 48, 91, 10, 32}
aaa    == <<97, 97, 97>>
num    == <<110, 117, 109>>
count  == <<99, 111, 117, 110, 116>>
null   == <<110, 117, 108, 108>>
label  == <<90, 111, 122>>  \* Zoz
Chunks == {aaa, num, count, null, label, <<32>>, <<58, 10>>, <<51, 48, 48>>, <<57, 57>>, <<48>>}
Strings(S, n) == UNION {[1 .. k -> S] : k \in 0 .. n}
Blanks == [k \in 1 .. 150 |-> 9]

Comments == {<<59>>, <<97, 200>>, <<32, 64, 97>>}  \* a semicolon, a byte of no table, an @
Files    == Strings(Sample, 4) \cup {a \o b \o c : a, b, c \in Chunks} \cup {Blanks \o aaa} \cup Comments
Words    == aaa :> "AAA" @@ num :> "NUM" @@ count :> "COUNT" @@ null :> "NULL"
Behind   == {0, 190}
===============================================================================
