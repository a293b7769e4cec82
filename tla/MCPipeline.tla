------------------------------ MODULE MCPipeline -------------------------------
(* Every program of up to three lines of every kind, and every one of up to five  *)
(* of labels and jumps, with a list for two forward jumps.                          *)
EXTENDS Pipeline

CONSTANTS a, b

TwoNames   == {a, b}
AllNumbers == {P!S16(s * n) : s \in {1, -1}, n \in {0, 5, 7, 16, 200, 300, 40000}}
FourMnemonics == {"MOV", "ADD", "JMP", "JE"}

T(kind)    == [kind |-> kind, val |-> 0]
Num(n)     == [kind |-> "NUM", val |-> n]
Name(n)    == [kind |-> "LABEL", val |-> n]
EOL        == T("EOL")
Label(n)   == <<Name(n), T("COLON"), EOL>>
Jump(m, n) == <<T(m), Name(n), EOL>>
Pair(m, r, o) == <<T(m), T(r), T("COMMA")>> \o o \o <<EOL>>

Control == {Label(a), Label(b), Jump("JMP", a), Jump("JE", a), Jump("JE", b), Pair("MOV", "AX", <<Num(300)>>)}
Others  == {<<T("JMP"), Num(200), EOL>>, <<T("JE"), T("MINUS"), Num(5), EOL>>,
            <<T("JMP"), Num(7), T("COLON"), Num(40000), EOL>>,            \* far
            Pair("MOV", "BX", <<T("LSQUARE_BR"), T("BP"), T("RSQUARE_BR")>>),
            Pair("ADD", "AL", <<Num(200)>>),                              \* has no row
            Pair("MOV", "DS", <<T("AX")>>),                               \* fails an assertion
            <<T("BITS"), Num(16), EOL>>, <<EOL>>,
            <<Name(b), T("COLON"), T("MOV"), EOL>>}                       \* no line
Concat(s) == LET all[n \in 0 .. Len(s)] == IF n = 0 THEN <<>> ELSE all[n - 1] \o s[n] IN all[Len(s)]
Lines(S, n) == {Concat(s) : s \in [1 .. n -> S]}

AllPrograms ==
    {p \o <<EOL>> : p \in UNION {Lines(Control \cup Others, n) : n \in 0 .. 3}
                          \cup UNION {Lines(Control, n) : n \in 4 .. 5}}
===============================================================================
