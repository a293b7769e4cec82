------------------------------- MODULE MCParser -------------------------------
(* Every sequence of up to four tokens, every address of up to five tokens between *)
(* brackets, every pair of operands with and without prefixes, and every three     *)
(* lines.                                                                          *)
EXTENDS Parser

CONSTANTS a, b

T(kind)      == [kind |-> kind, val |-> 0]
Num(n)       == [kind |-> "NUM", val |-> n]
Name(n)      == [kind |-> "LABEL", val |-> n]
TwoMnemonics == {"MOV", "JE"}

Symbols  == {T(k) : k \in {"MOV", "BITS", "AX", "BP", "ES", "BYTE", "LSQUARE_BR", "RSQUARE_BR",
                           "PLUS", "MINUS", "COLON", "COMMA", "ZERO", "EOL", "NULL", "REP"}}
                \cup {Num(5), Name(a)}
Inside   == {T(k) : k \in {"BX", "BP", "SI", "DI", "PLUS", "MINUS", "ZERO"}} \cup {Num(200)}
Strings(S, most) == UNION {[1 .. n -> S] : n \in 0 .. most}

Mov(s)       == <<T("MOV")>> \o s
Brackets(s)  == <<T("LSQUARE_BR")>> \o s \o <<T("RSQUARE_BR")>>
Before       == {<<>>, <<T("WORD")>>, <<T("ES"), T("COLON")>>,
                 <<T("BYTE"), T("DS"), T("COLON")>>, <<T("WORD"), T("BYTE")>>}
Bodies       == {<<T("AL")>>, <<T("SI")>>, <<T("CS")>>, <<Name(b)>>, <<T("ZERO")>>, <<Num(65543)>>,
                 <<T("MINUS"), Num(32768)>>, <<Num(7), T("COLON"), Num(40000)>>,
                 Brackets(<<Num(300)>>), Brackets(<<T("MINUS"), Num(5)>>), Brackets(<<T("ZERO")>>),
                 Brackets(<<T("BX"), T("PLUS"), Num(128)>>), Brackets(<<T("DI"), T("MINUS"), Num(128)>>),
                 Brackets(<<T("PLUS"), T("BX"), T("PLUS"), T("SI"), T("MINUS"), Num(40000)>>),
                 Brackets(<<T("BP")>>)}
Operands2    == {p \o q : p \in Before, q \in Bodies}
Lines        == {<<>>, <<Name(a), T("COLON")>>, <<Name(b), T("COLON")>>, <<T("BITS"), Num(16)>>,
                 Mov(<<T("AL"), T("COMMA")>> \o Brackets(<<T("BP")>>)), Mov(<<T("WORD"), T("SI")>>),
                 Mov(<<>>), <<Name(a), T("COLON"), T("MOV")>>, <<T("JE"), Name(a)>>,
                 <<T("REP"), T("LOCK")>> \o Mov(<<T("AL")>>)}

Ended(s)     == s \o <<T("EOL"), T("EOL")>>
AllPrograms  ==
    {Ended(s) : s \in Strings(Symbols, 4)
                  \cup {Mov(Brackets(s)) : s \in Strings(Inside, 5)}
                  \cup {Mov(p \o <<T("COMMA")>> \o q) : p \in Operands2, q \in Operands2}
                  \cup {p \o <<T("EOL")>> \o q \o <<T("EOL")>> \o r : p, q, r \in Lines}}

(* mov ax, [0] *)
ZeroAddress  == {Ended(Mov(<<T("AX"), T("COMMA")>> \o Brackets(<<T("ZERO")>>)))}
===============================================================================
