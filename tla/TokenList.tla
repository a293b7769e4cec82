------------------------------- MODULE TokenList -------------------------------
(* Where main, token_list_init and token_list_add put the file and the tokens    *)
(* (asm8086.c:16-31, tokenizer.c:15-33): a composition of Tokenizer and Arena.     *)
(* The arena of main is copied into the list, and every token is a push of its     *)
(* own, while the parser reads token[idx] as the element of one array.              *)
EXTENDS Tokenizer

CONSTANTS
    FirstSize, \* size of main's arena, 1 MB in the code
    MaxBlocks  \* bound: blocks of the arena

ASSUME FirstSizeAssumption == FirstSize \in Nat /\ MaxBlocks \in Nat

VARIABLES
    blocks, handle, request, temps, allocs, \* of the arena
    place,  \* the address of each pushed token, the first, unused one included
    phase   \* what is pushed: "start", "file", "first" or "tokens"

arena == <<blocks, handle, request, temps, allocs>>
listVars == <<vars, arena, place, phase>>

SizeOfToken == 32
FileRequest(size) == [size |-> size, align |-> 8]
TokenRequest == FileRequest(SizeOfToken)

A == INSTANCE Arena WITH
         Handles   <- {"main", "list"}, arenas <- <<>>,
         Requests  <- {TokenRequest} \cup {FileRequest(Len(i)) : i \in Inputs},
         MaxGrowth <- 1, MaxTemps <- 0, MaxAllocs <- MaxTokens + 3

Idle  == request = {} /\ pc = "reading"
Count == Len(place) \* cnt of the list, which counts the first element

(* The address that a push in progress is about to return. *)
Address == \E r \in request :
    place' = Append(place, [block |-> handle[r.handle], start |-> A!Start(r)])

ListInit == Init /\ A!Init /\ place = <<>> /\ phase = "start"

AllocMain == phase = "start" /\ A!Alloc("main") /\ UNCHANGED <<vars, place, phase>>

PushFile ==
    /\ phase = "start"
    /\ A!Push("main", FileRequest(Len(input)))
    /\ phase' = "file"
    /\ UNCHANGED <<vars, place>>

PlaceFile ==
    /\ phase = "file"
    /\ A!PushFits
    /\ UNCHANGED <<vars, place, phase>>

CopyMain == phase = "file" /\ A!Copy("main", "list") /\ UNCHANGED <<vars, place, phase>>

(* Mutant: room for a TokenList, of 24 bytes, and not for a Token. *)
PushFirst_SizeOfList ==
    /\ phase = "file"
    /\ A!Push("list", FileRequest(24))
    /\ phase' = "first"
    /\ UNCHANGED <<vars, place>>

PushFirst ==
    /\ phase = "file"
    /\ A!Push("list", TokenRequest)
    /\ phase' = "first"
    /\ UNCHANGED <<vars, place>>

PlaceFirst ==
    /\ phase = "first"
    /\ A!PushFits
    /\ Address
    /\ phase' = "tokens"
    /\ UNCHANGED vars

(* A block that grows belongs to the handle of the push alone. *)
Grow == A!PushGrows /\ UNCHANGED <<vars, place, phase>>

(* The element behind the last one, and the room of a token's kind in it. *)
BehindInBlock ==
    LET first == place[1] IN first.start + SizeOfToken * Count + 4 <= blocks[first.block].size

(* token_list_add: the push, and then the fields. *)
PushToken ==
    /\ phase = "tokens"
    /\ Idle
    /\ A!Push("list", TokenRequest)
    /\ UNCHANGED <<vars, place, phase>>

AddToken ==
    /\ phase = "tokens"
    /\ A!PushFits
    /\ Read \/ Finish(TRUE)
    /\ Address
    /\ UNCHANGED phase

(* Outside its block the element is memory of somebody else, which may hold the  *)
(* number of TOK_EOL, or which the sanitizer guards.                               *)
EndUnread ==
    /\ phase = "tokens" /\ Idle
    /\ idx >= Len(input)
    /\ ~BehindInBlock
    /\ \/ Finish(FALSE)
       \/ pc' = "aborted" /\ UNCHANGED <<input, behind, idx, token>>
    /\ UNCHANGED <<arena, place, phase>>

AbortRead ==
    /\ phase = "tokens" /\ Idle
    /\ Abort
    /\ UNCHANGED <<arena, place, phase>>

ListNext ==
    \/ AllocMain \/ PushFile \/ PlaceFile \/ CopyMain \/ PushFirst \/ PlaceFirst
    \/ Grow \/ PushToken \/ AddToken \/ EndUnread \/ AbortRead

ListSpec == ListInit /\ [][ListNext]_listVars /\ WF_listVars(ListNext)

------------------------------------------------------------------------------
(* token[k - 1], as the parser reads it, is the k-th element that was pushed. *)
Element(k) == [block |-> place[1].block, start |-> place[1].start + SizeOfToken * (k - 1)]
ReadsBack(k) == place[k] = Element(k)

(* The list is one array as far as the block of its first element goes, whatever *)
(* file was pushed before it, and no further; neither the file nor another token    *)
(* lies over a token; and when all of the list reads back, and with it the element  *)
(* that was tested for TOK_EOL, the list ends with one, where the parser stops      *)
(* (tokenizer.c:18, 27, 111; asm8086.c:25, 52).                                     *)
TokensReadBack ==
    /\ \A k \in 1 .. Count :
           ReadsBack(k) <=> Element(k + 1).start <= blocks[place[1].block].size
    /\ A!NoOverlap
    /\ pc = "done" /\ (\A k \in 1 .. Count : ReadsBack(k)) /\ BehindInBlock =>
           Count = Len(token) + 1 /\ token[Len(token)].kind = "EOL"
===============================================================================
