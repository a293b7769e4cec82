# A verification development for asm8086

asm8086 reads an assembly source for the 8086, tokenizes it, parses it line by
line, emits machine code as it goes, patches the jumps whose labels were read
after them, and writes the bytes to `./resources/test_one_instruction.bin`. This directory holds TLA+
models of its parts, configurations that check them with TLC on small instances,
and proofs checked by TLAPS.

Paths and line numbers refer to `src/`.

## 1. Inventory

One process, one thread. What makes the program hard is not concurrency but
state that is written at one point and trusted much later: links of a hash map,
holes in code that has been emitted, handles of an allocator that were copied
before it grew, counters that nobody compares with a length.

| Part | State | Operations | Files |
|------|-------|------------|-------|
| Arena | blocks (`size`, `pos`, `prev`), `Arena *` handles | `arena_alloc`, `arena_push`, `arena_clear`, `arena_release`, `temp_begin`, `temp_end`, `scratch_get` | arena.c, arena.h |
| Tokenizer | file, `idx`, the token list | `tokenize`, `peek_token`, `token_list_init`, `token_list_add` | tokenizer.c |
| Label map | `index_array`, `collision_array`, `offset`, `first_free` | `maplabel_init`, `_find`, `_insert`, `_pop` | parser.c:693-780 |
| Patch list | `addr_to_patch`, `cnt`, `len` | `list_addrtopatch_add` | parser.c:782-796 |
| Parser | `token_list.idx`, the `Instruction` being filled | `parse_line` and one function for each production of grammar.txt | parser.c:70-691 |
| Codegen | `g_instruction_pointer`, bytes in `codegen_arena` | `codegen`: row search, one emitter for each field of a row | codegen.c, tables.h |
| Main loop | all of the above | read lines, comment dump, patch loop, write | asm8086.c |
| Generic hash map | `index_array`, `collision_array`, `offset`, `first_free` | `hashmap_init`, `_find`, `_insert`, `_pop` | hashmap.c |
| Strings, utilities | none | comparison, classes of characters, number conversion | string.c, utils.c |

Interactions:

- `main` allocates two arenas. One holds the file, the tokens and the token list;
  the other, `codegen_arena`, holds in this order the label map's slots, the
  patch list and the machine code. Nothing marks the borders between them.
- `parse_line` inserts the label of a line into the map before the rest of the
  line is parsed (parser.c:122), and gives it `g_instruction_pointer`.
- `codegen` looks a label up for the operand of a jump (codegen.c:326, 357).
  When it is there the operand is computed; otherwise zeros are emitted and the
  place is recorded in the patch list.
- After the last line the patch loop (asm8086.c:88-110) looks every recorded
  name up again and writes the operand.
- The bytes are written to the file only if every line was accepted, but the
  file is opened, and so truncated, before the first line is read
  (asm8086.c:33-38).

Hard behaviours, and what makes each part correct:

- *Label map*. Long sequences of insert and pop on colliding names: no slot may be
  lost, be on two lists, or hold a second copy of a name; `maplabel_pop` writes
  through a pointer to the link it walked over; walks must end.
- *Jumps*. A displacement is computed at two places from two different moments.
  Whichever it is, the processor must arrive at the label. Patches must not touch
  other bytes. Distances are cut to 16 and to 8 bits.
- *Codegen arena*. Two arrays of fixed length next to each other, one of them
  allocated with the size of another type.
- *Arena*. A push through one handle grows the arena behind the back of a copy.
  A temp rewinds the block it began in, although the arena may have grown since.
- *Tokenizer*. The boundaries: end of file, what lies behind it, runs that touch, bytes
  that begin no token or that no table knows. Numbers wrap at 2^64 and are cut to 16 bits
  later. Tokens are pushed one by one and read as one array, and the element behind
  the last one is tested before it was written.
- *Parser*. Alternatives are tried in turn and leave what they parsed in operand
  records; numbers are cut to 16 bits. What codegen reads is a global record that
  every line must reset.
- *The whole*. Parser, codegen and main share the label map, the instruction pointer, the
  instruction of the line and the list of addresses, and none of them is passed.
- *Codegen*. The encoding of an instruction is spread over the order of the rows, the
  bits of a row, the parser's `mod` and `rm`, and one emitter for each field. Two counts
  of the same bits must agree: those shifted in and `enc.bitlen`.

There are no crashes or restarts to recover from (nothing is persisted but the
output), no messages, no timeouts.

## 2. Modules

| Module | Models | Refines |
|--------|--------|---------|
| `LabelTable` | what callers may expect of the label map: a partial function | |
| `HashMap` | hashmap.c, the generic map: one step for each call | |
| `LabelMap` | parser.c:693-780, one step for each round of a chain walk | `LabelTable`, `HashMap` |
| `JumpResolution` | what callers may expect of an assembler: every jump that can reach its label goes there | |
| `Assembler` | asm8086.c:51-115 with what parser and codegen do to labels, jumps and the patch list | `JumpResolution` |
| `CodegenArena` | the start of `codegen_arena` as one memory of 32-byte cells | |
| `Arena` | arena.c:16-150 | |
| `Tokenizer` | tokenizer.c:9-117 on the bytes of a file | |
| `TokenList` | `Tokenizer` and `Arena` composed: where main, `token_list_init` and `token_list_add` put the file and the tokens | |
| `Operands` | the operand records (parser.h:40-90), how `parse_operand` fills them, the register tables | |
| `Parser` | the loop over lines (asm8086.c:51-58) with parser.c:70-691 | |
| `Grammar` | reference for `Parser`: grammar.txt, production by production, as sets of sequences; what an operand says, its flags, `mod` and `rm`, read off its tokens without parsing them | |
| `InstTable` | the 192 rows of tables.h:166-358 | |
| `Encoder` | `codegen` (codegen.c:3-412) and the storing of its bytes (asm8086.c:60-72) | |
| `Decoder` | reference for `Encoder`: how an 8086 reads bytes, from its opcode map | |
| `Pipeline` | `Parser` and `Encoder` composed with main's own steps (asm8086.c:44-115), down to the bytes of the file | `Assembler` |
| `MC...` | the values that TLC gives to the constants | |
| `...Proofs` | the theorems of section 4; those that need it begin with induction on finite sets of numbers (`SetInduction`) | |

How they correspond to the code:

**LabelMap.** The variables are the fields of `MapLabel`. Slots are numbers, 0 is
"no slot" as in the code. `idx` and `prev` are the locals of a walk; `prev` says
whose `next` field `idx_ptr` addresses, with 0 for the bucket. `maplabel_insert`
runs `maplabel_find` inside an `assert`, so both share the walk. `HasRoom` is the
limit of the model, not of the code: the code never compares `offset` with the
length of the array. What happens at that limit is the subject of `CodegenArena`.

**HashMap.** hashmap.c is the map that the label map was written from; the README of the
repository (README.md:17) names it as the one for labels, but no file of the program
includes it. Each call is one step, its walk the sequence of the slots of a chain. The arrays
are taken as zeroed. `LabelMap!ImplementsHashMap` maps an element to a name: the steps of a
walk stutter and its last step is the call.

**Assembler.** One step is one line (`ReadBlock` may stand for several lines with
neither labels nor jumps, or for an instruction that fits no row and emits
nothing, codegen.c:410). Only the operands of jumps are kept of the code, so
`image` is a partial function from positions to bytes. `labels` is what
`maplabel_find` would return, which `LabelMap` justifies. The two jump rows with a
label for operand, and their rows with a number, are `jmp` (16 bits) and `je`
(8 bits), tables.h:352-358. Distances are integers that are cut to bytes when
they are stored (`LowByte`, `HighByte`), and positions in the patch loop are cut
to 16 bits (`% Word`), as asm8086.c:93-97 does. `jumps` is a history variable. The
model has the ends of the program: written, rejected (`return 1`), aborted
(a failed `assert` of labels and patches), and unencodable (the one of codegen.c:122, at any
instruction as far as this model knows; `Pipeline` says at which).

**Pipeline.** `Parser` and `Encoder` as they are, instantiated with one label map, one
instruction pointer and one list of addresses, and main's steps between them. A line is parsed in
one step (`ParseLine`), encoded field by field (`EncodeField`), stored (`StoreLine`), and
the list patched into `code`, which is the bytes of the file. `listing` and `jumps` are history
variables. The refinement mapping to `Assembler` keeps of `code` the operands of the jumps
(`Image`) and of the label map the positions (`Labels`), and takes the fields of an instruction for
one step (`Phase`). `Assembler` has a bound on the code, `MaxCode`; `Pipeline` has none, as main has none.

**CodegenArena.** A `MapLabelEl` and an `AddrToPatch` have 32 bytes each and fill
one cell each, with fields that coincide. `LabelCells` is the number of cells that
an allocation of `LabelLen` elements of 24 bytes gives. The actions stop once a slot
was overwritten: what the program does from there on is not determined.

**Arena.** Blocks are numbered in the order of their allocation and are never
reused. A handle is a variable of type `Arena *`. `Copy` is a by-value argument or
a struct field (tokenizer.c:19). `arena_push` is `Push` followed by one `PushGrows`
for each block it adds and by `PushFits`. The addresses an allocation views are
`start .. start + size - 1` of its block. `arena_clear` and `arena_release` are called
only on blocks that no other handle and no temp needs (`MayFree`); the code leaves
this to callers. `arenas` are the handles of `ctx_local`; `scratch_get` compares the blocks that
the handles address. When all of them conflict it reads through `NULL`, which the action leaves
out, and nothing in the program calls it.

**Tokenizer.** One step is one round of the loop of `tokenize`. `Byte(k)` is `input.str[k]`, and
behind the end of the file what the arena's memory holds there: any byte that begins no
word, number or mark, zero or the fill pattern of a sanitizer. That is why a file that ends
with a blank, whose blanks the loop at tokenizer.c:103 skips past the end, gets a
`TOK_NULL`. `char_is_digit` has a table of 128: for other bytes it may say yes or no
(`ReadOther`), or the sanitizer that build.sh asks for stops the program (`Abort`).
`Keywords` is `token_string`; `u64_from_string` wraps at `Modulus`.

**TokenList.** Main's handle is copied into the list (tokenizer.c:19), so both push from the same
block. `place` are the addresses that the pushes return. `ReadsBack(k)` says that `token[k - 1]`, as
the parser reads it, is the k-th element pushed. Whether the element behind the last one lies in
the block (`BehindInBlock`) decides what the test at tokenizer.c:111 reads: memory never
written, which is no `TOK_EOL`, or memory of somebody else (`EndUnread`).

**Operands.** `OperandKind` and the two prefixes are flags in the code and sets here. A
record that a branch of `parse_operand` leaves at `{0}` has the fields of `NoOperand`. Numbers
are `s16`: `S16` is the cast of the `u64` of a token, and also of a negation. `IsOperand` are the
records that codegen may be handed: `Encoder` assumes it of its `Calls`, and `Parser!TypeOK` says
that the parser hands over nothing else.

**Parser.** One step is one round of main's loop, that is, one line; `parse_*` of the code is
an operator of the same name with the token list and a position, whose result says whether it
succeeded, what it leaves in `*idx` and what it leaves in its out parameter, whether it
succeeded or not. A chain of `parse_terminal` whose `*idx` is restored on failure is a
look at successive tokens; an ignored result is `Optional`. `idx` counts from 1 as in
main, where `token[0]` is the null token. `instruction` is the global `instruction_data` after
the line. `IsProgram` is what `TokenList` shows of a token list: it ends with a `TOK_EOL`, and
numbers have a value. The prefixes of mnemonics (`rep`, `lock`) are a TODO of the code:
`parse_prefix` fails always (parser.c:264-270), so no operator stands for it.

**Grammar** is grammar.txt as it stands, with the mnemonics for a parameter: grammar.txt lists three of
them (`Listed`), tables.h:4-49 names 45, and the parser takes all of these. The parser falls short of grammar.txt
in two places, and `Parser!IsParsed` names them: a line that begins with a prefix (grammar.txt:21-22, 48-54)
and a line with 0 for an address (grammar.txt:68-69, parser.c:549) are none for it. `LinesInGrammar`
says that these two are all: every other line of the grammar is accepted, and nothing else. That a
line of grammar.txt is refused at all is `GrammarLinesAccepted`, which fails (section 5). In the same way
`OperandsMeant` compares the record with what the tokens say after putting back the one thing that is
known to be lost, the sign of a direct address (`WithSign`, parser.c:562).

**InstTable.** `Table[m]` is the sequence of the rows of `m` in the order of tables.h. Rows that
differ in an opcode only are written once, as an operator; the result was compared row
by row with the macro.

**Encoder.** One step is one field of the row. `encoding` is the sequence of the bits that
`enc.encoding` has been given, so that a shift and an or append to it, and `bitlen` is kept
apart as in the code. The label map is the position of the one label that the instruction
names. `pc` is "dropped" when no row fits and "aborted" at the assertion of codegen.c:122.

## 3. Model checking

| Run | Checks |
|-----|--------|
| `LabelMap` | lists partition the slots; labels are in the chain of their hash, once; the cursor and `idx_ptr` agree; the map implements `LabelTable` and `HashMap`; calls return |
| `Assembler` | jumps land; the patch list is exactly the forward jumps; a patch touches one operand; `Assembler` implements `JumpResolution`, across bit 15 of positions too; every input comes to an end |
| `CodegenArena` | while the slots suffice no label and no entry is overwritten, and lookups are right |
| `Arena` | allocations lie in live blocks behind the header and do not overlap; a push returns |
| `TokenList` | tokens tile the file; numbers keep their value modulo 2^16; no character is dropped and no token without a kind stands within the file; the list is one array as long as its block lasts and ends with a `TOK_EOL`; every file made of known characters is read to its end |
| `Parser` | it accepts the lines of grammar.txt but those with a prefix or with 0 for an address, and no others, hands codegen what they say but for the sign of a direct address, with the flags, `mod` and `rm` of each operand, and every line advances |
| `Encoder` | an 8086 reads the bytes as the instruction that was written; counted bits are emitted bits; the place of a patch is the empty operand of its jump |
| `Pipeline` | the bytes of the file are one instruction of the program after the other, without a gap, and its jumps go to its labels; the composition implements `Assembler` |
| `Assembler_short`, `CodegenArena_labels`, `Parser_zero`, `Encoder_size` | fail: see section 5 |

Bounds, and why they are enough:

- `LabelMap`: four names, three of which collide, two buckets, three slots. Three names
  in one chain give a head, a middle and an end to unlink, and the fourth finds no slot.
  The one position is not 0, so that it differs from that of slot 0.
- `Assembler`: five lines are enough for two labels, two jumps and a block between
  them; blocks of 126 to 128 bytes put a short jump just inside and just outside its
  reach in both directions; a block of 32766 crosses bit 15. `PatchLen` is 2 so that the
  list fills. `MaxCode` is 65535: one segment.
- `CodegenArena`: four labels allocated give three cells, one of which is slot 0:
  the same effect as 100 and 75.
- `Arena`: a first block of 24 + 16 bytes, requests for which it suffices, must
  double once and must double twice; four blocks, two handles, two temps, two
  allocations at a time. `MaxGrowth` keeps blocks back so that a bound never stops a
  push that the code would serve.
- `TokenList`: every file of up to four bytes of a letter, a digit, zero, a mark, a newline and
  a blank, so that any three classes meet with a blank at either end; every file of three words,
  numbers and marks; one with 150 blanks, which does not fit the first block. The block has room
  for a file of eight bytes and three tokens, so the list is cut after its first, second or third
  element or not at all. `Modulus` is 256 and `Short` 16: the three digits of 300 and the five of 99300
  wrap. Behind a file lies 0 or 190. Three files have a `;`, an `@` or a byte of no table: there the
  loop stays and adds tokens (`MaxTokens` of them), so `Returns` does not speak of them (`Readable`).
- `Pipeline`: every program of up to three lines of fifteen kinds (labels, jumps to labels and numbers, a
  far jump, moves, an instruction without a row, one that fails the assertion, a bits
  line, an empty line, a line that is none) and every one of up to five labels, jumps and moves,
  with a list for two forward jumps. A mistake in what is shared shows on the next line, and a jump
  backward or forward over one that is patched takes four. `MaxCode` is 36, six bytes for each of the
  `MaxLines` lines, so the bound of `Assembler` admits the code of every program. The
  assumptions on `Programs` (lists that end with an `EOL`, whose names and numbers are in `Names` and
  `Numbers`) and on the rows of jumps (`JumpRowsAssumption`) are evaluated by this run.
- `Parser`: every sequence of up to four tokens of all kinds, so that each alternative fails
  at each of its tokens; every sequence of up to five tokens between brackets (the longest
  address has five and a leading plus six: it is among the pairs); every pair of operands with and
  without prefixes; and every three lines, in which something could be left over. Prefixes of mnemonics,
  0 and a negated number for an address are among them.
  Numbers lie on both sides of a signed byte, of bit 15 and of 2^16.
- `Encoder`: every mnemonic with none, one or two operands out of 47: registers of both widths
  with and without a role, every shape of address with displacements -32768, -129, -128, 0, 127 and
  200, numbers at the same edges, each address with BYTE, WORD and neither. Every row but
  tables.h:181 is taken, and every row but that one, the two of `aam` and `aad` with an operand and
  that of `je` with a number is taken by an instruction that `DecodesToSource` speaks of.

Every bound is a constant with `Max` in its name, or `PatchLen`, `LabelLen`,
`Capacity`; the inputs of `Parser` and `Encoder` are the sets `Programs` and `Calls`.

What `DecodesToSource` leaves out (`InLanguage` in `Encoder`): operands whose widths are
not said or contradict one another, numbers that do not fit, ports that are not `dx` or a
byte, shifts by anything but 1 or `cl` (the code takes every number for 1 and every byte register
for `cl`, see the TODO at tables.h:360), `aam` and `aad` with an operand, `je` to a number, and
short jumps out of reach; and, since it is a finding of its own, numbers to memory whose width is
not the one said.

Fairness: there is one thread and it never waits. `Assembler` and `TokenList` have weak
fairness on their next-state relation. In `LabelMap` and `Arena` only an operation that has begun is fair
(`Run`, `PushFits \/ PushGrows`): nothing obliges a caller to begin one.

`Parser` and `Encoder` have none and need none: that each step advances is an action property or
the shape of the loop over the fields. `Pipeline` has none either: `ImplementsAssembler` is about
its steps, and that the program ends is checked of `Assembler`.

`CHECK_DEADLOCK FALSE` stands where the program stops (all ends of `Assembler` and
`Parser`, the ends of `TokenList` and `Pipeline`, and of an instruction in `Encoder`, an aborted `maplabel_insert`) or a bound stops the model
(`CodegenArena`, `Arena`, `TokenList` at a character that begins no token).

## 4. Proofs

All theorems hold for every value of the constants that the `ASSUME`s of the
modules admit. None of them relies on the small instances.

**LabelMapProofs**: `TypeCorrect`, `PartitionCorrect`, `FindableCorrect`, `CursorCorrect`,
`TableImplemented`. `ListsPartitionSlots` speaks of the slots that can be reached from a
bucket, which no step determines locally. The invariant adds, as witnesses, that
there are functions `home` and `rank` on the slots: every slot handed out belongs to one
list, a link leads from a slot to one of the same list with the next smaller rank, and
a list has one slot of each rank. Then reachability is the same as having that home
(by induction on sets of slots), walks make progress, and an insert or a pop
changes the two functions in a way that is written down explicitly. The walk of a call
knows that the names it has passed differ from its own, which makes a name inserted
after a failed walk new. `TableImplemented` says that initial states and steps are
those of `LabelTable` or stutter.

In the same module `HashMapImplemented`: the whole of `HashMap!Spec`. The walk of `HashMap` is a
recursive function, whose value is shown to exist by induction. The invariant adds to the above
that the cursor is at some test `n` of this walk, that no slot before it holds the
name and that `prev` is the slot of test `n - 1`. Ranks fall along a walk, so it passes no slot
twice, and a chain has at most `Capacity` slots: `Capacity` tests are enough. Where a call
ends, `n` is where the walk of `hashmap.c` stops.

**AssemblerProofs**: `TypeCorrect`, `LandingCorrect`, `ListCorrect`, `PatchCorrect`,
`ResolutionImplemented`, all under `OneSegment == MaxCode < 65536`. Without this
assumption `PatchesInPlace` is false: TLC finds it violated with `MaxCode` 70000,
because asm8086.c:94 cuts the place of a patch to 16 bits. The invariant adds to the checked
properties: jumps do not overlap (so a patch of one leaves the others alone), each
entry is that of a jump and lies ahead of what was patched, the labels of waiting jumps lie
behind these, and every jump whose label was not known is listed.
`ResolutionImplemented` proves the whole of `JumpResolution!Spec`, which has no
fairness, through `Init` and every step.

**CodegenArenaProofs**: `TypeCorrect`, `LabelsKept`, `EntriesKept`, `LookupsRight` under `FewLabels == MaxLabels <
LabelCells`. With the 100 of the code that is 74 labels. The bound is sharp: one
more label overwrites the first entry (run `CodegenArena_labels`). `LookupsRight` adds to the
invariant that a slot links to the one before it. The walk of `maplabel_find` is a recursive
function: that it has a value is shown by giving one (from each slot the greatest slot below it
where the walk stops), and what it finds by induction on the slots, as a set of numbers.

**ArenaProofs**: `TypeCorrect`, `BoundsCorrect`, `OverlapCorrect`, for all sizes, alignments, handles
and depths of temps. Beside the two properties the invariant says: the handle of a
push in progress has a block, the chain of a block is itself and the chain of its
predecessor, handles address live blocks, a temp's position is that
where its block stood and everything it keeps lies before it, and temps that began
later in the same block stand further on (without this an outer `temp_end`
could lift a position that an inner one had lowered).

**TokenListProofs**: `TypeCorrect`, `TilingCorrect`, `NumeralsCorrect`, `KnownCorrect`, for every file, whatever its
storage: the steps of `TokenList` are those of `Tokenizer` or leave its variables alone. The
invariant adds to the tiling that reading never stops within a word (`Boundary`), without which
the next round would read the rest of it as another word. That a run ends within the file
needs the assumption on what lies behind it (`UnwrittenAssumption`). `NumeralsCorrect` shows that
`u64_from_string`, which wraps, and the value of the digits have the same rest after each
digit, because 2^64 is a multiple of 2^16 (`ModulusAssumption`).

`KnownCorrect` rests on the invariant that what has been read is known and that a token without a kind stands
at a character that is not, so that one within the file keeps the loop from its end for ever.

In the same module `ReadBackCorrect`, for every file, every first size of the arena and any number
of blocks. It cites the invariant of **ArenaProofs** through an instance (the steps of the arena in
`TokenList` are those of `Arena`) and the one above, and adds two parts: while the list
has one block, the places follow each other from a multiple of 8 up to the position of that
block, so the next aligned push lies at the next element; once it has grown, a first part
`1 .. m` stays there, everything later lies elsewhere, and element `m + 1` would not have fitted.
`Ending` says that each token has its place and the list ends with `TOK_EOL`, unless the element
tested for it lies outside the block.

**EncoderProofs**: `TypeCorrect`, `WholeCorrect`, `HoleCorrect`, `BytesCorrect`, `JumpsCorrect`, for every sequence of
instructions whose operands are ones that the parser can hand over (`CallsAssumption`) and every table
whose rows are whole bytes (`TableAssumption`; the table has no parameters, so TLC evaluates the
assumption for the 192 rows that there are, not for some of them). The invariant says where the
encoding of a row stands: the bits emitted and those that the fields left to do will emit lie, together,
in a whole number of bytes between the least and the most that the row allows, `bitlen` agrees with the
bits, and a hole is as wide as the operand of its jump and the last field of its row. That at most six bytes
of 0 .. 255 are stored for an instruction is part of the types; `BytesCorrect` adds that bit k of byte i
is bit 8(i - 1) + k of the encoding, for every byte that main's loop cuts out of it. `JumpsCorrect`
says what the bytes of a jump are when its row is done: an opcode and, low byte first, the distance from
its end to the label, or the number (relative for `jmp`, as it stands for `je`); or zeros and one new
entry of the patch list with the place and the width of the operand, exactly if the label is not known.
No other instruction adds an entry. It rests on the rows of the jumps (`JumpRowsAssumption`).

**ParserProofs**: `TypeCorrect`, `AdvancesCorrect`, `GrammarCorrect`, `OperandsCorrect`, `TargetsCorrect`, for every token list that ends with
an `EOL` and whose numbers have a value (`ProgramsAssumption`, which is what **TokenListProofs** shows of
`tokenize`) and all mnemonics whose kinds are apart from those of the tokens that begin or end other
lines, of `ZERO` and of the prefixes (`MnemonicsAssumption`).
That no function reads behind the list rests on its last token: each look goes one token further only
after one that was no `EOL`. The proof of `GrammarCorrect` has three layers. The languages of `Grammar`
are read as spans: a production holds between two positions of a sequence exactly if certain
kinds stand there (`EaddrSpan`, `MemorySpan`, `OperandSpan`). For each function of the parser, a
span of its production that is followed by a token that may follow it ends where the function
says, and the function succeeds only on such a span (`EaddrLink`, `MemoryLink`, `OperandLink`, `TailLink`,
`LineLink`): this is where the order of the alternatives matters. A span with 0 for an address is
followed through all layers (`ZeroIn`, `NoZeroAddress`): it ends no span that the parser takes, and
`LineLink` gets `IsParsed` from it. The prefixes of an
operand are a recursion on both sides, in the code forward over the tokens and in the grammar over
the suffixes; both are shown to have a value by giving one, and to agree by induction from the end
(`PrefixedLink`).

`OperandsCorrect` goes the same way for what an operand says. `Says` reads the kinds and the places of
numbers in a stretch of tokens; those of a stretch are the union of those of its parts
(`PartsOfText`), so each function is shown to leave a record that says its tokens (`EaddrMeant`,
`MemoryMeant`, `PointerMeant`, `ImmMeant`, `OperandMeant`), whatever the alternatives before it left behind.
Prefixes are neither registers nor numbers and add only themselves (`PrefixedMeant`), a negated
number that is cut twice is the one that is cut once (`SignedMeans`), `mod` and `rm` of an address are
those of its registers and of the size of its displacement (`MemoryKind`), the sign that is put back is that
of the address and no matter of its prefixes (`SignAndPrefixes`), and the comma that
`OperandsMeant` speaks of is the only one of the line, since no operand has one (`PrefixedTokens`).
`TargetsCorrect` adds that the label or the number of an instruction is one that stands in the text.

**PipelineProofs**: `AssemblerImplemented`, `JumpsLand`, `PatchListExact`, `ResolutionImplemented`, under
`OneSegment == MaxCode < 65536` and `[]InBounds`, that is, for the behaviours whose code does not grow
beyond `MaxCode`; `AllLinesFit`, where a condition on the constants takes the place of the latter; and
`TilingCorrect`, without either. The bounds are those of `Assembler`, which stops at `MaxCode` and
whose theorems need one segment; the program itself compares the instruction pointer with nothing.
`LinesFit == 6 * MaxLines <= MaxCode` implies `[]InBounds` because no line gives more than six bytes
(`Spent` counts them against the lines left): a program of up to 10922 lines is assembled as
`Assembler` says, whatever its lines are.

The step from the parts to the whole goes as follows. The variables of `Parser` in `Pipeline` run as
`Parser!Spec` does (`ParserRuns`), so the theorems of **ParserProofs** hold of them: an accepted line is
one of the grammar and its jump goes to a label or a number of the text. `Encoder` is called anew for
every line, so not its specification but its invariant is carried over: it holds at each call and
each field keeps it. The operators of an instance are names of their own, so the `P` and `E` of
`Pipeline` are first shown to be those of the instances of the two proof modules (`SameTokens` and the
lemmas that follow it). The invariant `Inv` adds what relates the parts: the code is as long as the
instruction pointer says and no label lies beyond it (`CodeInv`); jumps lie in the code, entries name
labels and lie at jumps (`ListInv`); codegen works on the line that the parser left and on the
position that its label had then (`CallInv`); the lines still to come are those whose `EOL` has not
been passed (`LineInv`). With it each step maps to one of `Assembler` or stutters: a label or a line
without an instruction where it is parsed (`DefineLabel`, `ReadBlock`), a jump or any other
instruction where its bytes are stored, the fields in between not at all; a round of the patch loop
on bytes is one on operands. What **AssemblerProofs** shows then holds of the bytes of the file:
`JumpsLand`, `PatchListExact` and the refinement of `JumpResolution`.

`TilingCorrect` is the part of `ProgramDecodes` that says where instructions lie. It needs that a label
enters the map at the position that the next instruction will have, and that an instruction that fits
no row leaves code and instruction pointer alone.

Model-checked only: all liveness (`CallsReturn`, `Terminates`, `PushReturns`, `Returns`), which
the installed provers do not reach; the fairness part of `LabelTable`; `DecodesToSource` of
`Encoder`, which compares two encodings of the same table of opcodes case by case and is where a
finite check says most; and what rests on it, that the instructions of `ProgramDecodes` decode to
their lines. Where they lie and where their jumps go is proved.

## 5. What disagrees with the code's own words

Runs that fail and show it:

1. `Assembler_short`: a `je` to a label that a signed byte cannot reach is accepted and
   goes elsewhere (codegen.c:375, asm8086.c:101-104). README.md:65 and build.sh:66-68
   compare the output with that of NASM, which does not do so. The one jump of the run that fails
   stands behind its label and 127 bytes: its distance of -129 becomes 127, and it arrives at 256.
2. `Encoder_size`: the width of a number that is moved to memory follows its value, not
   `byte` or `word`: `mov word [bx], 5` moves one byte (tables.h:177-178, parser.c:343-350).
3. `CodegenArena_labels`: the slots are allocated with `sizeof(Label)` and used as
   `MapLabelEl`: 75 slots and not the 100 of the comment at parser.c:709. The 75th label and
   the first entry of the patch list share their memory.
4. `Parser_zero`: `mov ax, [0]` is a line of grammar.txt (lines 68-69 admit `NUM_ZERO` as an address)
   and is refused, since `parse_direct_address` tries `TOK_NUM` alone (parser.c:549).

Met on the way, without a run of their own: a line with a prefix such as `rep` is one of grammar.txt
(lines 21-22, 48-54) and is refused (parser.c:264-270); the sign of `[-5]` is lost, since both branches
of parser.c:553-562 assign the same number; a character that begins no token, such as the `;` that
begins resources/test_complete.asm:3, leaves `tokenize` in its place, adding tokens without a kind
for ever; `mov ds, ax` fits its row (tables.h:181) and aborts
the program, since the field RM looks for a register in the destination only
(codegen.c:116-123); README.md:17 names hashmap.c as the map of labels, which no file of the program
includes, and its `arena_push` has two parameters; the words `num` and `count` cannot be labels, since
`token_string` has names for all kinds of tokens (tokenizer.h:39-53); a number that begins with 0 is two
tokens (tokenizer.c:57); the `next` field of a
`StringNode` is pushed without being written (string.c:163-164), which the next push reads; a jump to a label that is defined nowhere reaches the
patch loop with the position 0 of slot 0 and trips the assertion at asm8086.c:95; the number of a
`je` is emitted as it stands, that of a `jmp` made relative (codegen.c:205-242); segment
overrides are parsed and never emitted; `[65536]` becomes the direct address 0, for which
no bytes are emitted although `rm` announces them (codegen.c:173); every file gets one more `TOK_EOL`
than the comment at tokenizer.c:113-114 asks for, because the test at line 111 looks
at the element behind the last token; a trailing blank makes the program refuse the file; an
instruction that fits no row vanishes without a message (codegen.c:410); a refused
program leaves an empty output file (asm8086.c:33); a token list that outgrows its
first block is no longer one array (tokenizer.c:26-31); code that outgrows its block is
patched and written from the last one only (asm8086.c:64).

## 6. Not modelled

- The rest of string.c (lists, copies, stripping, case): called by nothing but tests. utils.c: macros.
- hashmap_generator.c: one comment.
- old_implementation/: superseded, not built by build.sh. tests/: only drivers.
- Reading the file and writing the output: no failure of them is handled beyond
  opening them.

## 7. Plan

Done, in this order: label map and table; assembler and jump resolution; codegen
arena; arena; tokenizer; operands, parser and grammar; instruction table, encoder and decoder;
the tokenizer on bytes, with values and keywords; the token list in the arena; the generic map;
the pipeline of parser, encoder and main; the proofs of each; the refinement of `Assembler` by `Pipeline`.

Left: the part of `DecodesToSource` that is about numbers (a displacement cut to a byte and extended
again), and with it that of `ProgramDecodes`.
