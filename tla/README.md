# A TLA+ model of the Forth CPU emulator

The repository is an emulator of a 16-bit RISC processor made for Forth, with
its memory map and a UART, the tools around it (assembler, loader,
disassembler, debugger, a command loop), and the Forth kernel that runs on it
(`fasm/core.fasm`). This directory models the emulator and the kernel in TLA+,
checks the models with TLC on small instances, and proves the central safety
properties with TLAPS for every value of the constants.

## The system

| Component | State it keeps | Operations | Talks to |
|---|---|---|---|
| Host serial line, `runtime/ForthCPU/FSerial.h` | the operating system's queue for standard input, the C library's buffer behind `getchar()`, what was printed | `available()`, `getc()`, `putc()` | called by the UART |
| UART, `UART.h` | transmitter (done, active, tick and bit counters), one-byte receiver, two interrupt flags, two dividers | `tick()`, `read()`, `write()` of five registers | the CPU through the memory map; the host line |
| Memory map, `Memory.h`, `UnsafeMemory.h`, `SafeMemory.h` | RAM and ROM byte arrays, the ranges | `get`, `put`, `getC`, `putC`, `clk` | called by the CPU and by every tool |
| CPU, `ForthVM.h`, `ForthIS.h` | sixteen registers, program counter, four flags, halted, interrupt enable | `step()` (one instruction, then one tick), `run()`, `reset()`, `warm()` | memory map |
| Assembler, `tools/Assembler.h` with `AssemblyVocabulary.h`, `Token.h`, `Symbol.h`, `Option.h` | token list, symbol table, alias table, location counter, options | `slurp`, `pass1`, `pass2`, `pass3`, `writeMemory` | opcode table, memory map |
| Opcode table and loader, `Opcodes.h`, `Loader.h` | the table; the load address | encoding of each group | used by the assembler and by the tests |
| Disassembler, `Dumper.h` | none | formats words | memory map |
| Debugger, `Debugger.h` | breakpoints, verbosity, step mode | run, step, breakpoints | CPU |
| Command loop, `main.cpp` | mode, the loaded image | choose a board, load, run, warm start, generate images | everything above |
| Kernel: terminal loop, `core.fasm` 94-236 and 3691-3792 | line buffer, its two pointers, READLINE's registers | `SYSCALL_UART_TX_BYTE`, `SYSCALL_TYPE`, `SYSCALL_UART_READLINE`, `OUTER` | the UART, by polling |
| Kernel: number conversion and arithmetic, 257-622 and 1412-1880 | registers | `DOT`, `NUMBER`, `UD_DIV`, `D+`, `D-`, `D/`, comparisons | called by the interpreter |
| Kernel: inner interpreter and control structures, 699-730 and 3122-3557 | instruction pointer, frame pointer, return stack | `COLON`, `*;`, `NEXT`, `EXECUTE`, branches, loops | everything compiled |
| Kernel: outer interpreter and dictionary, 2749-3076, 3670-4346 | dictionary pointer and links, vocabulary pointers, mode and state | `TOKEN`, `SEARCH`, `?EXECUTE`, `CREATE`, `:`, `;`, `PATCH`, `*STACK`, `FORGET`, `EXPAND` | terminal loop, inner interpreter |
| Forth libraries, `forth/*.forth`; examples; generated images | - | programs for the kernel | - |

### What is hard here, and what makes each part correct

* **Interleaving.** Every instruction is followed by one tick of the UART,
  and the user types whenever he likes. A character reaches the program
  through two buffers of the host and a receiver that holds one byte. Nothing
  may be lost, repeated or overtaken, wherever the program is when it arrives.
* **Polling.** `TX_BYTE` and `READLINE` read the status with one access and
  act with the next; ticks pass in between, and what was read must still hold.
* **Stale state.** `FIONREAD` does not count what `getchar()` has buffered.
  `READLINE` leaves its status and the line's end unset on some exits. `_ldx`
  goes on with variables that nothing has set.
* **Limits.** The line buffer fills; the tick counter wraps when the divider is
  0; addresses and arithmetic wrap at 16 bits; operands have range limits that
  are checked in two different places.
* **Two ends of one protocol.** The assembler's encoding and the CPU's
  decoding, the UART's register table and its code, `READLINE`'s status and
  `OUTER`'s dispatch have to agree.
* **Something must happen.** A frame ends, printing ends, what the host
  reports is read, a called routine returns.

`PROJECT.json` lists these hazards one by one, with their lines and the
properties that would catch them going wrong.

## The modules

Definitions keep the names of the source, and `map` in `PROJECT.json` gives
the lines of each.

| Module | What it is |
|---|---|
| `FSerial` | the host's two input buffers and its output |
| `UART` | `tick()` and the registers, with the program that drives them left open |
| `Terminal` | the kernel's terminal loop composed with `UART` |
| `ByteStream` | what a serial line promises; the abstract specification of the input path |
| `ISA` | the instruction set from both ends: the assembler's encoding, the CPU's decoding |
| `Lexer` | pass 1 from source text to tokens, pass 3's constants, the listing and the decoder |
| `Assembler` | the three passes and `writeMemory` over a whole source |
| `ALU` | the sixteen ALU instructions and their flags, for any word width |
| `Memory` | address decoding and the word and byte accesses |
| `ForthVM` | the CPU: fetch, decode and execute every instruction on `Memory` and `UART` |
| `KernelCode` | `UD_DIV` and `SYSCALL_UART_TX_BYTE` as the words the assembler makes of them |
| `KernelPrograms` | small programs that call these routines, and what they must leave |
| `Arithmetic` | the kernel's double-word, shifting, comparing and dividing words, on `ALU` |
| `LongDivision` | the division that the comment above `D/` describes; its abstract specification |
| `InnerInterpreter` | threaded code, its frames, the compiling words and what they compile |
| `OuterInterpreter` | tokens, search, definitions, errors, `FORGET`, with addresses and links |
| `Dictionary` | a stack of names; the abstract specification of the dictionary |
| `NumberConversion` | `SYSCALL_DOT` and `SYSCALL_NUMBER`, and typing back what was printed |
| `Emulator` | the two command loops around assembler, memory and machine |
| `UARTProofs`, `TerminalProofs`, `MachineProofs` (CPU and `KernelPrograms`), `ArithmeticProofs` (also `LongDivision`), `NumberConversionProofs`, `AssemblerProofs` (also `Emulator`), `OuterProofs` | theorems |
| `LeastNumber` | a set of naturals has a least one: what the proofs use where a textbook uses induction; quotients and powers of two |
| `MCUART`, `MCTerminal`, `MCForthVM`, `MCLexer`, `MCAssembler`, `MCArithmetic`, `MCNumberConversion`, `MCInnerInterpreter`, `MCOuterInterpreter`, `MCEmulator` | instances for TLC |

Definitions whose names begin with `Bug` are mutants: the definition after
them with a plausible mistake. No specification uses them; they show that the
properties can fail.

**Host line.** Both buffers are queues, so their contents are two positions in
the sequence `typed` of everything typed. `available()` looks at the second
position only, as `FIONREAD` does; `Getc` moves a nondeterministic part of the
operating system's queue when the library's buffer is empty, because a terminal
gives up one line and a pipe all it holds.

**UART.** `tick()` is `TickEffect`, the conjunction of the transmitter's and
the receiver's half. An instruction that accesses a register sets `ticking`,
and `Tick` is the tick due after it; any other instruction is one step with
its tick, `OtherInstruction`. `txTicks` is decremented before it is compared
and wraps at `TicksMod`, which stands for 2^32.

**Terminal.** An action is one access to the UART with the register
instructions behind it; the ticks of those instructions are `OtherInstruction`
steps, any number of them between two accesses. `PROCESS-TOKENS` is left
open: it prints any reply and returns, or fails and restarts the system. R6 is
both READLINE's status and a scratch register, so what other routines leave in
it is part of the model (`Scratch`). `before` remembers what R6 and `%LBUF_END`
were when READLINE was called, because two of its exits leave them so.

**CPU.** `Step` is `_clock()` followed by `clk()`: it fetches the word at `pc`
from `ram`, decodes it with `ISA`'s fields, and applies one of the six
instruction kinds. Uninitialised variables in `_ldx` are choices: which
register is written, or which value goes where. Reading a byte beyond the RAM's
or the ROM's array, which the address decoding permits, gives any byte. A jump
that fetches its target from a register of the UART reads that register
(`TargetsAt`), the receiver's data included. The program is not
a parameter of the module: it is what `ram` holds, and `KernelPrograms` puts
kernel routines there, encoded with `ISA`'s assembler half. The values that a
program may write to the UART are all words (`DivValues`) and bytes
(`TxValues`), so that no store of the CPU is excluded by the UART's module.

**Lexer.** Text is a sequence of lexemes: words, numbers and single characters.
What is kept of the characters is who consumes which of them, because a token
that consumes the end of its line takes a part of the next one with it. A step
of pass 1 reads one token, or fails and goes on at the next line; a step of
pass 3 puts one constant into the instruction that names it. Each source comes
with what its author meant by every line, which only the properties look at.
All 46,176 sources of the run were also fed to the real assembler, which agreed
with the model on every one of them.

**Assembler.** A source is a sequence of tokens, each its type, name, number
and the symbol it refers to. A step handles one token in one pass; the end of
a pass is a step too. The fields of `Token` that the passes fill in (`value`,
`address`, `label`) are functions from tokens. Memory holds for each byte the
token that wrote it and its place in it, so an overlap shows. An undefined
symbol in `.ORG` or in a variable's length is a null pointer in pass 2
(`Crash`); any other symbol there counts by its line's number (`Given`), which
of a label is 0. What the proofs assume of a source (`AssemblerAssumption`) is what
the lexer makes: an instruction of one or two words, a number that its notation
can write (`Number`, up to `MaxNumber`), a symbol where a token refers to one.
`ImageComplete` speaks of sources whose final addresses ascend (`Ascending`):
an `.ORG` may go back, and then one token overwrites another, as in the code.
`Reserve` is what pass 2 goes on by and `Written` what `writeMemory` writes;
they differ for strings and variables, and the property says how.

**Arithmetic.** A word takes its arguments from a sequence and leaves its
results there. All flags come from `ALU`, which is the CPU's code, so that a
comparison is as signed as the flag its branch tests. `D/` is a step per turn
of its loop.

**Inner interpreter.** One step is one token of threaded code or one token of
the source that is being compiled. The return stack is a sequence with saved
instruction and frame pointers in it, as in `COLON` and `*;`, and the compiling
words keep addresses on the data stack between them. `MCInnerInterpreter` has
the programs and a reference evaluator that runs the same source by its
structure; the two outputs are compared.

**Outer interpreter.** `mem` is the dictionary's memory in cells: headers with
their links, code cells that refer to words, and cells that hold other things.
`dp`, the head of the vocabulary, the fence and the mode are the kernel's
variables; `saved` is what `EXPAND` stores for the next cold start.
Each action is one token handled by `PROCESS-TOKENS` with all that follows from it, a restart after an error included. What is free above `dp`
keeps its old contents. `PATCH` is the token sequence the kernel holds; one of
its cells is there twice, so that after `PATCH` the interpreter runs the word
behind it as an instruction, slides through and ends in a restart; the model
has the outcome. A cold start is possible at any time (`ColdStart`) and takes
up what was saved, whatever has been freed since. If a word of it was freed the
start leads into whatever was written there: the model records that (`astray`)
and goes no further, and the abstract `Dictionary` says that this happens
exactly if a saved word was removed (`lost`).

**Number conversion.** A step is a turn of one of the loops. Characters are
their codes, because `C_TO_I` subtracts from them and looks at carries. The
branch for a binary 1 takes the return address off the stack, and the model
stops there (`astray`).

**Emulator.** The state is what the two loops keep: the mode, whether something
is loaded, whose symbols the assembler holds, what memory holds, with the three
words that image generation patches, breakpoints and `broken`, and where the
process is. An action is one command with all it does, or one turn of the run
loop, under the debugger or not. What an instruction may do to the program
counter and the register `I` is a parameter, `Flow`: any program. A halted
machine's step does nothing (`MachineStep`), and only a reset or a warm start
lets it go on. `file` and
`last` record what the last command wrote and what the run has just executed.

## The runs

| Run | Question and bounds |
|---|---|
| `uart` | Do the flags describe the frame, does a received byte wait unharmed until it is read, does the end of a frame, and nothing else, raise the interrupt, does every frame end? Any program; dividers 0 to 2 with the counter wrapping at 4, two characters typed and two printed. Wrapping, restarting a frame in its middle and reading late all occur. |
| `terminal` | Is input in order, does the buffer hold, what does READLINE leave on each of its four exits, is the transmitter safe, does the loop keep going, and when is what the C library has buffered delivered? A line buffer of two characters and four typed characters out of Ctl-C, new line and a letter, so that lines shorter than the buffer, filling it and longer than it, empty lines and interruptions all occur in any order. |
| `lexer` | Is source text read as it was written? Every instruction with every operand that its form can have or just cannot, and statements of every kind, right or wrong, next to each other with every way to end a line: 46,176 files. The two notations that comments of the source show and the reader refuses are among them, and the property says that they are errors. Words are decoded by the CPU's fields and listed by the disassembler's. |
| `assembler` | Do the passes agree with each other, is a byte its own token's, which label is listed where, and of exactly which sources is an image loaded? Every source of up to four lines out of twenty, one of each type and each way to refer. A label, a reference to it and two tokens between them fit into four lines. |
| `forthvm` | Does machine code do what its callers need? `UD_DIV` on combinations of dividend and divisor at the limits of bytes and words, up to the largest divisor it can take, half of what a word holds; two calls of `TX_BYTE`, which give back R0 to R2, with a transmitter slower than the program. |
| `arithmetic` | Do the words compute what they should, and for which operands is an order word's answer the signed one? Words of four bits: all single operands, and doubles whose halves lie at both ends and around the sign bit. The code is the same for every width but for constants that the model takes from the width, and the proofs are for every width. |
| `inner` | Do programs run as they are written, do frames nest, does everything end? Programs of nested control structures two deep, of each kind in each, arguments 0 to 2 and words of four bits, words that call words, and defining words. |
| `numbers` | Does the kernel read what it prints, exactly which tokens are numbers, and what does it make of character literals? 45 words all over the range in four bases, signed and unsigned; every token of up to four of ten characters and of up to three of twenty, the ones at which the code makes a difference among them, with three leftovers in memory behind each. |
| `outer` | Can a sequence of legal or failing tokens damage the dictionary? Two names and five cells, enough for a definition, one in it that fails, a redefinition, a reuse of forgotten cells, an `EXPAND` and a cold start, after its words were freed too; every order of tokens. The names are interchangeable, and every property is a safety property. Where a cold start that goes astray would lead tells no states apart (`StateView`). |
| `emulator` | Can a sequence of commands write a wrong image or stop a run for no reason? The kernel, a test case and what the tests at start-up leave, two boards, four addresses, and programs that branch, halt and call `EXPAND`; every order of commands and settings. |
| `vm_ldx` | Indexed loads and stores use variables that were not set; three possible leftovers in each. |
| `loop_done` | `DONE` does not end the loop. |

The last two rows are runs in which TLC refutes a statement that the source
makes about itself; `findings` in `PROJECT.json` quotes each. The last was
also seen in the emulator itself.

**Deadlock** is checked in `uart` and `terminal`, whose systems never stop.
The CPU stops after HALT, a source is read or assembled, a word of `arithmetic`
returns, a number is printed and read, a program of `inner` ends, in `outer`
the cells run out, and the emulator exits or crashes; these runs say
CHECK_DEADLOCK FALSE.

**Fairness.** The run loop calls `step()` until the machine halts and `step()`
calls `tick()` after every instruction, so an enabled instruction and a due
tick happen eventually: weak fairness of the program's steps and of `Tick`.
The same loop justifies weak fairness of `inner`'s next-state relation, and the
loops of `emulator` (`Run`, `DebugRun`) are fair because they are loops.
Nothing is assumed about the user, who may never type, nor about
`PROCESS-TOKENS` except that it ends.

**Other limits of the models.** `MaxTyped` and `MaxPrinted` bound what is typed
and printed; the proofs hold for every value of both. `MaxCells` bounds the
dictionary, `MaxLines` a source. TLC's integers have 32 bits, so products of
two large words and left shifts are not evaluated with 16-bit words. Code is
not fetched from the UART's registers. The dictionary has one vocabulary.

### Where source and comments part

Besides the findings, which have runs of their own, the models contain these
differences between the code and what is said about it. Where a property speaks
of one it states exactly what the code does, the failing case included, and its
comment names the line that says otherwise; the property's name is given here.

* The UART's registers 3 and 4 set each other's divider (`UART.h` 13 and 70),
  and reading a byte leaves the receive interrupt flag set (20 and 117). The
  kernel sets no divider and uses no interrupt.
* READLINE answers an empty line with the status of no input, not with 2
  (`core.fasm` 140 and 195); on a full buffer it leaves status and
  `%LBUF_END` as they were (139 and 178), and on Ctl-C the line's end. So OUTER
  drops the first pieces of a line that is too long, or reads as much of them
  as the line before had (`LineAsReceived`).
* `available()` looks at the operating system's queue only (`FSerial.h:45`), so
  that characters which `getchar()` has buffered are reported when more arrive,
  or never, although `UART.h:17` calls bit 0 "data available"
  (`DeliveredWithTheNext`).
* The assembler reads an indexed line as an immediate one
  (`Assembler.h:1241`), and the listing shows it without its offset; a
  constant above 127 as an unsigned byte operand is
  rejected (`NothingSlipsThrough`), and as a signed one assembles as 0 (681 and
  692).
* A variable's length is in bytes, not in words, and a `$` string has no
  length before it but two bytes reserved behind it (`Token.h` 34 and 35;
  `Assembler.h:360`; `ImageComplete`). An `.ORG` or a length that names a label
  or a later constant is accepted, where `Assembler.h` 269 and 325 ask for a
  constant already defined; a label counts as 0 there
  (`LoadsWhatIsDefined`). At address 0 a label not yet reached is listed
  (`LabelsListed`).
* A comment directly behind a number of fewer digits than its notation can have
  is assembled as code (`Assembler.h:834`: "rest of the line is a comment"), and
  a directive with a colon, as `Token.h` 37 to 41 show them, is an error
  (`ReadsAsWritten` states both); a comment that ends with a backslash takes the next line with it; after one
  error the line numbers of the following ones are too large by one; `.ALIAS
  R1, FOO` keeps the blank in the alias;
  `SRAI` names two instructions, and the first is found.
* DOT prints binary only up to the first 1 (`core.fasm` 330-349): that branch
  does not push what the end of the loop pops. `'c'` is a word with the closing
  quote in its high byte, because 600 loads a word; every escape that 453
  documents reads as the backslash, because 574 does not load the character
  behind it (`NumbersAsWritten`). Bases other than 2 and 16 print decimal. `.U` is in no chain of
  links, since `.C` links to `.` (1248), and is never found.
* An error after `'` or `[']` goes past `PATCH` (4152), whose comment says that
  it removes half-compiled words (3671): `: a 1 . ['] nosuch` leaves an `a`
  that `WORDS` lists and that can be executed. `[` leaves the mode at 0, which
  `PATCH` takes for nothing half-compiled. The dictionary's properties hold of
  such a word as of any other, and none tells the two apart.
* `EXPAND` does not move the fence (4299), so that `FORGET` may free what it
  saved; a cold start then follows a link into text (634;
  `ImplementsDictionary` says exactly when).
* In the emulator, `G` takes the image's size from the word at 10, which is the
  interrupt vector's until the first `G` replaces it, and leaves it replaced;
  after `t`, `G` and `M` use a label that does not exist and crash; `M` says
  "restore the current DP" (`main.cpp:187`) and stores the dictionary's end,
  whatever was there; `loadFasmFile` returns no value, and an optimising build
  does not return from it; the tests at start-up tick the UART and so take
  characters that were typed ahead.
* The debugger breaks only while it is verbose. Stepping loses the
  character that ends it, and does not end at a HALT, where the machine does
  nothing but tick; breakpoints set by label
  keep their addresses when another file is loaded. `setDumper` is never called
  and the signal handler is not registered (`main.cpp:264`).
* The order words compare unsigned where 1831 and 1851 say signed, which is the
  same exactly between numbers of one sign (`OrderCorrect`). `D*` leaves out
  part of the product's high word and `D/` by 0 leaves no quotient.
* `FORGET` unlinks within one vocabulary only; words of others that lie above
  stay linked. `*STACK` reports an underflow of the data stack and goes on
  (1134).

## What is proved

Everything under `theorems` holds for every set of characters and dividers,
every counter width, every line buffer length and every text printed, every set
of names and size of the dictionary, every source, every program and address
space, every token and number printed, and words of 2, 4, 8, 16 and so on bits;
the only assumptions are the named ones on the constants. The type invariants
are part of the inductive invariants and not properties of runs.

* `UARTProofs`, of any program that drives the UART: the type invariant
  (`UARTTypeCorrect`), by one lemma per action; the flags (`UARTFlagsCorrect`)
  are inductive on top of it, and so is that a waiting byte is the last one
  taken; that it is neither replaced nor overtaken before it is read is the
  action half of the same property (`UARTReceiverCorrect`). That a step raises
  the transmit interrupt exactly if it ends a frame (`UARTInterruptCorrect`) is
  a property of steps: it follows from the flags before and after each.
* `TerminalProofs`, of the terminal loop: `TerminalInv` is the inductive invariant. What
  READLINE leaves on its four exits (`LinesIntact`) is not inductive by itself:
  it needs that the status and the line's end are still those of the call while
  it reads (`before`), that each exit has its form (`EndedByNL`, `EndedByCtlC`,
  `BufferFilled`), that the
  first characters of the buffer are those this call of READLINE received
  (`BufferHoldsCall`), that READLINE's three registers are in step
  (`ReadlineHasRoom`), that what was received is everything `getchar()`
  returned but the byte that waits (`ReceivedAllButWaiting`), and that this
  still holds when OUTER passes the line on (`LineHandedOver`). That TX_BYTE
  overruns nothing needs that it sends with the transmitter done
  (`SendsWhenDone`) and that no tick takes that back. Each action has a lemma;
  `TerminalStepIsUARTStep` shows that the kernel is one of the programs
  `UART` allows, so UART's three invariants carry over.
* `InputIsByteStream`: the terminal implements `ByteStream` under the mapping
  of what was typed to what was sent and of what READLINE took to what was
  received. Every step of the kernel is a `Send`, a `Receive` or a stutter.
* `ArithmeticProofs`, of long division: `LoopInvariant` is the invariant of long division, for
  numerators of any length, and `DivisionDivides` its result.
* `ArithmeticProofs`, of the kernel's arithmetic on words of any width, from the
  ALU's values and flags up. The prover knows nothing of powers and bits;
  what the proofs need of them follows from the number of subsets of a set
  (`PowerStep`: one more element, twice as many) and from the one quotient
  that division has (`DivisionUnique`). On these rest lemmas for what the
  instructions compute (`Added`, `Compared`, `SetBitOf`, `ShiftedLeft`) and for
  each word on doubles (`DAddNum`, `DSubNum`, `DMulNum`, `DSrNum`, `DSlNum`,
  `DInvertNum`), and with `WordsInv` they give `DoublesCorrect`
  (`ArithmeticDoubles`). `OrderCorrect` (`ArithmeticOrders`) needs that CMP's C
  flag is the order of the words without sign, which is that of signed words
  within a sign and its opposite across (`SignedOrder`), and that its P flag is the order of signed words whenever their difference is one
  (`NegativeIsLess`), `DivideCorrect` (`ArithmeticDivides`) where `/` is after
  each turn (`DividedTo`).
* `ArithmeticDivisionIsLong`: `D/` implements `LongDivision`. `LoopInv` adds to
  long division's own invariant what the registers need: the quotient found so
  far stands above clear bits, so that setting the next one adds it, and the
  remainder is less than the denominator and no more than the numerator's
  prefix, so that doubling it loses no bit and the comparison of the halves is
  the comparison of the numbers. Of the invariant at the end,
  `ArithmeticLongQuotient` says that `D/` leaves the quotient of its operands
  and has the remainder in its registers, for every denominator but 0.
* `MachineProofs`, of instruction words: `AssembledIsDecoded` says that the CPU
  reads back what the assembler wrote, for every instruction but those of the
  LDX group. A word is the sum of its fields, and a field with
  something above it and less than its weight below is what division and
  remainder take out (`Stands`).
* `MachineProofs`, of any program: `MachineTypeOK` is inductive over every
  instruction that a word can encode (`MachineStep`): whatever is computed,
  fetched or jumped to is a word, whatever is stored a byte or a word, so that
  the UART is written with values that its own module allows. Hence each
  instruction, with its tick, is a step of `UART` or a stutter
  (`MachineImplementsUART`), and what is proved of the UART for the program
  left open, its flags, the waiting byte and the interrupt, holds with any program on the CPU (`EveryProgramSeesTrueFlags`).
  That module's specification is what `Terminal` is proved against as well.
  `ProgramsAreMachines` says that the programs below start in such a state.
* `MachineProofs`, of the division: `DivisionDivides16`. `DivInv` says where the
  program is and what the registers hold there (`Turn`): with `k` turns to go,
  the quotient so far stands at the low end of R0, the bits of the dividend not
  yet seen at its high end, and R1 is the remainder (`Partial`); in the middle
  of a turn the quotient has a new lowest bit, still 0, and the remainder may be
  as large as the divisor or larger (`Shifted`). That the code stays as it was
  is part of the invariant, so each step is the one instruction that stands at
  the program counter (`FetchWord`, then `Computes` or `Jumped` for what it
  does). The sign flag after SUB is the order of the two numbers because no
  divisor is larger than half of what a word holds. The UART's ticks and the
  characters typed come in between and change nothing of this.
* `MachineProofs`, of the byte routine: `ByteRoutineReturns`. `TxInv` says that
  the program is in the code that calls (`TxCaller`), at one of the routine's
  instructions for the first or for the second byte (`TxRoutine`), or done. At
  each instruction it says what R0 to R2, RA and RL are, how deep the stack is,
  what was pushed, R0 among it (`Saved`), and what has been printed: nothing of
  this byte up to the store and this byte once behind it. The wait loop reads
  the UART's status and changes RA only, whatever it reads. What the UART
  holds does not enter, so the result does not depend on when the transmitter is
  done, and that the wait ends is `Halts`, which TLC checks.
* `NumberConversionProofs`: `NumbersReadBack` and `NumbersReadAsWritten`, for
  every word, base and token. `Leads` is the idea of the first: characters
  lead, digit by digit, from one number to another. While DOT takes digits off
  they lead from what is left to the number asked for; while it moves the value
  up they lead from 0 to what has been moved out (`Moved`, `Overflow`); and
  while NUMBER reads, the characters that are left lead from the number read to
  the number printed. So the same numbers come by in both directions, and no
  power of the base is needed. DOT's loop over decimal digits also needs a bound
  on their number (`Spelled`), without which the reader's count could wrap; in
  binary only 0 is printed to the end (`Least`). For the second, `Typing` says
  that what was read are digits of the base, that the number is theirs
  (`UptoStep`), and that the reader is beyond the token only if nothing follows
  its prefix: then its count has gone below 0 and cannot come to 0 before
  memory that is not a digit. `DigitRead` is what `C_TO_I` does to each of the
  256 characters.
* `AssemblerProofs`: `AssemblerInv` is the inductive invariant of the three
  passes, a conjunction with a part per thing that a later pass relies on: the
  symbol table names defining tokens only and lacks none of those passed
  (`SymbolsOK`), what pass 1 found wrong is known (`FailedOK`), values are those
  of the tokens referred to (`ValuesOK`), addresses are those pass 2's location
  counter had (`AddressesOK`), the chain of labels links those passed in their
  order (`LabelsOK`), a byte in memory was written by the last token that covers
  it (`MemoryOK`), and a run that ended has done all its passes (`EndingOK`).
  None of the four properties is inductive by itself, because each speaks of the
  end and says nothing of a pass in its middle: `LabelsListed`
  (`AssemblerLabels`) needs `LabelsOK` at every label, `LoadsWhatIsDefined`
  (`AssemblerLoads`) needs `FailedOK`, `ValuesOK` and `AddressesOK`, `ReferencesReach`
  (`AssemblerReferences`) and `ImageComplete` (`AssemblerImage`) need all of
  them.
* `OuterProofs`: `DictionaryIsLinked` and `ReferencesLeadHome`. `OuterInv` is
  the inductive invariant: the types, the chain of headers (`Linked`),
  what references lead to (`LeadHome`), and that what `EXPAND` saved, as long as
  nothing of it was freed, is a
  word below the saved dictionary pointer (`SavedOK`), without which a cold
  start proves nothing. A cold start to freed words ends what is claimed
  (`astray`), and `SoundUntil` says that nothing else does. Every action of the interpreter is one of a few kinds
  of steps for the dictionary (`StepKind`): code is appended (`CodeAppended`), a
  header is (`HeaderAppended`), the top is cut off at a word (`WordCut`, which
  is `FORGET` and `PATCH`), a header's flags change (`Flagged`), the words are
  noted (`EXPAND`), or a cold start takes back what was noted; each kind has one
  lemma. Of `SEARCH` these two theorems use only that what it finds is a header
  of that name.
* `OuterImplementsDictionary`: every step of the interpreter is a step of the
  stack of names `Dictionary`, or changes none of it. The mapping collects the
  words by following links from the head; the proof needs them by their
  position. `WordsListed` says that the two are the same: the sequence that has
  the `i`-th header from below at its `i`-th place is the only solution of the
  recursion along the links. How the words change in each kind of step is then
  arithmetic on positions (`CodeStep`, `HeaderStep`, `WordCutStep`, `FlagStep`,
  `ColdStep`). That a cold start goes astray exactly if a saved word was removed
  is the mapping of `astray` to `lost` (`KeptStart`, `LostStart`, `CutSaved`).
* `LeastNumber`: the library's rules of induction take an operator as parameter
  and cannot be cited here. `LeastExists`, that a nonempty set of naturals has a
  least element, takes a set, and serves instead: of the arguments at which a
  claim fails one would be the least, and the claim holds just below it. Both
  the uniqueness of the words' recursion and the assembler's chain of labels
  are proved in this way.
* `AssemblerProofs`, of the emulator: `EmulatorInv` ties what counts as loaded to what is in
  memory and to the assembler's symbols, for the board chosen; from it
  `LoadedMatchesMemory` and `ImagesAreNamedRight`. `RunsStopForAReason` needs
  that `broken` is set only where a breakpoint held (`BrokenForAReason`).

Model-checked only:

* Liveness (`FrameCompletes`, `PrintingEnds`, `DeliveredWithTheNext`, `Halts`,
  `Finishes`, `ReadsToTheEnd`, `BreakpointHolds`), which is outside what the
  prover does.
* The lexer's five invariants, because reading text is written with recursive
  operators and the fields of words with `Bitwise`, and `RunsAsWritten`, whose
  reference evaluator is recursive.
* `FramesNested`. It holds of programs whose control structures are closed in
  their order, not of every sequence of tokens: a LOOP without its DO, or a
  store into a compiled word, breaks frames. Its proof needs an invariant that
  says of the code what `MCInnerInterpreter` builds by recursion.
* That the indexed instructions fail (`vm_ldx`) and that `DONE` does
  (`loop_done`): these are refuted, and stay findings.

## What is left

Planned, in this order:

1. `InnerInterpreter` against an abstract call stack, with the frames' nesting
   as a theorem; it has to be freed of recursive operators first.
2. Vocabularies and token handlers in `OuterInterpreter`, and
   `OuterInterpreter` in place of `Terminal`'s open `PROCESS-TOKENS`.

Not modelled: printing (`dump`, the debugger's `L`, the text of image files);
the Forth libraries, which are programs for the kernel; the Arduino example and
`host_syscalls.h`, written for an interface that the current CPU does not have;
`SafeMemory`, which the emulator does not use and whose callbacks nothing
defines; generated images; the tests.
