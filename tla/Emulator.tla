------------------------------ MODULE Emulator ------------------------------
(***************************************************************************)
(* The emulator's two command loops (main.cpp, tools/Debugger.h) around    *)
(* the assembler, the memory and the machine: what is loaded for which     *)
(* board, the images written of it, and where a run under the debugger     *)
(* stops.                                                                  *)
(*                                                                         *)
(* Of the machine's memory the model keeps which file was loaded for which *)
(* board, and three words that are patched afterwards: the one at 10, and  *)
(* CORE_PATCH_DP and CORE_PATCH_VOCABULARY, which COLD starts from.        *)
(***************************************************************************)
EXTENDS Naturals

CONSTANTS
  Addr,           \* addresses of code, 0 and NoAddr among others
  NoAddr,         \* -1, at which nothing breaks
  Flow,           \* Flow[source][address]: what the instruction there may do
  LabelAt         \* LabelAt[source]: the addresses that have a label

Board == {"ATMEGA", "STM32"}
Source == {"core", "test", "unit"}   \* "unit" is what the tests at start-up left
Effect == [pc : Addr, i : Addr, halted : BOOLEAN, expand : BOOLEAN]

ASSUME EmulatorAssumption ==
  /\ 0 \in Addr /\ NoAddr \notin Addr
  /\ Flow \in [Source -> [Addr -> SUBSET Effect]]
  /\ LabelAt \in [Source -> SUBSET Addr]

VARIABLES
  mode, loaded,   \* main.cpp's globals
  fasm,           \* what the assembler holds the symbols of
  mem,            \* what the memory holds
  file,           \* the image file that the last command wrote, if it did
  vm,             \* program counter, register I, halted
  dbg,            \* breakpoints, verbose, broken
  at,             \* where the process is
  last            \* the instruction the debugger's run has just executed, if any

evars == <<mode, loaded, fasm, mem, file, vm, dbg, at, last>>

Words == [vector : {"int1", "ramstart", "end"}, dp : {"ramstart", "end", "expanded"},
          head : {"core", "expanded"}]
Image == [source : Source, board : Board, words : Words]
ImageFile == [name : Board \cup {"mem"}, image : Image, size : {"int1", "ramstart", "end", "all"}]

EmulatorTypeOK ==
  /\ mode \in Board /\ loaded \in BOOLEAN
  /\ fasm \in [source : Source, board : Board] /\ mem \in Image
  /\ file \subseteq ImageFile
  /\ vm \in [pc : Addr, i : Addr, halted : BOOLEAN]
  /\ dbg \in [pc : Addr \cup {NoAddr}, i : Addr \cup {NoAddr}, verbose : BOOLEAN, broken : BOOLEAN]
  /\ at \in {"prompt", "running", "debugger", "continuing", "stepping", "exited", "crashed"}
  /\ last \subseteq [pc : Addr, i : Addr]
----------------------------------------------------------------------------
(* A and S (modeAtmega328, modeSTM32): other options, and what is loaded   *)
(* does not count any more.  (Bug definitions are mutants of the next.)    *)
BugStaysLoaded(board) ==
  /\ at = "prompt"
  /\ mode' = board
  /\ file' = {}
  /\ UNCHANGED <<loaded, fasm, mem, vm, dbg, at, last>>

SetMode(board) ==
  /\ at = "prompt"
  /\ mode' = board /\ loaded' = FALSE
  /\ file' = {}
  /\ UNCHANGED <<fasm, mem, vm, dbg, at, last>>

(* l and t (loadFasmFile): the file is assembled with the mode's options,  *)
(* and written to memory if it has no errors.  The function ends without   *)
(* the value it declares; an optimising build does not return from it.     *)
Fresh == [vector |-> "int1", dp |-> "ramstart", head |-> "core"]

BugForgetsNothing(source) ==
  /\ at = "prompt"
  /\ fasm' = [source |-> source, board |-> mode]
  /\ \/ mem' = [source |-> source, board |-> mode, words |-> Fresh] /\ loaded' = TRUE
     \/ UNCHANGED <<mem, loaded>>
  /\ at' \in {"prompt", "crashed"}
  /\ file' = {}
  /\ UNCHANGED <<mode, vm, dbg, last>>

LoadFasmFile(source) ==
  /\ at = "prompt"
  /\ fasm' = [source |-> source, board |-> mode]
  /\ \/ mem' = [source |-> source, board |-> mode, words |-> Fresh] /\ loaded' = TRUE
     \/ loaded' = FALSE /\ UNCHANGED mem
  /\ at' \in {"prompt", "crashed"}
  /\ file' = {}
  /\ UNCHANGED <<mode, vm, dbg, last>>

(* G (generateCPP): as many bytes as the word at 10 says, which then holds *)
(* DICTIONARY_END; a null pointer is followed if the file has no such      *)
(* label.  M (generateMemFile) does the like with CORE_PATCH_DP.           *)
HasKernelLabels == fasm.source = "core"

Patched(word, value) == [mem EXCEPT !.words[word] = value]
Write(name, image, size) == file' = {[name |-> name, image |-> image, size |-> size]}

GenerateCPP ==
  /\ at = "prompt" /\ loaded
  /\ Write(mode, Patched("vector", "ramstart"), mem.words.vector)
  /\ IF HasKernelLabels
       THEN mem' = Patched("vector", "end") /\ UNCHANGED at
       ELSE mem' = Patched("vector", "ramstart") /\ at' = "crashed"
  /\ UNCHANGED <<mode, loaded, fasm, vm, dbg, last>>

GenerateMemFile ==
  /\ at = "prompt" /\ loaded
  /\ IF HasKernelLabels
       THEN /\ Write("mem", Patched("dp", "ramstart"), "all")
            /\ mem' = Patched("dp", "end") /\ UNCHANGED at
       ELSE at' = "crashed" /\ UNCHANGED <<file, mem>>
  /\ UNCHANGED <<mode, loaded, fasm, vm, dbg, last>>

Exit ==
  /\ at = "prompt" /\ at' = "exited"
  /\ file' = {}
  /\ UNCHANGED <<mode, loaded, fasm, mem, vm, dbg, last>>
----------------------------------------------------------------------------
(* One instruction (ForthVM::step); a halted machine executes nothing.     *)
(* EXPAND, when the kernel runs it, saves DP and the newest word for COLD. *)
Execute ==
  \E e \in Flow[mem.source][vm.pc] :
    /\ vm' = [pc |-> e.pc, i |-> e.i, halted |-> e.halted]
    /\ mem' = IF e.expand THEN [mem EXCEPT !.words.dp = "expanded", !.words.head = "expanded"]
                          ELSE mem

MachineStep == IF vm.halted THEN UNCHANGED <<vm, mem>> ELSE Execute

(* c and w: reset() and warm() both start at 0; run() runs to a HALT.      *)
Start ==
  /\ at = "prompt" /\ at' = "running"
  /\ vm' = [vm EXCEPT !.pc = 0, !.halted = FALSE]
  /\ file' = {}
  /\ UNCHANGED <<mode, loaded, fasm, mem, dbg, last>>

Run ==
  /\ at = "running"
  /\ IF vm.halted THEN at' = "prompt" /\ UNCHANGED <<vm, mem>> ELSE MachineStep /\ UNCHANGED at
  /\ UNCHANGED <<mode, loaded, fasm, file, dbg, last>>
----------------------------------------------------------------------------
(* d: warm() and the debugger's own loop; e leaves it.                     *)
Debug ==
  /\ at = "prompt" /\ at' = "debugger"
  /\ vm' = [vm EXCEPT !.pc = 0, !.halted = FALSE]
  /\ file' = {}
  /\ UNCHANGED <<mode, loaded, fasm, mem, dbg, last>>

Leave ==
  /\ at = "debugger" /\ at' = "prompt"
  /\ UNCHANGED <<mode, loaded, fasm, mem, file, vm, dbg, last>>

(* P, I, X, V and Q.  A name that is no label changes nothing.             *)
Command(settings) ==
  /\ at = "debugger" /\ dbg' = settings
  /\ UNCHANGED <<mode, loaded, fasm, mem, file, vm, at, last>>

Settings ==
  \/ \E a \in LabelAt[fasm.source] :
       Command([dbg EXCEPT !.pc = a]) \/ Command([dbg EXCEPT !.i = a])
  \/ Command([dbg EXCEPT !.pc = NoAddr, !.i = NoAddr])
  \/ \E v \in BOOLEAN : Command([dbg EXCEPT !.verbose = v])

(* r and c.  c goes on from a breakpoint, r resets the machine first.      *)
BugStaysBroken(restart) ==
  /\ at = "debugger" /\ at' = "continuing"
  /\ vm' = IF restart THEN [vm EXCEPT !.pc = 0, !.halted = FALSE] ELSE vm
  /\ UNCHANGED <<mode, loaded, fasm, mem, file, dbg, last>>

Continue(restart) ==
  /\ at = "debugger" /\ at' = "continuing"
  /\ vm' = IF restart THEN [vm EXCEPT !.pc = 0, !.halted = FALSE] ELSE vm
  /\ dbg' = [dbg EXCEPT !.broken = FALSE]
  /\ UNCHANGED <<mode, loaded, fasm, mem, file, last>>

(* printCurrentStep and breakpoint: only a verbose debugger looks, and it  *)
(* looks before the instruction is executed.                               *)
AtBreakpoint(pc, i) == i = dbg.i \/ pc = dbg.pc

BugIgnoresPC == dbg.broken \/ (dbg.verbose /\ vm.i = dbg.i)
Broken == dbg.broken \/ (dbg.verbose /\ AtBreakpoint(vm.pc, vm.i))

DebuggedStep ==
  /\ MachineStep
  /\ dbg' = [dbg EXCEPT !.broken = Broken]

DebugRun ==
  /\ at = "continuing"
  /\ IF vm.halted \/ dbg.broken
       THEN at' = "debugger" /\ last' = {} /\ UNCHANGED <<vm, mem, dbg>>
       ELSE DebuggedStep /\ last' = {[pc |-> vm.pc, i |-> vm.i]} /\ UNCHANGED at
  /\ UNCHANGED <<mode, loaded, fasm, file>>

(* s and S: an instruction for every newline that follows; another         *)
(* character ends the stepping, and is lost.                               *)
StepCommand(restart) ==
  /\ at = "debugger" /\ at' = "stepping"
  /\ vm' = IF restart THEN [vm EXCEPT !.pc = 0, !.halted = FALSE] ELSE vm
  /\ dbg' = [dbg EXCEPT !.broken = FALSE]
  /\ UNCHANGED <<mode, loaded, fasm, mem, file, last>>

SingleStep ==
  /\ at = "stepping"
  /\ DebuggedStep
  /\ at' \in {"stepping", "debugger"}
  /\ UNCHANGED <<mode, loaded, fasm, file, last>>
----------------------------------------------------------------------------
EmulatorInit ==
  /\ mode = "ATMEGA" /\ loaded = FALSE
  /\ fasm = [source |-> "unit", board |-> "ATMEGA"]
  /\ mem = [source |-> "unit", board |-> "ATMEGA", words |-> Fresh]
  /\ file = {}
  /\ vm = [pc |-> 0, i |-> 0, halted |-> FALSE]
  /\ dbg = [pc |-> NoAddr, i |-> NoAddr, verbose |-> TRUE, broken |-> FALSE]
  /\ at = "prompt" /\ last = {}

EmulatorNext ==
  \/ \E board \in Board : SetMode(board)
  \/ \E source \in {"core", "test"} : LoadFasmFile(source)
  \/ GenerateCPP \/ GenerateMemFile \/ Exit \/ Start \/ Run
  \/ Debug \/ Leave \/ Settings \/ DebugRun \/ SingleStep
  \/ \E restart \in BOOLEAN : Continue(restart) \/ StepCommand(restart)

(* The loops execute instructions as long as they run.                     *)
EmulatorSpec == EmulatorInit /\ [][EmulatorNext]_evars /\ WF_evars(Run) /\ WF_evars(DebugRun)
----------------------------------------------------------------------------
(* What counts as loaded is what the memory holds, for the board that was  *)
(* chosen, and the assembler's symbols are those of it: the generators     *)
(* patch at addresses they take from the assembler (main.cpp:147, 181).    *)
LoadedIsAssembled ==
  loaded => /\ fasm.board = mode /\ mem.board = mode
            /\ mem.source = fasm.source

(* An image file named for a board holds an image assembled for it,        *)
(* whatever was chosen, loaded or failed to assemble before and after it.  *)
ImageOfItsBoard == \A f \in file : f.name \in Board => f.image.board = f.name

(* A run under the debugger comes back to its prompt only because the      *)
(* machine has halted or the instruction it executed last had a breakpoint *)
(* (Debugger.h:140); so going on from a breakpoint gets somewhere.         *)
StopsForAReason ==
  [][at = "continuing" /\ at' = "debugger" =>
       vm.halted \/ (dbg.verbose /\ \E executed \in last : AtBreakpoint(executed.pc, executed.i))]_evars
============================================================================
