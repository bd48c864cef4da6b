# Zirconium OS in TLA+

A verification project for the kernel in `src/src`: TLA+ modules translated
from the code, TLC configurations that check them on small instances, and
theorems checked by TLAPS for every value of the constants.

    tlc -config MCFFS_mishap.cfg MCFFS     # a model-checking run
    tlapm FFSProofs.tla                    # a proof module

`PROJECT.json` lists the components, the runs with what each asks, for every
property a mutated definition the property rejects, the source lines of every
definition, the hazards, the findings and the theorems.

## 1. The system

Zirconium is a single-processor 32-bit kernel without processes: after start-up
it runs the Clamshell, a command loop, for ever. Two things happen concurrently
with it: the keyboard interrupt, and the disk, which may fail a transfer or be
cut off with the rest of the machine by a loss of power at any moment.

| component | source | state | operations | correct when |
|---|---|---|---|---|
| fourty file system | `fourty/ffs.cpp`, `ffs.h` | on disk: superblock, FAT, inode table, directory blocks, data blocks; in memory: `g_mounted`, `g_sb` | `init` (mount, format, `ensure_default_layout`), `create_file`, `create_dir`, `remove_path`, `write_file`; reads: `list_dir`, `read_file`, `file_size`, `resolve` | a path leads to one inode and back, a cluster belongs to one file, a file returns what was written to it, nothing leaks; after an interruption too |
| ATA block device | `fourty/block_device.cpp` | the ports; the media and cache of the drive | `bd_read_block`, `bd_write_block` (eight sectors each, polled), `bd_init` | an acknowledged write survives and is read back; an interrupted one leaves new sectors before old ones |
| keyboard and line input | `keyboard.cpp`, `read_line` in `clamshell.cpp` | ring `g_keybuf`, `g_head`, `g_tail`, `g_shift_pressed`; the line being read | IRQ1 handler, `kb_push`, `kb_pop`, `read_line` | a first-in first-out queue whose two ends move concurrently; every key typed is read |
| Clamshell | `clamshell/clamshell.cpp` | `g_cwd_path`, `g_cwd_inode`, `g_ffs_ready` | `resolve_path` and the commands LDIR, CDIR, MAKE, REMOVE, WRITE, CONCAT, PATH, RUN ... | commands act on the directory the prompt shows |
| ClamLang heap | `clamlang/runtime/runtime.c` | the block list over 1 MiB | `malloc`, `free`, `realloc` | live blocks are disjoint and large enough; free neighbours are merged |
| ClamLang machine | `clamlang/runtime/vm/vm.c` | frames, value stack, objects, mark bits | bytecode instructions, `maybe_gc` | the collector frees what nothing refers to and only that; typed locals keep their types |
| ClamLang compiler | `clamlang/compiler/*.c` | tokens, AST, code; of the emitter: name map, locals, scope stack, loop stack | lexing, parsing, `emit_bytecode` | a name means the slot of its declaration; jumps lead where the text says; the code keeps the operand stack; expressions mean what the grammar says |
| runner | `runtime/runner.c` | the abort environment | `ccl_run_source`, `exit` | an aborted run returns to the shell |
| text console | `console.cpp`, `read_line` and `repl` in `clamshell.cpp` | video memory, cursor; the prompt and the line | `console_putc`, scrolling, echo | the line that will run is the line on the screen; wrapping and scrolling lose nothing |
| interrupt set-up | `interrupts.cpp`, `interrupts.s` | IDT, PIC | `interrupts_init` | straight-line |
| kernel entry | `kernel.cpp`, `boot.s` | none | start-up in order | straight-line |
| unused code | `ccl.c`, `ffs_x64.s`, `clamscript/` | none | none | not reached |

How they interact: `kernel.cpp` initialises console, interrupts and file system
and calls the shell. The shell takes characters from the keyboard ring, which
the interrupt fills; calls the file system with canonical paths
(`resolve_path` removes `.` and `..`, so these never reach `ffs.cpp`); and hands
sources to the runner, which uses heap, compiler and machine. The file system
reads and writes whole blocks of 4096 bytes through the block device and keeps
nothing in memory between calls except the superblock.

What is hard to test here:

- **interruption.** Every update of the file system is several block writes.
  A failed transfer makes the code give up in the middle; a loss of power
  stops it in the middle, and the next boot mounts what is there.
- **reuse.** Inodes, clusters and directory slots are handed out again, lowest
  number first, so a reference left behind soon leads to somebody else's data.
- **concurrency of the ring.** The handler may run between any two
  instructions of `kb_pop`, and between the test for an empty ring and `hlt`.
- **limits.** Full directories, full disks, a full ring, chains at a cluster
  boundary, the last cell of the last row of the screen.
- **agreement at a distance.** The parser fills fields the emitter reads; the
  emitter keeps names in three structures, patches jumps it wrote long before,
  and keeps a stack discipline that the machine does not check.

The full list, with lines and the properties that cover each, is "hazards" in
`PROJECT.json`.

## 2. The modules

| module | models | built from |
|---|---|---|
| `FFS` | the file system, one action per block write | `ffs.cpp`, `ffs.h` |
| `FFSProps` | its invariants, step properties and the map to `FileTree` | |
| `FileTree` | abstract: a set of paths that come and go one at a time, as the running command asks | |
| `BlockDevice` | a block write as sector writes, the drive's cache | `block_device.cpp` |
| `Keyboard` | handler, ring, `kb_pop` and `read_line` | `keyboard.cpp`, `clamshell.cpp` |
| `KeyQueue` | abstract: a bounded first-in first-out queue | |
| `Clamshell` | start-up, `resolve_path` and the commands that change the name space or the working directory | `clamshell.cpp` |
| `Heap` | `malloc`, `free`, `realloc`, one step per turn of their loops | `runtime.c` |
| `Allocator` | abstract: ranges of addresses given out and taken back | |
| `VM` | every instruction of the ClamLang machine and its collector | `vm.c`, `core.h` |
| `Emitter` | statements with their scopes, loops, slots and jumps, chunk by chunk | `emit.c`, `parser.c` |
| `EmitterProps` | what the code of a finished chunk promises: stack, variables, control | |
| `Expressions` | the precedence-climbing parser and `emit_expr`; the grammar they are measured by | `parser.c`, `emit.c` |
| `Compiler` | `Emitter` together with SAY of any expression | `parser.c`, `emit.c` |
| `Terminal` | `console_putc`, prompt, echo and output | `console.cpp`, `clamshell.cpp` |
| `Transcript` | abstract: a sheet of rows that only grows downwards | |
| `FFSProofs`, `BlockDeviceProofs`, `KeyboardProofs`, `ClamshellProofs`, `HeapProofs`, `VMProofs`, `EmitterProofs`, `TerminalProofs` | theorems and their proofs | |
| `MCFFS`, `MCBlockDevice`, `MCKeyboard`, `MCClamshell`, `MCHeap`, `MCVM`, `MCCompiler`, `MCTerminal` | the instances for TLC | |

Definitions marked **Slip** in a module (`CanCreateTwice`, `TopRoots`, ...) are
not the code. Each is a mistake somebody could make in the definition that
follows it, kept beside it to show what the properties are able to see:
"mutants" in `PROJECT.json` names, for each property of each run, the
slip that violates it.

### FFS

State. `fat`, `inodes` and `blocks` are the disk; block 0 of `blocks` stands
for the superblock and everything else that is not data, and `fat[0]` for the
reserved entries. `mounted` is `g_mounted`. `todo` is what
`ensure_default_layout` has yet to make. `pc` and `op` are the place and the
locals of the operation under way, across the functions it calls: `op.ret` is
where `alloc_cluster` returns to.

Actions. An action runs from one block write to the next, with all the reads
and tests in between; each write has the outcomes of `Outcomes`: done, failed
without effect, or failed after part of it. `Mount`, the `Format...` actions and
`Remount` are `init`; `EnsureDir` is the layout; `Create`, `TakeInode`,
`MarkInode`, `WriteDots`, `WriteDotsInode`, `AddEntryStart`, `WriteEntry` and
`WriteDirInode` are `create_dir` and `create_file`; `RemovePath`,
`FreeCluster`, `FreeInode` and `RemoveEntry` are `remove_path`; `WriteFile`,
`Seek`, `SetFirst`, `LinkCluster`, `WriteData` and `WriteSize` are
`write_file`; `AllocCluster` and `ZeroCluster` are `alloc_cluster`.
`PowerLoss` clears the memory and keeps the disk. Reads are operators:
`Walk` (`walk_path`), `Find` (`dir_find_entry`), `Contents` (`read_file`).

Abstractions.

- The FAT and the inode table lie in one block each, so `format` clears each in
  one write. On the real disk a loss of power can also leave them half cleared;
  both fall under the history mark `"format"`.
- A read that fails before a write is the same as that write failing without
  effect. Where a failed read means something else it has a branch of its own:
  block 0 at boot (`Mount`: the disk is formatted), the directory block in
  `create_*` (`CreateUnseen`: taken for "no such entry"), the link in
  `free_cluster_chain` (`FreeCluster`: the rest of the chain leaks). Two failed
  reads in one `ensure_dir`, which could make a second entry, are not modelled.
  A failed `file_size` turns WRITE ... APPEND into WRITE, which is a command of
  the model too.
- A transfer cut off by a loss of power is a failed write, torn or not,
  followed by `PowerLoss`.
- A write that the device acknowledged is taken to be on the disk.
  `BlockDevice` says when that is so.
- `last_cluster` is never read and is left out. Time stamps do not exist.
- File text is one kind of cell marked with the inode it was written through;
  that is what `OwnContents` has to tell apart.

History. `harm` records that an interruption hit one of the places where
the code is known not to recover: in the middle of `format` (`"format"`), in
the middle of `remove_path` (`"remove"`), a directory that could not be read
(`"unseen"`); and that a command was refused half way for want of room
(`"refused"`). `Sound` is the absence of the first three. The invariants are
claimed under `Sound`, so they say: at every other point an interruption
does no lasting damage.

### BlockDevice

`bd_write_block` as a loop over sectors: `SendSector`, `FlushSector`, `GiveUp`
when a poll runs out. The drive is external: `Destage` moves its cache to
the media, `PowerLoss` drops the cache. The code looks at neither the error
bit after the data nor the result of the flush; if the drive reports
a failure there, the history variable `ignored` is set and nothing is promised
from then on. The second history variable, `known`, holds the contents
that an acknowledged write guarantees.

### Keyboard

`KeyPress`, `ShiftPress` and `KeyRelease` are the interrupt handler, each whole,
as the processor runs it with interrupts off. `PopTest`, `PopLoad` and
`PopAdvance` are the three memory accesses of `kb_pop`, between any of which a
handler may run; `UseChar`, `Halt`, `Wake` and `RunCommand` are `read_line` and
the loop around it. `keybuf`, `head`, `tail` and `shift` are the code's globals.

### Clamshell

`resolve_path` is written out over segments (`TakeSegment`; `Canonical`, the
segments pending after each turn of its loop; `Combined`, `Resolvable`), because what could be wrong in it is how `.`, `..`,
`~`, the working directory and the trailing slash combine. The file system is
its name space and its inode numbers, atomic and without faults; its steps are
FFS's business. `CDIR`, `MAKE`, `REMOVE`, `WRITE`, `EnsureItem` and `Reboot` are
the commands and start-up. File text, PATH, SET, program search and printing
are left out.

### Heap

A block is named by the offset of its header; `HeapSize`, where no block can
start, stands for NULL. `Malloc`, `Search`, `Take` (with `Split`), `Fail`;
`Free`, `Merge`, `MergeDone`; `ReallocInPlace`, `ReallocMove`, `Copy`.
`RequestAssumption` is what the code needs of its callers: `n + 8` must not
wrap, or `align_size` turns a huge request into a small one. Callers free and
move only blocks they were given.

### VM

`objects` is the list the collector sweeps, `memory` what lies at each address,
`stack` and `frames` are the machine's. One action is one instruction, or one
object marked, or one turn of the sweep. The program is not fixed: an
instruction may run whenever the emitter could have put it there, which
`Depth` expresses (an expression finds its operands above those of the
caller; a statement starts and ends with none). Of integers and Booleans only
the tag is kept. Byte counts are not kept: since a string may be long, any
`maybe_gc` may collect. `VOID_LOCAL` and the jump do nothing that is
modelled, and `HALT` is never reached, as the emitter always puts a `RET`
before it. `Abort` is every `exit(1)` that does not depend on the types.

`malloc(0)` is NULL in this runtime (`runtime.c:31`) and `xmalloc` takes NULL
for a full heap, so a call without arguments, a chunk without locals
(`Unbacked`) and a program without functions all end the run.
`EmitterAssumption` says so of the module's chunk.

`builtin_type` (line 200) and `builtin_range` (line 212) call `maybe_gc`
while the object they return is on no stack. If it collects, the
object is freed and a dangling pointer is pushed. The model marks this in
`escaped` and stops: what happens next depends on what the next `malloc` puts
there. The properties hold up to that point.

### Emitter, EmitterProps

`emit_bytecode` walks the program in the order of its text, so the model makes
up the program as it goes: a step emits one statement (`Statement`), or the
part of `emit_if`, `emit_while` or `ST_FOR` that comes before or after a block
(`If`, `Else`, `ElseIf`, `EndIf`, `While`, `EndWhile`, `For`, `ForInit`,
`ForLimit`, `ForBodyEnd`, `ForStep`, `EndFor`), `EndChunk` writes the implicit
return and `NextChunk` goes on to the next function, or to the module.
`code`, `map`, `locals`, `scopes` and `loops` are the fields of `Chunk` and
`EmitCtx`; `open` is the C stack, with `jfalse_at`, `jend_at` and `loop_start`.
What a statement node holds is taken from the parser, field by field
(`parse_stmt`, `parse_loop_header_stmt`), because that is where SET goes wrong.
A compile error (`exit(1)`) ends the behaviour with its kind in `status`.

Addresses count instructions, not bytes; jumps are relative to the instruction
after them, written as 0 and patched, as in the code. Of the operators of
assignments one stands for all. Types are VM's business.
`FOR (SET ...)` copies the string at address 0 (`parser.c:402`), so the name of
its iterator is any name, or none.

History. `source` lists the statements and ends of blocks, with the address
where the code of each starts; `EmitterProps` computes from it alone where
control should go (`Meant`), and compares with where the code goes (`Leads`).
`hoisted` is the set of names a SLET made.

### Expressions, Compiler

The parser functions are recursive operators over a sequence of tokens that
return the tree and the place after it. `Trees` is the grammar, by splitting a
text at its loosest operator; it knows nothing of how the parser goes about it.
`ReadBack` turns postfix code into a tree again. `Compiler` writes an expression
token by token as long as the parser has found nothing wrong, and then compiles
SAY of it; all other programs are `Emitter`'s.

### Terminal

One step writes one character (`Write`, with all of `console_putc`), takes a key
(`ReadChar`: `Enter`, `DeleteLast`, `Type`) or runs the line (`RunLine`).
`output` is the text that `console_write` has still to write; nothing else
writes at the same time. `scrolled`, a history variable, keeps the rows that
have left the screen, so that `Rows` is the whole transcript. `Transcript` is a
sheet on which text is added at the end and erased to the left edge at most.

## 3. What the runs check

| run | instance | asks | states, time |
|---|---|---|---|
| `ops` | 2 names, depth 2, 3 inodes, 4 clusters of 4 cells, files up to 6 cells, no interruption | `TypeOK`; one entry per name; nothing leaks; a command touches no other file; only REMOVE makes a path go | 160 000, 80 s |
| `mishap` | the same with 3 clusters and files of two, written in one piece of 5 cells, and one failed transfer, torn or not, or one loss of power, then also a format of the disk at the next boot | one entry per inode and agreeing with it; `..` right; a file's text is its own; the name space is a `FileTree` | 395 000, 90 s |
| `boot` | a nested layout, 1 name, 4 inodes, one fault and one loss of power, files of 2 cells appended to 4, across the boundary of a cluster | the root stays a directory; one owner per cluster; no chain into free clusters; every boot and command comes back to the prompt | 866 000, 105 s |
| `device` | 2 blocks of 2 sectors, 2 contents | a prefix of a block write is on the media; acknowledged writes are durable and read back | 690 000, 20 s |
| `keyboard` | a ring of 3, a line of 2, keys letter, Enter, Backspace, Control, and Shift | `kb_pop` is safe; the ring refines `KeyQueue`; a typed character is read | 157 000, 30 s |
| `heap` | 22 cells, headers of 2, requests 0, 1, 3, 6 | blocks tile the heap, hold what was asked, are merged; NULL only when full; refines `Allocator` | 34 000, 25 s |
| `shell` | 2 names, home, 3 start-up items, 5 inodes, 2 boots | LDIR and prompt agree; textual `..` is physical `..` | 5 000, 40 s |
| `vm` | 2 objects, lists of 2, stack of 3, a call | reachable is allocated; garbage is collected; typed locals keep their types | 1 460 000, 105 s |
| `compile` | 2 names, a function and the module, chunks of 6 statements and block ends with 2 declarations and 1 other statement, 2 deep; expressions of 7 tokens with 3 binary operators | names are scoped; stack balanced; nothing read before it is set; jumps as in the text; expressions as in the grammar | 1 740 000, 110 s |
| `terminal` | a screen of 2 rows of 3, lines of 5, 3 rows scrolled off | the line is on the screen; the screen is the end of a `Transcript` | 364 000, 6 s |
| `hlt`, `set` | | violated: see section 5 | |

Why these properties. The invariants of `FFSProps` are what must be true for a
second command to be correct after a first was cut off; each relates tables
that different writes update (entry and inode, inode and FAT, FAT and contents).
`NothingLeaks`, `OthersUntouched` and `OnlyRemovalDrops` are about long sequences
of legal commands with full tables. `NameSpaceIsTree` compares the disk before
and after every write with the abstract tree. The inputs of `FileTree` are
what the operation under way was asked for: `ToAdd` and `ToRemove` are the path
whose entry it is to write or to clear, and `Formatting` says whether a format
runs. So a write may add or take that path and no other, a removal may not take
what is below its path, and only a format forgets everything; removing a
directory that still lists a file is a violation at the write of the inode,
which takes the path of the file. `mishap` has the removals and, through a
superblock that cannot be read at the boot after a loss of power, the format of
a disk in use. `CommandsReturn` says that no
interruption leaves a cycle in a chain.

Why the bounds are enough. On the small disk everything runs out:
inodes, clusters, directory slots and depth; numbers are reused after
two or three commands; files span two clusters and end on and across the
boundary. One interruption is enough to reach each window between
two writes, since between interruptions the model explores every sequence
of commands. Not covered are two interruptions in one history (except in
`boot`, and in `mishap` for a format at the boot after a loss of power), chains of three clusters, and directories below depth 2.
The ring of 3 wraps and fills; two blocks of two sectors are the least in which a
tear and a neighbour can be seen. In `heap` every block can be split,
merged to both sides and exhausted. In `shell`, one inode more than the
start-up items forces reuse. With two objects `vm` reaches self-reference,
mutual reference, garbage cycles, and an object held only by a caller; the
argument of `f` is an integer so that both objects are left for the lists.

In `compile` every statement meets every other one, inside and after each kind of
block, and a nested pair of blocks; shadowing and redeclaration need two
names. Seven tokens hold two operators of different precedence with a
bracket, an index or a call among them, and one operator of
each of three precedences, whose order decides everything. On the screen of `terminal`
the prompt and three keys wrap, and two rows more scroll.

`CHECK_DEADLOCK FALSE` stands where the system may stop: a disk full or half
formatted, on which the shell refuses every command; a program, or a compilation, at its end;
a transcript at its bound.

## 4. Fairness

`FFS`: weak fairness of `Boot` and `Continue`: the processor goes on with what
it has begun. Nothing forces the user to type, the disk to fail or the power to
go. `Keyboard`: weak fairness of the main loop and of `KeyRelease`, because the
keyboard sends a release code for each key that went down; `TypedIsRead`
further assumes infinitely many interrupts, since that is what ends a `hlt`. The other
modules make no use of fairness.

## 5. Where code and text disagree

- **`hlt`**, `clamshell.cpp:79`. `read_line` tests the ring and then executes
  `hlt` with interrupts on. A press and a release between the two leave the
  processor halted with a character in the ring, until another key. The comment
  (line 78) says it blocks until there is one. `TypedIsRead`
  is the promise the code does keep.
- **`set`**, `emit.c:450`. `parse_stmt` stores the name of a SET statement in one
  field of its node (`parser.c:468`); the emitter reads another, which is zero,
  and emits nothing. No SET outside a FOR header changes a variable or
  complains of an unknown one.

Further, as the modules have it and without a run of its own:

- `MAKE <file|dir/>` (help text, `clamshell.cpp:932`) never makes a directory:
  `resolve_path` has removed the slash that `handle_MAKE` looks for (line 667).
  `CwdAgrees` depends on it: with the intended behaviour (slip `TypedSlash`),
  REMOVE of the working directory and a new directory that gets its inode
  would make LDIR list a stranger.
- A const variable cannot be declared: every store to one is refused as an
  "attempt to rewrite" (`vm.c:250`), and its declaration is such a store.
- A program without functions, a function without locals and a call without
  arguments end as "out of memory" (`core.h:77`, `emit.c:680`, `vm.c:363`).
- `loop_pop` leaves the names a SLET hoisted in the name map (`emit.c:183`): a
  second loop with the same SLET is refused, and after a loop that never ran
  the name reads as Null. `NamesAreScoped` and `StoredBeforeRead` except these.
- A backspace at the left edge of the screen stays there (`console.cpp:63`)
  while `read_line` drops the character: a line that has wrapped cannot be
  rubbed out on the screen. `LineIsShown` excepts it (`stuck`).

Interruptions the code does not recover from, seen as traces when `Sound` is
taken out of the invariants: a loss of power in `remove_path` between freeing the
inode and clearing the entry (`ffs.cpp:770`) leaves an entry to an inode that
the next file takes; one in `format` after the superblock (`ffs.cpp:521`) leaves a
disk that mounts without a root directory; one in the middle of giving back a chain
(`ffs.cpp:763`) leaves an inode with a broken chain. A command refused because a directory or
the disk is full leaks what it had already taken.

At this commit `runtime.c` does not compile as it stands (lines 343, 390, 408,
434); the functions modelled are not affected.

## 6. What is proved

Every theorem is for all values of the constants, from the assumptions named
in the modules.

**HeapProofs** (from `HeapAssumption`, `RequestAssumption`). The inductive
invariant `IInv` is `TypeOK`, `BlocksTile` and `LiveBlocksHold`, strengthened
by three facts: `CoalescedSoFar` (in the middle of `free`, no two free
blocks touch before the cursor), `SearchedSoFar` (in the middle of `malloc`,
no block before the cursor suits) and `CallLocals` (the cursor and the old block
are blocks). Without them nothing is known when a loop ends. From it
follow `ListIntact`, `BlocksHold`, `NoFragments`, `FirstFitComplete`, and
`Implements`: the heap is an `Allocator`, whose addresses are the heap's
less a header.

**BlockDeviceProofs**. `IInv` adds to the properties how cache, buffer and
media are related during a write. `WritesAreOrdered`, `Durability` and
`ReadBack`, for any number of blocks, sectors and contents.

**KeyboardProofs** (from `KeyboardAssumption`). `IInv` is `TypeOK` and
`PopIsSafe`, which is inductive: the handler writes only at the head, and the head
cannot reach a tail it did not start from. `PopSafe` follows, and
`RingIsQueue`: a push that finds room appends, `PopAdvance` takes
the first of what waits, which is the character `PopLoad` had read two steps before,
and no other step changes the queue. The lemmas on `Gap` and `Place` are
the arithmetic of going round a ring of any size.

**ClamshellProofs** (from `ShellAssumption`). `Inv` says what the disk is
as a name space: what is named is in use (`EntriesHold`), has one path
(`OneNameEach`), lies in a directory (`ParentsStand`) that its `..` names
(`UpAgrees`); that only at the prompt the shell is elsewhere than at the root;
and `CwdAgrees`, which is not inductive without them. `LexicalIsPhysical`
follows for texts of any length: one component keeps text and entries together
(`StepAgrees`), so by the least component at which they part there is none
(`TogetherOnwards`).

**VMProofs** (from `ProgramAssumption`, `EmitterAssumption`, `BoundAssumption`).
`Inv` adds to the types what mark and sweep have done so far. Mark: what a marked
object holds is marked or waits to be. Sweep: the objects passed and
those marked ahead hold the roots and whatever they refer to, and are exactly
what is reachable. From it `NothingInUseIsFreed` and `CollectionIsComplete`;
`LocalsKeepTypes` is by cases over the instructions.

**TerminalProofs** (from `TerminalAssumption`: prompts hold no line end, and
prompts and outputs no return or erase character; both may wrap). What is below or right of the cursor is blank; with that, each character
is a step of `Transcript` (`ConsoleIsTranscript`). For `LineStaysShown` the
invariant follows the line through the characters still to be echoed: what is
on the rows followed by what `output` holds is the prompt and the line.

**EmitterProofs** (from `EmitterAssumption`). `Inv` is `NamesAreScoped` with what it
rests on: what a loop keeps for its SLETs is hoisted, so that a name which
`scope_pop` leaves in the map has a reason to stay; and there are as many scopes
and loops as open statements (`OneEach`), so that each block's end closes its own
scope. One lemma per statement of `emit_stmt`, one per way of opening,
continuing and closing a block, and one for the parameters a chunk begins with.

The paths through the code. `StatementsKeepBalance`: `Works` says of a piece of
code, in the middle of a chunk, that every instruction finds its operands at the
depth the text gives it, that a jump which is patched lands where the depth is 0
(`Lands`), and that those not patched are exactly the ones the open
statements remember (`Waiting`): their addresses are in `test` and `ends`, and the
depth after them is 0, wherever they will lead. An induction over the number of
steps (`ReachedWithin`) takes this from single jumps to paths.

`ReadsFindValues`: a slot that is no parameter's and not hoisted by a SLET has
a region of the code that control enters only by falling in from the
`SET_LOCAL` that stores it, and outside of which only its own declaration reads it
(`Shelter`). While the scope of its name is open the region has no end: the
jumps that wait in statements further in come from inside it, and a loop around
it starts before it (`ShelterInv`). When the scope closes so does
the region: no name has the slot any more, and no loop that is still open begins
in it (`EndShelterInv`). Paths through a RETURN, a VOID or a redeclaration need
no case of their own.

`JumpsFollowText`: while a chunk is emitted, `FlowText` says of each mark of the
text what its piece of code is (`Pieces`), and of each jump that it leads where it
should (`TestLeads`, `SkipLeads`, `BackLeads`) or waits in an open statement for a
mark that is still to come at that statement's depth (`TestWaits`, `SkipWaits`);
`Holders` gives every open statement the marks it waits for. Marks match by depth
(`Level`), never by the compiler's stack, so the invariant relates the two.
When the chunk is finished nothing waits, and what is left is about the two
readings of it: `Comes(k)` follows the jumps from where mark k begins until a
statement starts, `Falls(k)` reads the text, and they agree by induction from
the end of the text to its beginning (`FallsAre`), since between two starts
control only goes forward (`StartsForward`).

The theorems are about `Spec` of `Emitter`, whose expressions are a literal or a
variable; the run checks the properties in `Compiler`, which adds SAY of longer
expressions.

**FFSProofs** (from `SizeAssumption`, `BoundAssumption`, `NameAssumption`), in four
parts. The tables. `TypeCorrect`: through every command, failure and loss of
power the numbers on the disk and in the locals stay in range. The invariant is
`TypeOK` with `OpTyped`, which says of each `pc` which locals are numbers of
real inodes and clusters; `TypeOK` alone is not inductive, since writes index the
tables with those locals. `NoClusterIsShared` and `NoChainDangles`: the
invariant `ClusterInv` says of each `pc` which clusters `op.new` and `op.node`
hold that nothing on the disk refers to yet, how far `remove_path` is with the
chain it gives back, and what the tables hold in the middle of a `format`.

The directories. `TreeInv` says what is still true of the inode, the name and
the block that an operation looked up some writes ago: nobody else has taken
the inode, the directory is still one, the name is still missing, the block is
the directory's or nobody's. It gives `RootStays`, `NamesAreUnique`,
`NoAliases`, `EntriesLead` and `ParentsAgree`.

The paths. The refinement `NameSpaceRefines` is about paths of any length.
`walk_path` is defined by recursion over the path, so what it does
(`WalkSteps`: the walk of a path is the walk of its front and one look-up) is
proved by the least path for which it fails (`PathInduction`). As no directory
is listed twice, two paths that lead to one directory are one path; hence a
write that changes one entry changes at most one path, and what is added or
removed is the path the operation names and has nothing below it. Up to the new
root of a format only the write of the inode table shows, and it takes all paths.
`NameInv` adds that an operation's directory is reached by no path through
its target and that `remove_path` still finds the entry it came for.
`RemovalDrops` is the action property `OnlyRemovalDrops` from the same steps.

What is lost: `NoLeaks`. `LeakInv` is about a file system that never failed. Until
`format` is done its disk is blank. After that, while nothing was refused for want of
room, every inode in use is listed or is the one the operation is about to list;
every cluster in use is named by an inode or a link or is the one the operation
holds (`Pinned`); a free inode names no cluster; and heads and links are written
only where a chain was empty or ended, so that no write loses what was there.

What files hold. `FilesKeepContents` is about files of any length: `ChainAt`
follows a chain for any number of links, `ChainsApart` says that two chains which
no link leads to never meet (by induction over the place where they would), and
`FilesFull` that every cell up to the size is text of its inode. In the middle of
`write_file` it rests on `WriteLocals`: the cursor is as many links down the
chain as the index says, the size is the one on the disk, and the cells
written so far are text although the size does not cover them yet. In
`remove_path` the file whose chain has been begun to be given back is `Broken`
and is the one exception. `OtherFilesStay` is the action property `OthersUntouched`
from the same lemmas.

The inductive invariants were checked by TLC, as invariants of the instances
of section 3, before they were proved.

Only model-checked: `CodeMeansExpression`, whose definitions are by `RECURSIVE`
operators over the tokens of an expression, which the prover cannot reason about.
Out of the prover's reach, and left to TLC: what holds under fairness
(`CommandsReturn`, `TypedIsRead`, and so the refutation of `BlocksUntilChar`).

## 7. Not modelled

The lexer (a pure function over characters), the string pool and the parsing of
type annotations; the runner, a straight line from the one to the next, whose
abort is the end of a behaviour in `Emitter` and `VM`; interrupt and kernel
set-up (straight-line port writes); the rest of `runtime.c` (copying,
formatting, 64-bit division, `setjmp`); in the shell PATH, SET, the search for
programs and what commands print; dead code. `bd_init` is never called.
"components" in `PROJECT.json` gives the reason for each.

## 8. Plan

Done: all the parts of the system that keep state, in order of what a mistake
would cost, each with its runs, and the theorems of section 6.

Left, the model: integers by value in `VM`, for overflow and division; a `VM`
that runs the code of `Emitter` rather than any code; the lexer against a
definition of longest match; the program search of the shell.

Left, the proofs: what section 6 lists as only model-checked.
