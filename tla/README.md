# TLA+ models of the system programming assignments

The repository holds six homework programs in C and model answers to four of
them. They are small, but each is built around something that is hard to test:
processes that pass tokens through pipes, cooperative threads, a buffered stream
over system calls, a heap that moves its values around, bits shifted through every
type of C, a file edited in place. This project models
those programs in TLA+, checks the models with TLC, and proves theorems about
them with TLAPS. Line numbers below and in the modules are those of the source
file a module names in its first comment.

## The system and its parts

| part | source | state | operations | how it interacts |
|---|---|---|---|---|
| ring of hw3 | `src/hw3/20170767.c`, `.h` | shared file offset, 5 + 5 pipes, place of each process in its two loops | READ, FIN, EXIT, BYEE handling; print; exit | five processes, pipes, one open file |
| ring of the model answer | `src/Correct_Answer/Assignment3` | the same, and which process has which pipe end open, an uninitialised buffer | pass, done, end; look-ahead read and lseek; close | as above, with SIGPIPE and end of file on pipes |
| thread library | `src/hw6/20170767.h` | `thread_queue`, `curr_thread`, links of the control blocks, semaphore counter and queue | create_thread, run, yield, P, V | called by threads; switches between them only in yield |
| readers and writer | `src/hw6/20170767.c` | file position and eof, one buffer per reader, isEOF | reader, writer, main | threads on that library, one semaphore |
| buffered streams | `src/hw5/mystdio.h` | file, descriptor offset, buffer, eof, write_flag, count | fopen, fclose, fread, fwrite, fseek, fflush, feof | a sequential program calls it; it calls read, write, lseek |
| heap manager | `src/hw4/20170767.c`, `.h` | bytes, node list, total_size, now | allocate a value or a struct, deallocate, compaction | a user types commands |
| heap manager, model answer | `src/Correct_Answer/Assignment4` | bytes, table of names and sizes | the same | the same |
| bit stream reader | `src/hw1` | position in the file, a group of characters, the variable the bits are shifted into | for each of seven types: read a group, shift, print, rewind | one stream shared by seven functions |
| bit stream reader, model answer | `src/Correct_Answer/Assignment1` | position and end of file, buffer of values | for each type: load all values byte by byte, print | the same file |
| string editor for ELF files | `src/hw2` | the file, section found, position in it | check the header, look `.rodata` up, compare and replace at every position | edits a file in place |
| string editor, model answer | `src/Correct_Answer/Assignment2` | the file, a section in memory, position in it | the same with `strstr`, section by section | the same |

What is hard in each:

* **Rings** - every interleaving of five processes, the shared offset, a token that is
  written to a process that no longer reads, pipe ends that close while others
  wait, forks that fail. Correct: one process acts at a time; lines come out in
  ring order, bytes in file order; everybody leaves, the last child first.
* **Threads** - queues of linked control blocks that share one pair of links,
  P that has to block. Correct: first come, first served; nobody lost; the
  semaphore excludes.
* **Readers and writer** - the file ends in the middle of a round. Correct: words
  are written in order, few are lost, the program ends.
* **Streams** - the position of the stream is not that of the descriptor; rounds
  of BUFSIZE and a rest. Correct: the buffer cannot be noticed.
* **Heaps** - several accounts of what is used that have to agree after bytes have been
  moved; structs that fail half-way. Correct: values keep their bytes, names come
  and go as a whole.
* **Bit readers** - widths and signs, what is left in a variable, the last group of
  a file that comes short. Correct: each value is that of its bits, none is missing,
  none made up.
* **Editors** - the ends of a section, several sections of that name, a string that
  ends where strstr stops. Correct: nothing but occurrences in those sections
  changes, and it is known which remain.

## Modules

| module | what it is |
|---|---|
| `LineRing` | abstract: processes of a ring print a file in turns, then leave from the last position down |
| `Hw3Ring` | hw3; `MCHw3Ring` gives it files |
| `Hw3RingProofs` | theorems about `Hw3Ring`, with proofs |
| `Answer3Ring` | the model answer; `MCAnswer3Ring` gives it files |
| `Answer3RingProofs` | theorems about `Answer3Ring`, with proofs |
| `RoundRobin` | abstract: a first come, first served cooperative scheduler |
| `CoThreads` | the library of hw6: queues as linked blocks, create_thread, run, yield, P, V |
| `CoThreadsClient` | any program on that library; `MCCoThreads` adds symmetry |
| `CoThreadsProofs` | theorems about `CoThreadsClient`, with proofs |
| `ReaderWriter` | the program of hw6 on `CoThreads`; `MCReaderWriter` gives thread ids |
| `ReaderWriterProofs` | theorems about `ReaderWriter`, with proofs |
| `ByteStream` | abstract: a position in a sequence of bytes |
| `Stdio` | `mystdio.h` |
| `StdioProofs` | theorems about `Stdio`, with proofs |
| `SeqSums` | powers of two, sums and selections over a sequence, for the loops of heaps and bit readers |
| `NamedBlocks` | abstract: values kept under names |
| `Hw4Heap` | the heap of hw4 |
| `Answer4Heap` | the heap of the model answer; `MCHeaps` runs both |
| `HeapsProofs` | what the operators of `SeqSums` compute, and theorems about both heaps, with proofs |
| `BitValues` | abstract: the values of seven types a string of bits stands for, two fewer than hw1's readme asks for |
| `Hw1Bits`, `Answer1Bits` | hw1 and its model answer; `MCBits` runs both on one file |
| `BitsProofs` | theorems about both bit readers, with proofs |
| `StringEditor` | abstract: occurrences of a string in `.rodata` sections are replaced |
| `Hw2Editor`, `Answer2Editor` | hw2 and its model answer; `MCEditors` runs both on copies of one file |
| `EditorsProofs` | theorems about both editors, with proofs |

Operators whose comment begins with `Fault:` are wrong versions of the definition
below them. No specification uses them; each shows, put in that
definition's place, that the property it is listed with in `PROJECT.json` fails.

### Hw3Ring

A process is known by its `i`; the parent is `NUMOFPID`. `pc[p]` is where the
process is in `main`, `cmd[p]` its `bufferForCommand`, `toRight[p]` and
`toLeft[p]` the pipes. One action takes a process up to and including one effect the
others can see: one byte of the file (`ReadByte`, lines 68-79), one command read
(`ReadCommand`, `ReadBye`) or written (`PassRead`, `SendFin`, `FinReturns`,
`ForwardFin`, `HandleExit`, `SendBye`), a message printed (`Announce`), the exit (`Return`).
The case analysis of lines 106-118 is `StaysForward`. `fork` may fail when
`ForkMayFail`; the code does not look, so a place of the ring stays `absent`.
Nobody ever closes a pipe, so a pipe is a plain sequence whose reader blocks.
Output goes to a terminal (it is flushed line by line).

### Answer3Ring

Here `open[p]` is the set of pipe ends process p has: `Kept` is what `pipeClose`
leaves, `FreeAll` closes what `freeAll` closes, the exit closes the rest. `Writes` is
`write` on a pipe (SIGPIPE without readers), `Reads` is `read` (all that is in the pipe;
without writers 0 bytes and the old content of the buffer). `tail` is the
uninitialised fifth byte of `pipeReadBuf`: the string comparison of the first loop
succeeds only if it is zero. `Peek` and `Rewind` are the look-ahead of `readFile`.

### CoThreads, CoThreadsClient, ReaderWriter

`mem` is the part of memory the library works on: two queue heads and the `next`
and `prev` of every control block. `AddQueue` and `DelQueue` do to it exactly what
the code does, including the links they leave alone; following a NULL or a walk
that never ends is a `fault`. Control changes hands only inside `yield`, so a call of
the library is one action. `CoThreadsClient` is every program that creates
threads and whose threads call yield, P and V as they like; `ReaderWriter` is the program
of hw6, a word of the file being its number.

### Stdio

`buf` is what is left of the buffer from `ptr` on (`size` bytes of it). The byte loops
of fread and fwrite are taken a buffer at a time (`FreadCopy`, `FwriteCopy`), which loses
nothing as a stream belongs to one sequential program; every fillBuffer and updateBuffer
is a step of its own. A read or a write may fail (`Fails`): fillBuffer then pretends the end of the
file, fwrite returns what write does, updateBuffer looks only if `ptr` is set. `Fseek` to a negative position fails and changes nothing. The
program may do what the C library asks of programs: it seeks between a read that
returned all it was asked and a write or a flush (`unsynced`).

### Hw4Heap

`nodes` is the node list, `now` and `memory` offsets from `base`. Allocating a value is
one action. Members of a struct come one by one (`Member`, `WrongMember`), a name is removed
node by node (`RemoveNode` is one turn of the loop in `removeAsName`, with the memcpy's, `modifyAddress`
and `listRemove`). `stored` remembers what each node's value was when it was entered.

### Answer4Heap

`info_table` is the table of names and sizes, `mem` the 256 bytes. Where a value lies is the
sum of the sizes before it (`CalculatePosition`). A struct is read into a buffer of its own, so every
command is one action; `Deallocate` makes the three changes of `deallocate_mem`, `deallocate_table`
and main in the code's order, each computed from what the others had been. `MCHeaps` gives each heap its
own user; the two programs share nothing, so one stays as it began while the other is used.

### Hw1Bits, Answer1Bits

The seven functions of hw1 differ in width, type and initial value, so `stage` says which is
running and `Width`, `IsUnsigned` and `IsUnion` how it differs. `Shift` is one bit; `Wrapped` is the
conversion to the type. The model answer is taken a value at a time (`LoadValue`), the bytes of each
in the order they have in memory (`Loaded`). `MCBits` runs one program after the other on the same
file against the same `BitValues`, which is what the two programs agree to do, not all the assignment asks:
`src/hw1/README.md` lines 16-26 say that nine types MUST be printed "with the exactly same order". Neither
program has a function for the seventh, unsigned float, or the ninth, unsigned double (C has no such types);
hw1 calls its seven functions at lines 7-13 of main, the model answer at lines 181-190, in the readme's
order but for those two. A float is the number its bits make: how floats are printed is the
C library's matter.

### Hw2Editor, Answer2Editor

A file has a header (ELF, another, or too short), sections, and bytes. `Lookup` is one entry of
the section table, `Scan` one turn of the loop of lines 68-76: seek, read, compare, seek back,
write. In the model answer `Search` is one turn of the loop of `change_rodata`: strstr from position j,
and the whole section written back.

## What the checks show

Passing runs:

| run | instance | shows |
|---|---|---|
| `hw3_ring` | 4 children, all files of up to 6 bytes (a byte is a newline or not), any fork may fail, fair | one process in charge, no command stranded, lines and exits in turn, the proofs' invariant, `LineRing` implemented; unless a fork fails everybody exits, and so the whole file is printed |
| `answer3_ring` | 5 processes, files of up to 6 bytes, any forks may fail, any uninitialised byte, fair | nobody is still in the first loop when `end` starts; with at most one fork failed one process has the turn, the file is printed in order and `LineRing` is implemented; with all children no broken pipe; with a zero byte as well everybody exits and the whole file is printed |
| `threads_uncontended` | up to 5 threads, at least 2, P only on a positive semaphore | no thread lost, links agree, `RoundRobin` implemented |
| `readers` | 3 readers, 1 writer, up to 10 words, with and without trailing white space | P never contended, words in order (but perhaps for one at the very end), fewer than 3 lost, the program ends |
| `stdio_stream` | buffer of 2, files of up to 5 bytes, 5 calls, all modes, two reads or writes may fail | no stale or skipped byte, short reads only at the end, `ByteStream` implemented, every call returns |
| `heap_safety` | chars and ints, 2 names, structs of up to 2; hw4 with 8 bytes, the model answer with 5 and the empty name | for both heaps: accounts agree, values intact after compaction, `NamedBlocks` implemented; hw4's removal ends; the table of the model answer lasts as long as the heap |
| `bit_values` | bytes of 3 bits, ints of 2 bytes, doubles of 3; every file of up to 7 bits, with and without a newline, and files of two doubles; any content of the unions | both programs print all the values of `BitValues` and nothing else, hence the same (not that the nine types of the readme are printed: two are not); no bit beyond a type's width; the model answer stays in its buffer |
| `editors` | a string of 2 letters, every file of up to 5 bytes of three kinds, two adjoining sections listed in any order, other and short files | both editors implement `StringEditor`; what each leaves over; both end |

Runs that end in a violation, each a disagreement between the code and a comment or
message of its own (quoted in `PROJECT.json`):

| run | property | what happens |
|---|---|---|
| `hw3_wait` | `ParentOutlivesChildren` | the wait of line 149 is behind a loop that only `return` leaves |
| `answer3_buffer` | `NoErrorReported` | `strcmp` on a buffer nobody terminated: a good message is an error |
| `threads_block` | `SemaphoreNotNegative` | P yields but stays ready, so it returns without a V |
| `stdio_write` | `FwriteWritesAll` | three whole buffers: `count` is incremented twice per round, the last is not written |

Other weaknesses met on the way have no run of their own; `PROJECT.json` lists most of them as hazards. They are
written into the models as the code has them, and a property says how far they go where one can:

* the last child of hw3 answers BYEE before it prints (`ExitsInOrder`);
* `freeAll` of the third model answer closes the wrong pipe end (`NoBrokenPipe`), and with two missing
  children it may have two processes reading (`Few`);
* `delQueue` follows a NULL when a queue has one item or none;
* an fread of nothing raises eof; a failed read does too; the first write of a large fwrite may fail
  unseen (`FwriteWritesAll`); fseek leaves eof set; fread stores a NUL behind what it was asked for;
* the last byte of hw4's heap can never be used (`>=`, line 253), a refused struct member is stored at `now`, a
  struct of no members is allocated without a node, listRemove reads a node it has freed;
* structs of no members fill the table of the fourth model answer and can never be freed
  (`TableLasts`); its bound on members is off by one against its message;
* the first model answer stores a value in a buffer of no bytes when the file is empty
  (`BufferHolds`); hw1 opens `input.txt` where its readme says `input`;
* hw1 and the first model answer print seven of the nine types that `src/hw1/README.md:16` says they MUST print:
  7\. unsigned float and 9\. unsigned double are missing. `BitValues` has the seven, so that
  `BothImplementBitValues` holds says nothing of the other two;
* hw2 edits only the last of several `.rodata` sections and never looks at its last position
  (`LeftOver`); a file shorter than a header is an assertion failure, not an error message.

### Bounds

The rings have the code's five processes. Six bytes of file give up to seven lines, so the
token goes round more than once and the file can end at every process; files with empty lines,
without a last newline and of no bytes are among them. Nothing else is bounded there. The
semaphore counter is bounded by `MaxCounter` (V is not called beyond it); the library has no
other unbounded state. Ten words are three rounds of three readers and one more. In `Stdio`
`BUFSIZE` is 2 so that reads and writes of less than, exactly, more than one buffer and of whole
buffers occur within `ReadSizes` and `WriteSizes`; five calls suffice for open, read, seek, write, read.
`LargeWrites` is 1 because `write_flag` is never cleared: a second large write on the same stream is
known to stop early (listed as a hazard). Two failures (`MaxFailures`)
may hit any reads or writes, also two of one fwrite. hw4's heap has eight bytes: an int and three chars fit and one byte
is never used, so refusals happen at every fill level; a struct and a value give removals
at the front, in the middle and at the end. The byte behind the heap stands for all that a refused
value may reach beyond it. The model answer's heap has five, and a table of five entries, which
structs of no members can fill.

In `MCBits` a byte has three bits so that a sign, a carry out of it and an ASCII half exist; two-byte
and three-byte types tell the orders of bytes apart; seven bits end inside a byte, inside an int and
behind one. In `MCEditors` a string of two letters can lie across the border of two sections, at the end of
one, twice in a row, or half-way (`s`, `s`, `w`), and behind a NUL; five bytes hold two strings and a byte.

### Deadlock and fairness

All programs but the heaps end, and a ring in which a fork has failed waits for good, so their
configurations turn the deadlock check off. The runs `threads_uncontended`
and `heap_safety` keep it on: there something can always be done.

Fairness is weak, and only what the machine gives: every process that is not blocked is
scheduled again (`Hw3Ring`, `Answer3Ring`); a single-threaded process keeps running (`ReaderWriter`,
`MCBits`, `MCEditors`, and the loops inside a call in `Stdio` and `Hw4Heap`). Nothing is assumed of what users
or calling programs do.

## What is proved

Every safety invariant and every refinement the passing runs check has a theorem that states it for all
values of the constants - one of them, `FwriteWritesAll`, under a hypothesis on sizes, as it is false without
it; what is left to TLC is listed at the end of this section. In each module the argument is the same: an inductive invariant
`IInv` that says where the whole system is, not only what must not happen; `Init => IInv`; a lemma for each
action that it preserves `IInv`; and the properties as consequences of it. That of hw3's ring is also an
invariant of the run `hw3_ring`, as it says most about where the ring is.

### Hw3RingProofs

For every number of children (`NUMOFPIDAssumption`: at least one), every set of files (`FilesAssumption`)
and with or without failing forks (`ForkAssumption`):

* `TypeCorrect`, `LinesInTurnCorrect`, `OneInChargeCorrect`, `NoStrandedCommandCorrect` - the type invariant
  (part of `IInv`) and the other invariants of `hw3_ring`;
* `InvCorrect` - the inductive invariant;
* `RefinesLineRing` - the ring implements `LineRing`;
* `ExitsInOrderCorrect` - exits are announced from the last child down.

None of the safety properties is inductive: that one process is in charge after it has read a command
depends on all other pipes being empty, and that a command it passes on will be read depends on which loop
the neighbour is in. `IInv` therefore says where the whole ring is: `Starting` (forks going on, pipes
empty), `Carrying(j, m)` (command m is in the pipe of j or being handled by j; `Broke(m, j)` says which
processes have left their forward loop by then, all others are in it), or `CarryingBye(j)` (BYEE is at j;
those after j are gone, those before it wait). `TypeOK` and `LinesInTurn` are part of it, the latter because
`Turn` connects the last byte printed with the process that may read next. The proof that a step preserves
`IInv` has one lemma per action; the actions that pass a command on show that `Broke` grows by just the
process that leaves its loop. The refinement follows from `IInv`: a byte read is a `Take` of the position
`Turn` says, and a process becomes gone only when all after it are.

The order in which processes announce their exit needs an invariant of its own, `ExitInv`: the first so many
processes of the order (the children from the last but one down, then the parent) have announced, exactly
those that are past `announce` in their program, and the last child stands before them all, or among them if
it left at EXIT. `IInv` supplies that a process only announces when all after it are on their way out.

### Answer3RingProofs

For every number of processes above three (`SIZAssumption`; the code has five), every set of files, either
value of the uninitialised byte and any number of failing forks:

* `InvCorrect`, `TypeCorrect` - the inductive invariant and, in it, the type invariant;
* `OneInChargeCorrect`, `LinesInTurnCorrect`, `RefinesLineRing` - with at most one fork failed (`Few`), one
  process has the turn, the file comes out in order, and `LineRing` is implemented;
* `NobodyLeftBehindCorrect` - however many forks fail, nobody is in the first loop when `end` starts;
* `NoBrokenPipeCorrect` - with all children, no SIGPIPE and no end of file is ever met.

`IInv` has four parts. `Ends`: which pipe ends a process has open follows from where it is in main (`Held`),
so that who can get a SIGPIPE or an end of file can be read off `pc`. `LookAhead`: every byte read ahead is
still to be given back. The third, `OneTurn`, names the phases: `Starting`; `Passing(j)` (`pass` is in the
pipe of j, or j has the turn and `Gathered` connects its line, the offset and what is printed);
`FirstRound(d, j)` and `SecondRound(j)` (`done` goes round twice, and `Broke` says who has left the first
loop); `Ending(j)`; or `Stuck`, when the message is lost because its reader is missing or did not recognise
it. `Fresh` adds that an end of file repeats only a message that came from a neighbour that still keeps the
pipe open. The fourth, `Silent`, is the alternative to `OneTurn`: two children are missing, the parent has
taken an end of file for an answer and a second turn has begun - but the last child is not there, so nobody
ever leaves. That is why `NobodyLeftBehind` needs no `Few`.

With three processes `LinesInTurn` would fail: child 1 is killed when its only neighbour is missing, and the
parent then reads an end of file although just one fork has failed. TLC shows this with `SIZ = 3`; the
assumption excludes it.

### CoThreadsProofs

For any number of threads, in a program that creates two or more (`MinThreads >= 2`) and never calls P when
it would have to wait (`~Contended`), whatever else its threads call in whatever order:

* `InvCorrect`, `NobodyLostCorrect` - the queue is one list, linked alike in both directions, of exactly the
  threads that do not run; no NULL is ever followed;
* `RefinesRoundRobin` - first come, first served.

The two hypotheses are those of `threads_uncontended`, and both are needed: `threads_block` shows what P
does when it blocks, and with one thread `delQueue` follows a NULL. `IsQueue(m, s)` says that the links of
memory m spell the sequence s; `WalkIs` shows by induction that the walk along the links, by which the model
and the properties read a queue, yields s; one lemma each says what `AddQueue` and `DelQueue` make of s.
With them `IInv` is a statement about sequences.

### ReaderWriterProofs

For any number of readers (`NUM_OF_READER >= 1`) and any file:

* `RefinesClient` - the program of hw6 is one of the programs `CoThreadsProofs` is about: its P never finds
  the semaphore taken. The theorems about the library so hold of it;
* `TypeCorrect`, `OneInsideCorrect`, `WrittenInOrderCorrect` - the invariants of `readers`.

`IInv` is the library's invariant and three facts that need each other: `InTurn` (the ready threads are the
numbers after the current one, going round), `Guarded` (the semaphore is 0 exactly while the current thread
is between P and V; all others are before P), `ProgramOK` (how many words are taken and what each buffer
holds follow from how many readers have had their turn since the writer last printed). That no round is
mixed up is due to the order of the queue, not to the semaphore.

### StdioProofs

For a buffer of every size (`BufsizeAssumption`: at least 1), files of any length, reads and writes of any
size, in every mode, any of which may fail:

* `TypeCorrect`, `NothingUnreadCorrect`, `ShortReadIsEofCorrect`, `EofOnlyAtEndCorrect` - what the buffer
  holds is what the file has at the stream's position, and eof is set when it should be and (an fread of
  nothing and a failed read apart) not before;
* `RefinesByteStream` - the buffer cannot be noticed;
* `WrittenIsInFileCorrect` - what fwrite says it has written is in the file, in one piece;
* `FwriteWritesAllCorrect` - an fwrite in which no write fails returns all it was given, if it was given less
  than a buffer, or one or two whole buffers, and is the only one of a buffer or more on its stream. This is
  the hypothesis `OneLargeWrite`, on the sizes and the number of large writes a program makes. No other size
  is counted in full: `count`, incremented twice per round, exceeds `total / BUFSIZE` too early from three
  buffers on (`stdio_write`), and a remainder is written but not counted, as the update that writes it
  leaves the loop no bytes to go through. `write_flag`, once set, cuts a second large write short.

`IInv` says of each moment inside a call how the buffer, the descriptor's offset and the rounds that are
left belong together: `InFread` (what was handed out lies right before what is in the buffer; `count` is
right for what is to come), `InFwrite`, `NoCall` (only a read that got all it asked for leaves anything in
the buffer), and `BufferIsCurrent` throughout. The `div` in the number of rounds is the difficult part: a
last round must be entered with bytes in the buffer or with eof. `CountedInv` adds, for the last theorem, which
of its buffers a large fwrite is copying, and that `write_flag` is not set before the last of them is done.

### HeapsProofs

For heaps, tables and values of every size, any names, and any commands:

* `InvCorrect` - both inductive invariants;
* `AccountsAgreeCorrect` - list, `total_size` and `now` of hw4, and table, `data_index` and `cur_point` of
  the model answer, agree with what the values take, and the table lasts as long as the heap;
* `ValuesKeptCorrect` - after any number of removals every value is what was entered;
* `RefinesNamedBlocks` - both implement `NamedBlocks`, hw4 although it removes a name node by node.

`Placed` (each node begins where the one before it ends, the last one ends at `now`) and `Kept` (the bytes
at each node are those entered) must hold in the midst of a removal as well: `RemoveNode` moves the bytes
behind the node, lowers the addresses behind it and takes the node out, and the lemmas show that the three
fit. For the model answer positions are sums of sizes (`PrefixSums`), so `Unused` (the entries behind
`data_index` are empty, the bytes behind `cur_point` zero) and lemmas about the sums after an entry is taken
out do that work. `StructLast` and `NamesDiffer` are what the refinement needs: the members of a struct
still being read are the last nodes, and a name has one entry.

What a loop over a list computes for a list of any length is proved by induction, at the beginning of the
module. The library's induction theorems have an operator as parameter, which the provers cannot instantiate; here
induction is stated over a set of numbers (`Induct`, `InductTo`, from the well-foundedness of <), and
recursion over positions is shown to have a solution (`RecursionExists`). That is why `SeqSums` defines its
sums and selections as recursive functions over positions instead of taking the folds and `SelectSeq` of the
libraries, of which no proof can get hold.

### EditorsProofs

For every pair of strings (`StringsAssumption`: of one length, and the new one neither begins nor ends with
a letter of the old, as with "software" and "hackers!") and for every file (`ProgramsAssumption`: sections
lie within the file). Of hw2:

* `TypeCorrect` - the editor compares and writes only inside the section it has found;
* `LeftOverCorrect` - what it leaves lies in another `.rodata` section or at the very end of its own;
* `RefinesStringEditor` - every write is a replacement `StringEditor` allows.

Of the model answer:

* `AnswerNoneLeftCorrect` - it leaves nothing in any `.rodata` section, and its memory agrees with the file
  on the section it searches;
* `AnswerRefinesStringEditor` - writing a whole section back is one replacement.

The invariant of hw2 adds two facts. `FoundLast`: offset and size are those of the last `.rodata` section
seen, without which nothing is known of where the scan writes. `Cleared`: there is no occurrence at a
position behind the scan. A replacement could make a new occurrence further back, by its own letters or by
joining others; `ReplacedClears` shows that it does not, because any occurrence that overlaps the new string
contains its first or its last letter. The model answer's `AnswerInv` has `ClearedTo(s, p)` for all sections
passed: the same lemma shows that work on a later section, which may overlap or adjoin an earlier one,
undoes nothing.

### BitsProofs

For types of any width above one bit (`WidthAssumption`), whatever is left over in a union as long as it fits
(`LeftoverAssumption`), any set of files, and for the model answer any sizes of int and double from one byte
to as many bytes as a byte has bits (`BytesAssumption`; in C 4 and 8 bytes of 8 bits):

* `BothTypeOKCorrect` - `result` of hw1 and the bytes of the answer stay in the range of their types;
* `AnswerBufferHoldsCorrect` - the answer's buffer is large enough for the value it loads too many, and all
  it prints has been loaded;
* `BothPrintValues` - every step of either program is a step of `BitValues`, in all of its seven types (of the
  readme's nine).

Powers of two and the values of bits are recursive functions in `SeqSums`, of which the lemmas show what they
compute (`PowerOf2Properties`, `PrefixSumsProperties`); of `2 ^ n` the provers know only that it is an
integer. `Shifted` describes what hw1's variable holds: times two to the power of the bits still to come, it
is what the bits shifted in so far are worth at their places, up to a multiple of 2^Width. What an
uninitialised union held at first is such a multiple and never matters; a conversion to the type takes one
away or adds one. When all bits are in, variable and value differ by such a multiple and both lie in the range
of the type, so they are equal (`WrappedRange`; `RoomForBit`: a number just shifted is even, which leaves room
for the bit). For the answer `ByteOfGroup` says what one byte of a value is worth at its place, as a
difference of two sums of the same bits, and `BytesOfGroup` adds these differences up from the highest address
down. `AnswerInv` says which bytes each value in the buffer has and that feof() is true exactly when one value
has been loaded that ends beyond the file (`EofAgrees`); the size of the buffer follows because that value
still begins in the file or at its end. The bound on the sizes is used there: a value of more bytes than a
byte has bits would not fit.

That everything is printed in the end (`PrintsAll`, the rest of `BothImplementBitValues`) is liveness.

### Only model-checked

* Liveness (`AllExit`, `Terminates`, `CallsReturn`, `RemovalEnds`, `PrintsAll`), which the prover does not
  treat.
* Programs whose threads have to wait in P (`Contended`): `threads_block` shows that P returns to them
  without a V.

## What is not modelled

* `malloc`, `pipe` and `lseek` that fail, and `read` and `write` that fail outside of `Stdio`; words, names or lines longer than a
  buffer; writes that write only a part; numbers typed as something else; file permissions. They are named in the modules' first comments.
* What strstr finds beyond the buffer of the second model answer, and in general what undefined accesses outside an
  object touch: the memory there belongs to the allocator.
* Wording and layout of output, floats as decimals, the printed ELF header, makefiles, binaries.

## Plan

Order of work, most important behaviour first; all of it is done.

1. The rings (`LineRing`, `Hw3Ring`, `Answer3Ring`) and the proofs about `Hw3Ring`.
2. The threads (`RoundRobin`, `CoThreads`, `CoThreadsClient`, `ReaderWriter`).
3. The streams (`ByteStream`, `Stdio`), with failing reads and writes.
4. The heaps (`NamedBlocks`, `Hw4Heap`, `Answer4Heap`).
5. The bit readers (`BitValues`, `Hw1Bits`, `Answer1Bits`).
6. The editors (`StringEditor`, `Hw2Editor`, `Answer2Editor`) and the proofs about `Hw2Editor`.
7. The proofs about the other modules, one component after the other: streams, heaps, the model answer's editor, threads,
   readers and writer, and the ring of the model answer.
8. The proofs about the bit readers, with powers of two as a recursive function.

`Only model-checked` above lists what stays with TLC.
