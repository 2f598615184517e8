# AiraOS: specification and proofs

TLA+ modules of the AiraOS kernel (`kernel/*.c`, `boot/`), TLC configurations that
check them on small instances, and proofs checked by TLAPS for every instance.
AiraOS is a 32-bit hobby kernel without memory protection: one flat address space,
a shell in `kernel_main`, polled keyboard and disk, and one device interrupt in use,
the Sound Blaster's. Paths below are relative to the repository.

## 1. Inventory of the system

| Component | Code | State | Operations |
| --- | --- | --- | --- |
| FAT32 files and directories | `kernel/fat32.c` | records and clusters on disk, current directory, allocation hint | write, mkdir, cd, cat/find/load, ls |
| FAT32 table, copies, cache | `kernel/fat32.c` 140-245 | the table in `num_fats` copies, `g_fat_cache`, `g_fat_cache_sector` | get next, set entry, allocate, free chain |
| ATA sectors | `kernel/fat12.c` 17-115 | ports and state of the drive | `read_sector`, `write_sector` |
| FAT12 reader | `kernel/fat12.c` 117-185 | packed table in memory | `load_file` (nothing calls it) |
| Sound streaming | `kernel/sound.c` | two halves of the DMA buffer, stream cursor, card, DMA | play, interrupt 5, stopsound |
| PC speaker | `kernel/sound.c` 308-350 | none | beeps |
| Heap | `kernel/memory.c` | list of block headers | `malloc`, `free` |
| Tasks | `kernel/task.c`, `task_switch.s` | task slots, stacks, current task | create, yield, exit |
| Aira language | `kernel/aira_lang.c`, `compile` of `kernel.c` | program buffer, 50 variables, one loop counter | `run_interper` |
| Assembler | `kernel/asm.c`, `asm` of `kernel.c` | label table, output | two passes |
| Shell line and nano | `kernel.c` 129-292, `aira_lang.c` 45-60, 289-330 | line, text, ten files in memory | keys, commands, save |
| Keyboard | `kernel.c` 54-88 | shift flag | `poll_keyboard` |
| Interrupts | `kernel/idt.c`, `isr_stubs.s` | gates, handlers, masks | install, mask, dispatch, end of interrupt |
| Timer | `kernel/pit.c` | tick counter | init, sleep (nothing calls them) |
| Screen and pictures | `kernel/graphics.c` | cursor, frame buffer | put_char, bmp |
| Boot, linking | `boot/`, `linker.ld`, `makefile` | none | runs once |

**How they interact.** The shell calls everything else and waits for it. The file
calls of FAT32 go through the table functions, and both through the ATA ports. Playing
a song fills half a buffer from the shell; from then on interrupt 5 runs
`sb16_irq5_handler`, which walks the same FAT through the same cache and reads sectors
through the same ports *while the shell does something else*: that is the one true
concurrency of the kernel. Every interrupt goes through the same dispatch and the same two
controllers, the timer's too, should a driver start it. Tasks switch only inside `yield`, which `draw_pixel`,
`loadfile` and the WAV player call; their stacks come from the heap. `nano` writes the
files in memory, `compile` runs them, `asm` reads one of them and writes what it
assembled to the FAT32 volume, `run` loads that and jumps to it.

**What is hard.** (a) The interrupt in the middle of a table lookup or an ATA command.
(b) A power loss between two of the many sector writes of a file call: there is no
journal. (c) Failures half way: volume full, sector errors, a drive too slow for the
polling loops. (d) Two passes of an assembler that must agree. (e) State that outlives a
call: the FAT cache, the allocation hint, the loop counter and the old program in the
buffer, dead task slots, the split and merged heap. (f) Arithmetic near its limits:
lengths of songs that are no multiple of a frame, sizes near 2^32, sums of an int.
`PROJECT.json` lists each hazard at its line with the properties that cover it.

**What makes each component correct.** *Files*: no two files share a cluster, no entry
names a free one, an operation concerns one name. *Table*: one map, however many
copies and caches. *ATA*: whole sectors, the ones asked for. *Sound*: the audio, in
order, to its end. *Heap*: disjoint blocks. *Tasks*: own stacks, everyone's turn comes.
*Aira*: the statements in order, whatever ran before. *Assembler*: jumps land, output
fits. *Shell*: the row shows the line, nothing that was saved is lost. *Keyboard*: a key is
read as it was meant. *Interrupts*: each one is heard and taken out of service. *Timer*: a
sleep ends, and is short by less than a tick.

## 2. Modules

    FileStore  <-- Fat32Files (properties, refinement mapping) --> Fat32    Fat32Proofs
    FatMap     <-- FatTable                      FatTableProofs
                   AtaPio                        AtaProofs
    Allocator  <-- Heap                          MemoryProofs
    Allocator  --> Tasks                         MemoryProofs
                   Sb16Stream                    Sb16Proofs
    Pic        --> Timer                         TimerProofs
    Shell      <-- Keyboard                      ShellProofs
    AiraPrograms (meaning of a program) --> AiraLang    ShellProofs
                   Asm                           AsmProofs

`A <-- B`: B is shown to implement the abstract A. `A --> B`: the one uses or is composed
with the other. The `MC...` modules hold the small instances; a module without one is
given its constants by the `.cfg` alone. Names of operators, variables and values of
`pc` are the source's names where it has one.

**FileStore** is what a user may expect of the volume: a tree of directories that maps
names to contents, with calls that concern one name. **Fat32** has `fat32_write_file`,
`fat32_make_directory` and `fat32_change_directory`, cut at every write to the disk
(`pc` names the next statement); `Crash` may come between any two, and any write may fail unnoticed:
of data, of an entry, of the table. `fat` is the table as the cache shows it, a map (which FatTable justifies
while no access fails), `table` its first copy on the disk: they differ where a write of the table failed
(`SetFat`, `Linked`) and the cache was patched all the same, until the sector is read again (`Reload`).
`slot` holds the records of each
cluster - free, end mark, dot, or entry with name, kind, first cluster, size - and `cwd`,
`hint` are `g_current_dir_cluster`, `g_alloc_hint`; `req`, `cur`, `last`, `head`,
`prev`, `left`, `found`, `target` are the locals of the running call. **Fat32Files** says which
clusters belong to what (`Chain`, `Listed`), what a lookup finds (`Lookup`), which directories lie
below the root (`LiveDirs` for the user, `DirSet` through any entry but the one being overwritten)
and what a user is shown (lookups change nothing), and states the properties; `torn` remembers that an overwrite
was cut short, a directory left with a cluster that was not cleared, or a write of the table failed.

**FatMap** is the map. **FatTable** has the four functions of the table, one step for
each sector access and each global tested or set: `pc = "check"` compares
`g_fat_cache_sector` (`tag`), `"fill"` refills `g_fat_cache` (`cache`), `"tag"` sets the
number, `"load"` loads the entry, `"write"` writes copy by copy, `"patch"` patches the
cache. Any read or write of a sector may fail unnoticed (`faults`): a refill (`GetFill`) then tags what the cache
held before, a set (`SetRead`) writes back what its buffer held (`misread`). `AudioInterrupt` is the handler's
own lookup, whole, between any two steps.

**AtaPio** is one port access a step, for the shell's call and the interrupt's read, with
the drive as a process beside them that fetches, stores, fails or answers late. `port` is
what the sector registers hold, `call` the locals of the two calls, `error` the ERR bit,
and `trouble` remembers whether the drive ever failed or answered after a polling loop
had given up. The interrupt's call runs to its end before the shell's goes on, as
interrupts are off in the handler.

**Sb16Stream**: `Play` is `play_wav_stream_cluster` up to its first read; `ShellStep` goes on
a sector at a time (`first`, `move`, `start`, `fill`, `second`); `Irq` is the handler,
`CardPlays` a byte that leaves the card, `Stopsound` the command. A byte in
`sound_buffer` is its song and its position in the file, so that what is `heard` can be held
against the file. `upset` remembers what spoilt the stream: `"late"`, the card was done
before the second chunk was there; `"mixed"`, a song was started over another or the card
took up what a stopped song had left.

**Allocator** is disjoint blocks. **Heap** is the list of headers at byte addresses, one
turn of a loop a step; `Word` is 2^32 scaled down, so that `align_up` wraps the largest sizes to 0. `Usable`
is what a caller may use: the size it asked for, nothing if that wrapped. **Tasks**
takes Allocator for its stacks; each function is one step, since nothing interrupts it.

**AiraLang** reads the program in place, a word a step; a word stands for the
characters taken at once (a keyword and its name, a digit, a quote, a separator).
`file_size` cuts the buffer, what lies behind it is the last program's. The argument of a `beep` is a digit or a name
up to the comma, bracket or space that ends it (`NameEnd`), with no other limit, as `aira_lang.c:164` and `177` copy it:
a name that is too long for its sixteen bytes, or one that nothing ends, runs over the stack (`Overruns`), and the
`status` is `"lost"`, where the model stops following the machine until it is started again (`Restart`). **AiraPrograms**
gives a source its meaning (`Meaning`: unroll the loops, run the statements) and
remembers in `started` which program was begun and in which state.

**Asm**: `PassOne` and `PassTwo` take a line each, with an action for every refusal; `at`
remembers the addresses of pass one. A line is its label, mnemonic, operands, offset and
length in characters.

**Shell**: a key a step, in four modes (`shell`, `nano`, `name`, and `view` while a picture
waits for escape), with `row` the row of the screen up to the cursor, `text` and `files` of
nano; `saves` and `pushed` are history. **Keyboard** puts `poll_keyboard` in front of it: `queue` holds the
codes that nobody has read yet, each with what the typist meant by it; `held` counts the
shift keys that are down and `g_shift_pressed` is what the kernel takes them to be. `sure` is
false after a shift code was lost or one of two shift keys went up.

**Pic** is how an interrupt is taken: requests (`irr`), masks (`imr`) and lines in service
(`isr`) of the two controllers, the table of routines, and `irq_handler_dispatch` with
`pic_send_eoi` a statement a step (`dispatch`, `eoi2`, `eoi1`). A request may be withdrawn
before it is answered (`AcceptSpurious`). **Timer** is the program those interrupts come in
the middle of: the start in `kernel_main`, the mask functions between their `inb` and
`outb`, and `pit.c` with the `hlt` that an interrupt ends. A sleep is called somewhere in a period of
the timer; `begun` and `slept` are history: the next period has begun, and so many whole ones have passed since.

## 3. Runs

| Run | Checks | What it shows | Bounds, and why they are enough |
| --- | --- | --- | --- |
| Fat32_structure | `TypeOK VolumeSound LeakOnlyBy CallsReturn` | after any calls, and a power loss between any two disk writes or one failing write of data or an entry: chains are disjoint and closed, entries can be found, the current directory exists, calls give back what they do not keep, and return. A failing write of the table is taken to the end of its call, and ends what is promised | four clusters of two records: files of one and three clusters, a full volume and directories that must be extended all occur; one mishap |
| Fat32_refines | `Implements` | the volume implements FileStore, power losses included | same volume, two contents (symmetric), a long name cut to the short one of another; size three fits once only |
| FatTable_calls | `TypeOK Coherent MirrorsDifferLittle ImplementsMap CallsReturn` | cache and copies show one map, which the four calls read and write as such; a power loss, a failing write or a cache that could not be read costs one entry of one copy at most, a sector that could not be read before it is written back may cost all of it; calls end | every initial table of three clusters in two sectors and two copies: cached and uncached sectors, cyclic chains; one mishap of any kind |
| Ata_sectors | `TypeOK Delivers OnlyAsked CallsReturn` | up to the first song and the first late answer the right sector is read and written and nothing else changes; the shell waits for ever at most when a song interrupts it, the handler never | sectors of one word of two values, four sectors addressed by two ports, two polls: the limit is met before and after the answer |
| Sb16_stream | `TypeOK HeardIsAudio NeverOverwritten PlaysToTheEnd` | what is heard is the audio in order, it is heard to its end and then the card is quiet; no cell is overwritten before it is played | chunks of eight bytes, songs from none to three chunks, frames of 1, 2, 4 bytes: last chunk empty, partial, full |
| Heap_calls | `TypeOK WellFormed ImplementsAllocator` | the blocks tile the heap and are the callers' own, first fit, an Allocator | nine units of heap, sizes 0, 1, 7, 16 and 62, which wraps in a word of 64: empty blocks, exact splits, too small ones, merges of several |
| Tasks_turns | `TypeOK TasksSound EveryTaskRuns` | no stack is shared, none is free but that of a task that is exiting on it, the count is right, every ready task gets its turn | four slots, memory for four stacks: the slots run out before the memory |
| Timer_irqs | `TypeOK Attended Served NeverEarly SleepEnds` | every interrupt is heard and acknowledged, no request waits for ever, a sleep ends, and not before the rest of its first period and all of the others have passed | the timer, the Sound Blaster and one line of the second controller, so that requests come at all three priorities; a counter modulo 4 that wraps, sleeps of 1 and 2 |
| Aira_runs | `AiraTypeOK RunsAsWritten ProgramsEnd` | a plain program does what is written whatever ran before, and every program ends, faults or overruns the stack | fifteen programs in every order (nested, unclosed and unopened loops, open texts, long names, names of a `beep` that are too long or missing and that nothing ends), two variable slots, ints of three bits that wrap |
| Asm_safety | `TypeOK OutputFits PassesAgree AssembledRight` | both passes count alike, jumps land on their labels, the output fits, refusals have a reason | thirteen instructions in three lines with four labellings, two label slots, 24 bytes of output, bytes of base 4: full table, full output, repeated and cut labels, wrap of the address |
| Keyboard_typing | `TypeOK RowShowsLine SavedIsFound TypedAsMeant` | the row shows what enter hands on, what was saved stays in the files and a name finds a text saved under it, keys are read as meant while the shift codes tell | lines of 2, names and texts of 1, two files, two codes in the keyboard: each limit is reached and passed |
| Aira_beep | `BeepReturns`, violated | the finding below | as Aira_runs |

`CONSTRAINT`s: `Sound` and `OneMishap` stop at a volume that is `torn`, of which FileStore and the invariants promise nothing (and after one mishap);
`NotMixed` stops at a mixed stream. `SYMMETRY` is used in one run, on contents, which the
driver never looks at. No run turns the deadlock check off: the user can always do something.

### Fairness

Only the code's own progress and the devices'. A running call goes on (`WF(Step)`,
`WF(RunProgram)`): the processor executes. The drive ends what it began (`WF(Drive)`;
a drive that hangs hangs the kernel, as the first wait has no limit). The card
plays on and a raised interrupt is served: the kernel never leaves interrupts off for good, except in
`panic`. The timer's crystal does not stop (`WF(Tick)`), and a device that has been served asks again
only after the program has run (`quiet`): handlers are short. For tasks, `WF(yield)`: the running code calls `yield` again and again, as every
pixel drawn does; a task that never draws keeps the machine, and nothing is
claimed of it. No fairness is assumed of the user, of power losses or of failures.

### Finding

`Aira_beep`: `beep(440)` is ended by a tone of frequency 0, by which `play_sound` divides.
The repository's README says it beeps.

### Where the properties' promises end

The models do all of the following, as the code does; a property that speaks of more than
they allow has a premise that says so.

* An overwrite frees the old chain before it allocates the new one (`fat32.c:393`). When the
  volume is full or the power goes, the entry names free clusters, and the next file shares
  them: `torn`. So does the overwritten *directory*'s content leak (`LeakOnlyBy`).
* A write of the table that fails is not noticed (`fat32.c:172`), and the patched cache hides it until the sector is
  read again. A link that is not written makes the chain end or lead on where it should not; a cluster whose own
  entry is not written is free on the disk, is given away a second time, and belongs to two files: `torn` from the
  failing write on. After one, a call that follows a chain cut short (`Following`) may take an end mark for
  a cluster number: what it writes there lands outside the data clusters, and the model changes nothing.
* A second copy that is not written differs from the first until the entry is set again; nothing ever reads it. It is
  seen in FatTable only. A set that could not read its sector writes what its buffer held to both copies:
  `MirrorsDifferLittle` ends there (`misread`), `ImplementsMap` and `Coherent` at any failing access.
* Names are cut to 8.3 when written and looked up by their full spelling (`ExactNames`): a long name is written
  but not found. Results of sector writes are ignored and success reported.
* The interrupt may refill the FAT cache in the middle of a lookup (`fat32.c:147`): `Coherent` and
  `ImplementsMap` promise nothing after that. It may change the sector registers in the middle
  of a command: `Quiet`. A read that gave up leaves its data for the next read: `late`. The error bit
  is not looked at after the last word of a write (`"failed"` in `WritesTheSector`). A cyclic chain is walked as long as an interrupt disturbs each
  of its lookups: `CallsReturn` of the table is checked with a bounded number of them.
* A song whose header ends inside a frame loses the bytes between (`Aligned`); one without a
  whole frame plays nothing of itself (`HasAudio`); a header that leaves less than a frame in the
  first chunk starts the card with a length of 0, and it plays both buffers (`Sensible`); a song started while another plays, or
  after a stopped one whose `next_len` remains, mixes with it (`mixed`).
* A size within three of 2^32 wraps and is granted as a block of no bytes instead of refused (`Usable`). Slots of dead
  tasks are never used again.
* A text saved again under a name goes to a slot of its own and is never found: `compile` takes the first of the
  name for ever (`kernel.c:141`), although nano prints "File saved successfully!" (`aira_lang.c:322`).
  `SavedIsFound` promises that the text is in the files and that the name finds one of its texts, not which.
* A `beep` whose name is too long or has no end overruns the stack (`lost`): nothing is promised after it, and
  `RunsAsWritten` speaks of programs without such names.
* When one of two shift keys goes up, or a shift code is lost in a full keyboard, the flag tells
  the wrong case until the next shift code is read (`sure`).
* The period in which `sleep_ms` is called counts as a whole one: a sleep of m milliseconds lasts between m - 1 and m,
  and `sleep_ms(1)` just before a tick returns at once (`NeverEarly` asks for no more).
* A sleep whose target wraps around ends at once (`NeverEarly`). `sleep_ms` tests and then halts:
  the tick that ends it may come in between. The next tick ends it then, unless the target
  was the last value of the counter, which that tick takes back to 0 (`SleepEnds`). That only this value is
  in danger rests on `quiet`: a handler that ran for a whole period could let two ticks in.

## 4. Proofs

`tlapm` checks these for all values of the constants that the modules' ASSUMEs allow.

* **MemoryProofs**: of the heap, `HeapTyped`, `HeapWellFormed`, `HeapIsAllocator`. `WellFormed` is `Tiled` (the
  blocks of the list follow each other from the first to the last byte of the heap), `HeldBlocks`
  (a block in use is as large as asked for), `NoOverlap` and `FirstFit`. The inductive invariant is `Inv == TypeOK /\
  Tiled /\ HeldBlocks /\ Running`. `Tiled` alone is not enough: that a split leaves the
  caller's bytes whole needs `Running` (the size looked for is the size asked, rounded up;
  a block being freed is marked free). `NoOverlap` follows from tiling, and the steps of the calls are
  those of Allocator, a size that wraps being one of no bytes there (`Usable`). Assumed: a header of
  at least one byte, a heap that holds one, and a `Word` above the end of the heap (`HeapAssumption`).
  Of the tasks, `TasksTyped`, `TasksStaySound`. To `TasksSound` the invariant adds that each block held
  is a stack (`HeldStacks`); `Least` makes the searches for the first slot return one.
  `CallsEnd` and `ReadyTasksInTurn` are what liveness rests on: the walks of malloc and free leave one of the headers
  ahead (`Ahead`) behind at each turn, and every switch brings the ring nearer to a task that is ready (`InTurn`).
* **Fat32Proofs**: `TypeCorrect`, `VolumeCorrect`, `LeaksOnly`, `Implemented`, for volumes of any size and any number of power losses.
  `TypeCorrect` and `LeaksOnly` stand any failing writes, `VolumeCorrect` those of data and entries until the volume
  is `torn`, as it is by a write of the table that fails. `TypeCorrect` needs to know where a call is and what its locals are there (`Asked`, `Stage`) and that a
  file being written has exactly the clusters its size needs (`Fresh`), or the data would run past its chain.
  To `VolumeSound` the inductive invariant adds, in layers: `Heads`, that the chains which names and the call hold begin
  at different clusters, to which no table entry leads, that no two entries lead to the same cluster
  and none to a free one - so chains are disjoint, and by counting they end at a mark; `DirInv`, that a directory
  is filled from its start, begins with its dots and is where the dots of its subdirectories lead;
  `CwdReach`, that the current directory lies below the root; and `WalkFind` ... `NewDir`, where the
  loops of the call are and that they passed nothing they look for. Sharing no cluster alone is not inductive:
  an append could join two chains were their beginnings not free of predecessors. The chain that the model
  computes by turns of the loop is shown to be the least closed set with its first cluster (`TrailIs`),
  and the rest of the proof uses only that. For `LeaksOnly` nothing need be added: what the tree of directories,
  walked as far as the entry being overwritten, and the call use (`Use`) is what the model calls owned (`OwnedIs`), and each step
  hands every chain of it on, to the tree, to a local of the call or, freed, to no one (`LeakLess`).
  `Implemented` is that the driver implements FileStore. `StoreIs` says what the mapped store is: in the
  directories that lookups lead to (`Near`) what lookups show (`Shows`), elsewhere nothing. To show that a step
  leaves it alone, or changes the one name of the call, the invariant needs `Quest` too: the entry being
  overwritten is the one a lookup finds (`FoundKey`), a name that is not overwritten is absent (`KeyAbsent`), and
  what was written so far lies in the clusters it will be read from (`DataInv`) - without it a reported success
  need not have left the text that was asked for. Then there is one lemma for each action (`...Refines`):
  most touch a cluster that nobody looks at (`TouchAround`); the last write of a call replaces one name
  (`WrittenShows`, `WrittenOthers`). The theorem is about behaviours in which no sector write fails
  (`[](faults = 0)`), as FileStore promises nothing of the others; power losses are all in.
  `CallsAreFinite`: each statement goes on to a later one (`Ahead`) or back with fewer rounds of its loop left
  (`Rounds`); the walks along the current directory end only because a sound chain has no cycle.
* **FatTableProofs**: `TypeCorrect`, `TableCoherent`, `MirrorsStayClose`, `TableIsMap`. The inductive invariant `Ind` adds
  to the type invariant (`TypeInv`) what the buffer holds while it is written back (`BufInv`), how
  far the copies are written (`PrimaryInv`, `CopyInv`), what the cache holds before it is tagged
  (`FillInv`), what is left to patch (`PatchInv`) and that a tagged cache shows the first copy
  (`CacheInv`), each under the mishaps it can stand. Without `FillInv` and `PatchInv` the cache's
  claim is not inductive: it is wrong for a moment in every refill and every update. For
  `MirrorsStayClose` the entries in which copies differ are counted mishap by mishap. For
  `TableIsMap`, that FatTable implements FatMap, `Progress` says what a call has found out of the first copy when it goes
  on: what it read, what it is about to overwrite, and for an allocation that the clusters it has tried lie in a
  row before the hint and are in use (`TryInv`), so that one that gives up has tried all (`Circle`).
  `CallsAreFinite`: each statement lowers `Work`, the entries left to visit times the statements of a visit plus
  those left of this one. A free needs that no access failed and no lookup was disturbed: it counts on
  having cleared the entry it leaves.
* **AsmProofs**: `AsmTyped`, `PassesStayTogether`, `OutputStaysInside` and `AssemblesRight`. `Inv` says that the
  addresses of pass one form a chain (`Starts`, `Chained`, `Counting`, `Nothing`) and that pass two
  follows it having put out no more bytes than it has read characters (`Putting`). The check
  in the code, eight bytes before each line, is weaker than a `db` needs; what saves the buffer
  is that no instruction is written in fewer characters than it has bytes and that the source is no longer
  than the buffer (`WrittenAssumption`, a fact about the syntax and the file size). For
  `AssemblesRight`, `Kept` says that the first entry of a name in the table of labels has the address of the
  first line of that label, and that there is an entry for every labelled line; `Emitted` that what
  is put out of a line lies at the line's place and resolves (`Put`), a jump with the distance in its four bytes
  (`Jump`). `Digits` puts the bytes of an address together again, and `JumpLands` shows that the distance leads there
  modulo the address space. The places of the lines are a function defined by recursion; what is needed of it
  (`PlacesExist`, `PlacesNat`, `PlacesGrow`) is proved through the least line where it would fail (`Least`).
* **AtaProofs**: `TypeCorrect`, `SectorsDelivered`, `OthersUntouched`, for sectors of any length, any limits
  of the polling loops and a drive that fails whenever it likes; the last two until the first song plays or the first
  answer comes late (`Quiet`). `Follows` relates the statement the driver
  has come to with the phase of the drive: the same sector, the same count of words. `CallsAreFinite`: every step
  lowers `Left`, twice the statements ahead and one if the drive is busy, which only a command makes it.
* **Sb16Proofs**: `TypeCorrect`, `HeardIsTheAudio`, `NothingOverwritten`, for chunks and sectors of any size and songs of
  any length. `Layout` says which part of which buffer the card plays and which one comes next, `Content` that
  each of them holds the part of the song that is due. The last two theorems assume `Sensible` of the
  files: the header ends a frame before the first chunk does, and the file holds the audio it
  announces. `TypeCorrect` needs no such thing, and covers mixed streams too. Nor does `SongsAreFinite`: each step but
  the start of a song lowers `Left`, the shell's statements, each weighing more than any song (a `FillEnd` that an
  interrupt overtook can wrap `remaining` round), and what the file, the buffers and the card still hold.
* **TimerProofs**: `TypeCorrect`, `AllAttended`, `SleepNotShort`, for any lines and a counter of any size.
  `Serving` says which lines are in service at each statement of the handler, `Masks` that an unmasked line
  has a routine, also while a mask function is between its `inb` and its `outb`, and `Ticks` that the
  ticks counted and on their way are no more than the periods that have ended (`Ended`), that of the call included.
* **ShellProofs**: `KeyboardDrivesShell` (the keyboard adds nothing to what Shell may do), then `TypeCorrect`,
  `RowIsTheLine`, `SavedFilesFound`, `ReadAsMeant`, for lines and files of any number and a queue of any length.
  `ShellInv` says that the files are exactly those saved, slot by slot; `QueueInv` that after the shift
  codes that wait the flag will be what the keys are.
  Of the interpreter, `InterpreterTyped`. It would not stay inside its buffer by the length of the program alone, as
  numbers and texts are read on behind it: the invariant adds that nothing was ever written behind the longest
  program (`Edge`), so that every number ends there, and a text ends by its own limit (`TextEnds`). The name given to a `beep`
  has no limit: it ends inside the buffer (`NameEnds`) or the interpreter is `lost`, and what it and
  `ProgramsAreFinite` promise ends there. The value of a number
  is a recursive function of its digits; that it exists and stays an int is shown through the first digit where it would
  not (`SumExists`, `NumberInt`). `ProgramsAreFinite`: each statement lowers `Left`, made of the text behind the place
  `endloop` goes back to, the turns left and the text ahead, in this order of weight (`FallsTwice`).

  `ProgramsRunAsWritten` holds the interpreter against the meaning of its source (`RunsAsWritten`), for any set of
  sources of `Blocks` (`SourceAssumption`: loops that do not nest, counts that fit an int, numbers of at most two digits, names and texts that fit, no
  empty run of statements) and the constants of `AiraAssumption`. The meaning is one world per statement run
  (`after[n]`); the invariant `PlainInv` says that a plain program is at a place of its source (`Here`: `Between` two
  blocks, or `Within` a block's turns) which n statements have led to, and that variables, screen and fault are
  `after[n]`. A file is its blocks' words put end to end, so where each begins is a `Layout`; the same lemmas place
  the words of a statement in a block, a block in the file, and a turn among the statements run. Three more
  parts make it inductive. `Holds`: the buffer still spells the source. `SlotsSuffice` of the file, which stays true as a statement
  only adds names that the file sets (`NamesKept`). And `Spare`: a slot not in use has the number 0. The last is
  needed because a text leaves the number of its variable, which a later `beep` of that variable plays. `Do` says so too.
  Nothing is assumed of the programs before: a plain program begins with a fresh place and may find any loop counter, any
  text behind its own end and any variables; `sep` ends its last number or text before that is read.

Model-checked only: liveness under fairness (`CallsReturn`, `EveryTaskRuns`, `ProgramsEnd` and the like), as a step
being enabled is out of the prover's reach; for the heap, the tasks, the table, the volume, the sectors, the songs
and the interpreter the variant that makes them end is proved. And `BeepReturns`, which is violated.

## 5. What is left out, and abstractions

* Pixels, fonts, pictures, booting, the PC speaker: no state outlives a call but the cursor. In
  FatTable, AtaPio and Sb16Stream the interrupt is what its routine does; how it is taken is in Pic.
  `draw_pixel` calls `yield` (`graphics.c:65`), so that every character printed could switch tasks in the middle of
  a call; no file of the repository creates a task.
* Keyboard: the tables of characters; one letter stands for all keys with two characters. The typist has
  no arrow or PrintScreen keys: the shift codes that a keyboard puts around their own (E0 2A, E0 AA), which
  `kernel.c:76` reads as shift because it drops the E0, are left out. They would switch the case without a shift key, and
  `TypedAsMeant` says nothing of a line typed with them. Timer: the divisor
  of the crystal; nothing calls `pit.c` yet, so Timer takes its functions as a driver would call them.
* The FAT12 reader: nothing calls it since `fat32.c` took its place. `play_wav` and
  `prepare_audio_cluster` have no caller either.
* Fat32: reading a sector of a directory or of data never fails; failing reads are in FatTable (for the table) and
  AtaPio (for the port commands). Writes that fail are those of data, of entries and of the first copy of the
  table; what a failing write of the second copy does is in FatTable.
* FatTable: what a buffer holds that no read filled is any sector with values of the volume, not any bytes.
* Long-name records (never written), the listing's layout, reserved bits of a FAT
  entry, drive numbers, the sector count and the high bits of a sector number.
* AiraLang: characters inside a word; what the machine does after a name has overrun the stack. A loop left open by an earlier program remembers a
  position that may fall inside a word of the next; the model has it fall between words.
* Asm: how a line is read (numbers, registers, comments, cutting of long lines).
* Shell: commands are keys, and a line of `nano` that wraps at column 128 is not followed on
  the screen; the properties speak of lines that fit.
* Sound: sample rates, DSP commands, clusters of more than one sector.

## 6. Plan

Done, in this order: the FAT32 pair with its abstract specifications, heap and tasks,
sound, ATA, the Aira language, the assembler, the shell line; then the controllers and the timer, the
keyboard, and the proofs of the heap's and the table's refinements, of the keyboard, the timer, the
tasks, the sectors, the stream, the volume and its refinement, and the interpreter, which does what is written.

Left, modelling:
1. A module that composes FatTable with AtaPio, so that sector errors of the one are those of the other.
2. Tasks over the real Heap instead of Allocator: the theorem that Heap implements Allocator now stands
   between them.
3. `put_char`'s wrap at column 128 in `nano`.

Left, proofs: those of the modules to come, with the theorem that the composed modules keep what their parts promise.
