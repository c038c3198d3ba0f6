# A TLA+ model of libgpg-error

libgpg-error (also called gpgrt) is the run-time library under GnuPG: error
codes, a stdio replacement called *estream*, logging, an option parser, process
spawning and small helpers.  This directory holds TLA+ modules of the parts
where order, interleaving and failure matter, the TLC configurations that check
them on small instances, and proofs that TLAPS checks.  Paths below are relative
to the repository; lines are those of the commit the model was written from.

## 1. Inventory

### 1.1 Buffered streams (`src/estream.c`)

*State.* `struct _gpgrt__stream` and its `intern` part: the buffer with
`data_len`, `data_offset` and `data_flushed`, the unread buffer (what `ungetc`
pushed back), the flag `writing` (one buffer serves both directions), the
buffering strategy, `offset` (where the stream believes its backend is), the
indicators `err`, `eof` and `hup`, and the cookie of the backend with its read,
write, seek, ioctl and close functions.

*Operations.* open in many forms; read, getc, ungetc, getline, read_line; write,
putc, puts, printf; seek, tell, rewind, truncate; fflush, setvbuf, set_nonblock;
fclose, fcancel, fclose_snatch; poll.

*What is hard.* The cursors mean different things in the two modes and every
change of direction must turn one into the other.  A flush may be cut short by
an error and repeated.  Reading ahead moves the backend away from the program's
position, which relative seeks and `ftell` have to undo.  Backends that cannot
seek take paths of their own.

*What makes it correct.* Buffering is invisible: the program sees a file with a
position.  The cursors stay in the buffer.  No byte is lost when a flush fails;
an fclose that succeeds has delivered everything.  A failure can be told from an
end of file.

### 1.2 Memory objects (`src/estream.c`, `func_mem_*`)

*State.* `memory`, `memory_size`, `data_len`, `offset`, `memory_limit` and the
flags.  *Operations.* create, read, write, seek, truncate, snatch the buffer.
*What is hard.* Unsigned sizes against signed offsets, rounding to blocks, the
limit, allocations that fail.  *Correct* means `offset <= data_len <=
memory_size`, the limit is kept, and the object is a file.

### 1.3 The stream list and the locks (`src/estream.c`)

*State.* `estream_list` with its lock; a lock in every stream that is not
"samethread".  *Operations.* every open and close changes the list; `es_fflush
(NULL)` and the exit handler walk through it; `_gpgrt__get_std_stream` searches
it; `es_freopen` closes and opens in place.  *What is hard.* Two kinds of locks
taken in both orders, and streams that are freed while others walk the list.
*Correct* means no use after free, mutual exclusion, no deadlock, one stream per
standard descriptor, and a complete flush.

### 1.4 Pollable streams on Windows (`src/w32-estream.c`)

*State.* For each direction a context shared by the program and a thread: a
critical section, a buffer (a ring for reading), three events, and flags.
*Operations.* create, read, write, poll, set nonblock, destroy, and the loops of
the two threads.  *What is hard.* Events are reset by one side and set by the
other, in part outside the critical section; a close overtakes a thread.
*Correct* means that no byte is lost or doubled, the events tell the truth,
and every wait ends.

### 1.5 The other parts

| part | state and operations | what is hard in it, and what makes it correct |
|---|---|---|
| opening and closing (`estream.c` 1960-2335, 2540-2800, 3593-4430) | the mode string, cookies and descriptors, a name, close handlers | a failure after the cookie exists; who owns the descriptor; handlers that register handlers: every descriptor closed once, the same file opened on both platforms |
| backends of 1.1 for descriptors, FILE, sockets and Windows handles (`estream.c`) with the clamp (`syscall-clamp.c`) | a handle; one system call per function between two callbacks | EINTR, error paths: the callbacks pair up, one thread runs |
| poll (`estream.c` 5390-5695) | none of its own | a table that leaves items out and an index that has to follow it; pending data must make the call return at once |
| writing with escapes (`estream.c` 5770-5894) | none | two buffers must not look alike |
| printf (`estream-printf.c`) | tables of argument specifications and values | positional and starred arguments, types that do not agree, the end of the buffer |
| option parser (`argparse.c`) | a state machine over system file, user file and command line; the `[metacommands]` | which file is opened after which, forced and ignored options, sections and blocks: what the files say is what is returned |
| logging (`logging.c`) | the log stream, the socket and its reconnection, `missing_lf`, the error count | a connection that breaks and comes back; lines of several calls |
| spawn (`spawn-posix.c`, `spawn-w32.c`) | a process object: pid or handle, three descriptors, terminated, status | what is closed when something fails half way; a process waited for twice; command line and environment in two passes |
| name-value (`name-value.c`) | a list of entries, each with raw lines and a decoded value | folding, the position of new entries, the modified flag, failures in the middle |
| base 64 (`b64enc.c`, `b64dec.c`) | the bits of an unfinished quantum, the state of the armor | input that arrives in arbitrary pieces, errors that stick |
| string lists (`strlist.c`) | linked items | pointers to the next place |
| names (`stringutils.c`, `sysutils.c`) and environment (`sysutils.c`) | none; two environments on Windows | measuring and building in separate passes, a variable that changes in between |
| memory and abort (`init.c`) | the emergency handlers, the allocation function | sizes that wrap around, an abort while another one runs |
| locks (`posix-lock.c`, `w32-lock.c`) | on Windows a lock that initialises itself | several first users |
| versions (`version.c`) | none | patch levels |
| errors (`gpg-error.c`, `strerror.c`, ...), threads | constant tables, wrappers | - |

*How the parts interact.* Everything that writes text goes through estream:
logging keeps a line buffered stream on a cookie of its own, printf calls the
stream's write function with the lock held, the option parser reads its files
with `read_line`, name-value and base 64 read and write streams.  spawn makes
streams of its pipes.  estream calls back into backends, the allocation function
and the syscall clamp; on Windows a pollable stream sits between the stream and
the backend of its handle.  getline opens a memory stream inside a call on
another one, which is where 1.1, 1.2 and 1.3 meet.

## 2. Modules

| module | what it is | code |
|---|---|---|
| `ByteStream` | abstract: a file with a position and pushed back bytes | what 1.1 promises |
| `EStream` | one stream over one backend | `estream.c` 2337-3590, 4243-5281 |
| `MemFile` | abstract: a file that may be limited | what 1.2 promises |
| `MemBackend` | a memory object | `estream.c` 668-970, 3683-3781, 4277-4325 |
| `StreamList` | list, locks, threads | `estream.c` 410-632, 2540-2729, 3353-3483, 4100-4266, 4557-4601 |
| `W32Reader`, `W32Writer` | the two halves of a pollable stream | `w32-estream.c` 125-423, 429-712 |
| `W32Pollable` | both, with poll, ioctl and destroy | `w32-estream.c` 717-1026 |
| `OpenMode` | the mode string; open(2) and CreateFile | `estream.c` 1960-2335 |
| `OpenStreams` | descriptors, cookies and streams from open to close, names, close handlers; where stdin, stdout and stderr go | `estream.c` 2540-2800, 3593-4430, 5290-5385 |
| `Poll` | `gpgrt_poll` with poll(2) and with select(2) | `estream.c` 5390-5695 |
| `SyscallClamp` | backends between the two callbacks | `syscall-clamp.c`, `func_*` of `estream.c` |
| `Sanitize` | escapes, hex, trimming | `estream.c` 5770-5894, `logging.c`, `stringutils.c` |
| `Printf`, `PrintfOut` | formats and their arguments; fields and buffers | `estream-printf.c` |
| `ArgMeta`, `ArgParse` | the meta commands; the parser around them | `argparse.c` 100-3000 |
| `Logging` | sinks, socket, lines | `logging.c` |
| `SpawnPosix`, `SpawnW32` | descriptors or handles of a program and its children; on Windows also the command line and the environment of a child | `spawn-posix.c`, `spawn-w32.c` |
| `ProcCalls` | what wait, terminate and process_ctl answer | both |
| `NameValue` | containers | `name-value.c` |
| `Base64Text`, `Base64Encoder`, `Base64Decoder`, `Base64` | characters; encoder; decoder; one after the other | `b64enc.c`, `b64dec.c` |
| `StrList` | linked lists in memory | `strlist.c` |
| `FileNames` | joined names, the configuration directory, long names on Windows | `stringutils.c`, `argparse.c`, `sysutils.c` |
| `Environment` | getenv and setenv on Windows | `sysutils.c` |
| `Memory` | allocations, emergency handlers | `init.c` |
| `Locks` | both kinds of lock | `w32-lock.c`, `posix-lock.c`, `estream.c` 440-500 |
| `Version` | comparison of versions | `version.c` |
| `MCEStream`, `MCMemBackend`, `MCW32Pollable`, `MCBase64`, `MCArgParse` | instances, and the properties that are stated over whole texts or steps | - |
| `MCComponents` | the instances of all that share no state, in one specification | - |
| `EStreamProofs`, `ByteStreamProofs`, `BackendProofs`, `StreamListProofs`, `SpawnProofs`, `OpenStreamsProofs`, `ArgParseProofs`, `SystemProofs` | theorems | - |

### EStream

`s` is a record with the fields of the C structures under their C names; `file`,
`fpos` and `out` are the backend, `mode` is how the stream was opened, `ret` the
result of the last call.  A public function locks the stream for its whole body,
so one call is one action.  Every internal function (`flush_stream`,
`fill_stream`, `es_readn`, `es_writen`, `es_seek`, ...) is an operator of the
same name from a stream to the *set* of its outcomes: what the backend did
instead of what it was asked is the choice.  The fill and flush loops are stated
by what they leave behind.  `Crash` stands for a failed assertion and for a
memcpy beyond the buffer, or without one.  The field `buffer` says where the buffer
is: in the stream, allocated by `es_set_buffering`, or nowhere.  That call frees an
allocated buffer before it asks for the next one; when there is no memory
(`NewBuffer`) the buffer is gone while its size and the strategy stay.
Then a backend that reads answers EFAULT (`NullRead`), and a write is the end of
the program (`Crash`).

Backends are `file` (seekable), `pipe` (a seek answers ESPIPE) and `noseek` (a
cookie without a seek function).  Four fields record history for the properties:
`lost` (bytes read ahead and dropped without a seek), `resent` (bytes of a flush
that failed half way and was repeated), `accepted` (what the program wrote to a
pipe) and `turned` (the stream was read and then written without a seek).

The refinement to `ByteStream` maps `data` to the file with the bytes pending in
the buffer laid over it, `pos` to the backend's position less what is read
ahead, `back` to the unread buffer.

Left out: the bytes an operation formats (printf is a write), the file name,
truncation, and the non-blocking flag, which appears as EAGAIN from the backend.

### MemBackend

`c` is `struct estream_cookie_mem`, with `memory` as a function from indices to
bytes, 0 or `Uninit`.  `size_t` arithmetic is modulo `Word`; an offset is a
number of the same width, so that a negative one is a huge position, as in the
comparison `pos_new > mem_cookie->memory_size`.  `func_realloc` may fail at any
time.  `strayed` records that a relative seek has failed, which is the one way
out of the invariant (finding 3).

### StreamList

Threads run the calls of `Calls` in steps: a step ends where another thread can
observe something, at each lock and unlock.  A stream's contents are the single
bit `pending`.  Streams are addresses that are allocated, freed and allocated
again.  The list is a set: the C list is in the order of allocation, so that a
set allows the walk every order, a superset of what the code does.  `op`, `cur`
and `line` are the local variables of a call on a stream, `visit` and `todo`
those of `fflush(NULL)`; `due` is recorded for a property.  `std` is
`is_stdstream` with its descriptor, and `made` which standard stream an address was
made as: freopen clears the first (`init_stream_obj`, 2510) and not the second, so
that `StdUnique` can say when the next request makes another one.

The rules of a C program are in `Usable` and `Call`: no thread uses a stream that
another one is closing or reopening, or a samethread stream it has not opened.

### W32Pollable

The records `r` and `w` are the reader and writer contexts, with `at` for where
the thread is.  A critical section in which nothing can be observed from outside
is one step.  Flags and events that the code sets outside of it (the ends of
both threads) are steps of their own, which is where the races are.
`prog` is where the program's thread is in its call; the calls of one
stream exclude each other by the stream's lock.  Bytes are numbered, so that a
lost, doubled or overtaken byte is visible.  `ShortWrites` allows the backend to
take a part of a buffer; on a pipe `WriteFile` does not.

### Base64

One call on an object is one step.  `enc` and `dec` are the two uses of
`struct _gpgrt_b64state`; the local copies a call makes of it (`radbuf`,
`quad_count`; `ds`, `val`, `pos`) are stored back at the end of the call, so a
field that is not stored would be lost at the end of a piece.  The encoder's
writes are made in groups, between which the code looks for an error; any set of
the writes in `BadWrites` fails.  The decoder takes one character at a time with
`Step`, one operator per state.  The references in `MCBase64` know neither
pieces nor states: they regroup the bits of whole strings, compute the checksum
bit by bit, and find the digits of an armor by its lines.  The composition
models a program that decodes what it encoded, or a text from elsewhere.
The modules use recursive operators and bitwise arithmetic, so nothing is proved
of them; what a loop over data computes is out of the prover's reach anyway.

### ArgMeta, ArgParse

A line of a file and an argument are records; a step reads one.  `arg` is
`gpgrt_argparse_t` with its internal part.  The states are those of `arg->state`,
from `init` over `open_sys`, `read_sys`, `open_user`, `read_user` to `read_cmdline`
and the end.  `ArgMeta` is the text between brackets: each handler is an operator
from a parser to its successor with the error in `r`.  `out` records what was
returned, and in which state.  `LockedStays` relates it to the attributes of the options.
`FilesExact` does not look at what the parser keeps:
`MCArgParse` says from the text of a file which of its lines are in a section for
the user, in no skipped block, and marked (`Live`, `Forced`, `Ignored`), and
the property compares.  Left out: the help and usage texts,
alias definitions, ONEDASH, configuration names in two parts, registry failures
beyond a missing key, and comparison operators that differ in wording only.

### SpawnPosix, SpawnW32, ProcCalls

`SpawnPosix` has one table of descriptors for the program and one per child; a
step is one library call, in which any system call may fail.  A child's table is
what `my_exec` leaves of the parent's; it ends at once when `/dev/null` cannot be opened
or a descriptor it is to have is not open.  `request` records what the flags and the
actions ask for.  Nothing is promised of a standard file that a redirection before it has
overwritten (`Overwritten`), since `dup2` goes from 0 to 2.  `HaveClosefrom` chooses the branch of
`_gpgrt_close_all_fds`: closefrom starts above the last descriptor of the list and so may take
standard files (`Unlisted`).  A leak is seen, and a close that hits another owner; a close of a
number that is free is not.  `waited` counts the waits for a child, beyond the life of its object, and
`stray` has who sent a signal to a child that had been waited for: `process_terminate`
and GPGRT_PROCESS_KILL do so whenever the program says.  `SpawnW32` is the same for handles, where the
inherit mark is a part of the handle.  Its second part lets the child take the command
line apart again, with the rules of the C run-time library (external), and
`ProcCalls` follows one process through queries in every order.

### Logging

Of a text only its line ends count.  A call is one step; a hexdump is a sequence
of calls between which other threads log.  `fun_writer` is an operator: connect
if there is no connection, write, and give the connection up when it fails.
`glued`, `silent` and `lost` record history.  Standard error and the log file outlive the
stream of the log: `tails` has which of them was left with an unfinished line when the sink
was changed (`Closed`), and a return to it (`Sink`) goes on in that line.

### OpenStreams, OpenMode

`lib` has for each stream the way it was opened, the state of its cookie, its
handlers, name and flags, and for each descriptor who owns it.  Every step of
`create_stream` that can fail is a choice.  `lib.dead` marks behaviour that is undefined,
such as a cookie freed twice; the code gets there, and `ended` records how, so that
`DescriptorsAccounted` can say that it is in the cases its comment names and in no other.
`hollow` has the streams that were returned without a cookie.  `registered` is the set of
close handlers that were asked for and neither called nor taken back; it outlives a freopen, which
frees the list of them, and `NotificationsKept` compares the two.

### Printf, PrintfOut

A format is a sequence of tokens.  `Printf` parses it into the table of
`argspec_t`, gives arguments their positions, reads the values in that order and
walks the format again; `FormatExact` says for each conversion which argument the
C standard gives it.  `PrintfOut` lays an integer out within width and precision
and writes into a buffer that ends anywhere, or grows.

### The components without interleaving

`Memory`, `Version`, the command lines of `SpawnW32`, `OpenMode`, `Sanitize`, `FileNames` keep nothing
between calls, but for the emergency handlers: a behaviour is one call (or the
parts of one that look at the system), over every input of a small set, compared
with a definition that knows nothing of buffers and passes.  An emergency handler may return, abort itself,
or register itself or others; `owes` counts for each its registrations less its runs.  Of
`StrList` an operation may run out of memory: a tokenizing or a copying then frees what it has
(`TokenizeFails`, `CopyFails`).  The allocation failures of `name-value.c` are not
modelled.  `Environment` lets
other threads change the variable between the two calls that measure and read it.

## 3. Runs

| run | shows | properties |
|---|---|---|
| `estream_file` | over a seekable backend that fails now and then, a stream implements a file | `ImplementsByteStream`, `BufferMirrorsBackend`, `BufferedFailureTold` |
| `estream_faults` | flushes that fail half way, over all three backends | `PositionExact`, `PipeExact`, `CloseDelivers` |
| `estream_turn` | *violated*: input read ahead is sent out again (finding 1) | `InputIsNotSent` |
| `w32_pollable` | program, reader and writer in every interleaving, with faults | `PipesKeepBytes`, `NoFalseEof`, `CallsReturn` |
| `w32_write_error` | *violated*: a write error that is never reported (finding 2) | `WriteErrorReported` |
| `mem_assert` | *violated*: the assertion of `func_mem_write` (finding 3) | `AssertHolds` |
| `stream_list` | two threads and three addresses | `TypeOK`, `NoUseAfterFree`, `OneAtATime`, `FlushAllFlushes`, `StdUnique`, `CircleIsGetline` |
| `stream_circle` | *violated*: getline and fflush(NULL) wait for each other (finding 4) | `NoCircle` |
| `argparse` | the files and the command line, with everything that can be wrong with them | `FilesExact`, `LockedStays` |
| `argparse_else` | *violated*: the else part of a false condition is skipped (finding 5) | `ElseTaken` |
| `strlist_copy` | *violated*: a copy loses all items but the first (finding 6) | `ListsHold` |
| `components` | each of twenty-two parts that share no state | see the next table |

`components` is one run over many specifications: the variable `part` says which
one a behaviour is of, the others stay as they start.  Its properties, by part:

| property | what it says | part |
|---|---|---|
| `FdsAccounted` | whatever step of a spawn fails, every open descriptor has an owner, and every owner's is open | `SpawnPosix` |
| `ChildPipesExact` | a child has the files it was to get and no other, standard files above a closefrom list aside; its reader sees the end of them | `SpawnPosix` |
| `ReapedOnce` | a child is waited for once, its object freed only then, and signalled after only by the program | `SpawnPosix` |
| `HandlesAccounted` | the same as the first for handles | `SpawnW32` |
| `CallsTellTrue` | an exit code or a signal is told only of a child that ended so | `ProcCalls` |
| `ChildGetsAll` | the child takes the command line apart into the caller's arguments; the environment block is the merge | `SpawnW32` |
| `LogStreamExact` | at most one line is lost while the server is there, the announced descriptor is the one in use, messages begin lines but for two named cases | `Logging` |
| `LockInitializedOnce` | several first users make one critical section | `Locks` |
| `PollItemsExact` | each item is told of its own descriptor | `Poll` |
| `DescriptorsAccounted` | a descriptor is closed by its owner, once, but for four named failures | `OpenStreams` |
| `StreamPromisesKept` | close handlers, the nonblocking mode, the name, and where standard streams go | `OpenStreams` |
| `FileOpenedAlike` | CreateFile does to a file what open(2) does | `OpenMode` |
| `OneThreadRuns` | with nPth's callbacks one thread runs at a time, on every path of every backend | `SyscallClamp` |
| `PrintfExact` | each conversion takes its own argument; fields are as C lays them out; a buffer is terminated | `Printf`, `PrintfOut` |
| `EscapesReadBack` | what is escaped can be read back | `Sanitize` |
| `ContainersExact` | a container that is written is read back; an unmodified one is the same | `NameValue` |
| `ListsSound` | lists are linked once and of allocated items | `StrList` |
| `Base64Exact` | pieces of any length give what the whole text gives | `Base64` |
| `MemorySound` | sizes that wrap are refused, a handler runs once per registration and none is dropped, a memory object keeps its bounds | `Memory`, `MemBackend` |
| `ImplementsMemFile` | a memory object is a file, for as long as no relative seek fails | `MemBackend` |
| `VersionsOrdered` | the comparison is an order on the valid versions | `Version` |
| `EnvironmentKept` | what getenv returns is a value the variable had | `Environment` |
| `NamesExact` | a joined name has room and is its parts; a long name has its prefix | `FileNames` |

Properties made of several parts (`PositionExact`, `PipeExact`, `PipesKeepBytes`,
`CallsReturn`, `FilesExact`, `LockedStays`, and in `MCComponents`) are conjunctions of
definitions that stand with their own comments in the modules they are about.

### Bounds

* `estream_file`: buffers of one and two bytes, an unread buffer of one, files
  up to four bytes, reads and writes up to three: each transfer can be smaller
  than, equal to, and larger than the buffer, and leave it empty, partly filled
  or full, before and after a byte that is a newline.  Relative seeks go from -1
  to 2.  `MaxResend` is 0: a flush fails before it has written anything.
* `estream_faults`: a flush may fail after some bytes, twice in a row
  (`MaxResend` is 2), over all backends.  The file is shorter in exchange.
* A stream that has gone astray (`turned`) is followed through fflush and fclose
  only; that is enough to show where its bytes go.
* `stream_list`: two threads (a third cannot make a circle of another kind:
  every wait is for the list or for one stream), three addresses, so that
  one thread walks over a stream that is used and one that is being
  closed while a getline allocates another.  Threads and addresses are symmetric
  (`Symmetry` in `StreamList`).
* `w32_pollable`: a ring of three bytes (two usable) and three input bytes wrap
  around; a writer's buffer of two and two bytes of output fill it once and in
  two parts.
* `argparse`: up to four lines about sections in the system file, or five about
  blocks, and one in the user's file; two lines of every odd kind; command lines
  of two or three arguments of every kind; conditions nest to `IfMax` = 2.  A
  file with five lines has room for a block in a block with its else.  Sections
  and blocks are not mixed in the files the properties speak of.  A call always has
  a file to read (ARGPARSE_FLAG_SYS or _USER).  The deadlock check is off:
  parsing ends.
* `components`, by part:
  memory objects have words of four bits (16 sizes, sums wrap around), blocks of
  two bytes, allocations up to four, a limit of none or of one that is rounded to
  a block; base 64 has lines of two quanta, so that seven bytes end a line in the
  middle, at its end and beyond; two processes, and `MaxFd` = 10 descriptors, just
  enough for one's pipes while the other's are open, so that a pipe can fail at
  every place; redirections to an open descriptor, exchanged, and to one that is not open; lists of descriptors to inherit above and below the standard files, with closefrom; four handles to inherit; one logging thread with a hexdump under way and
  two descriptors for the socket to take; three lock threads, two lives of a lock,
  recursion to a depth of two; three poll items over two descriptors; one stream and
  two descriptors, with two handlers registered twice at most; two threads in the clamp;
  formats of three pieces, widths 0 and 5, precisions 0 and 4, buffers of 0, 1, 3
  and 5 bytes; container lines of six characters with a window of three, two
  entries; four list items and two lists; sizes modulo 8; environment blocks of five
  entries (`EnvDim`); names of three parts, behind a root, a directory, a drive's root and a server's share; long names from a length of six, with the
  short and the extended limit between those of the paths.
  The sizes that the source gives as numbers (64 or 80 columns, 256 entries, 260
  characters) are constants of the modules, so that the small values meet the same
  comparisons.
* `strlist_copy`, `mem_assert`: the smallest instances that show the violation.

Deadlock is not checked where the system may stop: a closed stream, a finished
call, a used up input bound, and the circle that finding 4 is about.

### Fairness

Only `W32Pollable` states any.  The reader and writer threads and the program's
thread inside a call are scheduled by Windows (weak fairness); a write to a pipe
that answers ERROR_BUSY is not busy for ever (strong fairness of
the write that succeeds; the code retries at once, 472-477).  The program need
not make another call, and a poll need not time out.  The backend's read
answers in the end; where it does not, a blocking read of the program need not
return either.

## 4. Findings

1. `es_writen` says it discards the input when it turns to writing mode
   (`estream.c` 3255).  With a seek that answers ESPIPE it does not: the buffer
   and its cursor stay, and what was read is sent to the peer in front of what
   is written.  If the buffer was full, an assertion in `flush_stream` or a
   copy beyond the data can follow (`CrashOnlyAfterTurn` shows that nothing else
   leads there).
2. `w32-estream.c` 426-428 promises that a write error is reported by the next
   call.  The thread sets `error` and `is_empty` outside the critical section
   (480, 490); a program that looked at `error` before and resets `is_empty`
   after (634-639) waits for ever.  `WriteReturns` and `CloseReturns` hold except
   in this race; `ReadReturns` has the same exception for a broken pipe (170-182
   against 397).
3. `func_mem_seek` changes the cookie in `SEEK_CUR` and `SEEK_END` before it
   knows the position to be reachable (854, 858).  After the failure the next
   write fails its assertion (769).
4. `es_getline` takes the list's lock while it holds its stream (`doreadline`,
   3381), `es_fflush (NULL)` a stream's lock while it holds the list's
   (4573-4598).  The manual calls the library fully thread-safe.
5. `handle_meta_if` turns an `[else]` off unless its branch is active
   (`argparse.c` 1025): of an `[if]` with a false condition neither part is
   taken.  `tests/t-argparse.conf` 46-53 and 74-77 have such blocks, with a line in the
   else part that is to be seen.
6. `_gpgrt_strlist_copy` takes the address of its own variable (`strlist.c`
   213): only the first item is linked, the others are lost.

`CircleIsGetline` and `OnlyGetlineDeadlocks` say that getline and a failing
freopen are the only calls that can be in such a circle.

### Further observations

Met while modelling.  Where a property would not hold because of one of them it
names the exception; the others are in parts that are left out.

*estream.*  A `setvbuf` that finds no memory leaves a stream whose buffer was allocated
before without one, but with its size: the next write copies to a null pointer, and a read gets EFAULT
from the system (3549-3572, `CursorsInBounds`).  `freopen` makes a standard stream an
ordinary one (2510), so that the next request makes a second one (`StdUnique`).  An unbuffered read sets no indicators, so the advice in the comment
of `set_nonblock` (5326-5330) does not work there (`BufferedFailureTold`); a
reader thread whose ring is full when the stream is closed never ends, and one
about to call the backend uses a freed cookie (`ReaderEnds`); `fflush (NULL)` does
not exclude the owner of a samethread stream (`OneAtATime`); a seek relative to
the end of a memory object cuts its data or leaves a gap that is not filled
(`ImplementsMemFile`).  `trylock_stream` answers 0 for a busy lock (467-481).
`_gpgrt__get_std_stream` gives stdin and stdout the descriptor registered for
stderr if they have none of their own (4118-4126, `StdStreamsKept`).
`get_nonblock` does not know of a descriptor that was nonblocking before (5366
against 2488-2530).  The keyword `wipe` of a mode string steps over ten characters (2320); a
second `share=` takes bits of the first away; append on Windows opens existing
files only.  `fdopen` and `sockopen` with "nonblock" free the cookie and return
the stream when the ioctl fails (`hollow`); `create_stream` closes the cookie
twice when the list cannot grow (both in `DescriptorsAccounted`), and reads uninitialised memory when the first
allocation fails; `freopen` with no path, or failing, closes it twice, frees a
name that was given out and forgets the close handlers, as every freopen does (2566-2571).  A handler registered
while another runs in `do_close` is lost (`NotificationsKept`).  `func_w32_seek` posts without a pre
when there is no clamp; `func_fp_read` with a NULL file calls `ferror (NULL)`.
An item of `gpgrt_poll` that wants nothing reads its neighbour's answer, and
nothing but POLLERR gives the 0 of a timeout (5388).  `write_sanitized` counts
one more byte per escape than it wrote (5800 against 5778-5783).

*argparse.*  With ARGPARSE_FLAG_SYS alone the user's file is still read
(2547-2554).  An option followed by a blank is processed in an inactive section,
and when it is marked as ignored by the table.  `--flag=arg` sets `r_type` where
`r_opt` is meant (2838).  Blocks that the system file leaves open go on in the
user's file.  `command_seen` is not restored after the first pass over the
command line; deinitialising keeps the wrong half of the flags; `[-let *]` is
refused by the test for a letter; a long `alias` line ends the file; force marks
last beyond the next `[user]` although `tests/etc/t-argparse.conf` 28-33 says otherwise (the
exception that `FilesExact` names);
"help" and "version" are accepted in files.

*printf.*  A format that ends inside a conversion is read beyond its end;
`"%1$y%1$d"` fails an assertion; `%hhd` fails after it has written; `%c` has no
width; `%#x` of 0 has a prefix, `%#.0x` one that is not counted; a failing
`vsnprintf` leaves the buffer unterminated; an argument can be named once only.

*Names, values, memory.*  Raw lines of private keys are not marked for wiping;
values with line feeds, with two blanks at a fold or blanks at their ends change
when they are written (`Expressible`); a name of 41 to 69 characters makes the
search for a fold begin before the value; `strlist_pop` does not wipe.
`reallocarray` to no members frees and returns NULL; two invalid versions are less
than each other, and patch levels with bytes above 127 are not ordered
(`VersionsOrdered`).  An empty variable on Windows makes `getenv` fail.  A
drive-relative name with FCONCAT_ABS copies from behind its colon into room that
was not counted; an empty first part behind the system's directory, or a home
directory of "/", leaves a double slash; a name without a separator gets no prefix however
deep the directory is (`NamesExact`).

*Processes.*  The result of `dup` is not looked at for SOCKETPAIR (673), whose
wiring also gives the parent the child's end; a release on POSIX leaves unclaimed
descriptors open and waits for ever for a child that ignores SIGTERM; `dup2` in
the child is in an order that crossing redirections break; where there is closefrom a list of
descriptors to inherit that ends below 2 closes standard files (250-264, `ChildConnected`); a
`gpgrt_process_terminate` after the wait signals a number that may be another's (834).  On Windows a bad
environment returns without closing the pipes (`HandlesAccounted`), a backslash
before a quote that is added escapes it (`ChildGetsAll`), `process_kill` returns
the opposite of what happened, and a process whose handle was taken is never
seen to have ended.

*Logging, base 64.*  `set_sink` says that messages go to stderr when the
connection fails (541-545); they are dropped.  `log_flush` prints no line feed; an empty
format takes over an unfinished line, and a new sink forgets one that stderr or the log file was left with
(535, `MessagesBeginLines`).  A pad after a single digit makes the decoder
deliver an octet of six bits and no error (`b64dec.c` 194-197); `_gpgrt_b64dec_finish`
answers `GPG_ERR_EOF` once the end was told, whatever was wrong; an encoder
released with `_gpgrt_b64dec_finish`, as the comment at `_gpgrt_b64enc_start` has it,
loses its last quantum and its trailer (`EncFinishAsDecoder`); a flush with a
BUFFER of 0 needs a stream that has one.

## 5. Proofs

Eight modules of theorems, each for every value of the constants that the modules'
named assumptions allow: any sets of threads, streams, descriptors and processes, any
file, any size of a buffer or a ring, any width of a word.  TLC finds the same on the
small instances above.  Two means recur.  A property is hardly ever inductive as it
stands, and what is added to it is said below, because it is the reason why the code is
right.  And where a value is computed by a recursive function or a fold (the ring's
remainders, the data a transfer leaves, sums of sizes, lines of a message), induction
is by the least number for which the claim fails (lemmas `Least`, `Induction`), which
needs no rule with an operator for a parameter; a fold is first rewritten into the
recursive function that its definition makes of it (`FoldIsSumming`, `FoldIsExtras`).

**`EStreamProofs`** proves the three properties of `estream_faults` and two of
`estream_file`: `PositionExact`, `PipeExact`, `BufferMirrorsBackend` and the two
action properties, `CloseDelivers` and `BufferedFailureTold`.  Its invariant, `IInv`, is
the conjunction of

* `Good`: the fields of a stream are formed for the mode that it is in (a stream that
  writes has nothing pushed back, a flushed buffer is empty), the cursors are in the
  buffer unless it has `turned` (`Bounded`), the offset, what is read ahead or flushed,
  and the recorded losses add up to where the backend stands (`Counted`), the buffer of
  a reader is the part of the file before that position (`Mirrors`), a buffer that is
  gone holds nothing, and a stream has crashed only after it has turned or for want of
  its buffer;
* `Delivered`: of a backend that cannot seek, what it got and what is pending hold the
  `accepted` bytes in order, and besides them no more than failed flushes account for.

It has a lemma for the outcomes of each internal function (`fill_stream`,
`flush_stream`, `es_seek`, ...), so that the lemmas on the calls look at no backend any
more.  `Embeds` is the order of the accepted bytes by a map between positions; `Found`, the
recursive function of the property, is tied to it by the least counterexample.  It assumes
`ConstantsAssumption` only.  TLC checked `IInv` on the instances of both runs.

**`ByteStreamProofs`** proves `ImplementsByteStream` (theorem `StreamShowsFile`): over a
backend that can seek, and as long as no flush is left half done, every step of `EStream`
is a step of `ByteStream` or a stutter, whatever the calls, the failures, the buffer, its
size and its mode are.  The hypothesis is there because of what the code does: a flush of
which the backend took a part and failed is repeated from its first byte
(`data_flushed` stays), so that the file gets these bytes twice, at different positions,
and is no file with a position any more.  The run `estream_file` excludes the same with
`MaxResend = 0`; how much is sent twice is what `PipeExact` counts.  Failures that take
nothing, and failing seeks, fills and closes, are all in the theorem.  Its invariant,
`SInv`, is `IInv` of `EStreamProofs` and

* `Within`: the buffer of a reader ends within the file, so that what it reads ahead
  is really there.

The proof has a level for each level of the code.  `Steady` streams are the ones that a
call finds and leaves; for each internal function there is a lemma about what its
outcomes show of `LogicalData`, `LogicalPos` and `unread`: `fill_stream` and the reads
(`ReadnShows`, `ReadLineShows`) move the position and leave the data, the writes put their bytes at the
position (`Overlay` twice is `Overlay` of both, `OverlayTwice`), a flush and a change of the
direction move nothing.  On them rests one lemma per action of `ByteStream`
(`ReadRefines`, `WriteRefines`, ...), and `StepRefines` takes them together.  Where the
code drops what it read ahead, the abstract specification says so: that is its `Flush`.

**`SpawnProofs`** proves `FdsAccounted`, `ReapedOnce` and `ChildPipesExact` of `SpawnPosix` and
`HandlesAccounted` of `SpawnW32`.  The invariants, `PInv` and `WInv`, say of every
descriptor that it has one owner: the program, a slot of a process object, a local
variable of the spawn that runs, or the remains of a release; a process that was not
started owns nothing, and the local variables are those that the place in the spawn has
set so far.  Without the last part a close on an error path could hit another process's
descriptor.  `Stepped` and `PosixStepped` are the common parts of the steps: one
process changes, the others' descriptors do not.

`ChildPipesExact` says what is behind the descriptors of two tables, the program's and the
child's, and rests on `CInv`.  The accounts are needed for it: that a pipe gets descriptors
nobody has (`New`) is why the files of others stay where they are (`SameFiles`).  The lemmas
follow a spawn.  `PrepareFiles`: after the pipes, each end of the child is in one descriptor,
the one that is remembered for it (`Filled`), and what is remembered leads to the file that was
asked for (`Gives`); if a step fails the table is what it was.  `ParentFiles`: what the parent
closes are these ends.  `ExecConnects`: three times `/dev/null` and three times `dup2`
give the child what was asked for, by what each `Assign` and each `Connect` keeps of the table
before it.  `ChildStepped` is then the whole step: a spawn puts only pipes of its own process
into the two tables, so that no child gets an end that belongs to another.  The theorem holds
however few descriptors are left, on systems with closefrom and without.

Assumed: `HandlesDiffer`, `WFlagsAssumption`, `FreeIsNoFile`, `ClosefromOrNot`, `ExtraIsOpen`, `FlagsAreFlags`,
`ActsAreActs`, which say that markers are not values, that pipes, `/dev/null` and the program's
file are different things, and what a caller can give.

Its last sections are about what stands around a process.

* Calls on a process: `CallsTellTrue` (`ProcessCallsTellTrue`).  `CallsInv` adds what the
  object keeps (`EndKept`): on POSIX the status of the child from the one wait for it, on
  Windows nothing, the code is asked for again.  Assumed: `ProcAssumption`.
* The environment: `EnvironmentKept` (`EnvironmentStays`).  `EnvInv` adds what a call
  between its two steps has seen (`SeenNow`) and has set (`SysSet`).  Assumed: `EnvAssumption`.

**`OpenStreamsProofs`** proves `DescriptorsAccounted` and the whole of `StreamPromisesKept`
(theorem `StreamPromises`).  `OInv` adds that no two streams
refer to one descriptor (`OneReference`), and that a name is marked when it is
given out (`NameKept`).  `NotifyInv` adds what the close handlers need (`NotifyKept`): no function is
listed twice unless it is disabled, a function runs only in a close, its item is on the list, and what
comes after that item, or the whole list while none runs, is what was asked for and not taken back, the
last one first (`InOrder`).  That the running item is on the list, once, is what makes the place where
`do_close` goes on the right one after its handler has registered or disabled others.  The lemmas say
what taking the items of a set out of a sequence (`Those`) makes of an item at either end, of the
reverse, and of a second taking, by induction over the length; `PushedKeeps`, `DisabledKeeps` and
`TakenKeeps` are the three things that happen to a list.  `PastInv` adds the history to it: how
the behaviour came to be undefined (`EndedKept`), that the streams without a cookie are those of
a failed ioctl, and that what is registered for a stream is what was asked for, until a close
or a freopen (`RegisteredKept`).  It assumes `OpenAssumption`.

Its last sections are about what the calls on streams rest on, three parts without a state in common.

* Locks: `LockInitializedOnce` (theorem `InitializedOnce`).  It needs that of the threads in
  the initialisation there is one at most (`OneInits`), and that there is none once
  `initdone` is set; that follows from `started`, which is at least 0 as soon as one has
  counted (`Counted`).  `InsideInitialized` and `InsideOwns` carry over to `destroy`, which
  only happens while nobody is inside.  Assumed: `LockAssumption`, that "no owner" is no thread.
* The clamp: `OneThreadRuns` (`OneThread`).  `ClampInv` ties the place of each thread to the
  owner of nPth's lock: a thread that runs has it, one in the system or back from it has
  not.  Assumed: `ClampAssumption`.
* Poll: `PollItemsExact` (`PollTellsTheTruth`).  The reader of the answers counts slots as
  the writer of the questions does, leaving out the same items; `SlotsDiffer` and `OwnSlot`
  make that a fact about cardinalities.  `PollInv` adds that a call waits only if nothing
  was pending when it began.  Assumed: `PollAssumption`.

**`StreamListProofs`** proves that each of the six safety properties of the run
`stream_list` is an invariant of the specification.  The properties are not
inductive by themselves.  `NoUseAfterFree` says nothing of why a stream that
`fflush(NULL)` waits for is still there: it is because the walker has the list's
lock, without which nobody takes a stream from the list.  `IInv` adds what the
argument needs:

* `ListIsLive`: the list holds exactly the streams that are allocated and not
  being closed;
* `WalkerHasList` and `TodoListed`: a thread that walks has the list's lock, and
  what it has yet to visit is in the list;
* `CallSane`: the stream of a call is listed until the call takes it off;
* `Alone`: a call that closes or reopens a stream is the only call on it, and a
  getline's line stream is nobody else's;
* `LockHeld` and `LockOwned`: who works on a stream that has a lock holds it, and
  who holds one is in a call that took it;
* `DueSane`: what `fflush(NULL)` has yet to flush is on its way or has left the
  list;
* `StdMarked`: a stream is marked as the standard stream it was made as, or no more.

There is one lemma per action, with a step per conjunct; `Invariance` combines
them, and each property follows from `IInv` without a further induction.  The
proofs assume `NobodyAssumption` and `NoneAssumption`: that the markers for "no
holder" and "no stream" are not threads or streams.

Its second part is the log: `LogStreamExact` (`LogStreamPromises`).  `Sound` ties the
descriptor to the sink and to the one announced, and `Explained` says which lines may be
open without a line feed being missing: those that a call without text took over, and those
that a sink was left with (`ClosedSound`, `SinkSound`).  The sum over any number of extra lines is
a fold.  Assumed: `LogFdAssumption` and `HexDumpsAssumption`.

**`SystemProofs`** has one section for each of seven parts that share no state.

* Memory: `BlocksExact` and `HandlersOnce`, two of the parts of `MemorySound`
  (`BackendProofs` has the third).  `NoWrap` shows that the test of
  `_gpgrt_reallocarray` lets no product through that wrapped, for every width of
  `size_t`: a product that wrapped does not give the number of members when it is divided by
  their size.  For the handlers, `HandlersInv` says that the list is one of handlers and that
  nothing runs when the program has ended; the rest of it is `CleanupOnce`.  Assumed: `MemoryAssumption`.
* Versions: `VersionsOrdered` (`VersionsAreOrdered`), for every set of strings.  `StringIs`
  shows that a valid string is three integers, whatever an `int` makes of its digits (the
  fold over them is a function on sets of indices, `ValueIs`), and the end of the string.
  The comparison of patch levels has four special cases; `PatchIs` shows that together they
  compare the first characters that differ by what these count for (`Rank`: the end is
  less than a dot, a dot less than all others, until a dot of both; then the codes),
  and `PatchTransitive` that this is an order.  Before a common dot that depends on one
  string only, which is why the cases fit together.  Assumed: `VersionAssumption`.
* String lists: `ListsSound` (`ListsStaySound`), for any number of items, lists and texts.
  The invariant `SlInv` adds a witness: for each list variable a sequence of addresses, its
  path, whose items are allocated and linked in that order, no item being in two paths.
  `ItemsIs` ties the model's walk over a list, which is bounded by the number of items,
  to the path.  Each operation has a lemma that gives the path it leaves (`AppendIs`,
  `RemoveIs`, `ConcatIs`, `ReverseIs`, `TailIs`), and `TokensBuilt` and `CopiesGrow` follow
  the folds of tokenize and copy, which build a list beside those of the program; a
  copy links its first item only (section 4), and its others are allocated and in no
  list.  A call that runs out of memory frees what it has (`FailureKeeps`, `TokenizeFailsKeeps`,
  `CopyFailsKeeps`).  `BecomesKeeps` is the frame: a call changes one list and no other allocated item.  Assumed:
  `StrListAssumption`.
* Mode strings: `FileOpenedAlike` (`FilesOpenedAlike`), for strings of any length.  A string
  is parsed by three loops, over the letters, the keywords and the letters of `share=`.  Each is a
  fold; `Stepwise` is what a fold is once it is unfolded into its steps, proved once
  for all of them (`FunIsStepwise`) and used with an induction for each.  `FlagsMeet`
  is what the letters leave and no keyword changes: a string that truncates also
  creates, and one that starts with r does neither.  `SharesMeet` relates the share bits to the
  keywords read so far, unless a `wipe` jumped over some.  From the flags alone
  `CreateIsOpen` then shows that the disposition of CreateFile is open(2).  Assumed:
  `OpenModeAssumption`, that letters and keywords are sequences.
* Data made printable: `EscapesReadBack` (`EscapesAreReadBack`), for data of any length,
  any alphabet and any delimiters.  What comes of a character is a piece of one of three
  kinds: the character, a backslash with its letter, or `\x` with its digits (`IsPiece`).
  From the start of a piece the reader takes one character and is back in the text
  (`PieceRead`), so that after n pieces it has the first n characters (`PiecesRead`, by
  induction).  No piece is a backslash alone, which is where the backslash that
  `Escapes` adds to the delimiters is needed.  The room of the log filter is counted per
  character and covers the width of its piece and snprintf's NUL at each step
  (`PieceWidth`, `FilterFits`), and a trimmed string consists of characters of the one it was
  (`TrimmedIs`).  Assumed: `SanitizeAssumption`, that no two characters share an escape letter, none
  is `x`, and only control characters, and in the log a backslash, have one.
* What a child gets on Windows: `ChildGetsAll` (`ChildrenGetAll`).  The line is joined of one
  piece per argument, and the child reads it character by character.  `ArgumentRead` says
  that wherever a copy of an argument stands (`CopyAt`) the child that starts there is
  behind it with that argument read, quoted or not; `CopyIn` finds the copies in the line,
  and an induction over the arguments gives `LineSplits`.  `LineFits` counts the room the
  same way.  The reader of the model, `Split`, gives a backslash no meaning; the C library
  gives it one before a quote, which is why the property excludes such arguments.  Of
  the environment `SaysAll` is inductive over the changes: the block has each name once,
  and has a variable with a value if and only if the last change to that name, or the
  block as it was, says so (`ToldBy`; `ChangeIs`, from `EntryRemoved` and `EntryAdded`).
  `LastTold` turns that into the value the property names.  Assumed: `W32ChildAssumption`, that
  arguments are sequences, entries pairs, and that the system has a variable once.
* File names: `NamesExact` (`NamesAreExact`), for names and parts of any length on both
  systems.  `StartIs` and `JoinedIs` follow the name as it is put together against the room
  that was counted for it, the latter by induction over the parts; `Neat` is what a name
  without a double slash and without one at its end is to the code, for which a backslash
  counts on Windows.  Made absolute, a name falls into one of three cases: behind
  the working directory (`RelativeAbs`), behind its drive (`DriveAdded`), or as it is.  The only
  two slashes that meet then are those behind a drive's root, and `OneSlashMeets` shows that
  the step for "c://" takes away those and no others; `CompressedIs` that a trailing "/." is cut
  off behind the directory.  `WideInv` adds to the part about long names that there is no
  result while the directory may still change.  Assumed: `FileNamesAssumption`, that a
  working directory is absolute, with a slash at its end only if it is a root, and that
  "no home" is not a name.

**`BackendProofs`** has the theorems of two backends.  Of the pollable streams of Windows
it proves `PipesKeepBytes` (theorem `PipesKeep`), the conjunction
of the type invariant and the five safety properties of a pollable stream, and
`NoFalseEof` (theorem `EofOnlyAtTheEnd`).  The invariant has a part for each direction,
and each part is kept by the steps of the other one because those move `prog` only
between places that mean nothing to it.

* `RInv`, the ring.  `RingKeepsBytes` speaks of the bytes between the two positions;
  the thread writes behind them while the program, which does not wait for it, moves
  `readpos`.  `SpaceKept` says why they do not meet: the room the thread found in the
  critical section fits behind the data without a wrap, and a read only makes the data
  shorter.  `BytesKept` gives each byte of the ring its number in the input.
  `ReaderFlags` has what the events need: bytes in the ring imply `have_data`, the
  program resets the event only on a ring it found empty, under the lock the thread
  needs to add to it, and a thread that has noted an end or an error adds no more.
* `WInv`, the buffer.  `OutKept` counts: what the backend has got and what is pending
  is what was written, in order unless writes are short.  `WriterFlags` says that the
  thread never calls the backend with nothing to write, and that `is_empty` set means
  an empty buffer or an error.

`WrapOnce` replaces every remainder by a comparison, so that `Slot`, `Fill` and the
lemmas about them (`OutOfTheWay`, `BehindTheRing`, `InOnePiece`) are linear
arithmetic.  `ReaderAssumption` and `WriterAssumption` are all it assumes: a ring of
two bytes or more, a buffer of one or more.

Of a memory object `BackendProofs` proves the three invariants
`MemTypeCorrect`, `DataInBuffer` and `BufferWithinLimit`.  `MemInv` is that the cookie
is well formed, its buffer within the limit, and, until a relative seek has failed,
the position in the data and the data in the buffer.  The work is in the word
arithmetic: `LargerFits` shows that the three comparisons of `func_mem_write` catch
every size that wraps around, and `RoundUpBounds` that the one of `func_mem_seek`
does.  Neither property is inductive by itself: each needs from `Cookie` that sizes
and the limit are words and that the buffer is as long as the cookie says.  `MemAssumption` says that a buffer is less than half of the words
and that no single write is so long that its size plus a block wraps around; both
are true of any process, and the second is needed: without it a program that writes
2^64-1 bytes would get past the comparisons.

It also proves `ImplementsMemFile` (theorem `MemoryIsAFile`): under the
refinement mapping of `MCMemBackend` each step of a memory object is a step of
`MemFile`, but for the seeks that `Breaks` names.  There is one lemma per action
(`ReadRefines`, `WriteRefines`, ...).  They rest on what the data of the cookie
becomes as a sequence: `CopiedData` for a write, `ResizedData` for a larger buffer,
`ZeroFilledData` for a seek behind the end.  `Half` (a buffer is less than half of
the words, `HalfKept`) is what makes the unsigned comparison of `func_mem_seek`
refuse every position below zero.

**`ArgParseProofs`** proves `LockedStays` (theorem `OptionsStayLocked`) for every table
of options, every set of lines and every command line: what the system file forced, or
said is to be ignored, is returned from no later place unless it is marked so for a caller
that asked for attributes; the places follow one another; and the scan ahead leaves the
command line as it was.  `LockedStays` is not inductive.  `ArgInv` adds that
`in_sysconf` is off while the user's file is read, without which a line of that file
would lock options itself, and that all that was returned is from no later a place than
the parser is at (`OutBefore`): so the attributes may still change while the system file
is read, because nothing has come from behind it.  The parser is a record of many fields
of which a step touches few: `Near` says which of them a line keeps, and one lemma for
each helper (`NearSetArg`, `NearPrepare`, ..., `LineNear`) carries that through the
parser; `Later` does the same for the arguments.  `KeepsOn` is the step they share: who
goes on (`GoesOn`), returns nothing unmarked (`Tells`) and leaves the attributes settled
(`Settled`) keeps the invariant.  `AttributesStaySettled` is an action property from the same invariant:
the attributes change only where the system file is read, and when the parser is released.
Assumed: `OptionsDiffer`, that the numbers of options are none of the codes of the parser,
and `LinesAssumption`, the kinds of lines there are.  The properties over the whole text
of the files (`FilesExact`) relate the parser to a reference that reads the files in its own way, and
stay with TLC.

What is only model-checked:

* liveness (`CallsReturn` and what it is made of), which is out of the prover's reach;
* the refinement of `ByteStream` by a stream some of whose flushes stay half done (see above);
* what is compared with a reference over data: `Base64`, `NameValue`, `Printf`, and
  what the option parser makes of whole files (`FilesExact`).
  `Base64` and `NameValue` are written with RECURSIVE operators.

## 6. Plan

Done of the earlier plan: the option parser, processes, the log socket, poll,
containers, printf, close handlers.  What is left, in this order:

1. `StreamList` with a thread that is stopped while it has a stream, and with
   ftrylockfile; liveness of its calls when there is no getline.
2. The option parser with alias definitions and with two-part configuration
   names; sections and blocks mixed.
3. Logging into a stream that another thread reopens, and a post-log function
   that logs.

## 7. Not modelled, and why

Constant tables and lookups in them (`strerror.c`, generated files), wrappers of
one system call (`sysutils.c`, threads), the Windows replacements of gettext,
iconv and the registry (adapted third-party code with no protocol of their own),
the programs that generate headers, the vendored TinySCHEME, the C library's
conversion of floating point numbers, `printsexp`, the help and usage texts of the
parser, and wording and layout of all output.
