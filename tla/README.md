# Formal models of QuickerSFV

QuickerSFV is a checksum verifier for Windows. It reads a checksum file (`.sfv`, `.md5`, or a format
of a plugin), hashes the files it names and shows which are good, bad or missing; it also creates
checksum files for a folder. This directory holds TLA+ models of its concurrent core and of the
algorithms around it, the configurations that check them with TLC, and theorems proved with TLAPS.

## The system

| Part | State | Operations | Interacts with |
| --- | --- | --- | --- |
| `OperationScheduler` (`client_gui/quicker_sfv/ui/operation_scheduler.*`) | queue of posted operations, shutdown flag (both under `m_mtxOps`), queue of events (`m_mtxEvents`), cancel event, worker thread | `start`, `post` (verify, create, cancel), `run`, `shutdown`; on the worker `doVerify`, `doCreate`, `hashFile` | called by the UI thread; events travel back through the queue and a thread message, and become callbacks in `run` |
| `hashFile` (same file) | two buffers with an overlapped read each, position, bytes hashed | read ahead, wait, hash, swap, drain | the kernel, the cancel event, a `Hasher` |
| Results list (`MainWindow` in `client_gui/QuickerSFV.cpp`) | entries, sort order, selection, counts | callbacks that add entries; sort, mark, copy, delete from disk | callbacks of the scheduler, messages of the list view, the file system |
| Options (same file) | position of the window, AVX option, whether to save them | load at the start, save at the end, change | the registry of the user, which other windows share |
| `EventHandler` (`event_handler.hpp`) | none: an interface | the seven callbacks of an operation | implemented by `MainWindow` |
| Application (same file) | message loop, window, no-gui mode | startup, dialogs, commands, closing, output file | posts operations, receives callbacks |
| `FileProviders` (same file) | list of providers | lookup by extension or index | dialogs and command line |
| `LineReader` (`lib/quicker_sfv/line_reader.*`) | two buffers, offset, end of file | `readLine`, `done` | used by the providers and by plugins |
| Formats (`sfv_provider`, `md5_provider`, `checksum_file`) | entries of a checksum file | `readFromFile`, `writeNewFile` | `LineReader`, hashers, `Digest` |
| `Digest` (`digest.*`) | a value of a concrete type, or none | copy, move, compare, print | providers and hashers |
| Plugin support (`plugin_support.cpp`, `plugin_sdk`) | opaque objects behind tables of functions | read and write callbacks, hashing | `LineReader`, `FileInput`, `Digest` |
| Plugins (`plugins`) | sha1: a hasher and whether it may take data; rar: the bytes of a header | sha1: the whole of a format; rar: find the archive, check its header | plugin support, `FileInput` |
| `FileInput` (`file_io.hpp`, `operation_scheduler.cpp`) | handle, end of file, name | read, seek, tell, open | providers and plugins |
| Folder listing (`iterateFiles`, `operation_scheduler.cpp`) | stack of directories, open search | walk, yield files to `doCreate` | the file system |
| Strings (`string_utilities.cpp`) | none | UTF-8 and UTF-16 both ways, check, trim | every name that is read or shown |
| Command line (`command_line_parser.hpp`) | lexer state | lex, parse | startup |

What is hard here is the traffic between the two threads. Work goes one way through a queue that
the worker swaps out while more is posted; events go the other way through a queue that the UI
thread swaps out, with a wakeup message that may be dropped by a full message queue or taken away by
the message loop of a dialog. Cancel and shutdown race with waits for reads. In `hashFile` the
kernel writes one buffer while the hasher reads the other, and a read may complete at once, later,
in any order, not at all, or after a cancel. The rest of the program is sequential, and its hazards
are boundaries (lines at the edge of a buffer, sizes that are no multiple of one, the limits of an
encoding), state that goes stale (pointers and positions in the results list, a cached end of file)
and long sequences of legal calls (a list that is sorted, deleted from and added to at once; copies,
moves and failures of digests). `PROJECT.json` lists each hazard with its line and the properties
that cover it.

Correct means: an operation is carried out once and in order; each callback arrives, in the order
`event_handler.hpp` describes, with totals that fit; the UI thread never sleeps on an event it
should dispatch; shutdown returns; the digest is that of the data; a file is read line by line as it
stands on disk; what is written can be read; a name stays the name of its file through every format,
encoding, command line and list; the numbers in the window are those of the list; only what the user
marked is deleted.

## Modules

| Module | Models | Status |
| --- | --- | --- |
| `OperationScheduler` | both threads' side of the scheduler | checked, proved |
| `MCOperationScheduler` | `OperationScheduler` with a bounded queue of events, for TLC | checked |
| `EventProtocol` | abstract: what an event handler may rely on | implemented by `OperationScheduler` (checked, proved) |
| `StaleCancel` | `OperationScheduler` with a history of who was canceled | checked |
| `MainLoop` | `OperationScheduler` driven by the application's message loop | checked, proved |
| `OperationSchedulerProofs` | theorems about `OperationScheduler`, its implementing `EventProtocol`, and `MainLoop` | proved |
| `HashFile` | the pipeline of reads in `hashFile` | checked, proved |
| `HashFileProofs` | theorems about `HashFile` | proved |
| `LineReader` | `LineReader` | checked, proved |
| `LineReaderProofs` | theorems about `LineReader` | proved |
| `ResultsList` | the list of results under callbacks and the user's commands | checked, proved |
| `CommandLine` | lexer, parser and the posts of the startup | checked |
| `FileProviders` | loading plugins and choosing a provider | checked, proved |
| `Settings` | options and registry, several windows and machines, crashes | checked, proved |
| `MainThread` | the four above side by side, with `MainSpec` | checked, proved but for the command line |
| `MCMainThread` | the constants of `MainThread` for TLC | checked |
| `MainThreadProofs` | theorems about `ResultsList`, `FileProviders` and `Settings` in `MainThread` | proved |
| `FileReader` | abstract: what a client of `FileInput` may rely on | implemented by `FileInput` (checked, proved) |
| `FileInput` | `FileInputWin32` | checked, proved |
| `FolderListing` | `iterateFiles` and `doCreate` on top of it | checked, proved |
| `ChecksumFormats` | writing and reading sfv, md5 and sha1 files | checked, proved |
| `ChecksumFormatsProofs` | theorem about `ChecksumFormats` | proved |
| `Utf` | the conversions of a name, and trimming | checked, proved |
| `UtfProofs` | theorems about `Utf` | proved |
| `RarArchive` | `readFromFile` of the rar provider | checked, proved |
| `DigestValue` | abstract: what digests and hashers promise | implemented by `PluginDigests` (checked, proved) |
| `PluginDigests` | `Digest`, `PluginDigest` and the hasher of the sha1 plugin | checked, proved |
| `PluginDigestsProofs` | theorems: `PluginDigests` implements `DigestValue`, blocks have one owner | proved |
| `SlidingWindow` | the times behind the bandwidth | checked, proved |
| `WorkerThread` | the seven detailed ones above side by side, with `WorkerSpec` | checked, proved |
| `MCWorkerThread` | the constants of `WorkerThread` for TLC | checked |
| `WorkerThreadProofs` | theorems about the parts of `WorkerThread` and the whole | proved |

### OperationScheduler

One step is one critical section, one call on the cancel event, or one callback. The worker is a
program counter `pc` over the places of `worker`, `doVerify` and `doCreate` where another thread can
see or influence it:

    unstarted -> waiting <-> asleep
    waiting -> operation -> files -> open -> hashing -> hashed -> files ... -> waiting
    hashed -> canceled -> waiting (a verify), hashed -> waiting (a create)
    waiting -> exited

`TakeOps` is the swap of `m_opsQueue`; `pendingOps` is the rest of the batch. `Raise` is an exception
that `worker` turns into an error event, from each place that can throw. `NextOperation` ends an
operation: its locals are gone, and the next of the batch begins without a look at
`m_shutdownRequested`. Opening a file, hashing it and comparing the digest are choices among their
outcomes; `reads` counts how many waits `hashFile` still has, since the cancel event is seen in a
wait and nowhere else. A signal appends to `eventsQueue` and, in the same critical section, posts a
wakeup; `signalOperationStarted` alone posts none. `PostWakeup` into a full queue does nothing.

The condition variable is explicit: `Sleep` evaluates the condition under the lock, `Notify` moves a
sleeping worker back to `waiting`, and `SpuriousWakeup` may do so at any time. Nothing makes it, and it
carries no fairness, so a missing notification shows as a worker that sleeps forever.

The other thread calls `start`, `Post`, `PostCancel` and `run` (`SwapEvents`, then `DispatchEvent` once
per event, without the lock) whenever it likes, and `shutdown` in its three steps (`RequestShutdown`,
`CancelForShutdown`, `Join`). From within a callback it may post and cancel. `shown` is what
`MainWindow` keeps in `m_stats`, and `reported` the operations it heard of. Each operation is posted
once, so an operation's name also stands for the recipient of its events.

### EventProtocol

The contract of `event_handler.hpp` as a specification of its own, with no threads and no queues, over
`shown` and `reported`: operations come one after another, files one at a time, totals equal what was
reported file by file, an operation canceled in a file leaves that one file out. It says what the
code keeps. Two promises of the header that the code does not keep (below) are left out of it and
stated as properties of their own.

### MainLoop

`WinMainImpl`: startup, the arguments, `run` and `GetMessage` in turn, and shutdown. Each scheduler step
is an action of `OperationScheduler`; `ui` says where the main thread is, hence which it may take.
`OpenDialog` to `CloseDialog` is a modal dialog, whose own loop may take wakeups (`DialogWakeup`)
and never calls `run`. With `noGui` there is no window, at most one argument, and
`onOperationCompleted` writes the results and posts `WM_QUIT`. `GetMessage` returns `WM_QUIT` only when no
posted message is left, hence `wakeups = 0` in `LeaveLoop`.

### HashFile

The body of `hashFile` for one data portion. `read_states[i]` has what was asked of the kernel (`offset`,
`size`), how far it is (`io`), the flag `pending` of the code and the event `signaled`. `ReadFile` may
return at once, stay in flight, meet the end of the file or fail; `Complete` ends a read in flight at
any time. `Wait` prefers the cancel event as `WaitForMultipleObjects` does. `hashed` is the sequence of
units of the file given to the hasher. The bandwidth shown with the progress is in `SlidingWindow`.

### LineReader

A call of `readLine` is one step, as one thread uses the class. A byte is a line feed, a carriage
return, one that makes a line invalid, or any other. The buffer operations are those of the code;
the lines of a file are defined independently by the positions of its line feeds.

### ResultsList

One message of the UI thread is one step. The callbacks come as `EventProtocol` allows, the module
that `OperationScheduler` is shown to implement: each of them is a step of the contract together with
what `MainWindow` does. `m_listEntries` has the sort keys of an entry, its status and
`original_position`; the list view has only a number of items and selected indices, as
`LVS_OWNERDATA` has it. `ColumnClick` changes the order and sorts at once, `doDeleteMarkedFiles(locked)`
is the loop over pointers, one `DeleteOne` after the other on the vector that the rounds before have
left (`InTurn`, a loop over the selected indices; `Found` is the `std::find_if`). The clipboard is a function of the selection: the stretches of the buffer that are written.
`StableSort` puts each entry at its rank, the number of entries that are before it in the order or
equal and earlier in the list, which is what `std::stable_sort` is specified to do.

### CommandLine

One round of `commandLineLexer` is one step, over symbols that the lexer or the parser tells apart.
`Words` and `Quoted` are the reference: what a reader takes for the words of a plain line, and how a
caller would quote any list of arguments. `parseCommandLine` and the posts follow, with `reported` for
the message box of a file no provider knows.

### FileProviders

`LoadPlugin` runs the constructor of a plugin's provider, sizes of its strings included, and appends
to the three vectors as `addProvider` does. `getMatchingProviderFor` is what the loop over the
providers comes to, with the call of `enforce` in its second round. `VerifyRows` and `CreateRows` are the
rows of the dialogs, and `Opened` and `Created` the arithmetic from a row to a provider.

### Settings

The registry key has a number, since a key deleted while open takes no more values and a new one of
the same name is another key. The values are written one per step, so that `Crash` and other windows
may come in between. Three histories say what a start may find. `asked`: a user wants a saved
configuration. `alone`: the window whose save no other has crossed so far. `last`: the options of the
last save that ended so, and of those begun since; a removal leaves in it what a window has by itself.
So a save that crashed in the middle, or crossed another, adds its options to what may be
found, and the next whole one is again the only one.

### FileInput and FileReader

`FileReader` is the promise of `file_io.hpp`: a file, a position, and answers. `FileInput` is
`FileInputWin32`: a handle with the file pointer of the kernel, and the flag `m_eof` beside it. The
refinement maps the position to that of the handle in use; the flag is not in it, so each answer that
comes from the flag must be one the position would give. `Tell` is `tell()`, the one answer that
changes nothing. Opening another file at the end of one (`OpenAtEnd`) and reading to an empty span
(0 in `ReadSizes`) are the two things a client must not do for that, see below.

### FolderListing

A folder is a graph of directories, so that junctions lead anywhere. `FindFirstFileEx` takes a
directory off the stack, `FindNextFile` returns any of the entries left, and a yielded file goes through
the outcomes of `doCreate` before the search goes on, since the generator is suspended meanwhile.

### ChecksumFormats

A file is written entry by entry, or a file from elsewhere is read, and what it said is written; then
it is read line by line. The three formats differ in `Line`, `Skipped`, `Fields` and `Valid`. Characters
are reduced to those that any of them tells apart. Lines arrive without their line break, which is
the part of `LineReader`.

### Utf

The way of a name: `checkValidUtf8` on the bytes of a line, `convertToUtf16` for the system,
`convertToUtf8` for the events, one round of a loop per step, with the arithmetic of the code on
numbers. `trimAllUtf` is an operator. `kind` and `text` remember what the input was made from.

### RarArchive

The file is made up as it is read, byte by byte, so that every file within the bound occurs, and `end`
says that a read was at its end. After that a buffer keeps its byte, or what was in memory.
The header is a sequence of integers with their sizes, and `collected` counts what is hashed. An
integer has `Word` values, 2^64 in the code, and loses the bits above. `ReadFails` is the exception of a
read, which nothing in the provider catches.

### PluginDigests and DigestValue

`DigestValue` says what `digest.hpp` and `hasher.hpp` promise, with values in place of pointers. In
`PluginDigests` a `Digest` is nothing, a value, or a pointer to a block in `heap` that the plugin has
allocated; copies clone, moves pass the pointer on, and every allocation may fail. `hasher` is the
flag `is_valid` of the sha1 plugin beside its `context`. The mapping reads through the pointers.

### SlidingWindow

The ring of the last reads, in which places that are not set hold anything, against the history of
all reads. `rollingAverage` and `bandwidth` are the integer divisions of the code.

### MainThread and WorkerThread

Parts that share no state in the code are put side by side: a behaviour is that of one part, and the
variables of the others stay as they are. The constant `Parts` names the parts a run takes; with one of them it is a
run of that module alone. So the two instances hold the small sets, sequences and trees of
all parts, and a property such as `CommandLineAnswered` is the conjunction of what its module states.
`MCMainThread` and `MCWorkerThread` have the values of the constants for TLC, and start the variables of
parts that take no steps at one of their initial values.

## Runs

| Run | Bounds | What it shows |
| --- | --- | --- |
| `scheduler` | one verify, one create, 2 files, 1 read per file, 1 message, at most 6 events left in the queue | `CountsBounded`, `WorkInOrder`, `ReportedInOrder`, and that the scheduler implements `EventProtocol` (`HandlerContract`) for a client that behaves arbitrarily |
| `main_loop` | one verify, one create, 1 file, 2 reads, 2 messages, 2 dialogs | `NoLostWakeup`, `OutputIsComplete`, `ShutdownReturns`, `EventsAreDispatched`, `PostedIsFinished` |
| `hash_file` | buffers of 2 units; file, offset and size up to 5 | `BuffersAreFree`, `HashedInOrder`, `DigestOfData`, `ProgressGrows`, `HashEnds`, `CancelEnds` |
| `line_reader` | buffers of 2 bytes, every file of up to 6 bytes | `LinesOfTheFile`, `RejectsForAReason`, `ReadingEnds` |
| `main_thread` | a verify and a create of 2 files; lines of up to 5 symbols; 3 plugins; 2 windows on 2 machines | `CountsMatchList`, `OriginalOrder`, `AllFilesOK`, `SingleDeletion`; `CommandLineAnswered`; `FormatIsChosen`; `OptionsAreAsked`, `Restores` |
| `worker_thread` | 3 files of 0 to 3 bytes; 5 folders; 2 entries, lines of 4 characters; names of 3 characters; 7 bytes before a header; 2 digests and 2 blocks; 7 reads | that `FileInput` implements `FileReader` and `PluginDigests` implements `DigestValue` (`ImplementsFileReader`, `ImplementsDigestValue`); `FolderIsListed`, `ReadsBack`, `TextSurvives`, `ConversionGoesOn`, `ArchiveIsRead`, `BandwidthOfLastReads` |

What the properties of the last two say:

- `CountsMatchList`: the numbers above the list are those of the entries in it, however it is sorted and
  whatever ended the operation, until entries are deleted; they stay those of the operation then.
  `OriginalOrder`: the third click brings back the order of arrival, for entries that came while the list
  was sorted, too. `AllFilesOK`: the verdict is good only if each announced file was, or the user canceled;
  no text says what the list is to say of a canceled operation. `SingleDeletion`: one marked file is
  deleted and it alone, in any order of the list.
- `CommandLineAnswered`: quoted lists of arguments and plain lines come out as they went in, bytes that are
  no characters stop the program before it posts, an output file gets one operation at most.
- `FormatIsChosen`: the operation has the provider whose description the chosen row shows; one that creates
  has a provider that can; a plugin never takes the files of a format that was there before it.
- `OptionsAreAsked`: AVX-512 is used only where it exists, wherever the options were saved; no window brings a removed
  configuration back unasked. `Restores`: a start finds what the last whole save left, or, option by option, that of
  a save begun since, be it broken off by a crash or crossed by another window; and nothing from
  before these.
- `FolderIsListed`: each file once in whatever order entries come, under the path that leads to what was
  hashed, and a checksum file only for the whole folder.
- `ReadsBack`: entries with a path the format can hold read back in any number, after a write that failed the
  ones before it do; a file that could be read is written with the same contents.
- `TextSurvives`: names come back byte for byte across all limits of the encodings, a cut line is rejected,
  trimming takes whole characters. `ConversionGoesOn`: each round takes something off what is left.
- `ArchiveIsRead`: no signature is passed over behind partial ones, what follows one is read as the header, and
  exactly the header is hashed.
- `BandwidthOfLastReads`: the bandwidth is that of the last N reads and of no place that is not set.

Each of them also checks the type invariants of its modules (`InBounds` for the parts of the last two,
with the bounds of the clipboard and the owners of blocks). The remaining runs check one property
each that a comment of the repository states and the code does not keep; TLC finds the
counterexample:

| Run | Property | What happens |
| --- | --- | --- |
| `verify_without_end` | `EveryOperationEnds` | a file that cannot be read to its end makes `doVerify` return; no final event is raised |
| `canceled_create` | `CanceledOperationCompletes` | a canceled create returns without `onOperationCompleted` |
| `stale_cancel` | `OnlyRunningIsCanceled` | the cancel event is never reset, so operations posted after a cancel are canceled as well |
| `no_gui_hang` | `NoGuiQuits` | without a window, an operation that ends with an error leaves the process waiting forever |
| `over_read` | `FileCheckCompletes` | a portion that ends inside the file, and is longer than a buffer and no multiple of it, is hashed past its end, and the loop never ends |
| `line_of_buffer_size` | `OnlyLongLinesFail` | a line of exactly `READ_BUFFER_SIZE` bytes may be rejected |

`over_read` does not occur with the sfv and md5 formats, whose entries always cover a whole file;
the assumption that separates the cases is `ReadsFit`, and `hash_file` has it only where a property
needs it.

More promises that the code breaks are stated in the modules, each with a comment that quotes its
source, and listed among the findings of `PROJECT.json`. They have no run of their own. To see the
counterexample, replace the properties in the cfg by the one in the table and `Parts` by its part:

| Property | cfg, part | What happens |
| --- | --- | --- |
| `OnlyMarkedAreDeleted` | `MCMainThread`, `list`, with `MaxFiles = 3`, `FileName <- ThreeFiles`, `Creates = {}` | with several marked files, others are deleted than those |
| `BackslashesLiteral` | `MCMainThread`, `command` | the two backslashes of a network path become one |
| `FilesAreArguments` | `MCMainThread`, `command` | an output file alone makes the program check a file without a name |
| `ListsOfExtensions` | `MCMainThread`, `providers` | a format with two extensions ends the program at the name of another |
| `KeptSizesLoad` | `MCMainThread`, `providers` | a plugin with a description longer than its extension cannot be loaded |
| `FileNamesReadBack` | `MCWorkerThread`, `formats` | names with a leading semicolon or blank do not read back |
| `AcceptedSurvives` | `MCWorkerThread`, `utf` | overlong sequences and surrogates pass as valid UTF-8 |
| `SearchEnds` | `MCWorkerThread`, `rar` | a file without a signature is searched for ever |
| `InvalidIsParserError` | `MCWorkerThread`, `rar` | a header that is too short ends the process |
| `EmptyIsValue` | `MCWorkerThread`, `digests`, with `EmptyOperands = TRUE` | assigning or comparing an empty `Digest` crashes |
| `InitialIsReset` | `MCWorkerThread`, `digests`, with `FreshHasher = TRUE` | a new sha1 hasher refuses data |
| `EndIsEnd` | `MCWorkerThread`, `input`, with `OpenAtEnd = TRUE`, or with 0 in `ReadSizes` | the end of one file, or an empty read, is taken for the end of the next |

`OpenAtEnd`, `EmptyOperands`, `FreshHasher` and a read of 0 bytes are FALSE or absent in the run: there the
refinements show that nothing else breaks the promise.

### Bounds

- `Verifies`, `Creates`: two operations are enough for a batch of two, for a second operation posted while
  the first runs, and for events of two operations in one swap. `stale_cancel` has three.
- `MaxFiles`: with two files a verify may end early, in the middle or at its end, and counts can differ
  from one another. `main_loop` has one; it is about waking up, not about counting.
- `MaxReads`: one wait suffices for a cancel to win or to lose. `main_loop` has two, so that progress is
  signaled in between.
- `QueueLimit`: 10000 in Windows. One or two make the queue overflow at once.
- `MaxLag` (`scheduler` only): a client that never calls `run` lets the queue grow with the work; the
  constraint cuts runs in which more than six events wait. Verifying one file signals up to five (started, file started, progress, file completed, completed).
- `MaxOpen`: two dialogs, hence up to two operations posted while others run.
- `BufferSize`, `MaxSize`: three reads and a rest that is no multiple of the buffer. `MaxHashed` cuts `hashed` after
  more than any portion holds, to keep the endless loop of `over_read` finite; a portion is never that long.
- `READ_BUFFER_SIZE`, `MaxLength`: a file longer than both buffers and a third chunk, with every position of line
  feeds. `MaxLength` also bounds the number of lines in `ReadLine`; the code never exceeds it.

- `main_thread`, list: two files, a message between them in the order of names, and two operations; the
  constraint `SecondIsShort` cuts the second at two entries, enough to find what the first left
  behind. All files are on disk at first, and a locked one stands for one that is gone.
- `main_thread`, command line: every line of up to 5 symbols has each pair of states of the lexer, each
  escape and both ends of an argument; lists of 2 arguments of 2 characters for quoting.
- `main_thread`, formats: 3 plugins of 8 kinds, in every order, behind the two formats that are built in.
- `main_thread`, options: `MaxKeys` = 2, a key, its removal and another one.
- `worker_thread`, files: reads longer and shorter than a file, seeks before, in and behind it.
- `worker_thread`, folders: nesting, siblings, equal names, two paths to one directory, and a cycle; the file
  system refuses what is deeper than 2.
- `worker_thread`, formats: digests of 1 digit in place of 8, 32 and 40; the length is nowhere compared with another.
  The second path has one character.
- `worker_thread`, names: all pairs around the limits of both encodings, triples of five, and triples of bytes of each kind.
- `worker_thread`, archives: a signature of 3 bytes in place of 6, so that 7 bytes hold a whole one after one that breaks
  off within the three, or after two that break off at their second byte; a variable-length integer of 2 bytes
  in place of 10, each with 2 bits, and `Word` = 8 values for their 4 bits, so that some wrap.
- `worker_thread`, digests: 2 blocks, and a failure of each allocation, limit or not.
- `worker_thread`, window: a window of 3, wrapped twice by 7 reads.

`CHECK_DEADLOCK FALSE` is set where the system stops for good: after `shutdown` has joined, when a hash
has ended, when a file is read, when a command line is dealt with.

### Fairness

- The worker and the main thread run whenever they can (`WF` on `WorkerStep`, `MainStep`, and `Step` of
  `HashFile`): the code sets no priorities, and each critical section is short.
- The kernel ends each read, canceled ones included (`WF` on `Complete`).
- A dialog is closed some day (`WF` on `CloseDialog`). The user is not obliged to open one, to close the
  window, or to cancel; `SpuriousWakeup`, `PostArgument` and `DialogWakeup` have no fairness.
- `main_thread` and `worker_thread` state no liveness. That a conversion ends is there as `ConversionGoesOn`, a
  step property, and needs no fairness.
- The provider calls `readLine` until it is done or throws (`WF` on `Next` of `LineReader`).

## Proofs

TLC shows a property for the bounds of a run. The theorems below hold for every value of the
constants: any number of operations and files, any size of buffers and message queue, any file.
They assume what the modules assume of their constants (`SchedulerAssumption`, `HashAssumption`,
`ReaderAssumption` and the like: sizes are positive, bounds are natural numbers, verifies and creates
are different), and what is said below. `PROJECT.json` lists the theorem that belongs to each property.

In all of them there is one lemma for each action or group of like actions that says it keeps the
invariant; one lemma puts them together and one lifts them to the specification. The theorems
follow from the invariant.

### The scheduler

`OperationSchedulerProofs` begins with `TypeCorrect`, `CountsAreBounded` and `WorkStaysInOrder`. `TypeOK` is not
inductive: nothing in it keeps `result.ok` from passing `MaxFiles`, and `Op` is the head of a sequence
that could be empty. The inductive invariant `IInv` adds `CountsBounded` (the sum of the counters is
at most `Settled`, the number of files that are done), `WorkerBusy` (an operation is at hand in exactly the
places that use one) and `ClientBusy` (`run` dispatches only what it swapped out). `WorkInOrder` is then
proved step by step on top of `IInv`, with `FinishInOrder` for the steps that end an operation.

Then `HandlersContractHolds`, that `OperationScheduler` implements `EventProtocol`, and
`ReportedStaysInOrder`. Between a signal and its callback there are two queues, so the invariant has to
say what the events on their way will come to: `WayInv` has a sequence of views, one behind each of
them, that begins with what the handler shows, where each is reached from the one before by a
callback the contract allows, and the last is where the worker stands (`Leads`). A signal appends a
view, a callback takes one away, a swap leaves them alone.

Then the application: `LoopUsesScheduler` first, that each step of `MainLoop` is one the scheduler's
specification allows its client, which makes the invariants above invariants of the application;
`LoopTypeCorrect`, `WakeupsAreNotLost` and `OutputIsAlwaysComplete` follow. `WakeupInv` strengthens
`NoLostWakeup`: if no wakeup is there, the only event that may wait is the start of an operation whose
first file has not begun, so a signal with a wakeup is still to come. `NoGuiInv` says of a process
without a window that its one operation is a verify and nothing can have canceled it; the completion
it writes is then, by `WayInv`, that of all files.

### hashFile

`HashFileProofs`: `HashTypeCorrect`, `BuffersStayFree`, `HashedStaysInOrder`, `DigestIsOfData` and
`ProgressOnlyGrows`. The invariant ties the three accounts of a read together: `ReadsInv` relates what
the kernel does (`io`), the flag `pending` and the event; `OffsetsInv` places the two reads one buffer
apart, and the next one behind them; `StopInv` says that the loop goes on only while no read has failed, no cancel was
seen, and what a read at the end of the file has left is still to be hashed; `HashedInv` that what was hashed is the portion up to where the front read begins. Without
`ReadsInv` a buffer could be in flight that the code takes for idle. What needs `ReadsFit` says so in the
property: that the hasher has a prefix of the portion, and that progress stays within 100 percent.

### LineReader

`LineReaderProofs`: `ReaderTypeCorrect`, `LinesAreOfTheFile` and `RejectionsHaveAReason`, for every file and
every size of the buffers. `Buffered` says what the buffers hold: adjacent parts of the file, full ones
unless the file ends there. `Begins` says where a line begins by the number of line feeds before
it, and `Stops` where it ends. The invariant `ReaderInv` is that between two calls the reader is new, stands in the
front buffer at the beginning of the line after those it has returned, or is done with all of them.
`BehindIs` proves this of `readLine` in its four cases (the line ends in the front buffer; in the back
buffer with more to read; with the file in the front buffer; in the back buffer with the whole file
read). `RawLineIs` and `NextCount` tie the count of line feeds to the definition of the lines of a file.

### The main thread

`MainThreadProofs` has three groups. The theorems about the list are of `ResultsList` by itself, whose
`Spec` is that of the part; the others are of `MainSpec`, through one lemma for each part that it takes no
steps but those of its module (`FormatsPart`, `OptionsPart`).

The results list: `CountsAlwaysMatch` and `OriginalOrderReturns` rest on lemmas about `StableSort`: the ranks of
the entries are a bijection, so a sort is a rearrangement that loses none of them, and sorted by their
distinct original positions there is one order they can have. `ListInv` adds to the two properties that
positions are distinct and below the length of the list, and that counts are kept by a
rearrangement; it holds until the first deletion. `OkIsSaidOfAll`, `OneIsDeleted` and `ListStaysInBounds` are
about the list at any time, so `RowsInv` says what deletions leave: rows of entries, as many as the list
view was told, selected ones among them. `VerdictInv` adds that nothing says "All files OK" before the end, and that the total
shown is the number of files announced. A deletion of one marked entry is one round of the loop that
does anything (`OneRound`), and the clipboard holds, after each round, names that lie apart and
before the offset (`Placed`).

The formats: `FormatIsChosenAlways` and `ProvidersAreSound`. `FormatsInv` is that the rows for each dialog are
positions of providers, of those that can create for the save dialog (`VectorsInv`), that nothing is posted
before the last plugin is loaded (`LoadingInv`), and that what was posted has the provider of its row or
the first for its name (`ChoiceInv`).

The options: `OptionsAreAskedAlways`, `OptionsAreRestored` and `SettingsAreSound`. `AskedInv` says that there is a key, and
a window that is going to save, only if it was asked for since the last removal. For `Restores`, `LastInv` says that each value in the key is that of one
of the saves in `last`, and a value that is missing is that of a window by itself; `SavingInv` that what a
window is about to write to the present key is in `last`; `AloneInv` that a window in `alone` is saving to that key,
no other is, and the value it has written is still there.

### The worker thread

`WorkerThreadProofs`: every theorem is of a part of `WorkerThread` (`ListingPart`, `ArchivePart` and so on
bring it to `WorkerSpec`), and `PartsStayInBounds` is of all seven.

Files: `OneHandleIsOpen`, `EndIsEndForCarefulClients` and `FileInputIsFileReader`. The first
needs no assumption. The others assume `CarefulClient`: no `open` at the end of a file and no read
to an empty span. Without these the code breaks the promise, which `EndIsEnd` shows; of the clients in
the sources, none opens a second file, and the only empty read is that of the rar provider for a header
of nothing but its flags. `EndInv` says that the flag is set only if the position is at the end.

Folders: `FolderIsListedAlways`. `ListingInv` accounts for every directory and every file under the folder: it
has been searched, waits on the stack, is still to come in the search that goes on, or is below one that
does; never two of these.

Archives: `ArchiveIsReadAlways`, for any signature without a byte twice. `SearchInv` says that the place in the
comparison is the only beginning of a signature that the bytes read end in, `FoundInv` that no whole one lies before
it and that a header follows one, `HeaderInv` and `CollectedInv` how far the header is read and that as
much is collected.

The bandwidth: `BandwidthIsMeasured`. `WindowInv` says which place of the ring has which of the last times;
the ring is then those times turned round, and the sum of the one is that of the other.

Formats: `FormatsReadBack` in `ChecksumFormatsProofs` and `FilesReadBack` here. `FormatsInv` says that the lines are
those of the first entries, and if the format has a place for every path, that each line that was read gave its
entry. `SameFormats` bridges the two instances of the module.

Names: `UtfProofs` has `TextComesBack` and `ConversionsGoOn`, which the theorems of the same names here
bring to the whole. Each character comes back from each of its encodings by arithmetic on its bits,
which is one lemma for each length; `WholeInv` and `CutInv` say that what is left is a suffix of the text
in whole characters, and what was made is the text before it.

### Digests

`PluginDigestsProofs`: `BlocksHaveOneOwner` without further assumptions, and `DigestsAreValues`, that
`PluginDigests` implements `DigestValue`, for a `CarefulProgram`: one that does not assign from or compare
with an empty `Digest`, and resets a hasher before it adds data. The other programs find the two
promises broken that `EmptyIsValue` and `InitialIsReset` state. `BlocksInv` says that no two live pointers
lead to one block, which is why a change through one pointer leaves the values of the others alone.
`DigestsImplementValues` says the same of the worker thread.

### Loops in the proofs

What a loop comes to after any number of rounds is proved without induction over data: by the least round
at which a claim fails, which exists because of those below it there is a finite number
(`FirstExists`), or, over an interval, by `UpTo`. That the function of the results of the rounds exists
is proved in the same way (`RoundsExist`).

### Only model-checked

- All liveness (`ShutdownReturns`, `EventsAreDispatched`, `PostedIsFinished`, `HashEnds`, `CancelEnds`, `ReadingEnds`):
  it rests on fairness and `ENABLED`, out of the prover's reach.
- `CommandLineAnswered` and `CommandTypeOK` of `CommandLine`, and so `InBounds` of `main_thread` as a whole; its
  parts about the list, the formats and the options are `ListStaysInBounds`, `ProvidersAreSound` and
  `SettingsAreSound`.
- The runs that expect a violation: a counterexample needs no proof.

## Plan

The models are as broad as the code allows (see below for what is left out), and all safety properties
of the runs are proved but for those of the command line. There the lexer's states would be related to the
words of the reference, symbol by symbol.

## Not modelled

- Hash functions (`crc32`, `md5`, `sha1` and the vendored kernels under `external`): arithmetic that tests
  compare with reference values. A hasher appears as the data it was given.
- Formatting, error texts, painting and layout; among them the line with the counts, which is cut
  off at 50 characters (`client_gui/QuickerSFV.cpp:1079`).
- Calls of the operating system: the file dialogs, `resolvePath`, loading DLLs and the binary layout of
  the plugin interfaces. `FileOutputWin32` writes what it is given or throws.
- The contents of files. A checksum file that is written over an older one in its own folder has
  an entry with the digest of the older one, and nothing in the sources says otherwise.
- When the memory of a plugin's digest is freed: `PluginDigest` has no destructor, no source says who
  calls `free_user_data`, and the blocks of ended digests stay in `heap`.
- What a RAR archive with a valid header lists: the provider is unfinished and lists nothing.
- Exceptions other than `quicker_sfv::Exception`: they end the process.
- `uint32` counters: a checksum file has fewer than 2^32 entries by the limit in `ChecksumFile::addEntry`.
- What happens after an exception leaves `hashFile` with a read in flight: `HashFile` has the step `Throw` and
  says nothing of what the kernel does to the freed buffer.
