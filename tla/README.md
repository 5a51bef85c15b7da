# Verification of mcpfiles

mcpfiles gives agents a directory to work in: a small set of file tools, offered over MCP on
stdio or HTTP, with a quota, path rules and a log per API key. This directory holds TLA+ models
of the parts that keep state, the TLC runs that check them and TLAPS proofs about nearly all of them.
Line numbers refer to `mcpfiles/` unless another path is given.

## 1. The system

| Part | State it keeps | Operations | Talks to |
|---|---|---|---|
| `workspace.py` accounting | `<root>/.metadata/usage.json`, a flock on it | `_load_usage`, `_write_usage`, `record_usage_delta`, `recalculate_usage`, `enforce_quota` | every changing tool calls it, from worker threads and from several server processes |
| `workspace.py` path rules | none of its own; the key's configuration and the directory tree | `_resolve_project_root`, `resolve_path`, `ensure_mutable`, `enforce_extension`, `validate_mime` | the file tools |
| `fs_operations.py` tools | the tree under the root | `write_file`, `apply_patch`, `delete_file`, `create_directory`, `remove_directory`, `create_project`; readers `list_dir`, `read_file`, `get_metadata`, `stat_tree`, `list_projects` | path rules, accounting |
| `fs_operations.py` patches | none (pure) | the Codex and plain parsers, `_apply_unified_diff_to_text` | `apply_patch` |
| `config/config_manager.py`, `config/api_keys.py` | the configuration file; `_cached_config`; the root logger's handlers | `load_config`, `get_config`, `reset_cached_config`, `setup_logging`, `generate_and_store_api_key` (`--genkey`), `match_api_key` | the operator, genkey processes, the server |
| `app/server.py` server | `MCPFilesServerState`: configuration, stdio key, operation logger, reload lock | the SIGHUP handler, `APIKeyMiddleware.dispatch`, `_extract_api_token`, the tool wrappers | everything |
| `app/server.py` start-up | the path of the UNIX socket, shared by all server processes | `run_mcp_server`, `_run_remote_http_transport`, `_prepare_uds_socket` | the configuration file, uvicorn |
| `app/logging_utils.py` | `OperationLogger._key_loggers`; the handlers of Python's global loggers | `log`, `_logger_for_key` | tool wrappers, in worker threads |
| `app/errors.py`, `config/schema.py`, argparse, transports, `contrib/freebsd/mcpfiles` | none | tables, validation, libraries, a shell script | |

What is hard about it:

- **usage.json** is truncated by `open` before the lock is requested, filled by `close` after the
  lock has been released, and rebuilt, when it is found corrupt, by a thread that still holds the
  lock. `enforce_quota` and `record_usage_delta` are a check, an act and a read-modify-write with
  other calls in between. A process can die at any of these points.
- **A patch** has several entries, all validated first and applied later, each with its own record.
- **The patch parsers** keep a state across lines, blocks and directives.
- **Removing a directory** asks the path rules about that directory only.
- **Overlapping calls** change a tree that another call has measured, or is walking through to
  remove it. What a call tells the accounting is a difference of two looks at the tree.
- **SIGHUP** runs its handler on the main thread between any two bytecodes, also inside another
  handler, while tools run in worker threads. The handler replaces, one after the other, the
  cache, the log handlers and three fields of the server's state.
- **Loggers** are global by name and survive the `OperationLogger` that set them up.
- **genkey** reads, hashes (slowly) and rewrites the configuration in place, without a lock, while
  other genkey runs, the operator and the server use it.
- **Starting** a server looks at the path of its socket, removes what it finds and binds, each in a
  step of its own, while another server may run, start, die or be stopped.

The properties that make each part correct are listed with the modules below; `PROJECT.json`
lists every hazard with its line.

## 2. The modules

| Module | Models | Built on |
|---|---|---|
| `Quota` | `max(0, n)` and the hard limit | |
| `UsageLedger` | what the accounting promises: an atomic number, changes admitted and settled once | `Quota` |
| `UsageFile` | usage.json, handles, buffers, flock, the calls that use them, crashes | `Quota`; implements `UsageLedger` |
| `UsageFileProofs` | theorems about `UsageFile` | `UsageFile` |
| `Workspace` | the path rules, as operators | |
| `FileOperations` | all tools, changing and reading, on a tree with a root and projects, one call a step | `Workspace`, `Quota` |
| `FileOperationsProofs` | theorems about `FileOperations` | `FileOperations` |
| `FileCalls` | the changing tools when calls overlap on one tree, one system call a step | |
| `FileCallsProofs` | theorems about `FileCalls` | `FileCalls` |
| `PatchParser` | from the payload of `apply_patch` to operations, one line a step | |
| `PatchGrammar` | the format of patches as a grammar, the reference `PatchParser` is compared with | `PatchParser` |
| `PatchParserProofs` | theorems about `PatchParser` and `PatchGrammar` | `PatchGrammar` |
| `ConfigFile` | the configuration file, genkey runs, the operator | |
| `ConfigFileProofs` | theorems about `ConfigFile` | `ConfigFile` |
| `StartUp` | server processes that start, run and end on one configuration and one socket | `ConfigFile` |
| `StartUpProofs` | theorems about `StartUp` | `StartUp`, `ConfigFileProofs` |
| `Server` | reload, authentication and operation log of the remote server | `ConfigFile` |
| `ServerProofs` | theorems about `Server` | `Server`, `ConfigFileProofs` |
| `UnifiedDiff` | `_apply_unified_diff_to_text`, one line of the diff a step | |
| `StandardDiff` | what a unified diff means, the reference `UnifiedDiff` is compared with | `UnifiedDiff` |
| `UnifiedDiffProofs` | theorems about `UnifiedDiff` and `StandardDiff` | `StandardDiff` |
| `MC*` | values of the constants for TLC | |

The accounting is modelled at three grains. `UsageFile` takes a call apart into system calls and
reduces the tree to a number of bytes; `FileOperations` keeps the tree and makes each call one step;
`FileCalls` takes a call apart too, keeps the tree as the sizes of its files, and leaves usage.json
out. The first two take the arithmetic from `Quota`. What connects them is the ledger: `UsageFile`
shows that calls which do not overlap change `used_bytes` atomically, and `FileOperations` assumes
just that and shows that the deltas the tools record add up. `FileCalls` asks what `UsageFile` takes
for granted of calls that do overlap: that the delta of a call is what it has changed.

A payload goes through `PatchParser`, whose operations `FileOperations` and `FileCalls` start from,
and each update through `UnifiedDiff`.

### UsageFile

State: `file` (absent, empty, JSON or garbage; the payload; the length of the text), `lock` (who
holds the flock), and per process `pc`, `job` (the delta and what the call is about to do with the
payload it loads) and `mem` (that payload). `stored` is the number of bytes under the root. `credited` and
`overlapped` are history. A call is one quota check, one change and one record: that is
`write_file`, `delete_file`, `remove_directory` or one entry of a patch.

| Action | Code |
|---|---|
| `Begin`, `Check`, `Modify` | `write_file` 284-302, `enforce_quota` 246-255; a call whose bytes are gone raises before it changes anything |
| `Probe`, `SeedOpen`, `SeedFlush` | `_load_usage` 194-197: `write_text` without a lock |
| `LockRead`, `Read`, `ReadCorrupt` | `_locked_usage_file("r")`, `json.load`, `JSONDecodeError` |
| `Scan` | the walk of `recalculate_usage` |
| `OpenWrite`, `LockWrite`, `Unlock`, `Flush` | `_locked_usage_file("w")`: open truncates (174), flock (179), LOCK_UN (187), close writes the buffer (190) |
| `Crash` | the process dies: its lock is freed, its buffer is lost |

`Overlay` says what a buffer written over other text leaves: every text ends in `"\n}\n"`, so one
character of a longer text that sticks out is white space, two are "Extra data". `Width` is the
length of a payload's text as far as payloads differ: the digits of `used_bytes` and two time stamps.
flock belongs to the open file description, so `LockWrite` waits for the same thread's read handle.

Properties: `LedgerExact` and `QuotaHolds` (one call at a time: `used_bytes` is exact between calls,
the limit holds always), `NeverOvercharged` (under flock, overlapping and crashing calls lose
updates but never add one twice), `CorruptOnlyAfterOverlapOrCrash`, `OnlyCorruptionHangs` (nothing
but the rebuild of a corrupt file hangs), `ImplementsLedger` (until a second call starts or one
crashes, every step is a step of the ledger or a stutter). `StuckHoldsTheLock` (a thread in the
rebuild never gets out) is stated for the proof.

### Workspace and FileOperations

State: `dirs`, `files` (path to content, a sequence of one-byte lines), `usage` (`used_bytes` of the
scopes that have a usage.json). A scope is the key's root (`Base`) or a project. `last` and `marks` are
history. Each tool is one action with all that it does: `write_file` makes the directories before
the quota check and leaves them when it is refused; `apply_patch` folds its entries over the disk and
stops at the first that raises; `remove_directory` removes everything below its path, usage files
included, and recreates what its record needs. A call that is refused before it changes anything has
no step. An update entry of a patch is the content its hunks match and the content they produce;
`UnifiedDiff` is where these come from. The reading tools are operators on a state: `ListDirectory`,
`ReadFile`, `GetMetadata`, `StatTree`, `ListProjects`.

Properties: `LedgerExact` (deltas of all tools add up to what `stat_tree` finds), `QuotaHolds`,
`ChargedToCaller` and `Confined` (a project's call touches nothing outside its directory, neither
files nor accounting), `ImmutableKept`, `StaleOnlyIfRepeated` (when a patch may overwrite what its
hunks were not checked against), `ReadsAgree` (listing, metadata, contents and counts fit together,
at every depth and whatever calls came before). `marks` names what the first two do not survive, as
a matter of the code: a patch with two entries for one path (`repeat`) and a call of the base scope
that changes files of a project (`cross`).

### FileCalls

State: `dirs` and `files` (path to size), and per call `pc`, the entry it is at, `old` (the size it has
seen), `deltas`, and for `_delete_tree` the stack `tree` of directories it is in with the children
`iterdir()` gave it. `linked` tells whether an open handle still has a name in the tree. `changed`,
`paid` and `met` are history: the bytes a call has added to the tree, those it has recorded, and what
calls that ran meanwhile did to its paths.

| Action | Code |
|---|---|
| `Begin` | FastMCP runs the tool in a worker thread |
| `Exists`, `SizeBefore` | the first looks at the file: 289, 320-335, 402, and once more 343-345, 404; for a patch the loop over its entries |
| `Quota` | `enforce_quota`, which may refuse: usage.json is `UsageFile`'s |
| `MakeDirectories` | `mkdir(parents=True)` of 287, 377, 413 |
| `Open`, `Write` | `open` truncates or not (297, 380), the buffer is written at close (298, 381) |
| `SizeAfter`, `Record` | 300-301, 393, 406, 427 |
| `Unlink` | 373, 405 |
| `IsDirectory`, `EnterDirectory`, `Visit`, `UnlinkChild`, `RemoveDirectory` | `remove_directory` and `_delete_tree` 419-444: what comes into the directory between the check of 424 and the listing of 433 is removed with it |

Any step may find that its file or directory has gone or come, and raise: then the call ends and
records nothing more. Properties: `LonersAreExact` (a call whose paths nobody else touched records
just what it changed, even when it raises half way), `DeletersNeverOvercredit` (calls that only delete
never give back more than they removed).

### PatchParser and PatchGrammar

State: the payload, as the kinds of its lines; `line`, `inside`, `block`, `operations` of
`_parse_codex_patch`; `at`, `header`, `buffer`, `parsed` of `_parse_patch_block`. The variables hold line
numbers, so that a property can tell which line went where. One action for each branch of the two
loops; `EndMarker` enters the second, `EndOfBlock` returns to the first. `PatchGrammar` says without
passes which payloads are patches and what they mean: `Open` tells the lines inside a block,
`Section` the lines a directive has, `Fits` whether a line may stand where it stands, `IsMeant` whether
an operation is that of its section.

Properties: `LinesKeepOrder` (no line is used twice or moved to another operation) and
`ParsesAsGrammar` (a payload is accepted if and only if it is a patch, and with the operations it
means). The grammar is that of the code where the code is liberal: markers may be indented, so that
an indented `*** End Patch` in the text of a file ends the block; lines below a Delete directive are
ignored; the `path` argument is ignored when the payload is a Codex patch.

### ConfigFile and Server

`ConfigFile`: `content` and `size` of the file, and per genkey run `gen`, `entry`, `data`.
`GenRead` (117-138), `GenOpen` (truncation, 68), `GenClose` (the buffer, 68-70), `GenDies`; `Edit` is the
operator, who saves atomically and not while a genkey run has the file open. Property:
`RotationsStick` (while the runs do not meet and none dies, every printed key works and the file is
readable except while it is written).

`Server`: `cached`, `rootFiles` (where the root logger's handlers write), `serving`, `stdio`, `loggers`
(the `OperationLogger`s, each with the keys it knows), `handlers` (the files the handlers of
each key's global logger write to, in the order they were added), `frames` (the stack of running SIGHUP handlers: only the top one moves), `locked`, `req`.
A reload is the eleven steps of `Reload`, each an assignment another thread can see; `ResetCache`,
`Load`, `RemoveHandlers`, `MakeHandlers`, `FillCache` are `get_config`; `SetConfig`, `SetStdioKey`,
`SetLogger` are `_apply_new_config_to_state`. `Arrive` and `Authenticate` are the middleware, which
does not await in between but can be interrupted by SIGHUP; `ExtractToken` says where the token
comes from. `MakeHandlers` and `AddHandler` fail for a log file that cannot be opened (`Unwritable`). `ReadLogger` to `Emit` are
`OperationLogger.log` in a worker thread. What the tool itself does is left to the modules above.

Properties: `JustlyAnswered` (with which keys a request runs across reloads, and when it is refused),
`StuckOnlyIfNested`, `StateIsWhole`, `LoggingFollowsCache`, `HandlersPerReload`, `NeverSilent` (an
entry always finds its file, and a caller is told of a failure that was none only when the log
file cannot be opened), `ReloadTakesEffect`, `RequestsAnswered`.

### StartUp

State: `up` (where each server process is), `run`, `socket` (what is at the path: nothing, a file, the
socket of a start-up), `block` (the `remote_server` block); `foreign`, `fault`, `contested`,
`lastBound`, `orphaned` are history. The steps of `ConfigFile` interleave with all of these:

| Action | Code |
|---|---|
| `GetConfig` | 53-62 and 455-491, with `ResolvedEndpoint` |
| `Exists`, `Stat`, `RemoveSocket` | `_prepare_uds_socket` 584-593 |
| `Install` | 493: from here on SIGHUP is handled |
| `Clear`, `Bind` | `uvicorn.run` (494): the event loop removes a socket that is at the path again, then binds, or raises because another start-up has bound meanwhile |
| `Stop` | SIGTERM or SIGINT ends the server |
| `Leave` | the `finally` of `uvicorn.run`, after `Stop` and after a failed `Bind` alike: whatever is at the path is removed, the socket of another server included |
| `Dies` | SIGKILL, a crash, a SIGHUP before its handler is installed: the socket stays |

Properties: `OnlyOthersPreventAStart` (an old socket never stops a start-up, and no other file is
removed), `LatestAnswers` (clients reach the server that has bound the path last, as long as no other
process has taken the path with it when it left uvicorn).

### UnifiedDiff and StandardDiff

State: `text`, `diff`, `i`, `index`, `result`, `applied`, `outcome`, as in the function; `origin` and
`deleted` are history. One action for each branch of the loop; `BlankLines` are the lines of white
space, which may stand in front of the first hunk with a leading space or without (203). `StandardDiff`
defines when a diff is correct for a text and what it then gives, by replacing old sides with new
sides, from the last hunk to the first.

Properties: `ComesFromText`, `KeepsOrder`, `LosesNothing` (for any diff), `PlainDiffsApply` (for
correct ones).

## 3. The runs

| Run | Question | Instance |
|---|---|---|
| `UsageFileOverlap` | what do calls do to usage.json one at a time, and what survives overlap and crash? | 2 processes, 3 calls, deltas 5, 100, -5, limit 105, 1 crash |
| `UsageFileHang` | *violated*: does the recalculation end? | 2 processes, 2 calls, no crash |
| `FileOperationsRoot` | does the accounting of one root add up, patches included? | 7 requests, 2 contents, all patches of 1 or 2 entries over 2 files, limit 3 |
| `FileOperationsProject` | the same for a root and a project; is the project kept apart, and do the reading tools agree? | 5 and 8 requests, limit 2 |
| `FileCalls` | what are the deltas of overlapping calls worth? | 3 calls of 10 kinds, 2 at a time, 2 files in 2 directories |
| `PatchParser` | is every payload parsed as the format says? | all payloads of up to 3 lines, blocks of up to 4, pairs of blocks |
| `StartUp` | what does a rotation keep, what stops a start-up, who answers? | 2 servers, 3 start-ups, 2 genkey runs, 2 keys, 1 save, 1 death of a run |
| `ServerRequests` | with which key does a request run, and where does its entry go? | 2 requests, 1 SIGHUP, 1 genkey run, 1 save |
| `ServerReload` | does a reload take effect and leave the server whole? | 2 SIGHUPs, 1 request, 1 save |
| `ServerNested` | *violated*: is every request answered? | 2 SIGHUPs, 1 request |
| `UnifiedDiff` | is anything lost, moved or misplaced? | texts of up to 3 lines; all diffs of up to 3 lines of any kind, and hunks of up to 3 |
| `UnifiedDiffInsertions` | *violated*: do insertions apply? | the same |

**Why the bounds are enough.** The deltas 5 and 100 give payloads of one to three digits, so that
texts one and two characters longer or shorter meet: both outcomes of `Overlay` occur. Two
processes are the least that overlap; three calls let a third call find what two have left. 105 is the
limit two writes of 100 and 5 just reach and any further write exceeds. In `FileOperationsRoot` the
request `d` can be a file or a directory, `d/../a` is a second name of `a`, `.` is the root, and `../a`
leads out; two entries are the least that can meet in one patch. In `FileCalls` one of the ten calls
does each thing a call can do (write, append, update, add, delete, make, remove, remove recursively at
two heights), two patches fail half way, and every two of them meet in some directory. Three lines are
the least with something before, in and after a block; four hold two directives with a line each. The
configurations an operator may save cover every outcome of a reload: usable with other keys and
files, a key revoked, no keys, no `remote_server`, a stdio root that cannot be created, a log file of
the process or of a key that cannot be opened, unreadable. The credentials carry a token in each place,
one behind an empty one, two that differ, and none. Two SIGHUPs are the least that nest; two requests
the least that meet in `_logger_for_key`. Three start-ups are two that meet and one that finds what
they have left. Three-line diffs hold a header, a line and its successor of every kind.

Bounds on calls, crashes, saves, signals, start-ups and deaths (`MaxCalls`, `MaxCrashes`, `MaxEdits`,
`MaxSignals`, `MaxStarts`, `MaxKills`) and on the length of a file (`MaxLen`) are guards of the actions
that count. Processes that are alike are permuted (`SYMMETRY`) in `FileCalls` and `StartUp`, which
check no liveness. Deadlock is checked in `PatchParser` and the runs of `FileOperations`. It is not
where the system really stops: in `UsageFileOverlap` a thread may wait for itself; the other systems
are over when their bounded inputs are used up, or the function has returned.

**Fairness.** `UsageFile!FairSpec`: a call that has begun goes on, as the operating system runs every
thread; flock needs no strong fairness in the instances checked, since a holder that is not stuck
returns the lock and calls are bounded. `Server!FairSpec`: the main thread runs a handler it has
entered, the event loop authenticates what has arrived, worker threads run. Nothing makes a request,
a save, a signal or a crash happen.

## 4. What the runs found

Three runs refute what the repository says of itself (`findings` in `PROJECT.json`):

1. `UsageFileHang`: two overlapping calls make one thread wait for its own flock (`workspace.py` 203).
2. `ServerNested`: a SIGHUP inside the handler of another stops the event loop (`server.py` 507).
3. `UnifiedDiffInsertions`: `@@ -1,0 +2 @@` inserts one line early (`fs_operations.py` 173).

Other differences are conditions of properties that hold. They say where the promise ends:

- `Quiet` in `LedgerExact` and `QuotaHolds`: with overlapping calls updates are lost and two writes
  can pass the limit together (`workspace.py` 217, 250). `InitialBytes = 0`: files that were there
  before are never counted (195).
- `marks` in `FileOperations!LedgerExact`: a patch that shrinks one file twice is credited twice
  (353); the base scope can change projects, whose accounting does not follow (README.md:106).
- `StaleOnlyIfRepeated`: the hunks of a second entry for one path are checked against the content
  before the first, and its result overwrites that of the first (349), although the tool "Validates
  every hunk before writing" (`server.py` 247).
- `met` in `LonersAreExact`: overlapping calls on one file record differences of each other's sizes,
  and a recursive removal that another call disturbs records nothing of what it has removed (433-444).
- The exceptions in `ImmutableKept` and `ChargedToCaller`: immutable files and usage files go with a
  directory above them (`fs_operations.py` 418-444). Immutable paths are relative to the root of the
  caller, so that a file the base scope may not change can be changed by the callers of the project
  it is in, and the other way round.
- `~disturbed` in `RotationsStick`: two genkey runs at a time can lose one rotation
  (`config_manager.py` 119-139).
- `~serving.rootOk` in `StateIsWhole`: a stdio root that cannot be created leaves a new configuration
  with the old logger (`server.py` 88-90).
- `LoggingFollowsCache` names the cache and not the configuration in service: an aborted reload has
  already moved the log (`config_manager.py` 102).
- `HandlersPerReload` allows one handler per reload: entries are repeated after a reload
  (`logging_utils.py` 60), and `~clashed` leaves out two requests that meet (50).
- `NeverSilent` allows a tool that has changed files to fail for its caller when the log file of the
  key cannot be opened (`logging_utils.py` 58). `LoggingFollowsCache` and the condition of
  `ReloadTakesEffect`: when the log file of the process cannot be opened, the reload has removed the
  old handlers and the server goes on as it was (`config_manager.py` 75-87).
- `orphaned` in `LatestAnswers`: `uvicorn.run` removes the path when it is left, whoever has bound it
  by then (`server.py` 494). A start-up whose bind fails because another server has just bound takes
  that server's path with it, and so does a server that is stopped after its successor has bound. A
  start-up that dies between removing the socket (591) and binding its own leaves the running server
  without a path.
- No property speaks of a blank line in a hunk, which is added to the text although diff tools mean an
  empty context line by it (`fs_operations.py` 193), nor of entries of the log that a reload loses
  between two handlers (`config_manager.py` 76).
- `FailBefore`: an invocation whose project is refused has no log entry (`server.py` 162).
- `PlainDiffsApply` leaves out the marker `\ No newline at end of file` (`fs_operations.py` 190).
- Outside the properties: a `logging` block of a key replaces the global one, fields it does not name
  included (`logging_utils.py` 32, README.md:48 "inherit those defaults"); the verdict of `validate_mime` has no effect after a write (302, 382);
  `stat_tree` of a file reports -1 directories (485); a patch with an update directive and only blank
  lines below it is refused as empty (128).

## 5. The proofs

`UsageFileProofs`, for any number of processes, deltas, calls and crashes, with flock or without.
The assumptions are those of `Quota` and `UsageFile` (`HardLimitAssumption`, `ConstantsAssumption`).

- `TypeCorrect`: from `TypeInv`, which adds to `TypeOK` the type of `job`.
- `NoOvercharge`: `NeverOvercharged` is not inductive, because `Flush` writes a payload loaded long
  before. `CreditInv` adds the bounds on every payload in memory and in the file, and needs
  `LockInv`: under flock a process between `LockWrite` and `Unlock` holds the lock.
- `RebuildNeverLeaves`: from `LockInv`; no step but `Crash` frees a lock that its holder waits for.
- `NeverCorruptWhenQuiet`: `QuietInv` says that at most one call runs (`OneCall`) and which contents
  of usage.json each place of the call can see (`ShapeInv`).
- `UsageIsExact`, `QuotaHoldsWhenQuiet`: `ExactInv` relates, at each place of the one running call,
  the payload in the file, the one in memory, the delta of the call and the stored bytes.
- `QuietImplementsLedger`: `ImplementsLedger`, every step up to the first overlap or crash is a step of
  `UsageLedger` or a stutter: `Check` or `Begin` admits, `Flush` settles, a failing `Modify` drops.

`UnifiedDiffProofs`, for every text and every diff, with `DiffAssumption`. `DiffTypeCorrect`,
`ResultComesFromText`, `OrderIsKept` and `NothingIsLost` follow from one invariant, `DiffInv`:
`Accounted` says that the lines of the text behind `index` are just those that are kept or deleted,
that none is both, and that origins increase. The three lemmas `CopyAccounts`, `DeleteAccounts` and
`AddAccounts` are the three ways a step can change it.

- `PlainDiffsAreApplied`, for correct diffs of any length with hunks that are not mere insertions:
  from `Followed`. `UpTo` is what has been read of a side of the hunk (`SideNext`: the line that is
  read is its next line), `FromAt(n)` the text with the hunks from line `n` of the diff on replaced,
  which in front of them is the text (`Agrees`). Inside a hunk (`InHunk`) the result ends in what has
  been read of its new side, and with the rest of that side and of `FromAt` behind the hunk it is the
  patched text; where a header is read (`AtHeader`) the result and the rest of `FromAt` are.

`PatchParserProofs`, for every payload, with `PatchesAssumption`.

- `ParserTypeCorrect`: from `TypeInv`, which adds to `TypeOK` that a block is read from its first line.
- `OperationsKeepOrder`: `LinesKeepOrder` speaks of the finished operations only. `OrderInv` adds where
  every line is on its way there: the lines of the operations come before the block (`BlockInv`), and
  those of the operations of the block, of the header and of the buffer come, in this order, before
  what is unread of it (`SectionInv`). `BuiltOrdered` says that a section makes an ordered operation,
  `ConcatOrdered` that a block's operations go behind those before it.
- `PatchesAreParsed`, the parsers against the grammar: `ParsesAsGrammar` speaks of the outcome only.
  `GrammarInv` says at every line that what has been read fits the grammar and has become the
  operations it means: `ReadInv` of the closed blocks, and that the block is open and just what has
  come since its marker; `BlockReadInv` of the open block up to its last directive, whose section so
  far is the buffer. `OpenStep` says how a line opens or closes a block; `SectionDone` that a section
  which ends makes the operation it means, or the payload is no patch. There is one lemma for each
  action; a refused line breaks `Fits` (`Refused`). `CodexStartsWithBegin`, from the least line that is
  not blank, says that a plain diff is never taken for a Codex patch. Which lines an operation has
  comes from `GrammarInv`, their order from `OperationsKeepOrder`.

`ConfigFileProofs`, for any keys, secrets, runs, edits and deaths, with `ConfigAssumption`.

- `FileTypeCorrect`: the type of `data` needs that a rotated configuration is one.
- `RotationsAreSafe`: `RotationsStick` speaks of keys already printed; `RotationInv` adds what a run
  under way holds: the content with its own key rotated, and from the truncation on all that was there.

`StartUpProofs`, with `StartUpAssumption` too. Steps are split into those of the file, for which
the theorems of `ConfigFileProofs` are cited (`RotationsStickWhileServing`), and those of a server.

- `OnlyOthersInterfere`: from `PathInv`, what a start-up nobody has disturbed knows of the path at each
  of its steps, and `FaultInv`, which remembers the reason of a failure.
- `LatestIsReachable`: from `AnswerInv`: when the server that has bound last does not have the path,
  someone is about to bind, or `orphaned` says who took it: the last start-up on its way to bind has
  died on an empty path, or a process has left uvicorn and removed that server's socket.

`ServerProofs`, for any number of requests, signals, keys and saves, with `ServerAssumption`: the
server has been started with a usable configuration, and its first log files open.

- `HangsOnlyIfNested`: from `StackInv`: one handler at most is past its lock, and the lock is taken just
  then.
- `ServesOneConfiguration`, `LogFollowsTheCache`: `ReloadInv` says of every place in a reload what has
  been assigned (`Reached`), and that `Whole` and `Follows` hold unless a handler is between the
  assignments that break them.
- `AnswersAreJust`: `JustInv` holds of a request from its arrival on; `inService` only grows.
- `EntriesAreWritten`: `LogInv`: every key an `OperationLogger` knows has a handler that writes, and so
  has every request that has passed over the making of one.
- `HandlersAreBounded`: `HandlerInv`: the handlers of a key are no more than the `OperationLogger`s they
  were made for (`MadeFor`), which counts the one that is being added.

`FileOperationsProofs`, for any projects, requests, contents and patches, with
`WorkspaceAssumption` (project ids are names and not `.projects` or `.metadata`),
`FileOperationsAssumption` (the files there at first are empty, below the root, outside `.metadata`, and
none is in another) and `HardLimitAssumption`. All its theorems follow from one invariant, `TreeInv`.

- `IsTree` is what every disk a call passes through is: closed upwards, finite, its files below the
  root and outside `.metadata`, every usage.json in a directory and within the hard limit. One lemma
  for each helper (`MkdirTree`, `LoadTree`, `RecordTree`, `PutTree`, `UnlinkTree`, `DeleteTreeTree`).
- `Exact` is `LedgerExact` said of a disk: `used_bytes` of a scope is the size of the files it owns.
  `MineOnce`: a file has one owner. `OneFile` and `ExactRecorded`: a change of one file, recorded.
- `Leaves` is what a call has done to a disk it leaves behind: a tree, exact unless the call has set a
  mark, with changes only to files its caller may change and to no other ledger (`Respects`). There is
  one lemma for each tool. `AppliedStep` is the induction over the entries of a patch: as long as no
  path has come twice, each entry finds its file as `Prepared` has seen it.
- `RemoveDirectoryStep` is the exception (`Removes`): it asks about the directory only.
- `TypeCorrect` and `StaleOnlyIfAPathRepeats` are parts of `TreeInv`; `CallsAreConfined`,
  `UsageIsTheCallers` and `ImmutableFilesAreKept` follow from `Calls`, what every step does.
- `LedgersAreExact` and `QuotaIsKept` need besides that `stat_tree` counts just what a scope owns
  (`ChargedIsOwn`): the walk reaches every file below a root (`FoundBelow`), every project that
  holds a file is listed (`ListedProjects`), and the sizes of the projects add up (`ProjectsAddUp`).
- `ReadingToolsAgree`: what is below a directory is directly in it or below just one of the
  directories in it (`Branch`), so that files, directories and bytes can be counted part by part
  (`SumOfSums`, `CountOfCounts`).

`FileCallsProofs`, for any number of processes, calls, entries and files, with `CallsAssumption`: an
entry has an operation its tool can have, no path is the root, and a name that is a file for one call
is a directory for no other. The invariant has four parts.

- `TypeInv` (`TypeCorrect`): the tree is one (`DiskInv`); a call is where its operation can be and has
  the deltas it has computed by then (`Place`); the stack of a walk is a chain of directories below
  the one to remove, each with children of its own (`Walks`); an open handle that still has a name
  has that of its call (`Linked`).
- `MeetInv`: of two running calls that are about one path, each has the other's operations in `met`.
- `LonersInv` (`LonersAccounts`): `Account` relates, at each place of a call nobody has met, the bytes
  changed and recorded with the deltas still to come: those not yet applied are right for the files
  as they are (`Right`), and what is in the directories of a walk is just what it will still visit
  (`TreeKnown`), so that its `rmdir` does not fail.
- `DeletersInv` (`DeletersAccounts`): `Credit` is what remains of it when others may take files away: a
  delta is right as long as its file is there (`RightIfThere`).

`StepEffects` bounds what a step does to the tree by the entry it is at; `Undisturbed` and
`OnlyTakenAway` conclude what it leaves of the paths of another call.

The library's induction theorems take an operator the provers cannot instantiate. `Induction` and
`FiniteInduction` take a set in its place, that of the numbers or subsets a claim holds of, and
follow from the well-founded orders of the library. With them the folds of the community modules
can be reasoned about (`SumDef`, `SumSplit`).

Every invariant and action property the passing runs check is stated by a theorem. Only
model-checked: liveness (`OnlyCorruptionHangs`, `ReloadTakesEffect`, `RequestsAnswered`), which is out
of the proof system's reach.

## 6. What is left out

- Lines of a payload of two kinds at once (an added line or a directive with `@@` in it), and the
  characters Python's `splitlines` takes for line ends besides the newline.
- Patterns of `list_dir`; encodings, base64, dates, modes and `mime_allowed` of the reading tools.
- Symbolic links (no tool creates one), file modes, full disks and other I/O errors, except log files
  that do not open.
- In `FileCalls`: names that are files at one time and directories at another, the removal of the root
  itself, and `mkdir` of several levels as more than one step. Reading tools while others change the tree.
- The soft limit (it logs), log levels, the text of entries; the four categories are one flag.
- Argon2: a key has a secret, a request has one, and they are equal or not.
- `errors.py` (a table from exception types to codes, without state), the rest of `schema.py` (pydantic),
  argparse, FastMCP, FastAPI, uvicorn and the stdio transport (libraries), `/status` (a constant), the rc
  script (a shell script around daemon(8); its reload is the SIGHUP of `Server`).

Assumptions about code outside the repository: FastMCP runs the tools, which are plain functions, in
worker threads; flock is per open file description; CPython runs signal handlers on the main thread;
`uvicorn.run` removes the path of its socket when it is left, normally or by an exception (`Leave`; a
process that does not get there has died in `leave`); the event loop removes a socket at the path
before it binds it, and some event loops remove their own when the server ends; buffers of the size of
usage.json reach the file in `close`. Names of projects are not in the extension whitelist.

## 7. Plan

What is modelled is complete as far as section 6 allows, and what is checked of it is proved as far as
section 5 says. What could follow is the code section 6 leaves out.
