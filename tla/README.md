# TLA+ models of hoverpanel

hoverpanel is a dictionary panel for wayland: it picks up the primary selection, looks the word up in an offline
dictionary (`offdictd`) and draws the entries on a layer that gestures show and hide. This directory holds TLA+ models of its
concurrent core, its data directory, its daemon, its entry keys and its handling of definitions, the TLC configurations that check
them on small instances, and theorems about them whose proofs TLAPS checks.

Line numbers refer to `src/` of the repository: `main.rs` is the panel's `src/src/main.rs`; `lib.rs`, `def.rs`, `def_bin.rs` and
`topk.rs` are those of `src/offdictd/src`.

## The system

| component | state | operations | interacts with |
|---|---|---|---|
| **Wayland loop** (`main.rs`, main thread; the loop is an external crate) | app, opacity, text, results drawn | build the app and open the dictionary (112), draw a frame (334, 522), follow the layer (342), handle `Msg` | reads `query_rx` and sends texts on `wsx`; receives `Msg`; offers selection pipes on `evrx` |
| **Selection reader** (158-184, tokio task) | the pipe being read | read a pipe to its end, send short texts | `evrx` → `wsx` |
| **Lookup task** (185-235, tokio task) | `last_string`, position in `wrx` | receive, skip a repeat, search, render, publish, ask for a frame | `wrx`, the `dict` cell, `RECENT_QUERY`, `query_rx`, `Msg::Repaint` |
| **Gesture loop** (236-294, `block_on`) | `used`, `tap_count`, connection | connect, handle a gesture | reads `RECENT_QUERY`, sends `Toggle`/`Hide`; its end drops the runtime with both tasks |
| **Text box** (528-703) | `text`, `did_focus`, `last_keys` | one frame: keys, IME events, edit | `wsx` |
| **Data directory** (`lib.rs`, `topk.rs`) | RocksDB database, index file, lock file | open, load index, import, build, reset, search | several processes of two binaries share it |
| **Definitions** (`def.rs`, `def_bin.rs`, `lib.rs`) | source files, cleaned files and reports, stored definitions | check, clean, normalize, import | files → database → API and panel |
| **Rendering** (`main.rs` 705-781, 1053-1123) | none (pure) | `render_def`, `push_dedup`, `show_section_t` | database entry → sections → labels |
| **Entry keys** (`def_bin.rs` 22-42, `lib.rs` 197, 235-256) | the keys of the database | put, retrieve | RocksDB's order and prefix iterator |
| **Daemon** (`lib.rs` 734-854, `topk.rs` 42-50) | buffers of the standard input, requests under way, the index's locked cache | read a line, answer it; accept a request, route it, answer it | the prompt and the requests share the cache and one process; data directory |
| Prefix index queries (`topk.rs`, crate metacomplete), FST index (off), configuration, fonts, debug view, benches, export | – | – | – |

What is hard in it: three threads that share cells and channels without a lock over more than one of them; a result and the
message about it that travel separately; a task whose failure silently ends its neighbours; a database and an index file that
are updated by different commands, may be killed in between, and are mapped into other processes; a prompt that shares its
process, its thread and a lock with an HTTP server, and buffers its input twice; definitions that are
judged before they are cleaned, written to two files one after the other, and shown by two views that treat their nesting
differently. `PROJECT.json` lists every such hazard at its line with the properties that look after it.

What makes each part correct:

* panel runtime: no answer is lost, forgotten undrawn, or attributed to another query; one query toggles the panel once;
  everything sent is disposed of;
* text box: the text the user entered stays, and what was entered is looked up;
* data directory: searches do not panic on an index that was built, mapped files are not truncated, imports converge and last;
* daemon: no line typed at a terminal is lost or answered twice, nothing is made up from a pipe, requests end, and none fails for
  another's text;
* definitions: the check keeps the first non-empty definition of a word, settles, its output brings the words into the database, and
  the views lose no text;
* entry keys: a scan finds the entries of its word and no other, and no two entries share a key.

## The modules

| module | what it is |
|---|---|
| `QueryFeed` | abstract: a log of texts, each answered or dropped in order |
| `PanelRuntime` | the panel's threads and tasks; states that it implements `QueryFeed` |
| `PanelRuntimeProofs` | its inductive invariant, safety theorems and the refinement |
| `PanelClaims` | a sentence of the documentation the panel does not keep |
| `PanelInput` | the text box, frame by frame |
| `PanelInputProofs` | its invariants, proved |
| `DurableStore` | abstract: the keys a store knows, and those it will not lose |
| `DictStore` | the data directory and the processes on it; states that it implements `DurableStore` |
| `DictStoreProofs` | its inductive invariant, safety theorems, the convergence of imports and the refinement |
| `DictClaims` | two sentences of the documentation about the index |
| `Daemon` | the prompt and the HTTP API in one process |
| `DaemonProofs` | its safety theorems |
| `DefTree` | pure: emptiness, cleanup, normalization, rendering of definition trees |
| `DefTreeProofs` | what these functions do to every tree |
| `SourceCheck` | the way of a source file through checks and import into the views; uses `DefTree` |
| `SourceCheckProofs` | its inductive invariant and the theorems for all its properties |
| `EntryKeys` | keys as bytes, puts and the prefix scan |
| `EntryKeysProofs` | `slice` undoes `from`; entries keep apart; a scan is exact |
| `InductionLemmas` | least elements, induction stated with sets, and recursion over ranks, for the proofs |
| `MC...` | the instances TLC checks |

`PanelInput`'s sends are `Type` in `PanelRuntime`; `DictStore`'s panicking search is `SearchPanics` there, and its `SearchSafe`
says when `Stale` is empty. `EntryKeys` refines what `DictStore` takes for granted, that the database is a map from
(word, dictionary). A `Daemon` is a process of `DictStore` in the state "serving": what `DictStore` has as one step, a search that may
end the process or only cost an answer, `Daemon` has in its steps.

Each module ends in its properties; operators whose name has the form `X_Variant` are plausible mistakes in `X`, kept beside it to
show that the properties notice them.

### PanelRuntime

The channel of texts is an immutable log `asked` with a cursor `taken`; a query is named by its position, so that
`RECENT_QUERY`'s instant, `last_string` and the results in `query_rx` are positions. The lookup task runs without awaiting from
a receive to the next one, but other threads run in between, so it has a step up to the store of `RECENT_QUERY`
(`StartSearch`), one up to the store of the results (`PublishResults`), and one for the repaint and `last_string`
(`RequestRepaint`). Time is one bit, `fresh`: RECENT_QUERY is within `dither`; it may expire at any moment. When `block_on`
returns (`RuntimeEnds`) dropping the runtime cancels each task where it awaits (`CancelLookup`, `CancelReader`). The selections
the compositor offers wait in `events`; a selection pipe delivers a word, a text that is too long or not UTF-8, a read error, or never closes. `grants` and
`missed` are history variables, for the properties only. `HandleMsg` and `Draw` are what the wayland crate does with a message and
with an event that needs a frame: `sync`, then `update`, which draws the results of `query_rx`. A search of a stale word panics (lib.rs:140)
and ends the lookup task: texts sent from then on vanish, and the next selected word ends the reader (`EveryTextDisposed` counts both as
disposed of, and does not look after them; `SearchSafe` of `DictStore` is what keeps such words out of the index).

### PanelInput

One `Frame` is one call of `render`: the keys held down may ask for the focus (549-560), IME events change the text in order
(644-663), a pending request puts a letter in (665-675), the box takes an edit (676-685), and a request for the focus is made
(698-703). The loop over the IME events of a frame is written as what it leaves: the last event that writes the text decides, since
every one overwrites what the one before it did. Which keys are held, what the input method sends, whether the box has the focus and what the user edits or pastes are arbitrary: any
text may be committed or entered, a single letter too, with or without a key held before. (`last_keys` may then be empty beside a letter.)

### DictStore

The state is the database as a map, the databases a power loss may come back to (`survivors`: the one last flushed and every one since), the index file, the lock file and a
control state per process. A process is the panel's binary or offdictd's, with a command or none; opening, loading, each put,
the truncation, the writing and the reloading of the index, and each removal of a reset are steps of their own, and a process may be
killed before any of them. A power loss comes back with one of the survivors, and may leave an index file that was never
written back in part. Removing the database's directory is one step, except that a kill in its middle may leave a directory that
does not open; remove_dir_all goes file by file (lib.rs:175), and that another process opens what is left after the lock file has gone
and before the rest has is not in the model. A search that panics ends a command or, from a line of the prompt, the daemon; it only silences the panel's lookup
task. RocksDB and the file system are external. `DurableStore` is what all this promises of the entries: its `known` are the keys
of the database, its `sure` the keys that a finished import has seen.

### Daemon

The input of the prompt is a script of letters and newlines; what the kernel, the process-wide buffer of `std::io::Stdin` and the
`BufReader` of the current `readline` hold are consecutive intervals of it, so that reading moves a border. A read(2) returns at most
`Chunk` tokens, at a terminal at most a line. `Fill` is the read into an empty vector (lib.rs:819), `Take` and `NextLine` the reader's
`read_line` (821), `LastLine` its end of input: a pipe ends for good, a terminal's ^D ends one read. The end of `Trim` forgets the
`BufReader` and all it had read ahead: at a terminal that is nothing, from a pipe it may be lines. The script has no other white space,
so trimming a line only removes its newline. A search is three steps: `Lock` the cache (topk.rs:47), `Query` the index, which drops
the guard, and `Retrieve` the entries, which panics for a word without one. A panic of the prompt ends the process, with every request
under way ("lost"); a panic of a request ends its connection; a panic under the guard poisons the lock, and every search after it
panics. Connections are accepted on the thread that runs the prompt, so a search of the prompt holds them up, and a wait for input does
not. Each request is sent at most once. The branch of `repl` for an `Err` of `readline` and its quitting are never taken.

### DefTree, SourceCheck

A definition is a record with options as sequences of at most one value; texts are "", "&nbsp;", "&n&nbsp;bsp;", " a", "N." and ordinary ones,
which is what `empty_`, `cleanup_value` and the lower case of a word type tell apart. What one pass of the cleanup makes of the characters of
a text is the CONSTANT `Strip`, and it is one pass, as `replace_all` is (def.rs:276): "&n&nbsp;bsp;" leaves "&nbsp;", and only a further
check leaves nothing. `Passes` is a number of passes after which no text has anything left to strip. The untagged `shorthand` reads a string as a string, a
list of exactly two texts as an `example_obj` and any other list as a list (def.rs:81): no example is a list of two. What descends into a definition, as the Rust
functions do by recursion, is a recursive function over `Trees[n]`, the trees of depth n, up to `MaxDepth`; `Nodes`, `LastGiven` and
the sets of texts are what it is compared with. `Render` gives the sections of an entry with their heading, the word type and the
pronunciation. `Check` is `check_yaml_defs` with save up to the creation of its two files, `WriteReport` and `WriteCleaned` write
them; a `Kill` in between leaves files that are empty or end in a definition, which may be cut after its word or in it. `Adopt` makes the cleaned
file the next source, `Import` stores a source under one dictionary's name, `ImportDirectory` all files of the directory `checked`.

### EntryKeys

Keys are sequences of bytes, as the code makes them; lengths are cut into four bytes of base 256. The iterator of `retrieve`
seeks the key of the word with an empty name and ends where the prefix extractor's value changes.

## What the runs check

| run | what it shows |
|---|---|
| `panel_safety` | `LatestAnswered`, `RepaintPending`, `RecentIsCurrent`, `OneTogglePerQuery`, and `ImplementsFeed`: `Spec` implements `QueryFeed!Spec` |
| `panel_liveness` | `EveryTextDisposed`, `ResultsReachPanel`, `SelectionsRead` (a word behind pipes that can be read is sent, unless the gesture loop, the lookup task or the process ends), under `FairSpec` |
| `input` | `UnsentIsLetter`, `EnteredStays` |
| `store` | `SearchSafe`, `MappingIntact`, `ImportStays`, `ImportConverges` with two processes, kills and power losses, and `ImplementsDurable`: `Spec` implements `DurableStore!Spec` |
| `daemon` | `TerminalLosesNothing`, `AnswersRunToLineEnd`, `FailsForItself`, and under `FairSpec` `RequestsEnd`, `TerminalLinesEnd` |
| `source` | `CheckKeepsFirst`, `CheckSettles`, `CheckKeepsDrawn`, `WordsReachDb`, `EntryDrawn`, `HeadingOfLast`, `ApiNormal`, with kills of a check |
| `keys` | `ScanExact`, `KeysDiffer` |

The safety runs also check their module's `TypeOK`. The remaining runs each take one sentence of the repository at its word and refute it:

| run | the sentence | what the code does |
|---|---|---|
| `panel_claim_selection` | README:61 "select any text on any wayland window ..." | a refused connection to the gesture server cancels reader and lookup |
| `store_claim_initialize` | offdictd/src/main.rs:29 "Run offdictd build to initialize the index" | offdictd never loads an index it did not build in the same process |
| `store_claim_build` | lib.rs:607 "Build index, required after ..." | a partial index keeps the panel's binary from building |
| `source_claim_alternative` | lib.rs:449 "Empty defs with an alternative can be removed without pity" | every empty definition is its own alternative |
| `source_claim_groups` | def_bin.rs:50 "Alias for definitions" | the panel does not draw groups |

Other places where the code is at odds with a sentence of the repository are part of the models as the code has them, without a
run of their own:

* any gesture within the dither time uses the query up (main.rs:259), also one that toggles nothing, so that the time "you can dither
  to decide" (main.rs:62) ends with it;
* a double tap on a hidden panel without a recent query sends `Hide` (main.rs:268) and shows nothing, README:59;
* IME events put a pending focus letter off, and it then replaces a committed text, unsearched (main.rs:665; README:65 knows that
  "IME works sometimes and sometimes not"): the exception `overdue` of `EnteredStays`, which therefore describes this case and does not catch it;
* a list counts as empty when its first text is (def.rs:138), so definitions with texts are reported as empty, lib.rs:450;
* a text that cleans to nothing inside a list of strings makes the check panic (def.rs:254), def.rs:247;
* a definition of the empty word passes the assertion on keys when it is stored, not when it is retrieved (def_bin.rs:33);
* the report of a check matches the pattern of the cleaned sources beside it, and an import of `checked/*.yaml` panics on its first
  record, which has no word (lib.rs:490);
* a first definition that only seems to say something drops a later one of its word, and a further check drops it too: `WordsReachDb`
  says exactly which words are left;
* one check does not remove every "&nbsp;" (def.rs:248, 276): one that the removal of another puts together needs a further check, so
  that `CheckSettles` speaks of the checks after the first `Passes`;
* lines written to the prompt together through a pipe are lost with the reader that had read ahead (lib.rs:821).

### Bounds, and why they are enough

* `MaxAsked` counts the texts typed or selected in a behaviour and `MaxMsgs` the messages the user and the gestures queue (the
  lookup task may always add one). With three texts of two words there is a repeat, a different text between equal ones, and a text still on its way while
  another is searched; the properties relate at most two neighbouring texts. One word's search may panic. The liveness instance has
  two texts and a pipe of each kind that the reader treats in its own way, also one that never closes.
* The text box has two letters (a choice and a stale one), two commits of which one is a letter, three edits of which one
  empties it and one is a letter, and up to two IME
  events in a frame. Its state space is finite without a bound on steps.
* `MaxRuns` lets four commands start, on two processes: an import, a build, a reset and a search in any order, or an import cut
  short, repeated and searched. Two words, one dictionary split over two files that define a word twice, one file that does not
  parse and one without a dictionary name. Processes are symmetric.
* Sources have one or two definitions: two decide every question of duplicates. Definitions nest two levels below
  the root (`MaxDepth`), with definitions, groups or both, and a leaf has each field in the forms the code distinguishes. `Passes` is 2,
  for "&n&nbsp;bsp;", and `MaxChecks` 3, so that a check is seen that must change nothing after two that may change texts, words and which definitions
  are left; a check may be killed and repeated any number of times.
* The prompt's script is "a", an empty line, "ab" and an unfinished "c", and a read returns at most two tokens: a chunk holds two line
  ends, another cuts a line, a lost beginning leaves "b", which is a stale word, and the last line panics the index. Three requests: one
  that finds a stale word, one that finds an entry, one that does not decode.
* Words for the keys are the empty one, prefixes of one another and bytes that look like a length; up to three entries.

`CHECK_DEADLOCK FALSE` stands where the system or the bounded behaviour ends: the panel's process exits, every command was
started, a source was imported, the script and the requests of the daemon are spent.

### Fairness

`FairSpec` of `PanelRuntime` assumes weak fairness of handling messages (the wayland loop runs until the process exits), of the
reader with a pipe that ends, of the lookup task, and of the cancellation of a dropped runtime's tasks: all four are run by an event loop or by a worker of a multi-threaded
runtime that nothing in the code blocks for ever, except the pipe that never closes, which disables the reader's step. Users, other clients, the gesture
server, the start of the program and the clock are assumed to do nothing. The properties survive a dead lookup task or process only as
alternatives they name.

`FairSpec` of `Daemon` assumes weak fairness of reading a line, of the prompt's search and of every request: `block_on` polls the prompt
and the accept loop, the workers of the runtime the requests. Weak fairness of a search includes that who waits for the cache's mutex gets it
in the end, which is safe to assume of finitely many holders that each release it. Nobody has to type, send or end the input; a prompt
that waits for input disables its steps.

## What is proved

`PanelRuntimeProofs`, for every set of words, stale words and selections and every bound (assumption
`ConstantsAssumption`: the junk selections are not words, stale ones are words, bounds are naturals):

* `Invariance`: `Spec => []IInv`. The properties are not inductive by themselves. `TypeOK` bounds every position by
  `taken`; `Pipeline` says how `results`, `last`, `recent` and `missed` stand to `taken` in each state of the lookup task (what
  `LatestAnswered` needs across a repeat, and what makes `RecentIsCurrent` follow); `Unopened` that nothing is searched before the
  dictionary is there, since the drop of a text is only harmless then; `Granted` that the last query behind a toggle is
  `used`, so that a new grant is a later query.
* `TypeCorrect`, `LatestIsAnswered`, `RepaintIsPending`, `RecentNamesCurrent`, `TogglesAreDistinct`: the invariants of
  `panel_safety` follow.
* `PanelImplementsFeed`: every step maps to a step of `QueryFeed` or a stutter, under `log <- asked`, `done <- Disposed`,
  `answer <- results`, `open <- dict`. `Disposed` leaves out the text being searched.

`DictStoreProofs`, for every set of words, dictionaries, files and processes (assumption `StoreAssumption`: files hold sequences of
definitions, patterns stand for sequences of files, the two names for "none" are not names):

* `Invariance`: `Spec => []IInv`. `Holder`: a process past the opening of the database holds its lock, until its own reset removes it.
  `Fresh` and `Erasing`: an index is loaded by the panel's binary before its command or by nobody, and a process that
  resets was started to. From these, `Mapped`: whoever truncates the index file is the only one that could search through it.
  `Collected`: what a build is about to write are words of the database. `Covered`: after a build, the index file and every
  index that a process searches or will search name words of the database. `Survive`: a power loss takes nothing that was promised.
  `Imported`: an import has put the last definition of every key up to where it has come.
* `TypeCorrect`, `MappingStaysIntact`, `SearchIsSafe`, `ImportIsDurable` follow; `ImportsConverge` (an action property) from `Imported` where
  an import ends; and `StoreImplementsDurable`: every step maps to a step of `DurableStore` or a stutter.

`DaemonProofs`, for every script, chunk size and set of requests (`DaemonAssumption`): `TypeCorrect`; `RequestsFailForThemselves` with
the strengthening `Poisoning` (a poisoned lock has its culprit among the dead, who stay so); `LinesInvariant`, which says of the line
being answered (`Held`), of those dealt with (`Past`) and of a terminal's buffers (`AtTerminal`: no reader passes the newline
that ends its line) where they lie, and from which `NothingLostAtTerminal` and `AnswersEndLines` follow.

`PanelInputProofs`, for any keys, commits and edits and any number of events in a frame (`InputAssumption`: the bound
is a natural, and what stands for no text is not a text): `TypeCorrect`, `UnsentTextIsLetter` and `EnteredTextStays`, with `Pending` (a
request for the focus that is open beside an entered text is overdue) as the strengthening.

`EntryKeysProofs`, for all words and names whose lengths fit 32 bits (`KeysAssumption`): `SliceOfFrom` (`slice` undoes `from`) rests on
the lemma that four digits of base 256 give back a length; `EntriesKeepApart` (`Spec => []KeysDiffer`) follows, since a shared key would
slice to one word and one name. For `ScansAreExact` the order of keys is shown to be a strict total order, the keys of a word to
follow its prefix without another word's between them, and `Scanning` to hold: the cursor stands on the first key not yet collected.

`DefTreeProofs` and `SourceCheckProofs`, for every set of files of any length, any texts with "", "cut" and "n." among them (what the
model's own conversions make), any `Strip` that leaves "" and "cut" alone and has a number of passes after which nothing is left to
strip, any depth of nesting and any number of checks (`TextsAssumption`, `StripAssumption`, `PassesAssumption`, `DepthAssumption`,
`SourcesAssumption`, `ChecksAssumption`); all eight invariants of the run `source`:

* Folds. `FoldLeft` is a function that CHOOSE picks over sets of indices. `FoldExists` shows that there is one, `FoldRuns`
  that its values at the sets 1..i are a sequence of states one step apart, about which one argues by induction on i.
* Trees. Nested definitions are less deep (`DepthOfKids`), so `TreeInduction` reaches every definition, and a recursive function
  satisfies its equation since `TreeRecursion` gives a solution (`NodesUnfold`, `CleanupUnfold`, `NormalizeUnfold`, `RenderSteps`, ...).
* From these, for every definition: `CleanupSettles` (cleanup is not idempotent, but what as many cleanups as `Passes` leave
  is left as it is by another: `Image(n)`, what n cleanups make of definitions, has only texts of `Stripped[n]`, and no empty list), `NormalizeKeepsTexts`, `RenderDraws` (though `PushDedup` may
  leave a section out, exactly the texts nested by definitions are drawn), `RenderHeads`, `CleanupKeepsDrawn` (where cleanup does not
  panic, what is drawn is what was drawn, cleaned). `SourceEntryDrawn`, `SourceHeadingOfLast`, `SourceApiNormal` and `SourceCheckKeepsDrawn`
  are these, of what the database and a check's output hold.
* `KeepsFirst`: each filter of a check selects the definitions at an increasing sequence of positions, and the composition of the two
  has the positions `FirstOnes`. `OnceSettles`: applied to definitions that
  cleanup leaves alone, a check changes nothing the second time.
* `SourceInvariant`: `Spec => []IInv`. The properties speak of the output of a check or of the database, long after the step
  that read the source. `Underway`: a check that is under way has a source it does not panic on, and a finished one has written
  `Once(source)`. `Clean`: a source that has been through n checks, even killed ones, has definitions of `Image(n)`, and an output of
  `Image(n + 1)`, which is why a check settles from `Passes` on. `Followed`: unless a check was killed, the source has, in order, exactly the definitions at `Kept[checks]` of the
  first file, cleaned as often (`Follows`), and an imported database is what `Reached` says of it. `SourceCheckKeepsFirst`, `SourceCheckSettles`, `SourceWordsReachDb` follow.

Facts by induction over data are stated with sets instead of predicates (`NatSetInduction`, `RankInduction`: a set that has a number or a
definition as soon as it has all smaller ones has all of them), since the library's induction theorems cannot be instantiated here; the
earlier proofs use minimal elements for the same purpose: the first newline, the first key, the last event.

Model-checked only: liveness (`EveryTextDisposed`, `ResultsReachPanel`, `SelectionsRead`, `RequestsEnd`, `TerminalLinesEnd`), for which there is no
backend that knows fairness. Every other property of the passing runs is a theorem.

## Not modelled

* The ranking of the prefix index: metacomplete's source is not part of the repository; a query may return any indexed words.
* `fst_index.rs`: its feature is off, and it does not fit the `Indexer` trait of this commit.
* Configuration, fonts, layout, colours (also the one that stands for a word type), the debug view (compiled off), statistics, export,
  benches, examples: no state, or only reports.
* The `transmute` between `Def` and `SrcDef`: both list the same fields, and a layout is below the source.
* `related`, `tip`, `title`, `t1`, `t2` of a definition: treated as `EN` is, or not at all, by what is modelled.
* A source whose name does not end in `.yaml` in lower case: a check would write both of its outputs into the same file (lib.rs:490).
* Several checks or imports of files at the same time, and files changed by something else than a check.

## Plan

1. done: `PanelRuntime` with its abstract feed and proofs, `PanelInput`, `DictStore`, `SourceCheck`, `EntryKeys`.
2. done: `DurableStore` and `DictStoreProofs`; `Daemon` and `DaemonProofs`; the scan in `EntryKeysProofs`; `PanelInputProofs`.
3. done: the heading of an entry, and the files a check writes.
4. done: `DefTree`'s recursion as functions over trees, `DefTreeProofs` and `SourceCheckProofs`.
5. left: nothing of the models waits for a proof but liveness.
