# Formal model of pbpp

TLA+ modules, TLC configurations and TLAPS proofs kept beside `pbpp`, the
protobuf preprocessor, and its command `pbtrim`. Paths below are relative to the
repository root.

pbpp reads a tree of `.proto` files, evaluates selector rules over their symbols,
closes the selection over references, deletes everything that is not selected and
mirrors the result into an output directory. Three parts of that carry most of the
risk: the *closures* of `select.rs` and `prune.rs`, whose results must not depend on the
order of a worklist; the *deletion*, which must take what is not selected and nothing
else; and the *directory synchronisation*, which must stay correct through concurrent
calls, crashes and half-finished runs.

## 1. The system

    discover -> FileSet::build (lex, parse) -> sema::analyze -> select -> prune -> format -> sync
      fs.rs       fileset.rs, parse.rs          sema.rs       select.rs  prune.rs  format.rs  fs.rs

Everything between `discover` and `sync` is single-threaded and in memory; a stage
hands its result to the next and an error of any stage ends the run. All lasting
state is in the file system.

| Component | State | Operations | What is hard | What makes it correct |
|---|---|---|---|---|
| `fs.rs` sync | output tree, `.pbtrim-manifest`, `.pbtrim-lock`, temporary files | `sync`: lock, preflight, writes, removals, manifest, unlock; `write_atomic` | several processes, crash between any two steps, failing I/O, symlinked directories, a manifest somebody damaged | one writer; only what recorded paths lead to removed; no file outside the root touched; after success the directory mirrors the run; nothing a successful call wrote is forgotten |
| `fs.rs` discover, paths | none | `discover`, `valid_import_path` | symlinks, non-UTF-8; files read one by one while others write them | paths stay below the root; what was read at different times is analyzed as a whole or refused |
| `select.rs` | `decision`, `marks`, `cascade`, `introduced`, `queue`, `processed` | `evaluate_rules`, decision pass, `keep`, `process`, `check_enum_legality` | recursive schemas, rules that fight each other, early cut-offs, marks raised after the fact | last match wins; least closed set; nothing dangles; exclusions hold; every keep can be explained |
| `prune.rs` files and imports | `required`, `flow`, `queue` | `needed_providers`, `required_files`, `import_survives` | bridges that only re-export, import cycles, provide sets computed before the deletion | each surviving reference stays visible; nothing needless survives |
| `prune.rs` edits | `edits`, scratch stack `reserved` | `visit_*`, `insert_reserved`, `apply_edits` | nested scopes sharing one stack, aliases, overlapping deletions | each deleted number reserved once, in its own scope, and no number still in use |
| `sema.rs` | symbol table, namespace tree, `provides`, references | `analyze`, `check_imports`, `resolve_path` | anchoring on the first segment, shadowing, packages merged over files | a reference means the same before and after the prune |
| `lex.rs` | position, line, end of the piece before | `run`, `slash`, `string`, `number`, the scans over machine words | arithmetic on eight bytes at once, the rest of a text, numbers cut after the fact, newlines counted in two places | tokens are the longest words of the lexical grammar, each on its line |
| `parse.rs` | token and comment cursors, depth | one function per production; item protocol `begin_item` / `finish_*` | keywords that are names, choices on one or two tokens, bounds of numbers; which comment belongs to which item; nesting cap | the grammar's texts and no others, with the grammar's tree; each comment attached exactly once, in order |
| `rules.rs` | pattern, scope stack | `parse_rules`, `matches_path` | `**` at the end and in the middle | a pattern matches what the DSL says |
| `format.rs` | output, indent, pending blank line | `format` | comments, idempotence | formatting is idempotent and keeps the meaning |
| `cst.rs`, `digest.rs`, `wkt.rs`, `span.rs`, `error.rs`, `fileset.rs`, `pipeline.rs` | none beyond one call | | | functions of their input |
| `bin/pbtrim.rs` | exit status | `fmt`, `select`, `prune` | a loop over files that goes on after errors; closed pipes; read-then-replace; inputs read before any lock; an output directory given by another spelling of the root | exit codes mean what the README says; sources are never overwritten by a prune; what is published comes from inputs that go together |
| `action.yml` | | shell wrapper | | |

The hazards this leads to, each at its line, are listed in `PROJECT.json`.

## 2. Modules

### Sync, OwnedDir: `fs::sync`

`Sync` is the protocol of any number of calls of `sync` on one directory. Each call
`r` is a process with a program counter `pc[r]`; its labels are the phases of the
function.

| Model | Code |
|---|---|
| `disk` | what each directory entry holds: the call that wrote it (the call stands for its text), `Absent`, `Foreign` or `Link` |
| `leads`, `Resolve`, `Inside` | the directory each one is once symlinks are followed, what `canonicalize` makes of a path, and `starts_with(out_root)` |
| `outside` | the directories that exist outside the root, `Away`, below a place a symlink may lead to |
| `manifest` | whether `.pbtrim-manifest` parses, and the paths it names (no file is an empty list, as in `read_manifest`) |
| `lock` | `.pbtrim-lock`, with the call that created it; the code looks only at its existence |
| `files`, `todo`, `old`, `tmp`, `result` | argument, loop state, `old_owned`, temporary file and return value of a call |
| `Acquire`, `AcquireFails` | `DirLock::acquire`; any other failure up to there, `create_dir_all` included, is the second |
| `Preflight` | the two validations; `Fail` is taken where they fail |
| `WriteTemp`, `Rename`, `EndWrites` | the write loop, with `write_atomic` in its two visible steps |
| `MakeOutside` | its path that is refused: `create_dir_all` comes before the check, and `Fail` is all that follows |
| `SkipMissing`, `RemoveOne`, `EndRemovals` | the removal loop |
| `ManifestToTemp`, `Publish` | the manifest, written last |
| `Fail` | any check or I/O call that returns `Err`; `TempGuard` then removes the temporary file or fails to |
| `Unlock` | `DirLock::drop`, which ignores a failed removal |
| `Crash` | the process dies; guards do not run |
| `RemoveStaleLock`, `EditEntry`, `SwapDirectory`, `DamageManifest` | the owner of the directory |

An entry is a name in a directory, and `EntryOf` maps import paths to entries: on a file system
that folds case, two paths may have one entry. The owner may replace a directory
by a symlink (`SwapDirectory`), to another directory below the root, which both checks of `sync` let
pass, or to `Away`, and back; two paths may then lead to one entry on any file system.
The owner acts only while no call holds the lock: the module documentation of
`fs.rs` rules out a racing file system and asks for locks to be removed "if no run
is active", and these are the two assumptions the mutual exclusion rests on.

`OwnedDir` says what this is for in six actions: one writer at a time, who puts
files where their names lead, takes away only what a name on record leads to, and replaces the
record only by the names of its own files, when nothing is left where the outdated names lead. Names that
lead to one entry are not ruled out, so what it promises of them is part of it: the file a writer put
there may be gone with the outdated name. `Sync` implements it (`ImplementsOwnedDir`): the
writer is the call that holds the lock, the names are import paths, the record is the manifest.

### Select: `select::select`

Symbols are the numbers `1..N` in the order `sema` creates them; the schema
(`Kind`, `Parent`, `Refs`, `Number`, `Builtin`) is constant, the rule set is chosen in
`Init`. A rule is its polarity and the set of symbols it hits: glob matching belongs to
`rules.rs`.

| Model | Code |
|---|---|
| `EvaluateRules`, `Hits`, `Direct` | `evaluate_rules`: dead rules are errors, keeps do not address builtins |
| `Decide`, `Later` | one iteration of the decision pass |
| `Seed` | one iteration of the seeding loop |
| `Process`, `Traverse`, `Contents` | `Closure::process`, one `keep` at a time |
| `Keep` | `Closure::keep` up to its loop over ancestors: early returns, cascade, conflict, contradiction, marking, queueing |
| `Climb`, `Covered` | one iteration of that loop, which the code runs between marking and queueing; nothing else runs in between |
| `CheckEnums`, `Legal` | `check_enum_legality` |
| `introduced`, `blame` | the arrays that answer "why", and the start of the chain `conflict_error` walks |

`Clean`, `Offender` and `Cascades` are the loop over the references in `keep`: the first
excluded one decides between cascade and conflict.

### Bridge: which files and imports survive

A file without kept definitions survives a prune if it is a *bridge*: by
`import public` it carries a definition to a file that refers to it. The input - import
lines, references of kept symbols, files with kept definitions - is chosen in `Init`:
any graph of `Graphs` and any references of `RefSets` that sema resolves.

| Model | Code |
|---|---|
| `ReachPub`, `provides`, `Visible` | `reach_pub`, the provide sets of `check_imports`, the visibility test of `resolve_one` |
| `Needed` | `needed_providers` |
| `PushDemand`, `Grows` | the closure `push_demand` of `required_files` |
| `Seed`, `EndSeed` | the loop over import lines of files with kept definitions |
| `Pop`, `Propagate` | the propagation: the top of the stack, its cloned demand, one line at a time |
| `Materialize`, `Survives` | `import_survives` for each line of each surviving file |

Lines are a set: the order in which a loop visits them is left open, so what is shown
holds for any order. Well-known paths are nodes that are no input file.

### Attach: the item protocol of `parse.rs`

Comments are no tokens: the lexer puts them in a stream of their own, and the parser hands
them out, from a cursor, to the items and blocks it parses. `Attach` keeps all of that
and reduces the tokens: an item has a first token, the braces of its blocks, and a last
token if it does not end with its brace. Which tokens stand between is grammar.
A text is a sequence of such lexemes with the lines they begin and end on; an item may hold
any number of blocks one after the other, as an aggregate value or a list of them does.

| Model | Code |
|---|---|
| `toks`, `ti`, `comments`, `ci`, `last` | the two streams with their cursors; `last_span`, `last_line` |
| `open` | the recursion of `block_items` and the item parsers |
| `meta`, `block` | `Meta` of each item; `Block` of each pair of braces, by its opening one, and of the file |
| `Skip`, `BeginItem`, `EndBlock`, `Unclosed` | an iteration of `block_items_inner` |
| `EnterBlock`, `EndBlock` on `depth` | `block_items` and `MAX_NESTING` |
| `Leading`, `Trailing`, `Pending` | `begin_item`, `finish_trailing`, `take_pending` |
| `EndItem` | the last token an item parser consumes, before `meta()` reads `last_span` |
| `WithoutSeparator` | the optional separator of `text_field` |

At its end stand the operators that read the tree a parse has made (`Items`, `Block`, `Kind`),
which `Printer` and `Edits` share. Left out: the blank-line flag of an item, which only the printer
reads. `Attach` is checked where it is used, as the parse of `Printer` and `Edits`.

### Edits: deletions and insertions

`Edits` extends `Attach` and takes one surviving file from its parse through the visitors
to the pruned text. `phase` is where it is: `"parse"`, `"visit"`, `"apply"` or `"done"`.

| Model | Code |
|---|---|
| `ParseFile` | `FileSet::parse`, by the steps of `Attach` |
| `BeginVisit`, `Selectable` | any selection `select` may return: parents kept, enums with their zero value first |
| `Grammatical`, `ReadIn` | which items the functions of the parser for a body read; other texts are not visited |
| `scopes`, `reserved` | the recursion of the visitors, each with its `base` and the index `i` of its loop; the scratch stack they share |
| `Drop`, `EnterScope`, `Pass`, `LeaveScope` | `visit_message`, `visit_service` and the loop of `prune` over a file's items |
| `VisitOneof`, `VisitEnum` | the functions of that name; an enum pushes to and pops from the stack within its step |
| `Deletion`, `Insertion` | `delete_meta`, `insert_reserved` |
| `Squeezed`, `Alive`, `StillAliased` | the numbers of dropped values that `visit_enum` leaves on the stack; `kept_values_alias` |
| `Pushed` | the slice `reserved[base..]`, which is all of the stack a scope may read |
| `ApplyDel`, `ApplyIns`, `CopyRest` | `apply_edits`, one edit at a time in the order of its sort, then the rest of the text |

Spans are counted in lexemes instead of bytes: no edit begins or ends inside one. `Layout`
holds the operators with which `MCEdits` and `MCPrinter` build their texts.

### Printer: `format::format`, twice

`Printer` extends `Attach`: it parses a text by the steps of `Attach`, prints what they
attached, and does both again with its own output. A page is the lexemes printed so far with the lines they are
on, the line that comes next, and `LineState`.

| Model | Code |
|---|---|
| `page.line`, `Nl`, `BlankLine` | `LineState`, `nl`, `blank` |
| `WriteAt`, `WriteAll` | `push`, `comment_line`, and the loops over a run of comments |
| `AppendTrailing` | `append_trailing`, which reopens the closed line |
| `Intro`, `WantBlank`, `Forced`, `LeadingLines`, `Rest`, `Dangling` | the parts of `write_items`, `top_force` |
| `frames` | its recursion |
| `WriteItem` | an item on one line: `write_top_item`, `write_field` and so on, with the inline renderers |
| `OpenBlock`, `CloseBlock` | `write_braced_block`, `write_text_msg_block`, `write_field_options` where it goes multi-line |
| `ManyLines`, `HasComments` | the choice between the two; `TextMsg::has_comments`, which the parser computes |
| `Again` | what `tests/roundtrip.rs` does |

Left out: wording and indentation, and values nested in lists and aggregate fields.

### Rules: `rules.rs`

A rules file is a sequence of lines already cut into marker, pattern and kind; `scopes` is the
stack of `parse_rules`. `Blank`, `Close`, `Open`, `AddRule` and `Reject` are the branches of its
loop, `Finish` is what comes after. `Glob` is `glob` as a function of the places
reached in pattern and path.

### Resolve: symbols and references of `sema.rs`

A namespace node is named by its path, so that `tree` is `ns_nodes` and `ns_index` in one.
The declarations of the input stand in the order of the walk; each round analyzes the
ones still `kept`, in the files still `present`.

| Model | Code |
|---|---|
| `Seeded`, `BuiltinKind`, `Intern` | `add_wkt_builtins`, with the well-known types that are enums and which no rpc may take, and `ns_intern` |
| `OpenFile`, `AddSymbol` | `collect_symbols` and the `walk_*` functions with `add_symbol` |
| `EndCollect`, `Least`, `EndResolve` | the loop of `resolve_refs` over `pending` |
| `Absolute`, `Anchor`, `Take`, `Outward` | the branches of `resolve_path`; `base` is its loop variable |
| `Lead` | `descend_syms` and the kind check of `resolve_one` |
| `Prune` | `prune` on any selection that keeps parents and targets, with or without emptied files |

The visibility check that follows in `resolve_one` is in `Bridge`.

### Shell, Fmt, Prune, Pbtrim: the command

`Shell` holds what runs of `pbtrim` share: the files, their owner who saves new versions
(`Save`), arguments, exit codes, and standard output, which its reader may close and which may
fail for another reason, such as a full disk. `Fmt` and `Prune` are the subcommands, `Pbtrim` any number of runs of them at the same time.

| Model | Code |
|---|---|
| `disk`, `saved` | each file's text, reduced to which save it is and how it is laid out |
| `stale` | history: the files another version of which came since a run read them |
| `Exit`, `BrokenPipe`, `OutputFails`, `CannotSay`, `ClosePipe` | `main`: a code, a closed pipe (0), any other error of standard output (2) |
| `Begin`, `Read`, `ReadFails`, `Emit`, `Unchanged`, `Report`, `Replace`, `ReplaceFails`, `Finish` | `fmt`: the branches of its loop body and what comes before and after it |
| `failed`, `would_change` | its flags |
| `StartPrune`, `PruneMisused`, `Overlaps` | `parse_pipeline_args`, `check_out_root_disjoint` |
| `LoadRules`, `List`, `ReadNext`, `LoadFails` | `load_inputs` and `discover`: the rules, then a walk over the whole tree, then one file after the other in the order of their paths |
| `Inputs`, `Builds`, `Analyzes`, `Kept`, `Run` | `FileSet::parse`, `Pipeline::new`, `select`, `prune` |
| `Lock` ... `Release`, `WriteFails` | `fs::sync`, by the steps of `OwnedDir` |
| `Tell` | the report |

`write_atomic` is one step here and `sync` the steps of `OwnedDir`; their own steps are in
`Sync`, which implements it. Whether texts go together is a constant function of their
versions (`Api`); which files a version of the rules keeps is `Keeps`. A directory is named by
a path, which `Real` makes canonical.

### Swar, Lex: `lex.rs`

`Swar` has the scans that read a machine word at a time. A word is a number; what the code does
bit by bit stays within a byte and is done byte by byte, what may carry or borrow from one byte
to the next is done on the number, as in the code. `Lanes` is the number of bytes in a word.

`Lex` is `run`: `Whitespace`, `LineComment`, `BlockComment`, `SlashToken`, `StringLiteral`,
`NumberLiteral`, `DotToken`, `Identifier`, `Punctuation` and `UnexpectedCharacter` are the
branches of its loop, `EndOfText` is what comes after. A text is the sequence of its bytes in UTF-8.
Beyond ASCII, which may stand in comments and strings only, bytes differ in one thing: the end of a
line comment is cut by `str::trim_end` (`trim_end`), which knows all white space of Unicode
(`SpaceCharacters`). The second half of the module is the lexical grammar, written as sets of
words, where what is trimmed is the longest end made of such characters (`IsBlank`).

### Parse, Grammar: the grammar of `parse.rs`

`Parse` starts from tokens - those of `Lex`, or a given row of them. Each function of the
parser is an operator of its name that says, from the next token or two, what is parsed next;
the functions a function calls go on a stack (`Call`), which is the recursion of the code.
`Take` is `expect` and `bump`, `Enter` and `Leave` are `depth` in `block_items`, `Mark`
leaves the kind of what was recognized in `tree`, and `EndOfFile` is what `file` checks after
its items. `IsI32` and `IsFieldNumber` are the checks of `signed_value`, `int_value` and their callers.

`Grammar` is the reference: productions without any order of choice, and all trees they give a
row of tokens (`Derivations`), found by keeping every way to read it so far.

### Module graph

    OwnedDir <-INSTANCE- Sync <-EXTENDS- MCSync     Select <-EXTENDS- MCSelect
      ^                   ^--EXTENDS- SyncProofs      ^--EXTENDS- SelectProofs
      INSTANCE
      |                               Bridge <-EXTENDS- MCBridge
    Prune, Fmt -EXTENDS-> Shell         ^--EXTENDS- LeastProofs -EXTENDS-> Lex
    Pbtrim -EXTENDS-> Fmt, Prune
    PbtrimProofs -EXTENDS-> Pbtrim    Edits, Printer -EXTENDS-> Attach
    MCPbtrim -EXTENDS-> Pbtrim        MCEdits   -EXTENDS-> Edits, Layout
                                      MCPrinter -EXTENDS-> Printer, Layout
    MCParse -EXTENDS-> Parse          AttachProofs -EXTENDS-> Printer
    Parse -EXTENDS-> Lex              EditsProofs  -EXTENDS-> Edits, AttachProofs
      |       Lex -EXTENDS-> Swar
      INSTANCE                        Rules   <-EXTENDS- MCRules, RulesProofs
      v                               Resolve <-EXTENDS- MCResolve, ResolveProofs
    Grammar

## 3. What TLC checks

| Run | Instance | Question |
|---|---|---|
| `sync` | 2 calls, 2 valid paths (in the root, and under the same name in a subdirectory), 1 path that would escape; the subdirectory may become a symlink to the root or out of it; fair | safety of `Sync`, the refinement of `OwnedDir`, and that every call returns |
| `sync_linked` | as `sync` | violated: see *Findings* |
| `select` | 15 symbols; all rule sequences of length up to 2, and of length 3 over the symbols that reach each other; fair | selection ends, and its result against an order-free definition |
| `bridge` | 5 files, 2 well-known paths; all subsets of 10 import lines, all subsets of 3 references; fair | the fixpoint ends, and what survives is needed, resolves and is stable |
| `edits` | ten files of nested messages, a oneof, aliases, a nested enum between fields, imports and services whose rpcs have aggregate options, eight of them with up to one comment between items (two in a small file); every selection | what is deleted and reserved |
| `edits_inside` | the small file, with one comment anywhere | violated: see *Findings* |
| `printer` | 17501 texts of each kind of item, up to two comments anywhere, empty statements, line breaks varied, blocks nested up to and beyond a cap of 3, files cut off | where the parser puts comments; the printer is idempotent, loses nothing and leaves comments where they were |
| `printer_loose` | as `printer` | violated: see *Findings* |
| `rules` | all files of up to four lines of ten shapes; all patterns of up to four segments over two names, alone, and of up to two in two nested scopes; all paths of up to four names | which rules a file has, and what they match |
| `resolve` | two files, 4 x 4 packages, two schemas, each with one reference that is any path of up to three of four names; a well-known message and a well-known enum; every selection; and three files with a package called like a field | a reference means what the scoping rule says, before and after the prune |
| `pbtrim` | two runs - of `fmt`; of `fmt` and any other; of `prune` - over two sources that import one another, a third under `google/protobuf` that never parses, and the rules; one save of each; a file named twice, misused arguments, an output directory that is a symlink to the root, inside it, or apart | exit codes, what a run leaves of the sources, and where the output comes from |
| `parse` | every text of up to five bytes over the characters of numbers, of strings and of comments; every pair of 37 bytes at the edges of the classes; comments that end in one or two characters, of one to three bytes, that are white space or look like it; escapes, and short files, which go on to the parser; 16 rows of tokens for the parts of the grammar, each with every token replaced by each of 35, left out, doubled, and cut off after it | the lexer against the lexical grammar, its scans against single bytes, the parser against the grammar |

Bounds. Two calls are enough for a lock handed from a crashed owner to another call, and for
a call that starts from what a partial one left; a call runs once, which bounds the state
space. What a longer history could leave is covered twice: the owner may put anything
anywhere between calls, so every state of the directory is a start, and the proofs hold for
any number of calls. Two paths are enough for each phase to be half done, and one directory besides
the root for a link to lead inside, outside, or back to where the other path is. The select schema has one instance of each shape the code distinguishes: a nested
message that makes its parent a container, mutual recursion, a reference to a
builtin, a method with two references, an enum with a zero and a non-zero value, a
field whose reference is outside the component; rules of all polarities hit single
symbols, all of them, and all fields.

The import lines of `bridge` hold two importers, a cycle of two bridges, a line of a
bridge to itself, a line that is there both plain and public, a file that is bridge and
provider, and providers that are well-known paths; a demand can thus reach a file twice,
by different ways and after it was passed on.

Comments interact only with their neighbours and with the items on either side; two are
enough for a run to be split, for one to trail and one to lead, and for runs on both sides
of a brace. `MAX_NESTING` is 3 in `printer`, with texts at the cap, one deeper, and several
blocks in a row that would exceed it if it were not taken back. The files of `edits` hold
each kind of item the visitors distinguish, fields before, in and after a nested scope
and an enum between two fields (the orders the stack could confuse), two pairs of aliases, and zero values
twice; `MaxNesting` is 5 there, which is as deep as they go (service, rpc, and an aggregate three
deep), so that none ends in an error; the layout on one line makes every edit touch its neighbour's.

A comment's place on the page depends on the line before it and the item or brace after
it, so two comments and two items at each level are enough for `printer`, too. Four lines of
a rules file hold two scopes and what is in them; four segments hold two `**` next to each
other, apart, and at either end. In `resolve` each name is a package, a definition and a
field somewhere, so that each scope on the way out can hold the name, hold it as
something else, or not. Two runs and one save of each file let each run of `fmt` read before and after the other's
replacement, and each `prune` read every mixture of old and new inputs; the second versions
of the two sources go with each other and not with the first, and the second version of the
rules keeps another file.

`Lanes` is 2 in `parse`, as TLC's integers have 32 bits: two bytes have a neighbour for a carry
or a borrow to come from, and a text of five has whole words and a rest. `ScansAgree` is asked of
every text and every start, so words that hold a stop in either byte, or none, follow each
other. The bounds of the integers are small and kept in the order of the real ones; the rows
hold the numbers at each bound and one beyond. `MAX_NESTING` is 2, with rows at the cap, and one
deeper by a doubled brace. One change to a row is enough to reach each branch on a token, as
each function decides on the next one or two.

Properties of `Sync`:

* `MutualExclusion` - through crashes, failing unlocks and stale locks.
* `NoLostRecord` - the manifest that is replaced is the one that was validated.
* `MirrorUnlessShadowed` - `Ok` means: the manifest names exactly the files of the call, nothing is
  left where the other paths of the old one lead, and each of its files is in place below the
  root, unless one of those other paths leads to it too. `MirrorOnSuccess` is the same without
  this exception, and violated where paths meet.
* `SuccessIsRecorded` - a file that a successful call has under its own path is named by the manifest
  for as long as its text is there, during and after later calls that fail or crash. Orphans are left by
  failed or crashed calls only, as the module documentation admits, and by writes through a symlink
  that is replaced afterwards.
* `ScopedEffects` (an action property) - under the lock no file outside the root changes; an entry goes
  only where a path on record leads, and comes only where one of the call's paths leads; and
  the one thing that may appear outside is the directory of a path that is then refused (see *Remarks*).
* `TempsCleaned`, `ImplementsOwnedDir`.
* `EveryCallReturns` - liveness.

Properties of `Select`:

* `DecisionIsLastMatch` - the single forward pass computes the last match over a
  symbol and all its ancestors.
* `ClosureIsLeast` - the result against `Reach`, rounds of pulling without an order:
  marks, cascades, and whether selection fails.
* `SelectionIsSound` - references lead to full keeps and parents are kept (`NothingDangles`),
  what is excluded is a shell at most (`ExcludedStaysOut`), and a full keep has all its contents
  but those excluded or cascaded away (`ContentComplete`).
* `EveryKeepIsExplained` - chains of introducers end, at a symbol a rule keeps; so
  `conflict_error`'s walk, which has no bound, ends too.
* `Terminates` - liveness. (`MarksAreRaised`, an action property, is only proved.)

Properties of `Bridge`:

* `RefsStayVisible` - every kept reference is visible in the output, by surviving files
  and lines alone: the import survives by provide sets computed before the prune.
* `RequiredIsLeast` - what the stack computes, in any order, is the least set.
* `PruningIsStable` - a second prune with the same selection drops nothing.
* `Terminates` - liveness.

Property of `Attach`, checked in both parses of `printer`:

* `CommentsKeepTheirPlace` - each comment is attached exactly once; reading the attachments
  as the printer does gives the order of the source (`CommentsKeepOrder`); and what
  stands between the braces of an item is attached within it (`CommentsKeepScope`).

Properties of `Edits`:

* `OnlyDeletedGoes` - the output is the source without exactly the dropped items and
  their comments, in order. It holds with comments between items, and is violated with
  comments inside them.
* `ReservedOnce` - a scope that loses numbers gets one statement, as its last,
  of exactly these numbers, however scopes nest on the one stack.
* `OutputIsLegal` - `allow_alias` and aliases are there together or not at all; no oneof
  is emptied.

Properties of `Printer`:

* `Idempotent` - the second output is the first, lexeme by lexeme and line by line, for comments
  anywhere.
* `NothingIsLost` - tokens and comments of the output are those of the source, in order,
  but for empty statements.
* `StableWhereTidy` - in a text with comments between items only, the second parse attaches
  each comment to the item the first attached it to. `StableAttachment` says so of all
  texts and is violated.

Properties of `Rules`:

* `ReadsWhatIsWritten` - exactly the well-formed files are accepted, and each rule line has
  the prefixes of the scopes open around it, found by counting braces instead of stacking
  prefixes.
* `GlobIsCovering` - the search of `glob` succeeds if and only if the path can be cut into
  pieces that fit the segments.

Properties of `Resolve`:

* `ResolvesToNearest` - whatever order declarations came in, a reference leads where the
  innermost scope that decides it says, written as a set of scopes without a walk; and
  analysis fails for no other reason than a reference that means nothing, or two
  definitions of a path.
* `ApartMeansTheSame` - where no package has the path of a field, value or method, the
  pruned set analyzes and each reference leads where it led. The packages of the well-known
  types count, as the proof showed: a field `protobuf` of a message `google` shadows a package until it
  is dropped. The inputs hold a case where
  the condition fails, and the conclusion with it: see *Remarks*.

Properties of `Pbtrim`:

* `ExitCodeTells` - the code of `fmt` is that of all its files, whatever their order, and of its
  output: if that fails the code is 2, and only then are files left untried, never in place. A run
  whose output pipe is closed ends with 0 there and then, as `src/bin/pbtrim.rs:6-8` documents,
  and is not covered.
* `SuccessMeansTidy` - after `fmt` succeeded in place each file is formatted unless it was saved
  after the run read it, whatever other runs do.
* `TextsAreSaved` - runs without a lock may undo a save, but a file never holds anything but a
  text its owner saved in it, or that text formatted; so no prune ever writes over a source.
* `OutputIsAnalyzed` - whatever is in the output directory, also from a run that failed half-way,
  comes from inputs that all parsed and went together, though they were read at different times.
* `LastOneMirrors` - the directory is that of the last run that got the lock, if that one
  succeeded, or failed only to print its report: its files and no others, but for what failed runs left.
* `OutputIsCurrent` - if since then nobody saved what it had read, it is what a prune
  of the present files gives. The condition on the lock is needed: a run that read earlier may
  publish later, and its success says nothing of that.

Properties of `Lex` and `Parse`:

* `LexIsExact` - a text is accepted if and only if it can be cut into longest words of the
  lexical grammar, a number not running into a name; tokens and comments are those words,
  with the right lines and blank-line flags, comments without the white space at their end.
* `ScansSeeEveryByte` - the scans over words agree with single bytes from every start.
* `ParserIsExact` - a row of tokens is accepted if and only if the grammar derives it within the
  nesting cap, and the parser's tree is one the grammar gives it.

Fairness. `Sync` assumes weak fairness of each call's own steps: a live process is
scheduled, and no step of `sync` waits for another process (a taken lock is an error,
not a wait). Crashes and the owner are never forced. `Select` and `Bridge` are one thread;
weak fairness of the next step says that it runs. The other modules state safety only: their
loops run over finite sequences.

`CHECK_DEADLOCK FALSE` is set where the system stops by design: a selection, a parse, a
prune, a second print, the reading of rules, an analysis, a parse and the runs of `pbtrim` end. `Sync` never stops, as its owner can always act.

Each property has in `PROJECT.json` a mutation of a modelled operation that breaks it;
the mutated forms stand in the modules, marked `MUTANT`, before the operation they mutate.

## 4. What is proved

TLAPS proves the following for every value of the constants, from the assumptions named
in the modules (`PathsAssumption`, `ValuesAssumption`, `SymbolsAssumption`,
`RulesAssumption`, `GraphsAssumption`, `FilesAssumption`, `CommandsAssumption`,
`InputsAssumption`, `SourcesAssumption`, `LanesAssumption`). The theorems about `Attach` have
`TextsAreLexed` as their hypothesis, which the modules that parse assume of their texts
(`TextsAssumption`, `EditsAssumption`); those about `Printer` and `Edits` use that assumption.

`SyncProofs`: every safety property of the `sync` run, and the refinement. The inductive
invariant adds to the type invariant that the lock names whoever is between acquire
and drop (`lock = r` whenever `Holding(r)`), from which mutual exclusion follows and with it that
nobody else touches `manifest` and `disk` while a call holds the lock; then, phase by
phase, what a call has achieved so far: which of its files are in place, which
removals are done, and that what it read is still what is on disk. Nothing is assumed of how paths
map to entries, nor of where symlinks lead. A file of the call is therefore in place only unless a
path that is to be removed leads to it (`Shadowed`); that such a path is in any case gone where
it leads is what every removal keeps, its own and those after it. `EffectsAreScoped` rests on
what the check of a resolved path shows: that it is below the root (`Inside`).

`SelectProofs`: `TypeOK`, `SelectionIsSound` with each of its three parts, and
`MarksAreRaised`. The invariant is a conjunction of parts: nothing is marked before
seeding (`EarlyInv`); what a mark says about references and exclusion (`MarkInv`);
which contents of the symbol in traversal are done (`TraverseInv`); which ancestor may
still be unmarked (`ClimbInv`); that a processed symbol is queued, in traversal,
or has pulled all it refers to (`PulledInv`); and the order of phases (`DoneInv`).

Its second half proves the remaining invariants of the `select` run, which compare the result with
recursive functions over the schema. Induction on a number is replaced by the
least number at which a claim fails. `RoundsExist`, `RoundsClose` and `RoundsLeast` say of
any widening function on sets of symbols that N rounds of it from a start exist, that after
them nothing is added (a round that adds nothing is the last that matters, and each other
adds one of N symbols), and that they reach what every closed set has. So the invariants
need not count rounds: they speak of all closed sets, as in `LeastProofs`.

* `DecidedInv`: symbols that are through have the last match (`LastMatch`): parents come
  before children, so an inherited decision is final; hence `DecisionIsLastMatch`.
* `CauseInv`: each marked symbol is `Chained`, in every set that has the explicitly selected
  symbols and with an introducer whom it introduced. No step takes anyone's introducer or
  origin away (`ChainsStay`); hence `EveryKeepIsExplained`.
* `ReachedInv`: what is marked in full or deleted is `Reached`, and a failure has its symbol.
* `LevelInv`: which mark a symbol has, and that no seed is passed over. It needs that no
  keep rule hits a builtin (`KeepIsOurs`). At the end the queue is empty, so what is fully kept or
  deleted is closed (`EndIsClosed`); with `ReachedInv` it is the least such set: `ClosureIsLeast`.

`LeastProofs`, of `Bridge`: every safety property of the `bridge` run. Paths in the import graph would
need induction; instead `ReachPub` and `Carriers` are intersections of closed sets, and
each lemma names a closed set: to show that something reached has a property, the things
that have it are shown closed. The invariant says which lines still have to pass on what:
each line of a file with kept definitions is ahead or satisfied (`SeedInv`); each public
line is satisfied unless its file is queued or being processed (`OnwardInv`, `AheadInv`);
what has demand survives (`RequiredInv`); and demand never goes where no carrier is
(`LeastInv`). At the end the first two make the flow closed, hence all carriers survive,
and the last makes it least. `RefsStayVisible` and `PruningIsStable` then compare
reachability in the whole graph and in what is left of it.

`PbtrimProofs`: every property of the `pbtrim` run, for any number of runs, files, saves and
directories. A step of one run leaves what another run has alone (`Frame`), and the only step of a
run that writes to the files is `Replace` (`OnlyReplaceWrites`): a path under the output
directory that is also one under the root would make one of the two lie in the other, which
`Overlaps` refuses. The invariant has a part for each question.

* `SaveInv`: what is in a file, at a run or among its inputs stems from a save; hence
  `TextsAreSaved`.
* `FlagInv`: `failed` and `would_change` sum up the files seen so far; hence `ExitCodeTells`.
* `TidyInv`: what a run in place is through with is tidy, and what it is at is the text
  it holds, or that text formatted by somebody else. `FreshStays` says that no step of others breaks
  this without making the file stale; for a save this needs that the owner's versions go up
  (`SaveInv`); hence `SuccessMeansTidy`.
* `HeldInv`: an input that is not stale is of the version that is in its file.
* `DirInv`: the run in `sync` is the one with the lock (`LockInv`); who writes has analyzed
  (`MakerInv`); what a run left is on record unless it failed or is still at it
  (`RecordInv`, without which a commit could leave another run's file unrecorded and
  undetected); and the last one that is through has its files there (`MirrorInv`). Hence
  `OutputIsAnalyzed`, `LastOneMirrors` and, with `HeldInv`, `OutputIsCurrent`.

`ResolveProofs`: both properties of the `resolve` run, for any input and any selection. That
the recursive definition of `fq`, the full path of a declaration, has a solution is shown
first (`FqExists`): a least declaration without one would have a parent, or no parent. The
lemmas on prefixes that follow make the walk of `resolve_path` outwards the same thing as
the set of scopes around a reference.

* `Collected`: declarations of the files before the current one are in the tree, each under
  its full path and with its kind, and no two of them, or a well-known type, under one;
  hence `TreeIs`: a finished tree says what the definitions say, in whatever order they came.
* `Resolved`: a reference that is through leads to its meaning, and for the one in work the
  scopes further in than `base` decide nothing (`Reaches`).
* `Failing`: an error has its reason.
* `PrunedFromSound`: the second round stands on the result of the first. `SameMeaning` then
  compares the two worlds: the way to what a reference means is kept (`WayKept`, as each
  prefix of a kept path is part of a package or a kept declaration), and nothing decides
  now that did not before (`DecidedBefore`, the only place that needs `PackagesApart`).

`RulesProofs`: both properties of the `rules` run, for any file and any path. The properties
count braces (`Deep`) while `parse_rules` keeps a stack of prefixes, so the invariant has to say
what the stack is: the scopes open around the line (`Around`), each at the place from the end
that is the number of braces it waits for (`ScopesAreAround`). A line that opens a scope
becomes the innermost one around the next (`StackOpen`), a brace closes the innermost and no
other (`StackClose`), and the prefix on top is the one `Scoped` gives a rule line
(`PrefixIs`). With the rules read so far being those of the lines so far (`RulesAreLines`)
and the ways the reading may end (`EndsRight`) this is inductive: `RulesAreRead`. `GlobCovers`
needs no induction over the text: the table of `glob` solves one equation per place in pattern and
path (`GlobExists`), "there is a cut from here on" solves the same equation
(`CoversNext`), and the last place where the two differ cannot exist (`GlobIsOne`).

`LeastProofs`, of `Lex`: `ScansSeeEveryByte`, for any text of bytes and words of any number of bytes. A word
is a number in base 256, and its bytes are the ones it was packed from (`BytesOfPack`, by
the remainders). The two places where arithmetic crosses bytes are shown not to: the subtraction
in `swar_eq` borrows nothing, the addition in `swar_ge7` carries nothing, since each byte's share
stays below 256 (`SwarEqIs`, `SwarGeIs`); so the flags of a word are those of its bytes
(`FlagsAre`). Then a scan's loop gives, at each position, what the scan byte by byte gives, if
it does further on (`StepIsNext`), and so from the end of the text backwards
everywhere (`FromTheEnd`). For `scan_ws` the newlines of a word are counted by a
bijection with those of the text. `ScansAreExact` is stated of every behaviour whose text
is bytes, which those of `Parse` are: `Parse` itself uses `Grammar`, whose
recursive operator the prover does not take.

`AttachProofs`: `CommentsKeepTheirPlace`, for any text - any number of comments anywhere, blocks
nested at will and several in an item. The property speaks of a parsed text and counts
braces over all of it; the invariant says the same of the part that is parsed.

* `TwoStreams`, `Cursors`: the streams list their lexemes without a gap; between the token
  consumed last and the next one there are comments only, and those handed out stand before it.
* `Alternate`, `Matched`: items and blocks are open by turns; the depth is the number of
  braces open, and a block that is left was closed by the brace that counting finds
  (`IsClosing`). Without this, nothing connects the block whose comments dangle with the
  place where the printer writes them.
* `Untouched`, `Resting`: nothing is attached yet to what is still open or to come, and between
  items only empty statements follow the end of the item before (`Edge`). This is what
  lets an attachment be an assignment: `AssertionsHold`, the two `debug_assert`s of
  `block_items_inner`, is read off it.
* `Placed`: each comment handed out has one place, in order, no further than the last edge
  (`Reach`), and on its own side of every brace and head passed. What is pending is a run
  of the comment stream (`PendingIs`), and each of `begin_item`, `finish_trailing` and
  `take_pending` cuts a run from its front (`LeadingIs`, `TrailingIs`, by `RunIs`), so
  new places come after the old ones (`Placing`).

A text given up at an error is left out of all but `TwoStreams`.

The second half of `AttachProofs` is about `Printer`, which parses twice. `CommentsStayTwice` is the
same property of both parses, the one the run checks. The invariant is carried into the
second parse because what is printed is a text again (`TextsStayTexts`), and for that
`FormatInvariant` says of every step of the printer that a page holds lexemes in the order of
their lines (`Pages`), that after an item or a comment line nothing stands on the line
that comes next (`ClosedPages`, which is what lets `append_trailing` reopen the line before), and
that what is written are scopes with a block, from the file inwards. It rests on `Tied`,
an invariant of the parse: only comments are attached, and the items of a block have
ended inside the text. A run of comments is written by a recursive function; that it keeps
what each lexeme keeps is `WriteAllKeeps`, by `RecursionIs` and `NoneFrom` (recursion and
induction up to a number).

Its last part is what `EditsProofs` needs of a parsed text: how items lie. `Grown` says which of
their spans are known during the parse and that they nest (`Nested`): an item of a block lies
between its braces, after the item before it. `EndsWithTokens` says that a span ends with a token,
`Closed` that the block of an item is closed before the item ends.

`EditsProofs`: all properties of the `edits` run, for any text, any comments and any selection.
The parse gives the ground (`Ground`); the rest goes from the end backwards.

* What is to be shown of the output is read off the edits: each edit deletes something that goes, or
  inserts what a scope has lost, one insertion to a scope (`Written`), and all that goes and all
  that is lost has its edits (`AllHandled`).
* `Prunes` says what `apply_edits` has made of the text before `pos`, for any set of edits applied:
  a lexeme is in the output if and only if none of these edits covers it, and a statement in the output
  stands for an insertion. Deletions may overlap and touch; only that insertions come after what is
  deleted before them is asked.
* `Visit` connects the scopes with the text. The frontier is the place the innermost loop has
  come to. What lies before it has its edits, and every scope that ended before it its statement
  (`Seen`); no statement stands further on (`Unseen`). Scopes are items of each other
  (`Stacked`), and between the base of a scope and that of the next the stack holds exactly the
  numbers the scope has lost before the frontier (`Tallied`): this is what makes it sound that
  nested scopes share one stack.

`NothingDroppedStays` - no lexeme of what is dropped is in the output, and what is in it is in order -
holds without any condition. The other direction needs `LedClosely`: nothing but comments stands
between an item and the comments that lead it. Where it fails for an item that is dropped,
the deletion takes foreign tokens along, which is finding 2.
`ReservedOnce` and `OutputIsLegal` also need `Legal`, that the file was legal to begin with: fields of a
message have different numbers (`insert_reserved` does not remove duplicates, only
`visit_enum` does), and an enum allows aliases if and only if it has some. All texts of the `edits`
run meet both conditions, those of `edits_inside` violate the first.

Only model-checked: the liveness properties, which are out of the prover's reach; `ParserIsExact`,
which compares with a recursive operator; `LexIsExact`, which compares sets of words; and
`Idempotent`, `NothingIsLost` and `StableWhereTidy` of `Printer`, which compare whole texts: what
the printer writes and what a second parse makes of it, lexeme by lexeme.

## 5. Findings

1. `sync_linked`. The removal loop compares import paths as strings (`src/fs.rs:266`), but removes
   files, and two paths may lead to one. The checks of where a destination or a removal target
   resolves (`src/fs.rs:251`, `src/fs.rs:285`) only ask that it is below the output directory, so a
   symlink from one directory in it to another is followed. With a link `x` to `y`, `x/a.proto` in
   the old manifest and `y/a.proto` among the new files, the removal of the first deletes the
   second, and the call returns `Ok` with a manifest that names it. `src/fs.rs:15-17` says that sync
   never writes through or removes a symlink. On a file system that folds case the same
   happens without a link, to a file renamed from `A.proto` to `a.proto`.
2. `edits_inside`. A comment leads an item if it ends on that item's line or the line above
   (`src/parse.rs:229`), even when tokens of something else stand between: the brace of the
   enclosing block, or the rest of the item before. `delete_meta` deletes from the first
   leading comment on (`src/prune.rs:328`), those tokens included. Dropping `a` from
   `message A /* c */ { int32 a = 1; int32 b = 2; }` deletes the brace, and the output
   does not parse.
3. `printer_loose`. Whether a comment leads the next item or is detached from it is decided by
   line numbers (`src/parse.rs:229`), but the printer drops empty statements and joins
   the tokens of an item. In

       int32 a = 1;
       // c
       ;
       int32 b = 2;

   the comment is detached below `a`; it is printed directly above `b`, and leads `b` when the
   output is parsed. Dropping `b` deletes the comment from the formatted text, not from the
   original. `src/format.rs:7-8` promises that a second parse attaches comments identically;
   the test it refers to compares texts, which does not show this.

Remarks, from the same models, without runs of their own:

* `create_dir_all` (`src/fs.rs:244`) runs before the check that the directory is below the root
  (`src/fs.rs:251`). With a symlink `link` out of the output directory, the path
  `link/sub/x.proto` is refused, after `sub` was created outside; `src/fs.rs:212-215` says
  "refused rather than acted on". This is `MakeOutside`, and the exception in `ScopedEffects`.
* A line comment is cut by `str::trim_end` (`src/lex.rs:575`), which trims white space of all Unicode;
  between tokens the lexer skips that of ASCII only. A no-break space at the end of a comment is
  thus in no span, as `Located` in `LexIsExact` says. When the comment's item is deleted, by spans
  (`src/prune.rs:325-334`), these bytes are left where they are, the pruned text does not lex, and
  `PruneOutput::format` panics on what `src/prune.rs:141-143` calls an internal invariant.
* `introduced_by` is documented as the symbol whose traversal pulled this one into the keep
  set (`src/select.rs:80-81`). `keep` stores the first introducer only (`src/select.rs:398`):
  a message that was a container for a kept nested type and becomes required by a
  reference later still reports the nested type. `EveryKeepIsExplained` therefore claims
  that the chains end, and no more.
* Map types nest without a cap: the value of a map is parsed as any type, a map included, and
  refused only afterwards (`src/parse.rs:832-835`), so the depth of these calls is not counted by
  `MAX_NESTING`, which `src/parse.rs:91-94` describes as the bound on the recursion of the
  parser. Texts are accepted and refused alike, so no property tells.
* The name between brackets in a text-format aggregate is what its tokens join to
  (`src/parse.rs:1156-1163`): `[a b]` is read as `[ab]`, and `[.]` is a name.
* `analyze` accepts a package whose path is that of a field, value or method (protoc does
  not). Such a field is passed over by compound references, a package is not
  (`src/sema.rs:989`): with the field dropped, a reference that resolved further out
  anchors on the package, and the pruned set does not analyze. Hence the condition of
  `ApartMeansTheSame`.

## 6. Not modelled

* `cst.rs`, `span.rs`, `error.rs`: data types, accessors, and the wording and layout of messages.
  They keep no state and decide nothing; the trees of `Attach` and the marks of `Parse` stand for
  what the types hold.
* `digest.rs`: a serialisation of one tree that only the tests use; a model would restate its list
  of fields.
* `wkt.rs`: a constant table but for its test of a path, which is `Provided` in `Prune`.
* `action.yml`: a shell wrapper around `pbtrim`.
* Of modelled parts: wording and indentation of `format.rs`, and values nested in lists and
  aggregate fields; the character rules of `valid_import_path`, and import paths that are prefixes
  of each other (a path that was a file and becomes a directory makes `create_dir_all` fail,
  which the model has as a failing write); the split of a rule's line into words; `--help` and
  `--version`.

Left for later: the composition of `Select`, `Bridge` and `Edits` (that what `Selectable` and the
`Init` of `Bridge` assume is what `Select` ends with), and values nested in aggregate fields in
`Printer`. Theorems still to be stated: `NothingIsLost`, which needs of the parse that it gives each
lexeme to one item, as `Grown` says of the spans, and of the printer that it visits the items in their
order; then `Idempotent` and `StableWhereTidy`, which compare two parses.
