# A TLA+ model of nybit

nybit is a small compiler back end in C: a textual IR (NyIR), a validator, an
optimizer, code generators for x86-64 and AArch64, object writers, a static
linker (`nybit link`, the library nylink) and a JIT (nyjit).  Every part is
sequential.  What makes it hard is not threads but order: inputs in any
order on a command line, passes that edit arrays the next pass relies on,
registers handed from value to value, tables laid out in one phase and filled in
another, failures half-way through a call, a host that answers as it likes, and
processes that are killed, or meet another one, between two system calls.

This directory models the linker from symbol resolution to the headers of the
image, the driver's output handling alone and against a second process, the whole
optimizer pipeline with its analyses, the compilation of a function down to
selected instructions on three calling conventions, and the JIT linker with the
abstract library it implements.  TLC checks them; TLAPS proves the central
properties of resolution, symbol addresses, layout, the driver's output, the race of
two drivers, register allocation and the JIT, and that the JIT implements the abstract library.
`PROJECT.json` lists components, runs, mutants, the map from definitions to source
lines, hazards, findings and theorems.

## Inventory

| Part | State | Operations | Talks to | What is hard |
|---|---|---|---|---|
| nylink context (`nylink_context.c`) | objects, symbols, archives, diagnostics, resolved symbols | add object/archive, resolve, find symbol | readers, archives, layout | the result must not depend on input order where it should not |
| nylink archives (`nylink_archive.c`) | member index, `is_extracted`, import names | read archive, extract needed members | context | a fixpoint with early breaks; failure in the middle of a pass |
| nylink layout (`nylink_layout.c`) | section addresses, symbol addresses, GOT/PLT/PE tables | layout | context, relocation, emitters | a second symbol search; tables filled before sections are final |
| nylink relocation (`nylink_reloc.c`) | patched bytes, dynamic relocations | apply relocations | layout | planned against applied counts; ranges |
| nylink emitters | none | write image, write import library | file system | results of writes are not used |
| driver (`main.c`) | temporary file, output file, exit code | the phases in order, swap | everything | kills and failing calls between steps |
| IR core (`ir/`) | blocks, instructions, edge arrays, uses | build, remove, merge, split, replace uses | parser, passes | two representations of control flow, plus phis, kept in step by hand |
| validator (`ir/validate.c`) | diagnostics | validate | driver, pipeline | what it does not check |
| CFG passes (`opt/canonicalize.c`, `opt/cfg_simplify.c`) | round, `changed` | loops over all blocks, repeated | IR core | each loop edits what the next one assumes |
| other passes (`opt/`) | lattice, worklists, value numbers | SCCP, GVN, DCE, copy propagation, folding | analyses | arithmetic at bit width, stale analyses |
| analyses (`analysis/`) | cached results and validity flags | get, invalidate | passes | a cache valid after an edit |
| JIT (`nyjit/jit.c`) | mapped pages, allocations, exports | create, link, lookup, destroy | encoders, host | release on failure, trampolines reserved by another loop |
| machine IR, register allocation, frames (`machine/`, `target/`) | machine functions, intervals, slots | lower, allocate, select, lay out | encoders | interference, spills around calls, parallel copies, flags |
| encoders, object writers, serialisation | byte buffers | encode, write | linker, JIT | formats (not model-checkable) |
| nygen (`nygen/nygen.c`) | one machine function at a time | parse, validate, optimise, lower, allocate, select, write | all of the compiler | what a type or an operation without a case does to the rest |
| parser, lexer, arena | text, blocks of memory | parse, allocate | IR core | – |

Properties that make the parts correct: resolution binds each name to the best
definition, reports duplicates exactly, loads a member once and all that are
needed, and ends; layout agrees with resolution; every relocated place of the
loaded image leads to what its symbol means; the driver's exit code is honest and
the earlier output survives; the passes keep edges, SSA form and meaning, and the
analyses they share are those of the function as it is; the compiled function does
what the IR function does and keeps its caller's state; the JIT loses no page and
exports only finished code, in one step.

## Modules

### Linker

**NylinkResolve** – the driver's input loop, `nylink_add_object`,
`nylink_read_archive`, `nylink_extract_needed_archive_members` and
`nylink_resolve_symbols`.  The loops are unrolled: a step reads one member, adds
one index entry, looks for one symbol of an extraction pass, or binds one symbol.
`symbols` is `ctx->symbols`, a symbol's id is its position; `refs` is the hash
table of the binding loop; `extracted` is the `is_extracted` flags.  A name is a
model string, an object the list of symbols its reader adds (`special` is an
index the archive indexer takes for a definition and the reader does not), an
archive a list of members.  The early breaks of a pass are `Searched`: after the
first extraction of a pass every later symbol sees only the first index entry.

**NylinkAddresses** extends it with the two loops of layout that assign symbol
addresses and with `nylink_find_symbol`, the second, separately written search: a
step looks at one symbol and `found` keeps the candidate of its name (`TakesCandidate`
is the loop's tests).  An address is the id of the defining symbol.  The second search
also sees local symbols, which the binding loop passes over, and layout also gives local
symbols the address it finds for their name.  `AddressOfWinner` says exactly what comes
of it for every symbol: the address of the definition resolution chose, unless a local
definition stands first under the name and that choice is weak, from a shared library
or undefined (`Shadows`); then everybody has the local symbol's address.
`WeakUndefinedIsZero` is what the code promises of the last of these cases.

**NylinkLayout** – all phases of `nylink_layout_internal` for ELF and PE: placing of
sections and start code, the plan of what each relocation will need (PLT entry, GOT
slot, dynamic relocation, import thunk), PE exports, import and lookup tables,
dynamic symbols with their hash table, room of the dynamic section, final
addresses, `.refptr` redirection and the entry point.  One action per phase; a phase
that loops takes one step per turn: per input section, planned relocation, thunk, name
of `.dynsym`, entry of `.hash`, and piece of the image.  Addresses, sizes and offsets
are real numbers of bytes; a name is a pair of prefix and base so that `__imp_` and
`.refptr.` names can be formed; `Length` and `Hash` stand for `strlen` and
`elf_sysv_hash`.  What two loops compute is given by its result: `nylink_find_symbol`
is the first symbol of the best kind (NylinkAddresses takes its loop step by step), and
the import address table is the slots the loops over DLLs and imports hand out in that
order (`FirstSlot`, `SlotOf`), of which the last write to a symbol counts (`ImportVa`).
A symbol may be in no loaded section (`InSection`).

**NylinkImage** extends it with `nylink_apply_relocations_internal` (all relocation
kinds, their refusals and range checks, dynamic relocations, PLT and GOT contents; a
step per import and per relocation) and with the segments and sections the two emitters write.  The properties load the
image at every bias its headers allow (`Biases`), apply its dynamic relocations,
and follow what was written at each place (`Reached`) to compare it with what the
symbol means (`Intended`).

**LinkOutput** – the end of `do_cli_link`: phases that may fail, the image
written to a temporary name in `Chunks` writes whose results are ignored, remove,
rename, and the import library of a DLL, with a file system that loses writes, keeps
the file that is to be removed or refuses the rename, and a process that is killed at
any point.  A kill is that of a process: what it has written stays.  A loss of power is
not modelled; nothing is synced, so that after one no property would hold.

**LinkRace** – two such processes with one output file.  The temporary name is made
with `rand()` and nothing calls `srand()`, so both use the same name.  Names lead to
files, streams stay on the file they were opened on, a file remembers who wrote each
position last.  Opening the temporary file and removing the output may fail.

### Optimizer

**NyFunction** – a function's blocks, instructions and edge arrays, and the
operations of `function.c`, `block.c` and the builder as operators from functions
to functions: edge arrays in array order with swap-removal, merge, removal,
replacement of uses, phi pairs, building and the structural part of the
validator.

**CfgRewrites** – the body of every loop of `ny_canonicalize_cfg` and
`ny_opt_pass_cfg_simplify`, as operators; CfgPasses and OptPipeline share them.

**CfgPasses** – all loops of `ny_canonicalize_cfg` and
`ny_opt_pass_cfg_simplify` on one function, one action per loop, one step per
loop turn (the block at the cursor), in the order of `ny_opt_run_pipeline`, for at
most four rounds (`MaxIters`, the code's own limit).  `Run` interprets a function
(effects, returns, phis by predecessor) and is what behaviour means.

**Analyses** – reachability and block order (`ny_cfg_info_init`), dominator trees
and frontiers, liveness, use lists, as operators that follow the code's loops.

**ConstFold** – folding, masking and sign extension, identities.  `Word` (8 bits)
stands for the 64 bits of `int64_t`, with widths 2, 4 and 8 for i8, i32 and i64: a
narrow type, one between and the full word, the three cases the code tells apart.

**OptPasses** – canonicalization of instructions, folding, copy propagation, DCE,
value numbering and SCCP.  **OptPipeline** – `ny_opt_run_pipeline` at -O1 and -O2:
the passes in order, the rounds, the manager's caches and who invalidates them; SCCP
takes one work item per step.

### Code generators

**MachineLower** – `machine/lower.c` and the editing of machine functions.
**RegAlloc** – liveness, intervals, linear scan with eviction and spilling; the two
targets' allocators are one algorithm with other tables, which is how they are
written.  The sorted array is the set `waiting`, whose least element by
`compare_interval_start` comes next; the active list, ordered by end, is the set
`active`, and the victim, the last of the list that may be evicted, its greatest element
by `EndsBefore`; `SpillSlot` names the slot of a spilled value.  An instruction is named by block and place (`Positions`), its number is
`Index`.  **X86Isel**, **A64Isel** – frame, instruction selection, calls, parameters,
prologue and epilogue.  **Backend** composes them in the order of `run_backend`.
**MachineExec** – two interpreters on symbolic values, one for IR functions by
`docs/nyir.md`, one for the selected instructions by what a processor does: a call
clobbers what the convention lets it, arithmetic sets flags, the stack is addressed
by bytes.  They define what the properties mean and are not code of the repository.

### JIT

**NyJit** – `nyjit_create`, `nyjit_link`, `nyjit_destroy`: mapping, one
relocation per step with the cases of every relocation kind, trampolines,
protection, recording and exporting.  Of an address only the mapping and section
or the host name is kept, of a distance whether the instruction can span it (`wide`
for displacements, `huge` for the 4 GiB of ADRP).

**JitLibrary** – what the JIT promises its host: a library to which a module is added
in one step, with all its exports and every relocation bound for good, or not at all.
`NyJit!LinksAreAtomic` says that NyJit implements it.

**NylinkResolveProofs**, **NylinkAddressesProofs**, **NylinkImageProofs**,
**NylinkLoadProofs**, **LinkOutputProofs**, **LinkRaceProofs**, **RegAllocProofs**,
**NyJitProofs** – the theorems.
**MC*** – instances.

## Runs

| Run | Distinct states | Shows |
|---|---|---|
| resolve | 154 000 | command lines of up to four inputs out of eight objects, ELF and COFF, and five archives: `ExtractedOnce`, `ExtractionComplete`, `WinnerIsBest`, `DuplicatesExact`, `ResolvedIsDefined`, and that a link that starts extracting ends (`Terminates`) |
| addresses | 349 000 | the same with truncated, unreadable and foreign objects, corrupt archives, faulty members, imports and local symbols with and without a place, up to layout's symbol addresses: `DiagnosedFailure`, `AddressOfWinner` |
| image | 397 000 | executables, PIEs, shared objects, PE executables and DLLs with one relocation of any type against any symbol: `BoundCorrectly`, `PlannedExactly`, `DynamicFits`, `NothingOverlaps`, `LookupFinds`, `PiecesMapped`, `EntryReached`, `ExportsReached`; entry points in any section, in none and in a DLL |
| link_output | 854 | `ExitIsHonest`, `NeverTorn`, `UntouchedUntilWritten` under lost writes, failing removals and renames, and kills |
| link_race | 431 | every interleaving of two links of one output: `BothHonest` |
| cfg_passes | 189 000 | all three-block functions, and nested ifs that the limit of four rounds stops half-way: `EdgesCoverBranches`, `BehaviourKept`, `NothingDeadLeft` |
| optimizer | 117 000 | arithmetic at every width and functions with branches, loops and phis through the pipeline: `MeaningKept`, `SsaKept`, `DominatorsCurrent`, `FrontiersExact`, `OrderCoversEdges`, `LivenessExact`, `SccpDescends` |
| backend | 106 000 | every choice of operands of short functions, with shifts, comparisons, conversions and floating point among them, on three conventions: `Separate`, `CallsSafe`, `FrameDisjoint`, `SameResult`, `CallerStateKept` |
| jit | 519 000 | two links of all small modules: `NoLeak`, `TrampolinesSuffice`, `ExportsUsable`, and the refinement `LinksAreAtomic` |
| link_swap, backend_branches, opt_stale_uses | | expected violations, see below |

Bounds.  Four inputs allow a reference, two definitions and an archive in any
order, which covers every pair of cases of the binding loop with a third symbol
between them; three-element archives include a chain that takes two passes, a
cycle behind a linker member, a dangling entry, two members for one name and a
corrupt header.
Three writes per image have a first, a middle and a last one.  Three blocks hold
an if, a loop, an unreachable block, code after a terminator and a shared
successor; the functions of *optimizer* have up to four.  Both control-flow passes
and the pipeline stop after four rounds, the code's own limit.  The interpreters stop
after two (`CfgPasses!RunSteps`) or three (`OptPipeline!RunSteps`) times as many blocks
as the function has, in the back end after four (`MaxBlocks`): a loop is entered,
repeated and left.  The register
files have two argument registers, three or four caller-saved and one to three
callee-saved ones, so that four values already evict and spill.  In *image*, `Disp32`,
`Imm26` and `Imm21` are scaled down so that numbers stay in TLC's range and a base
address can be out of reach, and `PeBase`, the default bases of PE images, which are
0x140000000 and 0x180000000 in the code, is as well; sections of 0 bytes, of one page and just beyond, names
in one hash bucket, and empty pieces occur.  Two JIT links let the second fail after
the first succeeded and the reverse; three relocations need more trampolines than
there are names.

The functions of *cfg_passes* with a phi are those in which every block leading
to the phi is reachable and does more than branch; the other shapes are those of
the departures below.  Pairs of these phis hold values: `canonicalize.c:288` takes an
immediate after the first operand for equal to it, and reads an immediate in its place as
the number of a value, so that a phi with immediates, which the parser accepts
(parser.c:473), loses its meaning (`AllSame`, `ValOf`).  A function of three blocks never
needs more than four rounds; ifs nested four deep do.  What the limit leaves behind is
a function that still means the same, without unreachable blocks, but with a branch to
fold (`NothingDeadLeft`).  Trailing code after a terminator is removed without
the edges it added, so predecessor arrays may be wider than the control flow:
`EdgesCoverBranches` says that they cover it, which is what the code relies on.

Fairness.  Only NylinkResolve has a liveness property.  It assumes weak fairness
of the linker's own steps (`WF_vars(Linking)`): a sequential program that has been
called keeps running.  Nothing is assumed of the driver's inputs.  The other
specifications have safety properties only and no fairness; that SCCP ends rests on
`SccpDescends`.

## What the code does against what is written

Three runs end with a counterexample; `PROJECT.json` quotes the lines.

- *link_swap*: the earlier output is removed before the rename.
- *backend_branches*: the AND that widens the result of a comparison sets the flags
  the branch then tests.
- *opt_stale_uses*: the second SCCP of -O2 works from use lists of an earlier
  function, and a value that varies is taken for a constant.

These have a configuration of their own, too, which TLC ends with a
counterexample (`tlc -config <file> <module>`):

- `NylinkStrongUndefined.cfg` (MCNylinkResolve): with a weak reference first, a
  strong undefined reference of an executable is accepted (nylink_context.c:425).
- `NylinkWeakLocal.cfg` (MCNylinkAddresses): an undefined weak reference takes the
  address of a local symbol of another object (nylink_layout.c:953), the case `Shadows`
  of `AddressOfWinner`.
- `NylinkExports.cfg` (MCNylinkImage): exports of .bss and of sections that the
  thunks shift have another address in the table (nylink_layout.c:558).
- `NylinkPie.cfg` (MCNylinkImage): a PIE without shared inputs has absolute words
  and no relocations for them (nylink_layout.c:260, nylink_emit_elf.c:595).
- `LinkRaceSwap.cfg` (MCLinkRace): two links can leave no output at all (main.c:455).
- `CfgPhiPreds.cfg` (`-continue` shows both), `CfgPhiDiamond.cfg` (MCCfgPasses): a
  phi keeps a pair for a removed predecessor; after a merge, phis name the block
  that is gone; an `if` with an empty arm that only chooses the value of a phi
  returns the same value for both outcomes.
- `BackendAlignment.cfg` (MCBackend): the frame size leaves out the return address,
  so the stack is not aligned at calls (x86_frame.c:101).

Known and left out of the properties by a named condition, which says exactly which
inputs are meant:

- Backend: `SpilledParam` (x86_regalloc.c:514), `ScratchShort` (416), `CallAtStart`
  (250), `DivisionClobbers` (x86_isel.c:268), `ParamsInTheWay` (757), `StackParams`
  (aarch64_isel.c:1219), `NoCase` (opcodes without a case), `FlagsLost`, `SaveMissed`
  (x86_frame.c:53: registers used only as an address or for a parameter); `FloatConst`
  (a floating point constant becomes an empty operand, x86_isel.c:58,
  aarch64_isel.c:56); `ShiftCount` (a shift by a register shifts by CL, where nothing
  moves the count, x86_encode.c:484); `ComparesWrong` (floats are compared as integers,
  machine/lower.c:285, and AArch64 compares i32 at the size of the i1 result,
  aarch64_isel.c:641); `Converts` (extensions and truncations are copies,
  machine/lower.c:435); `XmmUnsaved` (Win64's XMM6 and XMM7 are handed out and not
  saved, x86_regalloc.c:34).  Functions of all these kinds are among the inputs:
  `Separate`, `CallsSafe` and `FrameDisjoint` hold for them, too.  Slots whose size is not a multiple of their alignment are not
  aligned.  Calls of more than 16 operands lose the rest (machine/lower.c:343).
- Optimizer: `PhisBroken` (the departures above), `WideCompare` (a comparison of an
  immediate with an i64 is folded at 32 bits, const_fold.c:208, sccp.c:161),
  `StaleUses`.  Not among the inputs: the least integer modulo -1 (undefined in C,
  const_fold.c:49).
- Linker: `FixedPie`; `BiasedZero` (an undefined weak symbol is at the bias,
  nylink_reloc.c:296); `A64Import` (nylink_layout.c:426, nylink_reloc.c:123-131);
  `PlainData` (imported data by its plain name); `Unloaded` (a definition in a section
  that is not loaded is at address 0, nylink_elf.c:330, nylink_layout.c:940); exports for
  which `Shifted` holds, those of an empty output section among them.
- Driver: the emitters do not look at the results of `fwrite` and `fclose`, so exit
  code 0 with a full device can mean a truncated image; the properties of LinkOutput
  except lost writes explicitly.

## Proofs

All theorems hold for every value of the constants (any names, objects,
archives, sections, relocations, modules, hosts, numbers of inputs, links, processes
and writes) under the named assumptions.  Most only give the constants their types.
The others: `EncoderAssumption`, ADRP relocations name symbols of the module itself
(the parser creates every global it reads a name of); `SizeAssumption`, a module that
takes addresses with ADRP is smaller than 4 GiB (sizes are `size_t` and nothing checks
it: beyond, jit.c:306 cuts the distance, and `Apply` patches another address);
`BaseAssumption`, the default bases of PE images are numbers; `JobsAssumption`, the sections,
symbols and relocations of a link refer to each other within range and alignments are
powers of two (the readers see to the first, `align_up_checked` takes the second for
granted); `LoweringAssumption`, lowering makes blocks that end in a terminator, branches
that lead to blocks, operands that are values of the function and one slot at most for a
value (the validator has checked the IR for it, and lowering keeps it), and alignments of
stack slots are powers of two (nothing checks these; the masks of the frame layouts round
up for no others); `TablesAssumption`, the register tables of a target are arrays;
`RaceAssumption`, an image has at least
one write and there is at least one process.

*NylinkResolveProofs.*  `TypeOK` is strengthened by what is known while an archive
is read (there is a last archive and the cursor is in range).  `ExtractedOnce`:
objects that came from a member are exactly recorded in `extracted`, and `Offers`
excludes those.  `ExtractionComplete`: while a pass has made no progress, no
symbol before the cursor that is still wanted has an offer in any archive; a pass
that did make progress is repeated, so nothing is claimed of it.  `WinnerIsBest`
and `DuplicatesExact` are inductive together with the facts that `refs` points
behind the cursor and that two strong definitions read so far leave a strong
winner: the ranks of the code's replacement rule are a total preorder, and a
strong winner is never replaced.  `ResolvedIsDefined` follows from both at the
check.  `DiagnosedFailure` is inductive with the types: every step that ends in
"failed" adds a diagnostic, and none is ever taken back.

*NylinkAddressesProofs.*  `AddressOfWinner`: the two searches, written apart, agree but
for a shadowing local symbol, and then it is known what layout takes.
`FoundBest` says of layout's search that its candidate is the first of the highest
rank among the symbols looked at, where `TakesHigher` shows that the loop's tests are
a comparison of ranks for non-local symbols; a local symbol is taken only as the first
one of its name (`LocalPassed`) and then keeps its place against all but a strong
definition.  `WinnerIsBest` says the same of the table of resolution without local
symbols, so that the two have the same symbol unless one shadows it (`SameWinner`), and
the assignment gives everybody that symbol's state.

*NylinkImageProofs.*  The invariants come in parts, one per group of
fields of the context (`ImageInv` is eight of them); `Steps` says once, for each action, which fields it may change,
so that a part is only shown again for the steps that touch it.  `PlannedExactly`: the
number of dynamic relocations counted while planning is the number of GOT imports plus
that of relocations whose plan says "push", and the pushes of the later phase are
exactly these, although that phase decides anew.  `NothingOverlaps`: sections are
placed one behind the other in what is left of the address space of their output
section, and so are pieces; `AlignUp` never goes back, thunks and tables come behind
what was placed.  `DynamicFits`: the sizes the emitter counts the entries of
`.dynamic` from are those layout counted.  `LookupFinds`: a chain, followed from its
bucket, meets every name of that bucket and ends.  Stated with sets closed under the
chain (`Leads`), it needs no induction along the chain: a new entry becomes the head of
its bucket and goes on with the earlier head, so that a closed set with the new head in
it has the earlier one, and chains run downwards and end.  `ExportsReached`: export
addresses are computed before thunks and tables are appended.  Until then an output
section ends where its last input section does (`Tight` in `EndsInv`), so an address in
the export table depends on the input sections alone (`ExportAt`); the pieces are placed
later, at whole pages in a fixed order (`PeInv`), and the two agree unless something
appended in between took a further page, which is what `Shifted` says.  `EntryReached`:
`ResolvedInv` says where a symbol's address comes from: its section, a thunk, a slot of
the import address table, or nowhere, which is 0.  `FindEntry` takes an address inside
.text only.  Slots are in .rdata behind it (`ThunkInv`), and pieces start after the
first page, so that neither a slot nor 0 passes for code, and what remains is the
definition or the thunk.  The start code is left room before the first section.

*NylinkLoadProofs.*  `PiecesMapped`: `MapInv` says of each piece how its address and its
place in the file go together.  In an ELF image the cursors of addresses and of offsets
stay equal until .bss, because a piece that is in the file is aligned and rounded alike
in both; in a PE image offsets are whole sectors.  Pieces with which a segment may start
begin on a page.  The segments are computed from the ends of pieces by maxima over sets
(`RxMaps`, `RwMaps`), and the order of the pieces (`InOrder`) carries over to the
segments; two that start on pages, one behind the end of the other, share no page
(`PagesApart`).  The base address, which the command line may set to anything, has to be
that of a page: the property says so.

*LinkOutputProofs.*  `ExitIsHonest`, `NeverTorn` and `UntouchedUntilWritten`, for any
number of writes.  `StageInv` says at each stage what the three files hold; the claims
except a link some of whose writes were lost.

*LinkRaceProofs.*  `BothHonest` for any number of processes and writes, although all
use one temporary name.  `RaceInv` divides the states into four: a process has
reported failure; two are at work, or one whose temporary file is gone, so that somebody
will have to fail; one is alone with a file only it has written to; nobody is at work,
and unless nobody has started, a whole image stands at the output.

*NyJitProofs.*  `RelocStep` reduces a relocation, over all kinds and answers of
the host, to three outcomes: the cursor passes a relocation that leads to the
address wanted, the link is given up, or trampolines run out.  `NoLeak` needs
`PagesInv`: the pages held are the recorded ones plus those of the link in
progress, which is newer than all recorded.  `TrampolinesSuffice` needs
`TrampolineInv`: the trampolines built are at most the external calls passed,
which at an external call are fewer than all of them.  `ExportsUsable` needs
`PatchInv`: relocations before the cursor are right, recorded mappings are
complete and protected, only those are exported.  `LinksAreAtomicCorrect`: NyJit implements JitLibrary under the
mapping `Loaded`, the recorded mappings with the targets of their relocations.  All
steps of a link are stutters of the library but the last one, which records and
exports; a link that is given up stutters throughout.  Beyond `PatchInv` this needs
`AnsweredInv`, that every relocation passed names a symbol of the module or one the
host can give, and that the targets of recorded mappings are fixed, because a link in
progress writes only to its own, newer mapping.

*RegAllocProofs.*  `Separate` and `CallsSafe`, for every function and register file.
The argument has three parts.  *Liveness*: while a round of the backward loop has changed
nothing, the blocks it has passed satisfy the equations of liveness (`LiveInv`), so the
last round solves all of them; a solution has everything that is live by definition
(`LiveAfterNeeded`, from `LiveStages`: liveness by definition is a number of steps back,
each of which stays inside).  *Intervals*: `Reaches` says which indices an interval
contains; with solved equations these are all at which its value is needed
(`NeededSpans`), and a call strictly inside is noticed.  *Scan*: `ScanOK` says that a
register is free or held by one active interval, that an interval which gave its
register back ends before all that are still to come, that intervals which had the same
register have no index in common, and that what crosses a call is in a callee-saved
register; taking, evicting and spilling each keep it.  Eviction is sound because the
victim is spilled for its whole interval.  `FrameDisjoint`, in both layouts: `FrameInv`
says that rewriting leaves sequences of instructions (`RewriteInSequence`) and slots with
a name each, those of the code and those of spilled registers (`RewriteSlots`).  The ends
of slots laid one behind the other do not decrease (`EndsFacts`), the place of a slot is
found by its name (`SlotByName`), and the largest number of stack arguments over all calls
is a number, because there are finitely many (`MostFacts`); the rest is arithmetic of
`AlignUp`.  Sizes are unbounded here: in the code they are 32 bits wide, so the theorem is
about frames below 2 GiB.

Sets take the place of induction over data where a proof needs it: the least
element of a set of naturals (`NatMin`, from the library's well-founded sets) is the
first place where a claim fails.

Model-checked only: `Terminates` and the ends of the other loops (liveness);
`BoundCorrectly` (it loads and follows the finished image, over all cases of all
relocation kinds); selection and execution of the compiled function (`SameResult`,
`CallerStateKept`: interpreters over sequences); the optimizer, whose operators use
`Bitwise`, folds and recursive functions over data.

## Not modelled, and why

- Byte encodings, instruction tables, unwind tables, object file and debug formats,
  ELF section headers, text parsing and dumping, NyIR serialisation: data, not
  control.
- Floating-point folding, switch, volatile and atomic instructions, aggregates and
  vectors: further cases of loops that are modelled, whose data the models do not
  have.
- Overflow of 64-bit addresses in layout (the checks for it refuse the link),
  alignment above a page (sections start at page boundaries, nylink_layout.c:870),
  an export of an unknown name (which
  gets address 0), a second definition of one `.refptr.` name (nylink_layout.c:993).
- A second `nylink_resolve_symbols` or layout on one context
  (nylink_context.c:438): the driver and the tests make one.
- Offsets in JIT sections; zero-initialised data starts unaligned (jit.c:213).
- `ny_mfunc_validate_allocated`: it looks for virtual registers, which the rewriting
  leaves none of.
- The arena: its state shows in no property of the other parts.

## Plan

Done: everything above.  Next, in this order:

1. `BoundCorrectly` for the relocation kinds without tables, from `ResolvedInv`.
2. An abstract specification of resolution, a single choice function, that
   NylinkResolve implements.
3. Aggregates in lowering and in the AArch64 back end; switch in the optimizer.
