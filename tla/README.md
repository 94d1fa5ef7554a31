# A formal model of nnc

nnc (`src/`) is a compiler, written in C, for a small C-like language; it emits
x86_64 assembler, which `as` and `ld` turn into a program. This directory holds
TLA+ modules that model its parts, TLC configurations that check them on small
instances, and TLAPS proofs of the properties that matter most.

## The system and its parts

nnc is one sequential process. What is hard to get right is not parallelism but
long-lived mutable state that many functions share, and long chains of
translations that each have to keep the meaning of the program.

| part | source | state | operations | module |
|---|---|---|---|---|
| arena | `nnc_arena.c` | entry array, `len`, `cap`, `disposed`, byte counters | `nnc_alloc`, `nnc_dispose`, `nnc_arena_fini`; `zip` and `grow` inside a push | NncArena |
| map | `nnc_map.c` | buckets with chains, `len`, `cap` | `put`, `pop`, `get`, `has`, rehash | NncMap, NncDict |
| exceptions | `nnc_try_catch.c` | stack of jump buffers, kinds, `depth`, the thrown exception | `TRY`, `ETRY`, `CATCH`, `THROW`, `RETHROW` | NncTryCatch |
| driver | `nnc_main.c`, `nnc_error.c`, `nnc_blob.c` | phase, `glob_canarie`, files, `errno` | passes, `as`, `ld`, cleanup, abort | NncDriver |
| lexer, literals | `nnc_lex.c`, `nnc_literal.c` | file position, current token, line and column | `nnc_lex_next`, recovery, `nnc_int_new`, `nnc_str_new` | NncLex, NncReader, NncFront |
| parser, AST | `nnc_parse.c`, `nnc_ast.c` | token window, current scope | one function per production | NncExpr (expressions and types), NncScope (statements), NncTypes (type objects) |
| symbol tables | `nnc_symtable.c`, `nnc_ctx.c` | tree of scopes with contexts | put, get, has | NncScope |
| resolver, types | `nnc_resolve.c`, `nnc_typecheck.c`, `nnc_type.c` | types of expressions, sizes | one function per node | NncScope, NncTypes |
| three-address code | `nnc_3a.c`, `nnc_3a_lr.c` | quads, temporaries, labels, loop branches | one function per node, live ranges | NncQuad, NncIr, NncMiddle |
| control flow, optimizer | `nnc_3a_cfg.c`, `nnc_3a_optimizer.c` | blocks, two quad buffers | dead blocks, peephole passes | NncCfg, NncOptimizer, NncMiddle |
| storage allocation | `nnc_gen_sa.c` | live ranges per register, locations | store, reserve, spill, swap | NncStorage |
| generator | `nnc_gen.c` | emitted code, call states | one function per quad | NncGen |
| buffers | `nnc_buf.c`, `nnc_blob.c` | growing arrays | add, putf | files only, in NncDriver |
| dumps | `nnc_ast_dump.c`, `nnc_3a_dump.c` | - | output | - |

How they interact: the driver runs the passes over each source in turn and
everything else is called from it. All of them allocate in the one arena and
nearly all keep maps. Errors travel as exceptions: the lexer, literals, parser,
symbol tables, resolver and type checker throw; the driver, lexer, parser and
resolver catch; a handler that reports increments `glob_canarie`, which is the
only thing that keeps the compiler from writing, assembling and linking code.
Pass 1 reads the whole file, declaring names as it goes; pass 2 resolves one
top-level statement after the other and lowers each before it looks at the
next. The quads of `nnc_3a.c` go through the optimizer and, with their live
ranges, to the generator, which asks the storage allocator where every
temporary lives and tells it which registers a call, a division or a shift
borrows.

What is hard, and what makes each part correct:

* **arena** - compaction in place, decided by a metric (`disposed`) that every
  disposal and compaction has to keep right. Correct: no block is lost, listed
  twice or freed twice, and no push writes outside the array.
* **map** - collision chains, a rehash that may rehash itself, removal at the
  head of a chain, rewrites of a key in the middle of one. Correct: it behaves
  as a dictionary and owns its nodes, but for what a rewrite cuts off.
* **exceptions** - jumps past any number of C frames, from handlers too.
  Correct: a jump always goes to a TRY statement that is still active, and each
  error is counted once.
* **driver** - failures half way, files of earlier runs, `errno` of long ago.
  Correct: success means that the output was built from this run's sources.
* **lexer and parser** - characters put back at the end of the file, errors
  that cost a line, literals whose range depends on base and suffix, one token
  of lookahead to tell a cast from a parenthesis. Correct: the tokens are the
  longest matches, and a tree, written out, is read back.
* **scopes** - names are declared by both passes of the text, some after the
  body that uses them, and looked for inwards or outwards depending on what
  they are. Correct: an accepted program gives each variable a place of its own
  and each jump a target.
* **types** - objects are completed by overwriting them and sized by whichever
  walk comes first; declarations may be circular. Correct: the resolver comes
  back, refuses the wrong programs only, and the sizes read later are final.
* **three-address code and optimizer** - short circuits, loop branches that are
  saved and restored, patterns that look at two or three neighbours, live
  ranges in text order. Correct: the quads compute what the tree means.
* **generator and storage** - two descriptions of the same machine, the
  allocator's and the emitted code's, with calls nested in arguments, arms of
  branches that do not run, spills and borrowed registers. Correct: a value
  that is still needed is where the allocator says.

The `hazards` of `PROJECT.json` list these at their lines.

## Modules

**NncArena** models `nnc_arena.c`. `entries` is the entry array (a slot holds the
block its entry describes, `NULL` or, after `realloc`, `JUNK`), `heap` the blocks
`malloc` handed out and has not got back. `nnc_alloc` is two steps (`Malloc`,
then one of `PushRoom`, `PushGrow`, `ZipStart`), the compaction loop is one step
per iteration (`ZipStep`) and `ZipDone` makes the store that follows it. The
rest is atomic. `phase` follows the shutdown, including the allocation that
`nnc_check_for_errors` makes after it has closed the arena. The paths on which
`malloc` or `realloc` fails (`nnc_arena.c:13-15`, `:81-83`) are not modelled.

**NncMap** models `nnc_map.c`. A chain of buckets is a sequence of entries, the
first of which is the one in the array; the number of chain nodes allocated is
a ghost. `NncmapPut`, `NncmapPop`, `NncmapRehash` are operators on a map, since
a rehash puts into a map that is being built. The mutual recursion of
`nncmap_put` and `nncmap_rehash` is one recursive function, `Refilled`: what the
loop of a rehash has built after it has put the entries of a sequence, with puts
that may rehash in turn. `PutEntry` and `NncmapRehash` take that function as
their parameter `F`. `Get` and `Has` are actions that record their answer.
Any key may be put at any time. The put of a key that is present ends its chain
at the rewritten entry (`nnc_map.c:219`), and callers do that: `nnc_put_loc`
(`nnc_gen_sa.c:281`) rewrites locations in `glob_loc_map` without asking
`nncmap_has`. The ghosts `cut` and `leak` count the entries that were lost so and
the nodes they were in. **NncDict** is what the users of a map get: a partial
function from keys to values, in which the put of a present key may lose other
keys and no other operation does. `ImplementsDict` says that the map implements
it, so that a rewrite is the one way to lose data.

**NncTryCatch** models `nnc_try_catch.c` and the macros at the sites that use
them: `main` (nnc_main), `report` (handlers that report and go on), `lex` (the
lexer's handler, which calls the lexer again) and `retype` (a handler that
rethrows). `frames` is the ground truth: the TRY statements the C stack is in.

**NncDriver** models `nnc_main.c` with `nnc_error.c` and the file operations of
`nnc_blob.c`. `pc` is the phase, `canarie` the error count, `files` what is on
disk (with files of an earlier run in the initial state), `errno` whether a
literal has left it set. What a pass finds in a source is an input, and so is
whether the resolver comes back from a statement at all
(`StatementNeverReturns`: `nnc_unalias` goes round `type a_t as a_t`, other
circular declarations overrun the stack).

**NncLex** models the lexer and the literals as operators on the record of the
lexer: what the file still delivers (put-back characters included), the current
and the previous character, line and column, the token. Every grab, undo, skip,
commit and the recovery by line is an operator with the name of its function;
those that loop or call themselves are recursive functions on lexers (`Skip`,
`GrabStr`, `LexNext`) or on the parser's window (`ConcatStr`). **NncReader** is the
reading of a file: one step is one `nnc_parser_next`, the shift of the window and
the making of the token's literal.
**NncExpr** is the recursive descent of `nnc_parse.c` for expressions and type
expressions over tokens: a parse is whether nothing was thrown, the next token,
and the tree. `Text` writes a tree with the parentheses it needs; it is a
reference, not code. **NncFront** composes them: a step of `NncReader` with the
token told apart for the parser, and when the file is read the parse. The
reference `Munch` splits a text into the longest tokens by saying what a token is,
with no state at all; what a number is it takes from `nnc.ebnf`, and an error
costs what is left of its own line. It compares the characters between quotes;
whether the quotes belong to a lexeme is left open, as the lexer (they do) and
`tests/nnc_lex_tests/nnc_lex_complex_tok_separation.cpp:69-78` (they do not) disagree.
Where the lexer reads a text otherwise is `Departs`. The lexeme of a token is
unbounded in the model: the source writes into an array of 512 characters without
a check (`nnc_lex.c:7`, `nnc_parse.c:66`). A floating literal may be refused or
not (`nnc_literal.c:86-90`); its value is not computed.

**NncScope** models the statements of the parser, the symbol tables and the
statement part of the resolver. The text is not fixed beforehand: an action
reads one statement, or the brace that closes one, so that a behaviour is a
file. `root`, `ctx`, `decls` and `types` are the tree of tables; `Pass2` resolves
the statement at `at`, reports and goes on behind the statement whose handler
caught the error, and hands a top-level statement to the generator if no error
was ever shown.

**NncTypes** models type declarations. `o` is the heap of type objects, which
`Complete` overwrites in place as `nnc_complete_type` does; `ResolveType` is the
walk of `nnc_resolve_type` with the check for circular declarations, and its
depth is bounded by `MaxDepth`, behind which the process is "crashed" (the C
stack, or the TRY statements that nest with the walk). A use declares `v` and
initialises `w` with it, and `Access` gives the sizes and offsets that the
lowering reads for `v[i]`, `v.m` and their combinations at that moment.

**NncQuad** is the language of quads (`nnc_3a.h`) with a machine that runs them,
**NncIr** the lowering of `nnc_3a.c` with its globals as a record, **NncOptimizer**
the peephole patterns that the dispatcher of `nnc_3a_optimizer.c` can reach,
**NncCfg** the blocks, edges and dead blocks of `nnc_3a_cfg.c` (whose caller is
commented out at this commit, `nnc_3a.c:728`). **NncMiddle** composes them: lower
a function body, optimise it or not, one pass per step, and run the quads one
per step. `Eval` and `Run` are the reference, an interpreter of the tree. The
union of an address is modelled as a union, `v`: the number of a temporary, a
constant and the context of a name (`ictx`, 0 to 5, the first field of
`nnc_3a_name`) can be equal, and patterns compare them without asking for the
kind. So `return 1 - (-y)` is folded as if `y`, a local with `ictx` 1, were the
first temporary. `mistaken` records that a pass did so.

**NncStorage** models `nnc_gen_sa.c` as operators on a generator state: a stack
of live ranges per register, the location of each temporary, and next to these
the registers, slots and stack of the machine that has run the code so far. A
live range begins with the first quad that names a temporary and ends with the
last, and a location is asked for at the beginning, so that "the ranges
intersect" becomes "the older one has not ended"; that is how a live range
can be modelled by the temporary itself.

**NncGen** models the handlers of `nnc_gen.c`, one action per quad (or per group
of quads that always follow each other). Instead of a list of quads there is the
stack of the temporaries that later quads read, because `nnc_3a.c` lowers an
expression tree in post order; any quad that fits may come next, which is any
program within the bounds. Calls, ternaries and logical operators open a frame.
The arms of a branch are generated in a row, and the frame restores the machine
of the jump for the arm that runs. `status` tells a generator that failed an
assertion (`assert`), or code that the assembler refuses (`rejected`), from code
that runs.

Seven situations make a handler do something that a later step regrets. Each is
named by a member of the constant `Situations`, and a program that contains it
is a behaviour of the model only when the configuration lists it:

| name | code | program | what happens |
|---|---|---|---|
| `argument` | `nnc_gen_sa.c:146` | `f(1, g(2), h(3))` | an outer argument's register is given away |
| `scratch` | `nnc_gen.c:714` | `a + (b + (f(*p) + c))` | RBX is popped without having been pushed |
| `mulrax` | `nnc_gen.c:813` | `(a as u64) * b` | the product is a square |
| `divswap` | `nnc_gen.c:947` | `(a as u64) / b + c` | the locations are swapped, their live ranges are not |
| `rdx` | `nnc_gen.c:937` | division under register pressure | an operand in RDX is overwritten |
| `pointer` | `nnc_gen.c:558` | `*p = v` with `p` spilled | the store goes to the slot of `p` |
| `cut` | `nnc_gen_sa.c:584` | an argument whose key is in front of another in `glob_loc_map` | the other's location is lost |

The run `gen`, with none of them, is therefore a completeness result: within the
bounds nothing else disturbs a value. The first has a violation run.

**NncArenaProofs**, **NncMapProofs**, **NncTryCatchProofs**, **NncDriverProofs**,
**NncReaderProofs**, **NncScopeProofs** and **NncGenProofs** extend the module they are
named after and hold its inductive invariant, lemmas and theorems. **NncInduction**
holds the principles of induction they share. The `MCNnc...` modules give the constants of the runs.

Every mutant of a definition stands before it and is named after it
(`ZipStart_KeepsDisposed` is a mutant of `ZipStart`); a mutant is used by no
specification and shows that a property can tell the code from a plausible
mistake in it.

## Runs

| run | distinct states | what it shows |
|---|---|---|
| `arena` | 16,727 | any sequence of allocations, disposals, compactions, growths and shutdowns loses no block (`NoLeak`), counts its holes (`HolesCounted`), stores inside the array (`PushInBounds`) and frees everything before it exits (`ExitClean`) |
| `map` | 97,836 | the map implements `NncDict`, in which only a rewrite loses other keys; chains are well placed, and the length and the nodes are those of the chains and of what rewrites cut off |
| `try_catch` | 34,933 | jump buffers, caught kinds and the error count stay in step with the C stack (`BuffersLive`, `HandlerSeesThrown`, `EveryThrowCounted`); each throw is handled (`ThrowHandled`) |
| `driver` | 6,516 | every combination of flags, errors and failures: success means built from fresh objects, errors let nothing through, `-c` keeps the output, the process exits unless the resolver does not come back |
| `front` | 140,331 | every text is read as its longest-match tokens with true lines, columns and literals, but for the named departures; the text of every tree is parsed back to it, and what is accepted loses no token |
| `scope` | 704,830 | jumps have their targets, lets their own slots, globals are not hidden, and every file is decided, through errors and recovery |
| `scope_late` | violation | a `let` may take the name of a parameter, or of a `for` variable, and its slot |
| `types` | 1,288,388 | the resolver comes back except from the named shapes, refuses exactly the wrong files, and the lowering reads true sizes and offsets |
| `middle` | 81,515 | lowered or optimised, quads compute what the tree means, but for the named exceptions; live ranges cover every use; dead-block removal keeps what runs; passes and loops end |
| `middle_value` | violation | the optimizer drops the value of an assignment expression |
| `gen` | 285,023 | operands, arguments, ownership of registers, the stack and its alignment survive nested calls, branches and every integer operator |
| `gen_argument` | violation | a call inside an argument list gives an argument register away |

**Bounds.** *arena*: capacity 2, four addresses (symmetric), sizes 1 and 2,
compaction rate 1/2 and at most nine allocations (`AllocBudget`): enough to grow
twice, to compact with holes in every position, and to compact again after a
growth. *map*: four keys, three hash functions (all collide, spread, and one in
which a collision comes and goes with the capacity), initial capacities 1 and 2,
the code's load and scale factors, `MaxCap` 6 and `MaxNodes` 4: two rehashes, a
rehash nested in a rehash, and chains of every length. *try_catch*: limit 4, two
kinds of exceptions besides the saved context, at most seven TRY statements
entered and three throws: a throw from every depth, rethrows through two levels,
and handlers that enter TRY statements. *driver*: two sources of two statements,
at most three errors: an error before, inside and behind a good source.
*front*: all texts of up to four or five characters over eight alphabets, each
chosen around one scanner (numbers and suffixes, bases, floats, characters,
strings, joined strings, comments and operators, words), the ranges of the
integer types scaled down (`MaxOf`) so that short literals overflow each of
them; all trees of two levels of every form and selected ones of three; all
sequences of three tokens over fifteen, and longer ones around calls, casts and
type bodies. *scope*: files of up to four statements (`MaxStmts`) drawn from one
of eleven mixes of kinds of statement (`Mixes`), over one variable, two
functions, a namespace, a type and an enumerator: every kind is in a mix with
those it interacts with. *types*: files of up to three type declarations, from
nineteen bodies over the three names, and a use before, between or behind them,
with eight access paths; `MaxDepth` 16 is more than any walk of three
declarations needs that comes back. *middle*: 839 function bodies with
every expression form over operands that are constants, variables and calls,
every assignable place, calls with and without a result, chains of `if` and
`elif`, and loops of every kind with `break`, `continue` and `return` in them, the
`continue` of a `do` included, nested too; names that are globals, locals,
parameters and functions; words of 32 values, elements
of 2 bytes; `Fuel` 8 is more than any of the loops turns. *gen*: five registers
in the order of the source, four of them for temporaries (RAX, RBX, R15, RCX)
and two for arguments (RDX, RCX), four temporaries, two frames (`MaxDepth`),
three arguments (`MaxArgs`), so that the third goes to the stack: nested calls in
each argument position, calls in arms of branches, all registers busy and
operands spilled.

**Deadlock.** The arena, map and generator configurations turn the check off: the
process may exit, a generator stops at an assertion, and a bound may be used up.
The other modules have an explicit terminal step and check it.

**Fairness.** nnc is a sequential program: as long as there is a next step of its
code, it is taken. `NncDriver`, `NncScope` and `NncMiddle` assume weak fairness of
their next step for that reason: a tool or a file operation returns or fails, a source is
a finite file, and the emitted quads run on a processor. `AlwaysExits`, `Decided`
and `Finishes` need no more. A statement of pass 2 is one step of `NncDriver`, which
is not to say that the resolver returns: that it does not is an outcome
(`StatementNeverReturns`), and `AlwaysExits` names it as its exception. `NncTryCatch!FairSpec` assumes weak fairness of the
handlers only: after a `longjmp` the code that runs is the code of the handler,
and nothing else can run before it.

**What the properties leave out**, because the code is known to do otherwise;
each is named in the definition or in the comment of the property:

* `LexesAsMunch`: a character that starts no token (`nnc_lex_next` has no default
  and repeats the token before), and the departures from `nnc.ebnf:48-51` and from
  line-wise recovery (`Departs`): `0x`, `0o` and `0b` without a digit are numbers,
  a capital prefix is none, and a quote at the end of a line takes the newline for
  its character and costs the next line. `LinesTrue`: a line break between single quotes
  is not counted. `ContextFits`: strings joined from several, whose size is that
  of all and whose column is that of the first. `LiteralsExact`: escaped
  backslashes in a string, which `nnc_str_zip` drops.
* `Returns`: four shapes of declarations (`RoundPointer`, `CircleBelow`,
  `CircleInPlace`, `RenamedMember`). Compiling `a_t { b_t }`, `b_t { c_t }`,
  `c_t { b_t }` overflows the stack, a circle through an in-place member ends
  with "nnc_try: depth exceeded.", and `type a_t as a_t` does not end.
  `AcceptsExactly`: pointers to named pointers, whose rank `nnc_rank` counts
  twice. `ReadsExact`: a use in front of a type it reaches; a forward-declared
  pointee still has size 0 when such a use is lowered.
* `RunsAsSource`: the value of an assignment (see `middle_value`), constant
  divisions by zero, which the folding itself performs, a name taken for a
  temporary (`mistaken`, also excluded from `RangesCoverUses`; within the family
  these are four programs, all of which compute something else), and `continue` in
  a `do`, which jumps to the start of the body without the condition
  (`nnc_3a.c:706-710`). `Finishes` excludes the last too: such a loop may run for ever.
* `AlwaysExits`: a resolver that does not come back.
* `ImplementsDict`, `LenCounts`, `NodesOwned`: what the put of a present key cuts off.
* `LetOwnSlot`: outer variables that are parameters or belong to a `for` (see
  `scope_late`).
* `gen`: the seven situations above. `EvenCallsAligned` is about calls with an even
  number of arguments on the stack, which with the bounds of the run is none; the
  theorem has any even number. With an odd number the code misaligns the call.

## What is proved

TLAPS proves, for all values of the constants that satisfy the named assumptions
(`CapAssumption`, `RateAssumption`, `SizeAssumption`, `PtrAssumption`;
`CallersAssumption`, `ScaleAssumption`; `CharsAssumption`, `TextsAssumption`;
`DepthAssumption`, `KindAssumption`, `BoundAssumption`; `SourcesAssumption`,
`ErrorsAssumption`; `RegAssumption`, `CgtAssumption`):

* `NncArenaProofs`: `ArenaCorrect` (`Spec => []ArenaInv`), and from it
  `ArenaNoLeak`, `ArenaPushInBounds`, `ArenaHolesCounted`, `ArenaExitClean`.
  `NoLeak` alone is not inductive: in the middle of a compaction the entries are
  those below `len` *and* those the loop has not reached, and the slots between
  hold nothing. `LiveSlots` is that set. `PushInBounds` after a compaction needs
  to know that at least one hole was found; `need_zip` compares the metric with
  the length, so this needs `HolesCounted` before the compaction and the
  disjunction of `ZipProgress` during it: a hole is behind the loop or still
  ahead. `ClosedShape` carries the argument through the second shutdown, and
  with `NoLeak` it gives `ExitClean`.
* `NncMapProofs`: `MapCorrect` (`Spec => []MapInv`), `MapWellPlaced`, `MapLenCounts`,
  `MapNodesOwned` and the refinement `MapImplementsDict` (`Spec => Dict!Spec`), all
  of them for callers that may put any key at any time.
* `NncReaderProofs`: `LexerTokensBounded` and `LexerPositionTrue`, of `ReadSpec`, for
  every text over any set of characters, unknown ones and broken tokens included.
* `NncTryCatchProofs`: `TryCatchCorrect` (`Spec => []TryInv`), and
  `TryCatchBuffersLive`, `TryCatchCounts`, `TryCatchHandlerSees`. `BuffersLive`
  needs `DepthMatches` (which differs by one inside a handler),
  `HandlerSeesThrown` needs that no TRY statement of a handler has written above
  it, and a rethrow needs `MainOutermost` to have a buffer to jump to.
* `NncDriverProofs`: `DriverCorrect` (`Spec => []DriverInv`), and
  `DriverSuccessMeansBuilt`, `DriverOnlyWholeSources`, and the action properties
  `DriverCompileOnly` and `DriverLinksFresh`. `Progress` is the strengthening: for
  every phase it says which files are already there, and the count of errors at
  that point.
* `NncScopeProofs`: `ScopeCorrect` (`Spec => []ScopeInv`), and
  `ScopeControlHasTarget`, `ScopeLetOwnSlot`, `ScopeGlobalsNotHidden`, all three
  without an assumption on the constants: for files of any length, over any
  names, with any mix of statements, through errors and recovery.
* `NncGenProofs`: `GenCorrect` (`Spec => []GenInv`), and `GenTyped`,
  `GenOperandsIntact`, `GenRegistersOwned`, `GenArgumentsIntact`,
  `GenStackBalanced`, `GenEvenCallsAligned`, for any number of temporaries,
  registers, argument registers and arguments and any depth of nesting, of
  programs with none of the seven situations (`Situations = {}`, the hypothesis of
  each theorem and the instance of the run `gen`). `GenTyped` states `TypeOK`,
  which no run lists.

**Induction.** The library's induction theorems have an operator for a parameter.
`NncInduction` states the principles the proofs need over *sets* and *functions*
instead, which the provers can instantiate: course-of-values induction on an
interval, the existence of a greatest element, and two lemmas about a loop.
`LoopSolved`: the equation "stop here, or go on from the next state" has a solution,
whether or not the loop ends everywhere, so that a recursive function defined by it
satisfies it. `LoopEnds`: such a loop, started where its invariant holds and with a
measure that falls with every round, ends in a state where the invariant holds and
the condition to go on does not. The recursive functions of `NncLex`, `NncMap`, `NncScope` and `NncGen`
are reasoned about through these.

**Map.** `MapInv` says that the map is `Placed` (every entry is in the chain its key
hashes to, and alone with its key there) and `Counted` (the length and the nodes are
those of the chains plus `cut` and `leak`).
The work is in the rehash. The lemmas on `Refilled` go by the number of entries left:
put into an empty array one by one, entries with different keys give a map that is
placed, counted, and holds exactly those entries. A put of the loop may rehash the
half-filled array, and that rehash refills strictly fewer entries, which is why the
function is defined at all. The refinement maps a map to the function of its entries
(`Abstract`): a put that rehashes changes the array, the chains and all indices, and
adds one pair; a put of a present key sets it and keeps a part of the others with
their values; `Get` and `Has` answer as the dictionary because a chain holds a key
at most once. The assumption on the growth is that the array does not shrink.

**Reader.** That a call of `nnc_lex_next` consumes something is not a property of any
one scanner: many grab one character too many and put it back, at the end of the file
nothing is put back, an error costs a line and calls the lexer again. The proof says
of every point of every scanner where in the text the lexer stands. `Settled`: the
current character belongs to the token; `Ahead`: the character behind the token has
been grabbed (or the file has ended), so that an undo leads back to `Settled`. Both
carry the line, so that a newline that is grabbed and put back is not lost and not
counted twice. `LexRound` is one pass through `nnc_lex_next` from blanks to commit,
`LexNextCalled` the calls of itself for comments and errors. The invariant of the
reading, `ReadInv`, is that the lexer is two tokens ahead of the parser (`Far`):
`TokensBounded` alone is not inductive, because the window shifts before the lexer's
token is current. `ReadSpec` is the reading part of `NncFront!Spec`: every step of
`NncFront` is a step of `ReadNext` or leaves the reader's variables alone. That is
visible from the definitions and not stated as a theorem, as `NncFront` reaches the
recursive operators of `NncExpr`.

**Scopes.** `ScopeInv` has three parts. `Shape`: every scope is older than the
scopes inside it (`ScopesOK`), so that a walk to the root ends, the stack of open
statements is a chain of that tree (`OpenOK`, `ChainsOK`), and the text read so
far nests as its braces do (`BodiesOK`, `TextsOK`). `Names`: what the tests of
`nnc_st_put_sym` achieve for two symbols of one walk, and that globals are declared
at global places only. `Passed`: every statement behind the second pass was
resolved, and code is generated only where that is so. The
properties speak of accepted files, and acceptance is decided by lookups made when
a name is declared and again when it is resolved; `Shape` is needed to see that
the lookup that starts at a `break` or a `let` passes exactly the scopes that
enclose it, although most of them were closed long before pass 2 looks, and that
later declarations add no entry to a table between the two that the checks have
not seen.

**Generator.** The open frames are levels. Every temporary that is waiting, and
the result of every open call or ternary, belongs to one level, and the levels
are disjoint (`Shape`). `S[k][r]` counts the live ranges of register `r` that the
first `k` frames account for, `h[k]` the words they have put on the stack; both are
witnesses of the invariant, not variables. `Ranged`: an owner at level `l` is found
just below the live ranges that the frames above `l` have added, and no register
has more than one range of its own at the top. `Intact`: the value of an owner is
in its register if no call was opened since, or else where the *first* such call
pushed it. `Snapshots`: the same of the machine each open branch has saved for the
arm that does not run. Each of these is needed by another: a `Call` pops the
registers its `DeclCall` pushed, so operands are right after it only if the stack
below was not touched, whatever calls and arms came in between. The proof is in
three layers: what the operators of `NncStorage` do to each field of the state;
that a handler borrows registers and gives them back (`Evolves`), which keeps all
levels at once; and the opening and closing of a frame (`Extends`, `Layered`), which
keeps the levels below. The hypothesis `Situations = {}` is used exactly where
`Allows` guards an action, which shows for any machine what the run `gen` shows
for a small one: the table of situations is complete for the modelled handlers.

**Only model-checked.** Liveness (`AlwaysExits`, `ThrowHandled`, `Decided`, `Finishes`)
and ENABLED are out of the prover's reach. So is what `NncExpr`, `NncTypes`, `NncIr`,
`NncCfg`, `NncOptimizer` and `NncMiddle` compute: their operators call each other as the
functions of the recursive descent, of the walks over types and of the lowering do,
and the provers have no backend for arithmetic in a module that reaches a recursive
operator. With them go `TextParsesBack`, `AcceptedKeepsTokens`, `Returns`,
`AcceptsExactly`, `ReadsExact`, `RunsAsSource`, `RangesCoverUses` and `RunsInKept`.
`LexesAsMunch`, `LinesTrue` and `ContextFits` compare the tokens with `Munch`, and
`LiteralsExact` the values with sums over digits, which are recursive definitions over
the whole text: an equality of two of them for every input is an induction over data.
`LexerPositionTrue` proves what is behind `LinesTrue`, the line of the place where the
lexer stands.

## What the violation runs show

1. `gen_argument` (`nnc_gen_sa.c:146`) - the first line of the table of
   situations. With `f(a, b, c) = a * 100 + b * 10 + c` and identities `g` and
   `h`, `f(1, g(2), h(3))` yields 323.
2. `middle_value` (`nnc_3a_optimizer.c:427`) - a copy pattern removes the
   temporary that is the value of an assignment expression: with the optimizer
   on, `return b = 4` returns a temporary that nothing defines.
3. `scope_late` (`nnc_parse.c:1203`, `:1016`) - parameters are declared after the
   body, so a `let` in a nested block may take the name of one, and stack slots
   are found by the bare name: `fn main(x) { if (1) { let x: i64 = 5; } return x; }`
   returns 5.

The other places where the code is exposed have no run of their own and are
notes of the hazards: a rewritten key cuts its chain (`nnc_map.c:219`; a comment
in `nnc_gen_sa.c:282` suspects the rehash, which `map` shows to lose nothing), a
name is taken for a temporary (`nnc_3a_optimizer.c:132`), `continue` in a `do` skips
the condition (`nnc_3a.c:706`), a lexeme has no bound (`nnc_lex.c:7`), a throw
at the last TRY level aborts (`nnc_try_catch.c:13`), and a stale `errno` makes a
complete write count as failed (`nnc_blob.c:74`).

## What is not modelled

* In the arena, a `malloc` or `realloc` that fails.
* The capacity-0 path of the map and its key and value listings; reading an
  absent key (`nnc_map.c:150`) is excluded by a precondition of `Get`.
* In the driver, command lines with object files only, or with a source named
  twice, and the parsing of options.
* In the front end, the value of floating literals, and the typing rules of
  operators, explicit casts and the evaluation of constant expressions
  (`nnc_ast_eval.c`, most of `nnc_typecheck.c`): each is a table over pairs of
  types without state, and a reference for it would be the same table again.
  `NncTypes` has the implicit casts, where the identity of types matters. `v[i][j]`
  through an array of pointers is outside its paths: the lowering adds both
  indices without reading the pointer between.
* In the middle, floating constants, strings and qualified names. The routines
  that no call reaches: copy patterns 1, 6 and 7, the removal of dead temporaries,
  `nnc_3a_zip_quads`. `NncCfg` leaves out that `nnc_3a_cfg_node_free` disposes of
  a block that is an element of an array (`nnc_3a_cfg.c:92`, `:218`).
* In the generator: widths of operands and the clearing of partial registers,
  floating point, the prologue and the callee's side of the stack arguments,
  strings and static data, and quads that the optimizer has changed.
* The growth of buffers and vectors (`nnc_buf.c`), and with it the vector that
  `nnc_push_reg` appends to through a copy of its pointer (33 live ranges on one
  register).
* The dumps: output only. That a dump cannot create its file is modelled in
  `NncDriver`.

## Plan

Next would be the callee's side of a call, the growth of buffers (`nnc_buf.c`), and
the columns of tokens as a theorem of `NncReader` next to the lines.
