# ymd: a verification development

ymd is a small scripting language: a lexer and a one-pass compiler produce
code for a stack machine, which runs it with a tracing garbage collector,
hash maps, skip lists, dynamic arrays, closures, protected calls, a pickle
format, and a unit-test harness. Everything is C, runs in one thread, and is
entered from the host through a few functions (`ymd_init`, `ymd_compilef`,
`ymd_xcall`, `ymd_final`). This directory holds TLA+ models of its core, the
TLC configurations that check them on small instances, and TLAPS proofs of the
central invariants for every value of the constants.

Line numbers refer to files of `src/`.

## 1. The system

| part | files | state | operations | modelled by |
|---|---|---|---|---|
| heap, collector | memory.c, state.h, state.c | list of objects, mark bits (black, two grays), pause, roots | gc_new, gc_record, gc_mark, gc_sweep, gc_release, gc(...) | `YmdHeap` |
| interned strings | string.c | the pool `vm->kpool` | kstr_fetch, kpool_index, kpool_insert, gc_kpool_sweep | `YmdHeap` |
| calls | call.c, state.h, state.c, libc.c | value stack, locals, chain of call_info, chain of jump buffers, argument arrays | vm_call, vm_copy_args, ymd_xcall, ymd_pcall, ymd_error, ymd_panic, ymd_adjust | `YmdCall` |
| hash map | hash_map.c, libc.c | array of entries, chains through it; the iterator of a loop | hmap_put, hmap_get, resize, hmap_iter | `YmdHashMap`, `YmdMap` |
| skip list | skip_list.c, libc.c | nodes, levels; the iterator of a loop | skls_put, skls_get, skls_iter | `YmdSkipList`, `YmdMap` |
| equality, order | value.c, and the functions of the containers | – | equals, compare | `YmdValue` |
| account | memory.c, closure.c, compiler.c | gc->used, gc->threshold; capacities and reference counts of chunks | gc_record, gc_adjust, mm_need, mm_shrink, mm_free, mm_drop, blk_*, func_* | `YmdAccount` |
| arrays, loops | dynamic_array.c, libc.c | elem, count, max; iterators | dyay_add, dyay_insert, dyay_iter, step_iter | `YmdArray`, `YmdList` |
| compiler | compiler.c, assembly.h | chain of chunks, held jumps, chain of loops; the C stack of the parse functions | parse_*, ymk_hold, ymk_hack_jmp, ymk_loop_leave | `YmdCode` (its use of memory: `YmdAccount`) |
| lexer | lex.c, lex.h | position in the text, line, column | lex_next, lex_read_*, lex_line | `YmdLex` |
| instructions | call.c | pc, value stack | vm_run | jumps and operands: `YmdCode`; calls, stores, containers: `YmdCall`, `YmdHeap`; values of operators: not modelled |
| encoding, pickle | encoding.c, zstream.h, pickle.c | byte streams, marks of containers being dumped | varint, zig-zag, ymd_pdump, ymd_pload | `YmdPickle` |
| import | libc.c, state.c | `__reached__` | libx_import, vm_reached | `YmdTest` |
| harness | libtest.c, ymd_main.c | the table of globals, the cookie with the jump buffer | ymd_test, yut_test, yut_case, yut_raise | `YmdTest`; its entry: `YmdCall` |
| the rest | tostring.c, print_posix.c, disassembly.c, libos_posix.c, yut.c, 3rd/regex | – | text, output, OS, the harness for C code, third-party | not modelled (but for the marks of tostring: `YmdPickle`) |

How they interact: the compiler allocates the chunks and strings of the
functions it builds, and so may collect in the middle of parsing; the
interpreter allocates in most instructions; every allocation goes through
`gc_record`, which decides from the account whether to collect there and then.
The collector's roots are the global map, the value stack, the locals of the
calls on the chain, and their functions. C code that needs an object between
two allocations either leaves it on the value stack or keeps it grabbed
(`GC_GRAY_BIT0`) until it calls `gc_release`. Errors and panics are `longjmp`s
over all of that: they cut the call chain, and skip whatever releases were
still to come.

There is no concurrency and nothing is persisted. What is hard in this code is
re-entrance (a collection inside any allocation, a call inside any call,
a loop body that changes what the loop iterates over), control that leaves
by `longjmp`, capacity limits that are or are not checked, and contents that
move (resize, eviction, realloc). `PROJECT.json` lists the hazards line by
line with the properties that cover them.

What makes each part correct:

- heap: nothing that the program can still reach, or that a C function holds,
  is freed; grabs are paired with releases, but for the exceptions of section 4; one live
  string per spelling.
- calls: a buffer is jumped to only while its C frame is alive; each call
  leaves exactly the results asked for; a call never touches the operands and
  the locals of the calls below it; `argv` holds the arguments of the call.
- containers: a finite function from keys to values, or a sequence, through any
  evictions, resizes, heights and shifts; a loop meets each element once.
- pickle: what is dumped is read back; a dump or load that fails half-way leaves
  nothing behind; nothing is written beyond the buffer.
- import and harness: no file runs twice; every case runs once, between its
  setup and its teardown; the program's result tells what failed; an assertion
  jumps to a frame that is alive.
- compiler: no jump is forgotten, none leaves or enters a loop it should not;
  at each instruction the stack holds the same number of operands whatever path
  led there, namely the number the parser counted on.
- lexer: the tokens are those of the text, none lost or repeated; line and column are
  those of the cursor; `lex_next` comes back.
- account: `used` is the size of what is allocated; a chunk is freed with the
  last function that shares it; garbage does not outlive an allocation above
  the threshold.

## 2. The modules

**YmdHeap** – one `cell` per address ("free", a container, a function, or a
string with its spelling), the references out of each (`kids`), the grabbed
objects (`gray`), and the roots. Arrays, maps and lists are one kind of
container: a set of pairs. A C function that allocates more than once is split
at each allocation, because the collector may run at each; `op` is the function
in progress and what lives only in its C variables. `gc` in each action says
whether the allocation collects: that depends on byte counts (`YmdAccount`),
so here it is free, unless the collector is paused. Marking is the least set
closed under references, as the recursive `gc_mark_*` compute it, and is
written without recursion so that it can be proved about. Two auxiliary
variables: `leaked`, the objects a panic left grabbed (not the strings, which stay in the pool
and may be found again); `exposed`, see section 4. The instructions that make a string
(`Concat`, `TypeOf`) are there, and the compiler as far as it allocates: the functions it is
compiling are on the stack, and `AddLocal` and `AddConst` (after `NameFetch`) fill the
chunk of one.

**YmdCall** – the value stack, the window of locals of each call (`base`,
`Above`), the argument array of each function, and the chain of jump buffers
with the level that `ymd_pcall` and `ymd_panic` compare. Each frame carries, as
ghost state, the height of the stack under it and the number of operands the
compiler believes to be there. A compiled function is any sequence of push,
store, call, return and panic that a compiler could emit. `pcall` and `error`
are natives, run up to their next call or return in one step.
`ymd_panic` passes through the protected calls to the host, `ymd_error` stops
at the nearest one.

**YmdMap** – what a container promises: `dict[k]` is what a get of k returns.

**YmdHashMap** – the array of entries with flag, hash, key, value and next.
A put that finds no free entry becomes several steps: `Grow` (the new array),
one `Rehash` for each old entry, `Retry` (the put again). The hash of a
container is that of its contents: `Mutate` changes it under the map. A
put of nil is refused by `vm_iput` only after `hmap_put` has made the entry,
so the entry keeps a nil, or the value of the node it evicted (`Unwritten`).

A loop over the map (`Begin`, `Meet`, `End`) keeps a pointer to the next entry
and one to the end of the array; its body may put, mutate and be refused between
two steps. When a put has replaced the array the iterator reads freed memory
(`MeetFreed`: anything).

**YmdValue** – `equals` and `compare` as recursive operators over values: numbers,
booleans, pointers, strings, and arrays, maps and lists with what they hold.

**YmdSkipList** – nodes in order of creation, `fwd` per level, a height chosen
for each. The order is a set of pairs of values (`Less`, `Same`); MCSkipList
computes it with `YmdValue`. A key that is a container may be several values
(`May`) and turn from one into another (`Mutate`) while it is in the list. A loop
over the list (`Begin`, `Meet`, `End`) may put between two steps.

**YmdList, YmdArray** – the sequence an array promises to be, and the block of
memory it is in: capacity, growth by `mm_realloc` which leaves the added elements
unwritten, the shift of an insert, the account of the block, the argument array
that loses its block when its call ends. Iterators over arrays hold two pointers
into the block; those over ranges hold numbers from `-Half` to `Half - 1`, which wrap
around.

**YmdPickle** – the bytes of a dump, in varints of base `Base`, written to a
buffer that doubles once; marks of the containers a dump is inside of; a load as
a recursive descent over a stream that may end or be wrong anywhere, with the value stack
it pushes to; `tostring` as far as it uses the same marks. The program fills the
containers between the operations, and may make one hold itself.

**YmdTest** – what `ymd --test` does. `calls` is the C and script stack of running
scripts, files and tests; each step of a script is chosen among all it can do that
matters here (define a global, add a test, import, eval, raise, panic, fail an
assertion, return). The table of globals has `room` for so many entries; a definition may evict
an entry (`shifted = "moved"`) or replace the table (`"resized"`). `loose` is true
when something the harness holds of the suite it tests may be gone: from there on it goes
`Astray`, and nothing is claimed.

**YmdAccount** – the counter, the threshold (a word with `Words` values), every
array's items and capacity, the reference count of every chunk. The C
functions that may collect are operators from memory to memory, composed in
the order of the code, so that a collection falls exactly where `gc_record`
is called, with the roots of that moment.

**YmdCode** – the one-pass code generator and the jumps of the machine. The
program text is not there: what comes next in it is a choice, so that every
program is compiled, up to `MaxPhrases` statements and compound expressions.
`todo` is the C stack of the recursive parser, each item the rest of a
`parse_*` function with its C variables (`jnxt` is `at`, `jout` is `outs`,
`nsub` is `n`); `chunks` is the chain of functions under construction, `loops`
that of `loop_info`, which crosses function boundaries as `p->loop` does. An
instruction is what matters of it: whether it is held, jumps, returns, or how
many operands it takes and gives. As ghosts it carries the operands the parser
has counted before it (`h`) and the loops around it (`nest`). When the program
has been compiled, `vm_run` runs it: a condition may go either way, the depth
of the stack is what the instructions really do to it. Functions inside the
program are compiled and checked, and are not run. `slips` records which of the
constructs of section 4 that the generator gets wrong have been used.

**YmdLex** – the cursor in a text of at most `MaxLen` characters, each standing for
those the lexer treats alike. The loops of `lex_next`, `lex_read_dec`, `lex_read_hex`, `lex_read_sym`,
`lex_read_raw` and `lex_skip_line` take one character in a step, and `mode` says
which is running. Where the code reads on before it decides and puts the character back
(`lex_back`), the model looks ahead, and `Back` is where the cursor is then. The parser
asks for the next token or fails at the one it has, and prints the line
(`Stop`). It also asks behind the end and behind an error of the lexer, which the parser of an
array or a map takes for the closing bracket (`TakenForBracket`): at most once for each
literal that was opened, and behind an element. That is more than the parser does: which brackets
are closed is not counted. `Written` says of a whole text, without a cursor, which token begins at a place.

Each `MC*` module holds what TLC needs: values of constants, symmetry, and
state constraints, named and explained there. The header of each component module
names the definitions in it that are faulty variants of others; PROJECT.json
"mutants" pairs each with the property that detects it.

Most modules state their types as the first conjunct of an invariant (`TypeOK` in
`Chained`, `Sorted`, `RefCounted`, `LoopsKept`, `ImportedOnce`, `CursorTells`, and
`LoopIsWhole` of the array) and not on their own.

### Abstractions

- Values are addresses or atoms; numbers, text, metatables and managed objects
  (`T_MAND`) are left out. A string longer than `MAX_KPOOL_LEN` is not interned
  and behaves as a container without contents.
- `YmdHeap`: the items of a container belong to it, and the containers that
  natives build (metatables, `argv` of the host) are built by the same
  functions. Both roots and C locals are there, but the C stack itself is not a
  root, as in the code.
- `YmdCall`: nothing checks `MAX_LOCAL` in the code; calls beyond it are left
  out since what they overwrite depends on the layout of the context. An
  assertion that fails ends the program: no step.
- `YmdArray`: a `dyay_get` out of bounds fails an assertion that ends the program: no step.
- `YmdPickle`: loads are of dumps that did not overrun their buffer, whole, cut at any
  place, or with one byte replaced; a byte has two bits of content, and the widths of 64, 32
  and 16 bits are 5, 4 and 3. A load that a negative length sends back is not followed
  further (it ends "back"), and allocation does not fail, however high a count.
- `YmdTest`: the table of globals is replaced at most once; two suites with `Test` in
  their names and other globals that only take room.
- `YmdAccount`: sizes are units, the ratio of items to steps is the code's.

## 3. The runs

| run | instance | properties | shows |
|---|---|---|---|
| heap | 4 addresses, 1 spelling, stack 3, 1 local, 1 call, pause 1, at most 2 references (3 with a clone) | TypeOK, SafeUnlessExposed, LeakedUnreachable, PoolUnique, GrabsReleased | no collection frees what is reached or held; panics leak but leave no reference; strings are unique; what stays grabbed |
| heap_globals | 3 addresses | *GlobalsLive fails* | the collection inside `vm_putg` frees the name |
| call | 1 compiled function, pcall, error; 5 slots, 4 frames | TypeOK, JumpTargets, BalancedUnlessDirty, NeverShort, ArgvOfCall, LocalsOfCallers | every order of nested calls, errors and panics |
| hash_map | 4 keys, one mutable and refused, 3 hash values, arrays of 2 to 8, loops over values | Chained, RehashFits, HeadsFound, LoopIsWhole, IsDictionary | the other keys implement `YmdMap`; loops are whole |
| skip_list | 2 pointers, 2 arrays, 1 list that changes; 2 levels, 3 nodes | Sorted, LoopIsWhole, IsDictionary | implements `YmdMap` for the arrays; loops are whole |
| array | 2 values, capacities 0 and 2, 3 elements, numbers of 3 bits | LoopIsWhole, RangeIsExact, IsList, LoopEnds | implements `YmdList`; loops are whole and end |
| account | 3 functions, 2 chunks, nesting 2, 1 failure | RefCounted, Accounted, CollectsInTime | the account agrees with the blocks |
| account_freed | as account | *AllFreed fails* | a failed compilation breaks the account |
| code | programs of 4 phrases, 2 operands per instruction | NothingHeldUnlessSlipped, LoopsKept, OperandsAgree | the code generator is right but for three constructs |
| lex | every text of at most 4 characters of 21 classes | AsWritten, CursorTells, Ends | the tokens are those of the text; where the cursor is; what `lex_next` comes back from |
| pickle | an array and a map that may hold each other, 2 entries, 12 leaves, a buffer of 5 bytes | RoundTrip, NoOverrun, MarksMeanSelf, LoadKeepsCaller | what is read back, and what fails and how |
| test | 1 file, 2 suites, 3 contents, 2 tests, 3 free entries, 2 nested calls | ImportedOnce, CasesInOrder, ResultTells, StopsForCause | files run once, cases in order, results tell |

Each takes between some seconds and two minutes on two cores.

The bounds. *Heap:* a hazard here
needs the global map, one object that is only held and one that is allocated, with
reuse of a freed one; a local that alone refers to an object while a container of one
pair is built needs a fourth address. The stack of three lets `ymd_push` overflow. One
call at a time is enough for stale locals, which the next call finds in its window;
windows above one another are in the theorem, which has no bound. States after
`exposed` are not explored: the program's behaviour is undefined from
there. *Calls:* four frames hold a function, a pcall, the function it protects,
and an error; two activations of one function are where `argv` mixes.
*Hash map:* of the hash values 0, 3 and 6 the first is one for which `position` is special,
the last one that it rounds; 0 and 3 share a position in an array of four and not
in one of eight, so that a resize splits chains, and nodes of 6 sit where heads of the
others belong and are evicted; four keys fill arrays of two and of four (entry 0 is
never allocated) and force two resizes in a row. The container has one of two hashes,
and loops are not followed in the array of eight, which behaves as that of four; a loop
over keys or pairs is one over values that no nil ends.
*Lexer:* four characters hold a string with an escaped newline or quote, a comment with
a line after it, a hexadecimal number with a digit and what ends it, and every pair of
tokens of two characters. *Skip
list:* three nodes of two heights contain a path that differs from level to level, and
one that goes down at the head; keys of four kinds (pointer, array, list, and a list that
holds a map) are compared within and across types, the two arrays by their common
part and by their lengths. *Array:* with `MaxAdd` 1 an array of three has grown three
times from empty; three bits give every range up to both edges of the
width. *Pickle:* two containers are enough for a cycle through both and through one;
a string that fits the buffer once it has doubled and one that never does, numbers
of one, two and three bytes of both signs, the least among them, both booleans, a nil, a pointer,
functions of both kinds; a byte replaced may turn a length or a count negative. A load or a
text changes neither containers nor marks, so the run does not go on from them (`Continued`):
what may follow them may follow what was before. *Test:* two
suites of two tests differ in order, in type and in a key that is no string;
the theorems of section 5 have no bound on files and suites. *Account:* steps of
two items meet "exactly full", "one over" and "empty"; a word of 32 values
lets the threshold reach 0 by halving and by being shifted out. *Code:* the
patches of one construct are disturbed by at most what it directly contains and
what contains it; four phrases give, for instance, a break inside an if with
an elif inside a loop, or a closure with a loop in the expression a loop
iterates over. A run with five phrases and one operand (ten million states, five
minutes) finds nothing else. Programs that have slipped are not continued: their
code is wrong, and section 4 says how.

Deadlock is checked where the program never stops (calls, maps, lists, arrays): in the hash
map it also says that a resize, which is the only thing that can go on once it has begun,
comes to its end. In the lexer's run it stops when the text has been compiled or refused, in the
heap runs it stops for want of addresses, in the account runs after `Finish`, in the
code run when the machine has run, in the pickle run when a load has stopped the
program, in the test run when the program has returned.

Fairness is assumed in two places. In `YmdLex` a `lex_next` that has been called goes on (`WF`
of `Lexing`, its own steps), since it is sequential C code without a wait, and Ends says that it comes
back. Nothing is assumed of the parser: that it asks again, or stops, is not true of the code
(section 4, `with`), and that a text is read to its end is therefore not claimed. In `YmdArray` the iterator is
called again (`WF` of its steps): when the body of a loop has ended `vm_run` jumps back
to `I_FOREACH`'s call. LoopEnds is about programs whose bodies end; what the bodies do
in the meantime is unrestricted.

## 4. What the runs and the proofs found

- **Exposed objects.** `NoDangling` as such fails: `SafeUnlessExposed` says
  that it holds until some C code relies on an object that neither a root nor
  a grab protects, and `exposed` records just the sites where that can happen:
  `kpool_index` returns a pooled string without grabbing it and `vm_def`
  allocates before linking it (run heap_globals, state.c:155-173);
  `ymk_chunk` releases the file name before a function refers to the chunk
  (compiler.c:63); `call_init` zeroes as many locals as the *caller* has
  (call.c:12), so a callee with more starts with stale values. `blk_kz` is of the first kind
  (closure.c:51-52): a constant found in the pool is kept by nothing while `blk_klast` makes
  room for it. The theorem
  says that there are no other such sites among the modelled ones.
- **typeof keeps its name** (`TypeNamed` in `GrabsReleased`): `I_TYPEOF` pushes what
  `typeof_kstr` has fetched (call.c:325-329, value.c:30-33) and nothing releases it. A name
  that was in the pool is not grabbed, one that is new stays grabbed, whether referred to or not,
  until some other fetch of that spelling releases it. It is one string for each type. The two
  panics of `GrabsReleased` (full stack, nil in a literal) are the only others that leave
  something grabbed.
- **pcall and the value stack** (state.c:297): `ymd_error` unwinds the calls and leaves
  their operands on the value stack. `Balanced` of YmdCall, the plain statement, fails
  for it; `BalancedUnlessDirty` holds.
- **elif without else** (`NothingHeld` of YmdCode fails; compiler.c:980): the jump of the last
  condition is patched only `if (nsub == 0)`. The built program stops with "Panic!".
- **A break in another function's loop** (slip "outer"): `p->loop` is not reset for
  a nested function, so a `break` in a closure inside a loop holds a place
  in the closure, where it stays an `I_PANIC`, and patches the same position of
  the outer function over whatever is there; a `continue` may fail
  `assert(i_curr >= target)` (compiler.c:212). Outside any loop both dereference NULL.
- **Chained calls in a statement** (slip "chain"): `parse_lval` adjusts every call to
  no result, so in `f()()` the second one takes its function from below.
- Not a run, but visible in the models: `vm_copy_args` (call.c:518-522) copies the
  topmost arguments, so a function called with more than it has parameters binds
  them to the last ones, while testing/call_test.yut:4-9 expects the first.
- **Containers as keys of a map.** A container changed after it was used as a key hashes
  elsewhere, and the eviction of its node fails `assert(prev)` (hash_map.c:278).
  The attempt to prove that this takes a key that hashes otherwise than when it was put
  found that it does not: an eviction stores the new hash of a node that it leaves on the chain
  of the old one, so that later every stored hash may be that of its key and the
  head still not where the assertion looks (an array of 16, eight keys, one of
  them a container). What holds, and is proved, is `HeadsFound`: the assertion can only fail
  for a node whose key is a container; the other keys never suffer (`IsDictionary`).
- **A failed compilation breaks the account** (run account_freed): `ymc_final`
  frees no chunk that has a function and shrinks none, and the array's slack
  is never given back; `ymd_final` then fails its assertion at state.c:266. The
  built program aborts in the same way.
- **Loops and what their bodies do.** An iterator over an array or a map goes on in
  freed memory once the body's append, insert or put has replaced the block
  (libc.c:243, 283); an insert in place gives an element twice; an entry evicted in a
  map is given twice or never. The three `LoopIsWhole` say when none of this happens.
  A nil that an array holds, or that a refused put has left in a map, ends a loop over
  the values early (`I_FOREACH`). A range whose step leaves `ymd_int_t` after its last
  number wraps around and may not end (`AtEdge`).
- **Order and equality.** `compare` of maps and lists sums over the left one only, so that
  an empty one equals any; two maps with the same bindings are not `equals` if their tables
  differ in size; `hash` of a map depends on the order of its table. As keys such values, like
  pointers, may be put twice and not be found; `Settled` leaves them out and the
  other keys are shown not to suffer.
- **Pickle.** A nil is dumped and loaded, and dropped as a failed load is, since no byte
  follows its tag (`ymd_parse` returns 0). The least integer has no negation and comes back
  as 0. A function is dumped with tags its load does not read, so that loads of functions
  fail; during them a collection would meet a function without a prototype; a native
  one dumps nothing and succeeds. `zos_reserved` doubles the buffer once, and a string
  longer than the buffer was at first may overrun it (`NoOverrun` says that nothing else does). A dump
  that fails leaves the marks of the containers it was in, and these are never dumped
  again nor written by `tostring`. A length is read as an `int` and may be negative: it passes the
  check of what remains (pickle.c:180), and `zis_advance` moves the stream back; with a
  negative count the loop of an array goes on until an element fails, those of maps and lists
  do not begin. A failed load leaves all but one of the values it has
  pushed. A cut dump fails an assertion in `zis_advance`.
- **Import** marks the file first: after a failure a second import does nothing and
  returns nothing. `import(f, x)` calls x and not the file (libc.c:706-709 takes the top
  of the stack); so does an empty file.
- **Literals that are not closed.** `parse_array` and `parse_map` leave their loop at any token
  that is no comma (compiler.c:364, 398), and `parse_simple` goes on to the next (compiler.c:535)
  without a look at it. After `a=[1` that token was the end, and the lexer goes on behind the NUL
  (`off = Len(text) + 1`, mode "beyond"); in `a=[b @x=1` it was an error of the lexer, and the
  program compiles, with the error taken for the bracket. `AsWritten` says what the tokens are in
  these cases too, `CursorTells` that the cursor leaves the text in no other than these and the
  comment below.
- **The lexer.** The byte 0xFF is -1 as a `char` with a sign, which is `EOS` (lex.c:43): a program
  ends there for the parser, unless the byte is in a string or a comment. A string that is not closed is read for ever (`lex_read_raw` has no case for
  the end; `Ends` excludes it). A comment in a last line without a newline is read past the
  NUL (`lex_skip_line`, mode "beyond"). An escaped newline in a string is not counted, so
  lines and columns are wrong from there on (`escaped`), and a message may show
  a part of another line. A syntax error at the end of the text finds the cursor behind the NUL and
  prints whatever is there (`lex_line`). The place of `->` is one too low (lex.c:230), and
  `0x` without a digit is a token: its length begins at 2, and the test for an empty number
  (lex.c:148) cannot fail.
- **The harness.** libtest.h speaks of suites that are a hashmap or a skiplist, yut_test
  skips all but lists. A case that panics prints "Passed!" and the result is 0: yut_call
  does not look at what `ymd_xcall` returns. A failed assertion outside of a suite jumps
  to a zero or stale buffer. `ymd_test` computes the end of the table of globals before
  the main script runs; a script with enough globals to resize it sends the loop
  past the end. A main file that is missing ends the program with 0 (`die`).
- Not in a model, which has no keywords: `parse_stmt` neither asks for a token nor fails at
  `with` (compiler.c:1041), so the compiler does not return from a program that has one.
- Likewise a `threshold` that reaches 0 stays there
  (`gc_adjust` doubles or halves it), either by halving in a loop that leaves
  much garbage or by 53 or so doublings of 10240 in a row, and every allocation
  collects from then on. A refused `vm_iput` may leave a key bound to the value of the key
  it evicted (`Written`). A panic on a nil in a literal leaks the literal.

## 5. Proofs

| theorem | module | says |
|---|---|---|
| TypeCorrect | YmdHeapProofs | `Spec => []TypeOK` of the heap |
| HeapSafety | YmdHeapProofs | `Spec => []SafeUnlessExposed` |
| LeaksStayApart | YmdHeapProofs | `Spec => []LeakedUnreachable` |
| PoolHasNoTwins | YmdHeapProofs | `Spec => []PoolUnique` |
| GrabsAreReleased | YmdHeapProofs | `Spec => GrabsReleased` |
| CallTypes | YmdCallProofs | `Spec => []TypeOK` of the calls |
| JumpsAreSafe | YmdCallProofs | `Spec => []JumpTargets` |
| OperandsAreKept | YmdCallProofs | `Spec => []NeverShort` |
| StackIsBalanced | YmdCallProofs | `Spec => []BalancedUnlessDirty` |
| ArgvIsOfCall | YmdCallProofs | `Spec => []ArgvOfCall` |
| CallersKeepLocals | YmdCallProofs | `Spec => LocalsOfCallers` |
| RaisesLand | YmdLibraryProofs | `TestSpec => []StopsForCause` of import and harness |
| FilesRunOnce | YmdLibraryProofs | `TestSpec => []ImportedOnce` |
| ResultIsTrue | YmdLibraryProofs | `TestSpec => []ResultTells` |
| CasesRunInOrder | YmdLibraryProofs | `TestSpec => []CasesInOrder` |
| ArrayIsList | YmdLibraryProofs | `Spec => IsList`: the array implements `YmdList` |
| LoopsAreWhole | YmdLibraryProofs | `Spec => []LoopIsWhole` of the array |
| RangesAreExact | YmdLibraryProofs | `Spec => []RangeIsExact` |
| ChainsHold | YmdHashMapProofs | `Spec => []Chained` |
| RehashEnds | YmdHashMapProofs | `Spec => []RehashFits` |
| PreviousIsFound | YmdHashMapProofs | `Spec => []HeadsFound` |
| MapLoopsAreWhole | YmdHashMapProofs | `Spec => []LoopIsWhole` of the map |
| MapIsDictionary | YmdHashMapProofs | `Spec => IsDictionary`: the hash map implements `YmdMap` |
| ListIsSorted | YmdSkipListProofs | `Spec => []Sorted` of the skip list |
| ListLoopsAreWhole | YmdSkipListProofs | `Spec => []LoopIsWhole` of the skip list |
| ListIsDictionary | YmdSkipListProofs | `Spec => IsDictionary`: the skip list implements `YmdMap` |
| CursorIsPlaced | YmdCompilerProofs | `LexSpec => []CursorTells` of the lexer |
| TokensAreWritten | YmdCompilerProofs | `LexSpec => []AsWritten` |
| NoJumpForgotten | YmdCompilerProofs | `Spec => []NothingHeldUnlessSlipped` of the code generator |
| CodeTypes | YmdCompilerProofs | `Spec => []TypeOK` of the code generator |
| LoopsAreKept | YmdFlowProofs | `Spec => [](Len(Complete) < OffsetLimit => LoopsKept)` |
| OperandsDoAgree | YmdFlowProofs | `Spec => [](Len(out) < OffsetLimit => OperandsAgree)` |
| ChunksAreCounted | YmdAccountProofs | `Spec => []RefCounted` |
| AccountIsExact | YmdAccountProofs | `Spec => []Accounted` |
| GarbageIsCollected | YmdAccountProofs | `Spec => CollectsInTime` |
| FreedUnlessFailed | YmdAccountProofs | `Spec => [](failed = 0 => AllFreed)` |

They hold for any sets of objects, texts, values and functions and any bounds, from
the assumptions alone that the modules name (`HeapAssumption`, `CallAssumption`, `TestAssumption`,
`ArrayAssumption`, `MapAssumption`, `LexAssumption`, `CodeAssumption`, `AccountAssumption`, `ListAssumption`,
`OrderAssumption`), which TLC evaluates in every run. All but the last say that the kinds of constants are distinct,
the sizes and bounds numbers, and for the account that memory holds finitely many blocks. `OrderAssumption` says what `compare` and `equals` must give for a settled key of a
skip list: it is before or after each other key, equal to none, the same whatever that key turns
into, and no two values compare against its order. For the keys of run skip_list TLC computes this
from `YmdValue`.

*Heap.* `TypeOK` is not inductive: a step that uses `op.obj` needs to know
what kind of object it is. `TInv` adds `OpShape` (for every place in a C
function, what is held and what is on the stack). For safety the invariant
must speak of more than what is reached now: what a panic leaked and what is
under construction are allocated but must be referred to by nothing. `Sound` is
the set of allocated objects that are neither; `SInv` says that the roots are
in it, that it is closed under references (`KidsSound`, also for objects that are
garbage already, since a collection frees some garbage and never half of
a live structure), that an object under construction refers only to what
is reached anyway (`NewSound`), that a name in hand is grabbed or reached
(`KeySound`), that only strings, leaked objects and the one in hand are gray
(`GrayKinds`: this is what makes `Keep`, the objects a collection leaves,
closed), and that windows follow each other (`FramesLinked`: so that a return
shrinks the roots). The lemma behind every allocation is `HeapStep`: a step
that leaves at least `Keep`, and adds references only to sound objects,
preserves it all. `GrabsAreReleased` is a statement about steps and needs only `TInv` and that
the file name of a chunk is no longer grabbed when the chunk is there (`NameReleased`). That the closure of the roots is the least closed set is
used through `Reach`'s definition: anything closed that contains the roots
contains what is reached.

*Calls.* `CInv` strengthens the type invariant with the shape of the
call chain: the window of each call starts where its caller's ends; the heights
ascend; a native caller is a `pcall`; only the last frame is at "enter", "ok" or
"err"; levels of the jump buffers count them, and each belongs to a waiting
`pcall`, in order, the first to the host. `Panic`'s search
for the buffer with level at most 1 then finds the host's, and `Raise`
finds the frame of the nearest pcall.
`DInv` adds what the other two invariants need: a native that has just been entered or
waits has nothing on the stack (`Idle`: so what a callee returns lands where its caller's
operands end); every frame but one at "err" has on the stack what it believes, not only
the last (`Even`, while nothing is dirty: when the frames above one are gone the
one left must agree again); and a function that is in two frames is in `mixed`, each other
holds in `argv` the arguments of its only frame, and none if it has no frame (`Owns`).

*Harness.* `StopsForCause` is about a buffer in a cookie and a suite on the C stack, and
both change in many actions. The invariant `IInv` says where the harness can be:
scripts run only while it is in the main script or in a suite (`calls = <<>>`
elsewhere); while a suite is being tested the cookie is its own, and `at` is set just
then; before the main script has ended nothing is promised. `ImportedOnce` is
inductive with the types of `IInv`: that a file is on its way exactly when it is
on the call stack, and only once, is kept by an unwinding because `calls` has no
file twice, so what stays of the stack has none of what is gone.
`ResultTells` counts visits, so `RInv` follows every suite that was there when the main
script ended: it is before the harness, at hand, or behind it once (`Tracked`), and what is
before it is still bound, while no entry has moved. `CasesInOrder` speaks of the end of a
suite; `OInv` says of each place in the loop that the log is what should have been called
up to that place (`Past`), in order, and that the tests `owed` after it are those the list
now has after it, which a test that is added must keep (`AddTestO`). A step of the
loop is right if nothing wanted lies between the place it leaves and the one it goes to
(`LoopGoesOn`); for the next test that is because it is the least of those after the
node (`MinIsLeast`).

*Array.* `AInv` is the types of the block. `ResizeIsEnough` says that after a resize there
is room for one more and what was written is still there; from it each operation is
shown to change `Content` as the list does (`AddAppends`, `InsertInserts` with
`InsertAtProperties` for the place of each element after a shift, `SetOverwrites`,
`FinalClears`), which is the step of the refinement. For loops `LInv` adds that a loop which
nothing has spoiled has a live block, ends at an element the array still has, and counts its
keys with its place; without that a growing array would not keep `LoopIsWhole`. A loop over
numbers that is away from the edge (`Edge`) has been given the first so many of its range
(`Exact`): its next one is in the range while the code's test holds (`WithinIs`), so
the step to it does not wrap (`WrappedIs`), and when the test fails every number of the
range is behind (`EndsExact`).

*Hash map.* The invariant is about an array alone. `Good` says that pointers point at nodes
and free entries are blank, that no two entries point at the same one (`Single`), that heads
sit on their positions (`AtHome`) and every entry is on the chain of one (`Owned`), that a
key whose hash never changes is on the chain its hash says (`Placed`) and only once
(`Once`). `Puts` says what a put does: it keeps `Good`, leaves each other key with
its value and uses at most one more entry; it is proved for each of the four forms (`HeadedPuts`,
`LinkedPuts`, `EvictedPuts`, `ReplacedPuts`), two of which are the same change, a new node
at the end of a chain (`AddsGood`). `HInv` adds for a resize that the new array holds just what
has left the old one and uses at most as many entries (`Halfway`), hence has room, and for a loop
what it has met and has still to meet (`Midway`). A step of the dictionary is then read off
`Held`: the value in what is left of the old array, else in the new one.

None of this needs induction along a chain. A chain is a least set (`Chain`), so that what is closed
under `next` holds it (`ChainLeast`); that it has an end is a count, since `next`
is injective on it and its head is no one's next (`ChainEnds`); that there is a last free
entry is the well-foundedness of strict inclusion, used on initial segments (`LeastExists`).

*Skip list.* A list is described by the place of each node (`pos`) and its height (`ht`):
`Linear` says that on each level a pointer goes to the next node of that level. `SInv` adds that
settled keys are in order (`InOrder`) and never twice (`Once`), and of a loop that it has met what
is before its iterator (`Midway`). `InOrder` asks nothing of keys that are not settled but the side of
each settled key they are on, and `Low` and `High` do not depend on what they are now: so
a container may change while it is a key (`MutateKeeps`). The search is a
recursive function inside another. What it returns is fixed without induction: a function that satisfies
the recursion exists, since where the search stops (`Stops`) is unique and satisfies it
(`EndExists`); for any that does, a node from which it went elsewhere and whose place is greatest
cannot be (`EndIs`); likewise by levels (`UpdateExists`, `UpdateIs`). The search goes on as it goes
down and passes no node of a higher level (`UpdatePassesNone`); hence a node linked after the
nodes it stopped at is at one place on all levels (`PathIs`, `LinkIs`), and there it is in
order with the settled keys (`NewInOrder`). A settled key that is in the list is the first node
that is not smaller (`HitIs`), so `Find` is `Lookup`, the value of the node with that key, from
which the steps of the dictionary are read off.

*Lexer.* `CursorTells` is kept by every step once it is stated of every mode: `CInv` adds that
the cursor of a lexer that reads has not passed the NUL unless the token before was that of the
NUL (`BehindNul`), and that a comment it is in has begun on this line. The line begins at the greatest place after a newline (`LineStartIs`), so that a step
over a newline moves it there and any other leaves it (`LineGoesOn`). `AsWritten`
compares two descriptions of a token, one that reads (`Scan`, `ReadRaw`) and one that looks at the
text as a whole (`Written`, by maxima and minima of places). `WInv` joins them: what lies
between the token before and the cursor is blanks and comments that are over (`Passed`,
`Clear`) or one that is not (`Inside`), and what has been read of a token is its text so far
(`InDec`, `InHex`, `InSymbol`, `InString`). When the token ends, the place where it began is the
first that is possible (`FirstIs`), its length the greatest (`RunIs`), and the
quote that closes a string the first after an even number of backslashes: `UnescapedIs`
says how that count goes on, by which the two characters a backslash reads are accounted
for.

*Code generator.* `NothingHeldUnlessSlipped` speaks of complete code, and what makes it true is
on the stack of the parser: `GInv` says that what is held in a function of the chain is claimed by some
pending parse function that writes into it (`Claim`, `Claimed`), which function that is being
counted by the functions pending below it (`Level`), and its loops likewise (`Around`).
`Aligned` says that the two chains are those of that stack; it is why the innermost item of
a loop finds its own loop in `p->loop`, and why nothing is pending at the level of a function
that is left (`NothingPending`). A step takes the top of the stack and the innermost function to
others; `Goes(c, d, done, new)` says which held jumps of c are patched in d and which are held
anew, and is shown for each emitter (`EmitGoes`, `HoldGoes`, `PatchedGoes`, `LeftGoes`), then
composed (`GoesOn`). `StepKeeps` turns it into the invariant: what is patched was claimed by the item that
goes, what is held is claimed by those that come. `Kept` says that what will be patched to a conditional jump
takes a condition, so that the machine's depth stays a natural number, and `Sound` that each jump stays in
the code. A break in a nested function claims a jump for a loop of the outer one, and an elif
without an else drops one; from then on (`Clean`) only types are left. This part does not depend on
`OffsetLimit`: an offset that has been cut still goes to an instruction, the wrong one.

`LoopsKept` and `OperandsAgree` compare the place a jump leaves with the place it lands at, and the
parser is in between while it holds the jump. `FInv` is their invariant (YmdFlowProofs). `Flows` says of a
chunk up to its end what they say of a complete one: operands follow from one instruction
to the next (`Chained`), a jump lands in the loops it leaves from (`LandsIn`) and on as many
operands (`LandsOn`), the end of the code counting as a place. Each pending parse function knows of
the places it will patch the loops they are in (`Nested`) and the operands they have (`Fed`): a
branch, for instance, that its condition was there with one operand and that it goes on
with none. `Linked` relates the stack of pending functions: each goes on with what it has itself when the one
above it has ended, which leaves so many operands more or fewer (`Gap`). The loops of a place
are the slice of the chain of loops between the function it is in and the item that will patch it
(`ItsNest`), and `Ranked` numbers them, so that a loop is never inside itself. For a step it is
enough to say of the innermost chunk what has moved (`Moves`, `Settles`, `FedFrom`), of the items
that come that they fit (`Lies`, `Flat`), and that their gaps add up to that of the item they
replace (`Chain`); `StepGoes` makes the invariant of it, once for all actions. What is left is the
machine: at each step its depth is what `Chained` says of its place (`Runs`).
Both theorems name the bound that the code has and does not check: an
offset is cut to its field, so they are of code with fewer instructions than that. No
chunk of the run is longer, so there the bound excludes nothing.

*Account.* Each C function that may collect takes the memory to another, and four facts are
followed through its steps. `Sound`: `ref` counts the functions that share a chunk, what is
not there is empty, no array has more items than room, constants are there. `Pays(n, k,
exact)`: the account is at least the size of the blocks and k more, and exactly that while
nothing has failed; k is not 0 between the reallocation of an array and `gc_record` or after a
`gc_release` that comes before the block shrinks. `Later(n, q, R, D)`: what the call leaves of the
functions R that it must keep, but for the arrays of the chunks D it has written. `Tidied(n, q,
R)`: a call that records leaves the account below the threshold or, seen from its roots R, no
garbage; or it recorded nothing. Several allocations of one step, from different roots, add up
(`TidiedTwice`, `WithinKept`), and what the rest of the step links or pops stays reached
(`ReachedKept`, `LinkedWithin`, `ConstWithin`). `After` puts
them together, and is shown for the collector (`FinalIs`, `SweptIs`, `CollectedIs`),
`gc_record`, `mm_need` and `mm_shrink` (`RecordedIs`, `NeededIs`, `ShrunkIs`), then for each action.
A chunk that is freed gives back its items, not its room (`blk_final`), so the account is exact only
if a chunk no one compiles has no room to spare: `OpenChunks` says that the chunks being
compiled are those of the innermost functions of the stack, in order, which are roots, and
that the room of their arrays is their items rounded up to a step (`Round`), from which `mm_shrink`
finds what `mm_need` had recorded (`RoundedStep`). When a compilation fails its chunk keeps
its slack and only `>=` is left, which is why no release takes the account below zero even then.
The sums are over finite sets, by the
library's fold; that it has the value of one more term (`SumUnfolds`) follows from the
existence and uniqueness of its recursion, each by a smallest set that would be an exception.

Only model-checked: the pickle (`RoundTrip`, `NoOverrun`, `MarksMeanSelf`, `LoadKeepsCaller`) and the
order of values, which are recursive over data; and `LoopEnds` and `Ends`, since liveness under fairness
is out of the prover's reach.

## 6. Plan and what is not modelled

Done: the modules of section 2 and the proofs of section 5. What is left, in order:

1. An abstract stack of calls that `YmdCall` refines.
2. For `YmdCode` the tables of 128 jumps.
3. A load of `YmdPickle` in the heap of `YmdHeap`: what a failed load leaves on the stack
   is a root.

Recursion over data stays in modules that nothing is proved about (`YmdValue`,
`YmdPickle`).

Not modelled: keywords, which the lexer looks up in a table, and the tokens of a program as what
`YmdCode` compiles (there they are a choice); the parsing and writing of numbers and strings, disassembly and printing; the
regular expressions, which are third-party code; `libos_posix.c`, wrappers of system
calls; `yut.c` and `yut.h`, the harness the C tests of this repository are built
with; metatables and managed data; the values of arithmetic instructions; the checks of arguments that every
native starts with.
