# Verification of SWIG 1.3.40

SWIG reads C and C++ declarations and generates wrappers for some twenty
languages. This directory holds TLA+ models of the parts of it that have state
worth checking, TLC instances and TLAPS proofs:

* the compiler cache that ships with it (`CCache/`): several processes on one
  directory, crashes;
* the run-time code that SWIG copies into every wrapper (`Lib/`), and the code
  that it writes around it: tables that modules share, objects owned by two
  languages, calls across languages and threads;
* the places in the generator itself where a state machine, a table or an
  order written by hand stands for something simple: conditionals and macros,
  typemaps, overloading, names, symbols, fragments, what is concluded about
  classes.

    tlc -config CCache_plain.cfg MCCCache.tla     # one of the runs below
    tlapm CCacheTheorems.tla                      # the proofs

`PROJECT.json` lists components, runs, mutants (what breaks each property), the
source lines of every definition, findings, hazards and theorems.

## 1. Inventory

| Component | State | Operations | Interacts with | What is hard | Correct when |
|---|---|---|---|---|---|
| ccache driver, `CCache/ccache.c`, `util.c`, `execute.c` | cache directory, `temp/`, outputs; per process the name of the entry, temporary files, an open descriptor | `find_hash`, `from_cache`, `to_cache`, `failed`, the copy functions | other drivers, cleanup, compiler, editor, all through the file system | any interleaving of system calls, crashes, stale reads, half-stored entries | the caller gets what the compiler would give |
| ccache statistics and cleanup, `stats.c`, `cleanup.c` | counters and limits in a locked file, the files of a subdirectory | updates by drivers, `-c`, `-C`, `-z`, `-F`, `-M`, cleanup on overflow | drivers | recount outside the lock, thresholds | nothing counted twice or lost, limits kept |
| ccache hash and options, `hash.c`, `unify.c`, `args.c` | none that is shared | MD4, token stream, argument lists | driver | what enters the hash | same hash, same result |
| type tables, `Lib/swigrun.swg`, `swiginit.swg` | ring of modules, type structures, cast lists, client data | load a module, look a type or cast up, set and propagate client data | all wrappers of a process | order of loading, lists that reorder on lookup, several interpreters | one structure per type, every cast found, searches end |
| Python objects, `Lib/python/pyrun.swg`, proxies of `python.cxx` | `SwigPyObject`: pointer, ownership, link; reference counts | own, disown, acquire, append, convert, destroy | directors, the interpreter's reference counts | ownership between conversion and call, chains for several bases | destroyed exactly once |
| Python directors and threads, `Lib/python/director.swg`, `pythreads.swg` | interpreter lock, `swig_inner`, disown flag, the frames of each thread | director method, wrapper, virtual call, errors, disown | Python objects, C++ threads | calls in both directions in any nesting | the lock is held where Python is used, an override is called once |
| Java proxies and directors, `Lib/java`, `java.cxx` | address and ownership flag of the proxy, JNI reference of the C++ object | construct, `delete()`, finalize, destroy, change the owner, upcall | garbage collector, its finalizer thread | three threads that want to delete | deleted once, no stale address |
| PHP directors, `Lib/php/director.swg` | ownership map | acquire, release | PHP's reference counts | | as for Python |
| Ruby tracking, `Lib/ruby/rubytracking.swg`, `rubyrun.swg` | table from address to object | wrap, look up, disown, unlink, remove | Ruby's garbage collector | reuse of addresses | no dead object is returned |
| other runtimes, `Lib/tcl`, `lua`, `perl5`, `guile`, `csharp`, ... | little of their own | conversion, class registration | type tables | as above | as above |
| DOH, `Source/DOH` | reference counts, free list, hash and list contents, iterators | new, copy, delete, insert, remove, iterate | the whole generator | change during iteration | every key is found, no live object is freed |
| preprocessor, `Source/Preprocessor` | `allow`, `level`, `start_level`, `mask`, macro table, evaluator's stack | directives, macro expansion, expressions | parser | nesting of conditionals, files and macros | the same lines and texts as C |
| typemaps, `Source/Swig/typemap.c` | nested tables by type, name and method | register, copy, clear, apply, search | parser, backends | order of the search, cleared nodes | the first rule in force wins |
| names and features, `Source/Swig/naming.c` | tables by class, name and declarator | `%rename`, `%feature`, inherit, look up | parser, DOH's hashes | a table that grows while it is walked | bases pass on, the most specific wins |
| symbols and types, `Source/Swig/symbol.c`, `typesys.c`, `stype.c` | scopes, typedef tables | add, look up, resolve | parser, backends | chains and cycles, lists of overloaded methods relinked by hand | resolution ends; every overloaded method is in its list |
| fragments, `Source/Swig/fragment.c` | registered code, fragments in progress | register, emit | backends | fragments that need each other | each is emitted once, before its users |
| class analysis, `Source/Modules/allocate.cxx` | attributes of classes and methods | one pass over the classes | parse tree, backends | three kinds of inheritance, special members | the same conclusions as C++ |
| overloading, `Source/Modules/overload.cxx` | sorted declarations, shadowed ones | rank, dispatch | backends | pairwise order that need not be transitive | the most specific declaration is called |
| wrappers, `Source/Modules/emit.cxx`, `functionWrapper()` of each backend | memory and result of one call | the sections of a wrapper in their order | typemaps | eighteen hand-ordered lists of sections, exits by error | what was allocated is released |
| parser, `Source/CParse`, `Source/Swig/scanner.c` | parse tree | grammar actions | preprocessor, symbols | size | |
| the rest of the backends, `Source/Modules` | annotated tree, output files | tree walks | all of `Source/Swig` | size | |
| WAD, examples, tests, documentation, build files | | | | | |

The hazards of each part, at the line where they bite, are in `PROJECT.json`.

## 2. Plan

Done, in the order in which the parts were taken:

1. `FileSystem`, `CCache`, `PlainCompiler`: the cache and its promise.
2. `CCacheStats`: counters, limits, cleanup.
3. `TypeTable`: loading, cast lists, client data.
4. `CppConditional`, `Conditionals`, `CppExpr`, `Macros`: the preprocessor.
5. `WrapperCode`, `Overload`, `Typemaps` with `TypeReductions`, `Fragments`: what a generated function
   does, and how it is chosen and put together.
6. `PyObjects`, `PyDirectors`, `RubyObjects`, `JavaObjects`: objects and calls
   that two languages share.
7. `NameTables` (with DOH's hash tables), `Symbols` and `Allocate`: what is known
   about the declarations before anything is generated.

`MCSwig` composes 3 to 7 by a variable `part`: every behaviour is
one of one part, because the parts have no state in common (the preprocessor has
ended when the parser asks for names; the generator has ended when a wrapper
runs). It EXTENDS the modules that have theorems, so that the properties it checks
are the ones that are proved, and the `ASSUME`s are evaluated; the others are
instances. Where two parts do meet in one behaviour they are one module: directives
with `%include`, tables of names with hash tables, directors with the lock.

Left, in this order: scopes and typedefs (`typesys.c`, the rest of `symbol.c`);
reference counts of DOH; directors of C#, PHP and Ruby.

## 3. Modules and the code

### CCache, FileSystem, PlainCompiler

`FileSystem` has one operator per system call on a set of inodes; an open
descriptor is one more name, which is how an unlinked file stays readable.

In `CCache` a *tree* is a place where one driver runs at a time, again and
again. `pc[t]` names the next system call whose effect or result depends on
other processes; calls on a driver's own temporary files are merged with
their neighbours. The actions follow the code: `FindHash` is `find_hash()`;
`OpenStderr`, `StatObject`, `TestEntry`, `Drop`, `OpenList`, `Retrieve`,
`RetrieveLink`, `RetrieveCopy`, `DropFreed`, `Deliver` are `from_cache()`;
`Compile` to `PutStderr` are `to_cache()` with `safe_rename()`,
`commit_to_cache()` and `_copy_file()`; `Exec` and `ExecEnd` are `failed()` and
the compiler it execs. `Edit` is the user's editor, `Crash` a kill at any point,
`Clean` and `Wipe` single unlinks of a cleanup and of `ccache -C`.
A `Key` stands for what the hash tells apart. File contents are records: the
version and part they came from, whether the compiler finished, whether they
are compressed, whether the preprocessor's messages are in them.

`DropFreed` models `unlink(stderr_file)` at `ccache.c:716`, where the string
was freed before: either the name is still intact and the entry goes, or it
is not and nothing happens.

`PlainCompiler` is the promise: each tree asks and is answered with the result
for a version its source had while it waited. There is no cache in it. The
mapping takes a driver that runs as a waiting tree and, for one that ended, the
version its outputs, status and messages agree with, or a value that
`PlainCompiler` never produces.

### CCacheStats

One of the 16 subdirectories, which share nothing. `dir` is the list of cached
files, the least recently used first; a file of n KB is a set of n blocks. A driver counts a hit or a miss
(`Hit`, `Store` ... `Tocache`, `Broken`) in two steps under the lock, `Read` and
`Write`; when `Exceeded`, `Write` continues with the cleanup: `Traverse`,
`CleanOne` per file, `CleanEnd`, and `stats_set_sizes()` under the lock again.
`CleanupAll`, `WipeAll` and `Command` are `-c`, `-C`, and `-z`, `-F`, `-M`.
`CCache` and `CCacheStats` describe the same driver at two levels: in the
former a cleanup may take any file at any time, which covers every choice the
latter makes.

### TypeTable

`table` has the fields of the structures, one `swig_type_info` `<<module, name>>` and
one `swig_cast_info` `<<module, to, from>>` each; lists are pointers, because the bugs
to look for are pointer bugs. `SWIG_init(i, m)` is the generated function of that
name up to the loops: the search for the module and the links of the ring. `loading`
says in which loop the call then is. `NextType` is a turn of the loop over the types up
to `while (cast->type)`, `NextCast` a turn of that one, `EndCasts` the assignment to
`types[i]`; `EndTypes` goes over to `SWIG_PropagateClientData()`, of which `NextClass`
is a turn, with the recursion of `SWIG_TypeClientData()` (`Reached`). Nothing else runs
in the process until `loading` is `AtRest` again (see "not modelled" for threads).
`ConvertPtr` and `ConvertPtrByName` are the conversions of Lua and Tcl, of which the
tables notice that the cast found moves to the front. A search that does not end is a
call that does not return: `SWIG_init` is then disabled, and `SearchesEnd` says
that this does not happen.

### Conditionals, CppConditional

`Conditionals` is what the directives promise: a stack of groups, each waiting
for its branch, live or done; a text line is passed on when all are live.
`CppConditional` is `Preprocessor_parse()`, which has no stack but `allow`,
`level`, `start_level`, `mask` and the line numbers of the open groups. A step
is a line: `If`, `Elif`, `Endif`, `Define` (and `#undef`), `Text`, `Include` (and
`%import`, which calls the function again, with the locals of the waiting
calls in `callers`), `EndOfFile`. `#else` is `Elif` with a condition that holds.
Conditions are any truth value. `Abstract` recovers the groups from the
variables; the mapping is checked and proved.

### CppExpr

`Preprocessor_expr()`, a step per token: the stack of values, operators and open
groups, reduced when something of lower precedence comes. The result is
compared with a grammar of expressions (`Phrase`), which knows nothing of
stacks. `RightUnlessLate` excepts expressions in which an operator is pushed
on one that should have been applied first: one operator at most is reduced
before a push (`expr.c:367`), which is the finding `expr_precedence`.

### Macros

Expansion is the recursion of `Preprocessor_replace()`, `find_args()` and
`expand_macro()`, over texts of names and parentheses: a text is walked along
once, arguments are expanded before they are put in, and a macro is marked
while its value is walked along. `C_expand` is the rule of the C standard, with
its hide sets and the rescan behind the call. `Doubt` names the texts for which
C itself leaves open whether a nested call is expanded, and those in which the
code is known to differ (see the remarks below).

### WrapperCode

`Written` is what each backend's `functionWrapper()` emits: the order of the
sections, with or without a label for errors, and which sections it forgets.
`code` is what every module writes, `lacks` the code that a module never looks
for. A behaviour is a call: for a language, a list of parameters and any number of
arguments given, each typemap allocates, fails or frees (`Hidden`, `In`, `Passes`,
`Fails`, `Action`, `Out`, `Argout`, `Freearg`, `Newfree`; `Lacks` goes past code that
is not there), until `ReturnResult`. `ends` tells a return from a failure through
the label and from leaving past it.

### Overload

`SortArgc` and `SortTypes` are the two exchange sorts of `Swig_overload_rank()`,
a step per pair (`Turn` is the two loops, `left` and `right` their indices);
`Dispatch` and `FastDispatch` are the generated dispatch functions, and `TypeChecked`
the parameters that the fast one checks. The precedences of the types, their typecheck
typemaps (texts, which the fast one compares, and which several types may share), the
classes that are derived from others and the values that pass a typecheck typemap are
constants, and so is the number of declarations (`nnodes`). The loop that sorts by types breaks
off where the number of required parameters changes; here such pairs are passed
over, which is the same because the list is sorted by it (`ArgcStaysSorted`).

### Typemaps

The nested tables of `typemap.c` are one function from method and parameters to
code, and the nodes that exist without code, because a node that lost its code
still ends or continues a search. `Register`, `Copy`, `Clear`, `Apply` and
`ClearApply` are the directives; `typemap_search` looks for one parameter behind
others and `typemap_search_multi` calls it for each parameter of a list. What the
search looks at for a parameter, and in which order, are the constants `OwnTypes` (the
type with names, arrays, qualifiers and typedefs) and `DefaultTypes`; `TypeReductions` computes
them for the types of a small interface file, as the loops of `typemap_search()` do: the
defaults of an array are those of `SwigType_default()`, an array of any dimension, one
without a dimension, a pointer and then anything (`defaults`). The
rules in force are kept beside the tables as a history and `SearchIsRight` compares.

### Fragments

`calls` is the C stack of `Swig_fragment_emit()`, which calls itself for what a
fragment needs: a frame is the fragment, the rest of the list that is looked at and
the lists behind it. `Circle`, `NotFound`, `Emitted` and `Emit` are what happens to
the next name of the list, `NextArgument` the loop over the `"fragment"` arguments,
`Done` the end, where the code is written. `Swig_fragment_register` and a call from
outside happen only between the calls. Fragments for a type and unknown sections
are left out.

### PyObjects

The C++ objects, the proxy instances, the `SwigPyObject`s with their links, and
every reference count as the code keeps it. Calls of the program are
`InitShadowInstance` (a constructor), `InitBase` (a second wrapped base class),
`ReturnOwned`, `ReturnPointer`, `ReturnDirector`, `Pass`, `Acquire`, `Disown`,
`DirectorOut` and `DirectorFree` (what a director keeps alive), `CppDeletes`, `Drop`.
A `Py_DECREF` or a `delete` leads to others: `pyTodo` is what those that run have
still to do, in order, and `Destroy` (with `~Director()`), `ReleaseInst`,
`ReleaseThis` (with `SwigPyObject_dealloc()`) and `Free` do the first of it and put
in its place what it calls. Calls begin when nothing is left (`Idle`): none of the
program's code runs in between (classes with `__del__` are left out).

### PyDirectors

A thread is a stack of frames; there are calls from Python to C++ (`CallMethod`
through `Wrapper`), virtual calls from C++ to Python (`Virtual`, `DirectorCalls`)
and of base implementations, errors on the way back, threads that C++ started.
`Enter` and `Released` are the macros of `pythreads.swg`, `Switch` the
interpreter that hands the lock on. `Upcall` is the test with which a wrapper
tells a call from Python's own override from a virtual one.

### RubyObjects

The table of `rubytracking.swg`, Ruby's objects with their C++ pointers, and a
heap whose addresses are used again. `Return` and `ReturnNew` wrap a pointer,
`ConvertDisown` gives an object to C++, `CollectValue` is the garbage collector with
the generated free function, `CppDelete` a `%freefunc` as the manual asks for.

### JavaObjects

Proxies with address and flag, C++ objects with a weak or global reference to
their proxy, threads as stacks of the calls that are open, among them the
finalizer's. `delete()` is synchronized and in three steps (`DeleteTest`,
`DeleteClear`, the destructor with `DtorDisconnect`, `Disconnect`, `DtorRelease`);
`ReleaseOwnership` and `TakeOwnership` are `java_change_ownership()`; `CollectProxy`
clears weak references and finalizes.

### NameTables

DOH's hash table with its buckets, `Insert` with resizing and the iterator of
`Hash_nextiter()`, and on it the tables of `naming.c`: `Directive` enters an
object for a name and a declarator, `ParseClass` starts
`Swig_name_object_inherit()` for each base, a step (`Visit`) per entry that the
iterator gives, while it adds entries to the same table. `Swig_name_object_get`
and `Swig_features_get` are the lookups.

### Allocate

A step declares a class with its bases and members and takes the conclusions of
`allocate.cxx`: `Implicit` special members, `Forbidden` operators,
`is_abstract_inherit`, and for each method `function_is_defined_in_bases`. What
C++ says is stated beside it (`Constructor`, `Destructor`, `Copy`, `Assignment`,
`New`, `Unimplemented`, `Virtual`) and `ClassesRight` compares the two; each
exception in it is named and is a remark below.

### Symbols

The methods of one name, and the lists that the `sym:` attributes make of them.
`Declare` is `add_symbols()` in a base class, an `%extend` before the class, the
class, and an `%extend` behind it (`place`); `EndOfClass` includes
`merge_extensions()`, which takes methods out of one table and may throw others
out of the next (`Swig_symbol_remove`, `Add`). `Visit` is what the type pass does
with a node: `usingDeclaration` puts copies of the base's methods into the list
where the declaration stood, `clean_overloaded` takes out what gets no wrapper.
`Wrapped` lists what the language modules then see. `tab` holds the nodes by
number, 0 for no node, so that a link that is left over shows.

## 4. Runs

| Run | Question | Properties | States, time |
|---|---|---|---|
| `ccache_plain` | two trees, two versions, copying drivers, crashes, cleanup | `TypeOK`, `CacheRight`, `ImplementsCompiler` | 740,000, 100 s |
| `ccache_swig` | SWIG with two generated files, `.outfiles`, compression | `SameAsCompiler`, `NoStrayTemps` | 173,000, 16 s |
| `ccache_verdicts` | compile errors, preprocessor errors, output on stdout; do runs end like the compiler's? | `SameAsCompiler`, `OneInodePerName`, `ImplementsCompilerFairly` | 13,000, 10 s |
| `ccache_modes` | `CCACHE_READONLY` next to `CCACHE_RECACHE`, hard links, `ccache -C` | `EveryRunEnds` | 200,000, 80 s |
| `ccache_wipe` | *violation*: `ccache -C` during a compile | `SameAsCompiler` | |
| `stats_alone` | the limits, one process, three files | `TypeOK`, `SizesCoverFiles`, `KeepsBelowLimits`, `OldestFirst` | 295,000, 10 s |
| `stats_pair` | two processes, crashes, failing unlinks | `EveryUpdateCounts`, `EveryProcessEnds` | 48,000, 12 s |
| `types_rings` | *violation*: one module in two interpreters | `SearchesEnd` | |
| `swig_parts` | every part of SWIG, one per behaviour | see the next table | 571,000, 150 s |
| `typemap_apply` | *violation*: `%apply` and a typemap that exists | `ApplyKeeps` | |
| `expr_precedence` | *violation*: the value of every condition | `PrecedenceRespected` | |
| `py_disown` | *violation*: `disown_X()` with threads | `ReferencesCounted` | |

The invariants of `swig_parts`, with `TypesOK` for all parts:

| Part | Module | Properties | What they say |
|---|---|---|---|
| conditionals | `CppConditional` | `ImplementsConditionals`, `ImportedMarked` | the variables are a stack of groups; `SWIGIMPORTED` is defined in imported files only |
| expressions | `CppExpr` | `EvaluatorRight` | errors are found, assertions hold, values are right unless an operator came late |
| macros | `Macros` | `ExpandsAsC` | the expansion ends, and as C's does |
| wrapper | `WrapperCode` | `CallsRelease` | what the arguments allocated is freed, once and not before its last use, when a call returns and when it fails through the label |
| overload | `Overload` | `FastIsRight`, `MostSpecific`, `OverloadsRight` | the checks that are left out do not matter; the best declaration is called; one that never is was warned about (`NoneLostSilently`) |
| typemaps | `Typemaps` | `SearchIsRight` | the first rule in force, as many parameters as possible before fewer, whatever nodes have lost their code |
| fragments | `Fragments` | `NeedsFirst` | once each, behind what they need, and none forgotten |
| types | `TypeTable` | `TablesAgree`, `ClassesAreShared`, `SearchesEnd` | one structure per type, each cast once, back pointers right; classes shared by equivalent types; no search runs for ever |
| python | `PyObjects` | `OneOwner`, `DestroyedOnce` | somebody has to destroy each object, nobody does so twice, the counts are the references |
| ruby | `RubyObjects` | `TrackingRight` | table and objects agree, no stale pointer, one Ruby object per C++ object |
| directors | `PyDirectors` | `LockIsRight`, `OverridesRun`, `ProtectedOutside` | the lock; no override passed over and no endless recursion; protected methods stay so |
| java | `JavaObjects` | `JavaDestroysOnce`, `JavaUpcallsArrive` | deleted once, no stale address; a proxy that C++ needs is not collected, references are given back as what they are |
| names | `NameTables` | `NamesRight` | keys are found after every insertion, bases pass on their entries, the most specific entry wins |
| classes | `Allocate` | `ClassesRight` | special members, abstract classes, virtual and left-out methods as in C++ |
| symbols | `Symbols` | `OverloadsRight` | each overloaded method has a wrapper name of its own, one dispatch function is written and finds all of them |

**Bounds.** `CCache` has no counter, so its instances are complete for their
sets. Two trees give every race of two drivers with a cleanup and an editor; a
third driver would have to interfere within a window that a crash, an edit and
a cleanup of arbitrary names do not already open. Two keys are a right and a
wrong result, two generated files a first and a last turn of the loops. In
`CCacheStats` `MaxCount` stops new compiles when a counter reaches it; three
files of 1, 1 and 2 KB with limits of two files and three kilobytes make either
limit the one that is exceeded. The four modules of `TypeTable` are chosen so
that types and casts meet in every way: types that two modules know and neither
wraps, a base class with a derived one, names of one type known pairwise by
different modules.

Some bounds are constants of the modules, others are conjuncts that `SwigNext`
in `MCSwig` adds to the steps of a part. In `swig_parts`: the files that are
open, up to three, have seven lines together (`FewLines`), so that either one
has six directives, which nest and close three groups (`CondLines`, one more
than the variables can name apart), or calls are made between short ones. Five
tokens put a binary operator between two others, and a unary one behind a
binary one; seven are used for the finding. A wrapper with two parameters can
fail behind an argument that allocated; there are all kinds of parameter and
all 18 backends. Three of eighteen declarations make the smallest circle of
pairwise comparisons. Three directives on two methods can enter, clear and
copy, and typemaps are looked for by functions of one and two parameters; lists
of fragments are asked for twice. Python: two instances, three C++ objects and
three `SwigPyObject`s are an instance with two bases and a director that keeps
another object. Ruby: two addresses and three Ruby objects, so that an old
object is left when an address is used again. Directors: one Python and one C++
thread, five frames deep: a virtual call inside an override inside a wrapper,
and one more, with seven frames for both (`FewFrames`). In Python and Java,
objects that are not made yet and free addresses are alike, and the first one
is taken (`PyFirstTaken`, `JavaFirstTaken`). Java: two objects and proxies, two
program threads and the finalizer's, two calls in each other. Names: a class
with two bases, a table of two buckets that grows with its entries, three
directives, of which one name's may be `%clear...` (`FewCleared`). Macros: one
without and two with an argument, values that call each other in every pattern,
texts of up to three tokens (of three behind `f`) and calls around two or
three. Classes: three, with the bases public, protected or private, and
seventeen sets of members. Symbols: two methods in the base class and in the
early `%extend`, three in the class, one behind it, so that a method can be
thrown out at the head, in the middle and at the end of a list.

**Fairness.** Each driver of `CCache` is weakly fair as one process: the system
keeps running it. Editing, crashing, cleaning and starting are not fair. In
`CCacheStats` waiting for the lock is strongly fair, because `F_SETLKW` queues
and other processes take the lock in between. `TypeTable` states no liveness: its
loops over arrays end, and whether those over pointers do is an invariant. The other parts
of `swig_parts` state none either: the generator's loops are over finite lists (that
of the macros ends because the recursion does, or TLC would not), and the programs
that use Python, Ruby and Java objects may stop anywhere.

**Assumptions of the transparency runs.** `SameAsCompiler` is false for settings
that the passing runs of it leave out. The environments are in `MCCCache`; an
instance with one of them in place of `AllPlain` shows the failure.

* `AllHardLink`: `to_cache()` compiles into an output that may be a hard link to
  the cache entry of an older version, and rewrites it (`ccache.c:241`).
* `AllCpp2`: with `CCACHE_CPP2` the source is read again after it was hashed
  (`ccache.c:266`); an edit in between is filed under the old hash.
* `CppAndCpp2`: whether the stored messages include the preprocessor's depends
  on `CCACHE_CPP2`, which is not hashed (`ccache.c:576`).
* `PlainAndZlib`: a build without zlib tests an entry for compression and then
  reads it by name; a build with zlib may have replaced it (`ccache.c:642`).

Likewise `SizesCoverFiles` is checked for one process at a time: with two, a file
that is stored while another process cleans up is not counted (`cleanup.c:122`).

**Findings** (runs that expect a violation).

* `ccache -C` traverses the whole cache directory for each subdirectory
  (`cleanup.c:187`) and deletes the temporary files of running compiles.
* A module that is loaded into a second interpreter has its `next` pointer
  overwritten (`swiginit.swg:95`); an interpreter's list can then lead into the
  ring of the other, and its next import never returns.
* `%apply` overwrites a typemap that the target has, because the test looks at
  the code of another node (`typemap.c:502`).
* An operator that is pushed on one which binds tighter than it should find that
  one, and those below it, applied; one at most is (`expr.c:367`): `2 - 2 * 2 == 0`
  is read as `2 - (2 * 2 == 0)`.
* In a module with threads `disown_X()` increments a Python reference count
  without the interpreter lock (`director.swg:405`).

**Remarks**: what was met while modelling and has no run of its own. Where a
property excepts it, the exception is named in the module.

* *Limits.* `-F 16` to `-F 31` allow one file per subdirectory (`ccache.yo:289`);
  80 % of that is 0, which stands for "no limit" (`cleanup.c:111`):
  `KeepsBelowLimits` fails with such an `FLimits`.
* *Casts.* A module that brings a cast between two types that earlier modules
  knew adds it with a pointer to its own unused structure (`swiginit.swg:167`):
  `CastsAreCorrect` fails with `MCTypeTable!Opaque`. Conversions by structure then
  refuse a derived object for its base, and accept it when the modules are
  loaded in the other order.
* *Expressions.* `!` has a precedence below the comparisons.
* *Directives.* `%extern` becomes the text `%%import` (`cpp.c:1726`), so that
  `push_imported()` is not called. A `//` comment on the line of a directive adds
  a line.
* *Macros.* `#define foo (4+foo)` as the argument of a macro is expanded twice; a
  call with empty parentheses of a macro with an argument loses them; calls of a
  macro that is marked are not expanded in their arguments; nothing is rescanned
  with the text behind it, while Preprocessor.html:31 promises the behaviour of
  C's preprocessor.
* *Overloading.* The first sort exchanges and is not stable, so that the order of
  declarations among equals is not that of the file (SWIGPlus.html:2084).
* *Wrappers.* Exits that do not pass the label leave what was allocated: Octave's
  wrong number of arguments (`octave.cxx:647`), `return $null` in Java, `rb_raise`
  in Ruby's typemaps, hidden parameters in Tcl, against Typemaps.html:2226-2248.
* *Typemaps.* A cleared typemap of `SWIGTYPE *` stays in the way of `SWIGTYPE` (`Hides`).
* *Fragments.* In a cycle the rest of the list is lost (`fragment.c:117`); a
  fragment of a type resolves `type` and then uses `rtype`; an unknown section
  leaves the fragment in `looking_fragments`.
* *Python.* `SwigPyObject_append()` overwrites the link of the base class before
  (`pyrun.swg:523`). With three wrapped bases one is lost: its `SwigPyObject` keeps a
  reference that nobody has, and conversions no longer find it, so that `DestroyedOnce`
  and `BasesReachable` fail for `MaxBases = 3`; with two neither can happen. No run
  covers that line. An argument that is disowned before a later one
  fails belongs to nobody: `OneOwner` fails for `ArgsFail = TRUE`
  (`pyrun.swg:1109`). Objects that a dying director had acquired without a
  destructor are not deleted. `swig_set_inner()` is neither for nested calls nor
  for threads. Director methods that are called from their own wrapper keep the
  lock although `-threads` asks to release it.
* *Ruby.* With two classes for one address `OneToOne` and `NoStalePointer` fail
  (Ruby.html:10323); a disowning conversion that fails because the object is of a
  wrong class has given it away already: with `BadArgs` `OwnerKnown` fails.
* *Java.* `release()` leaves a weak reference that was cleared; `set()` with
  `mem_own` and `weak_global` both false makes a weak one that is flagged global;
  `java_change_ownership()` binds the object to any proxy it is given;
  `SWIG_DIRECTOR_OWNED` leaves `swigCMemOwn` true; `swigReleaseOwnership()` is not
  synchronized with `delete()`; `swig_override[]` is read before it is set;
  `DetachCurrentThread` (`director.swg:116`) detaches threads that somebody else
  attached. The program of the model does not do these things.
* *PHP.* The upcall is decided before the first argument is converted.
* *Names.* The iterator of `Swig_name_object_inherit()` skips entries after an
  insertion that resized the table: without `~grown`, `BasesAreInherited` fails,
  against SWIGPlus.html:2201. A base's feature is not inherited for a declarator
  for which the derived class has any entry (`naming.c:563`, Customization.html:358).
  `*::Inner::f` works for `%rename` only.
* *Classes.* A base with a private destructor does not keep SWIG from wrapping an
  implicit constructor (SWIGPlus.html:588). A method of an unrelated base, or an
  implementation that was made pure again, makes an abstract class look
  concrete (`allocate.cxx:31`). `noassign` and `nonew` do not reach
  grandchildren, and of several bases the last one decides (`allocate.cxx:697`).
  Inheritance that is not public is only seen at the class itself
  (`is_non_public_base`), so that `-fvirtual` may leave a method out that no
  wrapped class has. A method that is not virtual, found first, hides a virtual
  one of another base.

* *Using declarations.* Against CHANGES:952 and `symbol.c:112`, some orders of
  declarations leave lists in disorder; `UsingKeepsOverloads` in place of
  `OverloadsRight` shows each, and `unmended` marks them. A `using` that stands
  first and brings nothing leaves itself as the first overloaded method, so that two
  methods behind it are wrapped under one name. One whose base class has no such
  method, or names a template, stays in the list, and when it is the last no
  dispatch function is written. So does a template behind a method that was
  brought, if the class has no method of its own. And `Swig_symbol_remove()` does
  not correct `sym:overloaded`: after an early `%extend` has replaced the first
  method, a `using` behind that looks at the one that is gone.
* *Symbols.* `Swig_symbol_clookup()` does not find a global `::Foo`: it looks the
  name up with its colons. `merge_extensions()` loses a variable that an early
  `%extend` puts in place of several overloaded methods.

## 5. Proofs

| Theorem | Module | Statement |
|---|---|---|
| `TypeCorrect` | `CCacheTheorems` | `Spec => []TypeOK` |
| `CacheStaysRight` | `CCacheTheorems` | `ASSUME Copying PROVE Spec => []CacheRight` |
| `NamesStayUnique` | `NamesTheorems` | `Spec => []OneInodePerName` |
| `RunsCleanUp` | `NamesTheorems` | `Spec => []NoStrayTemps` |
| `RunsAreTransparent` | `TransparencyTheorems` | `ASSUME Copying, Alike PROVE Spec => []SameAsCompiler` |
| `CacheImplementsCompiler` | `TransparencyTheorems` | `ASSUME Copying, Alike PROVE Spec => ImplementsCompiler`, a refinement |
| `EveryCompileCounted` | `CCacheStatsTheorems` | `Spec => []EveryUpdateCounts` |
| `CountersTyped` | `CCacheStatsTheorems` | `Spec => []TypeOK` |
| `SizesStayCovered` | `CCacheStatsTheorems` | `ASSUME OneProcess, NoLimitOfOne PROVE Spec => []SizesCoverFiles` |
| `LimitsAreKept` | `CCacheStatsTheorems` | `ASSUME OneProcess, NoLimitOfOne PROVE Spec => KeepsBelowLimits` |
| `OldestGoFirst` | `CCacheStatsTheorems` | `ASSUME OneProcess, NoLimitOfOne PROVE Spec => OldestFirst` |
| `SearchesEndForOne` | `TypeTableTheorems` | `ASSUME OneInterpreter PROVE TypesSpec => []SearchesEnd` |
| `TablesAgreeForOne` | `TypeTableTheorems` | `ASSUME OneInterpreter PROVE TypesSpec => []TablesAgree` |
| `ClassesAreSharedForOne` | `TypeTableTheorems` | `ASSUME OneInterpreter PROVE TypesSpec => []ClassesAreShared` |
| `TablesTyped` | `TypeTableTheorems` | `ASSUME OneInterpreter PROVE TypesSpec => []TypesTypeOK` |
| `ConditionalsImplemented` | `SwigTheorems` | `Spec => ImplementsConditionals`, a refinement |
| `ImportedIsMarked` | `SwigTheorems` | `Spec => []ImportedMarked` |
| `LocalsAreRight` | `SwigTheorems` | the invariant that both rest on |
| `CallsStayReleased` | `SwigTheorems` | `WrapSpec => []CallsRelease` |
| `NeedsStayFirst` | `SwigTheorems` | `FragSpec => []NeedsFirst` |
| `RankingIsMostSpecific` | `SwigTheorems` | `RankSpec => []MostSpecific` |
| `FastStaysRight` | `SwigTheorems` | `RankSpec => []FastIsRight` |
| `RankTyped` | `SwigTheorems` | `RankSpec => []RankTypeOK` |
| `ArgcStaysSorted` | `SwigTheorems` | from the second sort on, the declarations are in the order of their required arguments |
| `SearchStaysRight` | `SwigTheorems` | `MapSpec => []SearchIsRight` |
| `TablesOfTypemaps` | `SwigTheorems` | a typemap is in force where a node has code, and a node for several parameters has one for each leading part |
| `TrackingStaysRight` | `RuntimeTheorems` | `ASSUME RightClasses PROVE RubySpec => []TrackingRight` |
| `LockStaysRight` | `RuntimeTheorems` | `ASSUME NoneIsNoThread PROVE DirSpec => []LockIsRight` |
| `OverridesStay` | `RuntimeTheorems` | `ASSUME NoneIsNoThread PROVE DirSpec => []OverridesRun` |
| `ProtectedStays` | `RuntimeTheorems` | `ASSUME NoneIsNoThread PROVE DirSpec => []ProtectedOutside` |
| `OwnersStay` | `RuntimeTheorems` | `ASSUME TwoBases PROVE PySpec => []OneOwner` |
| `StaysDestroyedOnce` | `RuntimeTheorems` | `ASSUME TwoBases PROVE PySpec => []DestroyedOnce` |
| `JavaStaysDestroyedOnce` | `JavaTheorems` | `ASSUME Apart PROVE JavaSpec => []JavaDestroysOnce` |
| `JavaUpcallsKeepArriving` | `JavaTheorems` | `ASSUME Apart PROVE JavaSpec => []JavaUpcallsArrive` |

They hold for every set of trees, keys, processes, threads, files, names, fragments,
objects and addresses, for all environments, depths and numbers of lines, under the
`ASSUME`s of the modules, which TLC checks in the runs, and the conditions in the
table. Those are:

* `Copying`: no `CCACHE_HARDLINK` and no `CCACHE_CPP2`. A hard link lets a compile
  rewrite an entry of the cache, and with `CCACHE_CPP2` another text is compiled than
  was hashed.
* `Alike`: no `ccache -C` meanwhile, and all builds with zlib or all without. The
  run `ccache_wipe` shows the first, the environment `PlainAndZlib` the second.
* `OneProcess`: drivers take turns, no compile breaks off, and all of them count. With
  two at a time a file that is stored during a cleanup is not counted (`cleanup.c:122`).
* `NoLimitOfOne`: no limit of a subdirectory is 1, because a cleanup aims at 80 % of
  a limit, and of 1 that is 0, "no limit" (`cleanup.c:111`).
* `OneInterpreter`: the process has one interpreter, whose list of modules no other one
  writes. With two the ring breaks, which the run `types_rings` shows.
* `RightClasses`: one wrapped type and no wrapper given an object of another one. The
  module's remarks in section 4 say what happens otherwise.
* `TwoBases`: an instance has two wrapped bases at most (with three one is lost,
  `pyrun.swg:523`), no call fails behind an argument that it took over
  (`pyrun.swg:1109`), and `NULL` is no address. Section 4 has what happens otherwise.
* `NoneIsNoThread`, `Apart`: the values for "no thread", "no object" and the
  finalizer's thread are not in the sets they stand beside.

*TypeCorrect.* `TypeOK` is not inductive: a driver reports what it read from a
descriptor, so the type of the report depends on what files hold. `TypeInv` adds
that the data under a name is of the kind of that name (`Sorted`, stated through
`Conforms`), that a driver past `OpenStderr` holds its descriptor (`FdHeld`), and
that loop indices are in range. The first part of `CCacheTheorems` proves once what
each system call does to `Conforms`, `Has`, `Contents` and `OneInode`; the steps only
name the file they create, link, rename or remove.

*CacheStaysRight.* A file gets its final name by the rename of a temporary copy,
filled from an output or from stderr, which came from `i_tmpfile`, which was made
from the version that was hashed. `RightInv` says what each of these holds while
the run is on its way, that no output shares its inode, and that no driver is in
the linking paths. Other processes' steps disturb a
driver only by removing files, after which the driver's copy is not made.

*NamesStayUnique, RunsCleanUp.* `link()`, `O_EXCL` and `fopen()` take a name that must
not be there. `NamesInv` says at which steps of a run each temporary name may be
there at all (`InPlace`); that a run which answered has left none is the case of `idle`.
The names `tmp_stderr` and `tmp_outfiles`, which error paths do leave, are there only
where the same run cannot create them again. No condition is needed: hard
links, crashes and `ccache -C` are included.

*RunsAreTransparent, CacheImplementsCompiler.* The reply of a run is put together over
many steps from files that others share. On top of `TypeInv`, `RightInv` and
`NamesInv`, `TransInv` says for each driver what its own files hold (`OwnPure`: no
preprocessor message twice, nothing compressed that is read as plain text), in which
steps the version can be one that fails (`OnTheWay`), that the version it works on is
one its source had since the run began (`OfTheRun`), and which outputs are in place at
which step (`OutsReady`, by the loop's index). For the cache it says that only
versions that compile have entries. The refinement follows: a step that answers is
`PlainCompiler`'s answer for the version that `TransInv` names, any other step of a
driver a stutter.

*EveryCompileCounted.* An update rewrites the whole file from what was read
before. `LockInv`: who is about to write holds the lock, and what it will write is
`Changed` of what is in the file now. Nothing is needed about sizes and limits,
which may be stale.

*CountersTyped.* The size of a list of files is the number of its `Blocks`, so that the
facts about sizes are facts about cardinalities. A cleanup counts `total_size` down
file by file, and what keeps it from going below zero is that it is at least the size
of the files still on the list (`SizeInv`), which no other process disturbs because
the list is the process's own.

*SizesStayCovered, LimitsAreKept, OldestGoFirst.* With one process at a time the process
knows at every step what is in the directory, and `LimitsInv` says what (`Knows`):
between runs the counters cover the files; while a compile stores, the counters and
what it stored together do; what is about to be written covers the directory and,
after a cleanup, is within the limits; during a cleanup the list is the directory and
`total_size` its size. A cleanup that stops has reached 80 % of each limit, which is
below it when the limit is not 1; hence the property of the write that follows. That
the oldest file goes first is that the list is the directory, sorted.

*SearchesEndForOne.* The ring is followed by `Walk`, so the theorem is about what a
recursive function comes to. `LeastNumber` takes the least number principle from the
well-foundedness of the finite sets (the intervals `1 .. n`), `Counting` and `Iterated`
make induction and the existence of the function of it, and `WalkOfList`, `PathOfList`
say that pointers which are linked like a list are walked like it. `ModulesInv` then
says that the modules of the interpreter are a ring (`IsRing`), and a module that is
not among them was never initialized, which is what fails with two interpreters.

*TablesAgreeForOne.* `ModulesInv` also says what the loops have done so far: modules
that are through them agree, and the one that is in them has for each name the
structure that they have, or its own (`IsStructure`). `SearchFinds` is that the
bisection finds what is in a table and nothing else, `LoadedIs` what the search through
the ring finds. `CastsInv` is about the lists: `Wanted` are the casts of each type that
the loops were at, no two types have one in common, and the list has one for each
name. A cast that is added was not in a list (`HeapAdded`); a list in which one moves
to the front keeps its casts and its back pointers (`ListMoved`), and no other list
notices (`ListElsewhere`).

*ClassesAreSharedForOne.* While a module is loaded the types it touched may lack what
they should share; `ClassesInv` says that all others have it, and `Touched` which ones
still have their turn in `SWIG_PropagateClientData()`. `ReachedIs`: the recursion comes
to all types that it should, because a set of types cannot grow more often than there
are types (`Closing`).

*ConditionalsImplemented.* The four variables of a call name a stack only if they
fit together: `LevelsOK` says that in every call on the stack `start_level` equals
`level` while lines are processed and is a level from 1 to `level` while they are
not, and that every open level has its line. With it each directive is one step of
`Conditionals` or a stutter; the lemmas are about what pushing, turning and
popping a group does to `Groups`.

*ImportedIsMarked.* `SWIGIMPORTED` is defined and undefined by the calls; that it is
right inside nested files needs that `imported_depth` counts the open `%import`s,
which is part of the same invariant.

*CallsStayReleased.* The eighteen modules agree on the order of the sections that
matter (`WrittenCode`, `Places`), and differ in what they leave out. `WrapInv` says
what is held before the cleanup section, that nothing is held behind it or behind
the label, and what has become of the result at each place; an error leaves the
sequence in the middle, which is why it speaks of every place and not of the end.

*NeedsStayFirst.* While fragments are being written, what a finished fragment needs is
there, but for one that is still open it may be ahead of it in its list, in one of its
further lists, or be the fragment that its call is at (`NeedsCome`). `FragInv` says so
for every frame on the stack, that each frame is needed by the one around it
(`Nested`), and that the same holds for what was asked for (`AskedCome`). The
name that is dropped in a circle is one that is being written; without circles
there is none, and with lists of single names nothing behind it is lost.

*RankingIsMostSpecific, FastStaysRight.* The comparison of two declarations is decided by
the first parameter that tells them apart. It is a strict order of those with as many
required parameters, and declarations that nothing tells apart stand in the same place
of it (`BeforeOrders`), if the classes are ordered by inheritance and have the
precedence of pointers, 0 (`DerivedAssumption`). That the order is partial, classes
that are not related being in none, is what an exchange sort could fail on; `ComparisonSorts` is
that it does not, for any strict order, and serves both sorts: what comes to the
front belongs before all that was there before it. `RankInv` is how far the loops have
come. The dispatch function takes the first that accepts a call, hence the most
specific one. The fast one is right by less: if a declaration in front of that one
takes as many arguments, they collide, so a check is left out only if it is the same as
one that the call passes.

*SearchStaysRight.* `MapInv` says that the typemaps in force are the nodes with code
(`RulesAreNodes`), and that a node for several parameters has one in front of it for each
leading part (`PartsHaveNodes`), which no directive may take away: `%clear` removes the
code and leaves the node. Then one search finds the first candidate with code
(`RuleIsFirst`, `SearchIsRule`), and the recursion of `typemap_search_multi()`, which
gives up where the search for a parameter comes to no node, never does so in front of
a longer typemap (`NodesInFront`). That the search begins with the parameter as it is
(`TypemapAssumption`) is needed for it. `MultiFindsLongest` is an induction
over the list from its end: the function that says what is longest from a place on is
what the recursion computes. The theorem leaves out searches that come to a
default type's node without code, as the property does: the code lets it hide the
typemaps behind it.

*TrackingStaysRight.* `TrackInv` adds to the properties that the table and the Ruby
objects agree in both directions (`Matching`) and that what a variable names exists
(`VarsLive`). Each step removes or adds one pair; there is a lemma for wrapping, for
collecting and for deleting.

*LockStaysRight, OverridesStay, ProtectedStays.* That a thread which returns is right
about the lock depends on the frame it returns to, and on what that frame did on
entry. `CallInv` therefore says which frame may stand on which (`StackOK`, `Above`): a
director method's frame remembers in `had` whether the frame below runs without the
lock, and whatever a wrapper lets go it takes back. A thread that waits comes back to
a frame other than C++'s. With it each call and return puts one frame on the stack
or takes one off, and the rest of the stack is as before. For protected methods
`ProtectedHeld` says that `swig_inner` is set only while some stack has the frame
that set it, which each way off a stack, errors included, has to keep.

*JavaStaysDestroyedOnce, JavaUpcallsKeepArriving.* A `delete()`, a destructor and
`swigDirectorDisconnect()` can be open in each other and in several threads, each
between what it read and what it does. `JavaInv` says which of these stand on which
(`Ordered`), what each still knows to be true (`Deletes`, `Transfers`, `Destructs`) and
which exclude each other in all threads (`Exclusive`: the monitor, and the flag that
one of them clears first); beside them that proxy and object know each other
(`Linked`), that a living object has who deletes it (`Owned`), and which references
JNI holds (`Referred`, `Collected`). The two properties are proved together because
the reference that makes an upcall arrive is what keeps the collector from the proxy
that has to delete.

*OwnersStay, StaysDestroyedOnce.* While a deallocation runs, the
counts and the owners are right only together with what it has still to do, so
`PyInv` speaks of `pyTodo` as well. A `SwigPyObject` is referred to by one instance,
one link or one pending call and never by two (`OneReferrer`), which is why its count
is always 1; `Chains` says which objects hang from an instance; `OnePossessor` that
a `SwigPyObject` with `own`, C++, a director or a pending `delete` has to destroy an
object, and one of them only; `Counted` what the count of an instance is made of.
`Tasks` says that nothing is pending twice and that a `Py_DECREF` of an instance,
or the `delete` of a disowned director, is the only thing pending. `Directed`: a
disowned director has its proxy, and one that is not disowned has it until the proxy
goes, which deletes the director. A proxy that C++ still refers to is therefore never
freed by Python's last variable, and `~Director()` never releases one that is gone.

*Only model-checked.* Out of the prover's reach:

* liveness and `ENABLED`: `EveryRunEnds`, `EveryProcessEnds`, `ImplementsCompilerFairly`;
* what recursive definitions and folds compute for every input, which needs induction
  over data: the algorithms on data of the generator, whose properties compare one computation with another: `EvaluatorRight`,
  `ExpandsAsC`, `NamesRight`, `ClassesRight`, `OverloadsRight`. An induction over numbers
  can be stated for one set of them (`Counting`), and was where the data is a list or a
  set; over texts, expressions and class hierarchies the prover has none.
* `KeysAreFound` of `NameTables` for any hash function: `resize()` looks for the next
  prime, and that there is one below its bound is Bertrand's postulate.
* `NoneLostSilently`, which depends on the typecheck typemaps: a type that comes first
  and passes every value of another one would take its calls, and nothing warns of that.
* `TypeTable` with several interpreters, of which `SearchesEnd` is false.

## 6. Not modelled

* In `CCache`: hash collisions, full disks apart from the failing copy, signals
  other than a kill, network file systems (`link` and `rename` are atomic), the
  log file. The error paths of `to_cache()` leave `tmp_stderr` and, for SWIG,
  `tmp_outfiles` in `temp/`; `NoStrayTemps` leaves these two out.
* In `CCacheStats`: counters other than hits, misses and the sum of the errors;
  wrap-around of a counter; `traverse()` is one step, so a directory that changes
  while it is read is seen at one moment.
* In `TypeTable`: threads. Two threads with an interpreter each can load modules
  at the same time and nothing locks the ring, so no property of it would hold.
  The search by human-readable names, dynamic casts, what a cast does to a
  pointer, and the unloading of libraries.
* In `CppConditional`: what a condition says, and more than `CondLines` open groups:
  the code writes past the 256 entries of `cond_lines` without a test.
* In `CppExpr`: strings, bit operators, division (the code does not look for a
  divisor of zero), and the end of `stack[256]`.
* In `Macros`: `#`, `##`, several and variable arguments, `%define`.
* In `Overload`: types without a typecheck rule, whose declarations are marked with
  warning 467 and sorted by no order, variable arguments, `-castmode`.
* In `WrapperCode`: what typemaps do besides allocating, failing and freeing.
* In `PyObjects`: implicit conversion, packed values, `-builtin`; calls do not pass
  directors (that is in `PyDirectors`). In `PyDirectors`: VTABLE mode, the classes
  of exceptions.
* In `JavaObjects`: enums, interfaces, premature collection during a call.
* In `NameTables`: directives for classes and globals, templates, conditions on
  declarations, `%namewarn`. In `Symbols`: names other than overloaded methods',
  namespaces, private methods, directors. In `Allocate`: directors, `%extend`,
  `using`, virtual inheritance, pure destructors, smart pointers, exceptions.
* Most of the generator. Parser, passes and the backends' printing of classes are
  sequential transformations of text and trees without shared state, where tests
  on inputs are the better tool; the definitions above therefore stand for a
  small share of its lines, and modelling the rest line by line would say nothing
  that the code does not say.
