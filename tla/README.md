# A TLA+ model of sol2

sol2 (v3.0.3, the header-only library in `src/include/sol/`) lets C++ programs
use Lua: it wraps the stack-based C API of Lua in C++ objects (references,
tables, functions, coroutines), and it exposes C++ classes and functions to
scripts (usertypes, containers, overload sets). This project models the parts of
it that keep state across calls: what a handle owns, what is on which stack,
what a metatable still points to, which bytes of a userdata hold what.

The Lua virtual machine is not part of the repository. Where a module needs a
piece of it (the registry's free list, the collector, `lua_pcall`, `lua_resume`)
it models the piece from how the headers use it; `PROJECT.json` marks those
definitions external.

## 1. The system

| component | files (`src/include/sol/`) | state | operations | what is hard |
|---|---|---|---|---|
| references | `reference.hpp`, `make_reference.hpp`, `object*.hpp` | registry slot `ref`, thread pointer `luastate` | construct, copy, move, pin, assign, nil, destroy, push, compare | manual ownership of slots; threads that are themselves collected; two states |
| stack references | `stack_reference.hpp` | thread and absolute index | push, copy, compare | index means another value once the stack moves |
| protected calls | `protected_function.hpp`, `protected_function_result.hpp`, `protected_handler.hpp`, `unsafe_function*.hpp` | a Lua stack; results that own a range of it | call, destroy/copy/move a result, throw through | stack balance on every exit, destruction order |
| coroutines, threads | `coroutine.hpp`, `thread.hpp` | per-object `stats`, per-thread stack | create, resume, copy, query | state cached in C++ of what lives in Lua |
| usertype registry | `usertype_storage.hpp`, `usertype_core.hpp`, `usertype.hpp`, `metatable.hpp`, `usertype_proxy.hpp`, `inheritance.hpp` | per-class storage inside Lua, maps of bindings, 5 metatables, base lists | register, set, index, new_index, unregister, derive | raw pointers in closures, caches of lookups, re-registration |
| object lifecycle | `stack_push.hpp`, `call.hpp`, `raii.hpp`, `usertype_traits.hpp` | userdata: bytes, metatable, constructed or not | allocate, construct, push by value/pointer/unique, `__gc` | exceptions between allocation and construction, finalisers |
| userdata layout | `stack_core.hpp` | addresses inside one userdata block | align, allocate, find | unaligned allocators, over-allocation, retry |
| state | `state.hpp`, `state_view.hpp`, `state_handling.hpp`, `load_result.hpp`, `bytecode.hpp` | globals, `package.loaded`, default handlers | open, script, load, require, panic | scripts that fail half-way, results rotated on the stack |
| tables and proxies | `table_core.hpp`, `table_proxy.hpp`, `table_iterator.hpp`, `metatable_key`, `stack_field.hpp` | keys and values on a stack | get, set, traverse, iterate | nested traversal keeps k values on the stack; iterator owns two slots |
| environments | `environment.hpp` | upvalue / environment slot | set_environment, get_environment | stack balance |
| containers | `usertype_container.hpp`, `usertype_container_launch.hpp` | a C++ container and an iterator held by Lua | index, insert, erase, next | Lua's 1-based positions, end iterators, erase while iterating |
| callables | `call.hpp`, `function_types*.hpp`, `trampoline.hpp`, `wrapper.hpp`, `overload.hpp`, `property.hpp`, `protect.hpp` | none of its own | overload selection, exception to error, yield | arity/type matching order; `longjmp` over C++ frames |
| arguments, results | `variadic_args.hpp`, `stack_iterator.hpp`, `stack_proxy*.hpp`, `as_*.hpp`, `tie.hpp` | ranges of stack indices | iterate, push, save | ranges of a stack that changes |
| checks and conversions | `stack_check*.hpp`, `stack_get*.hpp`, `unicode.hpp` | none; `record` of values used | check, get, convert UTF | how many slots a getter consumes |
| values without a state | `lua_value.hpp`, `optional*.hpp` | thread-local `lua_State*`; engaged flag | construct, assign, reset | exception safety of assignment |

Everything runs on the thread that calls it: sol has no locks and starts no
threads of its own. The concurrency there is comes from Lua: coroutines
of one state interleave at yields and share registry and globals, the collector
runs at any allocation, finalisers run C++ destructors then, and errors unwind
by `longjmp` or by exceptions.

How the parts interact: every wrapper (table, function, coroutine, object)
*is* a reference, so it shares the registry with all others; calls push on the
thread of their function and return results that own stack ranges; registering a
class stores closures that point into a C++ object which Lua owns; pushing an
object allocates a userdata by the layout code and gives it the metatables of the
class; the collector calls back into the class to destroy it.

What correctness means, per component:

- references: a slot has one owner, a handle's value stays alive and stays the
  same, nothing is pinned for ever, also when coroutines and states go away;
- calls and coroutines: what a result names is what its call left, and when the
  last result is gone the stack is as before; a coroutine object tells the truth;
- usertypes: both lookup paths give the same answer, assignments are seen by
  objects, nothing points into a storage that was cleared;
- objects: destructors run exactly once, on objects only, with their binding;
- layout: whoever computes an address from the block finds what was put there;
- containers: linear ones behave like one list, trees like one table, and a
  traversal stays defined and complete while its body changes the container;
- states and scripts: however a script ends, each slot of the stack has one owner;
  a chunk runs in its environment; a package is one value for everyone;
- tables: a path reads and writes what Lua would, whatever is missing on it, and a
  loop meets each field once while its body changes the table;
- callables: the first function that takes the arguments is called, each of its
  parameters reads its own argument, the script gets its results;
- exceptions: objects between the error and its handler are destroyed, what is
  caught is what was raised, and Lua knows which of its calls are running.

## 2. The modules

| module | lines of code it stands for | refines or proves |
|---|---|---|
| `LuaRegistry` | `luaL_ref`, `luaL_unref` (external) | |
| `SolReference` | `reference.hpp` | refines `ValueHandles` |
| `ValueHandles` | what a handle promises: it is a value | |
| `SolReferenceProof` | | nine theorems about `SolReference` |
| `CallResults` | `protected_function*.hpp`, `protected_handler.hpp`, `unsafe_function*.hpp` | |
| `CallResultsProof` | | four theorems about `CallResults` |
| `Coroutine` | `coroutine.hpp`, `thread.hpp` | |
| `CoroutineProof` | | five theorems about `Coroutine` |
| `UsertypeStorage` | `usertype_storage.hpp` | |
| `ObjectLifecycle` | `call.hpp`, `stack_core.hpp`, `stack_push.hpp`, `usertype_storage.hpp` | |
| `UserdataLayout` | `stack_core.hpp` | |
| `UserdataProof` | | eight theorems, about `ObjectLifecycle` and `UserdataLayout` |
| `Containers` | `usertype_container.hpp` | |
| `ContainersProof` | | five theorems about `Containers` |
| `Scripts` | `state_view.hpp`, `state_handling.hpp`, `load_result.hpp`, `environment.hpp` | |
| `ScriptsProof` | | five theorems about `Scripts` |
| `Tables` | `table_core.hpp`, `table_proxy.hpp`, `table_iterator.hpp`, `stack_field.hpp`, `stack_probe.hpp` | |
| `LookupsProof` | | nine theorems, about `UsertypeStorage` and `Tables` |
| `Trampolines` | `trampoline.hpp`, `protected_function.hpp`, `protected_handler.hpp`, `call.hpp` | |
| `Callables` | `call.hpp`, `stack.hpp`, `stack_check*.hpp`, `stack_get*.hpp`, `environment.hpp` | |
| `BoundCallsProof` | | eight theorems, about `Callables` and `Trampolines` |

The modules `MC...` give constants their values for TLC. `PROJECT.json` maps every
definition to its lines.

Three proof modules are about a pair of components each; since they extend both, one of
the pair carries names of its own where the two would clash (`LayoutInit`,
`LayoutNext`, `LayoutSpec` in `UserdataLayout`, `CallInit`, `CallNext`, `CallSpec`,
`CallUses` in `Callables`; in `Tables` `TablesInit`, `TablesNext`, `TablesSpec`, its
type invariant `TablesTyped`, `tablevars`, `LuaNil`, `FieldValues`, `DropIterator`).

Several modules have a constant `Uses` (or `Operations`): the set of
unusual things the program does. The code accepts all of them, and does not keep
its promises for some; section 6 lists which. The passing runs are about programs
that do none of these; every action is in the model all the same.

### LuaRegistry, SolReference, ValueHandles

State: for each Lua state its registry (`regs`: slots that hold an object or a link
of the free list), for each C++ handle `ref` and `luastate`, the objects Lua still
reaches (`roots`) and those not collected (`live`). Coroutines are objects and
thread pointers at once; a main thread is never collected.

Actions: one per constructor (`CtorDefault`, `CtorNilOn`, `CtorIndex`,
`CtorRefIndex`, `CtorCopy`, `CtorMove`, the two pinning constructors), assignment
operator and destructor of `basic_reference`; `Give`, `Unroot` and `Collect` for
what scripts and the collector do between them. `Derefed`, `Acquire`, `Steal` are
the private helpers `deref`, `copy` and the bodies of the move operations, in the
order of the code: `deref` first, then the copy.

`ValueHandles` knows no registry: a handle denotes a value, and operations copy,
move and drop values. `HandlesAreValues` says that `SolReference` implements it
under the mapping that sends a handle to what its slot holds.

### CallResults

State: one Lua stack, divided into the frames of C functions that are running;
the result objects; the stack of a second thread, for handlers that live there.
A C++ function pushes values of its own, calls (`luacall` with or without a
handler), is called back, returns, fails. Results are moved, copied, assigned,
abandoned and destroyed. The destructors look at their own members only, so `Destroy`
takes any result; in the passing run results go in the order the documentation asks
for (`InOrder`: the topmost of the frame first, an unsafe result while its values are
on top, `protected_function.rst:114`, `function.rst:56`), and `"out_of_order"` in `Uses`
lifts that. What a slot holds matters only as far as who put it there.

### Coroutine

State: one thread (idle, suspended, dead), its stack and what is below the frame
that yielded, coroutine objects with their cached `stats`, results. Resuming asks
the function for one of all outcomes: it yields, returns or fails, with zero to
`MaxValues` values. `Call` is the call without types, `CallTyped` that with `n` of
them: it pops `n` values, whatever the resume left (`n` is 0 for `call<void>`). In the
passing run typed calls ask for no more values than there are, and for all that a
function returns; `"asks_more"` and `"asks_less"` in `Uses` lift that. Scripts resume
the same thread behind the objects' backs.
`called` and `joined` (ghosts) say which call an object made last.

### UsertypeStorage

State, per class: the storage (bindings by identity, so that an old pointer
differs from a new one), `string_keys` and `auxiliary_keys`, the handlers
(`base_index` ... ), which hook `__index` and `__newindex` of each of the five
metatables and of the class's table is (absent, the table itself, a closure over
the storage of one registration), raw entries, declared bases and derived
classes. Actions are `Register` and `Unregister`, `BindMember`, `BindCall`, `BindHandler` and
`DeclareBases` for the keys `set` tells apart, and `ScriptAssign` and `ObjectAssign`
for what scripts do to the class and to its objects.
Lookup is an operator, `ObjectIndex`, because it changes nothing; the properties
compare it with `Rule`.

### ObjectLifecycle

State: each userdata's memory (none, bytes, failed, object, destroyed, a pointer to
an object of the program, freed, and the two ways of going wrong), the userdata that have a metatable, that are reachable, that
are marked for finalisation and in which order, the `__gc` of the metatables,
registrations of the class. Allocation, metatable and construction are three
actions, in the order of the code, because the collector and exceptions come in
between.

### UserdataLayout

The allocator as a state machine over addresses: request a block, place each part
behind padding, give the block up, retry, fail. The readers are operators of the
block's address. Sizes and alignments are constants; no wrapping arithmetic
occurs for sizes that can be allocated.

### Containers

State: the items between `begin()` and `end()`, the traversal that is on
(position, whether C++ still guarantees the iterator, the control variable), who
holds the userdata. A call is translated to an `Outcome` by the overloads its kind
of container selects (nothing, error, place, write, drop, or not defined);
`Perform` carries it out and moves or invalidates the iterator by the rules of the
standard library. Whether a vector grows in place is left open.

### Scripts

State: one stack, the scripts that run on it, results that own slots of it, loaded
chunks with their first upvalue, `package.loaded` and the globals. `load`,
`safe_script`, `unsafe_script`, the call of a load result, `set_environment`,
`require` of scripts, modules and open functions are actions that begin a run;
`Finish`, `Fail`, `LoadFails` end it in the way its beginning calls for: values
returned, the error put where the result was, an exception that leaves the frames
above, a panic. A script may require others while it runs. What was handed to
whom as a package is recorded in `handed` (a ghost).

### Tables

State: the fields of every table (`heap`), the stack with the tables the program
keeps there, the loops that are on. Proxies start at the table of a reference or
at one on the stack. A lookup or an assignment is a function of heap and
stack (`traverse_get`, `traverse_get_optional`, `traverse_set`, `get_tuple`,
`proxy_push`, `valid`), written with the pushes and pops the code makes; the
actions `Get`, `Set`, `ProxyPush` and `ForceProxy` carry them out. `deep` is the
recursion of the code over the keys before the last, as a function of how many of them
have been followed. The
iterator keeps the slots of table and key; `for_each` keeps them for the length of
the call. `NextAllowed` is what Lua promises of `next` while the table changes.
`PathsAgree` compares the operators with `Lookup`, which follows a path and
nothing else.

Proxies of a table on the stack are not those of a table in the registry:
`table_proxy::push` takes the branch of `global_table` for them (`proxy_push_in_place`:
the first key is read among the globals), and `valid` probes the top of the stack,
where `push_pop` put nothing. `PathsAgree` is about the code as it is: it claims that
`push` finds the value if the table is that of the globals (`Pushable`) and that
`valid` is right if the table is on top (`Probed`); the program of the passing runs
makes such proxies only there, which `"stack_push"` and `"stack_valid"` in `Uses` lift.
That neither leaves anything on the stack but the value pushed is claimed without
condition. `StackProxiesPushAlike` and `StackProxiesAskAlike` say what the documentation
does; TLC refutes both (section 6).

### Trampolines

State: the frames of C++ and of Lua with what each protects, whether objects of
C++ are alive in a frame, the error in the air and how it travels (thrown, by
`longjmp`, as the value of a Lua error), which frames Lua believes to be running.
The constant `Builds` says how Lua was compiled and whether sol propagates
exceptions. Message handlers are calls as well, and fail as well. What is due for an
error is settled when it is raised, in the same way in every build: to which call, with
what value, through which handlers. In the build `"cxx"`, where trampolines let
exceptions pass, `CatchInLua` gives out `Garbage` for them and calls no handler. So
`ErrorsArriveWhole` claims only of such an exception where it arrives, and
`HandlersSeeExceptions`, which is what the documentation says of every build, is refuted
by TLC (section 6).

### Callables

State: one call from a script: arguments on the stack, the list of functions
bound (overloads, constructors, initialisers), the position in that list, the
arities that did not fit, what each parameter took, results. Every step of
`overload_match_arity` is an action; the checks of one function are an operator
(`check_types`), which threads the record of slots used through the checkers as
the code does, in a recursive function (`Checked`) as its C++ is a recursive template; each parameter is fetched by an action of its own, since the getter
of one may leave values that the next one counts.

## 3. The runs

| run | asks | distinct states |
|---|---|---|
| `refs_two_states` | two handles (one `main_`), two states, a coroutine that may be collected: ownership of slots, values kept alive, refinement | 34 152 |
| `calls_balanced` | nested calls to depth 3, two results destroyed from the top down: stack balance, names of values, handlers | 33 590 |
| `coroutine_shared` | two objects, two results, three runs on one thread, five resumes, up to two values, typed calls for none to two | 98 004 |
| `usertypes_registered` | one class with all handlers and a constructor; a base and a derived class that share a name: lookup rule, assignments, pointers, cleanup | 238 288 |
| `objects_kept` | three objects by value, by pointer or unique, two registrations, unregistration between them, fair closing | 241 800 |
| `layout_aligned` | every alignment from 1 to 32, two sizes each, blocks at all residues modulo 64 | 21 364 |
| `containers_defined` | six kinds, up to three items, a traversal and all changes during it | 57 969 |
| `scripts_kept` | two results, requires two deep, two packages, two environments: owners of slots, environments, packages | 156 528 |
| `tables_walked` | paths of up to three keys, two nested loops, tables of the registry and the stack: counts, paths, traversal | 66 140 |
| `errors_arrive` | three calls above the program's, two handlers, Lua as C and as C++: destruction, what arrives, Lua's record | 504 804 |
| `arguments_matched` | lists of up to three functions, up to three arguments, 17 signatures: match, arguments, results | 434 786 |
| `arguments_displaced` | pairs and tuples behind another parameter: refutes `FirstMatchIsCalled` | violation |

`MCUsertypeStorage` chooses between two programs in its initial states (`scope`):
one class with every operation, or two classes with the operations that reach from
one to the other; the properties are checked for both.

Bounds. They are the smallest at which the cases of the code differ. Two handles
and three slots are enough for any two-operand operation of `basic_reference`,
with a slot on the free list behind each; two states show confusion of registries.
Depth 3 has a caller, a callee that calls back and the function called back; with
two results one is destroyed while another is above or below it. Two registrations of a class show what
the second finds of the first; three objects have a first, a last and one
between in the order of finalisation. 64 residues cover every padding of the
alignments. A container of three items has a first, middle and last one, and
erasing during a traversal has an item before, at and behind the iterator.
Three runs of a thread: one finished, one suspended, one to come. A require inside
a require is the first case where a package is asked for while it is loading. A
path of three keys has a first, a last and one between, and three tables are
the root and the two such a path can create; with two loops one is nested in the other
or runs beside it. `MCTables` lets the third table come into use only while no loop is on
and the program has no table of its own on the stack (`Small`). Four frames hold a script, a function it
calls, a protected call of that function and what the call runs; the second
handler is for the failure of the first. Three arguments have a neighbour on both
sides of the one displaced.

`CHECK_DEADLOCK FALSE` is given where the system stops: an allocator that has
returned, a state that was closed, a container that was collected, a call that
returned, a program that ended with a panic.

Fairness is used in one place. `ObjectLifecycle!ClosingSpec` has weak fairness of
what happens once `lua_close` was called: `lua_close` runs all finalisers before
it returns, it does not wait for anything. `AllDestroyedInTheEnd` needs that. All
other properties are safety properties; nothing makes a program go on calling.

Each property has a mutant in its module: an operator with the name of the mapped
definition and a suffix, preceded by a `Mutant:` comment that says which slip of
the pen it stands for. With the mutant in place of the definition the run fails.

## 4. What is proved

`SolReferenceProof` (for any handles, threads, states and objects, with any
assignment of threads to states that satisfies `ReferenceAssumption`):

- `TypeCorrect`, `SlotsAreNotShared`, `ReferencesKeepAlive`, `SlotsDoNotLeak`,
  `FreeListsStaySound`, `MainHandlesAreImmune`: the parts of the run's invariants,
  and `SlotsAreOwned`, which joins the three about slots;
- `Refinement`: `SolReference` implements `ValueHandles`.

All have the hypothesis `Uses = {}`: with self-assignment, pinning across states
or main handles made from empty coroutine handles the code does not keep them.

The argument. None of the invariants is inductive alone: that destroying a handle
does not free another's slot needs `OneOwnerPerSlot`; that a new slot is nobody's
needs the free list to be sound and to hold only free slots; that the value stays
alive needs it to be in a registry of a state that reaches it. `IInv` joins them
in `Sound(O, rf, ls, rg, lv)`, stated over *explicit* owners and registries. That
form is the point: an assignment releases and then acquires, and between the two
the module has no state, but the lemmas `ReleaseLemma`, `AcquireLemma`,
`StealLemma` and `FrameLemma` apply to the registry in between. `RefLemma` and
`UnrefLemma` say that `luaL_ref` and `luaL_unref` preserve soundness of one free
list. Each action then has a lemma `...Lemma` that gives `IInv'` and the abstract
step, from four step lemmas (`AcquireStep`, `SetRefStep`, `StealStep`, `BindStep`).

`UserdataProof` on `UserdataLayout` (for every set of types, every alignment, size and address):

- `TypeCorrect`, `OneUserdataLeft`, `PartsSound`: at most two attempts, balanced
  stack, parts aligned, inside the block and disjoint;
- `ReadersAgree`: with alignment, readers and allocator agree;
- `AlignedBlocksAreEnough`: a first block that is aligned for all its parts is not
  given up, and a userdata of one part is made wherever its blocks lie.

`LayoutInv` says how far the allocator is (`Progress`), that each part lies where
`align` leads from the end of the part before (`Chain`), and that `space` is the
rest of the block (`Room`). Without `Room` a part could be placed outside;
without `Chain` the readers, who compute from the front, could not be compared
with an allocator that works from what is left. `AlignedBlocksAreEnough` is proved on
top of `LayoutInv`, from two facts about `Padding`: it does not change when a multiple of
the alignment is added (so the sizes computed from address 0 hold for every aligned
block), and nowhere is it larger than at address 1, from which `misaligned_size` is
computed.

`CoroutineProof` (for any number of objects, results, calls, runs and values, any
stack below the calls, with and without an error handler):

- `StacksStayWhole`, `ResultsNameTheirCalls`, `RunnableIsSuspended`,
  `FinishedIsDead`: the four properties of the run `coroutine_shared`, from
  `Invariance`.

All have the hypothesis `Uses = {}`: no result is kept over the next call, where it would
name the values of another frame, and a typed call asks for no more values than the
resume left and for all that a return did. `coroutine.hpp` checks none of this; section 6
says what happens otherwise. The four properties are not inductive:
what a destructor pops depends on what lies below the frame. `IInv`
adds what the code relies on without saying it. While a function is suspended,
what is hidden below it is as long as `base`, where its run began, and belongs to
the program (`ThreadSound`); the object that made the last call holds its status
(`ObjectsSound`); and there is at most one live result, which pops the whole
stack, or nothing where only the program's values lie, or after a failure no more
than the handler's message and what lies below it (`ResultsSound`). The proof
follows `luacall`: the lemmas about `Outcomes` say what the thread looks like
after a yield, a return and a failure, `result_of` and `error_result` what the
result counts, and each action is one lemma on top of them.

`UserdataProof` on `ObjectLifecycle` (for any number of objects and registrations of the class):

- `OnlyObjectsAreDestroyed` if `"fail"` is not in `Uses`, `BindingsOutliveObjects` if
  `"bind_late"` is not, `NoneIsLost` if `"unregister"` is not. Each promise needs the
  absence of one use only, so the theorems say more than the run, which has none.

The invariant is about the order in which Lua finalises. `Marked` says that a userdata
is marked once, while its memory is still what `__gc` expects, so that the collector
cannot come for it twice. That a constructor is not overtaken by the collector needs
`HalfMade`: the call that makes the object holds it. That a `__gc` finds its binding
needs `BoundBefore`: the storage was marked before all objects still to be finalised,
and Lua takes the youngest first. That nothing is lost needs the metatable of each
owned object to have a `__gc` (`OwnedSound`), which only `unregister()` takes away.
`RemoveAtWas` and `TakeFacts` say what taking one userdata out of the order does to
the others; each action is then one lemma with a step for each conjunct.

`LookupsProof` on `UsertypeStorage` (for any classes, names, other keys and values, any lists of
bases a class may declare, any number of bindings per key and any `Operations`):

- `TypeCorrect`, `PointersLive` (`NoDanglingPointer`), `UnregisteredIsGone`
  (`NothingLeftBehind`), `EitherPathFollowsTheRule` (`ObjectsFollowTheRule`) and
  `AssignmentsSeen` (`AssignmentsReachObjects`): all properties of the run
  `usertypes_registered`.

The invariant `Sound` is about the record of one class. `KeysSound`: keys and bindings
are a bijection but for call constructors, and a handler is the binding of its key;
without that, the binding `set()` destroys could still be some handler's.
`EntriesSound`: a closure is the current binding of its key and lies only where `set()`
writes that key, so the next `set()` overwrites each copy of what it destroys.
`HooksSound` is what makes the two paths agree: as long as the class is on the fast path,
all its members are functions, it has no `__index` and no bases. It is the invariant
that `Poison` must keep, and why its condition may not be narrower. Each operation is one
lemma about records (`SetSound`, `FreshSound`, ...), each action one lemma about classes.
`AssignmentsReachObjects` is not inductive: `AssignmentKept` says that the value is in
the binding of its name, and with the rule that is what each object shows. Two
assumptions on the constants (`StorageAssumption`): names, handlers and other keys are
disjoint, and no name is the tag the model gives call constructors.

`CallResultsProof` (for any number of calls, frames, arguments, results and result
objects, with and without handlers; `CallAssumption` asks for at least one object
and one frame):

- `InvariantHolds`: the inductive invariant, `IInv`;
- `ResultsStayWithTheirCalls` (`ResultsNameTheirValues`) and `HandlersStayInPlace`
  (`HandlersAreCalled`), if `Uses` is at most `{"assign_over"}`;
- `CallsGiveTheStackBack` (`StackBalanced`), if `Uses` is empty.

That a destructor takes only its own values depends on everything above and below
them. `FramesSound` says where each frame begins: above its function and handler,
and these above all of the frame below (`Top`). `ResultsSound` puts what an object
owns between the base and the top of its frame, and `SpansApart` keeps two objects
apart; so what one of them removes is in nobody else's place, and what moves down is
named again by the index of its owner. `TargetsSound` says that the object a call
will return into is not there yet, or two calls in progress could deliver to it.
`HandlersPlaced` and `ValuesOwned` are what makes `StackBalanced` follow: each
handler on the stack is below the function of a call in progress, each value of a
call in the span of an object. The hypotheses differ because the uses do different
harm: a result moved over another only makes the stack grow (`ValuesOwned` is the
one conjunct that does not survive it), a copied one removes values twice, a typed
call that fails pops too much, an exception leaves a frame's values, and a handler of
another thread is not on this stack at all; and a result destroyed before one above it
moves that one's values away from their index. For each of these five TLC has a
counterexample to `IInv`, and the theorems are about programs that destroy results from
the top down. The proof has a lemma for each of the sequence operators
(`CutFacts`, `RepeatFacts`, ...), one for what removing a span does to all others, and
one lemma per action.

`ContainersProof` (for any values and keys, containers of any size, of every kind;
`ContainersAssumption` asks that the bound leaves room for the array, which always
has its two elements):

- `TraversalsAreWhole` (`EachItemOnce`) and `KeysAndValuesReadBack` (`KeysReadBack`),
  whatever the script does, what C++ does not define included;
- `ContainersStayDefined` (`NothingUndefined`), if none of `"out_of_range"`,
  `"empty_forward"`, `"break_loop"`, `"drop"` is in `Uses`;
- `OneListOrOneTable`, the action property `CallsLikeLua`, if the script names
  only places there are (`KeepsToPlaces`);
- `InvariantHolds`: what the others rest on.

`IInv` adds to the types that the members of a set are keys and values in one
(`MembersSound`) and that the count of a traversal is the place of the last item as
long as nothing moved behind it (`CountSound`); without `CountSound` the number a
traversal hands out would not be known to read back. `HandedOut` relates what the script was told to what
is still there; it is preserved by what does not move the items, and every other
action makes another call the last one. `CallsLikeLua` compares two descriptions: per
kind and overload (`push_back`, walks of a `forward_list`, `lower_bound` of a tree) and
`LikeAList` and `LikeATable`, which know no kinds. The lemmas that carry the proof are those
about inserting into and erasing from a sequence, and about the place of a key in a
tree (`InsertFacts` and its like): a tree is in the order of its keys, so the place is
unique, and the item there is the one `find` names.

`ScriptsProof` (for any number of result objects, calls, packages and environments,
any depth of scripts inside each other):

- `TypeCorrect`, whatever uses of the API the program makes;
- `PackagesAgree`: `OnePackageOneValue`, if none of `"cycle"`, `"global_later"`,
  `"falsy"`, `"many_values"` is in `Uses` (`PackageUses`);
- `EverySlotHasItsOwner`: `StackPartitioned`, if none of `"copy"`, `"assign_over"`,
  `"out_of_order"`, `"late_throw"`, `"panic"`, `"many_values"` is (`StackUses`);
- `EnvironmentsStay`: `ChunksSeeTheirEnvironment`, if also `"env_below"` is not;
- `PartitionHolds`: the inductive invariant of these two, `Partitioned`.

The types need the frames: what `EndRequire` takes for the package is read where the
stack ends, and what it leaves is cut at `base`. `FramesSound` says that the innermost
script lies on the top and each of the others two slots below the one it required.
`PackagesSound` then says that a package is either unknown (`Nil`, handed to nobody, no
global asked for) or is one module that everyone was handed; while a script of it runs
it is unknown, and no other script of it runs, so that the end of the script is the
first time it becomes known. `SetOnFacts`, `RemovedType`, `RotatedType` and
`ReturnedFacts` are the lemmas about the stack.

`Partitioned` divides the stack at `Floor`, below the handler and the function of the
outermost script. What is below belongs to results and to the program (`Owned`), what
is above to the scripts (`RunsSound`). `StackPartitioned` is not inductive, because it does not
say *where* the owners lie: the end of a script puts its values, or its error, at
`Floor`, and nothing of an object may be above. It does not say either that the
object a script returns into is gone and that no other object has values of that call,
which is what keeps two results apart when it returns; `RunsSound` does, also across the scripts
that it requires. `Owned` is stated over an explicit stack, results and count of the
program's own values, so that the lemmas `ResultAdded`, `ResultPassed`, `ResultVacated` and
`SetEnvironmentPartitioned` apply to the stacks in the middle of an action: `safe_script`
loads, may set an environment, gives the chunk to the call and vacates its result in one step.
`own` counts slots, so these lemmas also say which slots of the program move where,
and that as many stay (`OwnMovesDown`).

`BoundCallsProof` on `Callables` (for any set of argument lists, any lists of functions, of
any length, and any number of results):

- `FirstMatchCalled` (`FirstMatchIsCalled`), if none of `"displaced"`, `"bare"`,
  `"unchecked"` is in `CallUses` (`Checking`);
- `ArgumentsRead` (`ArgumentsAreTheirOwn`), if `"absent_table"` and `"environment"` are not
  either (`Separate`);
- `ResultsPushed` (`ResultsAreTheirOwn`), if `"views"` is not either (`Steady`).

The model counts slots three times, in three ways: `Sizes` adds up what the types of the
parameters say they take, `Checked` what the checkers counted, and `used` what the getters
did. The theorems are about how these agree. `CheckSound` says that the checkers accept a
function exactly if its parameters, at the places `Sizes` gives them, take the arguments
(`Fits`): an optional that is absent counts in one and not in the other, which does no harm
as long as the arguments are at an end there (`Level`). `MatchInv` says that every function
already passed over does not fit, that the arity of the call is never among the
`misfits`, and that the stack is as the checkers expect it (`Prepared`), an initialiser's
new userdata included. `ReadInv` says of the getters what `CheckSound` says of the
checkers: the next parameter starts where `Sizes` puts it or behind the last argument,
and above the arguments lie only functions which no later parameter reads (`Seated`). `PushInv`
says that what is pushed is right and that what is not pushed yet can still be read, though
the arguments may have left the stack (`Ready`).

What a recursive function returns for a list of any length is an induction. The induction
theorems of the library are out of reach, so `StepByStep` makes the step from a least
counterexample: a set of numbers that is not empty has a least one (`LeastOne`, from
`NatLessThanWellFounded`), and a function on `0 .. n` that starts right and goes on right
cannot be wrong at a least place. That `Sizes` and `Checked` exist at all
(`RecursionExists`) is proved in the same way.

`BoundCallsProof` on `Trampolines` (for any bounds on calls and handlers, any set of builds):

- `TrampolinesInvariant` and `ObjectsDestroyed` (`LocalsDestroyed`), if where Lua is compiled
  as C no object is jumped over on purpose, every function has its trampoline and no error
  is raised outside a protected call (`Disciplined`);
- `TrampolinesTypes` (`TypeOK`) and `CallsRecorded` (`LuaKnowsItsCalls`), if moreover exceptions
  propagate where Lua throws, and nothing in between catches them (`Propagated`);
- `ErrorsArrive` (`ErrorsArriveWhole`), if moreover no `noexcept` function raises an error where
  Lua throws (`QuietKept`). Of an exception in a Lua compiled as C++ it says where it
  arrives, and no more: its text is lost there (section 6).

These are the conditions of the run, for the reasons in section 6. None of the
properties is inductive. `ErrorsArriveWhole` compares what arrived with what was due when
the error was raised; the two meet only at the end, so `FlightSound` has to say at each stage
what is due: nothing has happened to the error yet, or the handler of the innermost
protected call has seen it, or it is C++ that carries it, to the place where the trampoline
will give it back or, where there is none, to the protected call that will lose it;
`ExceptionDue` tells the errors apart of which more is claimed. That the innermost protected call stays the same while handlers run is `HandlersSound`,
and that Lua's jump buffers name exactly the protected calls, in their order, is
`Sound`. `LocalsSound` is the discipline of the code itself: a call that holds objects
calls nothing that longjmps except under protection, which is why an error may drop the
frames above the protected call without a destructor being due. Under these hypotheses
`CatchInSol` never happens where Lua is compiled as C: an exception that reaches a call
of Lua is always met by a trampoline first (`AlwaysTrampolined`).

`LookupsProof` on `Tables` (for any finite set of tables, any fields, paths and number of
loops):

- `TypesOfTables` (`TablesTyped`) for all `Uses`;
- `FieldsOfWalks` (`EachFieldOnce`) if neither `"copy"` nor `"not_top"` is in `Uses`;
- `PathsOfTables` (`PathsAgree`) if `Uses` has at most `"throw"`: a body may throw, proxies
  of stack tables are used where they find their table;
- `StackOfTables` (`StackPartitioned`) if `Uses` has at most `"stack_push"` and
  `"stack_valid"`: such a proxy finds the wrong value, but leaves the stack as it should.

`Seated` says where each loop sits: its table and key lie in slots that are no other loop's
and none of the program's own tables, which lie where the program pushed them.
Then `Covered`, that no slot is left over, is the property. `Remembers` relates the
history of a loop to the order in which `next` goes through a table: what was handed out
came in that order, and what has always been there was handed out or is still to come.
Since the slot of the loop holds its table, the collector cannot empty it, so changes made
around the loop reach the history only through `Changes`. For reads, `ProbeLeads` and its
kin follow the operation key by key beside `Led`, and count the pushes on the way. For writes
this is not enough: a table that is created must be one that nothing else leads
to, or storing into it would show elsewhere. `AllEmptied` says that a table which is not
reached has no fields; `Trail` that the machine came to its place through tables which lie on
its stack and are stored in the fields the path names; `Origin` that it is at the place
`Led` gives, with nothing changed so far, or at a table just created; `Keeps` that no field
which had a value lost it. `TrailLeads` then follows the path again through the tables as they are
after the write. What a recursion computes for a path of any length is shown by
`StepByStep`, as above. `TablesAssumption` says that keys differ and are not nil, and that a table
is neither nil, a scalar nor an error.

What the attempts to prove found in the model, besides invariants too weak: branches of
a `CASE` whose guards overlapped (TLC takes the first, the definition does not say so)
in `Containers` and `Callables`; that the model's array needs a bound of two or more;
and that a program of `CallResults` without result objects has no place for a result.
They are now disjoint branches and assumptions with a name. In `ReadsAgree` two conjuncts
had slipped into the condition of an implication, which made most of it say nothing; the
proof would not use them, and they are conjuncts again.

## 5. What is only model-checked

Every invariant and action property of the passing runs is stated by a theorem.
`AllDestroyedInTheEnd` (liveness under fairness) is out of the provers' reach.

The type invariants of most modules are conjuncts of another property
(`StackBalanced`, `OnlyObjectsDestroyed`, `StackStaysWhole`, `NothingUndefined`,
`StackPartitioned` of `Scripts`); they are theorems or conjuncts of the invariant a
theorem establishes.

## 6. Known deviations

What the code does against its documentation, comments or the sense of its
operations. The one that a run refutes is a finding in `PROJECT.json`; for the
others the change to the run's configuration is given that makes TLC refute a
property. `Uses <- ...` names a definition of the `MC` module.

| where | what | to see it |
|---|---|---|
| `reference.hpp:386` | `r = r` releases the slot before it copies | `Uses <- SelfAssigns`, `KeptAlive` |
| `reference.hpp:486` | `reference(L, r)` with `r` of another state reads its number in the wrong registry | `Uses <- CrossPins` |
| `reference.hpp:395` | a `main_` handle assigned from an empty one keeps a coroutine's `lua_State` | `Uses <- EmptyToMain`, `MainHandlesUseMainThread` |
| `reference.hpp:660` | `==` on handles of two threads of one state compares with a foreign value | `EqualityComparesReferences` |
| `protected_function_result.hpp:207`, `unsafe_function_result.hpp:155` | destructors remove the slots they were told of, or the top ones, whatever lies there by then: results destroyed in another order than from the top down take each other's values | `Uses <- OutOfOrder`, `ResultsNameTheirValues`, `StackBalanced` |
| `protected_function_result.hpp:102` | copies count the same values | `Uses <- Copies` |
| `protected_function_result.hpp:111` | move assignment forgets values | `Uses <- AssignsOver` |
| `protected_function.hpp:93` | typed calls of a failing function leave the error on the stack | `Uses <- TypedErrors` |
| `protected_function.hpp:118` | an exception through `lua_pcall` leaves handler, function and arguments | `Uses <- Throws` |
| `protected_handler.hpp:49` | a handler on another thread is addressed on the wrong stack | `Uses <- OtherThread` |
| `coroutine.hpp:74` | results kept over a resume name the next frame's values | `Uses = {"keep_results"}`, `ResultsAreTheirOwn` |
| `coroutine.hpp:59` | `call<Ret...>` pops as many values as it has types, also those of the program or none at all | `Uses = {"asks_more"}`, `StackStaysWhole` |
| `coroutine.hpp:69` | `call<void>`, or fewer types than a return has values, leaves the rest on the thread, which never counts as dead | `Uses = {"asks_less"}`, `FinishedThreadsAreDead` |
| `usertype_storage.hpp:493` | a second assignment to a key that is no string is not seen by objects | `OtherKeysReachObjects` with `Others = {o1}` |
| `usertype_storage.hpp:474` | assigning to a bound function does nothing, without an error | `ReplacedFunctionsReachObjects` |
| `usertype_storage.hpp:981` | a class registered again shows values of scripts between the registrations | `RegisteredTablesReachObjects` |
| `usertype_storage.hpp:474` | `object.name = v` changes all objects | `ObjectsAreTheirOwn` |
| `call.hpp:318` | a failed constructor leaves a userdata with `__gc` | `Uses <- Failures`, `OnlyObjectsDestroyed` |
| `usertype_storage.hpp:389` | unregistering frees objects without destructor | `Uses <- Unregistering`, `AllDestroyedInTheEnd` |
| `usertype_storage.hpp:783` | a custom `__gc` bound after objects were pushed is gone when they are finalised | `Uses <- BindingLate`, `FinalisersHaveTheirBindings` |
| `stack_core.hpp:326` | the second attempt may ask for less than the first | `SecondAttemptIsLarger` |
| `stack_core.hpp:131` | without alignment readers take the tag for the destructor | `UseAlignment = FALSE`, `ReadersFindParts` |
| `usertype_container.hpp:979` | `m:insert(k, v)` on a map inserts `v` under `v` | `Uses = {"map_insert"}` |
| `usertype_container.hpp:665` | `l[0] = v` overwrites the first item of a list | `Uses = {"set_below"}` |
| `usertype_container.hpp:676` | `f[1] = v` on an empty forward_list inserts after `end()` | `Uses = {"empty_forward"}` |
| `usertype_container.hpp:984` | insert and erase check no bounds; forward_list (`:997`, `:1063`) checks one step late | `Uses = {"out_of_range"}` |
| `usertype_container.hpp:516` | a traversal does not keep its container alive | `Uses = {"drop"}` |
| `state_handling.hpp:164` | the rotation that puts the error in place only works for a result on top | `Uses = {"late_throw"}`, `StackPartitioned` |
| `load_result.hpp:145` | a load result destroyed below others (`lua.load(code)()`) takes values that moved to its slots; a copy or a move over a chunk removes or forgets it | `Uses = {"out_of_order"}`, `{"copy"}`, `{"assign_over"}`, `StackPartitioned` |
| `state_handling.hpp:53` | after a panic results still alive remove slots of an emptied stack | `Uses = {"panic"}`, `StackPartitioned` |
| `state_view.hpp:90` | a required script that returns no or several values leaves or takes slots | `Uses = {"many_values"}`, `StackPartitioned` |
| `state_view.hpp:86` | packages that require each other run more than once; a package that is `false` or `nil` runs at every require; `create_global` is ignored for a loaded package | `Uses = {"cycle"}`, `{"falsy"}`, `{"global_later"}`, `OnePackageOneValue` |
| `environment.hpp:123` | `set_on` a stack function below the top gives the environment to what is on top | `Uses = {"env_below"}`, `ChunksSeeTheirEnvironment` |
| `table_iterator.hpp:86` | `it++` and every algorithm that copies an iterator remove its slots twice; advancing with values above the key reads them as key | `Uses = {"copy"}`, `{"not_top"}`, `StackPartitioned` of `Tables` |
| `table_core.hpp` (`for_each`) | an exception of the body leaves table and key on the stack | `Uses = {"throw"}`, `StackPartitioned` of `Tables` |
| `table_proxy.hpp:228` | a proxy of a `stack_table` pushes the global of its first key, whatever the table is (`docs/source/api/stack_reference.rst:10` says stack tables have the same API) | `Globals = t1`, `StackProxiesPushAlike`; with `Uses <- StackPushes` also `PathsAgree` |
| `table_proxy.hpp:215` | `valid`, and with it `force` and `get_or_create`, of a proxy of a `stack_table` looks into what is on the top of the stack | `StackProxiesAskAlike`; `Uses <- StackValids`, `PathsAgree` |
| `stack_probe.hpp` | an optional lookup with `create_if_nil` replaces a value of another type by a table (`docs/source/api/table_traversal_keys.rst:6` says "if it does not exist") | `LookupsFillOnlyNil` |
| `trampoline.hpp:128` | errors raised below C++ frames skip destructors where Lua is compiled as C; `construct_trampolined` (`call.hpp:319`) loses a registry slot | `Uses = {"longjmp"}`, `LocalsDestroyed` |
| `protected_function.hpp:139` | a function without trampoline that throws leaves a Lua compiled as C with calls it takes for running | `Uses = {"raw"}`, `LuaKnowsItsCalls` |
| `trampoline.hpp:104` | where exceptions propagate (`docs/source/exceptions.rst:62`), `lua_pcall` catches them, hands out what is on top as the message and calls no handler, while `docs/source/api/protected_function.rst:110` says the handler gets `.what()` | `HandlersSeeExceptions` in `TrampolinesWhole.cfg` |
| `trampoline.hpp:145` | a `noexcept` function whose arguments do not fit terminates a program whose Lua is compiled as C++ | `Uses = {"quiet_error"}`, `ErrorsArriveWhole` |
| `trampoline.hpp:124` | with `SOL_EXCEPTIONS_ALWAYS_UNSAFE` and a Lua that throws its errors, `catch (...)` takes Lua's own errors and drops their values | `Builds = {"cxx_unsafe"}`, `ErrorsArriveWhole` |
| `protected_function.hpp:104` | `SOL_NO_EXCEPTIONS_SAFE_PROPAGATION` is a misspelling, so the clauses that should go with safe propagation are always compiled in | |
| `state_handling.hpp:53` | a panic handler that throws leaves Lua with calls it takes for running | `Uses = {"panic"}`, `LuaKnowsItsCalls` |
| `stack_check_unqualified.hpp:524` | pairs and tuples behind other parameters are checked in the wrong slots | run `arguments_displaced` |
| `stack_check_get_unqualified.hpp:55` | the checker counts an absent optional reference, the getter does not | `Uses = {"absent_table"}`, `ArgumentsAreTheirOwn` |
| `environment.hpp:211` | the getter of `this_environment` leaves the function on the stack, where `variadic_args` finds it | `Uses = {"environment"}`, `ArgumentsAreTheirOwn` |
| `call.hpp:322` | constructors bound as a plain function take the new userdata for their first argument | `Uses = {"bare"}`, `FirstMatchIsCalled` |
| `stack.hpp:209` | several results that view arguments are pushed after the arguments left the stack | `Uses = {"views"}`, `ResultsAreTheirOwn` |
| `stack_get_unqualified.hpp` | without `SOL_SAFE_FUNCTION_CALLS` arguments of the wrong type are read as they are | `Uses = {"unchecked"}`, `FirstMatchIsCalled` |

Read and not modelled: `usertype_container.hpp:1488` (`empty()` of an array is
inverted), `:1331` (guarded by `SOL_CONTAINERS_START_INDEX`, while
`docs/source/safety.rst:92` documents `SOL_CONTAINERS_START`),
`usertype_container_launch.hpp:64` (method names hide keys),
`stack_reference.hpp:186` (`==` is negated), `usertype_storage.hpp:418` (one stack
slot per unregistration), `stack_probe.hpp:57` (the probe of a pair reads its second
key with the default index), `stack_field.hpp:132` (the getter of a pair pops two
values whatever the first lookup pushed).

## 7. Abstractions

- Values are tokens. What a function computes, what a constructor does with its
  arguments, type checks and messages are left out.
- Allocation by Lua never fails; an out-of-memory error is a `longjmp` and none of
  the code handles it.
- `longjmp` over C++ frames skips destructors. A handle that is never destroyed
  is a leak by definition, so `SolReference` has no such step; `CallResults` has
  the unwinding of an error through frames that own no result.
- A standard library does what the standard says; iterators behave by its
  invalidation rules. A vector may or may not grow when something is added.
- Finalisers come in the order of Lua 5.2 and later; closures, upvalues and
  metatables are what the 5.3 manual says.

- A chunk has one upvalue, its environment; string, file and reader variants of
  an operation differ in how the chunk is read, not in what follows.
- Tables have no metatables, so raw and ordinary access are the same. The table of
  globals is a table like others; that proxies of `global_table` read it with
  `lua_getglobal` makes no difference to what they find.
- An error is known by who raised it; the wording of messages is left out.
- Parameters are classes of C++ types that check and count alike; conversions of
  values are left out.

Not modelled, and why: see the components marked so in `PROJECT.json`. They are
compile-time machinery, vendored code, or have no state of their own.

## 8. Plan

Done, in this order: references with their refinement and proofs; calls; usertype
registry, object lifecycle and layout, all with proofs; coroutines with proofs; containers; scripts,
packages and environments; tables and their iterator; exceptions; overloads,
arguments and results.

Every safety property of the runs has its theorem; liveness stays with TLC.

Models to come: the casts of `inheritance.hpp` and the conversions of
`unicode.hpp` as operators against reference definitions; the dispatch of names
of `usertype_container_launch.hpp`; several bases in `UsertypeStorage`; the
abstract specifications of a class as a plain table of members and of an owned
object, constructed once and destroyed once.
