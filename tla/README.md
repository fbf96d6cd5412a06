# A TLA+ model of Eschelle

Eschelle (`src/`) is the front half of a compiler for a small object language: it
loads its core classes, parses a source file into classes with syntax trees, and
turns one function's tree into a list of instructions. It is one thread, has no
tests, and its documentation is `README.md` and `Example.esch`. What is hard about
it is state that outlives the code that set it: the scope in force, a pending
`private`, the token given back, the class that is still open, the count of
temporaries, and memory that is carved up without a limit.

## The system

| component | state | operations | talks to |
| --- | --- | --- | --- |
| Lexer (`parser.cc` NextToken, `token.h`) | the file, `peek_` | NextToken, PeekToken | Parser |
| Parser (`parser.h`, `parser.cc`) | `scope_`, `class_`, `code_`, `private_`, `peek_` | Parse and the Parse... functions | Lexer, Class, LocalScope, CodeUnit |
| Class, Function, Field (`object.h`, `object.cc`) | fields, functions, modifiers | Define..., Create..., Get... | Parser, FlowGraphBuilder |
| LocalScope, LocalVariable (`scope.h`, `scope.cc`) | variables, parent, children | AddLocal, HasLocal, Lookup | Parser |
| Syntax tree (`ast.h`, `ast.cc`) | nodes | constructors, Visit | Parser, FlowGraphBuilder |
| CodeUnit (`object.h`) | classes, in order | AddClass, FindClass | Parser, EschelleVM, main |
| FlowGraphBuilder (`flow_graph_builder.*`) | `temp_count_`, the visitors | BuildGraph, Visit... | syntax tree, instructions |
| Instructions (`irep.*`) | list links, inputs, temporaries | Link | FlowGraphBuilder, FlowGraph |
| FlowGraph, BitVector (`flow_graph.*`, `bit_vector.h`) | orders of blocks, dominators | DiscoverBlocks, ComputeSSA | nobody: the calls are commented out |
| Allocator, Heap (`alloc.*`) | Eden's `current_`, `pages_` | Alloc, Visit | Instance::New |
| Array (`array.h`) | length, capacity, block | Add, Pop, Clear | every component |
| EschelleVM (`esch_vm.*`) | the loaded classes | Init, LoadFile, lookups | Parser, main |
| Driver (`main.cc`) | none | main | all of the above |
| Assembler (`asm.*`, `x64/`, `x32/`), MemoryRegion (`vmemory*`) | a buffer of code | emit, Compile, Protect | nobody: only comments use it |

Calls are synchronous. There are no callbacks besides the visitors, no locks, no
messages and nothing persistent, so that the behaviours worth checking are long
sequences of legal calls, state that is stale when it is used, limits, and loops
that must end. What makes each part correct:

- Parser: the scope in force fits the construct being parsed; `private` qualifies
  exactly the declaration that follows it; a name resolves to what exists and
  belongs to the definition; a class is handed over once, finished, and refers only
  to classes before it; Parse ends.
- FlowGraphBuilder: a value's temporary is not reused while the value is needed; no
  instruction is lost; executing the list does what the source says.
- Allocator: instances do not overlap; the heap walk finds them; a full heap is noticed.
- Lexer: no character is lost or read twice between tokens; every text has an end.
- main: what one part leaves is what the next can walk; the list it prints is the
  translation of the source.
- Assembler: the code a processor decodes is the calls that were made, and a compiled
  region holds it.
- BitVector: a set of indices.

## Modules

`EXTENDS` goes from top to bottom. Abstract specifications, which a module below
instantiates for a refinement, are in brackets.

    Objects, Tokens                Array       Tokens       AssemblerCalls [AddMachine]
     |            \                |    \        |             |
    Parser   FlowGraphBuilder      |  Allocator Lexer       Assembler
     |   \          |              |            |             |
     |    \   FlowGraphProperties  |         LexerProperties Processor
     |     \       |       |       |            |             |
     |      \  (INSTANCE)  |       |         MCLexer        AssemblerProperties
     |       `-- Driver ---+-------'                          |
     |              |      |                                 MCAssembler
     |       DriverProperties
    ParserProperties |     MCFlowGraph       BitVector [IndexSet]
     [CodeUnit]     MCDriver
     |
    MCParser         ExampleFile: the constants of MCParser, MCLexer, MCDriver

The proofs are in modules of their own, each below the component it is about:

    ParserProperties    FlowGraphProperties    LexerProperties    AssemblerProperties
     |                   |                      |                  |
    ParserProofs        FlowGraphProofs        LexerProofs        AssemblerProofs
     |                   |
    DefinitionProofs  (INSTANCE)                Allocator          BitVector
     |                   |                      |                  |
    DriverProofs <-------'                     AllocatorProofs    BitVectorProofs
     |
    DriverProperties (extended as well)

**Objects** has the metadata objects and scopes as records and their operations as
pure operators. A pointer is an index (nothing is freed) and `Nil` is `nullptr`. An
expression is kept as its leaves and operators in source order, because
`ParseBinaryExpr` can only build right combs: it recurses for everything that
follows the first operator. A proto is born without its constructor: `ctor_`
stays uninitialised.

**Tokens** has the kinds of tokens and how keywords and symbols are spelled;
**ExampleFile** the repository's Example.esch, both as tokens and as characters.

**Lexer** is NextToken over characters, called until the file has ended. A step reads a
character, or looks at one and leaves it; `pc` is the loop the code is in. `Eof` is
what the end of the file and the byte 0xFF look like once narrowed to a `char`: where a token would
begin, a byte 0xFF gives a kEOF in the middle of the file, and a further call reads on behind it. What an endless
loop goes on appending to its stream is left out, so that it is a step that
changes nothing. `LexerProperties` has a reference scanner, which finds for every
position where its token ends without reading character by character.

**Parser** is the recursive-descent parser as a state machine over tokens. A step
reads one token, through CONSUME, EXPECT or PeekToken, and does everything the code does
before the next read. `pc` names the read that comes next; `loc` holds the C++
locals of the active handlers, which nest to a fixed depth. The three
definition forms with a body share actions, told apart by `loc.kw` where the code
differs (only `class` rejects a second `private`; only `object` defines static
functions; a proto's functions have no body). Tokens are chosen as they are
read, after a fixed prefix, so that a run covers every file up to its length. One of the tokens is
the kEOF of a byte 0xFF, behind which the file goes on: Parse and most handlers never ask again after a
kEOF, but behind a dangling `private` ParseDefinition hands it to Parse as the end of a definition, and Parse does. Undefined
behaviour is a choice: falling off the end of `ParseDefinition` (before any class
exists) returns the old `class_`, goes on, or traps; following a proto's constructor
traps or writes nowhere that matters. Abort, normal end and trap are the values
`Aborted`, `Done`, `Crashed` of `pc`.

**ParserProperties** states what must hold; **CodeUnit** what a caller of Parse may
rely on: a unit that starts with four built-in classes, grows by one finished class
at a time, never changes a class it holds, closes once, and whose classes name
only earlier ones. The refinement maps `unit` to the classes that `code_` points to
and `status` to `pc`.

**FlowGraphBuilder** runs the visitors in small steps. A frame is one visitor object
with the Visit call that runs on it: its fragment (`entry`, `exit`), the value
it returns, and how far the call is. `code` is the heap of instructions. Field loads
return no value and field stores emit nothing, as in the source; `VisitReturn`
visits its own node, so that it only ever ends at `StackLimit`.

**Driver** is main with EschelleVM: arguments and files that may be missing, the two
core files and the growth of `loaded_classes_`, then Parser's `Next` as the steps of
`ParseStep`, printing, FlowGraphBuilder's `Next` as those of `BuildStep`, and the loop that lists
the instructions. The parser's syntax tree is the builder's input; nothing is
translated in between. What a core file does to the parser is cut down to its outcome: some
number of classes, an abort, or a trap.

**BitVector** keeps a word as the set of its one-bits. `1 << i` shifts an int, so that the sign
bit is copied to the upper half of the word, and what follows a shift by 32 or more is
undefined: the model ends there. **IndexSet** is the set it implements for all
other indices. (`Store` and `StoreChanged` stand for the loops over `asize_`.)

**Assembler** emits items (a byte, or a wider integer that is not taken apart) through
the operands and REX bits of `x64/asm.h`, and compiles them in four steps, any of whose
system calls may fail. **Processor** is external to the program: it decodes x86-64 code and
keeps the registers and memory that running the code emitted so far leaves.
**AddMachine** is what the calls promise, in terms of their arguments alone;
`AssemblerProperties` maps the processor's state to it.

**Array** and **Allocator** model allocation from Eden in machine words: the
arithmetic of headers, the words that the heap walk reads, the page table and
the growth of its array. Writing outside of a block ends the model in
`Corrupted`, since nothing is defined after it.

## Runs

| run | what it asks | bounds |
| --- | --- | --- |
| `parser_definitions` | types, the class under construction, `private`, duplicates, ordinals, refinement of CodeUnit, termination | any 11 tokens of every kind and 2 names |
| `parser_bodies` | scopes and name resolution | a class with a method that returns its parameter, then any 16 tokens of 15 kinds |
| `parser_int_literal` | violated: a number without a point initialises an Int | Example.esch, then any tokens up to 72 |
| `lexer` | a reference tokenisation, cut identifiers, endless texts, Example.esch | every text of 4 characters of 9 kinds, of 6 around the keyword `var`, of 6 around numbers |
| `graph` | temporaries, instruction list, meaning of the list, termination | all bodies of one statement with up to 4 leaves or two with up to 3 in all, with and without returns and fields; stack of 8 frames |
| `driver` | main: contracts between its parts, the list it prints, when it returns | Example.esch up to its last `func`, then any 13 tokens of 13; 0 to 2 arguments; any files missing; core files of 1, 8 or 9 classes; stack of 3 frames |
| `driver_documented` | violated: the usage in README.md works | as `driver` |
| `bit_vector` | a word for every index, sign bits, refinement of IndexSet | 2 vectors of 8 bits, words of 5 bits, ints of 3 |
| `assembler` | encodings, refinement of AddMachine, Compile | every 2 calls on registers and addresses of each kind; a buffer of 24 bytes |
| `alloc_instances` | disjointness and the heap walk | 5 instances, classes of 0 to 3 fields of each kind, Eden of 32 words, fresh memory of zeros or not |
| `alloc_pages` | the page table has room | Eden of 128 words (the real 1024 bytes), smallest instances |
| `alloc_exhausted` | violated: Eden is never exceeded | Eden of 128 words, instances of 4 fields |

The bounds are enough for what each property needs to go wrong. Eleven tokens hold
two definitions, a private member, a method's signature with a parameter, an enum with
constants, and a `private` at the end of the file. The prefix of `parser_bodies` leaves a
finished class with locals in its root scope, so that sixteen more tokens hold a
second definition with a function of its own, a local, and an assignment. Three leaves are the
shortest expression that keeps a left operand alive across another operation; four
do so twice. Five instances fill an Eden of 32 words, and the
18th of the smallest instances is the one that overruns the page table.

A keyword of three letters fits in six characters with a character before it or after it, and with
a second word; four characters of any kind hold every pair of loops that meet. Thirteen tokens
after `func` are main's name, parentheses and braces, and seven for its body: a return, or one
declaration with an initialiser, and so one tree of each shape that Main's body
can have without a field. Core files of 8 and 9 classes are the sizes around the array's
limit of 17. FindClass never fails in the driver's run, whose prefix declares all three
classes; that case (`c # Nil` in `Printable`) is modelled and not reached.
An int of 3 bits in a word of 5 has indices below the sign bit, on it and past it, in two
words. The registers of the assembler's run are one of each kind that the
encodings tell apart: RAX, RCX (plain), R9 (extended), RSP and R12 (no
ModRM base), RBP and R13 (no base without displacement), and TMP. Two calls are
enough because each starts from registers the first has changed.

`Idents` contains `Int` in every parser run, so that a lookup can succeed, and `A`, which
can be class, field, local and function at once. The identifiers of the graph runs
are one literal, two locals and one field.

Deadlock is checked wherever ended processes stutter (`Terminated`, `Ended`, `MainEnded`):
in the parser, lexer, graph, driver and assembler runs. The allocator really stops: after
`MaxObjects` instances, or where the process ends. So does BitVector after an undefined
shift.

**Fairness.** `FairSpec` of Parser, Lexer and FlowGraphBuilder, and `FairMainSpec` of Driver,
are weak fairness of the whole next-state relation. The code is one thread that nobody
blocks, so that it takes its next step when it has one; `getchar` before an abort only
delays. `ParseTerminates` and `MainReturns` assume that the lexer delivers a token; `LexEnds`
says for which texts it does.

## Results worth knowing

- Every number becomes a Double (`parser.cc:30`), so that `var ten: Int = 10` of
  Example.esch stores a Double in an Int (`parser_int_literal`).
- main reads two arguments and README.md's usage gives one (`driver_documented`).
- The lexer reads forever a string or a last word that is not closed before the end of the file,
  and ends on every other text (`LexEnds`). `variable` is `var` and `iable`
  (`IdentifiersCut`), and an identifier can start with `[` or `_` but have none after it.
- main survives any file that is accepted, whose three classes have types that exist and
  whose `main` has no return statement, if the stack suffices (`MainReturns`). A type that was not found
  is only noticed when the class is printed.
- The core files can define nine classes between them before `loaded_classes_` is overrun
  (`CoreFits`).
- BitVector is exact below the sign bit of an int and on it, though the word then has its whole
  upper half set (`ImplementsIndexSet`).
- Every address that x86-64 can encode is encoded right, RSP, RBP, R12 and R13 included. RSP as an
  index, TIMES_16, and adding an immediate to something TMP is part of are not
  (`AddMachine` promises nothing for them).
- Eden overflows silently (`alloc.h:66`), although `alloc.cc:19` expects `nullptr`
  (`alloc_exhausted`).
- A class is registered twice only by a kEOF behind a dangling `private`, and then in
  succession. That kEOF need not be the end of the file: with a byte 0xFF in its place the parse goes on,
  and the `private` qualifies the next definition (`RegisteredOnce`).
- A body with a return statement never gets a graph (`BuildEnds`).
- Temporaries are sound exactly for bodies that load no field: `1 + (f + 3)` with a field
  `f` would keep two live values in temporary 0. `TempsMatchDepth` therefore excludes
  field loads. A store to a field leaves no trace in the graph.
- The page table has room for 17 entries and not for the 18th (`PagesFit`), just when
  Eden can still hold one more of the smallest instances.

## Proofs

The proofs hold for every choice of the constants: any identifiers, token
kinds, prefix and length; any bodies and stack; any heap size, limits and classes; any
calls and capacity. They assume only `ConstantsAssumption` (Parser),
`BodiesAssumption` (FlowGraphBuilder), `SizesAssumption` (Allocator),
`CharAssumption` (Lexer), `SizeAssumption` (BitVector), `CallsAssumption`
(Assembler), `CoreAssumption` and `StackAssumption` (Driver), which TLC evaluates in the
runs. `BodiesAssumption` says that an
expression has leaves and an operator between every two of them, which is how
`ParseBinaryExpr` makes one, and `DriverProofs` proves it of the parser's trees; `CallsAssumption` gives the arguments of the calls their
C++ types, but integers are not bounded.

**The parser as a whole.** `ParserProofs` has `TypesHold` (`Spec => []TypeOK`),
`ConstructionHolds` (`Spec => []UnderConstruction`) and `PrivateStaysConfined`
(`Spec => []PrivateConfined`). The inductive invariant is
`Inv == TypeOK /\ UnderConstruction`. Types alone
are not inductive: `scope_ = scope_->GetParent()` and every write to `classes[class_]`
need to know that a class is open, that the current function exists and that its own scope
has a parent, which is what `UnderConstruction` adds for each place in the grammar
(`Site`). The proof has one lemma per action; lemmas about the operators of Objects
say what each keeps well typed. `PrivateConfined` is inductive by itself given
the actions' guards.

**Parser implements CodeUnit.** `ParserProofs` has `ParserImplementsCodeUnit`
(`Spec => CU!Spec`). A step either changes
only the class under construction, which by `OpenClassOK` is not registered, and so
leaves the mapped unit unchanged; or it is the return of a definition, which is
CodeUnit's `AddClass`, of a class that names only registered ones or of the last one again;
or it ends the process, which is `Close`.

**What a definition builds.** `DefinitionProofs` sorts the parser's steps by what they
build (`Builds`: a class, a function, a constant, a field, a local, a statement,
or nothing) and says once what each kind changes and keeps. On that rest
- `ClassesRegisteredOnce`: a class can only be added again where ParseDefinition returns
  without having opened one, which takes a `private` and a kEOF. The `private` is still pending then. The next token that
  ParseDefinition reads is one Parse has looked at, and so no kEOF, and a second `private` aborts: what comes
  next is a definition, which takes the modifier (`Registration`);
- `PrivateIsSpent`: `private_` is cleared only by the step that declares, or at the end
  of a field, whose declarator declared the last field of the class (`LastField`);
- `OrdinalsInOrder`: constants and their stores are added in pairs, by a step
  that nothing else can be mistaken for (`Enums`);
- `ScopeInForce`: `ScopeFollowsGrammar` written by parts (`ScopeFits`), which is
  inductive with `Inv`;
- `FieldNodesFit` and `LocalsStayHome`: what a tree refers to was in it before, or comes
  from the expression being parsed (`Refers`). So the invariant speaks
  of that expression as well, and for fields also of the left-hand side that waits for it;
  objects only grow (`GrownFrom`), so that a reference stays good. No two classes
  share a root scope because a definition attaches a new one.

**FlowGraphBuilder.** `FlowGraphProofs` has `TypesHold`, `NothingLost`
(`Spec => []NoInstructionLost`), `TempsMatch` (`Spec => []TempsMatchDepth`) and `GraphIsFaithful`
(`Spec => []GraphComputesSource`), for trees of any size. None of
the four is inductive alone. The active calls are one path of the tree, and each waits at
a stage that says which call is next (`Nesting`). The fragments that they hold
are intervals of the instructions in the order of creation, which do not overlap, lie in the order of
the calls and cover all there is (`Fragments`), so that Append always joins neighbours. And the calls
of operators that have their left operand hold the temporaries from 0 up, with one more for a
value that is being returned (`Temps`). A field load breaks the last part, and only it.

`GraphIsFaithful` adds `Sound` to this invariant: whatever executing the instructions in order of
creation leaves (`Runs`), the temporaries hold the values that the active calls wait with, as the
source computes them (`Suffix`: the rest of a right comb from one of its leaves), and the stores
are those of the statements that are finished (`Meaning`). A new instruction extends the run by one state and
writes a temporary that no waiting call holds, which is where `Temps` is needed. In the end
`Fragments` makes the chain that is walked the order of creation. Runs, stores and chains are
recursive functions; they are unfolded by an induction over a set of numbers, as in `AllocatorProofs`.

**Allocator.** `AllocatorProofs` has `TypesHold`, `InstancesStayDisjoint`, `PagesStayInBlock`
(`Spec => []PagesFit`) and `VisitIsComplete` (`Spec => []VisitFindsPages`).
Disjointness is not inductive; the pages lie in order, each below `current_` with its headers
(`PagesInOrder`), and this is. `PagesFit` needs the two lengths the array's block can
have (`ArrayGrows`). For the heap walk the invariant is that the size word of every chunk
leads to the next, and the last one's to `current_` (`ChunksLinked`). `Visit` is a recursive
function, and the induction along the chunks is an induction over a *set* of numbers
(lemma `Induction`, from the least member of a set), because the library's induction theorems
take an operator, which no prover here can instantiate.

**Lexer.** `LexerProofs` has `TypesHold`, `IdentifiersAreCut` and `ReferenceIsFollowed`
(`Spec => []TokensFollowReference`). That an identifier does not
begin with a keyword is not inductive for the tokens alone: the invariant adds that the stream of
a word does not either, and holds no symbol after its first character (`WordOpen`).

The reference scanner looks ahead where the lexer reads one character at a time. The invariant of
`ReferenceIsFollowed` (`Following`) names the character at which the token being read starts: what the
reference finds from there on, behind the tokens returned so far, is what it finds in the whole file,
and each loop has established that the token does not end sooner (`OpenAt`). The reference is a
recursive function of the position, unfolded from the end of the file (`FromUnfold`). A byte 0xFF between
tokens is a token of one character for it (`EofCase`).

**BitVector.** `BitVectorProofs` has `TypesHold`, `SignBitsStayTogether` and
`BitVectorImplementsIndexSet`. That every index has its word (`Located`) rests on the rounding of `asize_`. The
refinement needs `SignBitsTogether`: only then is the intersection with a sign mask all or
nothing, and one call per index changes one member. The word and bit of two
indices are told apart by division, for every width.

**Assembler.** `AssemblerProofs` has `TypesHold`, `RegionHolds` (`RunSpec => []RegionHoldsCode`) and
`CodeMeansCalls` (`RunSpec => ImplementsAddMachine`), for all registers, addresses and immediates.
- The constructors of Address make operands of few shapes, which a record describes (`FormType`:
  where the SIB byte, the base and the displacement are). `AddressHasForm` is the case analysis of
  the constructors, and `PlaceIsEffective` says that a shape leads where the address says
  if x86-64 can encode it.
- `FormDecoded` and the lemmas `Execute...` say what the processor does with the items of one
  instruction, wherever they stand; the fields of the bytes are told apart by arithmetic
  (`RexByteFields`, `ModRMFields`, `SIBFields`).
- `EveryCallMeant` puts them together for the calls, the two that go by way of TMP
  included. The invariant is `Synced`: the processor stands at the end of
  the code or has returned, and it does so even after calls for which nothing is promised,
  because the length that is decoded never depends on the part that is encoded wrong.
- `RegionHolds` needs that a region that can be written can be executed (`RegionReady`), which is
  why it survives an mprotect that fails, and that the buffer is the concatenation of what the
  calls encode (`Emitted`), by the same induction over a set. `region.after` is not a variable of the
  code: it remembers how many calls came before the Compile, so that the property can say that their code
  is there to the last byte.

**main.** `DriverProofs` has `MainTypesHold`, `CoreClassesFit`, `TreesCanBeWalked` and `ListingTranslates`
(`MainSpec => []` of `MainTypeOK`, `CoreFits`, `TreesFitBuilder` and `ListingIsTranslation`). They join
the theorems of the components:
- a behaviour of main is one of Parser with stutters (`ParserEmbedded`), so that the invariants
  behind `TypesHold`, `FieldNodesFit` and `LocalsStayHome` hold here. `TreesComplete` adds that every expression in a tree has
  one leaf more than operators and no place that is gone; its induction needs the same of the expression
  being parsed (`Growing`);
- so every tree main builds from satisfies `BodiesAssumption`, and the builder's steps in Driver are those of
  FlowGraphBuilder for such trees (the instance `B`, `SameBuilder`): its invariants `Inv` and `Sound` are part
  of main's (`Built`), and the parser's classes no longer change (`SameTree`);
- what is listed is the beginning of the list (`Told`), which `NoInstructionLost` makes the whole of it
  in the end, and `GraphComputesSource` its meaning;
- `loaded_classes_` only ever has one of a few sizes (`Sized`).

Only model-checked:
- `ExampleTokens` and `ExampleAccepted`, which are about one given file and so say
  nothing for other values of the constants;
- liveness (`ParseTerminates`, `LexEnds`, `BuildEnds`, `MainReturns`), which TLC checks
  under fairness; the prover has no rules for it.

## What is not modelled

- FlowGraph's blocks and dominators (`flow_graph.cc`): main's calls are comments, and there is no
  behaviour to model. On every graph the builder can make, the last instruction of the entry's block has
  no successors, so that `SuccessorAt` gives `DiscoverBlocks` a null block on its first turn;
  `CompressPath` indexes a pointer to an Array instead of the Array; and
  no instruction exists that ends a block with a branch, so that no input with more than
  one block can be made.
- Field loads in the graph: a field load binds no value, so that temporaries collide. The builder's
  model does what the code does, and the properties of temporaries and meaning exclude such bodies.
  For the same reason nothing is promised of a store to a field.
- What follows a call the code has no answer for: a null `FILE*`, an instance that MajorAlloc
  refuses, a type that was not found when its class is printed. The models end there, as the process does.
- InterferenceGraph: declarations without definitions, in a header nobody includes.
- Label, `Store`, `Load` and `SetDisp8` of the assembler: no users. `x32/asm.h` has no Assembler.
  MemoryRegion is modelled as on macOS; Windows calls other functions to the same end,
  and Linux has no definition. The bytes of immediates and displacements are not taken apart,
  and sums do not wrap.
- The core files' text: what the parser makes of one is the subject of the parser's runs.
- `GetLoadedClass` and `GetLoadedClasses`: they change nothing and have no caller.
- Field access of instances: a field's `offset_` is never assigned.
- Array's overrun inside the parser: fields, functions, children, variables and classes
  beyond the 17th of one array are written outside of its block (`array.h:62`). The
  parser's model takes its sequences to be unbounded.
- What is printed, messages and `getchar`.

## Plan

Every safety property of the passing runs is proved, except for the two about Example.esch. What would extend
the model is a limit on the parser's arrays, so that the overrun of `array.h:62` shows where the
parser meets it.
