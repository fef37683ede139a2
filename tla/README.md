# cl-lib in TLA+

`cl-lib` reads a small HCL-like language: a text is lexed and parsed into a
document tree, the document is evaluated into a result, and a host program reads
the result, changes the tree, checks it against a schema, writes it back, and
extends the language with values (bindings) and functions of its own. This
directory holds TLA+ models of the parts of the library whose behaviour is more
than formatting, the TLC configurations that check them, and proofs for TLAPS of
what holds for every value of the constants.

The library is one sequential program with no threads and no file format that
survives a crash. What makes it hard is elsewhere: evaluation is a deep mutual
recursion over names that may form cycles, with a linked list of C locals that
tells where it is; the host calls back into the library in the middle of it; three
arenas with different life times must never point into one another; the two
implementations of reference resolution (expressions and paths) must agree; and
several parts take as input something that was computed from an earlier state of
the same tree; and what the writer writes is read by three scanners, each with its
own idea of where a string ends.

## 1. Inventory

| Component | State it keeps | Operations | Modelled in |
|---|---|---|---|
| evaluator (`cl_eval.c`) | `ctx->resolving`, scopes, C stack, first error, result | `cl_document_evaluate[_with]` and all it calls | `Evaluator`, `ValueOps`, `Resolution`, `EvalReference` |
| host calls (`cl_call.c`) | arguments and the containers a call owns | `cl_call_invoke`, `cl_call_*` | `HostValues` |
| bindings (`cl_bindings.c`) | names, functions, an arena | `cl_bindings_*` | `HostValues` (partly: functions are an input of `Evaluator`) |
| arena (`cl_arena.c`) | allocated blocks | allocate, free all | `HostValues` (partly: the nodes of an arena, freed together) |
| document tree, navigation (`cl_ast.c`, `cl_navigate.c`) | the tree | constructors, searches | `Syntax` (partly: data and the two searches) |
| built-in functions (`cl_functions.c`) | none | some forty pure functions | `BuiltIns`, `ValueOps` |
| path reader (`cl_get.c`) | iterators | `cl_get_*`, `cl_block_iter_*`, `cl_attr_iter_*` | `PathGet` (partly: not the getters that only read what a path reaches) |
| template compiler (`cl_template.c`) | scanner, stack of open directives | `cl_compile_template` | `TemplateTokens`, `TemplateScanner`, `Directives`, `TemplateGrammar` |
| schema (`cl_schema.c`) | rules, `strict` | construction, `cl_schema_validate` | `SchemaRules`, `Validation` |
| schema loader (`cl_schema_load.c`) | the body being read | `cl_schema_load_*` | `SchemaRules` |
| tree changes (`cl_mutate.c`) | the tree | set, remove, add | `Tree`, `Validation` |
| lexer (`cl_lexer.c`) | place, depth of brackets | text to tokens | `Lexer` |
| parser (`cl_parser.c`) | current token | tokens to tree | `Parser` |
| writer (`cl_writer.c`) | output | tree to text | `Writer`, `RoundTrip` |
| export (`cl_export.c`) | none | result to text, result to JSON | `Writer`, `Storage` |
| loading and saving (`cl.c`) | none | load, save, export | `Storage` |
| examples, command line tool | none | | not modelled: programs that use the library |

How they interact: the parser calls the template compiler for every string and
builds the tree, and the compiler calls the parser for what stands in a directive;
the evaluator reads the tree and the bindings and calls host
functions, which may call back into bindings and calls; results are read through
paths; the schema reads the tree and a result side by side, by index; the tree
changes act on a tree that may already have been evaluated, saved or loaded; the
export turns a result back into a tree and gives it to the writer.

What is hard, per component, and what makes it correct:

* **evaluator**: cycles must be reported when, and only when, the unfolding of
  names never ends; `resolving` must never hold a local of a call that returned,
  on any failing path; loop variables must not leak into the resolution of names;
  an overridden default must not run; the longest list of labels must win.
* **host values**: no sequence of legal calls may make a value contain itself; no
  value may change once the document has it; nothing of the result may point into
  the arena of the bindings; copies must be equal to what they copy, and end.
* **path reader**: agrees with references; writes the host's array whole or not
  at all; iterators yield what paths reach.
* **template compiler**: directives nest properly whatever is trimmed around them;
  every name of a loop is freed when it is closed.
* **schema**: the first problem is what is reported; a stale result does no harm;
  a name means one thing at each level; a document checked early is never rejected
  for something that evaluation would make right.
* **lexer, parser, writer, export**: what a person writes is read as it is meant;
  what is saved reads back as the same tree, what is exported as the same values;
  JSON shows what a lookup finds.
* **built-in functions**: each is right at the ends: empty texts and lists, counts
  past the end, negative offsets, halves, ranges whose step does not fit.

`PROJECT.json` lists each hazard at its line, with the property that covers it.

## 2. Modules and how they correspond to the code

`map` in `PROJECT.json` gives the lines every definition stands for. Definitions
whose name starts with `Slip` are plausible mistakes in the definition after
them. No specification uses them; each is the mutation that shows that a property
can fail.

* **`Values`, `Syntax`, `ValueOps`**: values, the tree and pure operations on
  values (equality, arithmetic, the built-ins the documents call).
* **`Evaluator`**: one frame for each C call in progress (`stack`), and
  `resolving`, the linked list, as places of frames in the stack. The frame of an
  attribute, a block or a label keeps the key of its node and, in `parent`, what
  the C function restores when it returns. One action per kind of expression and
  per stage of the functions that evaluate something in between (`RefBlock`,
  `NextProbe`, `FindBlock`, `ForClause`, `ApplySplat`...). A failure (`Fail`) sets
  the error and `Unwind` returns from the calls one by one, restoring what each
  restores. A C `NULL` inside a list is `NoValue`, and reading through it the
  error `crash`. The frame of a search for a block keeps the set of blocks it still
  has to try; `FirstTried` is the next of them.
* **`Resolution`**: what name resolution promises, without expressions: a chain of
  definitions in resolution that only grows by a definition that is not in it,
  shrinks at its end, and ends done or failed.
* **`EvalReference`**: what a document means, as recursive operators over the
  tree with the set of names being unfolded: no stack and no steps.
* **`HostValues`**: all values of the bindings, of the result and of a call as
  nodes of one heap, each in an arena. Actions are the calls of a host: making,
  binding and nesting values, before or during the evaluation; the steps of the
  evaluation that touch them (copying a bound value, calling a host function, its
  return); failing; freeing the bindings. `cl_val_copy` is a machine of its own
  (`StartCopy`, `CopyItem`, `CopyReturns`), because the heap it reads is a graph.
* **`PathGet`**: the resolution of a path in a result, the two iterators as
  machines, and `cl_get_ints`: what it checks first (`AllLongs`), the loop that writes to
  an array of `max` numbers (`Room`), and the count it returns; `NULL` for an array writes
  nothing, as one of length 0. The loop of `cl_get_resolve` is the function `Rounds`:
  `Reach` is what its locals hold, `Round` is one round. `ResultsAssumption` says what
  evaluation leaves in a result; TLC evaluates it on the roots of the run.
* **`TemplateTokens`, `TemplateScanner`**: what the template compiler meets in a
  text, and how it finds it: markers, escapes, keywords, loop variables, trims, and
  the span of an expression up to its brace.
* **`Directives`**: the loop of `cl_compile_template` over tokens, one action for
  each directive, the stack of open directives, the literal being accumulated and
  the number of allocated loop names.
* **`TemplateGrammar`**: the tree a sequence of tokens stands for, by recursive
  descent: what `Directives` is shown to implement, and what `Parser` uses.
* **`Lexer`, `Parser`**: from a text, which is a sequence of symbols (a mark, a white
  space, a digit or a word), to tokens and to a tree. A recursive function of the C
  code is a recursive operator that gives what it has read and the next place, or
  `Unread`; the parser's one token of state is that place.
* **`Writer`, `RoundTrip`**: from a tree or a result to a text; and which trees the
  writer writes so that they are read back. `RoundTrip` is the list of what it does
  not (section 6), one conjunct each, and nothing else is left out.
* **`Storage`**: a host with one text that loads it, sets an attribute, saves or
  exports, and loads again. `meant` remembers what a text was made from: by its
  author, from a document, or from a result.
* **`BuiltIns`**: calls of built-in functions, one in the argument of another. A call
  returns by the action for its kind of result, and `Nest` makes its result an argument.
* **`SchemaRules`**: rules as a heap of addresses (the host keeps pointers), one
  action per construction call, and the loader as a stack of bodies being read,
  one action per item; the first problem frees everything.
* **`Tree`, `Validation`**: a document that is changed, evaluated and validated.
  `cl_schema_validate` and `cl_schema_validate_block` are a machine: `walk` has one
  `Visit` for each call in progress, with the item it is at, and a step is one item
  (`PassAttr`, `CheckAttr`, `CheckBlock`) or one return (`LeaveBlock`, `LeaveRoot`). The
  host does nothing during it. A result is given by the body it was evaluated from, as
  evaluation makes one item for each item, in order.
* **`AnySequences`**: sequences of elements that have no common type, as trees
  and values have none, and the total of a sequence of numbers; its lemmas are in
  `AnySequencesProofs`.

## 3. Runs

| Run | Checks | Instance |
|---|---|---|
| `evaluator` | `TypeOK`, `NoDanglingNode`, `NoReentry`, `DepthBounded`, `SeenIsBuilt`, `OverriddenNotEvaluated`, `AgreesWithMeaning`, `Terminates`, `ImplementsResolution` | every combination of a pool of right-hand sides for two attributes, a block and its label (all dependency shapes among four definitions); pairs of blocks with overlapping labels; some sixty expressions; three sets of bindings |
| `host` | `TypeOK`, `Acyclic`, `ArenasApart`, `KeysOnce`, `CopiesAreEqual`, `ValuesNeverChange`, `CopiesEnd` | `MCSpec`: hosts with three bound nodes that evaluate without calls, and hosts with one that make two calls with one copy; two items each, two keys |
| `paths` | `BlocksAreReached`, `AttributesAreReached`, `AllOrNothing`, `PathMeansReference` | results of two blocks with any of five label lists and three bodies; paths of up to four parts; arrays of 0 to 3 numbers for lists of up to two; the first step evaluates the document and chooses the path |
| `directives` | `CompilesToItsGrammar`, `NamesOfOpenLoops` | every text of four tokens of an alphabet of fourteen, every nesting of six, trims and white space to five |
| `schema` | `RulesAreUnique`, `FirstProblemReported`, `StaleResultIsSafe`, `ResultOnlyAdds`, `LoadedAsDeclared` | schemas of up to two rules by calls or any of 22 documents; three documents, two changes; blocks nested up to `MaxDepth` = 3 |
| `text` | `ReadsAsMeant`, `SavedReadsBack`, `ExportReadsExactly`, `JsonShowsWhatLookupsFind` | every kind of expression in every place of every other; operators of all levels, three in a row; heredocs, comments and newlines; strings of four symbols that a host sets; one change, two saves |
| `builtins` | `PiecesRejoin`, `TrimsOnlyTheEnds`, `RangeStopsBeforeItsEnd`, `ListsKeepTheirItems`, `LaterObjectsWin`, `NumbersConvertBack`, `FormatUsesItsArguments` | each function with every combination of arguments from a pool for each parameter; functions of results |
| `nested_splat`, `label_order`, `late_binding`, `unterminated`, `reload` | one property each, violated | see section 6 |

Why the bounds are enough. For the evaluator, a cycle needs at most the four
definitions (two attributes, a block, a label) to pass through every kind of node
there is, and each expression form is evaluated with operands that succeed, fail
and refer. `host`: three nodes give every shape of sharing and the shortest
indirect cycles, two items give order, and the second call is where a container
kept from the first one can be misused; `Small` keeps the two kinds of hosts apart, as
what they do is otherwise a product of which nothing new comes. `paths`: four parts
are a type, two labels and an attribute, and an array may be absent, too short, of the length of a list or longer. `directives`: an if with an else in a loop
takes six tokens. `schema`: two changes are what a result needs to have the same
number of items of other kinds. `text`: precedence is a matter of an operator and its
neighbours, so three in a row of every level and each kind of expression directly
inside each other one meet every rule of the grammar and of the writer; four symbols
are a mark, its braces and one symbol between them; a second save shows whether what
was written by the first one is stable. `MarkerSize` (4 for 128) and `NumberSize` (8 for 64) are
the two fixed buffers of the lexer, small enough for a text to pass them: a numeral may be one
symbol short of its buffer, fill it or be longer, and lose digits, its fraction or its exponent. `builtins`: texts
of up to four symbols have runs that overlap a separator of two, lists of three items have
an inner one, the offsets go past both ends, and `RangeLimit` is 8 for 1024 x 1024. `MaxNested` is 1:
what a function does with its argument does not depend on how it was made. The bounds are
named constants (`MaxItems`, `MaxCalls`, `MaxRules`, `MaxChanges`...) or sets in the `MC` modules.

`AgreesWithMeaning`, `CompilesToItsGrammar`, `FirstProblemReported` and
`PathMeansReference` compare a machine with a definition that has been written
another way (recursion on the tree, recursive descent, sets of problems ordered by
place, the reference that is spelled like the path). `ReadsAsMeant` has the trees from
outside of the parser: a tree is spelled with everything in parentheses, or a row
of operators is grouped by its loosest one. The properties of `builtins` say what a result
must be (what rejoins, what is left out, what is the nearest) and not how it is found.

**Fairness.** `Terminates` assumes `WF_vars(Next)`: the evaluation is one sequential
call of which nobody else decides when the next instruction runs. `CopiesEnd`
assumes weak fairness of the steps of `cl_val_copy` only, for the same reason; the
host may stop at any time, so nothing else of `HostValues` is fair. All other
properties are safety.

**Deadlock.** Runs that say `CHECK_DEADLOCK FALSE` are those in which the host may stop
calling, the text was no document, or the function has returned. `evaluator`,
`nested_splat`, `label_order` and `schema` are checked for it; a finished evaluation stutters (`Returned`), anything else that stops is
an error.

## 4. Proofs

Checked by `tlapm`, for every value of the constants.

* **`EvaluatorProofs`**: `TypeCorrect`, `NodesAreLive`, `CyclesAreCut`. The inductive
  invariant says that `stack` and `resolving` are `Good`: the stack is well formed,
  `resolving` lists in order exactly the frames that resolve something, the
  `parent` of each lists exactly those below it, and all their keys differ. It
  adds that `error` is a known one and that a result exists exactly when no call is
  left. Neither `NoDanglingNode` nor `NoReentry` is inductive alone: that the list is
  right after a return needs what each frame will put back to have been right when
  it was pushed, and that no key repeats needs the list to miss no frame, as only
  the list is searched. Most actions push or replace a frame that resolves nothing,
  and one lemma serves them all.
  On the same invariant rests `ResolvesInOrder`, the safety part of `ImplementsResolution`: the
  initial state and every step of `Evaluator` are an initial state and a step, or a
  stutter, of `Resolution`. It needs besides that there is one way to list given calls in
  order, so that what a call puts back is the list without its last. Calls, returns of values
  and other locals are stutters; `Enter` is `Begin`, `Leave` is `End`, `Fail` is `Break`,
  `Unwind` is `Drop` or a stutter, and the return of the root body is `Complete`.
* **`HostValuesProofs`**: `TypeCorrect`, `NoCycles`, `ArenasStayApart`, `ValuesAreFixed`.
  The invariant joins that every reference is to an allocated node, that values
  point only inside their own arena, that no set of containers is closed under
  containment (the form of acyclicity that is preserved by an addition guarded by
  reachability), that copies in progress are where they should be, and that there is
  a closed set of finished nodes, disjoint from those a call may still add to,
  which holds everything the document has. The last one is what makes
  `ValuesAreFixed` provable: a host changes only containers its call owns, and
  none of these is in that set.
* **`ValidationProofs`**: `NamesMeanOneThing`, `FirstProblemIsReported`, `OldResultsAreSafe`,
  `EarlyRejectionIsRight`. The invariant (`IInv`) says that names are unique in the schema
  (`RulesInv`), that the document and the result are bodies all the way down, that a verdict is
  the first thing wrong (`VerdictIs`), and while a validation runs (`IsWalk`), that the calls
  in progress follow a path of the document, each with the one rule that the types on the
  way lead to, that the bodies of the result beside them have the same length, and that nothing
  is wrong at any place before the one the walk is at. `FirstProblemReported` says nothing of a
  walk that is not over, so it is not inductive: the last conjunct of `IsWalk` is what the loop
  establishes item by item. To keep it when a block is left, the places before the end of the
  block must be exactly those before the next item, which is what the lemmas on `Before` are
  for. That one rule is found for a path needs `RulesInv`: with two rules of one type the code
  would look at the first, and `RulesFor` at both.
* **`SchemaLoadProofs`**: `LoadsWhatIsDeclared`, the action property `LoadedAsDeclared`. The invariant
  (`LInv`) says of a load in progress that there are a place `c` of the document and a
  function `of` from rules to paths, such that the frames are the bodies on the way to `c`
  (`Follows`); that each rule is the one of the block at its path, below the rule of the block
  around it, and that each block before `c` has one (`Traced`); that a rule has the attributes
  of its body, or for the bodies being read of what is before the next item (`Filled`); that
  everything before `c` is right (`Declared`); and that `strict` is what has been read. An
  attribute moves `c` to the next item, a block into its body, a return behind the block;
  each time the places before `c` are those before it and the one that was read. The search for a
  rule of the same name finds one exactly when an earlier item of this body has the name:
  this is where every block before `c` must have a rule, and no two rules a path in common. At
  the end all of the document is before `c`.
* **`StackProofs`**: `OverridesHold`, that no attribute whose name is bound is evaluated, and
  `DepthIsBounded`. The invariant says of every call in progress where it is: the walk of
  the root body has the empty path, by which the code decides what is overridden; a block
  that is tried is a block of the document, and the label in evaluation is one of its
  labels. Every key in `resolving` is then one of the document's definitions, or the label
  of a nested block, and at most one of these is in resolution: only the walk of a body
  asks for it, and the walks of bodies are below everything else.
  With `NoReentry` the list is no longer than `Definitions`; that a set of pairs is
  no larger than the total of its rows is counted in `AnySequencesProofs`.
* **`DirectivesProofs`**: `LoopsFreeTheirNames`, that the loop names allocated are the total
  over the stack of open directives. The invariant is the property itself; the work
  is what `Append` and `Front` do to a total.
* **`PathGetProofs`**: `ArraysAreWhole`, `IteratedBlocksAreReached`, `IteratedAttributesAreReached`.
  The invariant is that the walk is over what the path names, that `seen` is what was
  wanted of it so far, in order, and that no more is written than the array holds, all that fits once
  the count is returned. The rest is about `Resolve`: each round reads at least a part,
  so the rounds after the last part change nothing; and a path with one more name goes
  through the same rounds as the path until either the name completes the labels of a
  block that is longer than the one the path chose, or the path has ended and the name
  is looked up in what it names. The first alternative is why
  `AttributesAreReached` has a second disjunct: without it the statement is false.

`HostValuesProofs` has two more, each with an invariant on top of the first one. `KeysAreUnique`
adds that a copy in the making has the keys of what it is copied from, as `cl_val_copy` appends
without looking a key up. `CopiesAreWhole` adds that there is a set of pairs of nodes, of
originals and their finished copies, which look alike and whose items are again such pairs,
and that the originals are a closed set that holds no copy in the making. That two nodes so paired are the same value
to any depth (`SameDown`) is an induction on the depth; the property only asks for
the depth of `next`, as TLC can compute it and no value is deeper than there are nodes.

The prover has no induction principle that takes a predicate, but a set of natural numbers
that holds 0 and the successor of each member is all of them (`AllNaturals`), and a
set that is not empty has a least member. That is enough for a definition written as a recursive function on
the natural numbers: that there is one is itself proved by induction
(`EquationHasSolution`, `RepetitionExists`, `SteppedExists`, `ChainExists`). `Total`, `Rounds`, `SameDown`,
`BodyAt`, `RulesFor`, `AttrsOf` and `TypesOfRule` are of that form; a `RECURSIVE` operator is not.

The assumptions are those of the modules' `ASSUME`s. The bounds are natural numbers
(`BoundsAssumption`, `MaxRulesAssumption`, `ChangesAssumption`). Documents and the labels of
their blocks are sequences (`DocsAssumption`): in C both are arrays with a count.
Bindings have values, none of them NULL, which `cl_bindings_set` refuses, and functions
(`BindingsAssumption`), and keys are finitely many (`KeysAssumption`). A path is a sequence of parts
(`PathsAssumption`), and the length of an array a natural number (`CapacitiesAssumption`). In a result every attribute and every field has a value, as evaluation
fails otherwise, and bodies, labels, lists and objects are sequences (`ResultsAssumption`).
The bodies of documents, and of the documents a schema is loaded from, are arrays of attributes and blocks
and are nested at most `MaxDepth` deep (`DocumentsAssumption`; `MaxDepth` is any number), and a list of the values of an
enum is an array (`ListsAssumption`).
A null item of a list, which a nested splat leaves there, is allowed. Documents, values
and the functions of the host are otherwise arbitrary.

**Only model-checked**: liveness (`Terminates`, `CopiesEnd`, and that `ImplementsResolution`
ends); what compares with a `RECURSIVE` operator, over trees and values of any depth
(`AgreesWithMeaning`, `PathMeansReference`, `CompilesToItsGrammar`, everything in
`Storage`'s and `BuiltIns`' runs), as induction over such data is out of the prover's reach; `SeenIsBuilt`, which rests on the evaluator being
deterministic, that is, on what an expression means.

## 5. What is abstracted

* Numbers are integers in `Evaluator`, exact decimals in `Lexer` and `Writer`, and
  tenths in `BuiltIns`: the rounding of doubles, NaN, infinity, hexadecimal floats and the
  range of `long long` do not appear. One place where it shows: `cl_fn_range` takes
  `ceil` of a quotient of doubles, which for steps such as 0.3 may be one more than
  the exact one.
* In the text modules a string is a sequence of symbols, and a word is one symbol; elsewhere it is
  a TLA+ string. Texts of errors and positions in the source are left out, except for the place
  of a template or schema problem and the kind of directive that is said to be open.
* The writer's indentation is left out, as no reader sees it outside of strings; so
  are numbers below a ten-thousandth, which it writes with an exponent. JSON is
  modelled as the attributes it shows, not as characters.
* Paths are sequences of parts: where a part ends in the text is not modelled.
* Memory never runs out (the code calls `abort`), and the growth of arrays is not seen.
* In `Validation` a document has literals, lists, objects, for-expressions and variables;
  of an evaluated list or object only the kind is kept, which is all the
  validator reads. In `Storage` a document is exported when its expressions are
  constants, as `Evaluator` says what the others evaluate to.
* In `Directives` the names of loops still open when compilation fails stay
  allocated, as in the code: this is a leak, and `NamesOfOpenLoops` speaks of it only
  in that it says what is left.

## 6. Disagreements found

* `nested_splat`: a splat after a splat yields null pointers (`cl_eval.c:333`); the run stops
  at the first of them, before a further step would read through it.
* `label_order`: a computed label that uses a later block of its own type is reported
  as circular, though README says a label may use other blocks (`cl_eval.c:430`).
* `late_binding`: a host function that binds a new name leaves the table of
  copies shorter than the bindings it is indexed like (`cl_eval.c:209`).
* `unterminated`: the message about an open directive reads the stack of open
  directives after it is freed (`cl_template.c:584`), and so may call a `%{for}` an `%{if}`.
* `reload`: a string with a directive mark that the host sets is exported as a text that
  does not load, or loads as another value (`cl_lexer.c:133`).

What the writer does not write so that it is read back, each a conjunct of `RoundTrip`;
`SavedReadsBack` and `ExportReadsExactly` say that there is nothing else:

* a string with `${` or `%{` whose braces do not close, or with a quote, a backslash or white
  space other than a blank between them (`reload`);
* an object whose first key is `for`, and a list whose first item starts with that name: both
  are read as for-expressions;
* a piece of a template that ends in `$` or `%` right before a directive, which trimming
  can make of a text: `"$ ${~a}"` is saved as `"$${a}"`, an escape. The comment at
  `cl_writer.c:312-314` says that pieces are escaped so that they read back;
* a literal or a template as the base of a postfix expression, which is written
  without parentheses (`cl_writer.c:212-216`);
* an object in brackets with a key in parentheses after a value that ends in a name:
  `[{ a = foo, (k) = 2 }]` is written without commas, and inside brackets newlines do
  not separate, so that `foo (k)` is read as a call;
* a negative number as a literal, which only a host can make: it is read as a unary minus.
  The value is the same;
* a computed index that is a constant, which is read as a plain one. The value is the same;
* an expression in a directive whose text, with its strings, does not end at the brace that
  closes it, as with quotes nested three deep.

## 7. Not modelled

* **Examples and the command line tool**: programs that use the library.
* **The constructors and accessors** of the tree (`cl_ast.c`), the scalar getters, the
  getters with a format, `cl_get_strings` and `cl_get_numbers` (`cl_get.c`): no state, and they do what their one line says,
  or the two lists what `cl_get_ints` does without its second check. The
  searches that are not one line are operators of `Syntax` and `PathGet`.
* **`cl_bindings_set_function`**: a table of names; which functions there are is an input.
* **The arena's array of pointers** (`cl_arena.c`): it grows by doubling, and memory is out of the model.
* **`pow`**: it is the C library's.
* **The range of numbers** in the built-in functions: numbers are bounded tenths, so that `parseint` does
  not meet `ERANGE` (`cl_functions.c:596`) nor the prefix `0x` that `strtoll` takes in base 16, and `range`
  not an argument that is infinite (`cl_functions.c:786`).
* **The characters of a path and of JSON** (`cl_get.c`, `cl_export.c`).

## 8. Plan

Done, in this order: `Evaluator` with `Resolution` and `EvalReference`; `HostValues`;
`PathGet`; `Directives`; `SchemaRules` and `Validation`; `TemplateScanner`, `Lexer`, `Parser`,
`Writer` and `Storage`; `BuiltIns`; the theorems above.

Open: theorems about the parts of `BuiltIns` that need no recursion on values (`range`, trimming,
merging), once they are in a module without `RECURSIVE` operators; that a load which fails leaves
nothing allocated; the characters of a path.
