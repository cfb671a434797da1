# RIPS in TLA+

RIPS is the engine of a robotic intrusion prevention system. A monitor (ripspy,
outside this repository) sends it messages about a ROS 2 system over a Unix
socket; the engine runs rules on each of them, and every 200 ms on external
events (signals, logs of an IDS); the rules raise alerts, run programs and move
an *alert level*, which the engine tells the monitor about. Rules are written in
a small language that the engine compiles, type-checks, optimises and then
interprets, or translates to a Go program.

This directory holds its specification: TLA+ modules translated from the Go
code, TLC configurations, and TLAPS proofs. Line numbers are those of `src/`.

## Inventory

| Component | Where | State | Operations | Modelled by |
|---|---|---|---|---|
| Event loop | `rips/rips.go`, `extern/conc.go` | channels `mc`, `mcr`, `ct`, `c`, `pathsc`; `context.CurrentMsg` | connect, decode, dispatch, poll, end | `Engine` |
| Watcher | `extern/ids.go` | inotify's queue, the directories under watch, `pathsc`, `context.Paths` | walk, event, send, search (`Fgrep`) | `Engine`, `Watch` |
| Signals | `rips.go`, `conc.go`, `expr.go` | channel of one, `Nusr1`, `Nusr2` | deliver, count, consume | `Engine` |
| Alert levels | `extern/actions.go`, `tree/vars.go`, `tree/builtins.go`, `tree/interp.go` | `context.CurrLevel`, `Init`; the symbol `CurrLevel`; the symbols of levels | trigger, set, refresh | `Levels` |
| Rule chains | `tree/interp.go` | the answer of the last action | run a chain | `ChainRun` |
| Optimiser, chains | `tree/const.go` | the chain, `vds` | passes of dead-code deletion | `Chain` |
| Expressions | `tree/eval.go`, `tree/const.go` | none (`signal` consumes) | evaluate, fold, drop a rule | `Exprs`, `Compile` |
| Generator | `tree/gen.go`, `tree/genprog.go` | none | translate rules | `ChainRun` (chains) |
| Queries | `extern/context.go`, `extern/expr.go`, `extern/msg.go` | the current message, its graph | 30 builtin expressions | `Queries` |
| Types | `types/type.go`, `tree/type.go`, `tree/builtins.go` | types of symbols | compatibility, annotation, check | `Types` (calls), `Exprs` (operations) |
| Parser | `parser/*.go` | tokens, environments, count of errors | parse, resynchronise | `Desc` (programs), `Pratt` (expressions) |
| Lexer | `lex/lex.go` | the runes accepted, the token that `Peek` saved | `Lex`, `Peek` | `Lexer` |
| Statistics, debug output, arguments of main | | | | not modelled |

How they interact: `main` compiles the rules, starts the watcher and the
dispatcher, waits for a monitor, triggers the initial level and then becomes the
message decoder. It and the dispatcher alternate on `mc` and `mcr`, so that a
message is never decoded while another is being handled. The dispatcher alone
runs rules; it shares `context` and the symbols with main without a lock, and
relies on the first nil in `mc` to be kept out of them until main has set them
up. The rules call the interpreter, which calls the actions in `extern`.

The hard behaviours: four goroutines that meet in a `select`; a channel of one
for signals and a bounded one for paths; the end of the process from four
places; external programs that fail between the two halves of a change of
level; a level kept in three places; an optimiser that goes over a chain again
and again with pointers into it; a translation that must agree with the
interpreter; a parser that goes on after each error, with environments to pop;
logs that grow, are rotated, and appear in directories not yet watched; queries
that index a graph with no node in it. `PROJECT.json` lists each hazard at its line, with the properties
aimed at it.

What makes each component correct:

- event loop: in order, exactly one iteration per message, none cut short but by
  its own rules, and nothing starves; it ends when the monitor goes;
- watcher: each write to a log is searched by a poll that starts after it, and a
  rule is told of an alert in it;
- signals: `signal` is true once per signal, never more;
- levels: the three copies agree, the level moves only along the edges of its
  state machine, hard levels are floors, the programs of levels and the notices
  to the monitor follow the level, and `trigger` answers the truth;
- chains: connectors mean what the documentation says; optimising and
  translating change nothing;
- queries: what the compiler accepts is evaluated where it makes sense, answers
  what its name says, and does not end the process;
- lexer: tokens are the longest of the language, each taken once;
- parser: what is of the grammar is read whole, what is not is refused, and each
  error leaves a state that the next section can be read from;
- expressions: they are read as they were meant, what is not read is refused,
  their values have the types they were checked for, and folding changes nothing.

## Modules

| Module | What it is |
|---|---|
| `LevelMachine` | abstract: edges of the state machine of levels, exit program before entry, the notice |
| `Levels` | `extern.Trigger`, `tree.Trigger`, `SetPredefVars`, `PushSyms`, `set`, `levelname`; refines `LevelMachine` |
| `MCLevels` | four levels, two soft, one variable |
| `Levels_proofs` | its theorems |
| `EventLoop` | abstract: messages, iterations, exit |
| `Engine` | `main`, `MsgDecoder`, `Dispatcher`, the poller, `Watcher`, and the world; refines `EventLoop` |
| `MCEngine` | files and signals |
| `Engine_proofs` | its theorems |
| `Chain` | `Prog.Fold`'s passes over the actions of a rule |
| `ChainRun` | `Rule.Interp`, and what `Rule.Gen` and `Action.Gen` generate; the meaning of chains |
| `MCChain` | all chains of up to four of six actions |
| `Chain_proofs` | the theorems of `Chain` and of `ChainRun` |
| `Exprs` | values, types, `EvalExpr`, `Fold` |
| `Pratt` | the parser of expressions |
| `Compile` | the phases of `BuildAst` for the expression of a rule |
| `MCCompile` | ints of three bits, all small expressions, all short texts |
| `Compile_proofs` | the theorems of `Compile`, and those of `Exprs` they rest on |
| `Lexer` | `Lex` and `Peek`, rune by rune |
| `Lexer_proofs` | its theorem |
| `Desc` | the parser of programs, token by token, with its recovery from errors |
| `Desc_proofs` | its theorems |
| `Types` | the lattice of types, the table of builtins, the check of a call in a section |
| `Queries` | a rule with one call of a builtin, compiled, folded, and evaluated in messages and polls |
| `MCQueries` | calls of up to three literals, and small graphs |
| `Queries_proofs` | its theorems, and those of the lattice |
| `Watch` | directories, logs, the kernel's queue, `Watcher`, and `idsalert` in a poll |
| `MCWatch` | a log in the directory, another in one inside it |
| `Watch_proofs` | the theorem of `Watch` |

### Levels

`val` is the value each symbol points to: a level of the syntax tree itself
(`shared`, its number is then in `levelInt`), a copy of a level, or an anonymous
integer, with a name only if it comes from a level. `ctxLevel` and `ctxInit` are
`context.CurrLevel` and `context.Init`. An iteration begins with
`SetPredefVars`, which writes the number into whatever symbol `CurrLevel` holds.
A call to trigger is split where it runs an external program: `TriggerStarts`
(all its checks), `RunFrom`, `RunTo`, and `ScriptFails` for either program; the
early returns are `TriggerSame`, `TriggerIllegal`, `TriggerMissing`. Which
actions run, and in which order, is left open: any of `Actions` may come next.
A rule that sets `CurrLevel` compiles; `SetsPredef` is a step that does.
`told`, `left` and `entered` are ghosts for what the world has seen.

### Engine

One action per channel operation. The `select` of the dispatcher is the choice
among `RecvPath`, `RecvPoll`, `RecvMsg` and `RecvSignal`; an iteration of the
rules is the state `dispPc = "run"`, in which the rest of the system goes on,
and which ends in `EndPoll` or `EndMsg`, or with the process (`RuleExits`). What
the rules do there is left open except for `signal`. Channels of capacity one
are variables holding `None` or a value; the unbuffered `ct` is a rendezvous, so
that the send and the poller's receive are one action. `SetUpFails` are the errors
that end the process before the first message; the watcher of this module is one
that could be set up. inotify merges the
writes that nobody has read yet into one event per file.
`handled`, `dirty`, `raised` and `used` are ghosts.

### Chain and ChainRun

The optimiser keeps pointers to actions it may delete later; an action is its
position in the source here, `const` the set of those whose `What` has become
the constant true, `where` the field `whereset`. `Keep`, `Drop` and `Truncate`
are the ways an iteration of ActionLoop ends, `Again` starts the next pass.
A set is one only until its `What` becomes the constant (`Sets`).
`setused` never marks a variable as used (a variable has no `Expr`, and it
returns), so that field does not exist here. The executors are recursive
functions on the number of actions done: `Interp` looks at the connector before
the action, `Generated` runs the action and then tests flags that only grow. What
a call may answer is the constant `Can`: `alert` always answers true.

### Exprs, Pratt and Compile

These are algorithms without concurrency, and a machine of four steps that takes
an expression through the phases of the compiler. Whether it is the trigger of a
rule, which must be boolean and may be dropped with it, or an argument of an action,
is left open. An expression is the sequence
of the symbols that the parser made for it: the operands of a symbol are pointers
to earlier ones (`left`, `right`, `args`: `IsExpr`), as in the code they are
pointers to symbols that exist already, and the last symbol is the root. What the
code does by going down a tree is a function of the symbols: their types
(`TypesOf`), their outcomes (`Eval`), and what each is folded to (`Fold`), which
takes its place. A value is a type and a number, a string being its length over
one letter. Evaluation threads the number of signals that wait, as `signal`
consumes one, and the error that ends the process: `"zero"` for a division, and
`"types"` for an operation on values that do not suit it, which `TypeSound` says
never happens.

`Pratt` keeps the names of the code (`Expr`, `Nud`, `funcArgs`, `bindPow`); `Led`
is the loop of `Expr` with the calls to `Led` in it, and the powers are divided by
`MaxNTerms`, which only matters to operators that are right associative: there are
none. `Compile` starts from an expression somebody `meant` and wrote down with the
parentheses that `Grammar` asks for, or from any text. It knows the parser as the
constant `Parsed`, of which it assumes that what it returns is an expression;
`MCCompile` gives it the one of `Pratt`, and TLC checks the assumption for all the
texts of the run. The greatest int is `MaxInt`, and the operations on the bits of
ints are constants of which only what folding needs is assumed: the masks that
change nothing.

Two things the code does are in the model and are exceptions in `FoldKeepsMeaning`.
A variable called `lit` has the name of all anonymous symbols (`NameOf`), so that
`x + 1 == lit` is folded to true (`const.go:259`): `PlainNames` excludes it. An
expression whose evaluation fails may become one that does not: `5 % 0` is folded
to 5.

### Lexer

The text is not given in advance: the next rune is found when the last is taken,
and it may be any. Runes that nothing tells apart are one. `text` is what this
call has accepted, as a state of a small automaton, `Derive`, whose states
`Whole` are tokens; `stale` tells that there is something of an earlier error
before it, which `lexId`, `lexString` and `lexNum` use as if it were theirs.
`Derive`, `Whole` and `TokenOf` are the definition of tokens that the properties
compare with, and drive nothing.

### Desc

The same with tokens for runes. The functions of `desc.go` call themselves last,
so that a label, `pc`, is all there is of the stack; `after` is what the parser
does when the search for a token to go on from (`NextSync` and the like) ends.
An operand of an expression is one token, since `Pratt` has what is inside.
`gram` follows the grammar that the comments of `desc.go` give, and `ahead`,
`clash` and `lost` are ghosts for what was added to the tree, for errors that are
not of syntax, and for what was passed over without a word. Whether a name has
been declared is a choice.

### Types and Queries

`Types` has `IsTypeCompat` and the table of builtins as a function from names to
the types of arguments. `Queries` takes a call through `Compile` (types, arity,
folding of what is always true) and then, with any message the monitor may send,
through `Update` and `Interp`, which looks for the section of the message and
evaluates. A panic ends the process, as nothing recovers from it in an iteration.
What a query is meant to answer is `Meaning`, in terms of sets of names; the code
scans lists, in which a name may be repeated and an empty list may be one empty
name. `AnswersAsMeant` says they agree where names tell topics and nodes apart
(`PlainMsg`, `PlainCall`). Counts are of the elements of a list, and so of its
names only if it is `Countable`: the messages of the examples repeat names, and
a list of the empty name counts one.

### Watch

`Engine` says only that a file was written. Here a log may have an alert in a
complete line, or in a last line that does not end yet, or may have been renamed
by a rotation; directories appear; the kernel merges equal events and drops what
does not fit. `FgrepAll` opens one path a step, so that the IDS writes between.
`due` is a ghost for alerts that the kernel told of and no rule has been.
`Watcher` may fail in each of its calls (`NewWatcherFails`, `AddRootFails`,
`WalkFails`), which leaves the engine running without a watcher, as main ignores
the error (`rips.go:174`); adding a new directory may fail too (`Added`).

## Runs

| Run | Bounds | What it shows |
|---|---|---|
| `levels` | 4 levels (2 soft), 1 variable, 13 actions; 17,211 states | agreement of the copies, truth of answers, the outside view, hard floors, refinement of `LevelMachine` |
| `engine` | 2 files, 2 messages, 1 counted and 1 ending signal once each, `pathsc` of 1; 1.8 million states | refinement of `EventLoop`, ownership of the context, no write missed, no signal seen twice, no message lost when main leaves |
| `engine_live` | 1 file, 2 messages, 1 ending signal; 45,964 states | five liveness properties |
| `watch` | a log in the directory, one in a directory inside it, `pathsc` of 1, 3 events in the kernel; 216,308 states | each alert that the kernel told of is on its way to a search, and a rule is told of it |
| `chain` | all chains of 1 to 4 actions out of 6 kinds and 3 connectors; 360,463 states | deletions have a reason, the optimiser stops, connectors, chains with commas |
| `compile` | 3-bit ints, strings up to 2, 2 int, 1 bool and 1 string variables, 8 environments, 0 or 1 signal; 186,545 expressions, most of two operators; texts of up to 5 of 10 tokens; 818,751 states | parsing, types, evaluation and folding agree |
| `lexer` | none on the length of the text; 175,471 states | tokens are the longest, errors are where no token is, `Peek` and `Lex` take each token once |
| `desc` | none on the length of the text; `maxErrors` 4 for the 10 of the code; 419,136 states | environments are balanced, errors have a reason, programs of the grammar are read whole, what is lost in silence is known, the parser never loops |
| `queries` | 30 builtins, lists of up to 2 arguments of 6 literals (3 where there are counts), graphs of up to 2 topics and 2 nodes, with names out of order and repeated; 335,615 states | answers are those meant, of sets of names; every way a query ends the process is known |

Four levels are the least with a soft level above a soft one's floor and a rise
over two; a second variable would only repeat the first. Two messages show
order and the wait between them; a channel of paths of one is full after one
write, and two files show that one does not hide the other. Three events in the
kernel are enough for a write to wait behind the creation of a directory and for
one to be dropped. In a chain, four actions hold two sets of a variable,
something between them, and something after; three passes do happen. Three bits
are enough for ints to overflow both ways, to divide the least int by -1, and to
tell -1 from the other masks; two operators put each one inside each other one on
both sides, which decides precedence and associativity. The texts of `lexer` and
`desc` have no bound: their states are finite because of what the program
remembers of them, but for the errors, which the code itself counts. In a graph,
two topics show that the right one is looked up, and two names in a list that
their order does not matter.

Three runs expect a violation of what a comment or the documentation says; each
is a finding in `PROJECT.json`:

| Run | Said by | What the code does |
|---|---|---|
| `compile_c` | tech.tex:995, the precedence of C | `&` binds less than `^`, and `^` less than `\|` |
| `chain_optimised` | const.go:123, the idiom with a flag | its first set is deleted, though the last may not run |
| `chain_generated` | tech.tex:1251, the same output | generated chains ignore `=>` and `!>` |

### Known deviations

Other things the code does that a reader may not expect. The models have them;
they show as exceptions that a property names, as an assumption, or in inputs
that a run leaves out.

- Levels. The check that predefined variables are not set is reached only when
  types differ (`tree/type.go:202`), so that `set(CurrLevel, X)` compiles, though
  tech.tex:1217 says that they cannot be set. The copies of the level then
  disagree, a hard level is no floor, and the engine does not implement
  `LevelMachine`: at a hard level 2, `set(CurrLevel, l0)` and `trigger(l1)` run the
  exit program of `l0` and bring the level down to 1, as TLC finds at once if the
  rules of the run `levels` are given such a `set`. They have none, and the
  theorems are about behaviours with no such step (`SetsPredef`). A variable set to
  a level keeps its number and not its name (`interp.go:40`; tech.tex:843 says it
  contains a level), so that `trigger` of it is refused.
- Signals. The channel has room for one: a second signal before the dispatcher
  reads is lost (`rips.go:166`; tech.tex:1199), which `SignalOnce`, an
  upper bound, allows.
- The end. main pops the symbols while a poll may be running (`rips.go:221`);
  `OnlyFinalPolls` says that nothing but a poll can meet that.
- Operators. `&`, `^` and `|` bind in the opposite order of C (`pratt.go:26`;
  tech.tex:996). The expressions of the run `compile` are written down with the
  order of the code (`CodeGrammar` in `MCCompile`), and those of `compile_c` with
  that of C (`CGrammar`).
- Parser. `LostIsKnown` lists what it passes over in silence: a section of rules
  with no name, text after an action without a connector, and others.
- Lexer. `0xFF` is read as `0xF` and then `F`, `0x_1` is accepted, and after a
  bad rune what came before it is still part of the next token.
- Types. Every call and every literal has a type that suits any section
  (`tree/builtins.go:348`), so that the types do not keep builtins out of the wrong
  section, as tech.tex:961 says: `AnySectionWillDo`. `publishers()` in a section
  `External` compiles, and ends the process in the first poll.
- Queries. `PanicsAreKnown` lists the ways an accepted expression ends the
  process: `service` and `servicecount` are declared with an argument less than
  they take, `services` of no node or of one that is not there, a topic with an
  empty list of types, and, in a poll, whatever asks about a message.
  `subscribersinclude` asks the opposite of its name. `MsgGraph` sections are
  type-checked and never run.
- Watcher. What is written in a new directory before it is watched
  (`ids.go:111`), in a file rotated before the poll, or with the kernel's queue
  full, is not told to any rule: `AlertsTold` is of the alerts the kernel told of.
  Nor is anything if the watcher could not be set up, of which main takes no notice
  (`rips.go:174`): `AlertsTold` excepts it.

## Fairness

`LiveSpec` of `Engine` assumes that a goroutine that can run does (weak
fairness of main, of the dispatcher outside its select, of the poller and of the
watcher's send); that a `select` whose case is ready again and again takes it
(strong fairness per case, as Go picks at random among the ready ones: with weak
fairness `MsgsHandled` and `SignalObeyed` fail); that iterations end, which
they do if the programs they run do, and if the monitor reads; and that the
kernel delivers the events of each file. Nothing is assumed of the monitor, the
IDS, or whoever sends signals, nor that main leaves `Accept`: the properties
speak of the time after a connection. `Watch` assumes the same of its part: that
the watcher and an iteration go on, and that the `select` takes paths and polls
again and again; nothing of the IDS. With `WF` for its `SF`, `AlertsTold` fails.
No failure is fair: those to accept, to make a watcher or to add a directory may
happen and need not.
`LiveSpec` of `Chain` and of `Desc` is that a sequential program goes on.

## Proofs

TLAPS proves, for every value of the constants:

- `Levels_proofs`: `LevelsSafe` (types, `Agreement`, `VerdictIsTruth`,
  `OutsideView`), `LevelsFloor` and `LevelsRefines`, for the behaviours in which no
  rule sets `CurrLevel`: all three are of the form
  `Spec /\ [][~SetsPredef]_vars => ...`, and without the condition they are false
  (see the deviations).
  The conjunction of the invariants is not inductive: what a call in progress
  has already checked (its destination is a declared level and a legal move,
  the exit program of the current level has run) has to be added.
- `Engine_proofs`: `EngineSafe` (types, `ContextOwned`, `NoWriteMissed`,
  `SignalOnce`, `OnlyFinalPolls`) and `EngineRefines`. The inductive invariant adds
  `Protocol`: for each place main may be in, where the token of the alternation
  is (in `mc`, with the dispatcher, in `mcr`), and how `decoded`, `sent` and
  `handled` are related there. Everything else follows from it: the kick-off
  cannot be confused with the final nil, a message is handled once, a normal
  exit finds all of them handled, and main pops the symbols after the last.
- `Watch_proofs`: `WatchSafe` (types, `AlertsOnTheWay`), for any directories and
  logs and any capacity of the kernel's queue and of `pathsc`. The invariant says
  that the watcher holds a path exactly while it sends it, that what is due is
  still in the log, and where each alert may be.
- `Chain_proofs`: `ChainSafe`, for chains of any length. Its invariant says that
  what is left to visit is in order and after all that was kept, that `where`
  points to sets of the right variable before it, and that every constant has
  its reason. `ChainRunSafe` (`FollowsConnectors`, `CommaChains`), for
  chains of any length and any answers of the actions, uses the invariant of
  `ChainSafe` at the end of the optimisation. The run of the chain as parsed and
  that of what is left are compared action by action: they differ at most in
  variables that are `Stale`, those between two sets of the same variable, which
  nobody reads there (`DeadSetsAreDead`); at the end none is. The generated code
  runs a chain of commas to its end, since `iscomma` is true from the start.
- `Compile_proofs`: `CompileTypeSound`, `CompileFoldKeepsMeaning` and
  `CompileNothingConstantLeft`, for expressions of any size, any variables, and ints
  and strings of any width. The invariant of the compiler is short: what it has
  read is an expression, what it has checked has a type, what it has folded has no
  operation of constants. The theorems are about the functions of `Exprs`. `Sound`:
  a symbol that has a type has a value of it, or a division by zero in it, whatever
  the environment. `FoldTypes`: a symbol that was put in the place of another has
  its type. `FoldMeans`: it has its outcome, if that is no error (`BinMeans` has the
  cases of `FoldBinary`). `FoldReduces`: its operands are not all constants. Each is
  proved for the first symbol of which it might not hold (`FirstSymbol`), since
  those before it include its operands.
  That the symbols and their pointers mean what the tree does is proved too:
  `ParserMakesExprs` (each operation of the parser on expressions makes an
  expression), `TypesCompose` and `OutcomesCompose` (the type and the outcome of
  an operation are those of its operands, left before right).
- `Lexer_proofs`: `LexerSafe` (`TokensOfText`, `ErrorsHaveAReason`, `TakenOnce`,
  `TakesSome`), for any text and any calls. The invariant says what the text may
  be at each label, whatever an earlier error has left before it; `lexNum` goes on
  at the end of the text with what is not yet a number, which its parts name.
- `Desc_proofs`: `DescEnvs`, for any text and any limit of errors. The invariant
  ties the depth of the environments to the label the parser is at, and says
  which labels may follow a search for a token. `DescReads`
  (`ErrorsHaveAReason`, `GrammarIsRead`, `LostIsKnown`): parser and grammar go in
  step (`InStep` gives, for each label, where the grammar is) until the text is
  `Doomed`, as no program continues it; from there on it is doomed whatever the
  parser does, and an error or a loss is noted, or is about to be.
- `Queries_proofs`: `QueriesSafe` (`PanicsAreKnown`, `AnswersAsMeant`), for any
  calls and any messages, by what each look-up finds (`FirstIsAll`), by the
  arguments that the check of types lets through (`ArityIndex`), and by what scans
  of lists say of their sets (`SubsetMeans`, `AllMeans`, `CountMeans`).
  The invariant says that an answer is one of those of the last message, and what
  has been folded means true. `LatticeKeepsApart`: the compatibility of types of
  sections is the one the manual describes. `AnySectionWillDo`: what compiles in
  a section compiles in all, since no call or literal has a type that the lattice
  could keep apart.

They assume of the constants what the modules that declare them do, and TLC
checks in each run: types, that `None` and `Nil` are no value, that capacities are
not zero. What is needed of rules and messages is in the theorems of
`Levels` themselves (no rule sets `CurrLevel`) and in the properties of `Queries`
and `Compile` (names tell things apart).

`Compile` assumes more: that what the parser returns is an expression (what it is
made of is, by `ParserMakesExprs`; that it is made of nothing else is read off
`Pratt`, whose recursion the provers cannot follow), that
variables hold values of their types, that `&`, `|` and `^` take ints to ints, and
that -1 and 0 are the masks that change nothing. TLC checks all of it in `compile`.

The provers have no rule of induction to apply. What holds of runs of any length
is proved in `Chain_proofs` by taking, among the steps at which it would not
hold, the least (`LeastNat`, from the well-foundedness of the natural numbers), and
in `Compile_proofs`, among the symbols, the first; that a recursive function exists,
as `RunExists` says of `Interp` and `Generated`, and `FixExists` of types, outcomes
and foldings, is proved in the same way.

Only model-checked are the properties of two kinds. Liveness (`OptimiserStops`,
`Terminates`, `MsgsHandled`, `SignalObeyed`, `PollsForever`, `WritesSeen`,
`AlertsTold`, `Progress`) is out of the prover's reach. So are `ReadAsMeant` and
`AcceptedWhole`, which are about the parser of expressions: its functions call
each other recursively, on texts that get shorter by an amount that only the
recursion tells. Every other property of a passing run is stated by a theorem.

## Not modelled

The wording of what is written to the monitor, statistics, debugging output, the
arguments of main, the text of templates of the generated program, and its
header. `Time` and `Uptime`. Floats, and literals beyond 64 bits. The plugin, the
rules of yara and regular expressions, which are outside: any answer. The copy of
the connection of `DebugSpy`. A monitor that stops reading: writes to it never
block here. Errors that inotify reports while it runs, which are logged, and errors
of the file of rules.

The names of symbols: whether one has been declared is a choice in `Desc`, and
nothing models that a name is found by pointer when parsed and by name in an
iteration. `NewSym` looks only in the current environment (`sym.go:122-135`), so
that a level may take the name of a predefined variable, which `SetPredefVars`
(`vars.go:55-59`) would then find in its place.

The check of the state machine of levels (`tree/type.go`): it sets a flag that a
test reads and the compiler does not stop at.

## Plan

In order of importance; all but the last three are done.

1. `Engine` against `EventLoop`, with proofs.
2. `Levels` against `LevelMachine`, with proofs.
3. `Chain` and `ChainRun`, with proofs.
4. `Exprs`, `Pratt` and `Compile`: parsing, typing, evaluating and folding, with
   proofs of the last three.
5. `Types` and `Queries`: sections, and queries on graphs with nodes that are not
   there, with proofs.
6. `Desc` and `Lexer`: texts and errors, with proofs.
7. `Watch`: contents of logs and directories that appear, with proofs.
8. Composition of `Engine` and `Levels`, with a socket whose buffer is bounded
   in both directions, and external programs that may not end.
9. Environments and names: look-up by pointer and by name, shadowing. Floats in
   `Exprs`.
10. A theorem about `Pratt`: that what it accepts is an expression with the tokens
    of the text, by the same means, on the positions of the text.
