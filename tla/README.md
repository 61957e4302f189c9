# A verification of php-ext-cedar

php-ext-cedar is a PHP extension that answers AWS Verified Permissions (AVP)
authorization requests with an embedded Cedar evaluator. This directory holds
TLA+ models of its behaviour, the TLC runs that check them, and theorems that
TLAPS proves about them. Line numbers refer to the sources of this commit;
`eval.c`, `expr.c`, `parser.c`, `lexer.c`, `compat.c` and `types.h` stand for
`src/cedar/php_cedar_*`.

## The system

| Part | State it keeps | Operations | Hard behaviour | What makes it correct |
| --- | --- | --- | --- | --- |
| `PolicyStore` (cedar.c 42-258) | id, pool, ordered hash table policyId -> parsed policies | construct, loadString, loadFile, id, policyIds | the stream of loadFile can run PHP code that uses the same store; refused and failing loads; the AST refers to the source text | an acknowledged load is there, once, in order; a refused load changes nothing; policies keep the text they were loaded from |
| `AuthorizationClient` (cedar.c 260-321, 1056-1280) | a reference to a store, an identitySource | construct, isAuthorized, isAuthorizedWithToken | construction repeated, store variables dropped, two tokens at once | the store is alive; claims mean what the same groups mean as parents |
| Request loop (cedar.c 735-1054) | evaluation context, errors[], permit and forbid ids | apply context map, entity list, token groups; evaluate each bundle; build the response | one identifier in several roles, an entity listed twice, half applied values, results of bundles in load order | the context is complete before a policy is matched; forbid overrides permit; the default is DENY; the determining policies and errors are exact |
| Attribute injection (cedar.c 360-715, eval.c 202-1570) | arrays of the evaluation pool, shared with handles | apply a top attribute, a record member, a set element | recursion, a failure in the middle of it, a ceiling that records and sets share | bounded nesting, unique names, one report per failing entry |
| Evaluator (eval.c 22-200, 1600-1783) | the result structure of one bundle | scope, conditions, forbid pass, permit pass | a result buffer grown by hand, two meanings of DENY, errors in `unless` | as for the request loop |
| Expression evaluator (expr.c 840-1352, 1440-2390) | a depth counter in the context | expr_eval, value_equals, methods, has, in, is | depth and size limits, error propagation, the role a request entity carries with it | the laws by which authors rewrite policies; an error is never mistaken for a value |
| Extension types and like (expr.c 138-840, 1354-1438) | none | read an ip, decimal, datetime, duration; match a pattern | both ends of a 64-bit range, the calendar, two notations of addresses, backtracking | a text is accepted iff it denotes a value in range, and then it is that value |
| Lexer (lexer.c) | a position in the text | next token, read a string | escapes, comments, one byte of look-ahead | the longest token; layout means nothing; what was escaped comes back |
| Parser (parser.c) | token, depth, error flag | parse a text into a policy set, compile a pattern | limits of each list, associativity, `-` in front of literals, a text that ends early | what was written is read back; no token is dropped; a text beyond a limit is refused as a whole |
| Pool, arrays, logging (compat.c) | blocks owned by a pool | palloc, destroy, array create, push | malloc failing half way, doubling, zero sizes | no leak, no double free; an array is an append-only list |
| PHP glue (arginfo, MINIT, stubs) | none | class registration | none | not modelled: declarations |

How they interact. All of it is calls on the thread of the PHP request; there
are no locks, no callbacks out of an authorization, and nothing is persisted.
What threads of a ZTS build share is one counter (cedar.c 110).
The client shares the store with the program by reference, so loads after the
client was constructed count. `cedar_evaluate_request` owns its pool and
context and destroys them before the response is built. The one way back into
PHP is `php_stream_copy_to_mem` in loadFile (cedar.c 195).

## The modules

| Module | Role |
| --- | --- |
| `CedarTypes` | data: uids, attributes, scopes, policies, bundles, requests, answers |
| `CedarSemantics` | reference definitions: the context a request declares, which policies are satisfied, the decision, who determines it, and the answer (`Verdict`) that a store and a request define |
| `AuthzDecision` | the abstract specification that gives this answer in one step |
| `Evaluator` | eval.c's matching functions, keeping their names and case distinctions |
| `Authorizer` | `cedar_evaluate_request` and what it calls, a step per loop iteration |
| `AuthorizerProperties` | its invariants, action and temporal properties |
| `Injection` | an AttributeValue written array push by array push, with an explicit call stack |
| `AttributeMap` | the abstract view of it: one step per entry of the request |
| `PolicyStore` | construction, nested loads, and the memory behind the policies |
| `AuthorizationClient` | the life of a client, its two methods on top of `Verdict` |
| `Texts` | positions, runs of characters and numbers in a text, shared by all readers; what it means that a text matches a pattern |
| `ExtensionTypes` | the readers of decimal, datetime, duration and ip, checked arithmetic, the methods of datetimes and durations and the containment of ranges, at widths that are constants; no operator of it is recursive |
| `Nodes` | the nodes of an expression, which the parser makes and the evaluator reads |
| `Expressions` | runtime values with equality, order and methods; `php_cedar_expr_eval`, one operator per kind of node |
| `LikeMatch` | the loop of `php_cedar_like_match`, an action per branch |
| `Lexer`, `Parser` | from bytes to tokens to policies, one operator per parse function; they call each other through `Phrase`, by the name of the form |
| `LiteralLaws`, `LexerLaws` | reference definitions and laws of the readers of literals and of the lexer |
| `ExtensionLaws` | the same for addresses, datetimes and durations: ranges, a pair of moments, a calendar with a clock |
| `ExpressionLaws` | the same for nested values and their methods, and for expressions |
| `ParserLaws` | the same for the parser, on expressions, tokens and policies; for that, how an expression is written with the parentheses it needs, and which limits it keeps |
| `PolicyMeaning` | parser, expressions and the matching of policies composed |
| `Pool`, `AppendLog` | memory of a pool and the arrays in it, and the list that such an array implements |
| `StoreIds` | the fallback id of a store, made by threads that share its counter |
| `AuthorizerProofs` | theorems about `Authorizer`: its invariants; that the context is complete and the answer is the abstract one |
| `InjectionProofs`, `AuthorizationClientProofs` | theorems about the module of that name |
| `RuntimeProofs` | theorems about `PolicyStore`, `Pool`, `StoreIds` and `LikeMatch` |
| `ExtensionProofs` | theorems about `ExtensionLaws`: time arithmetic, the calendar, and the inclusion of ranges |
| `LiteralProofs` | theorems about `LiteralLaws`: the readers of decimals, durations and addresses |
| `ExpressionProofs` | theorems about `ExpressionLaws`: the depth limit, what operators abbreviate, and the slots of request entities |
| `SequenceLemmas` | lemmas about lists joined from lists and numbers written in digits, and the form of induction that these proofs share |
| `MC*`, `*.cfg` | instances for TLC, an MC module for each group of components that are checked together; `MCData` holds entities and policies that two of them share |

`Authorizer` composes `Evaluator` with the request loop. Its view of an
AttributeValue is a value and a flag (`AttrEntry`): what the call leaves in the
context and what it returns. `Injection` refines exactly that view
(`ImplementsMap`). `AuthorizationClient` uses `Verdict`, which `Authorizer`
refines (`ImplementsDecision`). Both refinements are checked and proved. `Authorizer` leaves the meaning
of expressions open (`ExprEval`), so that its theorems hold for every one;
`PolicyMeaning` puts `Expressions` in its place, on policies that `Parser` has
read. `Expressions` uses `Matches` of `Texts` for `like`, which the run Runtime
holds the loop of the code against.

Pure functions have no state to explore. Their laws are invariants of a small
specification that writes the input: a text character by character, an
expression node by node, a value container by container, a clock tick by tick.
Every prefix is an input too, so the laws are checked on all inputs up to the
bound. Some properties of the runs are the conjunction of a few laws, each of
which its module names and states.

A run may check several components. In Readers, Evaluation and Policies a
behaviour has input of one kind (`kind`, or `reader` for texts), and a law is
about one kind: these runs are the union of such specifications. `MCPolicyStore`
adds the behaviours of `PolicyStore` to those of the parser (`kind` is then
"stores"), while the other part rests. `MCRuntime` is the union of five components
that share nothing, `Pool`, its array, `StoreIds`, `LikeMatch` and `Injection`,
each started by itself. `MCAuthorizationClient` puts the life of a client behind one of the
requests that `Authorizer` answers step by step; a call of the client is a whole
request, by `Verdict`. A call right after a call is not made there, as it leads
where it would lead by itself. `Injection` and
`AuthorizationClient` therefore have specifications with a name of their own
(`InjectionSpec`, `ClientSpec`).

State and code. `Authorizer.ctx` is `eval_ctx`; `permitIds`, `forbidIds` and
`errors` are the zvals of the same name; `detail` is
`php_cedar_eval_detail`'s `out` with its local `cap` and flags; `i` and `j` are
the loop cursors. Arrays of which nothing reads order or multiplicity (parents,
scope targets) are sets. In `Injection`, `heap` is the pool's arrays, a handle
(`php_cedar_record_t`, `php_cedar_set_t`) is an index into it, `stack` is the C
recursion. In `PolicyStore`, `calls` is the stack of loadFile calls that are
reading, `bytes` the Zend heap, `sets` the hash table; `acked` is a history
variable. In `AuthorizationClient`, `refs` is the reference count of the store
objects.
In `Expressions` the argument `depth` is `ctx->eval_depth`, in `Parser` a context
record carries `depth` and `record_depth`, which the code gives back on the way
up; position 0 is `ctx->error`. In `LikeMatch` the four variables are the four
pointers of the loop. In `Pool` the block of an array is the sequence of its places,
and every piece has the chunk that it has in the code.

Definitions marked `Variant` are the code with one plausible mistake; no
specification uses them. Each one is a check on a property: put in place of the
definition next to it, TLC finds the property violated.

## The runs

| Run | Instance | What it shows |
| --- | --- | --- |
| Decision | every store of up to two bundles over six policies (one bundle of up to three, or of up to two and one), seven requests; and one store with every list of up to two entities out of 36, a context map or token groups, principal = resource, principal = action = resource; a client with two stores, four identity sources, 25 argument lists, up to three references | parents and attributes are exactly those declared when the first policy is matched, names are unique, errors[] is exact; the tally of both passes is exact at every step, a forbid is final, the result list stays in its buffer, the answer is the reference's in one observable step, the call returns; the store a client is bound to is alive; a token call equals the plain call with the groups as parents; the identity token wins |
| Readers | every text of up to six of seven characters as a decimal and as a duration, of up to seven of seven as an address; of up to five of eleven bytes as tokens; every inside of a string of up to six of nine bytes | literals are accepted iff grammar and range allow it, with the exact value; a text is an IPv4 address iff it is the one printing of it, an IPv6 address iff it is one of its spellings, groups in place, except for the texts of finding 5; longest tokens, idle layout, escapes undone; both readers of a string agree |
| Evaluation | every pair of ranges, every pair of a datetime and a duration of the width; every day of 400 years, counted within each of them, every moment and zone of the watched days; two values nested up to twice, both limits of equality exceeded; expressions of up to three nested nodes around eight leaves, in two contexts, one of which has the principal as its resource | isInRange is inclusion; toDate and toTime split a datetime wherever its day has a start (finding 6), offset and durationSince are inverse, units round towards zero, negation is subtraction, each up to its overflow; dates count days and zones shift the moment; equality is a one to one pairing, containsAll and containsAny are quantifiers; the depth limit only turns values into errors; `has` guards the access; a literal that names a request entity means what the keyword means and a value that passed through a container does not; `&&`, `\|\|`, `is-in` and `in` with a list are what they abbreviate, errors included |
| Policies | expressions grown by up to three nodes, each beside a sum; every sequence of up to five of eleven tokens; texts of up to four pieces of policies; one policy of up to four pieces with three requests; two stores, two ids, three texts of which one does not parse, loads nested two deep, stream exceptions | what is written is read back, and refused exactly beyond a limit; a token that is accepted is in the tree; a text cut short loses whole policies only; a scope means what its words mean in a condition; conditions are one conjunction; acknowledged loads stay, order is kept, refusals change nothing |
| Runtime | elements of one to three bytes where `size_t` ends at 15; seven blocks, malloc failing at any call, the pool destroyed and made again; three threads, five ids, a clock that is set back; every subject and pattern of up to four characters; every shape of three containers over two kinds with up to two children each, 1..4 entries | places exist, a doubling that would wrap is refused, the array is the list; what malloc gave is what the pool has, and pieces stay; ids are distinct; like answers right, loses no match, stays in bounds and ends; nesting is bounded however records and sets alternate, names are unique at every depth, one failing child ends the entry and is reported once |
| MalformedSkipped, SharedIdentifierAgrees, NamesAsLoaded, AcceptedEvaluates, GapIsZeroes, ToDateTruncates, LiteralsHaveNoSlot | as above; AcceptedEvaluates at the limits of the code, with sums, differences and products of up to 129 ones; NamesAsLoaded on `PolicyStore` itself | the findings below |

Bounds, and why they are enough.
- `DetailInitialCap` is 1 where the code has 4, so that three policies make the
  buffer of `php_cedar_detail_push` grow twice; the proof covers every value.
- `MaxDepth` is 2 where the code has 16: values are nested one level deeper
  than it, in all mixtures of records and sets; the ceiling, unique names and
  the refinement are proved for every value.
- `MaxCalls` = 2: a load inside a load is the shortest nesting in which an id
  can be taken between the open and the registration. Proved for every value.
- Two bundles show every order of a denying, an allowing and a silent bundle;
  three policies in one bundle show both effects around a non-matching policy.
- Two entities in the list, because the list interacts only through a name that
  is taken or a slot named again.
- `MaxRefs` = 3 is the variable, the client, and one reference that a repeated
  construction has leaked.
- The stores of `PolicyStore`, and their ids, are interchangeable (symmetry, in the
  run Policies): no definition tells one from another. The run without symmetry
  is only larger.

- Widths. `MaxLong` is 109 where the code has INT64_MAX, a byte has two bits, a
  day two hours of two minutes of two seconds of ten milliseconds, that is 80.
  Three digits reach both ends of the range and a range is a little more than
  two days wide, so every overflow and every borrow happens within the bounds.
  No definition mentions the values, and the relations that matter are kept: a
  duration unit divides the next, a decimal has a digit behind the dot that
  scales past the range, an IPv6 address has room for a gap between two groups
  where addresses are read (Readers); where ranges are compared (Evaluation) two
  bytes of two bits are enough for a prefix that ends within a byte.
  The calendar is not scaled: years, months and leap days are those of the code.
- Texts of the readers are as long as the shortest text of each kind of mistake:
  two parts of a duration, `-` in front of the smallest decimal, an address with
  every group and a gap, an escape of six bytes.
- Limits of the grammar (`MaxParseDepth` 4, `MaxBinopChain` 2, ...) are small so
  that expressions of three nodes exceed each; AcceptedEvaluates uses 64, 256 and
  128, because there the numbers are what is in question.
- Three nodes are a node with a node on either side or within it, which is
  where precedence, associativity and error propagation show.

Deadlock is not checked: `Authorizer`, `Injection` and `LikeMatch` end when the
call returns, `StoreIds` with its bound, and the specifications that write an
input when it is complete. `PolicyStore` and `AuthorizationClient` do not end, a
method can always be called; they are checked in runs with one that does.

Fairness. Only `Returns` and `Terminates` need it. `Authorizer` and `LikeMatch`
assume weak fairness of their next-state relations: the call is C code on one
thread that waits for nothing, so it takes its next step if it has one. It says nothing of the choice among
steps, and there is none: at most one action is enabled.

## What is proved

TLAPS checks the theorems for every value of the constants, from these
assumptions: the inputs are of their type; names in one attribute map, members of
one record and ids in one store are distinct, as keys of a PHP hash table; the
sentinels are not ordinary values; the capacity, the ceiling and the widths are
positive; no more ids are made than the counter has values; a year is written with
four digits, hours, minutes and seconds with two; expressions, and the values in a
context, stay below the limits of evaluation and of equality; a uid that two slots
share has the same attributes and parents in both, which finding 3 is the
exception to. Nothing is assumed of
`ExprEval`: the decision is proved correct whatever expressions mean, so long as
they have one result per context.

- `AuthorizerProofs`: `TypeCorrect`, `AttrNamesStayUnique`,
  `DetailStaysInBounds`, `TallyIsCorrect`, `DecisionIsCorrect`,
  `ForbidNeverOutvoted`, `ParentsAreComplete`. The tally is inductive only
  together with types, and `DecisionCorrect` follows from it at the last step.
  `ParentsComplete` says something only after the entity list has been walked;
  its inductive form says for every position of the two cursors which parents
  have arrived so far. `DetailInBounds` needs that `cap` and the list are
  emptied together: the list is empty whenever the permit pass starts, since a
  non-empty one ended the bundle.
- `AuthorizerProofs`, on the whole call: `AttributesAreComplete`, `AuthorizerImplementsDecision`.
  `AttributesSoFar` is to attributes what the invariant above is to parents: each
  array holds the names of the entries passed, each with the value of the first
  entry that got there. `ErrorsSoFar` says that errors[] is what the entries passed
  report, in the order of the request, and `BucketsInOrder` that the two lists
  of ids are the denying and the allowing bundles passed, in load order. With
  them `CallInv` determines the whole answer: the step that returns is the
  abstract decision, and every other step is a stutter.
- `InjectionProofs`: `InjectionTypeCorrect`, `NamesStayUnique`,
  `DepthNeverExceeded`, `NestingStaysBounded`, `InjectionImplementsMap`. The
  array-by-array `DepthCeiling` is what the steps preserve. `NestingBounded`
  walks the references; an array at depth d has room for as many levels as there
  are between d and the ceiling, and an array with less room than that would
  have a least one, whose element contradicts it. For the refinement, `Progress`
  says what an unfinished value looks like: the elements before the cursor are
  what the children before it resolve to, each array on the stack is held by the
  one above it, and nothing else refers to an array that is not finished. So the
  abstract map is unchanged until the outermost array is attached or given up.
- `RuntimeProofs`, on stores: `StoreTypeCorrect`, `AckedLoadsStay`, `StoresOnlyGrow`,
  `RefusalsChangeNothing`.
  `AckedIsLoaded` is not inductive: a load that was not acknowledged may have
  put a duplicate there. The strengthening says that ids are distinct in every
  store.
- `AuthorizationClientProofs`: `BoundStoreStaysAlive`, `ClientTypeCorrect`,
  `TokensAlwaysMeanEntities`. The first invariant is that a
  count covers its holders, program and client; it may exceed them, because
  a second construction does not release the first store. The last theorem
  compares two requests, one with groups beside the principal and one with an
  entity behind the list that has these groups as parents: `Listing` names what
  they share, and one lemma for each part of `Verdict` (parents, attributes,
  errors) says that the part is the same.
- `RuntimeProofs`, on arrays: `PlacesExistAlways`, `ArrayImplementsLog`, for every
  size of an element and every `size_t`. The first is inductive because the product
  that `array_create` and `array_push` ask the pool for cannot wrap once their guards
  let it through (`ProductFits`). The second maps the places below `nelts` to the
  list: a push that grows copies exactly those, so that it is an append, and all
  else is a stutter.
- `RuntimeProofs`, on the pool: `BlocksNeverAstray`. Ownership is reachability in a
  linked list, which is not inductive by itself; the invariant names the list as a
  sequence of chunks without repetition, and each call puts one in front or takes
  one off.
- `RuntimeProofs`, on ids: `IdsStayDistinct`. The counts drawn are distinct until
  the counter wraps, and two ids with different counts differ: shifting, cutting into
  bytes and writing in hexadecimal lose nothing (`BytesTellWords`, `HexTellsBytes`).
- `RuntimeProofs`, on like: `PointersStayInBounds`, `MatchingStaysExact`, for every alphabet,
  subject and pattern. The first relates the remembered pointers to the current
  ones. The second is the argument for backtracking to the last wildcard only: what
  the loop has matched before that wildcard is the shortest such part of the subject,
  so a match that an earlier wildcard would have reached is one that the last one
  reaches too. `Matches` is a recursive function; what the proof needs of it is its
  table (`MatchesTabulates`).
- `ExtensionProofs`, on arithmetic: `TimeAlgebraHolds`, for every width and every
  length of a day, an hour, a minute and a second. The provers know division only by
  a numeral, so `Euclid` characterises the quotient and the remainder of any divisor;
  the rest is that what is not refused has not wrapped.
- `ExtensionProofs`, on the calendar: `CalendarHolds`. `DayInv` says that the days
  counted one by one are what `DaysFromCivil` computes from the date, which one lemma
  for each kind of midnight preserves (within a month, into the next month, into the
  next year), and that the leap years passed, also counted, are those of the formula.
  A day that a month does not have is refused for that. For the literals, each field
  of a written moment is read back at its place, the fraction by induction over its
  digits, and a written zone moves the moment by exactly what it says.
- `ExtensionProofs`, on ranges: `ContainsHolds`. `CidrContains` compares whole bytes
  and then the remaining bits of one; the law is inclusion of sets of addresses, which
  are numbers. The bytes up to a prefix are the quotient of that number by a power of
  two (`NetworkIsQuotient`), for a byte of any width and any number of them, and two
  ranges are one within the other as their quotients are (`NetworksNest`). With
  `TimeAlgebraHolds` it is `MethodsHold`, the invariant of the run.
- `LiteralProofs`: `LiteralsHold`, by the laws of the four readers `DecimalLaw`,
  `DurationLaw`, `Ipv4Law` and `Ipv6Law`, for texts of every length. Each is an
  equation between a reader, which goes through the text from the left and can
  overflow on the way, and a definition that looks at the whole text. What carries them:
  digits accumulated with a bound are their number or too large for a long
  (`Accumulate`); the positions that a reader has passed are those where the grammar
  ends a part, and the sum so far is never more than the whole, so that an overflow on the way
  is one at the end (durations); a number has one printing (`OnePrinting`), so that
  refusing leading zeros leaves one spelling; and pieces joined by a separator stand
  in a text exactly where the reader finds them (`JoinLaid`, `LaidJoin`), for octets
  as for groups. For groups the invariant of the loop, `Charted`, says where each
  group begins, and that one step between two groups is the gap. The reader also
  takes the texts of finding 5; what it takes altogether is `TakenLaw`, and `Ipv6Law`
  is what remains when those are set aside.
- `ExpressionProofs`: `LimitNeverChangesValues`, `OperatorsMeanWhatTheyAbbreviate`,
  `SlotsAreTheNames`, for expressions of any height and any number of operands below the
  limits, and every context. Evaluation and equality are tables: a row for each level
  of an expression or a value, made from the row below it, so that induction goes over rows
  and no operator is recursive. The first theorem compares two tables that start
  from different depths. The others rest on `ExpressionInv`, the expression is one that
  the parser makes, and on typing by levels: a value has at most as many
  levels as its expression and the data below it, so that no comparison exceeds a limit of
  equality. For the slots, each expression and its respelling are `Twins`: their values are the
  same, or one entity in two slots of the request.
- `SequenceLemmas` replaces induction over data, which the provers cannot
  instantiate: a set of counterexamples among the numbers up to a bound is named, and
  the least of them is refuted. This is how the proofs reason about folds and
  recursive functions.

Only model-checked: `Returns` and `Terminates` (liveness is outside the prover's
reach); the laws of tokens, strings and policies (`TokensExact`, `StringsAgree`,
`ReadsBack`, `NothingLost`, `RewordingIsIdle`), since lexer and parser are recursive and
no theorem can be checked in a module that reaches a recursive operator; and
`ComparisonsExact`, pairing and membership of nested values.

## Findings

1. **Policies read released memory** (cedar.c 205, run NamesAsLoaded). Tokens
   of the lexer are slices of the source text (lexer.c 325, 449-459), and the
   parser keeps them as entity types, ids and attribute names. loadFile
   releases the text when it has been registered; loadString takes no
   reference to its argument. Afterwards the names of a policy are whatever
   that memory holds. README.md:189-190 promises that the text is registered.
   Names in multi-segment types and strings with escapes are copied and are
   not affected, nor is a policy without names, which is what tests/005 loads.
2. **"The entry is skipped"** (README.md:379-381; run MalformedSkipped). A
   record or set with a malformed child is reported, but it stays in the
   context with the children before that one (cedar.c 410-452, 559-580), and
   policies match against it.
3. **Attributes for every role** (comment at cedar.c 803, tests/027; run
   SharedIdentifierAgrees). If an entity is principal and resource, such a
   half applied value reaches the principal and not the resource, because
   the targets are tried in turn until one fails (cedar.c 823-834).
4. **Accepted and never satisfied** (comment at types.h 409-411, run
   AcceptedEvaluates). Chains of operators cost no parse depth and may have 256
   links, but lean left in the tree, so the evaluator's ceiling of 128 turns a
   sum of 129 terms into an error on every request.
5. **A gap of no groups** (comment at expr.c 350, run GapIsZeroes). The position
   of a `::` behind eight groups is 8, which is also the sentinel for no gap
   (expr.c 254, 312, 330), so `1:2:3:4:5:6:7:8::` is read as an address, although
   "`::` must expand to at least one zero group". `Ipv6InPlace`, a part of
   `LiteralsExact`, is about all other texts with a colon.
6. **toDate on the first day** (comment at expr.c 1505, run ToDateTruncates). For
   a datetime on the day that INT64_MIN falls in, which offset() reaches, the start
   of the day has no representation, and `ms - r` (expr.c 1509) is not checked as
   the arithmetic of the other methods is. `Wrap` models what compilers make of
   the overflow: a date at the other end of the range instead of an error.
   `SplitsDay`, a part of `MethodsExact`, states what toTime is on that day too,
   and what toDate is wherever the start of the day has a representation.
7. **The slot of a literal** (comment at types.h 432-436, run LiteralsHaveNoSlot).
   It says that literals have the slot NONE and that a slot is stamped only by
   the keyword. The evaluator tags a literal that names a request entity as well
   (expr.c 1968-1980), and the comments there and at expr.c 1163-1172 say why. The two
   comments contradict each other. `SlotsFollowNames` checks the one beside the
   code, this run the one beside the type.

Observed, and not held against any statement of the repository:
- An empty set literal `[]` parses and always evaluates to an error, since
  `php_cedar_array_create` refuses zero elements (compat.c 95); record literals
  avoid it (expr.c 2055). `action in []` in a scope matches nothing, so the
  decisions agree.
- `like ""` is refused by the parser, for the same reason (parser.c 158).
- `-5.a` is refused: a minus in front of a literal is folded before the member
  access.
- A client constructed again without `identitySource` keeps the old one.

## Not modelled, and the plan

Left out: allocation failures other than those of `Pool` (the request pool uses
emalloc, which does not return NULL), NULL arguments that no caller passes, the
wording of messages and logs, the CSPRNG (its bytes are random: there is nothing
to state), class registration and argument information, which are generated
declarations. The shims of compat.c are therefore marked as modelled in part:
logging is the part that is missing.

What the PHP stream layer delivers to loadFile is an input. The code cannot tell
a short read from a short file; `CutPoliciesRefused`, a part of `NothingLost`, says
what that amounts to.

What is left is proof. Every invariant and every action property of the components
with state is proved, and so are the laws of literals, ranges, datetimes, the
calendar and the evaluation of expressions. The laws of tokens and policies are
about recursion over data; `ComparisonsExact` could be proved like the laws of
expressions, over the same tables.
