# Verification of CppAuParser

CppAuParser is a C++ engine for grammars compiled by GOLD Parser Builder. A client loads a
compiled grammar (`.egt`), gives the parser a text and drives it step by step; the library
turns the text into tokens, tokens into LALR shifts and reductions, and these into callbacks
or trees. This directory holds TLA+ models of the library, the TLC configurations that check
them on small instances, and theorems about them that TLAPS checks for every instance.

Everything runs on the caller's thread: there is no concurrency in the library. What is hard
in it is long sequences of steps on shared mutable state: two representations of the same
state kept in step by hand (`state_` and `stack_`, the parse stack and the list stack of the
simplified tree), state that survives a reset, a lookahead that is kept or read, positions in
a buffer, and tables that are trusted without being checked.

## 1. Components

| component | source | state | operations | what makes it correct |
|---|---|---|---|---|
| Grammar loader | `src/grammar.cpp` 35-237, 411-431 | the tables, the vector `v` of entries | `LoadFile`, `LoadBuffer`, `GetSymbol`, `GetProduction` | each record lands in its slot, with nothing of another; a record that is not understood ends the load; an ID finds its symbol |
| Grammar post-processing | `src/grammar.cpp` 239-409 | lookup tables, simplification flags | `LinkReference`, `BuildDFALookup`, `BuildLALRLookup`, `SetSingleLexemeSymbol`, `SetSimplicationRule` | lookups agree with the edges; a symbol is "single lexeme" only if it is |
| Lexer | `src/lexer.cpp` | buffer, cursor, line and column, group stack | `Load*`, `Unload`, `ResetCursor`, `PeekToken`, `AdvanceBuffer`, `ReadToken` | longest match; the tokens and groups cover the text; a reset forgets the last text |
| Parser | `src/parser.cpp` 85-299 | `state_`, `stack_`, `token_`, `token_used_`, `reduction_`, `error_info_` | `ParseStep`, `ParseReduce`, `ParseAll`, `Load*`, `ResetCursor` | accepts exactly the grammar's sentences; errors point at the first wrong token |
| ProductionHandler | `src/parser.cpp` 301-341 | handler table, `data` pointers of the stack | callback of `ParseAll` | each handler sees its handles' values; the result is the start symbol's |
| TreeBuilder | `src/tree.cpp` 108-129 | nodes, `data` pointers | callback of `ParseAll` | the tree spells the text read |
| SimplifiedTreeBuilder | `src/tree.cpp` 131-307 | nodes, list buffers `lns`, `ln_cn`, candidates `ccs` | callback of `ParseAll` | no token is lost, every node is in the tree once, list buffers never leak into it |
| TreeNodeAllocator | `src/tree.cpp` 55-106 | blocks, cursor | `Alloc`, `Create`, `Clear`, `Swap` | no two nodes overlap |
| ParseToTree family | `src/utility.cpp`, `LexerBuffer` in `src/lexer.cpp` | the text's buffer, the blocks of nodes | one-call parsing, `ReleaseBuffer`, `Swap`, destructors | the tree outlives the parser with its text and its nodes; each is freed once |
| strings | `src/strs.cpp` | none | UTF-16 to UTF-8, formatting | conversions keep the text |
| auparser-tool, hexify, samples | `tool/`, `sample/` | none | command line | |

Interactions: `Grammar` is filled once and then only read, through raw pointers, by `Lexer` and
`Parser`. `Parser::ReadToken` calls `Lexer::ReadToken` until a token is no noise.
`Parser::ParseAll(handler)` calls the handler after each `ParseStep`; the handler reads
`GetTop`, `GetToken` and `GetReduction` and writes the `data` field of stack items through the
`head` pointer of the reduction. Tokens point into the lexer's buffer, tree nodes hold tokens and
lie in the allocator's blocks: `DoParseToTree` hands both on with the tree.

## 2. What is hard here

PROJECT.json lists each hazard at its line. They fall into six groups.

- *Two representations of one state.* `state_` and the top of `stack_`; the parser's stack and
  the `data` pointers the handlers keep on it; `lns` and `ln_cn`; `cur_` and `cur_left_`. Each is
  moved by its own statement, often with an early return between them.
- *State that survives.* `reduction_` and `error_info_` after a reset, `group_stack_` after a new
  text, `result` and `lns` in a builder that is used again, the lookahead after an error.
- *Addresses that move or die.* `realloc` of a list buffer, a list copied into the allocator,
  items popped from a vector, pointers into a buffer.
- *Owners.* A text belongs to the client or to a `LexerBuffer`, which the lexer or a result holds;
  nodes belong to a builder or a result. Each hand-over leaves a raw pointer behind.
- *Trusted tables.* No index of an `.egt` file is checked, no property of an LALR table is; the
  records of a file share one vector of entries, which is never cleared.
- *Loops.* `ParseAll`, both `ReadToken`s, the search of `SetSingleLexemeSymbol`.

## 3. Modules

A text is not given to the engine in advance. The lexer of `Parser` reveals a token when it is
asked for one, so one run covers every text up to a length; `Lexer` works on the bytes of given
buffers, and `LexedParser` puts it in the place of that source.

| module | models | state and actions against the code |
|---|---|---|
| `LalrTables` | the tables `ParseStep` reads | constants; `HasAction`/`Action` are `jmp_table`, a partial function; `ExpectedSymbols` the loop of the syntax error |
| `LalrItems` | what GOLD guarantees of a table and no file contains | the LR(0) items behind the states; the assumption of the proofs |
| `Parser` | the engine | variables are the members of `Parser`; one action for each return of `ParseStep`, joined in `Act`; `Call` for the loops around it, after any answer; `Load` and `ResetCursor` |
| `Derivation` | abstract specification: a bottom-up parser | a sentential form, read and replaced; no states, no lookahead |
| `ParserImplements` | the refinement mapping | `Form` is the symbols of `GetStack()` |
| `TreeBuilder` | `TreeBuilder` | one action for each branch of `operator()`, joined with the engine's step as `ParseAll(handler)` joins them |
| `ProductionHandler` | `ProductionHandler` | the same; a handler's result is the term of what it saw |
| `Simplification` | `SetSimplicationRule` | one operator for each flag |
| `SimplifiedTree` | `SimplifiedTreeBuilder` | `heap` stands for allocator and malloc; `Simplify` has a case for each branch of the reduction |
| `NodeAllocator` | `TreeNodeAllocator` | `Alloc` with `size_t` arithmetic, `Clear` |
| `Ownership` | `utility.cpp`, `LexerBuffer`, `Load*`, `ReleaseBuffer`, `Swap`, the destructors | extends `NodeAllocator`; `step` is where the calls on the parser are, an action for each call that allocates, hands over or frees; `texts` and `arenas` are what malloc has given out |
| `DfaTables` | DFA tables and `BuildDFALookup` | `jmp_table`, `jmp_ranges` are the tables it fills |
| `Lexer` | `Lexer` | one action for each branch of the loop of `ReadToken`; `Peek` is `PeekToken` |
| `LexedParser` | `Parser` with `Lexer` inside it | both sets of variables; `fetched` is what a call of `Parser::ReadToken` has got so far, `TakeToken` hands the last of it to `Act`, whatever it is; `LoadBoth` and `ResetBoth` move both |
| `Loader` | `LoadBuffer`, `LinkReference`, `GetID`, `GetSymbol`, `GetProduction`, `convert_utf16_to_utf8_string` | one action for each kind of record; `v` is the vector the entries are read into, `pos` the place in the file |
| `EgtRecords` | the records `LoadBuffer` expects | what each entry of a record of a row means, read from that record alone: `RowSaid` |
| `LexemeCount` | `SetSingleLexemeSymbol` | extends `Loader`: it searches the tables that were loaded, one action for each turn of its loops |
| `EgtFile` (external) | the `.egt` file of a grammar | the records GOLD Parser Builder writes, from what `LoadBuffer` reads and the files of `sample/data` |
| `Sentences` | a reference recognizer | sentences and viable prefixes by definition, not by a table |
| `SampleGrammars` | two grammars of `sample/data` | the rules of the `.grm` files and the tables of the `.egt` files |
| `EngineProofs`, `ParserProofs`, `DerivationProofs`, `HandlerProofs`, `LexerProofs`, `GrammarProofs`, `OwnershipProofs` | proofs | section 6 |
| `Induction` | what the proofs know of the natural numbers | induction and recursion on them, stated of sets and functions |
| `Handlers` | `ParseAll(handler)` with the three handlers | their next-state relations, conjoined |
| `MCParser`, `MCDamaged`, `MCHandlers`, `MCLexer`, `MCLexedParser`, `MCGrammar`, `MCOwnership` | instances for TLC, and the definitions that need recursion | |

`TreeBuilder`, `ProductionHandler` and `SimplifiedTree` compose with `Parser`: their next step is
the engine's `ParseStep` *and* the handler's branch for the result it returned. A program passes
one handler to `ParseAll`. `Handlers` calls all three for each step, which is sound because each
reads the parser only and has data pointers of its own; so a value or a simplified tree can be
compared with the parse tree of the same text. What a tree spells, evaluates to and is visited as
(`Leaves`, `Eval`, `Postorder`) are recursive functions on the nodes, next to the builders they are
about; only the simplification of a tree, which `SimplifiesTree` compares with, is recursive by
operators, in `MCHandlers`.

Abstractions: a lexeme is its symbol and its place in the text; pointers are indices; a freed node
stays in `heap`, marked. `trim_reduction_` is FALSE (the constructor sets it and nothing else
writes it), so the branch that eliminates a reduction is left out. `history` variables (`shifted`,
`begun`, `stale`, `called`) and bounds (`resets`, `loads`) are marked where they are declared.

In `Ownership` a text is a number, a parse is the nodes it makes, and a client keeps its own strings.
The list buffers of `SimplifiedTreeBuilder` are not in it but in `SimplifiedTree`, which shows them left
behind by a text that was refused. `SimplifiedTree` makes no second `ParseAll` on an accepted text.
A result is dropped as a whole, since the copies of one share what it holds. After `ReleaseBuffer`
the parser is not asked to parse again before the next `Load*`: its `buf_` may then point to a freed
text. In `Loader` a name is a sequence of 16-bit units and of bytes, because the conversion is what
`RowsWhole` is about; records are complete, and a file ends between two of them.

The text is taken to be well-formed UTF-8, and the tables to be what GOLD Parser Builder writes;
`MCDamaged` and the files of `MCGrammar` are the exceptions. A client may call the engine again
after every answer. After an internal error the handles are gone and `state_` is not that of the top,
so a further call reduces again; when that takes more than the stack holds, C++ defines no outcome and
the model ends (`Underflow`, `ret = "undefined"`): nothing is said of the program from there on.

In `LexedParser` the text is what the lexer has made of the bytes. A `ResetCursor` starts the same text
over, but not when the bytes were left inside a group: `group_stack_` is kept, the lexer goes on inside
the group, and the parser sees other lexemes, which is a new text to it (`ResetBoth`).

## 4. Runs

| run | question | bounds |
|---|---|---|
| `op_language` | Are the verdicts of the engine those of the grammar, does it stop at the first token no sentence could continue with, does some expected symbol it names help, are the handles the production's, and does it implement `Derivation`? | operator grammar, 5 tokens |
| `op_damaged` | What does the engine do on a table with a missing goto and two entries of a wrong type: is a token lost or read twice, do errors point to the token refused, do accept and the errors of the text stay, when the client calls again after every answer? | 4 lexemes, gaps of 1, 1 reset |
| `list_handlers` | Do nodes stay in step with the stack and spell their own text, are handlers called in postorder, and is the simplified tree the simplification of the parse tree while buffers grow, move and are freed? | list grammar, 8 tokens, 1 reset with the same builders, least capacity 2 |
| `right_handlers` | The same on nested right-recursive lists with a merged production, and are values those of the subtrees? | 10 tokens, least capacity 2 |
| `op_simplified` | *violation:* does a simplified tree keep the numbers of an arithmetic text? | 7 tokens |
| `lexer` | Do tokens tile the text, are they longest matches, are places exact, do comments end where they should, and does `ReadToken` return? | all texts of 5 characters of an alphabet of 7 and of 7 slashes and stars, 1 load or reset |
| `lexer_nested` | *violation:* are tokens held back until all groups are closed? | texts of 6 characters |
| `lexer_unicode` | *violation:* are words beyond ASCII whole? | words of 3 letters |
| `grammar` | Is every row of every table what the file says of it and nothing else, at every moment, in files that are whole, reordered, cut short or not understood; do IDs find their symbols and productions; does the search count paths rightly, and end? | every DFA of 3 states with 2 edges each; one grammar with two or more of everything, names at the limits of UTF-8's classes, and one with a bracket and one with a space; each cut, each rotation, each record damaged in 3 ways |
| `identifier_lexeme` | *violation:* are only symbols of one lexeme found? | the DFA of an identifier |
| `ownership` | Is what a tree points into there, is each text and block of nodes freed once and owned by one, do nodes lie apart? | 3 loads of files or 2 strings, 3 builders, 3 nodes each in blocks of 8, 4-bit `size_t`; results dropped in any order |
| `lexed_parser` | Does the lexer hand over what `Parser` takes for granted, is what was shifted what the bytes spell, does the whole implement `Parser` and `Derivation`, across a `Load` or `ResetCursor` in any place, and does each call return? | list grammar with block comments, all texts of 3 pieces, of 2 pieces and an open comment, and longer samples, 1 load or reset |

Why these bounds are enough to mean something. Five tokens of the operator grammar hold a
parenthesised operand, a chain of two operators of different precedence, and each of its productions
but for the longer nestings. The texts of `lexed_parser` hold
the empty production of the list grammar, lists of two and three, comments between any two tokens
and at both ends, and errors of the lexer and the parser before and after a reset. Texts that end in
an open comment are read on inside it after a `ResetCursor` or a `Load`, up to the comment's end if the
new bytes have one. The damage in `MCDamaged`
lies behind `+`, behind `(` and behind a unary minus, so that texts of the other operators are still
accepted and all three kinds of error occur. Eight tokens of the list grammar hold a list of three,
which with a least capacity of 2 (16 in the code) makes a buffer grow, and the builders are used
again behind it. Ten tokens of the right recursion hold `(V,V),(V)` and five items, so that two
lists are alive at once, one is moved or merged into the other, and a list grows at its front. The
lexer's alphabet has a letter of one byte and one of two bytes, the three characters of the
comments' delimiters, both bytes that matter to line counts (0x0A ends the comment, 0x13 counts the
line), and the quote of a token that can stay unfinished; seven slashes and stars hold a block
comment with starts and half ends in it. The texts that are loaded later are few: a text meets the
one before it only in the group left open. Two texts and two trees are enough for one owner to be
taken for another; with a third text a parser goes on after a text was handed over and the result
dropped. Blocks of 8 and nodes of 3, 5 and 8 fill a block exactly and leave rests. In `grammar`, three
states hold cycles, shared states, edges side by side and the search's two work lists at once; the
one full grammar has a record that follows a longer one of its own kind and of each other kind,
since the records are rotated.

TLC looks for deadlocks in the runs of the engine and the lexer: a parser can always be asked
again. It does not where the program stops: the runs of the handlers after an accepted text with no reset
left, `Loader` when the file is loaded, `Ownership` when its bounds are used up.

Fairness. A call runs on its caller's thread until it returns: `WF(ReadTurn)` in `Lexer`, `WF` of the
lexer's and the engine's steps together in `LexedParser`, `WF(Next)` in `LexemeCount`, where one call
does everything. That a client calls at all is never assumed, so no liveness property depends
on it.

## 5. Disagreements found

- *Simplified trees lose tokens* (`op_simplified`). A recursive reduction adds to `lns.back()`,
  which is not the recursion's own list when a list was started for a later operand. In
  `1-2-3*4` the list of `3*4` is on top when the second subtraction is reduced; it takes the other
  operands and becomes a child of itself. The text of README.rst (Simplified Tree) has its product
  first and is not affected. `list.grm` and a right recursion are not either: in them
  no list can be above the recursion's own, and `SimplifiesTree` holds.
- *The end of a nested group is a token* (`lexer_nested`), against the comments in the loop.
- *Words are cut before trailing letters beyond ASCII* (`lexer_unicode`): the two branches of
  `PeekToken` treat the code -2 differently. `LongestMatch` of the run `lexer` states exactly the
  matches the code does make.
- *Identifiers count as single lexemes* (`identifier_lexeme`), so a simplified tree drops them where
  `sr_remove_single_lexeme` is set, against the comment on the search. The other direction holds
  (second part of `PathsCounted`).

Not against any document, but worth knowing: a group left open at the end of a text is still open in
the next one, whatever `Load*` or `ResetCursor` is called; a file that ends early is accepted; the
token in `error_info` of `ParseFileToTree` points into a freed buffer.

## 6. Proofs

TLAPS checks these for every value of the constants.

- `EngineProofs`, for every table whose indices are in range (`TablesTyped`), damaged or not, and for
  a client that calls again after every answer. Of the stack, by `EngineInv`: it is a path along the
  edges of the table, and `state_` is its end unless a reduction found no goto; then `state_` and the
  lookahead still ask for that reduction, so that each further call pops again or, if the goto is there,
  goes on from the path (`Popped`). What gave accept, a lexical or a syntax error is still there to give
  it again (`Final`). `TypeCorrect`, `StackStaysPath`, `VerdictsStick`; an internal error is not final,
  and `VerdictSticks` says so. Of the text, by `TextInv`: `TextIsConserved` and `ErrorsPointAt`. What
  was read is the noise between the tokens shifted, then the tokens, then the lookahead if it was not
  used (`ReadInv`); `TokensOf` picks the tokens out of the lexemes, and the lemmas on it say what one
  lexeme more, or noise up to the next token, does to them. An error leaves the lookahead where it
  is, so the next read does not lose it.
- `ParserProofs`, from `LalrItems`' assumption that the table carries consistent items (each state
  the items whose dot can be there, each reduction complete, each goto present where its production
  was begun). The inductive invariant `IInv` is `TypeOK`, the stack being *sound* (a path of the
  automaton whose every item set agrees with the symbols below it), `state_` being its end, and
  `HandlesMatch`, which is not inductive alone: that a reduction's handles are on the stack follows
  from the complete item of the top state, walked back along the path item by item (`ReduceFits`).
  Hence `Underflow` never happens and no goto is missing: `HandlesAlwaysMatch`, `NeverInternal`.
- `ParserProofs` further: `EngineImplements`, the step simulation of `Derivation` under the mapping of
  `ParserImplements`, and `AcceptedTextDerived`, its consequence: what is accepted is derived from
  the start symbol, without a word about lookahead. `ShiftsAlwaysBegin`: the tokens shifted always
  begin a text that the start symbol derives, so that an error is met at the first wrong token. It
  is `ShiftsViable` with derivations in the place of the words that TLC enumerates. The argument:
  an item of the state on top *fits* the form on the stack, which ends with the handles before its
  dot and, with the head in their place, begins something derived (`ItemsFit`, by induction on the
  stack for the items an edge brings, `OwnFits`, and on the predictions for those with the dot in
  front, `PredictionFits`). A shifted token stands behind the dot of an item, and what is behind it
  has phrases. This needs more of the tables than the other theorems, `TablesUseful` of `LalrItems`: no item
  without a cause, no symbol without a phrase, no shift without an item. TLC evaluates it on
  the operator grammar (`SampleTablesUseful`).
- `DerivationProofs`: `AcceptsDerived`. The form and the text still to come derive the text; each
  reduction is a derivation step read backwards. With it the lemmas on derivations: they go on one
  behind another, and within other symbols (`DerivesTransitive`, `DerivesWithin`).
- `HandlerProofs`, of `TreeSpec` (engine and tree builder) and `HandlersSpec` (with the production
  handler), from `LalrItems`' assumption. `TreeInv` adds to the engine's `IInv` that the pointers and
  the stack have one length and each pointer leads to a node of its item's symbol (`InStep`), which
  `NodesFollowStack` alone does not bound by the nodes that exist. That the children of a reduction
  fit follows from `ReduceFits`: the symbols the engine pops are the right-hand side, and the
  pointers beside them stand for the same symbols (`NodesAlwaysFollow`, `ChildsAlwaysFit`).
  `Leaves`, `Eval` and `Postorder` are computations of one shape: the result of a node is made of
  its children's. As children are older than their parent, a new node changes no result that was
  there (`ResultsStay`), and the results along the stack are those of the handles taken off and of
  the node pushed in their place (`Hung`, of a shift and of a reduction alike). With this the
  leaves along the stack are the text shifted (`TreesAlwaysSpell`), the values beside the stack are
  those of its nodes (`ValuesAlwaysFollow`), and the calls made are the nodes in postorder
  (`CallsAlwaysPostorder`). The last two need `HandlersSet`'s condition on empty productions.
- `HandlerProofs` further, of `SimplifiedTreeBuilder` in `HandlersSpec`, from `LalrItems`' assumptions and `ListsNotForwarded` (a
  recursion is not flagged to forward its only child, since it would then add to a list that nobody
  began). The builder's list stack `lns` and the parser's stack are two stacks that no line of the
  code compares. The invariants compare them: each stack item has a *mark*, a height of `lns` (`Marks`);
  marks do not fall towards the top, an item that is a recursion has a list between its own mark and
  the one below, and its pointer is none of the lists below. A reduction takes
  handles off, and the lists above the mark of the item under them are all it may pop or move;
  that the loops do so turn by turn is by induction on the candidates (`Candidates`) and on the
  children gathered (`Gather`), with `Keeps` for what a turn leaves alone. `ListsAlwaysSound` follows
  for every grammar, the operator grammar too.
  `NeverDangling` and `ListsAllReturned` need more: the marks are exact, each recursion on the stack
  has one list and that list is on top when it is its turn (`Begun`), and the children of every live
  node are nodes that will not move (`Held`). This is so when at most one handle of a production can
  be a list and no head has two productions that are (`OneListEach`). It is a condition on the
  grammar and not a technicality: without it `op_simplified` shows a list taken for another and a
  node becoming its own child. TLC evaluates it on the grammars of the runs (`ListsAreApart`): the list grammar
  and the right recursion meet it, the operator grammar does not.
  What `ListsAllReturned` says of the first accepted text does not hold of a later one: the lists
  of a text that was given up stay on `lns`.
- `LexerProofs`, from what GOLD Parser Builder guarantees of a DFA (`DfaTyped`: indices are valid,
  edges of one state share no character, the initial state accepts nothing), of symbols
  (`SymbolsTyped`: there is an EOF and an error symbol, no text is EOF) and of groups (`GroupsTyped`:
  their symbols are there and none is EOF). `LookupExact`: what `BuildDFALookup` makes of the edges,
  an array for ASCII and ranges searched in order, finds the edge that takes the character, and
  marks loops as the scan expects. `LongestMatchTaken`: the scan follows the path of the DFA and ends with the
  last of its hits (`ScanTracks`, by induction on its turns). `TokensTileText`, `PlacesAreExact` and
  `EofStaysEof`: by the invariant that what is open begins where the last token ended and `place` is
  the place of `buf_cur`; the place behind a text is the place behind its second part begun behind
  its first. Only `TokensTileText` assumes `NoNesting`, that no group may stand in another: with
  nesting the end of an inner group is handed over as a token (`lexer_nested`) in the midst of the
  outer one, which is handed over as a whole later.
- `LexerProofs` further, of `LexedParser`: `LexerIsAsAssumed`. `Parser` takes for granted that a text
  ends with EOF, that EOF stays, and that `ResetCursor` brings the same lexemes again; nothing in the code
  says so, it follows from how the lexer moves. A turn of its loop depends on the buffer, `buf_cur_`, the
  groups that are open and whether a call is under way, on nothing else (`TurnFollows`, with
  `NextOf` as that function). A *reading* of a buffer is a sequence of such turns from its start. What
  the lexer has handed over is the end of one reading and the text the parser knows is that of
  another (`BothRead`); of two readings one is the beginning of the other (`ReadingsAgree`), so the
  lexemes fetched now are those of the first time (`FetchedAgain`). `EofsLast`: behind EOF no byte is
  left, which no turn changes. A buffer that the lexer entered within a group is read
  once only (`OnceIfStale`), since a further reset begins another text. The theorem has one condition: the
  noise before a token has `MaxGap` lexemes at most, a bound of the model `Parser` and none of
  the code. `LexemesTyped` is assumed: no nonterminal is text or stands for a group.
  `LexedIsParser`: the step on the bytes takes the token as the lexer left it, whatever that is, and so
  need not be one `Parser` would make; a lexer that hands over noise, goes on behind EOF or finds other
  lexemes after a reset refutes it, as would a `Parser::ReadToken` that does not loop (the mutant). That the
  token is one `Parser` may read (`TakenIsRead`) rests on the invariant of `LexerIsAsAssumed`. Its
  condition is `WithinBounds`: neither `MaxGap` nor `MaxText` is exceeded. With it the theorems of
  `EngineProofs` and `ParserProofs` on the specification of `Parser` speak of the parser on bytes too.
- `GrammarProofs`. Of the loader, from assumptions about files that TLC evaluates.
  `FilesIndexed`: a record begins with its kind; the indices of a record that is understood are
  those of the file's `t` record, which stands before the record of the initial states.
  `FilesWritten`: a record of a row has the types of entries that LoadBuffer takes for granted, no
  row has two, and a file that is called whole has a record for each row, behind its counts.
  `RowSaid` reads the row off the record alone, so `RowsAlwaysWhole` compares what the code builds
  from its one vector `v`, grown and never emptied, with what the file says. A record leaves in
  `v` just its own entries up to `value_count` (`RecordRead`), each kind of row is built of those
  (`CharsetIs`, `SymbolIs` and so on; for an LALR state, whose actions are a map, no symbol has
  two), and a row that is not written yet is empty because no other record says it (`RowInv`). A
  name survives the way through 16-bit integers and UTF-8 (`NamesKept`, by induction on its units:
  the bytes of a unit are three at most, the first of them is no continuation byte, and the decoder
  puts the unit together again). `LoadedAlwaysExact` adds that the counts of a whole file are read
  before its rows, so that each record finds its row and the end of the file finds none empty
  (`WholeInv`). `DfaAlwaysThere` needs `FilesIndexed` only: nothing is assumed of the order of the
  other records, of rows that are missing, or of where the file ends.
  `AlwaysFoundByID`: what is looked up by the ID of a symbol or a production is that one. The code
  does not check that names allow it, so the theorem assumes it of the files (`NamesApart`): no name
  in brackets has the closing one or begins with a space, no terminal's has a space, and one like
  `<=` does not go on as a name in such brackets begins. GOLD's names keep to it as far as a
  grammar does not quote a space, and TLC evaluates it on the sample files (`SampleNamesApart`), one of
  which has such terminals and nonterminals. The invariant adds to `RowInv` that every symbol's
  name is UTF-8 of units (`SymbolsEncoded`), so that a byte below 128 is a unit (`PlainBytes`) and what
  is assumed of the units holds of the bytes. Then no ID stands before a space at the beginning of
  another (`NotAhead`), so a text of IDs and spaces can be read in one way only: the next ID is known
  from the text (`NextWord`), and by induction so are all (`WordsAgree`).
  Of the search, for every DFA: `CountsAlwaysRight`. A *walk* is a sequence of edges from the initial state.
  The invariant (`SearchInv`) goes by the edges that have been followed: a state counted once is the
  end of one of them at most, the initial state of none (`ReachedOnce`); edges not followed yet begin
  in states that wait on `left_nodes` or in the one being looked at (`Waiting`, `Current`), so that
  at the end all edges behind a counted state are followed; and an edge out of a state counted twice
  leads to another such state or to one that is still to be marked (`Marked`). A walk is then unique
  where the count is 1, since each state on it is counted once and has one edge that leads there
  (`EndsRight`, by induction on its length). `SingleLexemesFound` follows for whole files, whose rows
  are all there (`LoadedAlwaysExact`). That other symbols are found too is the disagreement
  `identifier_lexeme`.
- `Induction`: from the well-foundedness of the naturals, that a set which has 0 and the successor
  of each of its numbers has them all, and that a recursive function is what its equation says; the
  same up to a bound, for the loops over handles and candidates. In
  the library these facts take a predicate or an operator as a parameter and cannot be used by
  the provers; of sets and functions they can.
- `OwnershipProofs`. Of the allocator by itself `NodesSafe`, from `SizesFit`. The strengthening says
  that `cur_` and `cur_left_` add up to the block and that no node of the newest block reaches behind
  `cur_`; with it the modulo of `size_t` never bites. Of the whole: `TreesStayReadable`, `EverythingFreedOnce`, `NothingIsLost` and
  `BuildersNodesSafe`, from `SizesFit` and `ClientsTexts` (the client's strings are not texts that
  `LoadFile` has made). None of the properties is inductive alone. `OwnInv` says of each holder what
  it holds at each `step`: the lexer's `LexerBuffer` is empty or names the text in `buf_`, and that
  text is the client's or not yet freed (`LexerSound`); the result being made has taken the buffer or
  not yet (`RetSound`); the builder's blocks are there until they are swapped away (`PoolSound`); no
  result has a block of a builder still at work (`Newest`); each result has the text and the blocks
  its tree points into (`ResultSound`); each text and block of nodes has a holder (`TextsOwned`,
  `ArenasOwned`) and no two holders share one (`Separate`). The allocator's invariant is carried
  along, since the nodes of a tree lie in the blocks that were counted. `OwnInv` was checked with TLC
  on the bounds of the run `ownership` before it was proved.

Only model-checked: that rejected texts are no sentences and that an expected symbol helps
(`VerdictExact` and `ExpectedHelps` depend on the lookahead sets, which the tables contain only as
results); `ShiftsViable` as it stands, with enumerated words;
what a simplified tree is (`SimplifiesTree`); that the parser shifts what the bytes of the sample texts
spell (`BytesSpellText`, which is about one DFA and one comment); where comments end (`CommentSpan`, of the comments of two given tables); and
the sums by which `PathsCounted` counts walks. That the abstract
parser accepts only what is derived needs no run: `AcceptsDerived` assumes no more than a grammar
whose productions are sequences of symbols (`GrammarTyped`), which `AcceptedTextDerived` takes from
the tables. TLAPS does not reach liveness (`LexedCallReturns`, `ReadReturns`, `LoadReturns`). What
a recursive *function* computes is within reach by `Induction`; what a recursive operator or a fold
computes is not (`SimplifiesTree`, the sums of `PathsCounted`).

## 7. Plan

Done: engine, abstract parser and refinement; trees, handlers, simplified trees; lexer and DFA
tables; lexer beneath the parser; loader, look-up and single lexemes; allocator and ownership; their
runs; proofs on engine, text, refinement, tree builder, production handler, the memory of the
simplified tree builder, lexer, the lexer beneath the parser, loader, the look-up by ID, the search
for single lexemes, allocator and ownership.

Next, in this order:

1. The hazards that have only a note: nodes larger than a block, the pointers of `error_info`; and a
   second `ParseAll` with the simplified tree builder on a text that was accepted, which the model leaves out.
2. Proofs: what a simplified tree is (`SimplifiesTree`), once its recursive operators are written as
   functions.

The runs are kept few, one for each question. `lexed_parser` has taken the place of a run of the
engine alone on the list grammar, `grammar` that of the search on bare tables, `ownership` that of
the allocator by itself.

Not modelled: the command-line tools and samples (no state of their own), `Dump`, `GetString` and
`utf8_format` (formatting), `PATHOPEN` and file reading beyond its result, indices in an `.egt` file
that its own counts do not allow (undefined in the code), a second load into the same grammar,
`trim_reduction_`.
