# TairDoc in TLA+

Models, checks and proofs for the TairDoc module (`src/src/tairdoc.c`), which adds
the data type JSON and the `JSON.*` commands to a Valkey or Redis server.

## 1. The system

| component | code | state | operations |
|---|---|---|---|
| Commands | `tairdoc.c` | the value of each key: none, another type, or a `cJSON *` root | SET, GET, DEL, TYPE, INCRBY, INCRBYFLOAT, STRAPPEND, STRLEN, ARRPUSH, ARRPOP, ARRINSERT, ARRLEN, ARRTRIM, MGET |
| Path conversion | `tairdoc.c` 143-222 | none | `pathToPointer`: `.a[0]`, `$.a`, `/a/0` to a JSON pointer |
| Pointers and patches | `cJSON_Utils.c` 120-1094 | none; works on the tree in place | `get_item_from_pointer`, `detach_path`, `apply_patch` |
| Document tree, child lists | `cJSON.c` | nodes with `next`, `prev`, `child` | add, insert, detach, delete, duplicate, look up by name |
| Propagation | `tairdoc.c`, the server | the stream of calls given to `ReplicateVerbatim` | master executes and propagates; replica, or reader of the append-only file, runs the call again |
| Persistence | `tairdoc.c` 1120-1162 | RDB file, rewritten AOF | save: print the document; load: parse it |
| Parser and printer | `cJSON.c` 239-1841 | offset and depth; a buffer that grows | text to tree, tree to text |
| JSONPath engine | `cJSON_Utils.c` 1483-3245 | the selectors of a compiled path, the items found so far | `cJSONUtils_GetPath` for `JSON.GET key $...` |
| Patch generation, merge patch | `cJSON_Utils.c` 1096-1471 | none | not called by any command |

The server runs one command at a time. A handler opens the key, converts the path,
looks a node up, works on the tree in place, replies, and calls
`ReplicateVerbatim` as its last act if it regards the call as a write. JSON.SET and
JSON.DEL do not touch the tree themselves: they compose a JSON patch document and
hand it to cJSON's patch engine, which looks the path up a second time, with rules
of its own. Followers do not get the effect of a call but the call, run it on
their own copy and drop the reply.

### What is hard

* **Two lookups of one path.** The handler finds the node case-sensitively, the
  patch engine looks again to detach the old item (ignoring case, with another
  decoding of the last token) and a third time to add the new one.
* **A call that fails half-way.** Arguments of JSON.ARRPUSH and JSON.ARRINSERT are
  parsed and added one by one; a replace deletes before it adds. An error reply
  must mean that nothing happened, because it also means that nothing is
  propagated.
* **Deterministic replay.** Any difference between what the master did and what
  the propagated call does on a copy is there for good.
* **The key that vanishes.** A document whose root lost its last child is deleted
  with its key, decided by three links of the root after the operation, while the
  handler still holds pointers into the tree.
* **Indices** from both ends, off by one in three different ranges, checked before
  and used after the array changed.
* **What survives a restart.** Persistence goes through text, and a rewrite of the
  append-only file runs while calls go on.
* **JSONPath.** A filter is compiled to a list in which operators and brackets change
  places, and reduced in place; slices walk with a pointer and count apart from it;
  selectors hand lists on, with an order and with repetitions.
* **Bytes.** The routines that read a path, a pointer and a JSON text step over
  brackets, escapes and the final NUL with offsets of their own, and the printer
  reserves and counts its bytes in two different places.
* **Links.** A child list ends in NULL one way and goes round the other; each
  operation has cases for the first, the last and the only child.

The same list with its places in the code is in `PROJECT.json`, "hazards".

### What makes each component correct

* *Commands*: a SET reads back and leaves unrelated paths alone, repeating it
  changes nothing; DEL undoes SET; the array commands are the usual functions on
  sequences; a reply tells what a read finds; an unpropagated call changes nothing.
* *Pointers and patches*: add, remove and replace leave a well-formed document, and
  the very same one when they report an error.
* *Document tree*: sibling positions have no gap, members have names, elements have
  none anyone sees.
* *Propagation*: a follower shows the states of the master, in order, and catches up.
* *Child lists*: an operation does to the list what it would do to a sequence, the
  first child's `prev` is the last child, and nothing leads to a freed node.
* *JSONPath engine*: a path selects the nodes it means, in order and each once.
* *Path conversion and pointers*: a path finds the node it names, in every notation, and
  a patch takes out the node a command reads.
* *Parser and printer*: just JSON texts are accepted, the text of a document is read back
  as the document, buffers have room, a refused text leaves nothing allocated, and
  every call ends.
* *Persistence*: a document that is saved and loaded again reads the same, and goes on
  to behave the same.

## 2. Modules

| module | what it models |
|---|---|
| `JsonDoc` | The tree as a value: a function from the address of each node (the positions from the root) to its label (type, number or length or size, name). Well-formedness; reading, duplicating, detaching and inserting children. |
| `JsonPatch` | Following a pointer, `detach_path`, and `apply_patch` for add, replace and remove, with its status codes. |
| `TairDocCommands` | Each handler as an operator from the call and the value of its key to the value left, the reply, and whether the call is propagated. The early returns are in the order of the code. |
| `TairDoc` | The server: a keyspace, one action per command; the record of the last call is there for the properties. |
| `TairDocReplication` | Master, stream and followers, with restarts of a follower from nothing. |
| `StateLog` | The abstract specification of replication: a log of states that followers show one after the other. |
| `CJsonList` | The `next`, `prev` and `child` links of one container, the allocated items, and each routine that changes them. |
| `ItemList` | The abstract specification of a child list: a sequence of distinct items. |
| `TairDocPersistence` | A server with its append-only file: calls, rewrites in command or RDB form that overlap with them, restarts; printing and parsing. |
| `JsonPathSelectors` | What each selector finds: members, children, elements, lists, slices, descendants. |
| `JsonPathFilter` | The compiler of filters, token by token, and their reduction to one list of items. |
| `JsonPath` | `JSON.GET` with `$`: compiling piece by piece, then one action per kind of selector. |
| `JsonPathMeaning` | What a path means, node by node, without lists or brackets, and the properties. |
| `Ascii` | Bytes and C strings. |
| `PathText` | A path argument, byte by byte: `pathToPointer`, `get_item_from_pointer`, and the split, decoding and lookup of `detach_path`. |
| `PathTextMeaning` | What a path means, step by step; the pointer as `JsonPatch` sees it (`P == INSTANCE JsonPatch`); the properties. |
| `JsonParser` | `cJSON_ParseWithOpts` from bytes to items: one action for each branch of `parse_value`, `parse_string`, `parse_array` and `parse_object`, and for each exit. |
| `JsonPrinter` | `cJSON_PrintUnformatted`: one action for each piece that is written to the growing buffer. |
| `JsonText` | Parser and printer as TairDoc calls them: a client's JSON is parsed, a document is printed and what was printed is parsed. Their types, and the properties of their buffers and items. |
| `JsonTextMeaning` | The grammar of JSON and the text of a document, without offsets or buffers, and the properties that compare the two with it. |
| `MCValues`, `MCTairDoc`, `MCReplication`, `MCPersistence`, `MCCJsonList`, `MCJsonPath`, `MCPathText`, `MCJsonText` | Tokens, documents and calls for TLC; symmetry sets. |
| `TairDocClaims` | What comments, README and tests say and the code does not do. |
| `JsonDocProofs`, `TairDocCommandsProofs`, `TairDocProofs`, `ReplicationProofs`, `CJsonListProofs`, `TairDocPersistenceProofs`, `JsonTextProofs`, `PathTextProofs` | The proofs. |

`JsonPatch` extends `JsonDoc`, `TairDocCommands` extends `JsonPatch`, and both
`TairDoc`, `TairDocReplication` and `TairDocPersistence` extend `TairDocCommands`; so a
theorem about the tree holds of the operators that every command, follower and
restarted server uses. `CJsonList` stands alone: it shows that the links do what
`JsonDoc` takes a list of children to do. The four `JsonPath` modules extend each other
and `JsonDoc`; they read a document and write none, so that they need no composition
with the commands, which the server runs one at a time. `PathText`, `JsonParser` and
`JsonPrinter` extend `JsonDoc` and `Ascii`. They are the level below the other modules:
`FollowsLikeJsonPatch` shows that the bytes of a pointer do what `JsonPatch` says of
its tokens, with `IndexOf`, `DecodePointerInplace` and `ToLower` in the place of its functions
`Index`, `ChildName` and `Fold`, and the rules of JSON pointers, of which it shows that they
are those of `compare_pointers`, in the place of `SoughtName` (`NoName` for a token that they
refuse, which no member has for a name); this is proved for every text. `RoundTrip` shows that
a text keeps of a document what `TairDocPersistence` says it keeps (`Bare`).

### How the model corresponds to the code

* `db[k]` is the value of the key: `Empty` (`KEYTYPE_EMPTY`), `Foreign`
  (`ModuleTypeGetType` differs), or `Doc(d)`.
* A node's address is the list of positions from the root. C index `i` is position
  `i + 1`; pointer identity is the address.
* `d[a].n` stands for `valuedouble`, `strlen(valuestring)` or the number of children.
* A token is a model value. The code reads one in four ways, and `Index`,
  `SoughtName`, `ChildName` and `Fold` give what each way finds; `MCValues` fills
  them with what the C functions do to the texts used. The theorems hold for
  any such functions.
* A path has a style for what `pathToPointer` makes of it. A pointer with text in
  front of its first slash (`lead`) is what `$.a` becomes; following it stops at
  the root at once.
* `Commit` is a handler that ends in `ReplicateVerbatim`, `Answer` one that returns
  without. The value a failing patch or a half-read batch leaves is part of `Answer`.
* A patch puts its value into an array with the name "value" it had in the patch
  document (`Named(value, ValueName)`), as `cJSON_Duplicate` copies the `string`
  field.
* INCRBY's overflow to infinity is a sum beyond `Huge`; a document may hold such a
  number because the parser reads 1e999 as infinity.

In `CJsonList`, `Insert` is `cJSON_InsertItemInArray` with its check for a corrupted
item, `PatchInsert` is `insert_item_in_array` of `cJSON_Utils.c`, `Add` is
`add_item_to_array`, and `Delete` detaches and deletes, freeing everything the item's
`next` still leads to. `Build` is what the parser and `cJSON_Duplicate` leave, and
`Clear` is the deletion of the container. A freed item keeps its links, a new one
is zeroed, so a link to freed memory shows in the state. When the first child has
no `prev`, an append is passed over in silence as in the code; the proofs show that
it never happens.

In `JsonPath`, an item is an address and the C array of references a sequence of
addresses. A path is a sequence of pieces and a filter a sequence of tokens; what a
piece compiles to, and when compiling fails, is `Compiled`. The stack of characters in
`compile_selector_filter` is a stack of tokens. A unit of a filter that occurs in the
wrong place, and every early exit to `error`, is `Bad`. The pointer walks of
`array_slice_selector` are `Forward` and `Backward`, with the pointer (`at`) apart from
`lower` and `upper` as in the code. `means`, the formula a filter was written from, is
read by `JsonPathMeaning` only.

In `PathText`, `path` is `jpa`, `pointer` what has been written to `jpo`, and `i` the loop's
`i`. An action is one turn of the loop over the path (`ReadDot`, `ReadQuoted`,
`ReadIndex`, `ReadName`), an exit (`RejectBracket`, `Converted`, `TakeOver`, `RootSign`), or
one token of a pointer that is followed (`FollowElement`, `FollowMember`, `FollowScalar`),
`at` being `current_element` and `rest` the `pointer` of `get_item_from_pointer`.
A null pointer is the empty set. A `size_t` counts modulo `SizeMax`. `Matched` is the
loop of `compare_pointers`: how much of a token each prefix of a name takes. `Decoded` is the
text after each turn of the loop of `decode_pointer_inplace`, which writes into the text it reads:
only escapes are written. `call.steps`,
what a path was written from, is read by `PathTextMeaning` only.

In `JsonParser`, `offset` and `Length` are those of `parse_buffer`, the latter with the NUL.
The C stack is `open`, the types of the containers around the item `here`; an item is in
`tree` from `cJSON_New_Item` to `cJSON_Delete`, and a container counts no children until
its list is linked to it, so that `Linked` is what a deletion of the container
frees. When a function returns false, each `GiveUp` is the `fail` label of one
`parse_array` or `parse_object`. `copy` is the `output` of `parse_string` with the room allocated for
it. What `strtod` reads is `IsNumeral` of the at most 63 bytes in `number_c_string`, and
a number's label keeps the bytes read; whether `strtod` and `sprintf` compute the right double is
theirs to answer. In `JsonPrinter`, `buffer`, `length` and `filled` are `buffer`, `length` and `offset` of
`printbuffer`. `Emit` is one `ensure` with what its caller writes there (bytes left from
before stay behind it) and what it adds to the offset itself; the rest is added by
`update_offset`, which is `Measured`, just before the next piece. `print` fails at the first
`ensure` that fails, and frees its buffer.

In `TairDocPersistence`, `disk` is not the file but the keyspace that reading the file
now would give: the reader runs the calls one after the other, so a call that is
appended is run on `disk`. `rewrite.keys` is the same for the file being written.
A text is the document the parser makes of it: `Bare` drops the names that
elements of arrays do not show, `PrintedLabel` prints an infinite number as `null`
and any other as `Digits` says (in the runs, two numbers as their neighbour and the
largest as a larger one, which is read as infinity), and `Parse` gives up inside `NestingLimit`
containers. In command form the base is the `JSON.SET` that
`TairDocTypeAofRewrite` emits, run by `SetEffect`; in RDB form it is `RdbLoad`, and a
value it cannot load leaves the whole file unreadable.

## 3. Runs

| run | what it checks | bounds |
|---|---|---|
| Documents | one document: SET (plain, NX, XX) and DEL at nine paths of up to two tokens, five values; push, insert, pop, trim, incrby, append on an array at the root, under a member, in an array | 5 nodes, strings of 2, numbers in -1..1, indices from -4 to 3 |
| Keys | every command, paths of all styles, bad arguments, two keys, other types, MGET | 2 nodes per key |
| Replication | one follower, every writing command; safety, refinement of `StateLog`, catching up | 3 propagated calls, 1 restart, 3 nodes |
| CJsonList | every list operation and its refinement of `ItemList` | 4 items, indices 0 to 4 |
| Persistence | calls, rewrites that overlap with them and restarts | two keys, 3 nodes each, nesting limit 2 |
| JsonPath | `JSON.GET` with `$` on nine documents | paths of up to 3 pieces, all slices from -4..3 to -4..4 by -3..3 of arrays of 0, 1 and 3, filters of up to 4 units (some of 5) in all bracketings |
| PathText | paths from their bytes to the node found, and to the item a patch takes out | texts of up to 4 of 11 signs and two longer ones, and every way of writing up to 2 of 25 steps; two documents, one with 12 elements; a `size_t` of 16 values |
| JsonText | texts parsed; documents printed and parsed again | texts of up to 4 of nine pieces of JSON in every order, and of up to 6 of fewer; documents of up to 3 nested containers; nesting limit 2, numbers of 4 bytes, a first buffer of 4 bytes, `INT_MAX` 24 |
| Claim... | one claim each that the code breaks | up to 4 nodes |

Two tokens and a container in a container are enough to tell apart a parent that is
the root, an object or an array, an item first, last or alone in its list, and a
path unrelated to another. Indices reach past both ends of the longest array.
Batches have the malformed argument in every position. A third level adds only a
longer walk to the same parent. Replication needs a state before and after a
call that matters, and a restart with calls behind and ahead of it.

For JSONPath, the slices go past both ends of the longest array in both directions, and two
levels of brackets around two operands each have every order in which the compiler
meets operators and brackets. The texts that are no filters are there to reach the
error exits.

Four items make a list with a first, a last and two middle children, or one of three
and an item to put in. For persistence a nesting limit of 2 with 3 nodes has
documents below, at and beyond the limit; two keys show that a key that is lost
takes no other with it.

In PathText, the signs are one of every kind that the routines tell apart, and the tokens
10, 11, 12, 15, 16 and 18 lie on both sides of the last element and of the width of
a `size_t`. In JsonText, the limits are so small that texts and documents lie on
both sides of each of them: containers in two and in three others, numbers that fill their
buffer, documents whose text needs a buffer of the first size, one that was doubled, one of
`INT_MAX`, and more. The texts contain every pair of
escapes, both halves of a surrogate pair alone and in both orders, and every order of a
backslash, a quote and a `u`.

`MaxNodes`, `MaxLen`, `MaxStream`, `MaxRestarts` and `MaxIndex` bound the runs. `Fits` is a
conjunct of each action: a step to a larger document is not taken. The theorems
do not depend on the bounds' values.

Documents and Keys use `VIEW View`, the keyspace: no guard and no value of a
step depends on the record of the last call, and all their properties but `TypeOK`
are about steps, which TLC evaluates for every step from every keyspace.

CJsonList and Persistence use symmetry, of the items and of the keys: no action, call
or property names one of them, and all properties of the two runs are safety
properties.

Fairness: `FairSpec` supposes that a follower that can run the next call in the end
does (weak fairness of `Apply(f)`), which is the server's main loop reading the
replication link or the file. Nothing is assumed of clients or of restarts. In `JsonText`,
`WF_vars(Work)` supposes that a call that can go on does: the parser and the printer are
loops of the server's one thread, which wait for nothing. Whether they end is
then a question of their steps alone (`EndsWithAnAnswer`). Nothing is assumed of
`CreateNode` and `Save`, which a client and the server may never ask for again.

### What the runs show

The properties of the eight passing runs hold. Four claims do not:

| run | what happens |
|---|---|
| ClaimBatch | `JSON.ARRPUSH k "" 1 x` adds 1, replies an error and is not propagated: the replica never gets the element (`tairdoc.c:778`, and 934 for ARRINSERT). |
| ClaimCase | `JSON.DEL k /A` removes `a` if `a` comes first (`cJSON_Utils.c:466`). |
| ClaimDeep | Pushes nest arrays beyond `CJSON_NESTING_LIMIT`, which only the parser enforces: after a rewrite the key is gone, or, in RDB form, the file cannot be read (`cJSON.c:1457`). |
| ClaimDollar | In `{"a":{"b":0},"b":0}`, `JSON.SET k $.a.b 1` answers OK and sets the root's `b` (`tairdoc.c:202`). |

The compiled code does what ClaimDollar shows.

`PathFindsWhatItNames`, `LookupsAgree` and `FollowsLikeJsonPatch` hold with these exceptions, each of
them a place where the code does not do what a path says:

* An array takes an empty token for element 0, a numeral beyond a `size_t` for what is left
  of it, and a digit with any bytes above 9 behind it for a number: `/0:` is refused but `/1:` is
  element 20 (`cJSON_Utils.c:285`). These are the tokens in `Odd`.
* `decode_pointer_inplace` copies no plain byte and writes the slash of `~1` one place too
  far (`cJSON_Utils.c:377`), where it may end a token that an array reads as an index: in
  `/1~1-`, the decoded token is `1~/`, which `detach_path` reads as `1~`, an index by the rule
  above, where a lookup finds that `1~1-` is none because of the -. `JSON.SET k /a~1b 0` puts
  0 under another name than the one `JSON.GET k /a~1b` looks for, and JSON.DEL looks for that
  other name, although `README.md:6` of the module speaks of RFC 6901.
* `detach_path` looks for a member regardless of case (the run ClaimCase).
* `pathToPointer` keeps the `$` of `$.a` in front of the first slash (`tairdoc.c:202`). Such a text is
  not followed at all, and stands for the root; a patch, which splits it at its last
  slash, reads the front as the root too. `JSON.SET k $.a.b 0` replaces the root's member
  `b`, where `README.md:74` says that the root element supports `$` (the run ClaimDollar). No
  path in the run is written with a `$` and steps behind it.

`ReadsJson` holds for JSON as cJSON permits it: any byte up to 32 is a blank, strings may hold
control characters, numbers are what `strtod` reads (01, 1. and the like). Its one
exception is `OddEscape`: a `\u` without four hexadecimal digits counts as the
character NUL (`cJSON.c:643`), and so ends the string early. `RoundTrip` says that a
document read back has lost but the names of its elements, and is refused only if too deep.
A number longer than 63 bytes would be cut and its rest taken for garbage behind it; the printer
writes at most 25 (`DocsAssumption`). The answers of both models are those of the
compiled code: 53,049 paths, and 27,351 texts and documents with the places of the errors,
with the limits above compiled in.

`SelectsWhatIsMeant` is stated for `Regular` paths. It fails without each of the
exceptions there, in which the engine does not do what the path says:

* `..` behind anything but `$` also descends into the siblings that follow the item:
  `$.a..b` finds the `b` of members after `a` (`cJSON_Utils.c:2546`).
* `@.a < @.b` compares the first value of one list with the first of the other, of
  whatever items they are, when an item has but one of the two (`cJSON_Utils.c:2755`).
* An operator before a bracket is put before the last filter compiled so far
  (`cJSON_Utils.c:1902`): `A && (B || C)` selects nothing, `(A || B) && C` is right.
* `>=` and `<=` never compile, as `>` and `<` are tried first (`cJSON_Utils.c:1733`): an
  error reply.
* A selector that takes one item answers nothing when it is given several, which the
  comments at `cJSON_Utils.c:3131` and 3144 say is intended.

The engine looks for names among the children of arrays too, so that `$.value` finds an
element that a SET put into an array, until the server restarts; the documents of
the run have no such names. The answers of the model to the 8316 questions of
the run are those of the compiled `cJSON_Utils.c`.

Numbers are printed with 15 digits if these give back a number within one epsilon
(`cJSON.c:581`): 0.30000000000000004 is saved as 0.3, and the largest double as a number
that is read as infinity. `RestartKeepsDocuments` excepts such keys (`lossy`).

Three more disagreements of a comment with the code need no run: JSON.DEL of an
absent path replies an error where `tairdoc.c:426` says it is ignored, JSON.ARRPOP
replies an error to an index out of range where `tairdoc.c:802` says it is rounded,
and JSON.STRAPPEND counts the bytes after a NUL where `tairdoc.c:636` promises the
length of the string. The models do what the code does.

`UnsentChangesNothing` states the exception of ClaimBatch exactly: what remains is
the effect of the call with only the arguments before the malformed one.
`RestartKeepsDocuments` excepts the keys in `lossy`, those that the base could not hold
as they were: too deep, or with a number that is printed as another. For these
it still says that no other key is affected.
`SetReadsBack` says that all tokens of the path lead to what was stored, and says it of
paths that become a pointer; of a path with a `$` and steps behind it this is false
(ClaimDollar), and nothing is claimed. `SetKeepsTheRest`, `SetIsIdempotent` and
`DelTakesOneItem` are stated for the place that a `$` path really leads to (`Target`): what
is unrelated to it stays, although it may not be the place that was meant. Their runs have
no names that need escapes or differ in case.

## 4. Proofs

Every theorem holds for all values of the constants: any names, tokens, keys and
calls, documents of any size, any number of followers.

* `JsonDocProofs`: `DetachWellFormed` and `InsertWellFormed`. Addresses are shifted
  below one parent; the lemmas say that a shift and its inverse cancel outside the
  block, that parents go to parents, and that sizes follow. Of the documents themselves,
  a child that is detached, inserted or shifted has below it what it had (`SameBelow`,
  `DetachChild`, `InsertOldChild`, `InsertNewChild`), and nothing outside the
  changed container differs but the counts (`DetachOutside`, `InsertOutside`). What is
  below a copied node is what was below the node (`SubtreeIs`, `SubtreeTwice`). Taking out
  keeps a document `Plain`, and so does putting in what is plain, under a new name (`DetachPlain`,
  `InsertPlain`).
* `TairDocCommandsProofs`, of patches: `AddIsSafe`, `RemoveIsSafe`, `ReplaceIsSafe`: the document
  stays well formed, and a patch that reports an error has changed nothing. For
  replace this needs that the place found before the detach is found after it
  (`HolderKept`): the detached item lies below its holder, so no prefix of the
  path to the holder moves. A pointer resolves to one node at most (`ResolvesOnce`).
  In plain documents, with tokens that are `ToldApart`, the lookup that follows a pointer
  and the one that detaches by name find the same child, the one of that name or index
  (`SelectsIs`). A path that leads through a node reads on in the copy of the node
  (`ResolvesStep`, `SubtreeResolves`).
  Of commands: `EffectSound` (each command leaves a value) and
  `UnsentKeeps` (each command that is not propagated leaves the value it found,
  if it is a `WholeBatch`, one without a malformed argument).
* `TairDocProofs`: `TypeCorrect` (`Spec => []TypeOK`),
  `UnsentCallsChangeNothing` (`Spec => UnsentChangesNothing`), `MgetIsGet`,
  `KeyVanishes` (`Spec => KeyGoesWithItsLastChild`), `ArraysAreSequences`
  (`Spec => ArrayCommandsEditSequences`) and `RepliesAreRead`
  (`Spec => ReplyIsWhatARereadFinds`, supposing that no appended string holds a NUL:
  what follows the NUL is counted in the reply and lost). `TypeOK` is inductive
  by `EffectSound`, and the action properties follow from it step by step. A key can
  vanish only where `DropIfChildless` finds no child, and there the container that
  lost one has none left, so it is the root (`ChildlessIs`); `JSON.ARRTRIM`
  always leaves an element (`TrimKeeps`), so that its reply is never taken from a deleted key.
  That a read finds what a write has replied needs that the path still leads to
  the same node: resolving it looks at the nodes above only, and these a command leaves
  alone but for the count of the node it reached (`KeptAbove`, `PathKept`, `NodeKept`).
  That an array command edits a sequence is shown element by element: the lemmas
  on children say which element of the old array, or which argument, is at each index of the
  new one (`InsertedItems`, `DetachedItems`), and `SpliceIs`, `RemoveIs` and `CutIs` that
  these are the sequences `Edited` names, at both ends and for a batch put in at a moving
  index.

  Five theorems compare what is read before and after a write: `SetThenRead`
  (`Spec => SetReadsBack`), `SetIsLocal` (`SetKeepsTheRest`), `SetTwice` (`SetIsIdempotent`),
  `AddThenDel` (`DelUndoesAdd`) and `DelIsLocal` (`DelTakesOneItem`). They suppose that
  the calls are usual: for some set of tokens and of names that are
  `ToldApart`, each `UsualCall` has a path of these tokens, and a JSON argument without two
  members of one name, its names from that set. `ToldApart` says that a token spells the
  same name for following a pointer and for patching, that different tokens spell
  different names and different indices, and that no two names differ by case only.
  `SetThenRead` is about pointers only, as `SetReadsBack` is; the others speak of `Target`.
  The properties are false without: a token with `~1` is stored under a name that is
  then not found; a replace detaches without regard to case, so it may take a sibling
  out; and deleting a member uncovers a second one of its name. Sets of
  tokens such as `a`, `b`, `0`, `1` and `-` meet it (`DocumentsAreUsual`, which TLC
  evaluates for the calls of the run Documents).

  `TypeOK` is not enough for them: the documents must also be plain, which is an
  invariant of its own (`DocsPlain`, `AlwaysPlain`), kept by every command
  (`EffectPlain`). It rests on `SetIs`: a `JSON.SET` that is
  propagated has put its argument at one place of one container, over the item its last token
  selects or, if it selects none, at the end (`SetAt`, from `ReplaceSets` and `AddSets`). From
  `SetAt` follow what the path reads (`SetIsRead`), that the second of two equal
  calls takes out and puts back the same item (`PutBack`, `ReplaceAgain`), and
  that `JSON.DEL` takes out what was added (`RemoveTakes`, `AddedIsDeleted`). For what other paths read,
  `SameToken` says that two tokens that select one child are one token, so a node that
  an unrelated path reaches is neither above nor below the one that changed (`PathBelow`, `ValueKept`); a path that
  parts from the written one at its last token reads below a sibling, whose
  copy is the same although its position may not be (`ChildrenKept`, `ValueBelow`, `SetKeeps`).
* `ReplicationProofs`: `FollowersReplay`, `CaughtUp`, `ReplicaTypeCorrect` and
  `ReplicationIsALog` (`Spec => ImplementsLog`), supposing that no batch has
  a malformed argument (ClaimBatch is what happens without that). That followers
  replay the history is not inductive: it says nothing of what the next
  call of the stream will do. `Inv` adds that each keyspace of the history is the
  replay of the stream's call on the one before, and that the last is the
  master's. A call that is not propagated must then be no step at all, which is
  `UnsentKeeps`.

* `CJsonListProofs`: `NothingDangles`, `ListStaysLinked` and `LinksImplementList`. None of
  the three is inductive: that nothing dangles says nothing of where `prev`
  leads. The invariant `IInv` is that there is a sequence of distinct items which the
  links spell out (`Linked`), in both directions, and which are the
  allocated ones; each operation is shown to turn a spelling of `s` into one of `s`
  with an item put in or taken out (`LinkedWith`, `LinkedWithout`, `BuildLinked`). The
  sequence is unique (`ListedIs`), hence `Listed` is the refinement mapping.
  No bound on memory or list length is used but that memory is finite.
* `TairDocPersistenceProofs`: `SavedTypeCorrect` (`Spec => []TypeOK`), because printing
  keeps a document well formed, and `ExactSurvives`: a value that is `Exact` is read
  back the same from either form of base. `RestartIsFaithful` is
  `Spec => RestartKeepsDocuments`, supposing that no batch has a malformed argument. A
  restart alone says nothing of what the file holds, so the invariant (`FileKeepsUp`) is that the file,
  and the one a rewrite is to leave, give documents `Like` those in memory. The base
  loses the names that patches leave on array elements, so memory and file
  run the same call on different documents: `EffectLike` is that no command can tell
  them apart. It rests on lemmas that pointers, `detach_path` and the child list operations do
  the same to both (`PointerAlike`, `DetachAlike`, `InsertAlike`, `PatchesAlike`), for
  which the members of objects must keep their names and elements need not.
  `UnsentKeeps` covers the calls that are not appended.
* `JsonTextProofs`: `BuffersNeverOverflow`, `NoItemLeaks` and `TextTypeCorrect`
  (`Spec => []BuffersHold`, `[]FailureFreesAll`, `[]TypeOK`), for every text, document, limit
  and first length of the buffer. None is inductive.
  For the printer, `PrinterInv` adds where in the document it is, and that there is a
  NUL from `filled` on, so that `update_offset` ends inside the buffer; that
  `print_string_ptr` writes what it has counted is `QuotedIs`.
  For the parser, that the copy of a string has room so far says nothing of the
  escapes still to come. `Left(o, end)` counts them as the first loop of `parse_string`
  does, one for an escape and one for a byte; `Copied` says that what is decoded and what
  is left together fit, and each branch of the second loop is shown to write no more
  bytes than `Left` falls by (`Utf8Is`, `UnitTakes`). A unit whose digits are wrong is read as 0;
  then its six bytes may hold a reverse solidus, and `Left` falls by less
  than five, but one byte is all that is written.
  Of the items, `Sound` says that they are a document but for the containers around the item
  at hand, which have their type and count only when they are closed, and for the item
  itself, which may have no value or no name yet (`Pending`, `Untitled`);
  `SoundIsDocument` is the case where nothing is open. After a failure only `Loose` is left:
  every item lies below one that is held, which is what `GiveUp` needs to
  free all of them, one list after the other.
  The searches and sums over a text are recursive functions (`QuoteFrom`, `Skipped`,
  `FlattenSeq`). What they return is proved from well-founded induction on sets of numbers
  (`Induction`, `BackwardInduction`), after a proof that a function with that
  recursion exists (`WalkExists`, `FlattenExists`). The lemmas about bytes and searches are in
  `JsonDocProofs`, as `PathTextProofs` needs them too.
* `PathTextProofs`: `PathTypeCorrect` (`Spec => []TypeOK`), `PatchTakesWhatIsRead`
  (`Spec => []LookupsAgree`) and `PointersFollowTokens` (`Spec => []FollowsLikeJsonPatch`), for
  every path, document and `size_t`. The first needs that what
  is written never gets ahead of what is read (`TypeInv`): a bracket costs two bytes of the path at
  least and gives one slash.
  The second compares two walks that happen one after the other: the command follows the
  whole pointer, and later a patch cuts it at its last slash, follows what is in front, and reads
  what is behind in another way. Its invariant (`LookupInv`) rests on one trail of the pointer
  (`Trail`): a set of nodes for each offset where a token begins, from the root at the
  first slash on, each found from the one before with the token between. The trail is fixed by
  document and pointer, so both walks can be compared with it and not with each other: while the
  pointer is followed, `at` is what the trail has where `rest` begins (`FindInv`), and
  `found` is what it has at the end; the second walk is on the same trail (`HoldInv`) and ends where the
  last token begins. What is left is one token: a child whose name `compare_pointers` finds
  equal to a token without a tilde has the token as its name (`ComparesNames`), decoding leaves such a
  token as it is (`DecodesItself`), and the search that ignores case then finds the same child if no
  other differs from it in case only (`ChosenIsDetached`); an index is read by one routine in both
  walks.
  The third says that the level of bytes does what `JsonPatch` says of tokens. `Tokens` and
  `Unescaped` join what the bytes of a text stand for, one after the other; `Tokened` and `Spells` are the
  joins as far as each byte, and functions with that recursion exist (`JoinedUpTo`, `FoldExists`).
  The loop of `compare_pointers` is shown to read escape by escape what `Spells` joins
  (`MatchIsRead`, `ReadIsMatch`), so that it accepts a name just for the tokens that are
  its escaped form (`ComparesUnescaped`). A token then selects the child that `JsonPatch` says
  (`ChosenIs`), one more token does to the nodes found what one more slash does to the trail
  (`WalkResolves`), and the trail has, at every slash, what the tokens before it lead to
  (`TrailResolves`). For `detach_path`, `DecodedKeeps` is what decoding in place leaves
  of a token: its first byte, and, unless that is a tilde, no slash right behind it. A token with a
  tilde is therefore no index before and none after, unless it begins with 1 to 9 (`DecodedToken`). A text in
  front of the first slash is never followed (`LeadInv`).
  The proof corrected the property: it had excused a smaller set of tokens than the code needs
  (`/1~1-` above was not among them), and no text of the run was long enough to tell.

The assumptions are those in the modules (`NameAssumption`, `TokAssumption`,
`CallsAssumption`, `ArgumentAssumption`, `BoundAssumption`, `ItemAssumption`,
`IndexAssumption`, `NestingAssumption`, `DigitsAssumption`, `SizeMaxAssumption`,
`LimitsAssumption`, `SizesAssumption`, `TextsAssumption`, `DocsAssumption`); TLC evaluates each of
them in the runs.

Only model-checked: the JSONPath engine, whose slices, descendants and formulas are
recursive; of the bytes of paths, `PathFindsWhatItNames`, whose hypothesis, that a text is
written from given steps, is enumerated by `MCPathText` and is no formula of the model; of the texts, `ReadsJson`, `RoundTrip` and `PrintsIfItFits`, which compare them
with a recursive grammar; `CatchesUp` and `EndsWithAnAnswer` (liveness). Out of the
prover's reach are liveness under fairness and what `RECURSIVE` operators compute.

## 5. Not modelled

The characters of JSONPath queries; formatted printing, raw items and preallocated buffers,
which TairDoc does not ask for. The error position that a malformed JSON argument is
replied with. In filters: string constants that start with @ or $, which
the code takes for paths, and comparisons that name no member of the item. Patch generation and merge
patches, which no command calls. Memory exhaustion, arity errors, logging. Numbers
as doubles: sums are exact, and `Digits` stands for the rounding of the printer. The
server's own files: the append-only file is taken to be complete up to the last
propagated call.

## 6. Plan

Done: `JsonDoc`, `JsonPatch`, `TairDocCommands`, `TairDoc`, `TairDocReplication`,
`StateLog`, `CJsonList`, `ItemList`, `TairDocPersistence` and their proofs, the
`JsonPath` modules, and the level of bytes: `PathText`, `JsonParser`, `JsonPrinter`,
`JsonText`. The invariants of parser
and printer are proved, that a restart keeps documents, that the two lookups of a pointer agree, and that both follow
its tokens. Next, in this order:

1. A proof of `PathFindsWhatItNames`. `PointersFollowTokens` covers what follows a pointer; what is
   missing is a definition of the texts written from steps, now in `MCPathText`, and what the
   conversion and the numerals make of them.
