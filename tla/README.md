# Verification of bijson

bijson is a C library for a binary form of JSON.  A *writer* builds a document
call by call (or from JSON text), a *reader* finds values in a document in
place, without unpacking it, and converts it back to JSON.  This directory holds
TLA+ models of the library, the configurations with which TLC checks them, and
proofs that TLAPS checks.

Everything here is translated from `src/lib`; paths below are relative to `src`.
`PROJECT.json` maps every definition to the lines it stands for, lists the runs,
the mutants (for each checked property a wrong variant of a mapped definition that
breaks it; they stand beside the definition and are called `Definition_Fault`),
the hazards and the theorems.

## 1. Inventory

### The writer (`lib/writer.c`, `lib/writer/`)

| part | state | operations |
|---|---|---|
| protocol | `spool`, `stack`, `current_container`, `expect`, `expect_after_value`, `failed` (`lib/writer.h:29-45`) | the calls of `include/writer.h`: begin/end of arrays and objects, keys, strings, bytes and decimals in one go or in parts, constants, write |
| intermediate form | the bytes on the spool | sizes and offsets of items, prediction of a container's output size, sorting of an object's items, emission |
| growable buffer (`buffer.c`) | memory inside the writer, on the heap, or in a mapped file | push, pop, access, `ensure_space` |
| decimal encoder (`decimal.c`) | words of 19 digits on the stack | analyze, shift, add, subtract, choice of the shortest form |
| JSON parser (`parse.c`) | position in the text, kind of nesting on the stack | tokens, escapes, numbers; drives the protocol |

The writer never holds a tree.  Items are appended to the spool; the offset of the
innermost open container's header is in `current_container`, those of the outer ones
are saved on the stack, which at the same time serves strings in parts (the offset of
a size that is to be filled in), decimals in parts (their text), and the sorting
of objects while the document is written.  Two variables say what may come next, and
are set in different files.  That all of this stays consistent after any sequence of
calls, also one in which memory runs out half-way through a call, is what makes the
writer correct; then that the sizes computed when a container ends are those of
the bytes sent when the document is written.

### The reader (`lib/reader.c`, `lib/reader/`)

| part | state | operations |
|---|---|---|
| dispatch, arrays, objects | none: an analysis of a container is a record of offsets | count, analyze, item by index, conversion to JSON |
| key lookup (`object/key.c`) | a bracket of items, an attempt counter | guess by interpolation of hashes in floating point, bisect after a number of attempts |
| key range (`object/key_range.c`) | two bounds, a step | from one match, steps that double, then bisection, on both sides |
| decimals, strings (`decimal.c`, `string.c`) | none | conversion to JSON |

A document may be a damaged file, so every offset is checked.  It must never lead
outside the container it belongs to.  The lookup must find a key wherever the hashes
fall, and in few steps; it relies on the order in which the writer sorted.

### Output and input (`lib/io.c`)

Output callbacks for a file descriptor, a `FILE`, memory (produced twice when
the first buffer is too small), a named and a temporary file, a byte counter; input
by `mmap`.  The callback for a file descriptor meets partial writes, `EINTR`,
`EAGAIN`, errors and exhausted memory.

### The rest

Helpers (`lib/common.c`: UTF-8, powers of ten, digits; `_bijson_2log64` in
`lib/common.h`), error values (`lib/error.c`), the vendored hash function
(`lib/rapidhash.h`), the command line tool (`bin/bijson.c`) and the tests.

### How they interact

The parser calls the writer's protocol; the protocol pushes to two buffers; write
walks the spool and calls an output callback of `lib/io.c`, which calls the system.
The reader's conversion calls the same callbacks.  Writer and reader share nothing
but the format: type bytes, widths of counts and offsets, the order of keys.
Nothing in the library runs concurrently; what is hard are long sequences of legal
calls, calls that fail half-way, damaged input, boundaries of integer widths, and the
file descriptor's other end.

## 2. Modules

| module | models | from |
|---|---|---|
| `Sizes` | widths of counts and offsets, integers of a given width | `lib/writer.h` |
| `Text` | the UTF-8 check on three classes of bytes, for `Writer` and `Reader` | `lib/common.c` |
| `Spool` | the intermediate form, prediction of sizes, order of keys, emission | `lib/writer/array.c`, `object.c`, `container.c`, `lib/writer.c` |
| `Writer` | every call on a writer | `lib/writer.h`, `lib/writer.c`, `lib/writer/*.c` |
| `Document` | abstract: a document built as a tree | (what the writer promises) |
| `WriterDocument` | the refinement mapping from `Writer` to `Document` | |
| `RoundTrip` | composes writer and reader: what is emitted is read back | |
| `Buffer` | the growable buffer, with every step of `ensure_space` | `lib/writer/buffer.c`, `buffer.h` |
| `Stack` | abstract: a sequence of bytes that is pushed to and popped from | (what a buffer promises) |
| `DecimalForm` | what an encoded decimal means, and the results of the loops that pack digits | `lib/writer/decimal.c`, `lib/common.c`, `README.md` |
| `DecimalDigits` | those three loops (shift, add, subtract), a digit a step | `lib/writer/decimal.c` |
| `DecimalWriter` | the analysis of a decimal's text and the choice of its shortest form | `lib/writer/decimal.c` |
| `DecimalReader` | the printing of an encoded decimal, of any bytes | `lib/reader/decimal.c` |
| `Decimals` | composes the two: what was encoded is printed | |
| `JsonText` | what a JSON text says, by definitions that do not parse | (what the parser promises) |
| `JsonParser` | the parser, from one call of the writer to the next | `lib/writer/parse.c` |
| `JsonMeaning` | what the value that was parsed says, next to `JsonText` | (what the parser promises) |
| `StringToJson` | the printing of a string with its escapes, which is then parsed | `lib/reader/string.c` |
| `Utf8` | the exact UTF-8 check | `lib/common.c` |
| `Reader` | analysis of containers and access to items, for any bytes | `lib/reader/array.c`, `object.c`, `object/index.c`, `lib/reader.c` |
| `ToJson` | the conversion of a document, with a stack of containers and a callback that may fail | `lib/reader.c`, `array.c`, `object.c` |
| `KeyLookup` | lookup of a key | `lib/reader/object/key.c` |
| `KeyRange` | lookup of a range; extends `KeyLookup`, whose search it repeats | `lib/reader/object/key_range.c` |
| `WriteToFd` | output to a file descriptor with its environment | `lib/io.c` |
| `Outputs` | the other outputs, some of them around `WriteToFd`, and input | `lib/io.c` |
| `MCWriter`, `MCKeyRange`, `MCParts` with `MCJson`, `MCOutput` | instances for TLC | |
| `NumberLemmas` | lemmas: induction over a set of numbers, powers of two, recursion, sequences that are put together | |
| `SpoolProofs` | lemmas: how items tile the spool, sums, sorted orders, how many bytes are emitted | |
| `WriterProofs`, `WriterDocumentProofs`, `PartsProofs` (of `Buffer`, `Utf8`, `DecimalReader` and `JsonParser`), `ToJsonProofs`, `KeyLookupProofs` (also of `KeyRange`), `OutputsProofs` (also of `WriteToFd`) | theorems | |

The abstractions meet at four places.  `Writer` pushes to buffers that are sequences:
`Buffer` implements `Stack`, a sequence.  `JsonParser` calls the writer of `Document`:
`WriterDocument` shows that `Writer` implements it.  `DecimalWriter` uses the results
of the loops by their arithmetic (`Shifted`, `Added`, `Subtracted`): `DecimalDigits` has
the loops produce them.  And `ToJson` passes a decimal or a string as one token: how it
is printed is in `DecimalReader` and `StringToJson`.

### How state and actions correspond to the code

* **`Spool`, `Writer`.**  A buffer is a sequence of cells; a cell is a type byte, a
  `size_t` or a byte of payload, what the code pushes or reads in one go.  So
  `sizeof(size_t)` is 1 and the assertions about offsets are about cells.  Values a
  container's header will be given later are 0 until then, as in the code.  One action
  is one call, with all its pushes: it is refused (with the error of the code's
  checks, in their order), succeeds, or fails at any of its pushes, which leaves the
  cells pushed so far and sets `failed`.  A decimal is a member of a set of encoded
  forms, each with the size that was counted for it, which is what is pushed in front of
  it and need not be the size of the form: see `DecimalWriter`.  What the code makes of a
  spool on which such a size is wrong is not modelled; what depends on the sizes of
  decimals is stated for programs whose decimals are counted right (`CountedRight`).
  What a failed push leaves of a decimal's words on the stack is left out, because a
  failed writer never looks at it again.  A write sends the bytes of `Emit`, or fails at
  the callback and leaves one of the `Leftover` sequences of addresses on the stack.
* **`Document`, `WriterDocument`.**  The mapping reads the buffers back as a tree with
  open containers, a pending key and a text in parts.  `BuildsDocument` says every step
  of `Writer` is a step of `Document`, or changes nothing there, if decimals are counted
  right.
* **`Buffer`.**  `place` says where the contents are (in the writer, on the heap, in a
  mapped file); `pc` is the step that `ensure_space` has come to, and every action is
  what happens around one call of the system, which may fail.  `blocks`, `files` and
  `mappings` count what the process holds.  A file has only the pages that were
  allocated: `posix_fallocate` returns its error and the code compares it with -1, so a
  full disk goes unnoticed (`full`) and a later store kills the process.
* **`DecimalForm`, `DecimalDigits`, `DecimalWriter`, `DecimalReader`.**  A word has
  `WordDigits` digits, 19 in the code and 3 for TLC, and eight bytes of `Base` values.
  What a number means is in `DecimalForm`, from `README.md`; how words are packed is
  the code's, with its irregular cases as named predicates (see the disagreements
  below).  `DecimalWriter` tries one form a step.  `DecimalReader` calls the callback
  once a step, and the callback may fail.
* **`JsonParser`, `JsonText`.**  One action makes at most one call of the writer, also in
  a string with escapes: the parser has no stack and asks the writer what the innermost
  container is.  `JsonText` says without parsing what the tokens of a text are and which sequences
  of tokens are a value; the properties compare the two.  A call may be made inside
  containers opened before, and a call of the writer may fail.  Most calls that fail cost
  the document; an append that fails (`AppendFails`) leaves the writer as it was, with the
  string and the parser's containers open, and the parser returns.  In the text of an
  escape the hexadecimal digits, surrogates and the bytes of UTF-8 are computed as the
  code computes them.
* **`StringToJson`.**  `scanned` and `previously_written` are the two pointers; a step
  is one round of the loop, and the callback may refuse any piece.
* **`Utf8`.**  One step is one character; the four branches are the code's, with masks
  and shifts as quotients and remainders.  The memory behind the string is there, so
  that reading it shows.
* **`Reader`.**  A document is a sequence of bytes, a value a slice of it.  An
  analysis is a record with the fields of the code's struct; pointer comparisons are
  comparisons of offsets.  `highest` is `highest_valid_offset`; the guards
  `\in 0..highest` stand for the comparisons of unsigned values.
* **`ToJson`.**  The C code recurses; `frames` is its stack, `u` its loop variable.
  One action is one round of a loop.
* **`KeyLookup`, `KeyRange`.**  Integers have their width as `MaxHash`; a long double is
  a number with `Mantissa` values of the mantissa, and product and quotient are rounded
  as IEEE arithmetic does.  `phase` is the place in the code of the range lookup, and
  `jump` doubles modulo `MaxSize + 1`.
* **`WriteToFd`.**  Bytes are numbered in the order in which the action passes them,
  so that losing, repeating or swapping any of them shows.  `state` is the struct of
  the code, `vec` and `data` the locals of the callback.  A call to `poll` that is
  interrupted changes nothing and is not an action.  The file descriptor is a pipe
  whose reader makes room or goes away.
* **`Outputs`.**  `target` is the function that is called, `step` the place in it.  A
  named or temporary file runs the steps of `WriteToFd` in between.  `held` is what the
  call has of descriptors, memory and mappings, `given` what it has handed to the
  caller, `counted` what the action has passed in this run.  It is assumed that an action
  passes the same in its second run and that it passes something at all; both hold for
  the actions of the library.

## 3. Runs

| run | what it checks | bounds |
|---|---|---|
| `writer` | `TypeOK`, `ContainersNested`, `AssertionsHold`, `WritesCompleteOnly`, `BuildsDocument`, `FollowsDocument`: every sequence of calls, with failing pushes and output | spool of at most 9 cells, a decimal's text appended up to 5 cells of stack, texts that are halves of a character, `Base` 2 |
| `writer_build` | `SizePredicted`, `ReadsBack`: documents built without failures | spool of at most 20 cells, keys and texts of 0, 1 and 3 bytes, two keys with one hash, `Base` 2 |
| `parts` | the parts that work by themselves, one per behaviour; what was encoded is then read, what was printed is then parsed | see below |
| — buffer | `TypeOK`, `NothingLeaked`, `KilledOnlyByFullDisk`, `IsAStack` | 2 bytes, then 3, 4 and 5 on the heap, files up to 18, address space of 24; pushes of 0, 1, 3 and 8 bytes |
| — UTF-8 | `AcceptsUtf8`, `BetweenCharacters` | 18 bytes at the boundaries of the ranges; strings of up to five of them |
| — decimals | `PackedRight`, `AsInDecimalForm` (the loops), `EncodesText`, `SizeCounted`, `ShortestForm` (the encoder), `PartsInside`, `PrintsReadme` (the reader), `PrintsWhatWasAdded` (both) | words of 3 digits, up to 3 words; texts with and without point and exponent; values of up to 4 bytes, most of them damaged, and of up to 3 words |
| — JSON | `DocumentSaysText`, `AcceptsJson`, `OnlyAddsItsValue` (the parser), `StringComesBack` (printed and parsed again) | all texts of up to 4 pieces, two nested containers, bodies of strings of up to 3 pieces; containers opened before the call |
| — all | `EveryCallReturns` | |
| `output` | what is done with a document, one thing per behaviour | see below |
| — conversion | `OutputCorrect`, `ValuesInside` of the conversion to JSON | all byte sequences of up to 4 of 6 interesting bytes, longer ones that start as a container of up to three items, nested documents, `Base` 4 |
| — outputs | `TypeOK`, `NothingLost`, `SuccessIsComplete`, `RefusedOnce` of output to a file descriptor; `OutputsComplete` of all outputs | a buffer of 2 growing to 4, a pipe of 3, input of 7 bytes |
| — lookups | `AnswerCorrect`, `Bracket`, `GuessesBounded` of the lookup of a key, `RangeCorrect`, `RangeAnswered` of that of a range | up to 7 items out of 7 keys, hashes and mantissas of four bits |
| — conversion and outputs | `EveryOutputEnds` | |

Why the bounds are enough.  With `Base` 2 an integer of one byte holds 0 and 1, of two
bytes up to 3: counts and offsets outgrow widths of one and two bytes within the 20
cells of `writer_build`, and predicted and emitted widths meet all combinations.  Nine
cells in `writer` hold two nested containers with a key and a text in parts, and every
call fails at each of its pushes; the proofs below cover the other sizes.  Five cells of
stack (`MaxStack`) leave a decimal in parts at least three more below two containers;
what its text is makes no difference, as its end is always refused.  In the lookups the
hashes at both ends, collisions of equal and different length, and rounding in both
directions occur; seven items are room for steps of 1, 2 and 4.  The buffer goes through
every place and size, and a push may skip any of them; the limits of files and
of the address space are both met.  With words of three digits a carry and a borrow run
through a word and into a new one, words of zeros occur, and a point falls before, in and
behind a word.  (The size is counted right only of texts without a full word, and
`SizeCounted` is about these; zeros in parts of several words, which the reader prints
too many of, are left out of `PrintsReadme`, which compares the other digits there.)
The two decimals of `writer` have one and two bytes and are counted right.  The sequences
of `output` hold every error of every check and well-formed containers of one, two and
three items with offsets of one and two bytes; the buffer grows once, overflows, and the
pipe takes parts that end in the buffer, at its end and in the data; a block of 2 bytes
is too small for most of what is passed.

**Fairness.**  The library is sequential and every action is a step of a call in
progress, which runs until it returns: weak fairness of the next-state relation in
`KeyRange` and `ToJson` and of the parts.  In `WriteToFd` it is the steps of the call that
are weakly fair; of the system it is assumed that a reader that has not gone makes
room, that a write that is possible again and again is not interrupted each time, and
that a write to a pipe without a reader fails at last.  No liveness is claimed of the
writer: a program may stop calling it.  None is of the decimal encoder, which tries a
fixed number of forms, and of the parser, which never goes back in a text that is finite.
Deadlock is off where a call's end is the end of the behaviour.

### Runs that show a disagreement

| run | what TLC finds |
|---|---|
| `writer_decimal_end` | a decimal added in parts cannot be ended: the end call still expects the decimal's text when it asks whether a value is expected, and answers `unmatched_end` |
| `writer_stack` | a write that an error cuts short leaves the items being sorted on the stack; since write asks for an empty stack, no later write succeeds |
| `writer_root_size` | a write while a decimal at the root is open reads the root's size from behind the used part of the spool, against the assertion of `buffer.h:41` |
| `key_lookup_third_answer` | a key with the largest hash, or the second largest, can be guessed behind the last item; the lookup answers `index_out_of_range` |
| `decimal_count` | the size of a decimal is counted with a shortcut for texts of a word of digits and more, which takes the point for a digit, leaves out what is shifted into a further word, and counts a word too much when no characters are left; the assertion of `lib/writer/decimal.c:469` does not hold, and a document that is one decimal of 19 digits is refused by write as having no single root |
| `decimal_padding` | the words of a decimal are printed with 20 places (`lib/reader/decimal.c:257`) where `README.md` has words of 19, so that a decimal of several words is printed as another number |
| `decimal_sum` | the last word of a sum is not reduced by one, so that exponents that were added are read one too large |
| `parser_surrogates` | two surrogates are put together without the 0x10000 that belongs to them, and another character is added |

The models have more such cases that no run is about; the properties name them as
exceptions, so that what is outside of them is checked:

* after a full word the next digit is stored without raising the magnitude, so that it
  is added to the one behind it (`lib/writer/decimal.c:63`), and a word of zeros in
  the middle of a difference is lost (`lib/writer/decimal.c:176`);
* three of the constants in `_bijson_fit_uint64` have an `F` too many (`lib/writer.h:65-68`),
  so that some values from 2^32 on are given a byte too few;
* the reader refuses a value with an exponent and no mantissa (`lib/reader/decimal.c:32`),
  which is 0 in `README.md`;
* the parser refuses `true` at the very end of a text (`lib/writer/parse.c:353`, `>=` where
  `false` and `null` have `>`), and passes on numbers that lack digits, such as `-` or `1.`;
* `posix_fallocate` is compared with -1 and never returns it (`lib/writer/buffer.c:108`):
  on a full disk the buffer is used and the process is killed;
* undefined is written as 0x04 (`lib/writer/constants.c:32`), as `README.md` says, and read
  as 0x05 (`lib/reader.c:28`), so that the reader calls it an `unsupported_data_type`;
* the byte counter adds to `*result_size`, which its caller has to set to 0
  (`lib/io.c:283-293`).

## 4. Proofs

TLC checks the formulas on the instances above; the theorems hold for every value of the
constants that satisfies the assumptions in the modules.

* **`WriterProofs`**: `TypeCorrect` (`TypeOK`), `ChainOfContainers`
  (`ContainersNested`), `NoAssertionFails` (`AssertionsHold`), `OnlyCompleteWritten`
  (`WritesCompleteOnly`).  The inductive invariant is `TypeOK /\ ContainersNested`: that
  the offsets on the stack grow, that each is a container's header, and that
  `expect_after_value` is what the innermost header asks for, is just what an end
  call needs to restore these for the container outside.  `AssertionsHold` follows
  from it, and so does `WritesCompleteOnly`: a spool of the root's size and an empty stack
  leave only `expect = none`.  Assumed: texts are sequences of naturals, `SizeMax` is a
  natural number, a byte of the spool's longest contents may be emitted as eight
  (`8 * MaxSpool <= SizeMax`), `MaxStack` is a natural number, and a decimal has at least one
  byte and a size of any value; `Hash` is any function.
* **`WriterDocumentProofs`**: `WriterBuildsDocument` (`BuildsDocument`) and
  `CallsFollowDocument` (`FollowsDocument`): a document of any size, built by any sequence of
  calls of which any push may fail, is the tree that the calls say.  Both, and the two
  theorems below, have the hypothesis `CountedRight`: the size in front of a decimal is that
  of the decimal.  It is needed, as the mapping finds the item behind a decimal by that
  size, like the code; it holds of texts with less than 19 characters of digits and point in
  their significand and in an exponent that is pushed alone (`SizeCounted` checks it on
  them), and of many longer texts it does not (`decimal_count`).  The theorems of
  `WriterProofs` do not need it, since the headers of containers are found without it.
  The mapping reads the
  tree back by two recursive functions, one along the items of a container and one over the
  values on the spool.  The first lemmas show that these exist (each value refers only to
  offsets behind its own, so the functions can be built from the end of the spool), that
  items tile the cells of their container (`ItemsTile`), and that what they say depends on no
  cells but those of the value itself (`ValueAgree`): a push behind a value and a size
  filled in around it change nothing.  The next ones say what a value, a key or an empty
  container behind the last item does to one container (`FramePlaced`, `FrameKeyed`,
  `FrameEmpty`) and to the chain of open ones (`InnermostReplaced`, `InnermostPushed`,
  `InnermostPopped`).  The invariant `DInv` adds to `IInv` that while the document can take
  more, every open container is filled with whole items up to the type byte of the next one,
  with a key in front of that byte in an object; that the innermost is so up to what is being
  added in parts; and that the root's type byte is the first cell.  It is more than
  `ContainersNested`, which says nothing of the cells between the headers.  There is one
  lemma for each call (`BeginContainerImplements` and so on).  `DocumentInvariance` is the
  invariant's own theorem.
  `SizesArePredicted` (`SizePredicted`) says that what `*_output_size` computes when a
  container is ended, and what its header is given, is how many bytes `*_write` later sends
  for it, whatever the order of its keys.  The size that is predicted leaves out the entry of
  the item that will be written last, and chooses the widths of counts and offsets from
  what remains; the emission sorts the items first and computes the entries one by one.
  The two agree since sorting permutes the items and the item called `highest` is the
  last one in that order (`HighestIsLast`).  The
  invariant cannot be about the spool as it is: cells behind a value will still be pushed,
  and headers around it filled in.  So `WellSized` is about every spool that agrees with this
  one on the cells of the value, and `DInv` has (`Held`, `Finished`) that every item of an open
  container is well-sized, whichever call comes next.  An end call makes the container itself
  well-sized (`ContainerSized`).  Each cell is emitted as eight bytes at most
  (`ArrayRoom`, `ObjectRoom`), so no sum wraps and a size is stored as it is; that is where
  `8 * MaxSpool <= SizeMax` of `WriterAssumption` is used, which says that a spool is
  nowhere near the size of the address space.  The hypothesis `HashIsNumber` is that the hash
  of a key is a natural number; two keys may have the same one.
* **`SpoolProofs`** holds the lemmas for this: that the items of a container exist and
  tile its cells, that a sum of weights does not depend on their order, that the order of
  keys is a strict one and the sorted items are unique, that the function `Emitted` exists and what
  it sends has the length that the widths of header, index and items say.
* **`PartsProofs`**: `RoomForContents` (`TypeOK`), `NothingIsLeaked` (`NothingLeaked`),
  `OnlyFullDiskKills` (`KilledOnlyByFullDisk`), and `BufferIsAStack` (`IsAStack`): a
  buffer of any size implements `Stack`.  The invariant says for each step of
  `ensure_space` that the size it has chosen suffices, what the process holds at that
  moment, and that the mapped pages are there unless the disk was full.  Each step is
  then a push, a failed push or a stutter of `Stack`, since a move keeps the contents.
  `AcceptsExactlyUtf8` (`AcceptsUtf8`) and `NeverInsideCharacter`
  (`BetweenCharacters`), for strings of any length.  The reference is a division of
  the string into characters by cuts; the invariant says that what has been passed over
  is divided, and that every division of the whole string has a cut at `s`, since
  a character is not the beginning of another one.
  `EveryPartInside` (`PartsInside`) is about the reader of decimals, for values of any bytes.  The
  invariant `ReaderInv` says that mantissa and exponent divide what is behind the length,
  and that `word_start` is a whole number of words behind the start of the part being
  printed, which is why a step back by one word never leaves it.  The lemmas are about
  the rounding of a part's end to a word's start.  Assumed (`DecimalValuesAssumption`):
  values are sequences of naturals, with a width of the type byte's two bits.
  `ParserOnlyAddsItsValue` (`OnlyAddsItsValue`), for every text and
  whatever was open before the call.  The invariant `ParserInv` says that the writer has
  open what was open before and `nesting` more, and one that is not yet counted between the
  call that begins a container and the count, so that there may be one more, too, when the
  parser has returned; that the innermost container from before is
  as it was, or has one value more when the nesting is over; and that a key is only read
  inside a container that the parser has opened itself.  An append that fails changes
  nothing but the answer, and keeps the invariant with the string left open.  So every `end` call meets a container of the parser's own.
  Assumed (`JsonCallsAssumption`): what is open before a call is a sequence of containers
  with a kind, items and a key; anything else about them may be as it likes.
* **`ToJsonProofs`**: `EveryValueInside` (`ValuesInside`), for documents of any bytes.  What is
  checked when a container is analysed is enough for each of its items: the lemmas go
  through the header (`highest` is what is left for the items), the index entries that are
  in order, and the last item, which has no entry.  The invariant `ConvertInv` says that
  every frame has the analysis of its value, which has found no error, and that each value
  is inside the one around it; the theorem then follows for the items that can be read at
  any time.  `OutputIsTheJson` (`OutputCorrect`): what the callback has been given is a
  beginning of the document's JSON.  That JSON is a recursive function over all parts of
  the document (`Jsons`); it exists because an item is smaller than its container
  (`JsonsExist`), also when the index of the container is nonsense.  `OutputCorrect` says
  nothing about what is still open, so the invariant `JsonInv` adds this: while the conversion
  goes on, the output, the JSON of the value that is next and what is left of the open
  containers, innermost first (`ToCome`), make up the JSON of the document.  Every
  call of the callback takes a piece off the front of `ToCome`: a scalar, a bracket, or
  a comma and a key (`NextInRest`); beginning a container cuts its value in two
  (`AfterPushed`).  A callback that fails has taken a beginning of the piece (`PrefixOfPart`), and
  where something cannot be read, `ToCome` begins with the mark of that error.
  Assumed (`DocumentsAssumption`): documents are sequences of naturals.
* **`KeyLookupProofs`**: `BracketKept` (`Bracket`) and `AnswersAreCorrect`
  (`AnswerCorrect`) for objects of any size and hashes of any width.  The invariant
  `KInv` adds to them that the items are sorted, the order of the bracket's ends and
  that the hash looked up lies between theirs, so that a guess is never below the bracket;
  that it is a natural number needs the assumption that long doubles reach far enough
  (`LongDoubleAssumption`).
  `GuessesAreBounded` (`GuessesBounded`) is about their number.  The invariant `GuessInv`
  says that what is left of the bracket is halved by each bisection, so that there are no
  more of them than a count has digits, and that the upper end has the largest hash only as
  long as it has not moved.  The lemmas bound the two roundings: a product loses less than
  one part in `Mantissa` (`LongDoubleNear`), and the quotient is rounded up to a whole number
  only from nearby (`FloorQuotientAtMost`), so that a guess never passes the bracket's end, and
  reaches it only when the hash is the upper one or next to it.  That needs
  `MantissaAssumption`: a hash is exact as a long double, and so is twice a count.  It holds
  on x86-64; where a long double is a double it does not, and this theorem says nothing.
  `RangesAreCorrect` (`RangeCorrect`) is the same for a range.  The invariant
  `RangeInv` adds to `KInv` where the two bounds are in each phase: one at an item with
  the key, the other beyond the end of the range.  That a table is sorted makes everything
  between two items with the key have it (`Between`); how far a step jumps does not matter.
* **`OutputsProofs`**: `NothingIsLost` (`NothingLost`), `SuccessMeansComplete`
  (`SuccessIsComplete`) and `OnlyOneRefusal` (`RefusedOnce`), for buffers, pipes and
  inputs of any size.  The invariant `IInv` ties what is counted as written to the place
  in the program (the counter runs ahead in the loops that send) and says that the buffer
  is empty once writev has taken it; `PollInv` says that there still is the room that
  poll has seen.  The lemmas are about cutting sequences that are joined.
  `BufferHasRoom` (`TypeOK`) needs that the size is the first one doubled some times and that
  the limit is such a number, too, so that what is less than the limit is at most half of it
  (`GrownSize`).
  `EveryOutputIsComplete` (`OutputsComplete`) is about all targets: its
  invariant `OutputInv`, beside `IInv`, says that a block holds as much of what was passed
  as there is room for, and that what is held when a call returns is what the caller has.

Only model-checked: `ReadsBack`, which compares what a function that walks the spool and
one that walks a document make of all of it; what decimals mean, whose
digits are folds and powers of ten; what texts mean (`AcceptsJson`, `DocumentSaysText`,
`StringComesBack`), which is defined by folds.  Induction over numbers goes through a least
counterexample (`LeastNumber` and `SetInduction` in `NumberLemmas`, from the
well-foundedness of finite sets), that 2^n doubles comes from counting subsets, and of the
recursive functions of `Spool`, `WriterDocument` and `ToJson` the existence is proved first; nothing like it is
there for the folds of the community modules, whose definitions take operators as
parameters.  Liveness (`EveryCallReturns`, `EveryOutputEnds`, `RangeAnswered`) and `ENABLED`
are beyond the prover.  The one RECURSIVE operator, what a value says in tokens, is in
`JsonMeaning`, which no theorem needs; elsewhere recursion is written as functions and folds.

## 5. Not modelled

* The hash function (`lib/rapidhash.h`), which is vendored: any function will do.
* The command line tool (`bin/bijson.c`): argument handling around calls of the library.
* The tests, which are read as documentation, and build files and debug output.
* The getters of decimals that the preprocessor leaves out (`lib/reader/decimal.c:45-224`).
* The choice of the directory of temporary files.
* Overflow of `size_t` sums when a document nears the address space, except where the code
  checks for it and in `Buffer`, `KeyRange` and `DecimalWriter`.
* Reentrancy: the library has no global state, and a writer belongs to one thread.

## 6. What could follow

A theorem that what is emitted is read back, by the same walk over the values as in
`SizesArePredicted`, with the reader's lemmas of `ToJsonProofs` on the other side; the
getters of decimals when they are compiled; larger instances of
`writer_build` with three nested containers.
