# A model of rdfsnips

rdfsnips is a handful of command line tools for RDF text.  Three of them read
Turtle: `ttl-split` cuts a file into pieces of a fixed number of statements,
`ttl-prefixify` replaces IRIs by prefixed names, `ttl-wc` counts subjects,
predicates and statements.  `metarap` reifies statements, `unqpc` decodes percent
escapes, `hashf` and `hashl` hash files and lines.  Every program is one process
and one thread; what makes them hard is that none of them has its whole input at
hand.  They scan a window of it that is refilled by reads of any length, they keep
static state from one call, and from one file, to the next, and they size their
own buffers.

This directory holds TLA+ modules that model this code, configurations with which
TLC checks them on small instances, and proofs that TLAPS checks for every
instance.  `PROJECT.json` relates each definition to the lines it models.

## Inventory

| component | state | operations | hard parts |
|---|---|---|---|
| reader and scanner: `split1`/`count1`, `proc`, `escapedp` (ttl-split.c 95-107, 230-397; the same text in ttl-prefixify.c, with two more stop characters in ttl-wc.c) | the buffer, its size and fill; `proc`'s `sp`, `tp`, `st`, which do not outlive a call | read, scan step, grow, move to the front, last try, finish | the cuts between reads, room for the NUL, growing, failing reads and growth |
| piece writer of ttl-split: `wr_stmt` (121-227), `wr_buf`, `resz` | static: buffer, directive cache, `istmt`, `cstmt`, `cfd` | put a statement or a directive, finish an input | sizes of two buffers that seed each other, state that outlives the input, dropped results |
| size rounding: `next_2pow` | none | | width of the word |
| main of ttl-split: scanner and writer together (230-432) | the inputs | open, split, give up, go on to the next FILE | one input's state next to the program's; the writer keeps its own position over reads and growths |
| counters and main of ttl-wc | static counters, totals, `rc` | open, count, print, total | counting what is scanned twice, files that do not open |
| prefix table, substitution and writer of ttl-prefixify | static tables, buffer, standard output | `add_prefix`, `subst`, `wr_stmt` | growth, redefinition, in-place substitution, descriptors over several files |
| metarap: filter, names, hash, output | terms and pairs of the filter, string of names, slots of coordinates, text buffer | `flts`, `nmsp`, `nscp`, `prnt`, `main` | growth rules that look at a count, lookup by first hit, order of the parser's callbacks |
| unqpc: `fold1`, `haspc`, `kilpc` | a line | decode once or repeatedly, in place | termination; what a sequence is is written down twice |
| hashf | the FILEs to come, a buffer, the state of a stream on the stack | open, read, stride, update, digest | short and failing reads, strides, what is left in the state |
| hashl | a line | hash each line | |
| xxHash (xxhash.h) | the state of a stream: buffer, accumulators, secret | reset, update, digest, one-shot hashes | ends of buffer, stripe and block; one algorithm written down for six vector units |
| yuck, clitoris, build system | | | build time, not modelled |

How they interact: `main` calls `split1` for one FILE after the other; `split1`
calls `proc` for each filling of the buffer; `proc` calls `wr_stmt` for each
statement, with a pointer into that buffer; at the end of an input `proc(NULL, 0)`
calls `wr_stmt(NULL, 0)`, the flushing instruction.  The only state that the
callee keeps is static, so it is shared by all files of one run.

What makes the components correct:

* scanner: the statements handed on are those of the text, in order, whatever the
  reads; no character is lost, repeated or reordered; a read always has room; memory
  follows the longest statement, not the input; it ends.
* writer: each statement is in exactly one piece, in order; pieces hold N statements;
  each is preceded by the directives before it; no write leaves its buffer.
* ttl-wc: the row of a file has the counts of that file.
* ttl-prefixify: the output means what the input means, for every file.
* metarap: every statement that a filter selects is reified once, with the namespaces
  its output needs.
* unqpc, hashl: the result is a function of the line.
* hashf: the result is a function of the file and the stride, and the streamed hash is the
  hash of the bytes in one go.
* xxHash: all its forms of one function are the same function.

## Modules

* `TtlLex` is a reference lexer of a whole text, one character at a time, and the
  statements it delimits.  It models no code; it says what the scanner is for.
* `StmtStream` is the promise of the scanner: emit the statements of the text in
  order, then close.
* `TtlScan` is `split1` with `proc`.  One action is one pass of the read loop
  (`Read`, `Eof`, `Grow`, `GrowFail`, `ReadMore`, `Compact`, `LastReturn`, `Fini`)
  or one pass of the scan loop (`Scan`, with an operator per case of the switch:
  `Dot`, `OpenAngle`, `OpenQuote`, ...).  `buf` is `buf[0..bix)`, positions count
  from 1, `sp`, `tp`, `st` are the code's.  `Found(p)` is what `strpbrk`, `strchr` or
  `strstr` from `tp` returns.  Skipping white space belongs to the step before it, as
  in the code.  A statement is identified by its text, so that nothing that is lost or
  cut short can go unnoticed.
  `failed` remembers that a read or a growth failed; it is a history variable.
* `SplitPieces` is the promise of the writer: pieces of `nstmt` statements, each
  beginning with the directives so far.
* `SplitWriter` is `wr_stmt`, from the branch that opens a piece to the one that
  concludes it, step by step as `pc` says: `enter`, `cache`, `room`, `resize`, `put`.
  Statements are items with a size; `bix`, `dix`, `bsz`, `dsz` are numbers of bytes as
  in the code, and the contents of the buffers are sequences of items.  The name of a
  piece is its number, so `cstmt` is `Len(file)`.  A write past the end of a buffer
  has no defined outcome; it ends the run in `wild_dir` or `wild_buf`.  (A buffer
  grown to less than a page has a page all the same, but the cache is only grown when
  it is beyond a size that is a page at least, so a size that is too small always is
  too small in memory as well.)
* `TtlSplit` composes the two at the level of characters: `HandOn` is the `Dot` of the
  scanner and the `Call` of the writer in one step, then the writer runs to its end
  (`Write`) while the scanner waits; `FiniProc` and `GiveUp` end an input for both;
  `main` goes on to the next one.
* `Next2Pow` is `next_2pow` on a word of any width.  What it promises is stated as the
  ASSUMEs `LeastPower` and `Closed` of `MCSplitWriter`, which TLC evaluates.
* `TtlWc` extends `TtlScan` with the counters, `main` and `pr_counts`.
* `PrefixSubst` is `subst`, in place, on the memory from where the statement was copied to
  the end of the buffer (`Loaded`): `Searched` is its loop, place by place, over that memory.
  Next to it stands what it is for, `Substituted`, on the text alone: `SubstitutedFrom(k)` is
  what the text is from its k-th character on, once rewritten.
* `TtlPrefixify` is `wr_stmt` with `add_prefix`.  `pc` says where in the call it is: `push`
  (the declarations at the beginning of an empty buffer), `prefix`, `room`, `put`.  `cap` is
  what the table really has room for, `zpres` what the code believes; `lost` and `gone` are
  history: calls given up for want of memory, lines written to nowhere.
* `Unqpc` is `fold1` with `haspc` and `kilpc`; a step is one character of `kilpc`.  What
  decoding is, is said of the line as it came (`DecodedFrom`).
* `Words` is unsigned arithmetic on scaled-down words, for metarap's growth rules and for
  the hashes.
* `RplcTable` is the string of names of metarap (`XMemMem` is `xmemmem`, `FindRplc`,
  `AddRplc`, `RplcRoom`); `Metarap` is the program: one action for each handler that
  raptor calls (`ReadFilter` is `flts` or `nmsp`, `ReadInput` is `nscp` or `prnt`) and for
  each step of `main`.  Raptor is external: it calls the handlers in the order of the file,
  and may give up at any of them.  `beefs[i]` is a sequence of pairs, so that `nbeefs[i]` is
  twice its length; the same goes for `cord` and `cake`, which are one sequence `ent`.
  `far` is set by a write past the end of an array and stops the program.
* `Murmur3` is `MurmurHash3_x64_128`, of which metarap and hashl have a copy each, with
  the name that metarap makes of the hash and the loop of hashl over lines and FILEs.
* `Xxh3Lanes` has the inner loops of XXH3 for the scalar code, SSE2, AVX2, AVX512, NEON and
  VSX; `Xxh3` the hash of inputs with stripes, in one go and as a stream; `Xxh3Short` which
  bytes of a short input meet which of the secret, and secrets from seeds; `XxhStream` is
  XXH32 and XXH64, where what is computed with a lane is left symbolic; `XxhMemory` is byte
  order, canonical form, comparison and aligned allocation.
* `Hashf` is `main` and `hash1` of hashf on top of `Xxh3`: `pc` says where in `hash1` it is
  (`whole`, `part`, `seek`, `update`, `digest`).  `fed` is history, the bytes that were
  handed to the hash; so is `foreign`, whether the state on the stack had the seed by chance.
* `MCTtlScan`, `MCSplitWriter`, `MCTtlSplit`, `MCTtlWc`, `MCTtlPrefixify`, `MCUnqpc`,
  `MCMetarap`, `MCHashf` give the inputs for TLC.
* `TtlScanProofs`, `SplitWriterProofs`, `TtlSplitProofs`, `TtlWcProofs`, `TtlPrefixifyProofs`,
  `UnqpcProofs`, `MetarapProofs` and `HashfProofs` hold the theorems, each on the module it is
  named after.

Definitions whose comment begins with "Mutant" are no part of a specification.
Each is a definition with a plausible mistake, and for each checked property one of
them breaks it.

## Runs

| run | question | result |
|---|---|---|
| `scan` | Do literals, escapes, IRIs, comments and white space, cut by any reads, lead to the statements of the text? What remains of it when reads and growth fail? Is the buffer a window of the input, always with room to read, and grown only for long statements? Is the last try of use? Does the scan end? | it implements `StmtStream`, up to the point of a failure; the buffer is that window; the last try never finds anything; it ends |
| `split_one_input` | Does the writer keep its promise for one input, whatever the sizes, and what is left of it when opening, mapping, writing or the reader fails? | it implements `SplitPieces`, up to an overrun of the cache, and until a failure drops something; the buffer is overrun only by a cache with a directive for which the buffer could not be grown |
| `split_files` | Scanner and writer together, over two files, with failures on either side: do reads, growths or flushes show in the pieces? | for the first file they do not, its pieces are a function of its text; over both, the calls for an input are the statements of its text, the pieces hold those handed on and not dropped, once and in order, after their directives, and no piece is too long; it ends |
| `wc_files` | Which counts can be trusted, over two files, some missing? | subjects always, the others when the file came in one read; nothing is ever missed; it ends |
| `prefixify` | Is what is substituted right, declared, and of the meaning that it had? Do statements come once and in order, within the bounds of buffer and table? | yes, with the exceptions below |
| `unqpc` | Is decoding in place decoding? Does `--recursive` end, and leave nothing? | yes |
| `metarap` | Do the tables grow in time, whatever the filter? Does a slot have the objects of one name? Is the output each selected statement once, reified, with the filter's metadata as of there? | yes, with the exceptions below |
| `hashf` | Is the streamed hash that of the bytes in one go, whatever the reads and whatever was on the stack? Are the right parts hashed, within the bounds? Does it end although reads fail? | yes; and the functions of xxHash agree with one another |

Four runs show a disagreement between what the repository says and what the code does:

| run | what TLC finds |
|---|---|
| `split_many_directives` | ttl-split.c:177 resizes the cache to the new directive's size and forgets what is in it; the write at :183 ends behind the cache |
| `split_two_inputs` | `istmt` survives `fini_stmt`, so that the first piece of the next input has fewer than N statements |
| `wc_double_count` | `;` and `,` of a statement that is cut by two reads are counted by both scans of it |
| `metarap_part_of_name` | after `<@ab>` in the filter, `<@b:x>` is not found when the input declares `b`: `find_rplc` looks at the first hit alone (metarap.c:357-359), which is the b of ab, and the object never comes; `<@rdfs>` and then `<@rdf>` are such names |

The properties of the passing runs are stated as far as they hold.  What they leave out
on purpose, because the code does otherwise:

* a file that does not open: its row in ttl-wc repeats the counts of the file before;
* ttl-prefixify with several files: `fini_stmt` closes standard output, so nothing of the
  later ones is written (in `OnceAndInOrder` their lines are `gone`); and once the table has
  grown in an earlier input, a later one may write behind it (`zpres` is not reset); a write
  behind the buffer ends the run in `wild_buf`, of which `OnceAndInOrder` says nothing;
* a name with two URIs, or a default name with another one, keeps its first URI, and the
  statements after it change their meaning (`Undisputed` in `NamesKept`);
* a prefix longer than its URI (`nnn:` for `#`) overwrites what is still to be moved, so that `<#xy>.`
  becomes `nnn:n::` (ttl-prefixify.c:170-175), not what ttl-prefixify.yuck:3 promises; the premise `Short` in `InPlaceExact`
  leaves it out, and `LongNameOverwrites` evaluates it: it takes a statement and no run;
* a known URI that is opened in a literal but never closed makes `subst` drop the
  statement (`Closed` in `InPlaceExact`);
* two failed allocations: the first may drop a directive whose prefix is in the table
  already, which is made good by declaring the whole table anew, unless the second cuts
  that short (`Survivable` in `Declared`, `NamesKept`);
* a buffer of ttl-split that could not be grown for a directive that is in the cache already
  may be overrun when the next piece is seeded with it (`CacheMeasured` in `BufNeverOverrun`);
* a directive behind a comment does not begin with @ for `wr_stmt` (ttl-split.c:172, and the
  same in the other two programs): it is a statement and not cached; `IsDirective` sees it as
  the code does;
* a name of metarap's filter that lies in one that was mentioned before it is never found, nor is
  the empty one, and their objects never come: `MetadataExact` leaves out filters with such
  a name (`NamesFound`), and `EveryPrefixServed` is the promise that they break; a name
  longer than the table of slots skips more slots than one growth adds (`Short` in
  `TablesInBounds`, 504 characters in the code); and a name with an @ of its own, which Turtle
  permits in an IRI, is found behind that @ as if it had a slot there, possibly beyond the
  slots there are (`NamesPlain` in `TablesInBounds`, `SlotsNamed` and `MetadataExact`); strings of
  raptor have a length, and a name with a NUL ends there when it is read back (`NamesEnd` in
  `SlotsNamed` and `MetadataExact`);
* `hash1` of hashf reads one byte of each buffer where it has no stride (hashf.c:92), so its
  hash then depends on the reads; `PartsHashed` says what is hashed when all reads are full;
* a state on the stack that by chance has the seed of the file keeps whatever secret it has
  (`foreign` in `StreamExact`);
* `--only-printable` of unqpc keeps %FE and %FF only where `haspc` finds nothing else
  (`NothingLeft` is about the other case).

### Bounds

* Texts of `scan`: every sequence of at most five tokens of literals, or four of markup,
  chosen so that each case of the scan loop and each of its cuts occurs (`"""` is one
  token, next to `"`).  The scanner has no memory beyond `sp`, `tp` and `st`, and the
  longest construction it looks at has three characters.  Texts of `split_files` and
  `wc_files`: at most three tokens for each of two files, and for `split_files` two longer
  ones, a directive that outgrows all buffers and a file without an end.
* The static buffers of the readers are 2 to 4 bytes and those of the writers 8 (ttl-split)
  and 32 (ttl-prefixify), in place of 4096, so that short texts fill, grow and overrun
  them.  In `wc_files` three bytes make it through one read, so that there are whole files
  for `OneReadExact` as well as cut ones.  Nothing in the code depends on the numbers but that
  the writers' are powers of two.
* Reads return every number of bytes from 1 to the room there is.  Files return all
  there is, pipes and terminals less.
* Calls of ttl-split's writer: six for one input, of a short and a long statement and a short
  and a long directive, so that the cache outgrows the buffer and a piece begins after it; N
  is 2.  In `split_files` the texts are the bound: no two of them have more statements than
  `MaxCalls`.
* Calls of ttl-prefixify's writer: four over two inputs, of two statements with IRIs, a
  literal, two new prefixes, one of which any buffer must be grown for, and a default name
  with another URI.  One default prefix stands for four, a table of two entries for 64.
  `Longest` is 34, the length of the longest of them; sizes are words of 16 bits.
  Writes to an open standard output do not fail in this run; `split_files` has that for the
  same `wr_buf`.
* Lines of unqpc: up to six characters, long enough for two sequences, or one in another;
  over two alphabets of a percent sign and three digits, for nested sequences and for
  the ones that `--only-printable` tells apart.
* Filters and inputs of metarap: three statements or namespaces each.  For `metarap` a filter has
  nine kinds of them: plain objects, names with and without a suffix, one that is a part of another,
  ones that take several slots, one with an @ of its own, and the empty one.  Tables begin with one or two entries and
  words have two bytes, so that each table grows within three statements, a slot's pairs
  included (three pairs are more than the first four numbers have room for).  For
  `metarap_part_of_name` the names are ab and b, and the input declares both, so that nothing but the
  place of b in ab can keep an object away.
* Files of hashf: 0, 31, 33, 100 and 200 bytes where a part has 32 and the buffer 64, so that
  a file ends before, behind and between parts and buffers; strides below, of and above a
  part, relative ones, and none (0 and 0%); one read that is short or fails.  A
  second hiccup would meet the same state as the first, which ends the collecting of parts.
* Words of hashes have 8 bits for 64, bytes 4 for 8, a stripe 16 bytes for 64, the secret 32
  for 192: all proportions that the code relies on are kept (stripes to a block, buffer of
  whole stripes, secret longer than a stripe).  Shifts and constants are scaled likewise.

### Assumptions that TLC evaluates

Functions without state are compared with what they are for by ASSUMEs of the MC modules,
over all values or a list of them:

* `MCSplitWriter`: `LeastPower`, `Closed` (next_2pow, on words of 8 bits smeared over 4, for
  64 bits smeared over 32);
* `MCTtlPrefixify`: `LongNameOverwrites` (what becomes of a statement if a prefix is longer than its
  URI, which `InPlaceExact` leaves out);
* `MCMetarap`: `SearchAssumption` (`xmemmem` is a search, although it compares sums and
  leaves the last character out), `HashAssumption` (every byte of a text counts in its
  hash, a tail is hashed as if padded, the name has the whole hash, a missing newline at the
  end does not matter to hashl);
* `MCHashf`: `LanesAssumption` (all vector units compute what the scalar code does),
  `ProductAssumption` (the product by halves), `StreamAssumption` (streams of 64 and 128 bits,
  cut into three anywhere around stripe, buffer and block, with several secrets, hash like
  their bytes), `OldAssumption` (the same for XXH32 and XXH64 with symbolic rounds, also where
  the length wraps, and the two forms of the finalisation), `MemoryAssumption` (all ways
  to read a word, canonical order, alignment), `BriefAssumption` (short inputs: no byte is left
  out, none of the secret is used twice, a seed of any length is repeated).

The others say what the constants are, and are what the theorems start from:

* `TtlScan`: `CapAssumption` (a buffer of two bytes at least), `TextsAssumption`, `NoNul`,
  `SepsAssumption`, `FaultAssumption`; `TtlWc`: `StopsAssumption` (its `proc` stops at `;`
  and `,` as well), `FilesAssumption`; `TtlSplit`: `NoSeparators` and `WriterAssumption`, which says
  that the writer inside it has the constants the writer needs;
* `SplitWriter`: `StmtAssumption`, `BoundAssumption`, `FaultAssumption`, and `Pow2Assumption`, all
  that is used of `next_2pow`: the result is at least the argument, and what is a result is one of
  its own;
* `TtlPrefixify`: `StmtAssumption` (statements are not empty and no longer than `Longest`),
  `TableAssumption` (the default prefixes fit the static table), `BoundsAssumption`,
  `NamesAssumption` (their names differ and have no colon, as those of `dflt_pres` do,
  ttl-prefixify.c:71-76),
  `RoundingAssumption` (rounding up does round up, for sizes that the bounds permit),
  `DefaultsFit` (the declarations of the default prefixes fit the static buffer);
* `Unqpc`: `LinesAssumption`; `Metarap`: `MetarapAssumption`, `EventAssumption` (what an event
  is), `ByteAssumption` (characters are bytes, as the sums of `xmemmem` want them, and a prefix, a C
  string to the parser, has no NUL); `RplcTable`: `WordAssumption` (a word has more than one byte); `Hashf`: `HashfAssumption`.

### Fairness

`TtlScan`, `TtlWc` and `TtlSplit` assume that the program takes a step when it can (weak
fairness of the next-state relation): one process, and reads that return eventually.  An input
that never ends or never answers is outside of `Terminates`.  `Unqpc` assumes it of `Step`,
what the program does with a line, and not of `Getline`, which may wait for ever.  `Hashf`
assumes the same of the program in the form `[]<>(pc = "done") \/ []<><<Next>>_vars`: a step of
`Next` is possible until it is done, so that this is weak fairness, but TLC need not compute a hash to
find out whether it is.  A read that fails is a read that returns.  `Metarap` has no fairness: it goes
on as long as its input does.  The
writers have no fairness of their own: they are called.

## Proofs

The theorems hold for every value of the constants that the assumptions above permit: any texts
or calls, any number of them, any sizes of the buffers, any way to cut the input, and any
failure that the constants let happen.  All of them go through an inductive invariant of their
module; `PROJECT.json` lists the theorems with the properties that they state.

**The scanner** (`TtlScanProofs`).  `ReaderInv` carries `TypeOK`, `Contiguous` and `RoomToRead`,
with the fact that the NUL always fits and that what is in the buffer has been read.
Without the first, growing and moving would not make room: after a read the buffer may be full,
and it is the choice between growing, reading on and moving, made on what `proc` returns,
that makes room again.  The scan loop is one lemma: a token that is found advances the search
and stays in the buffer, for which the two characters the code looks ahead are needed.

That the statements are those of the text, `StatementsOfTheText`, is `StreamInv`, and it is
about where the searches stop.  There, and only there, `st` can be compared with the mode
that the lexer of the whole text is in (`Tracking`): "free" is the lexer's free mode, or that
after two quotes which no third follows.  In between, a stretch without a stop character leaves the
mode as it is (the `Run` lemmas).  `Starts` says that a statement begins outside of every token,
behind the white space, `Tally` that as many statements have been handed on as end before `sp`
and that none ends between `sp` and `tp`; before the next read, none is left in the buffer
(`NothingLeft`).  `Through` says that a reader which has not failed stops at the end of the text.
Then the n-th statement handed on is the n-th of the text (`NthStatement`), and each
step of the scanner is a step of `StmtStream` or none.  Two more properties follow from the same
invariant: the last try of `proc` finds nothing (`LastTryIsMoot`), and a buffer that has
grown is at most twice the longest stretch of the text without an end of a statement
(`GrownForAStatement`): a full buffer with `sp` at its beginning has no end in it.

**The writer of ttl-split** (`SplitWriterProofs`).  The buffer is seeded with the cache without a
check, so `SizeInv`, for `BufferSafe`, is about both: the cache has at most the room of the
buffer, except between the resizing of one and the measuring of the other, where it may have the
size that the buffer is about to be given or exceed.  Of `next_2pow` the proof needs only
`Pow2Assumption`, which the ASSUMEs `LeastPower` and `Closed` check.  Nothing is assumed
of what fails.  What a failure does to the sizes is that a directive may be in the cache and its
room in the buffer not had; it is then dropped, and `CacheMeasured` says so.  Hence the
second part, `DirectiveCached`: whatever directive is dropped for want of a buffer is in the
cache.

`PiecesInv` adds what is written.  It is stated of the pieces as they would be if the buffer
were flushed now (`Made`), so that a flush, which moves items from the buffer to a file, changes
nothing.  Statements in them carry increasing numbers, are those that were handed on under
these numbers (`InOrder`, `Genuine`), and none but the current one that is not dropped is missing
(`Kept`); the directives of this input are all in the cache, and in the piece or in the buffer that
will seed it (`DirectivesHeld`), which is why a piece reads alone; a piece has at most `istmt`
statements while it is open (`Counted`).  `WritesThePieces` proves the refinement of
`SplitPieces` for one input, up to the first failure: until then the buffer that will seed
the next piece is the cache (`MapInv`).  With a second input it is not one, as
`split_two_inputs` shows, hence `MaxInputs = 1`.

**ttl-split** (`TtlSplitProofs`) takes both invariants.  Each step of the program is a step of
the scanner or none, and of the writer or none, so that the theorems of the two hold in it, and
nothing that the one does shows in the other.  What is between them is `CallsInv`: the calls so far are,
input by input, the statements of the texts, and for the current one those the scanner
has found.  With `Genuine` of the writer this is `SplitFromTextToPiece`, from the text to the pieces:
the n-th call for an input is the n-th statement of its text, none is left out unless the
reader has failed, and every statement in a piece is what a call handed over.

`FirstFilePieces` is the whole of it for the first file: its pieces, directives and all and cut where
they are to be cut, are `PiecesOf` its text.  `SeenStep` says of each step of the writer what it does to the pieces,
the directives and the count, for this theorem and for `WritesThePieces`.  The invariant `FillInv`: there
is a function like the one in `PiecesOf`, over the calls that are through (`IsFilling`), and the
writer is where its last value says (`Fits`), except that a piece may have been opened for the
call that is running.  Each call that ends makes it one longer, so no induction is needed to show that it
exists, only to show that there is no other one (`FillingsAgree`).  At the end the calls are
the statements of the text, from `CallsInv`.  It holds for any `nstmt`, zero included, for which
every statement and directive has a piece of its own; the model said otherwise of that
case, which no run has, until this proof.

**ttl-wc** (`TtlWcProofs`).  `HandedInv`, from the scanner's proofs, says what the statements
handed on are; `WcInv` adds the counters.  Between two reads what has been passed over is counted
at least once, and exactly once as long as there was one read (`Counting`): what is left
in the buffer is scanned again, and its separators counted again.  At the end nothing is left
that has not been passed over, and the rows hold these numbers (`RowsRight`).  Three of the theorems
have the hypothesis `Faults = {}`, as the run has: a file of which a read fails is
counted as far as it was read, and the row says nothing of it.  `WcTypesHold` needs no such thing.

**unqpc** (`UnqpcProofs`).  `DecodeInv`: `kilpc` writes over what it has read and nothing else, so
the part still to be read is as it came; what is written, followed by what is still to be decoded
(`DecodedFrom`), is the decoded line.  Either something has been shortened by then or there is a sequence
ahead (`Shrinks`), so that a round which begins with a sequence ends with a shorter line (`RoundsEnd`),
and the rounds of `--recursive` come to an end.  `NothingLeft` is that a line is written
only when `haspc` finds nothing.

**ttl-prefixify** (`TtlPrefixifyProofs`).  `SubstitutesInPlace` is about `subst` alone, any statement,
table and room: the memory begins with the substituted text.  The invariant of its loop (`Found`): the part that is
settled, and then what becomes of the rest of the text from the end of the last one on, is
`Substituted` of it all; `pp` never overtakes `cp` because a prefix and its colon
are no longer than `<` and the URI they are for, which is the premise of the theorem and the reason for what
`LongNameOverwrites` shows.  `RewritesExactly` is its use in the program.
`TypeInv` says what the sizes are, for `TypeCorrect`: an argument of `next_2pow` is one of those
that `RoundingAssumption` speaks of, and at `put` there is room for the statement.
`BoundsInv`, for `StaysInBounds`: the table has at most the room that is believed in, and just that
room in the first input; and as long as no call is given up, an empty buffer goes with the default
prefixes alone, which fit the static buffer.  That is what the missing check of the code rests
on, as declarations are pushed to an empty buffer without one.  `OrderInv`, for
`EachOnceAndInOrder`, is about the lines written, the lines that wait and the calls that are over,
lost or gone.

What a name stands for is a property of the lines: a binding is in force after some of them if
one says it and none behind that declares its name (`InEffect`).  `ForceInv`, for
`DeclaredBeforeUse`: while nothing is missing, every entry of the table is in force at the end of the stream, with three
exceptions that follow the program.  An empty buffer has none of them in force (`bix` is 0), which is why the
table is pushed; while it is pushed, those up to `pi` are, because no two entries have the same name
(`Distinct`, from `NamesAssumption` and from `add_prefix` looking a name up before it adds it) and a declaration
declares its entry (`DeclarationDeclares`, from the characters of it); and between `add_prefix` and the copy of
the directive its own entry is not (`HoldBut`).  The table that goes with a statement is in force before it
because it is in force when the statement is put.  The premise `Survivable` is needed at one
step, the push that fails: it cannot be the first call that is given up (`PushFailsLate`), for
until then the table is the default one and fits.  `KeptInv`, for `NamesKeepTheirMeaning`: each
binding in the lines and in the table is a default one or comes from a directive, and for the directive of each
call that is over and was not given up some line declares its name, before any statement that
comes after it.  If all these bindings are one (`Undisputed`), the last such line says it (`LastTouch`).

**metarap** (`MetarapProofs`).  `RoomForName`: the check of `add_rplc` (metarap.c:373) leaves the @
out and asks for one word in place of the padding, which is one byte short if the padding is a
whole word; it is enough all the same, because the length of what is there, the room and the result are
multiples of a word, and a multiple that is less than a word above the room is not above
it (`NextMultiple`).  `CoordsSafe`: the coordinates that `flts` hands out before the pair is
complete are those of a pair for ever after, and the terms are distinct (`CoordInv`).

`TablesSafe` is the invariant `TableInv`, table by table.  A list of pairs grows when its count and
the count plus two have no bit in common (`Disjoint`), a rule that looks at the count alone; `Roomy` says that it has
last grown at such a count g, that there is room for 2g + 4 numbers, and `NextGrowth` that the
next such count comes no later than that.  The names are whole words (`NamesFit`); there is a slot for each @,
and the next doubling is enough for a name that is short (`Cover`); the suffix kept with a
slot is the longest of its objects (`SlotFits`), so that the URIs made of it have room; the text buffer grows
before what is put into it (`BufFits`).  The recursive functions of the model (`Halved`, `Doubled`,
`Written`) are unfolded once and for all by lemmas that show that such a function exists, by
induction on a set of numbers.  `NamesFine` is the premise that names are short and have no @.

`SlotsHaveNames` needs that a search finds what is there and nothing else.  `SearchIsExact` says so of
`xmemmem`: an xor with a given byte is one-to-one (`XorCancels`, from the halves of a byte and
their bits), so that two texts with the same sum that agree in all characters but the last agree in
that as well (`LastOfSum`).  The invariant `SlotInv` then says that each name is written at its slot, between an @
and a NUL and without either in it, that an @ is only where a slot begins, and that the table ends with a
NUL.  So a hit behind an @ begins at a slot and ends where its name does (`FoundIsWritten`),
and what `add_rplc` appends is at the slot that comes next (`AddedIsWritten`).

`OutputIsExact` is `MetadataExact`, the whole output, for filters in whose names there is no @ and no
NUL, and where no name is empty or a part of one before it.  Nothing in the tables says what the filter was, so the
invariant (`FoldInv`, with `TableInv` and `SlotInv`) relates each table to the history of the filter:
* `HitInv`, the string of names: a name lies in it if it lies in one that was mentioned, and is found if it
  was mentioned and is not hidden.  That is the argument about the lookup by first hit: a hit
  never goes away and the first one stays the first, so that a name is found for good or hidden for good;
* `AboutInv`, the terms: the subjects are those of the filter's statements, each with as many pairs as
  there are statements about it;
* `EntInv` and `WaitInv`, the slots: what waits is the object of the pair that its coordinates are
  of, and an @ object waits in the slot that its name is found at, if it is, which is what a declaration
  in the input must reach;
* `PairInv`, the pairs: each has the predicate of its statement and what has become of the object
  (`Value`): a plain one is as it was, an @ object has the latest URI of its prefix, or waits if there
  is none or it is hidden.
The invariant describes hidden names too, since a filter goes on after one; only where there is none is what it
says of the output what the documentation promises (`ReadyIsPromised`, `ExpectedIs`).

An event of the filter extends these one statement at a time (`FltsFilters`, `NmspFilters`); a declaration of the input
changes all pairs that wait for it and no other; a statement of the input then appends what it should
(`PrntWrites`), and the text that is hashed is its own because the buffer is empty before and after.
That what is expected grows with the input (`ExpectedGrows`) rests on lemmas about `Kept`
and about sequences that are put together, each an induction.

**hashf** (`HashfProofs`) proves `TypeOK`, `InBounds` and `PartsFit`: what is collected between two updates,
with the part that is being read, fits into the buffer.  The code looks at that only when a part
has ended.  `PartInv` says why it may: as long as nothing fell short, what is collected is
a multiple of a part's size, as is the buffer, and after a short part no other is begun.
`StaysInBounds` is the whole of `InBounds`, for inputs of any length: no assertion of the library
fails and no copy ends past the buffer of the state, whatever was on the stack before.
`StreamFits` says why: the stripes of a block that are done are fewer than it has, and the bytes that wait are no more than
the buffer holds.  A reset makes it so, and every step of `XXH3_update` keeps it; for its loop
over whole buffers, `Buffers`, that is an induction on a set of numbers (`SetInduction`, from the
well-foundedness of `<`), and the arithmetic of what is left behind them is a lemma (`Wholes`).
`HashedAsAsked` is `PartsHashed`.  Its invariant (`OrderInv`) looks at what was hashed with what is collected
behind it (`Collected`) and says that it is the first `i` parts of the file, or one more when a
part has been read: without a hiccup a read brings a part or what is left of the file, so that a part that
is short ends where the file does (`HeadsInv`), and parts beyond the end add nothing
(`HeadsBeyond`), whatever `i` the buffer is full at.  The parts one after the other are a
recursive function of the library; that one more part is appended (`FlattenNext`) is an induction again.
`BytesInv` is the same for a file without strides.

`StreamIsExact` is `StreamExact`: the digest of a stream is the hash in one go of all bytes that were handed over.
`Digested` names what both computations pass through, the accumulators after the first n stripes of a
text, and the proof shows that each of them gets there.
* In one go (`OneGo`): whole blocks, then the stripes of the last, then the last 16 bytes again.
* `XXH3_consumeStripes` goes from n stripes to n + k, within a block (`DigestedWithin`) or across the end of one
  (`DigestedAcross`), where it scrambles in the middle of what it consumes.
* The invariant of a stream (`IsStream`): m whole buffers of the text are in the accumulators, the rest waits in the
  buffer, which is empty only if there is nothing at all, and when less than a stripe waits the end of
  the buffer still has the stripe before it (`Tail16`).  That stripe is what the digest puts together with what
  waits, and what the copy at the end of the loop over whole buffers is for (xxhash.h:4653).  `AppendedIs`, `FillIs`, `BulkIs` and
  `ConsumedIs` show that each way through `XXH3_update` keeps it, for text that grows (`DigestedSame`).
* The digest (`LongIs`) then takes the last stripe from the buffer (`DigestWhole`) or from both ends of
  it (`DigestParts`); a text that is short has not left the buffer (`DigestIs`).
* Of the program, `StreamInv`: the secret under the seed of the state is made from it or was found there
  (`SecretKnown`), which one step of `hash1`, the reset, hands on to the next file (`BeginIs`).

Sizes are those of `Xxh3`, stripes of 16 bytes and four to a block; the proofs compute with them.  What a stripe does to the
accumulators (`accumulate_512_scalar`, `scrambleAcc_scalar`) is nowhere looked at.  For the proof the loops of
`accumulate` and of `blocks` are recursive functions, which lemmas unfold by one step (`AccumulateNext`, `BlocksNext`).

Only model-checked: liveness (`Terminates`, `SplitTerminates`, `WcTerminates`, `EveryLineWritten`,
`HashfTerminates`), which is out of the prover's reach.  Every safety property that a passing run checks is
stated by a theorem.

## Not modelled

* Characters are told apart as far as the scanner does: white space is a space or a
  newline, a NUL in the input (which ends the scan of a buffer early) does not occur.
* What the scanner takes for a statement is compared with `TtlLex`, which knows the
  tokens the code knows.  Turtle has more: literals in single quotes, decimals,
  dots in names.
* In ttl-prefixify the statements come from nowhere: that the scanner of `TtlScan` hands on
  those of the text, whatever the writer does meanwhile, is checked with ttl-split, whose
  reader is the same text.  The white space that `add_prefix` skips is left out, and so is
  that the substitution takes `<` in literals for IRIs when they are closed.  Of the buffer of
  names there are its fill and its size: that the pointers of the table follow it when it is
  moved (ttl-prefixify.c:275-279) is not modelled.
* Options, messages and the layout of the output; the reduction of the exit status to
  a byte.
* raptor (librdf), which parses and serialises for metarap, is external.  Of its terms URIs and
  literals are told apart; a resource is named after the text that is hashed, as if no two
  texts had the same hash.
* In metarap, an empty name lets `find_rplc` read the byte before its string (metarap.c:359),
  which is taken for anything but an @; `\@`, which metarap.yuck:30-31 speaks of, is not in the
  code; the array on the stack of `nscp` has as many bytes as the input says (:460).
  `free_rplc` frees twice as many terms as there are (:337-338): the model ends in `aborted` or not.
* In hashf a size times 100 that wraps in 64 bits, strides that overflow, and the failure of
  yuck to parse the options.  In hashl, standard input and reads that fail.
* In xxHash, the values that short inputs are mixed to, prefetching, and how a build
  chooses among vector units.
* yuck and clitoris are vendored programs that run when the tools are built or tested; the build
  system has no behaviour at run time.

## Plan

1. Done: scanner, writer, rounding, their composition, ttl-wc, ttl-prefixify, unqpc, metarap,
   hashf, hashl, xxHash; theorems on each of the eight programs and parts that have runs.
2. hashl as a state machine, if it is to have runs: standard input, reads that fail.
3. Theorems that are left: none of the safety properties that the runs check.  The ones of `XxhStream`, `Murmur3` and
   `Xxh3Short`, which are evaluated for bounded inputs, could follow.
