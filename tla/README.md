# Verification of ec_dir

`ec_dir` wraps the erasure coding part of Intel's isa-l in a C++ class (`IsaEC`), adds a helper
that lays data out in strips and stripes (`scheduler`), functions that write and read strips on
three NVMe devices, and a set of test and benchmark programs. The whole of isa-l is vendored with it,
its compression library included. This directory holds TLA+ models of that code, the TLC runs that
check them, and theorems about them checked by TLAPS.

All paths below are relative to the root of the repository.

## 1. The system

| part | code | state it keeps | operations |
|---|---|---|---|
| codec object | `src/IsaEC.hpp:17-113`, `src/IsaEC.cpp:26-228` | `encode_matrix`, two coefficient tables `g_tbls` and `g_tbls_decode`, `decode_index`, scratch matrices | constructor, `encode`, `encode_ptr`, `decode`, `decode_ptr`, `cache_g_tbls`, `cache_decode_ptr`, destructor |
| chunk loops | the `omp parallel for` of each call | pointer arrays, one output chunk per iteration | share the chunks out, set pointers, `ec_encode_data`, join |
| decoding matrix | `IsaEC.hpp:51-112`, `ec_base.c:92-163` | `decode_index`, the matrices being inverted | row selection, inversion, decoding rows |
| `ec_encode_data` | `lib/isa-l/erasure_code/ec_highlevel_func.c`, `ec_base.c`, the `gf_*` kernels | multiplication tables, the strips; per call: rows left, position, saved last vectors | `ec_init_tables`, `ec_encode_data`, `ec_encode_data_update`, the kernels |
| GF arithmetic | `lib/isa-l/erasure_code/ec_base.c`, `ec_base.h` | constant tables | `gf_mul`, `gf_inv`, `gf_vect_mul_init` |
| scheduler | `IsaEC.cpp:352-462` | sizes and padding, strip or stripe buffers | constructor, `strip_first_continue`, `strip_first_order`, `stripe_first_outinside` |
| SSD functions | `IsaEC.cpp:233-347` | the devices | `parallel_write_ssd`, `parallel_read_ssd`, `write_ssd`, `read_ssd` |
| SSD program | `test/para_ssd_read.cpp` | two shared offsets, the strips in memory | encode section, write section, readback, erase, decode, compare |
| test programs | `test/testEC.cpp` (the CTest test), `encode_vec.cpp`, `strip_wise.cpp`, `stripe_scheduler.cpp` | strips or stripes, `err_list`, return value | lay out, encode, erase, decode, compare, return |
| benchmarks | the other programs of `test/` | - | sequences of the calls above |
| streaming decompression | `lib/isa-l/igzip/igzip_inflate.c`, the loop of `programs/igzip_cli.c` | `struct inflate_state`: position in the file, `read_in`, `tmp_in_buffer`, `tmp_out_buffer`, overflow fields, counters, checksum; the caller's header structure | `isal_inflate`, `isal_read_gzip_header`, `isal_read_zlib_header`, `isal_inflate_set_dict`, `isal_inflate_reset` |
| the rest of isa-l | crc, raid, mem, compression | - | pure functions over buffers, `isal_deflate` |

How they interact: the programs fill strips (or let the scheduler do it), call the codec object,
which splits every call into chunks for a team of OpenMP threads; each thread hands a chunk to the
library. Encoding uses `g_tbls`; the decoding calls first derive rows for the erased strips from the
encoding matrix and keep, in the object, which strips these rows expect (`decode_index`). The
library expands every coefficient to a table of 32 bytes, picks a function by instruction set, and
works through rows in groups and through bytes in vectors. The SSD program runs encoding and writing
as two OpenMP sections that talk through two plain variables. Decompression is a component of its
own: a caller hands `isal_inflate` a file in pieces and takes the text in buffers of its choice; all
that connects one call to the next is in `struct inflate_state`.

What is hard about it:

* *call sequences*: `decode`, `decode_ptr` and `cache_g_tbls` leave state behind (`g_tbls`,
  `decode_index`) that other calls use; a decompression is a sequence of calls that may break off
  at any byte of the input and of the output;
* *threads*: the teams inside a call, the two sections of the SSD program, one thread per strip in
  the SSD functions;
* *numbers*: sizes in bytes of a strip or of a stripe, whole chunks only, conversions to `int`,
  padding, unsigned differences, vectors that overlap at the end of a chunk, buffers that must take
  one more match than they were filled with;
* *failures nobody hears of*: results of `write_ssd`, `read_ssd` and
  `gf_gen_decode_matrix_simple` are dropped, short transfers are not noticed, and `~IsaEC` ends the
  process with `exit(0)`.

The hazards are listed with their lines and the properties about them in `PROJECT.json`.

## 2. The modules

| module | models | properties |
|---|---|---|
| `ErasureCode` | *abstract*: a set of intact strips; encoding completes the codeword, decoding restores erased strips from intact survivors | - |
| `IsaEC` | codec object and its caller's buffers, one action per call | `TypeOK`, `NoOverrun`, `CacheCoherent`, `EncodeTableIntact`, `ImplementsErasureCode`, `EncodeMakesCodeword` |
| `EncodeCall` | *abstract*: one call computes each row of each chunk once and then returns | - |
| `ChunkTeam` | the team of threads in one call | `TypeOK`, `ChunkExclusive`, `ImplementsCall`, `CallReturns` |
| `GaloisField` | byte arithmetic by logarithm tables, for a field of any width | - |
| `DecodeMatrix` | row selection, inversion and decoding rows, loop round by loop round | `SelectionInRange`, `SurvivorsSelected`, `EliminationInvariant`, `NeverSingular`, `DecodeRowsRebuild` |
| `EncodeData` | the bytes of a chunk through `ec_encode_data` and `ec_encode_data_update`, scalar code and kernels; extends `DecodeMatrix` | `BytesRebuilt` |
| `Scheduler` | constructor and layouts | `PaddingFits`, `ContinueHoldsData`, `OrderHoldsPaddedData`, `StripesHoldData`, `OrderHoldsData` |
| `Programs` | the test programs, composing `Scheduler` and three instances of `IsaEC`: strips in vectors, strips behind pointers, stripes (every step of a program that calls the codec *is* the action of `IsaEC`) | `DataRecovered`, `DataSurvives`, `FollowsProtocol`, `FailureReported` |
| `Stripe` | the numbering of the strips that the next modules share | - |
| `StripStore` | *abstract*: storage of its own for every strip | - |
| `SsdArray` | the SSD functions | `TypeOK`, `WriteLands`, `ImplementsStripStore` |
| `ParaSsdRead` | the SSD program | `ProgramTypeOK`, `PublishedIsEncoded`, `VerdictSound`, `InOrderWritesEncoded`, `InOrderNoError`, `Terminates`, `NoErrorWithoutFault` |
| `Deflated` | compressed files as sequences of units, and what they decompress to | - |
| `Grammar` | *reference*: a compressed file read from its first unit to its last: which part each unit is, what the units say, whether they are valid | the assumptions on `Files` |
| `GzipHeader` | `isal_read_gzip_header`, one action per field | `ExtraRead`, `NameRead` (in `Inflate`) |
| `Decompressor` | *abstract*: the text of the file, a prefix at a time, then its end; or a refusal if the file is invalid | - |
| `Inflate` | `isal_inflate` with the zlib header and the trailers, composed with `GzipHeader` and with the callers | `TypeOK`, `BuffersHold`, `HistoryKept`, `CountsWhatIsWritten`, `TrailerTakenExactly`, `ReturnsWhenDone`, `ImplementsDecompressor`, `Finishes`, `ValidAccepted` |
| `...Proofs` | theorems about the module or the component named (section 5) | |
| `MC...` | small instances of the module named | |

Definitions keep the names of the code. A definition with a suffix (`cache_g_tbls_noindex`) is a
variant with a plausible bug; it is not part of any specification and only serves to show that a
property notices that bug.

### Abstractions

* **Rows instead of coefficients (`IsaEC`).** A row of a table is the pair of the strips it reads
  and the strip it computes. It yields good bytes only if applied to exactly these, all of them
  intact. `DecodeMatrix` is what justifies this: there the rows are numbers, and
  `DecodeRowsRebuild` says that applied to the selected strips they give the erased one.
* **Contents are "good" or not.** A byte (in `IsaEC`), a block (in `ParaSsdRead`) or a row of a
  chunk (in `ChunkTeam`) either is what the codeword says or is not. In `EncodeData` bytes are
  elements of the field, and `BytesRebuilt` is about every one of them.
* **The parallel loop is one step in `IsaEC`** and many in `ChunkTeam`. `ChunkTeam` with private
  arrays implements `EncodeCall`, whose only result is that every row of every chunk was computed exactly
  once, from its own bytes, by the time of the return: a row computed a second time is noticed, because it
  becomes "again" instead of "good" and leaves the set that `EncodeCall` only lets grow. For `encode`, whose array is shared, that holds for a team
  of one thread only (see 4); `IsaEC` describes that case, which is the one `testEC` uses.
* **`ec_encode_data` is one step in `ChunkTeam`** (one per row there) and many in `EncodeData`: one
  step is one vector of one group of rows, or all of the scalar code. Kernels are modelled by what
  they load and store: which table goes with which row, which bytes a vector covers, how the last,
  overlapping vector of a `mad` kernel is kept from adding its bytes twice. The sse, avx and avx2 kernels
  of one and two rows save that vector before the first store and start from it again; those of three to six
  rows, and all avx512 ones, load `dest` again and mask the product. `Saving` is the number of rows up to
  which a kernel saves (2; 1 in the instance, so that a full group masks and a row left over saves).
  Registers and the order of loads within a
  vector are left out. Vectors have 2 or 3 bytes instead of 16 to 64, groups 2 rows instead of 6, half
  a byte 2 bits instead of 4: the same relations (tail shorter than a vector, chunk shorter than a
  vector, rows that do not fill a group) with small numbers.
* **Positions instead of bytes (`Scheduler`)**: a byte of a layout is the index of the data byte it
  holds, a zero, or stray. The constructor counts chunks in `int`s, and these wrap here as they do there
  (`ToInt`, `Rem`); the data may be longer than an `int` counts, as the 5 GiB of `test_scheduler.cpp` are.
  The properties say nothing of more than 2^31 chunks (`IntsFit`). Byte counts are `uint64_t` and do not
  wrap here. A chunk is a codec's `maxSize`, which is an `int`.
* **One stripe for all (`Programs`)**: `stripe_scheduler` does the same to every stripe, one after the
  other, and the codec keeps nothing of a stripe; the model follows one, `DataSurvives` relates it to
  all that the layout fills and to the loops' bounds.
* **Blocks (`ParaSsdRead`, `SsdArray`)**: offsets count the blocks of `parallel_size` bytes. Nested
  parallelism is off by default in OpenMP, so `encode_ptr` and `parallel_write_ssd` may well run
  on one thread inside the sections; the strips of a block are written in any order here, which
  covers that and the other case.
* **Units instead of bits (`Inflate`)**: a unit of a file is what the decoder takes at a time (a
  header, a symbol, a distance, a stored byte, part of a trailer) and counts as one byte of input.
  Which symbols the Huffman tables join in one lookup is a parameter of a behaviour (`pack`, one or
  three), as is whether the zeros that the decoder sees behind the end of its input make a shorter
  lookup succeed (`trunc`). A checksum is a number that extends from part to part like crc32 and
  adler32 do (`Extended`). The window has 2 units instead of 32768, a match at most 3 instead of 258;
  `LookAhead` keeps its relation to them, which is an assumption with a name (`InflateAssumption`).

### Correspondence of actions

`PROJECT.json` ("map") names for each definition the lines it stands for. Actions that are not
calls: in `IsaEC`, `Fill` and `Lose` are the caller storing data and losing strips. The calls
themselves check nothing, so their actions have no guards; what the caller abides by are conjuncts of
`Next`, and the programs composed with `IsaEC` (`Programs`) use the bare actions and are checked
against them (`FollowsProtocol`). `last` is a history variable, shared with `ErasureCode`: it tells a repair
from a loss, so that a decoding that damages strips is not excused as a loss of the caller's, and one
that changes nothing is not excused as a stutter. In `SsdArray`,
`write_ssd(s)` is one iteration of the loop of `parallel_write_ssd`, with the number of blocks the
device took as its nondeterministic outcome (0 when `open` or `pwrite` failed, less than asked for a
short write or at the end of the device).

In `Inflate` the control points of `isal_inflate` are the values of `pc`: the wrapper's header
("wrapper", "zlib", "dict_id"), a call that only waits for the trailer ("trailer"), decoding into
`tmp_out_buffer` ("tmp"), handing over ("drain"), decoding into the caller's buffer ("out") and what
is done before returning ("end"). `Call`, `CallHeader`, `SetDict` and `NextMember` are the caller. The
header structure that `isal_inflate` has on its stack keeps what happens to be there (`Garbage`): the
code sets all of it but `flags`.

## 3. The runs that pass

| run | module | instance | what it shows |
|---|---|---|---|
| `isaec_conforming` | `MCIsaEC` | k = n = 2, two chunks per strip, `int` of 4 bits | every sequence of calls of a caller that keeps the protocol (`Conforming`) |
| `chunk_team` | `ChunkTeam` | 3 threads, 4 chunks, both schedules | a team with private arrays implements `EncodeCall`; the call returns |
| `decode_matrix` | `MCDecodeMatrix` | k = 3, m = 6, field of 16 elements, chunks of 1, 3 and 4 bytes, scalar code and vectors of 2 and 3 bytes | all 259 error lists of up to 3 entries, from the data to the rebuilt bytes |
| `para_ssd` | `ParaSsdRead` | k = 2, n = 1, 2 blocks, 1 or 2 threads, both builds of the waiting loop, up to one failed device call | the verdict of the program is sound, termination |
| `programs` | `MCPrograms` | k = 3, n = 2, chunks of 4 bytes, strips of 8, those of `strip_wise` of 16; layouts for k up to 3, up to 19 bytes, chunks of 1 to 4; `int` of 5 bits | the programs keep the codec's protocol and find their data; padding and layouts for every such shape |
| `ssd_array` | `MCSsdArray` | k = 3, n = 1, regions of 2 blocks, devices of 3 | placement with an odd k, shared devices and a device that ends inside a region |
| `inflate` | `MCInflate` | 18 files, window of 2, input in pieces of 1 or 5 units, output buffers of 0, 1, 3 and 9 bytes | `isal_inflate` keeps its promise, its buffers and its counters for every way to divide a file into calls |

Why these bounds are enough to be interesting:

* `isaec_conforming` needs two erasures and two survivors to tell a wrong order of
  survivors from a right one, two chunks per strip so that a loop can stop early or late, and an
  `int` narrower than the stripe (`k * StripLen` = `IntMax`), so that a size that did not pass
  through the division first would wrap. Error lists repeat entries, as `rand() % (k + n)` makes
  them. The theorems of section 5 lift all of this to arbitrary constants.
* `chunk_team`: four chunks on three threads is the smallest uneven static share; two rows and
  four pointers make the pointer loop and the row loop distinct.
* `decode_matrix`: three erasures of six reach the pivot search with zero pivots and rows to swap,
  erased parity strips and repeated entries. Chunks of 1, 3 and 4 bytes against vectors of 2 and 3 are
  shorter than a vector, exact multiples of one, and end in an overlapping tail for either width;
  three rows against groups of two leave a row for a smaller kernel. 111,752 states.
* `programs`: k = 3 with data that does not fill its stripes, strips of two chunks, in
  `strip_wise` of as many bytes as its 2^31 are to an `int` (16, `IntMax`); every list of two
  strips drawn with repetition. Layouts reach data of more bytes than an `int` counts, and of more chunks
  (there the padding does come out wrong, and `IntsFit` excludes it). 5,559 states.
* `para_ssd`: two blocks are needed for one to be published while the other is not; with one failed
  or short call every drop of a result matters.
* `ssd_array`: three data strips put one on the first device and two on the second, whose
  second region is cut by the end of the device. Calls start at offset 0 or inside a region.
* `inflate`: the files cover static, dynamic and stored blocks, matches that overlap themselves, reach
  into an earlier block, buffer or the dictionary, or before the start of the text, all optional
  fields of a gzip header, zlib with and without a dictionary, several members, and invalid headers,
  symbols and trailers. One unit at a time divides every header, match and trailer; output buffers
  of 0 and 1 bytes force every kind of overflow, those of 3 and 9 reach the part of the code that
  decodes straight into the caller's buffer and copies the window back. A buffer of the window's size
  and more is needed for `FromUser`, tmp_out_buffer more than full of old text for `Shifts`: both
  happen (a variant without either is refuted). 332,833 states.

Fairness is used for three properties only. `CallReturns` (`ChunkTeam`) assumes that each
thread of the team keeps running and that the barrier opens: OpenMP threads are kernel threads and a
loop iteration blocks on nothing. `Terminates` (`ParaSsdRead`) assumes the same of the threads that
run the sections and of main; device calls always return, with or without success. `Finishes`
(`Inflate`) assumes that a call that has begun goes on, and of the caller that it does not for ever
make calls without room for output or without the input it has, does set a dictionary it is asked
for and goes on to the next member: the loops of `igzip_cli.c` do. No fairness
is assumed between steps of one thread, and none is needed for the safety properties.

Deadlock checking is off where the modelled program ends (`ChunkTeam`, `DecodeMatrix` with
`EncodeData`, `ParaSsdRead`, `Programs`, `Inflate`); it is on for `IsaEC`, `Scheduler` and
`SsdArray`, which serve calls for ever.

## 4. What the code does differently from what it says

Five runs are expected to violate their property; each is a disagreement between the code and what
the repository says of it (`PROJECT.json`, "findings").

* `isaec_reencode` / `EncodeMakesCodeword`: `decode` and `decode_ptr` store their rows in `g_tbls`
  (`IsaEC.cpp:135`, `:168`) although the class has `g_tbls_decode` "for decoding". An object that has
  decoded encodes wrong parity from then on.
* `chunk_team_shared` / `ImplementsCall`: `encode` declares `frag_ptrs` outside the parallel region
  (`IsaEC.cpp:63`), so its threads use each other's pointers. `multi_thread.cpp`, written to check
  this, encodes zeros only and compares one byte per strip.
* `para_ssd_race` / `NoErrorWithoutFault`: the writer's waiting loop (`para_ssd_read.cpp:131`) waits
  for the opposite of what it should. At `-O3` GCC from version 10 and Clang drop it, and blocks are
  written before they are encoded. Compilers that keep it test the condition once: then the program
  hangs as soon as the writer finds the encoder ahead (state `writer = "spin"`, which `Terminates`
  excludes by its condition on `loop`).
* `testec_exit` / `FailureReported`: `~IsaEC` calls `exit(0)` (`IsaEC.cpp:51`), so the status of
  the only CTest test is 0 even when `main` returns -1. The same holds for every test program.
* `scheduler_order` / `OrderHoldsData`: `strip_first_order` takes all of `append_len` off the last
  strip, but the padding may be longer than a strip.

Other things the models assume because the code does not survive their absence:

* `Conforming` (in `IsaEC`) spells out the protocol of the codec object, for each of the calls a caller
  makes (`Calls`): a call that computes in `int` what the other one does in `size_t` asks for more. The
  strips of `strip_wise.cpp:63` have 2^31 bytes, which `encode_ptr` and `decode_ptr` can take (they divide
  before they convert) and `decode` could not. `stripe_wise.cpp:110` (and
  `stripe_wise_32M.cpp`, `using_stat_all_stripe.cpp`) pass `k * maxSize` to `encode_ptr` for strips of
  `maxSize` bytes, contrary to the comment at `IsaEC.cpp:97`; with `EncodePtrSize = K * StripLen` TLC
  finds `NoOverrun` violated at once.
* `testEC` compares erased parity strips with memory beyond `in` (`testEC.cpp:116`): the outcome is a
  nondeterministic choice of equal, unequal or a crash.
* `cache_decode_ptr` divides the size it is given by k (`IsaEC.cpp:208`), and `stripe_scheduler` gives
  it the size of one chunk. Its loop still covers the chunk because it runs once for every started
  chunk, as long as `maxSize / k` is not 0: the theorems ask for `K <= MaxSize`.
* The SSD program reads the devices once more into the buffers it has just erased
  (`para_ssd_read.cpp:239`): its decoding is tried on strips that are already whole.

Two more configurations, `Inflate_gzip.cfg` and `Inflate_members.cfg`, are kept for what
decompression does with some valid files. They are not among the runs, because no text of the
repository states the violated property in so many words:

* `Inflate_gzip.cfg` / `NameRead`: `string_header_copy` ends a name with `str_buf[len] = 0`
  (`igzip_inflate.c:1922`), where `len` is the length of the piece copied by this call, not of the
  name: a name read in several calls is cut short.
* `Inflate_members.cfg` / `ValidAccepted`: for members that it handles itself `isal_inflate` has a
  gzip header on its stack whose `flags` nobody sets (`:2303`), and a zlib header that starts from
  zeros in every call (`:2312`). A header with optional fields, or with a dictionary, that is divided
  between two calls is then read wrongly.

The run `inflate` therefore leaves out exactly this: names are checked only through their effect on
the rest of the header, later members have no optional fields, and zlib headers that name a
dictionary come whole (`SplitHeaders = FALSE`).

## 5. What is proved

`tlapm` checks all of the following, for every value of the constants that meets the named
assumptions. No statement is taken on trust.

**`IsaECProofs`**, under `ShapeAssumption`, `WidthAssumption`, `CallerAssumption` and `Conforming`:

* `TypeCorrect`, `NoCallOverruns`, `CachedTableCoherent`, `EncodeTableStays`: `Spec => []P` for the
  four invariants of the run.
* `CodecKeepsPromise`: `Spec => ImplementsErasureCode`.

The inductive invariant is `IInv == TypeOK /\ NoOverrun /\ CacheCoherent /\ EncodeTableIntact`: the
four need each other only through `TypeOK`, and the refinement needs `EncodeTableIntact` for
encodings and `CacheCoherent` for decodings from a cached table. The lemmas under it are of three
kinds: arithmetic (`DivOfProduct`, `DivBounds`, `MulMono`), which carries the loops
(`IndexLoopCovers`, `IterLoopCovers`: a loop over a whole number of chunks visits exactly the bytes
of the strip; `CallSizes`: the sizes survive the conversions to `int`), tables (`ErrListType`,
`DecodeRowsType`, `DecodeTable`) and the buffers (`RunType`, `RunOk`). Each step of the codec then
maps to a step of `ErasureCode` or to a stutter (`StepRefines`).

**`ChunkTeamProofs`**: `TypeCorrect` for any team, and, if the pointer arrays are private
(`PrivateArrays`), `ExclusiveChunks` and `TeamImplementsCall` (`Spec => ImplementsCall`) for any number
of threads, chunks, rows and pointers and either schedule. The invariant `TeamInv` says that the chunks handed
out, held and done partition the loop and that a thread's pointers, as far as it has set them, point
into the chunk it holds, and that a row is blank until the thread that holds its chunk has computed it, so
that none is computed twice. With a shared array the second half fails, which is the finding of section 4.

**`DecodeMatrixProofs`**: `SelectsInRange` and `SelectsSurvivors`, for every k, m and list of erasures.
The row selection reads `frag_in_err[r]` without a bound; that r stays below m is a counting argument:
after i rows selected, r = i + (the number of erased strips below r), and at most m - k are erased.
Then the algebra, for every field that meets `FieldAssumption` and every k and m within it:

* `EliminationKeepsProduct`, `AlwaysInvertible`, `RowsRebuild`: `Spec => []P` for
  `EliminationInvariant`, `NeverSingular` and `DecodeRowsRebuild`.
* `DecodesByMatrix`: `EncodeSpec => Spec`, so that what holds of the decoding matrix holds of the run that
  also encodes and rebuilds; `RebuildsBytes`: `EncodeSpec => []BytesRebuilt`, every byte that the
  kernels rebuild, for strips of any length, either function that encodes and every instruction set.

The argument: a sum over the rows does not depend on the order in which it is folded (`FoldsUnique`),
so the dot products of rows and columns are bilinear and can be exchanged (`DotSwap`). Each of the three
row operations of `gf_invert_matrix` keeps `Reduces`: the working copy is the product of the
inverse so far and the rows selected. None adds to the vectors that all rows map to 0 (`Kills`). Were
there no pivot in column i, some vector other than 0 would be among these; but k distinct rows of the unit
matrix above the Cauchy matrix map nothing but 0 to 0 (`RowsRegular`, by partial fractions: `CauchyStep` takes one
column off a combination of Cauchy rows). So a pivot always exists (`PivotExists`), and the inductive
invariant is `DecodeInv`: the rows selected, the types, `Reduces`, unit columns before column i, and
`Kills`. For the bytes, `TableProducts` shows that the 32 bytes `gf_vect_mul_init` stores for a coefficient
are its products with the halves of a byte, whose sum is the product with the byte, and
`EncodeInv` says of a call in progress which bytes are right, that all others are as the call found
them, and that the overlapping last vector of a `mad` kernel starts from the bytes saved before or masks them. Inductions
over rows and bytes go through the least element of a set of naturals (`LeastNat`), because an induction
theorem with an operator as parameter cannot be instantiated. TLC evaluates `FieldAssumption`,
`ByteAssumption` and `LoopAssumption` for the field of 16 elements of the run; for the 256 elements of the
library they are the known laws of GF(2^8), which nothing here proves.

**`ProgramsProofs`**, first part, under `SchedulerAssumption`, which does not bound the size of the data:
`PaddingAlwaysFits`, `ContinueKeepsData`, `OrderKeepsPaddedData` (as long as the padding is no
longer than a strip) and `StripesKeepData`: every data byte is where the layout's reader looks for it, for every
shape whose chunks, with a last stripe filled up, an `int` can count (`IntsFit`, a condition in the
properties). The only program that uses `strip_first_continue`, `test_scheduler.cpp`, is such: its 5 GiB
are 5,242,880 chunks. Under `IntsFit` the conversions change nothing (`ToIntFits`, `WholeChunks`), and
`(c - (x % c)) % c` is the least number that added to x makes a multiple of c (`FillUp`, used once for bytes
and once for chunks).

**`ProgramsProofs`**, second part, under `ProgramSizes`: strips of whole chunks, `K <= MaxSize`, strips that
`encode` and `decode` get are shorter than an `int` counts. Of `strip_wise`'s only the number of
chunks and the start of the last one need fit, so that its strips of 2^31 bytes are among those proved
about.

* `ProgramsFollowProtocol`: `ProgramsSpec => FollowsProtocol`, which contains `Conforms`: each program is a
  conforming caller of the calls it makes. This makes the theorems of `IsaECProofs`
  applicable, in three instances: strips in vectors (`CodecP`), strips behind pointers (`PtrP`) and stripes of
  one chunk (`StripeP`).
* `ProgramsRecoverData`: `ProgramsSpec => []DataRecovered`, from these instances and what main knows of
  the strips at each of its points (`CodecHolds`, `PtrHolds`, `StripeHolds`).
* `SchedulerDataSurvives`: `ProgramsSpec => []DataSurvives`, which joins the codec's invariant with the
  scheduler's: the layout put the byte where the loops over stripes find it (`StripesKeepData`'s
  invariant, `StripeReached`), and the codec brought its chunk back.

**`SsdProofs`**, first part, under `ArrayAssumption`: `RegionsDisjoint` (positions of different strips on
one device have different addresses, for every k and n: strips on one device have different slots,
`SlotsDiffer`, and slots are a region apart, `SlotsApart`), `TypeCorrect`, `CompleteWritesLand` and
`SsdFunctionsImplementStore` (`Spec => ImplementsStripStore`). `WriteLands` is not inductive
alone: after a complete write another strip's write must leave addresses that *exist* as they are,
so the invariant adds `WrittenFits`. `WriteEffect` says what one transfer does to any position of any
strip; invariant and refinement both follow from it.

**`SsdProofs`**, second part, under `PipelineAssumption`: `ProgramTypeCorrect`, `PublishesEncoded` and `SoundVerdict` for any number of blocks,
strips and threads and any device faults, however the sections race; `OneThreadWritesEncoded` and
`OneThreadFindsNoError` for one thread. `PipelineInv` relates the two offsets to what is encoded in
memory and written on the devices at every point of main; `InOrderInv` adds that a single thread has
finished the first section before it starts the second.

**`InflateProofs`**, under `InflateAssumption` (which says how many bytes `ISAL_LOOK_AHEAD` must give
`tmp_out_buffer` beyond twice the window: the longest match, the literals of one lookup and the bytes that
`store_u32` writes past them) and `FilesAssumption` (matches and distances within what DEFLATE can
say): `TypeCorrect`, `NothingOverruns` (`Spec => []BuffersHold`) and `CountsGiven`
(`Spec => []CountsWhatIsWritten`), for windows, buffers and files of any size and every division of a file into
calls. The invariant `Inv` has five parts, each needed by the others: where in the file and in the
call this is (`ControlInv`), that a header field, also one resumed by a later call, fits behind what its
buffer holds (`HeaderInv`), what the three input buffers hold (`InputInv`), how full `tmp_out_buffer` can
be at each point (`BufferInv`: no more than twice the window while it is decoded into, so that what
overflows still fits), and the counters in the middle of a call (`CountInv`). Under it lie lemmas about
each decoder (`CodeOK`, `LiteralOK`, `BlockHeaderOK`, `ChecksumOK`, `FixedReadOK`, `ExtraCopyOK`,
`StringCopyOK`) and about checksums of joined parts (`SumTwice`); every action has a lemma of its own
(`InvCall` to `InvHeaderDone`). On top of `Inv` stand three more invariants, each for one property:

* `HistoryStays` (`Spec => []HistoryKept`). `HistoryInv` says that `tmp_out_buffer` ends with the last
  window of the text (`EndsRight`) whenever it is decoded into. While decoding goes on in the caller's
  buffer it does not; then either that buffer has got a whole window in this call, which is copied
  back, or decoding has stopped for want of input (`Stalled`) while `tmp_out_buffer` is still right. The first case needs that a call begins with at most a window of
  `tmp_out_buffer` already handed over, which in turn needs that the buffer is only drained when it
  is full, at twice the window, or when decoding is stalled. `RightMore`, `TextGiven` and their neighbours
  say how a buffer and the text change together.
* `ReturnsAsDocumented` (`Spec => ReturnsWhenDone`), an action property. `ReturnInv` says what must be
  true where a call is about to return: a header that reports `END_INPUT` has used the input up, and
  the loops end without an error only with the input or the room used up or with nothing left to give.
* `GetsExtra` (`Spec => []ExtraRead`). `ExtraInv` follows the header through the file: what is
  ahead (in `tmp_in_buffer`, in the input and not yet passed) at each place where a call may stop, and
  that the values already copied are those of the file, also after the caller has given a larger
  buffer.

Two assumptions are for these alone. `LookupAssumption` (`RegSize >= MaxLits`): `read_in` holds the symbols
of one lookup, otherwise decoding could stall with input left. `ExtraAssumption` says what the `extra` of
a file is: the units behind its length.

**`GrammarProofs`**: `TakesTrailer` (`~ SplitHeaders` implies `Spec => []TrailerTakenExactly`), for windows,
buffers and files of any size, valid or not, and every division into calls. `Grammar` reads a file one
unit at a time and knows nothing of buffers: `Parse(f)[n]` is the place of the file after n units
(which part of which header, block or trailer comes next, how much of it is left) and what these units have
said. The inductive invariant is `PlaceInv`. It says that what is still ahead (`Coming`: `read_in`, then
what is put aside in `tmp_in_buffer`, then the input, then what the caller has not yet passed) is always a
tail of the file, and that the place where this tail begins (`Here`) is the one that `block_state`, the field
of the header, `count` and `bfinal` stand for. It is needed because the code has no such place: it goes on from what
it has put aside, often in another buffer, and gives back whole bytes that it had read ahead. The proof has
three layers. Lemmas about the grammar follow it over several units (`OneUnit`, `LitRun`, `StoredSays`,
`NameSays`, `LeadsOn`), by the least-element principle again. Lemmas about each read (`HeaderTakes`,
`StoredTakes`, `CodeTakes`, `FixedTakes`, `StringTakes`, `ChecksumTakes` and others) say how many units of
`Coming` it takes, or that it takes none when it breaks off, whatever of them is in which buffer;
`CodeTakes` has one case for each way a lookup of up to three symbols can end. Then each action has a lemma of its own (`PlaceCall` to
`PlaceDecodeOut`). The assumptions on `Files` are those under which the property is meant: `EndsAssumption` (the
ends of a file are those of its units), `MembersAssumption` (only gzip files have members),
`DictAssumption`, and `TrailerAssumption` (`read_in` is not longer than a trailer). `~ SplitHeaders`
leaves out the headers of section 4 that `isal_inflate` cannot resume: after one of these the code goes
on at the wrong place of the file, so there the property is false.

**`TextProofs`**: `InflateKeepsPromise` (`~ SplitHeaders` implies `Spec => ImplementsDecompressor`), the
refinement, under the same assumptions. `PlaceInv` says where in the file the code is; what `Grammar`
makes of the units before that place (`Said`) is what the code must agree with. The code has its text in four
places: in the buffers it has handed over (`user`), in `tmp_out_buffer` behind those, in the caller's buffer
of the call in progress, and in the literals and the match that overflowed. On top of `PlaceInv`,
`HistoryInv` and `ExtraInv` (`Base`) stand four invariants about the text (`Right`):

* `TextInv`: these four, joined behind the dictionary, are `Said.out` (`TextValid`). Once the file is
  refused they are what `Grammar` said at some place, and `Grammar` refuses the file as well
  (`TextRefused`). What `Grammar` says only grows (`SaidGrows`, `AllGrows`), so what was handed over stays
  a prefix of the text of the file.
* `ViewInv`: the buffer that a match is copied from ends like the text that `Grammar` copies it from, as
  far back as a window or as there is text. A match then copies the same bytes (`ViewCopies`), in
  `tmp_out_buffer`, in the caller's buffer or divided between them (`MatchWritten`), and both sides judge
  alike whether a distance reaches too far (`InvalidWrites`). The moves of `tmp_out_buffer` keep it
  because of `HistoryInv`.
* `DictInv`: nothing is decoded while a dictionary is still due, in however many calls the zlib
  header came.
* `SumInv`: the checksum of a gzip header that the caller reads is that of its units so far, in
  whatever pieces they came; without it a valid header could be refused for its checksum.

`RetInv` adds that within the loops of a call `ret` is what a decoder reported. A step then
hands over some more of the text, or reports the end or a refusal, once (`StepKept`, `StepPromised`).
The end is reported behind the trailer only; what is compared there is the checksum of what
was written (`CountInv`), and `Grammar` compares the same (`ChecksJudge`, `TextReadTrailer`). Behind the end of
the last member nothing is to come that would say anything (`EndIsLast`).

**Only model-checked**: liveness (`CallReturns`, `Terminates`, `Finishes`), which is out of the
prover's reach. Every other property of the passing runs is a theorem.

## 6. What is not modelled

* Compression (`isal_deflate`, its hash tables and the construction of Huffman codes): nothing in
  `src/` or `test/` calls it, and most of its lines are generated tables.
* Of decompression: how Huffman tables are built and looked up (`make_inflate_huff_code_*`,
  `setup_dynamic_header`), the bits within `read_in`, and `isal_inflate_stateless`, which has none of the
  state between calls that makes `isal_inflate` hard. A unit of the model is what these yield.
* crc, raid and mem: pure functions over buffers that nothing calls; `isa-l/programs` except the loop
  of `igzip_cli` over the members of a file.
* `gf_gen_rs_matrix` and `gf_vect_mul_base`, which the code does not use; the kernels for aarch64 and
  ppc64le.
* Memory allocation and its failure, timing and output, the perf counter programs, argument values
  that corrupt memory (more than n erasures, k + n above 256, chunk sizes of 2 GiB),
  `initialize_para` (never called, repeats the constructor) and the two layout functions without a
  body.
* The benchmarks that pass sizes of whole stripes to `encode_ptr` (`stripe_wise`, `stripe_wise_32M`,
  `test_scheduler`, `using_stat_all_stripe`): they overrun their strips, which is outside the protocol that
  `IsaEC` describes. `multi_thread` is `testEC` with a team of four on the shared array of `encode`,
  the case of `chunk_team_shared`.

Most lines of the repository are of these kinds: vendored code that nothing here calls, tables of
constants, and assembly.

## 7. Plan

Done: every part that the code of `src/` and `test/` exercises, the erasure coding it calls down to the
vectors of the kernels, and streaming decompression; proofs of every invariant the passing runs check,
of every action property, and of all refinements. Left, in this order:

1. `isal_deflate`, so that what is compressed can be shown to decompress to itself.
2. `GaloisField` in the field of 256 elements.
