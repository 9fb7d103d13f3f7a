# A formal model of rcpputils

rcpputils is a library of independent C++ helpers. Most keep no state; the ones
below keep some, or share some (the file system, `errno`, descriptors, the two
members of a union) with whoever else runs. This project models those in TLA+,
checks the models with TLC on small instances, and proves some of the results
with TLAPS for every instance.

Source paths are relative to the repository root. `PROJECT.json` maps every
definition to its lines.

## 1. The system

| Part | State | Operations | What is hard |
|---|---|---|---|
| `fs::create_temporary_directory` (`src/filesystem_helper.cpp:354-382`) | a retry counter; the parent directory, shared with every program | one call: draw a suffix, `std::filesystem::create_directories`, retry | two callers and other programs race between the status check and the `mkdir`; the limit of the retries; what is left by a try that fails |
| `fs::create_directories`, `create_temp_directory`, `remove`, `remove_all`, `file_size`, `is_regular_file` (`:98-152`, `:277-295`, `:320-352`, `:404-496`) | the tree, `errno`, open `DIR` streams, the recursion | one call each, several system calls per call | stale `is_directory`, `EEXIST` by somebody else, early returns with a stream open, `errno` read after other calls, removal while others create |
| `fs::path`, `temp_directory_path`, `current_path`, `remove_extension` (`:85-262`, `:297-318`, `:384-402`, `:498-510`) | `path_` and `path_as_vector_`, the same path twice | construction, `/`, `parent_path`, `filename`, `extension` | the two members must agree; paths at the root and the empty path |
| `tl::expected<T, E>` (`include/rcpputils/tl_expected/expected.hpp`) | a union of `T` and `unexpected<E>`, and `m_has_val` | construction, conversion, assignment, `emplace`, `swap`, `value`, `value_or`, `and_then`, `map`, `map_error`, `or_else` | the content is made and destroyed by hand, and each copy, move or construction may throw in the middle, in functions that are `noexcept` or not |
| `RollingMeanAccumulator<T>` (`include/rcpputils/rolling_mean_accumulator.hpp`) | a ring buffer, its index, a running sum, a full flag | `accumulate`, `getRollingMean` | the wrap of the index, the value leaving the sum, the divisor while the buffer fills, the division of a `T` by a `size_t` |
| `find_and_replace`, `split`, `join` (`include/rcpputils/{find_and_replace,split,join}.hpp`) | none after the call; the loop changes the string it searches | one call each | a replacement that contains what is looked for; empty tokens at both ends |
| `convert_to_nanoseconds` (`include/rcpputils/time.hpp`) | none | one call | the limits are compared as doubles, which they are not |
| `scope_exit` (`include/rcpputils/scope_exit.hpp`) | a callable and a flag | make, move, assign, `cancel`, destroy | a guard that was moved from still has a callable; the destructor is `noexcept` |
| `SharedLibrary` (`src/shared_library.cpp`) | the load of `rcutils`, and the error message `rcutils` keeps per thread | load, `unload_library`, `get_symbol`, `has_symbol`, `get_library_path`, implicit copies, destroy | the copies share one load; errors are messages that must be fetched and reset |
| `find_library_path`, `path_for_library` (`src/find_library.cpp`), `get_env_var`, `set_env_var` (`src/env.cpp`) | none of their own; the environment and the files | one call each | empty elements of the search path; files that come and go during the search |
| process, assertions | none | | see "Not modelled" |
| `pointer_traits`, `endian`, `unique_lock`, the annotation macros | none | compile time only | nothing at run time |

How they interact: `path` is built on `split`, every file-system helper takes a
`path` and walks its vector of components or gives its string to the system;
`create_temp_directory` calls `create_directories`; `remove_all` calls itself
and `remove`; `find_library_path` reads the environment and splits what it reads;
`SharedLibrary` and `set_env_var` share the error state of `rcutils`. The rest meet
in a client: a library that was found is loaded and unloaded by a scope guard, a
text that was cleaned is split or becomes a path, a time that was converted is
averaged. Those compositions are modelled as such clients. No helper
has threads or locks of its own: concurrency comes from other callers, in this
process or another, on the same file system.

What makes each part correct:

* temporary directories: a directory is given to one caller and was made by that
  call, no name is left taken by a call that failed, nothing of others is changed,
  and the call ends;
* directories: an answer agrees with the tree unless somebody changed the tree,
  a call touches nothing outside its path, and leaves no stream open;
* `path`: both members name the same components, and the parts of a path put
  together give the path;
* `expected`: the flag says what the union holds, also after an exception; every
  operation is the operation on the sum type of `T` and `E`;
* the accumulator: its sum and count are those of the window;
* the conversion of times: what is out of range throws, what is not is exact;
* guards and libraries: a cleanup runs once, what is loaded is unloaded once, and
  what fails is reported and leaves nothing behind;
* the search: the answer is the first place that has the file;
* the text helpers: they compute what a definition over the whole input says.

## 2. The modules

| Module | Models | State and actions |
|---|---|---|
| `NameAllocator` | abstract: clients hold names, each name one client | `Acquire`, `Release` |
| `TempDirectory` | `create_temporary_directory` with the system calls of `std::filesystem::create_directories`, clients and other programs | `pc[c]` is the next system call of caller `c`. `Call` `Draw` `Status` `MakeParent` `Mkdir` `Recheck` `Count` are the call; `Fill` `Discard` the owner; `Foreign...` other programs |
| `FileTree` | the file system: which kind each path has, and the `errno` each system call fails with | operators |
| `FsHelper` | the four directory helpers and two questions, for several processes | one action per system call; `stack[c]` has one frame per invocation of `remove_all`; `errno`, `open` per process; `Fails` makes a system call fail for no reason in the tree |
| `ExpectedValue` | abstract: an object is a `T` or an `E`; the effect of each operation on that sum | one step per operation: it succeeds, throws or ends the program |
| `Expected` | the union, the flag and the hand-written lifetimes, for a class `T` and for `void` | an operator per function of the class, composed with `Then`, `TryRestore` and `Noexcept`; one action per operation of a client |
| `RollingMean` | the accumulator for an integral `T` | `Accumulate`; `RollingMean` is the answer of `getRollingMean` |
| `TimeConversion` | `convert_to_nanoseconds`, with doubles of a few bits | operators: `Answers(t)` is what a call may answer |
| `DurationMean` | composes the two: times are measured, converted and averaged | `Measure`, `Take`, `Skip` |
| `Text` | `split`, `join` | operators |
| `FindAndReplace` | the loop of `find_and_replace` | `Start`, and `Round` for each turn |
| `PathLib` | `path`, `remove_extension`, `temp_directory_path`, `current_path`, on `Text` | a client that goes on from each path it is given |
| `TextClient` | composes `FindAndReplace`, `Text` and `PathLib`: a text is cleaned, then split, joined and split again, or made a path | `SplitOutput`, `Rejoin`, `MakePath` |
| `SharedLibrary` | the class, over what `rcutils` hands out and takes back | one action per member, with its ways to fail; `Copy` and `CopyAssign` are the implicit ones |
| `ScopeExit` | guards of closures and of `std::function`s | `MakeScopeExit` `Cancel` `Move` `MoveAssign` `DestroyGuard` |
| `FindLibrary` | the search along the environment variable, on `Text` | `FindLibraryPath`, then one `Look` per element; `OthersChange` |
| `LibraryClient` | composes the three in a program with a stack of objects: each leaves in the reverse order of its construction, whatever is thrown | `Load...` `Copy...` `Make...` bring objects into scope, `Leave...` end them; a cleanup is `unload_library` of one object |
| `TempDirectoryProofs`, `RollingMeanProofs`, `TextClientProofs`, `LibraryProofs`, `FsHelperTypes`, `FsHelperProofs`, `ExpectedProofs` | theorems | see 4 |
| `TextProofs` | lemmas: induction over the natural numbers and over sequences, and what the folds of `Text` compute | |
| `MC...` | the instances that TLC checks | |

Definitions marked `(variant)` are ways a function could be wrong. Nothing in
the specifications uses them; each belongs to a property and shows, when
it replaces the function it stands before, that the property notices.

Abstractions. Names, data and contents are model values. A step of `FsHelper`
or `TempDirectory` is one system call and the code up to the next, since
only there can somebody else be seen. A path of the file system modules is the
sequence of its components; that the class `path` keeps them right is the
subject of `PathLib`. `readdir` lists the entries in any order, and one that was
made or removed since `opendir` may be listed or not, also a second time if it was
removed and made again.
"." and ".." are one name, `Dots`. `mkdtemp` answers a free name or fails. Every
system call of `FsHelper` may also fail with `EIO`, and each of `TempDirectory` with an error
that `std::filesystem` throws (`Fails`), which stands for `EACCES`,
`ENOSPC`, `ELOOP` and the like; `MaxFaults` bounds the kinds of calls that do so
during one call. A double is modelled by the integer it stands for, rounded to
`Mantissa` bits. A load of `SharedLibrary` is one reference of the dynamic loader
with one buffer for the path; which symbols it has is left open, so that each
question about one may be answered either way.
Operations of `expected` are atomic: an object is not shared between threads
without a lock, so its steps are those of one thread, and each operation is the
set of the memories it may end in.

History variables record what properties need and no code reads: in `FsHelper`
`trouble`, `seen`, `found`, `opened`; in `RollingMean` `n`, `total`; in `TempDirectory`
`maker`, `madeParent`, `error`; in `Expected` `last`; in `SharedLibrary` `shared`, `dropped`,
`failed`, `told`; in `ScopeExit` `made`, `moved`, `lost`; in `FindLibrary` `was`, `wasnt`;
in `LibraryClient` `asked`.

## 3. The runs

All numbers are of distinct states.

| Run | Instance | Shows |
|---|---|---|
| `TempDirectory` | 2 callers, 2 suffixes, `max_tries` 1; 34 077 | No two calls hold one directory (`Exclusive`); of the directories `base_name` + suffix, calls have made the ones they returned, also when a call throws (`MadeIffReturned`); the parent a call has made and nobody else has used is left behind only by a system call that failed (`ParentLeft`); what others made is not changed (`ForeignUntouched`); every call ends (`CallEnds`); the whole implements `NameAllocator` |
| `FsHelper_seq` | 1 process, 2 names, depth 2, 3 calls of any of the 6, 2 descriptors, 1 kind of system call failing per call; 188 902 up to symmetry | `Footprint`; `RightAlone`: what an answer is worth when nobody interferes, also when a system call fails; `NoStreamLeft`: only a call that fails keeps streams; `EmptyErrorExplained`: an exception with an empty code is thrown for a path that is a file only, whatever older calls have left in `errno` |
| `FsHelper_race` | 2 processes, 1 call each of any of 5, no failures; 729 453 up to symmetry | `AnswersAgree`, `TempExclusive`, `RemoveAllGone`; a null `DIR` is read only after a concurrent removal or without descriptors (`CrashExplained`) |
| `FsHelper_live` | 2 processes, 1 name, depth 2, 2 calls each of `create_directories` and `remove_all`; 141 088 | `CallEnds`, also when a listing meets what the other process has made since `opendir` |
| `FsHelper_nested` | 1 process, 1 call; a violation | `remove_all` of a directory in a directory answers false and leaves the directory |
| `FsHelper_exhaust` | 1 process, 5 calls; a violation | failing calls leak streams until `opendir` fails and its null pointer is read |
| `Expected_value` | 2 objects, 2 contents, a class `T` or `void`, every set of throwing operations without `make` of `E`; 106 460 | `FlagTracksContent`; `CrashExplained`; `OnlyConversionLeaks`; implements `ExpectedValue` |
| `Expected_terminate` | 2 objects; a violation | copying a value over an error ends in `std::terminate` |
| `Expected_destroyed` | 2 objects; a violation | assignment from a value, and `emplace`, use the error they destroyed |
| `RollingMean` | windows 1 to 3, 7 values of both signs, `T` and nanoseconds of 6 bits, `size_t` of 8, doubles of 3; 109 314 | `SumOfWindow`, `CountOfWindow`, and `MeanOfWindow` while the sum is not negative; `LimitsEnforced` for every time from well below to well above the limits |
| `TextClient` | 3 characters, texts to length 4, patterns to 2; paths from them and from the environment, appended strings to length 3, results to 6; 222 724 | `ReplacesAll` against one scan of the input; `Shrinks`, so that the loop ends; `split` against the stretches between delimiters; what `join` undoes; `ComponentsAgree`, `PartsGiveBack`, `AppendsInOrder`; undefined calls only at the root and the empty path |
| `Library` | 2 objects, 2 loads, 2 guards, 2 cleanups, 4 objects coming into scope, 2 directories; 314 722 up to symmetry | `FoundFirst`; `ResourcesAccounted`: what is loaded and who will unload it; `MessagesTaken`: which message `rcutils` is left with; `CleanupOnce`; `BadEndsExplained`: which programs meet undefined behaviour or `std::terminate` |

Why the bounds are enough to be of interest. Two callers and two
suffixes are what a collision and its way out need, and one retry reaches both
ends of the limit. Depth 2 with two names has every kind of tree `remove_all`
distinguishes: a file, an empty directory, one with files, one with directories,
and a mixture; a second process is the one that makes each check stale. Three
calls in a row let a failing call be followed by one that meets what it left;
five calls are what `FsHelper_exhaust` may use up two descriptors in. Two objects
are all a binary operation takes. Seven values go twice around the longest
window. Texts of length 4 hold two overlapping or touching occurrences of a
pattern of length 2, and delimiters at both ends, doubled and alone. Four objects in
a scope are a library, its copy, and a guard with the one it was moved to, or a
library made anew where one has left; the search paths have empty elements in front, in the
middle and at the end. With 3 bits, the largest number of nanoseconds, 31, is 32
as a double, as 2^63-1 is 2^63, and products round once more. One kind of failing
call at a time is enough to make each check of the code the wrong one; the racing
runs leave failures out to stay within reach, so that a failure and another process in one
call are not checked together.

Symmetry: file names and callers are interchangeable in `FsHelper`, objects,
loads, guards and cleanups in `LibraryClient` (nothing orders them), and it is used
for the runs without liveness only.

Deadlock is not checked where a client may have made all its calls
(`MaxCalls`, `MaxCount`, `MaxBuilt`, the end of a text) or the program may have died
(`Expected`, `FsHelper`, `PathLib`, `LibraryClient`). It is checked in `TempDirectory`.

Fairness. `FairSpec` of `TempDirectory` and `FsHelper` is weak fairness of each
caller's steps inside a call: the scheduler of the operating system runs a
thread whose system call does not block, and none of these does. Nothing makes a
client call again, give a directory back, or other programs stop. In
`TempDirectory` the call ends since the retries are counted; in `FsHelper` since
each component is tried once and each listing meets an entry once, but for what
others make while it goes on. That others make only so much is an assumption, the bound
`MaxCalls`: nothing in the code ends a `remove_all` for whose listing somebody else makes
new entries for ever.

## 4. The proofs

`TempDirectoryProofs`, for any set of callers and suffixes and any
`max_tries` in `Nat`, with `Foreign` not a caller and `NoSuffix` neither a suffix nor a
caller:

* `TypeCorrect`, `MadeAreReturned`, `ParentLeftExplained`, `MutualExclusion`: `TypeOK`,
  `MadeIffReturned`, `ParentLeft`, `Exclusive` are invariants. The inductive invariant `IInv`
  adds to the first three that an entry has a maker exactly if it
  is there (`MakerAgrees`), that a caller has a suffix from the draw on
  (`SuffixDrawn`), that the parent a call is alone in is there without an entry but its own
  (`ParentFree`), so that its `mkdir` does not collide, and that a call under way has thrown
  nothing (`NotThrown`). Without the first, a `mkdir` could take over an entry somebody made; without
  `SuffixDrawn`, a `Discard` could remove the maker of no entry. `Exclusive` follows:
  two holders of one directory would both be its maker.
* `ForeignSafe`: the action property `ForeignUntouched`, from `IInv`, action by
  action.
* `Refinement`: `Spec => ImplementsAllocator`. Under the mapping from caller to
  the suffix it holds, `Mkdir` in its successful branch is `Acquire` (`IInv'`
  says that nobody else holds the name), `Discard` is `Release`, and all others
  stutter.

`RollingMeanProofs`, for any window sizes above 0, any integers, and any number
of them:

* `SumCorrect`, `CountCorrect`, `TypeCorrect`: `SumOfWindow`, `CountOfWindow`,
  `TypeOK` are invariants. The inductive invariant says what each slot of the
  buffer holds: the latest value whose number is congruent to the slot
  (`SlotsHold`), and when the buffer counts as full (`Filled`). The value that
  leaves the sum is then the one that leaves the window.
* `MeanCorrect`: `MeanOfWindow`. `FitsAssumption` says that a `T` is no wider than
  a `size_t` and that the sum of a window fits it, without which `+=` on a signed
  `T` is undefined; then neither conversion of `getRollingMean` changes a sum that is
  not negative.
* `ClientRefines`, `ClientMeanCorrect`: every step of `DurationMean` is a step of
  `RollingMean` or leaves the accumulator alone, so that all of it holds there.
* `ClientLimits`: `LimitsEnforced`, for any `Width` and any `Mantissa` up to it (64 and
  53 are those of the code) and any durations of whole nanoseconds
  (`DurationsAssumption`). A number is an integer that is a double or lies between doubles `2 * v`
  apart, for a power of two `v` (`ApartCases`); rounding keeps the order (`NearestMonotone`), stays
  between the powers of two around the number, goes at most `v` away
  (`NearestApart`), and leaves powers of two alone (`NearestPower`). So a count is rounded by at most
  one part in `2^Mantissa` of it, which times the period is less than half of the spacing
  behind the limit (`StaysWithin`); and a product that is rounded down to the limit was at
  most two and a half of the `v` there beyond it (`NotFarBeyond`). The provers know no exponents: that
  `2^(n+1)` is `2 * 2^n` is proved by counting subsets (`Doubles`, from `FS_SUBSET`).

`LibraryProofs`, for any objects, loads, guards, cleanups and size of the scope:

* `LoadsAccounted`: `ResourcesAccounted`, with `UnsharedAlone`: a load that no
  copy shares has one object. Without it the unloading of one object could take
  the load of another. What was copied or assigned to is exempt, as the property says.
* `NoOldMessage`: `MessagesTaken`, which is inductive.
* `RunsOnce`: `CleanupOnce`. The invariant says that a cleanup nobody moved is in one
  guard at most, that one not made yet is nowhere, and that a guard is cancelled
  exactly if its cleanup counts as lost.
* `FirstFound`: the action property `FoundFirst`. The invariant `FindIInv` says that the places
  still to look at are a tail of the search path, that each place in front of it was seen
  without the file, and that what is there, or not, has been so at some moment of the call.
  That the tokens `split` answers for the environment variable are the elements of
  `FoundFirst`, in order, is the lemma `PlacesListed`, on `TokensListed` of `TextProofs`.
* `BadEnds`: `BadEndsExplained`. The scope is a stack without repetitions that
  lists what is alive (`ScopeListsLiving`), a guard is above the object its cleanup
  unloads (`TargetsBelow`), a guard that calls nothing comes from a move, and an
  object without a library was asked to unload (`UnloadedAsked`, also of a copy, which
  takes over how often). So copies need no exemption when a destructor of a guard ends the program.

`TextClientProofs`, for any characters, any texts, patterns and delimiters, any paths made of
them, and any lengths; `LettersAssumption` says that there is a letter `/tmp` can be made of:

* `Correct`, `ClientReplaces`: `ReplacesAll`. The invariant of the loop (`RestIsInput`): what is behind the last
  replacement is the rest of the input from some offset on, and what is in
  front of it is what the one scan of `Reference` gives up to there.
* `Terminates`, `ClientTerminates`: the action property `Shrinks`; `TypeCorrect`: `TypeOK`.
* `ClientJoins`: `JoinUndoesSplit`. What the loop of `split` has read, each token with a
  delimiter behind it, and what it is reading give back the text so far (`LinesGiveBack`).
* `ClientSplits`: `TokensAreStretches`. The tokens read so far list the stretches of the
  text so far, in the order of their ends and without those to be skipped (`LinesListed`); a list in that order
  has each stretch at the place the property counts (`ListsCount`).
  `ClientIInv` says that the tokens are those of the last text, whatever was called.
* `MembersAgree`, `UndefinedAtRoot`, `PartsTogether`, `Appends`: `ComponentsAgree`,
  `UndefinedOnlyAtRoot`, `PartsGiveBack`, `AppendsInOrder`. The set `Paths` is the inductive part:
  both members name the same components (`Agrees`), no component holds a separator, and the
  first component of a relative path has a name. Without the last, `path / name` could begin with an
  empty component, and `parent_path` make an absolute path of it. Every operation leads
  from `Paths` to `Paths`: for `/` since reading behind a delimiter is what reading from the
  beginning is (`ReadsBehind`), for the loop of `parent_path` by induction over the vector.

`TextProofs` has the lemmas those and the search path rest on. A theorem with a predicate as a
parameter is of no use to the provers here: induction is stated of the set of numbers, or
sequences, a statement holds for, from the library's theorem that `<` on `Nat` is
well-founded (`HoldsOfAll`, `HoldsOfSeq`). `FoldLeft` is defined by a recursive function on
sets of positions; `FoldExists` gives that function, and `FoldEmpty` and `FoldAppend` are all that is used
of it: a fold starts with its base, and one element more is one step more.

`FsHelperTypes` and `FsHelperProofs`, for any callers, names and depth, any
limits on descriptors, calls and failures, with `Dots` not a name:

* `TypeCorrect`, `StreamsClosed`: `TypeOK`, `NoStreamLeft`. `ShapeInv` says which
  labels a call has, that its argument fits them, that the frames of `remove_all`
  nest (each is the directory `sub` of the one below), and that the streams opened
  since the call began are the frames past `opendir` (`StreamsCounted`).
* `AnswersCorrect`, `RemoveAllCorrect`, `TempsExclusive`, `AloneCorrect`:
  `AnswersAgree`, `RemoveAllGone`, `TempExclusive`, `RightAlone`. Every step of a
  caller grows the tree by one path, shrinks it by one, or leaves it, and then tells the
  others (`OtherStep`); so what a caller has seen holds until it is told
  (`Known`), and so does what it has answered (`Right`). `Alone` follows
  `remove_all` through a directory without directories while nobody interferes:
  what is listed and not yet removed is what the directory still holds. `TempsDiffer`:
  only `mkdtemp` hands out a temporary directory, and its name is free.
* `FootprintKept`, `CrashesExplained`, `EmptyErrorsExplained`: the action
  properties `Footprint`, `CrashExplained`, `EmptyErrorExplained` (the last also while others interfere), action by
  action from the same invariant.

`ExpectedProofs`, for any objects and contents and any operations of `T` and `E` that
may throw, with the two local places `Tmp` and `Arg` not objects (`PlacesAssumption`)
and only constructions, copies and moves among what throws (`MayThrowAssumption`;
destructors are taken not to throw, as in the model):

* `FlagCorrect`, `EndsExplained`: `FlagTracksContent`, `CrashExplained` are invariants. The inductive invariant `IInv` says of the places
  that, while the program runs, each object alive holds what its flag says and
  every other object nothing (`Match`); the local places are empty between calls
  (in `TypeOK`). Without the part about the dead, a
  constructor could build over a content nobody destroyed; without the
  local places, the temporary of one assignment could be left over in the next.
* `LeaksExplained`: the action property `OnlyConversionLeaks`.
* `ImplementsSum`: `Spec => ImplementsValue`, the refinement of `ExpectedValue`.

The argument follows the code. A lemma for each function of the class says which
memories it may end in: the object was given a content (`Assigned`, `Made`, `Produced`,
`PassedOn`), exchanged or emptied (`Swapped`, `Emptied`), an exception left everything as it
was (`Strongly`) or contents of the same kinds (`Weakly`), or the program ended
(`Ended`). A second layer says what each is for the objects (`View`), which is what
the abstract effect speaks of. A lemma for each operation of a client
(`...Keeps`) puts the two together: `IInv` again, and a step of `ExpectedValue`.

Model-checked only: liveness (`CallEnds`, twice), which is out of the prover's reach. All other
properties of the passing runs are theorems. The four runs that expect a
violation show what the code does, on the instance that shows it.

## 5. What the code does that its documents do not say

With a run:

1. `remove_all` of a directory that holds a directory fails: the sub-directory
   is removed by the recursive call, then once more by the else-branch, whose
   failure is returned (`filesystem_helper.cpp:482-488`).
2. `remove_all` does not check `opendir`, and its early returns skip `closedir`
   (`:476`, `:484`, `:487`). `FsHelper_race` names the only two ways to the null
   pointer, `FsHelper_exhaust` shows one.
3. The assignment of `expected` for a `T` whose copy may throw is `noexcept`
   around that copy (`expected.hpp:703-712`): a value copied over an error, the case its
   comment is about, ends the program. So does a value copied over a value (`:808`, inside
   the same `noexcept`), which is in `CrashExplained`.
4. `expected::operator=(U &&)` and `emplace` restore the error, when the
   constructor of `T` throws, by assigning to the object they destroyed
   (`:1636`, `:1705`).

Met in the models, without a run of their own:

5. `create_temporary_directory` makes `max_tries + 1` tries
   (`filesystem_helper.cpp:375`; its document says "maximum number of tries").
6. `create_temp_directory` below a regular file throws a `std::system_error`
   with an empty code (`:325`): `EmptyErrorExplained` says when.
7. The converting constructors of `expected` build over a `T{}` whose destructor
   never runs (`expected.hpp:1517-1565`): `OnlyConversionLeaks`.
8. `or_else` of an rvalue with a function that returns nothing passes on an error
   that function may have moved from (`:2237`): `or_else_void` in `ExpectedValue`.
9. For an integral `T` a negative sum is divided as a `size_t`
   (`rolling_mean_accumulator.hpp:76`); `MeanOfWindow` is restricted to the others.
10. `path("/a").parent_path().filename()` and `.parent_path()`, and
    `path("").extension()`, take the last element of an empty vector
    (`filesystem_helper.cpp:203`, `:218`, `:225`): `UndefinedOnlyAtRoot`.
    `path("") / "a"` is `/a` (`:250`), where the standard that `path` is to
    conform to (`filesystem_helper.hpp:78-80`) has `a`: `AppendsInOrder` says nothing of
    a relative path appended to the empty one. And `extension()` of `/a.d/b` is `.d/b`
    (`:224`).
11. `convert_to_nanoseconds` compares with the limits as doubles
    (`time.hpp:37-51`): `microseconds(9223372036854776)` is accepted and returned as a
    negative number, although the document says that it throws (`:30-31`).
    `LimitsEnforced` says how far beyond the limits that goes.
12. `exists` and `is_directory` take any failure for "no" (`filesystem_helper.cpp:98-117`):
    `remove_all` of a directory it may not look at answers true with the
    directory still there, and `file_size` gives the size of a directory when its first
    look fails or the directory is made between the two. `RightAlone` and
    `AnswersAgree` name these cases. A directory that may not be read kills
    `remove_all` like one that is gone (`CrashExplained`).
13. A `SharedLibrary` can be copied, and so moved, although both objects then unload
    one load: `BadEndsExplained` says that undefined behaviour needs a copy. A
    copy assigned over a loaded object loses its load.
14. `std::bad_alloc` leaves the message of `rcutils` behind (`shared_library.cpp:33`), and
    nothing else does (`MessagesTaken`).
15. A guard that was moved from still runs its cleanup (`scope_exit.hpp:34`): a closure is
    copied, so it runs twice; an empty `std::function` throws in the destructor and
    ends the program. `make_scope_exit` itself returns a prvalue and moves
    nothing. A guard that calls `unload_library` ends the program when somebody
    unloaded before it.
16. `find_library_path` looks for an empty element of the search path in `/`, while
    `path_for_library("")` looks in the working directory; a relative element gives a
    relative path, where the document promises an absolute one
    (`docs/FEATURES.md:66`).
17. When the last `mkdir` of `create_temporary_directory` fails, the parent it has made stays
    (`filesystem_helper.cpp:372`); `ParentLeft` says when.

## 6. Not modelled, and why

* Drive letters and the Windows branches of the file helpers: the models are of the POSIX
  build.
* Symbolic links and files that are neither regular nor directories, other than as
  calls that fail.
* The comparisons of `expected`, its trivial specializations and conditionally deleted
  members, `map` to another type, references as `T`. For `void`, `swap`, `emplace`
  and `value` do not compile, so that their code for `void` cannot run.
* A window of size 0 (`rolling_mean_accumulator.hpp:58`): undefined from the first call on.
* Floating-point `T` in the accumulator: its error has no bound to state.
* Periods that are not whole nanoseconds in `convert_to_nanoseconds`.
* Which symbols a library has, and the names of library files.
* `get_executable_name` copies one string. Assertions throw on their argument.
  `pointer_traits`, `endian`, `unique_lock` and the macros have no behaviour at
  run time.

## 7. Plan

Done, in this order: `TempDirectory` with its abstraction and proofs; `FsHelper`;
`Expected` with its abstraction; `RollingMean` and its proofs; the text helpers
and `PathLib`; the library modules and their client; system errors in `FsHelper`;
`TimeConversion`; `void` in `Expected`.

The proofs, in this order: `TempDirectory`, `RollingMean`, `LibraryClient` with what
it composes, `FindAndReplace`, `FsHelper`, `Expected`, `Text`, `PathLib`, `FindLibrary`,
`TimeConversion`.

Left, should the code come to need it: a failing system call and another process in one
call (`FsHelper_race` without failures), periods that are not whole
nanoseconds, and the comparisons of `expected`.
