------------------------------- MODULE PathLib -------------------------------
(***************************************************************************)
(* The class rcpputils::fs::path (src/filesystem_helper.cpp:85-262) and      *)
(* remove_extension (498-510), on the platforms without drive letters.       *)
(*                                                                          *)
(* A path keeps the same thing twice: str is path_, vec is path_as_vector_.  *)
(* Every member below is an operator that answers the path the member        *)
(* returns; the state is one path object and what a client does with it.    *)
(***************************************************************************)
EXTENDS Text

CONSTANTS
  Letters,    \* characters that mean nothing to the class
  MaxInput,   \* bound: the longest string given by the client
  MaxLength   \* bound: the longest path the client makes

\* There is a character that "/tmp" can be made of.
ASSUME LettersAssumption == Letters # {}

SEP == "/"
BACKSLASH == "\\"
DOT == "."
TMP == <<SEP>> \o <<CHOOSE ch \in Letters : TRUE>>   \* "/tmp"

Alphabet == Letters \union {SEP, BACKSLASH, DOT}
Strings(m) == UNION {[1 .. k -> Alphabet] : k \in 0 .. m}

\* path(p): separators become the preferred one, and the string is split.
Native(s) == [i \in DOMAIN s |-> IF s[i] = BACKSLASH THEN SEP ELSE s[i]]
Path(s)   == [str |-> Native(s), vec |-> Split(Native(s), SEP)]

EmptyPath     == Path(<<>>)
IsEmpty(p)    == p.str = <<>>
IsAbsolute(p) == p.str # <<>> /\ p.str[1] = SEP

\* (variant) only the string is extended.
DivideString(p, other) ==
  IF IsAbsolute(other) THEN other
  ELSE [p EXCEPT !.str = (IF p.str = <<>> \/ Last(p.str) # SEP THEN Append(@, SEP) ELSE @) \o other.str]

\* (variant) an absolute path is appended like any other.
DivideNeverReplaces(p, other) ==
  [str |-> (IF p.str = <<>> \/ Last(p.str) # SEP THEN Append(p.str, SEP) ELSE p.str) \o other.str,
   vec |-> p.vec \o other.vec]

\* operator/= and operator/: an absolute path replaces, another is appended
\* behind one separator.
Divide(p, other) ==
  IF IsAbsolute(other) THEN other
  ELSE [str |-> (IF p.str = <<>> \/ Last(p.str) # SEP THEN Append(p.str, SEP) ELSE p.str) \o other.str,
        vec |-> p.vec \o other.vec]

\* The loop of parent_path over all components but the last.
Rebuild(p) ==
  FoldLeft(LAMBDA parent, item :
             IF IsEmpty(parent) /\ ~IsAbsolute(p) THEN Path(item) ELSE Divide(parent, Path(item)),
           EmptyPath, Front(p.vec))

ParentPath(p) ==
  CASE IsEmpty(p) -> EmptyPath
    [] ~IsEmpty(p) /\ Len(p.vec) = 1 -> IF IsAbsolute(p) THEN Path(<<SEP>>) ELSE Path(<<DOT>>)
    [] OTHER -> Rebuild(p)

Filename(p) == IF IsEmpty(p) THEN EmptyPath ELSE Path(Last(p.vec))

\* "." and what follows the last dot of the whole string.
Extension(p) ==
  LET parts == Split(p.str, DOT)
  IN  IF Len(parts) = 1 THEN EmptyPath ELSE Path(<<DOT>> \o Last(parts))

\* (variant) the first dot is taken for the last.
WithoutFirst(p) ==
  IF DOT \in Range(p.str) THEN Path(SubSeq(p.str, 1, SelectInSeq(p.str, LAMBDA ch : ch = DOT) - 1)) ELSE p

\* One round of remove_extension.
WithoutExtension(p) ==
  IF DOT \in Range(p.str) THEN Path(SubSeq(p.str, 1, SelectLastInSeq(p.str, LAMBDA ch : ch = DOT) - 1)) ELSE p

\* for i < n_times, until there is no dot left.
RemoveExtension(p, n_times) == FoldLeft(LAMBDA q, i : WithoutExtension(q), p, [i \in 1 .. n_times |-> i])

----------------------------------------------------------------------------
(* A client that goes on from each path it is given.  status is "none" until *)
(* there is one, and names the member whose behaviour was undefined.        *)

VARIABLES path, status

pathVars == <<path, status>>

PathInit == path = EmptyPath /\ status = "none"

Gives(p) ==
  /\ Len(p.str) <= MaxLength
  /\ path' = p
  /\ UNCHANGED status

\* The call takes the last element of a vector that has none.
Undefined(member) ==
  /\ status' = member
  /\ UNCHANGED path

\* temp_directory_path() with the value of TMPDIR, empty when it is not set, and
\* current_path(), which throws when getcwd has no answer.
TempDirectoryPath(tmpdir) == Path(IF tmpdir = <<>> THEN TMP ELSE tmpdir)
ClientTempDirectory == \E tmpdir \in Strings(1) : Gives(TempDirectoryPath(tmpdir))
ClientCurrentPath   == \E cwd \in Strings(1) : Gives(Path(<<SEP>> \o cwd))

ClientAppends(s) == Gives(Divide(path, Path(s)))

NoLastComponent == ~IsEmpty(path) /\ path.vec = <<>>

ClientParentPath ==
  \/ NoLastComponent /\ Undefined("parent_path")
  \/ ~NoLastComponent /\ Gives(ParentPath(path))
ClientFilename ==
  \/ NoLastComponent /\ Undefined("filename")
  \/ ~NoLastComponent /\ Gives(Filename(path))
ClientExtension ==
  \/ Split(path.str, DOT) = <<>> /\ Undefined("extension")
  \/ Split(path.str, DOT) # <<>> /\ Gives(Extension(path))
ClientRemovesExtension(n_times) == Gives(RemoveExtension(path, n_times))

PathNext ==
  /\ status = "ok"
  /\ \/ ClientTempDirectory
     \/ ClientCurrentPath
     \/ \E s \in Strings(MaxInput) : ClientAppends(s)
     \/ ClientParentPath
     \/ ClientFilename
     \/ ClientExtension
     \/ \E n_times \in 0 .. 2 : ClientRemovesExtension(n_times)

----------------------------------------------------------------------------
(* Properties.                                                              *)

\* The components that are not empty.
Named(vec) == NonEmpty(vec)

\* The two members of a path name the same components, whatever it was made
\* from: create_directories walks the vector, the system calls get the string.
ComponentsAgree == Named(path.vec) = Named(Split(path.str, SEP))

\* The parts of a path give it back.  parent_path() / filename() leads to the path
\* ("." / name when it is a single relative name), and the parent is absolute
\* exactly if the path is; remove_extension takes off exactly what extension()
\* answers, unless the path ends in a dot.
PartsGiveBack ==
  /\ path.vec # <<>> =>
       LET parent == ParentPath(path)
           back   == Named(Divide(parent, Filename(path)).vec)
       IN  /\ IsAbsolute(parent) <=> IsAbsolute(path)
           /\ back = IF Len(path.vec) = 1 /\ ~IsAbsolute(path)
                     THEN <<<<DOT>>>> \o Named(path.vec) ELSE Named(path.vec)
  /\ DOT \in Range(path.str) /\ Last(path.str) # DOT =>
       path.str = WithoutExtension(path).str \o Extension(path).str

\* Appending step by step or at once gives the same path.  Nothing is said of a
\* relative path that is appended to the empty one first: path("") / "a" is "/a" here,
\* and "a" in the standard that path is to conform to (filesystem_helper.hpp:78-80).
AppendsInOrder ==
  status # "none" => \A s \in Strings(2), t \in Strings(1) :
    LET q == Path(s)  r == Path(t)
    IN  ~IsEmpty(q) \/ IsAbsolute(r) =>
          Divide(path, Divide(q, r)).str = Divide(Divide(path, q), r).str

\* The standard defines filename(), parent_path() and extension() for every path;
\* here a call takes the last element of a vector that has none only for a path
\* that parent_path() made of separators alone, and for the empty one.
UndefinedOnlyAtRoot ==
  /\ status \in {"filename", "parent_path"} => Range(path.str) = {SEP}
  /\ status = "extension" => IsEmpty(path)
=============================================================================
