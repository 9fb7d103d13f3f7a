----------------------------- MODULE FindLibrary -----------------------------
(***************************************************************************)
(* find_library_path and path_for_library (src/find_library.cpp), which     *)
(* look for the file of one library while other programs install and remove *)
(* it, and the environment variable they read (src/env.cpp).                *)
(*                                                                          *)
(* A directory is one character; the path found is told by its directory.   *)
(***************************************************************************)
EXTENDS Text

CONSTANTS
  Dirs,       \* directories
  EnvTexts    \* values of LD_LIBRARY_PATH

COLON == ":"

ASSUME EnvAssumption == COLON \notin Dirs /\ EnvTexts \subseteq Seq(Dirs \union {COLON})

\* Where find_library_path looks for an empty element: search_path + "/" + file.
Root     == "/"
Places   == Dirs \union {Root}
NotFound == ""

VARIABLES
  env,       \* the value get_env_var has read, <<>> when there is none
  search,    \* the places still to look at
  present,   \* the places that hold the file
  path,      \* what was answered: the directory of the path, or NotFound
  was, wasnt \* history: places that have, have not held the file during the call

findVars == <<env, search, present, path, was, wasnt>>

\* Between the calls nobody looks at the files and the variable, which anybody may
\* change; their values are chosen when a call starts.
Rests  == env' = <<>> /\ present' = {} /\ search' = <<>> /\ was' = {} /\ wasnt' = {}

FindInit ==
  /\ env = <<>> /\ path = NotFound
  /\ present = {} /\ search = <<>> /\ was = {} /\ wasnt = {}

Searching == was \union wasnt # {}

\* (variant) empty elements are left out.
SearchNamed(text) ==
  LET tokens == Tokens(text, COLON, TRUE)
  IN  [i \in DOMAIN tokens |-> tokens[i][1]]

\* split(get_env_var(kPathVar), kPathSeparator)
SearchPaths(text) ==
  LET tokens == Tokens(text, COLON, FALSE)
  IN  [i \in DOMAIN tokens |-> IF tokens[i] = <<>> THEN Root ELSE tokens[i][1]]

\* What get_env_var can answer: a variable that is not set is empty.
GetEnvVar == EnvTexts \union {<<>>}

FindLibraryPath ==
  /\ ~Searching
  /\ env' \in GetEnvVar
  /\ search' = SearchPaths(env')
  /\ present' \in SUBSET Places
  /\ was' = present' /\ wasnt' = Places \ present'
  /\ path' = NotFound

\* One rcutils_is_file, with the return that follows it.
Look ==
  /\ Searching
  /\ \/ search = <<>> /\ path' = NotFound /\ Rests
     \/ search # <<>> /\ Head(search) \in present /\ path' = Head(search) /\ Rests
     \/ /\ search # <<>> /\ Head(search) \notin present
        /\ search' = Tail(search)
        /\ UNCHANGED <<env, present, path, was, wasnt>>

\* Another program installs the file in a place, or removes it.
OthersChange ==
  /\ Searching
  /\ \E d \in Places :
       \/ d \in present /\ present' = present \ {d} /\ wasnt' = wasnt \union {d} /\ UNCHANGED was
       \/ d \notin present /\ present' = present \union {d} /\ was' = was \union {d} /\ UNCHANGED wasnt
  /\ UNCHANGED <<env, search, path>>

\* path_for_library looks once, into a directory it is given.  When the file cannot
\* be looked at, std::filesystem::filesystem_error is thrown, and there is no answer.
PathForLibrary ==
  /\ ~Searching
  /\ \E directory \in Dirs, there \in SUBSET Places :
       \/ directory \in there /\ path' = directory
       \/ directory \notin there /\ path' = NotFound
       \/ UNCHANGED path
  /\ UNCHANGED <<env, search, present, was, wasnt>>

----------------------------------------------------------------------------
(* Properties.                                                              *)

FindTypeOK ==
  /\ env \in GetEnvVar
  /\ present \union was \union wasnt \subseteq Places
  /\ Range(search) \subseteq Places
  /\ path \in Places \union {NotFound}

\* Where an element of the search path begins: all may be empty but one behind
\* the last separator, which split does not answer.
Elements   == {i \in DOMAIN env : i = 1 \/ env[i - 1] = COLON}
PlaceAt(i) == IF env[i] = COLON THEN Root ELSE env[i]

\* "Searches for the given library name in a OS's library paths environment
\* variable" (docs/FEATURES.md): the answer is the first place of the search path
\* that holds the file, as far as others hold still: it did hold it at some moment
\* of the call, and at some moment each place before it did not; nor did any of
\* the places when the answer is that there is none.
FoundFirst ==
  [][Searching /\ ~Searching' =>
       LET before(i) == {PlaceAt(j) : j \in {k \in Elements : k < i}}
       IN  \/ path' = NotFound /\ before(Len(env) + 1) \subseteq wasnt
           \/ \E i \in Elements : PlaceAt(i) = path' /\ path' \in was /\ before(i) \subseteq wasnt]_findVars
=============================================================================
