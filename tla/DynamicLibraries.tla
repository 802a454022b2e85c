-------------------------- MODULE DynamicLibraries --------------------------
(***************************************************************************)
(* src/lib/dynamic_library.js, library.js and src/src/win32-dlfcn.cc:      *)
(* JavaScript environments (the main thread and workers) of one process    *)
(* open and close libraries, look up symbols and call what they found.     *)
(* Each JavaScript function runs to its end in its environment, but the    *)
(* loader is shared, and so is the last error of win32-dlfcn.cc.           *)
(***************************************************************************)
EXTENDS Naturals, FiniteSets

CONSTANTS
  Envs,       \* JavaScript environments
  Libraries,  \* the DynamicLibrary objects that can be created
  Files,      \* the names given to dlopen
  Kind(_),    \* of a file: "object", "script" (a text with GROUP(...)), "other" or
              \* "unreadable" (it is missing, say)
  Target(_),  \* of a script: the first name in its GROUP(...)
  Matches(_), \* of a name: it contains .so, and no space or parenthesis
  Symbols,    \* the names given to dlsym
  Exports(_), \* the symbols that an object exports
  None        \* no file, no library

ASSUME LibrariesAssumption == IsFiniteSet(Libraries)
ASSUME NoneAssumption == None \notin Files \cup Libraries
ASSUME FilesAssumption ==
  \A f \in Files : /\ Kind(f) \in {"object", "script", "other", "unreadable"}
                   /\ Target(f) \in Files /\ Matches(f) \in BOOLEAN
ASSUME ExportsAssumption == \A f \in Files : Exports(f) \subseteq Symbols

VARIABLES
  host,      \* "glibc", "posix" (macOS, musl) or "win32"
  loads,     \* the loader: how often each object is open
  lastError, \* the file that the pending error of dlerror() is about, per thread
  lib,       \* the DynamicLibrary objects
  step,      \* what each environment is about to do
  thrown,    \* the exception that the last call of each environment ended with: what
             \* failed for which file (asked for, opened last, named by the exception)
  functions  \* per library, the symbols that functions were made from

libVars == <<host, loads, lastError, lib, step, thrown, functions>>

Idle == [op |-> "idle", lib |-> None, file |-> None]
Steps == [op : {"idle", "open", "openError", "symbolError"},
          lib : Libraries \cup {None}, file : Files \cup {None}]
NewLibrary == [state |-> "new", env |-> None, asked |-> None, handle |-> None, closes |-> 0]
Failures == {"linking", "reading", "type", "symbol"}
Exceptions == [error : {"none"} \cup Failures,
               asked : Files \cup {None}, file : Files \cup {None}, about : Files \cup {None}]
NoError == [error |-> "none", asked |-> None, file |-> None, about |-> None]

\* Mutant: the last error belongs to the process everywhere.
SetErrorShared(e, f) == [x \in Envs |-> f]

\* In win32-dlfcn.cc lastError is a static variable; elsewhere each thread has
\* its own.
SetError(e, f) == IF host = "win32" THEN [x \in Envs |-> f] ELSE [lastError EXCEPT ![e] = f]

-----------------------------------------------------------------------------
LibInit ==
  /\ host \in {"glibc", "posix", "win32"}
  /\ loads = [f \in Files |-> 0]
  /\ lastError = [e \in Envs |-> None]
  /\ lib = [l \in Libraries |-> NewLibrary]
  /\ step = [e \in Envs |-> Idle]
  /\ thrown = [e \in Envs |-> NoError]
  /\ functions = [l \in Libraries |-> {}]

\* new DynamicLibrary(f): enters the constructor.
New(e, l, f) ==
  /\ step[e].op = "idle" /\ lib[l].state = "new"
  /\ step' = [step EXCEPT ![e] = [op |-> "open", lib |-> l, file |-> f]]
  /\ lib' = [lib EXCEPT ![l] = [@ EXCEPT !.state = "opening", !.env = e, !.asked = f]]
  /\ thrown' = [thrown EXCEPT ![e] = NoError]
  /\ UNCHANGED <<host, loads, lastError, functions>>

\* this._handle = dlopen(path, mode)
Dlopen(e) ==
  LET l == step[e].lib
      f == step[e].file
  IN /\ step[e].op = "open"
     /\ \/ /\ Kind(f) = "object"
           /\ loads' = [loads EXCEPT ![f] = @ + 1]
           /\ lib' = [lib EXCEPT ![l] = [@ EXCEPT !.state = "open", !.handle = f]]
           /\ step' = [step EXCEPT ![e] = Idle]
           /\ UNCHANGED lastError
        \/ /\ Kind(f) # "object"
           /\ lastError' = SetError(e, f)
           /\ step' = [step EXCEPT ![e] = [@ EXCEPT !.op = "openError"]]
           /\ UNCHANGED <<loads, lib>>
     /\ UNCHANGED <<host, thrown, functions>>

\* A message begins with the name of the file, and the pattern of line 66 takes
\* it.  (Messages of macOS and musl begin with other words.)
Named(err) == host = "glibc" /\ Matches(err)

\* Mutant: the name is taken from any message.
FollowsUnmatched(err) == err # None /\ host # "win32" /\ Kind(err) = "script"

\* Both patterns match: the file of the message has a GROUP to follow.
Follows(err) == err # None /\ Named(err) /\ Kind(err) = "script"

\* The exception otherwise: err.match of null, readFileSync's, or the last line's.
Failure(err) ==
  IF err = None THEN "type"
  ELSE IF Named(err) /\ Kind(err) = "unreadable" THEN "reading" ELSE "linking"

\* err = this.error(): another file to try, or an exception.
OpenError(e) ==
  LET l == step[e].lib
      err == lastError[e]
  IN /\ step[e].op = "openError"
     /\ lastError' = SetError(e, None)
     /\ \/ /\ Follows(err)
           /\ step' = [step EXCEPT ![e] = [@ EXCEPT !.op = "open", !.file = Target(err)]]
           /\ UNCHANGED <<lib, thrown>>
        \/ /\ ~Follows(err)
           /\ thrown' = [thrown EXCEPT ![e] =
                           [error |-> Failure(err), asked |-> lib[l].asked,
                            file |-> step[e].file, about |-> err]]
           /\ lib' = [lib EXCEPT ![l] = NewLibrary]
           /\ step' = [step EXCEPT ![e] = Idle]
     /\ UNCHANGED <<host, loads, functions>>

\* dlclose
Unloaded(f) == [loads EXCEPT ![f] = @ - 1]

\* Mutant: Library closes the object that it drops.
GetAndClose(e, l, s) ==
  LET f == lib[l].handle
  IN /\ step[e].op = "idle" /\ lib[l].state = "open" /\ lib[l].env = e
     /\ s \in Exports(f) /\ loads[f] > 0
     /\ functions' = [functions EXCEPT ![l] = @ \cup {s}]
     /\ loads' = Unloaded(f)
     /\ UNCHANGED <<lastError, step, thrown, host, lib>>

\* DynamicLibrary.prototype.get, and the function that Library makes of it.
Get(e, l, s) ==
  LET f == lib[l].handle
  IN /\ step[e].op = "idle" /\ lib[l].state = "open" /\ lib[l].env = e
     /\ \/ /\ s \in Exports(f)
           /\ functions' = [functions EXCEPT ![l] = @ \cup {s}]
           /\ UNCHANGED <<lastError, step>>
        \/ /\ s \notin Exports(f)
           /\ lastError' = SetError(e, f)
           /\ step' = [step EXCEPT ![e] = [op |-> "symbolError", lib |-> l, file |-> f]]
           /\ UNCHANGED functions
     /\ thrown' = [thrown EXCEPT ![e] = NoError]
     /\ UNCHANGED <<host, loads, lib>>

\* throw new Error('Dynamic Symbol Retrieval Error: ' + this.error())
SymbolError(e) ==
  /\ step[e].op = "symbolError"
  /\ lastError' = SetError(e, None)
  /\ thrown' = [thrown EXCEPT ![e] =
                  [error |-> "symbol", asked |-> lib[step[e].lib].asked,
                   file |-> step[e].file, about |-> lastError[e]]]
  /\ step' = [step EXCEPT ![e] = Idle]
  /\ UNCHANGED <<host, loads, lib, functions>>

\* DynamicLibrary.prototype.close: the handle stays in the object, and nothing
\* prevents a second call.  (At most two; an error of dlclose stays pending.)
Close(e, l) ==
  LET f == lib[l].handle
  IN /\ step[e].op = "idle" /\ lib[l].state = "open" /\ lib[l].env = e /\ lib[l].closes < 2
     /\ lib' = [lib EXCEPT ![l].closes = @ + 1]
     /\ \/ loads[f] > 0 /\ loads' = Unloaded(f) /\ UNCHANGED lastError
        \/ loads[f] = 0 /\ lastError' = SetError(e, f) /\ UNCHANGED loads
     /\ thrown' = [thrown EXCEPT ![e] = NoError]
     /\ UNCHANGED <<host, step, functions>>

LibNext ==
  \E e \in Envs :
    \/ Dlopen(e) \/ OpenError(e) \/ SymbolError(e)
    \/ \E l \in Libraries :
         \/ \E f \in Files : New(e, l, f)
         \/ \E s \in Symbols : Get(e, l, s)
         \/ Close(e, l)

LibSpec == LibInit /\ [][LibNext]_libVars

-----------------------------------------------------------------------------
(* Properties.                                                             *)

LibTypeOK ==
  /\ host \in {"glibc", "posix", "win32"}
  /\ loads \in [Files -> 0..Cardinality(Libraries)]
  /\ lastError \in [Envs -> Files \cup {None}]
  /\ lib \in [Libraries -> [state : {"new", "opening", "open"}, env : Envs \cup {None},
                            asked : Files \cup {None}, handle : Files \cup {None},
                            closes : 0..2]]
  /\ step \in [Envs -> Steps]
  /\ thrown \in [Envs -> Exceptions]
  /\ functions \in [Libraries -> SUBSET Symbols]

\* The functions made from the symbols of a library can be called as long as
\* the program has not closed it (a Library made from a path cannot be closed),
\* whoever else opens and closes the same file, unless somebody closed another
\* object of that file twice.  (close, Library)
FunctionsStayMapped ==
  \A l \in Libraries :
    LET f == lib[l].handle
    IN functions[l] # {} /\ lib[l].closes = 0
         /\ (\A k \in Libraries : lib[k].handle = f => lib[k].closes < 2)
       => loads[f] > 0

\* An exception tells about the file that could not be opened, or that lacks
\* the symbol, even if environments fail at the same time; not on Windows,
\* where they share the last error.  (error, win32-dlfcn.cc:28)
ErrorIsOwn ==
  \A e \in Envs :
    host # "win32" /\ thrown[e].error # "none" => thrown[e].about = thrown[e].file

\* Where the comment in the constructor (lines 48-61) has it go on: from a
\* linker script whose name the loader's message gives.
Followable(h, f) == h = "glibc" /\ Matches(f) /\ Kind(f) = "script"

\* On host h, g is f or where the scripts from f on lead to: g is in every set
\* with f that no followable script leads out of.
LeadsTo(h, f, g) ==
  \A S \in SUBSET Files :
    f \in S /\ (\A x \in S : Followable(h, x) => Target(x) \in S) => g \in S

\* The object that is opened is the file asked for, or the one that linker
\* scripts lead to from there, and an exception of the constructor is about the
\* first file on this way that cannot be opened and leads nowhere, whatever other
\* environments do in between; for exceptions not on Windows.  (DynamicLibrary)
ScriptsFollowed ==
  /\ \A l \in Libraries : lib[l].state = "open" => LeadsTo(host, lib[l].asked, lib[l].handle)
  /\ \A e \in Envs :
       host # "win32" /\ thrown[e].error \in Failures \ {"symbol"} =>
         /\ LeadsTo(host, thrown[e].asked, thrown[e].about)
         /\ Kind(thrown[e].about) # "object" /\ ~Followable(host, thrown[e].about)
=============================================================================
