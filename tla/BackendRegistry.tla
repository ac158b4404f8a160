--------------------------- MODULE BackendRegistry ---------------------------
(***************************************************************************)
(* The registry of backends and the plugin loader (src/backend/registry.cpp *)
(* and plugin_loader.cpp): threads that create connections for a scheme    *)
(* nobody registered load its plugin, outside the registry's mutex, and    *)
(* may race each other.                                                    *)
(*                                                                         *)
(* A step is a critical section of the mutex or a call of the dynamic      *)
(* loader, which counts the references to a library it has loaded.         *)
(***************************************************************************)
EXTENDS Naturals, FiniteSets

CONSTANTS
  Loaders,    \* threads that create connections
  Spellings,  \* how connection strings and specs spell schemes
  SchemeOf,   \* [Spellings -> the scheme, in lower case; "odbc" for a bare string]
  Builtin,    \* lower-case schemes registered at start-up
  Nowhere     \* the scheme of an idle thread

\* What try_load_plugin() finds in the plugin directory.
Plugins == {"missing", "no abi symbol", "other abi", "no register symbol", "good"}

Keys == {SchemeOf[s] : s \in Spellings}

ASSUME LoaderAssumption ==
  /\ IsFiniteSet(Loaders) /\ Builtin \subseteq Keys /\ Nowhere \notin Keys

VARIABLES
  plugin,      \* [Keys -> Plugins]: the plugin directory
  registered,  \* schemes with a factory, backends_
  library,     \* [Keys -> Nat]: references to the plugin's library
  seeker       \* [Loaders -> [pc, key, end]]

loaderVars == <<plugin, registered, library, seeker>>

Seekers ==
  [pc : {"idle", "lookup", "open", "check", "register", "again"}, key : Keys \cup {Nowhere},
   end : {"none", "made", "unknown"}]

\* What the registry is made of: a scheme is in lower case wherever it is kept
\* (registry.cpp:24-56, 127-141).
LoaderTypeOK ==
  /\ plugin \in [Keys -> Plugins] /\ registered \in SUBSET Keys
  /\ library \in [Keys -> 0..Cardinality(Loaders)]
  /\ seeker \in [Loaders -> Seekers]

LoaderInit ==
  /\ plugin \in [Keys -> Plugins] /\ registered = Builtin
  /\ library = [k \in Keys |-> 0]
  /\ seeker = [t \in Loaders |-> [pc |-> "idle", key |-> Nowhere, end |-> "none"]]

Go(t, pc) == seeker' = [seeker EXCEPT ![t].pc = pc]
Tell(t, end) == seeker' = [seeker EXCEPT ![t].pc = "idle", ![t].end = end]

\* Mutant: the scheme is looked up as it is spelled.
KeyAsSpelled(spelling) == spelling

\* create() through parse_scheme(), create_for_scheme(): the scheme is lowered.
KeyOf(spelling) == SchemeOf[spelling]

Create(t, spelling) ==
  /\ seeker[t].pc = "idle" /\ seeker[t].end = "none"
  /\ seeker' = [seeker EXCEPT ![t] = [pc |-> "lookup", key |-> KeyOf(spelling), end |-> "none"]]
  /\ UNCHANGED <<plugin, registered, library>>

\* resolve(): the first look, under the mutex.
Lookup(t) ==
  /\ seeker[t].pc = "lookup"
  /\ IF seeker[t].key \in registered THEN Tell(t, "made") ELSE Go(t, "open")
  /\ UNCHANGED <<plugin, registered, library>>

\* dlopen(), or no plugin directory.
OpenLibrary(t) ==
  /\ seeker[t].pc = "open"
  /\ IF plugin[seeker[t].key] = "missing"
     THEN Tell(t, "unknown") /\ UNCHANGED library
     ELSE Go(t, "check") /\ library' = [library EXCEPT ![seeker[t].key] = @ + 1]
  /\ UNCHANGED <<plugin, registered>>

\* Mutant: the library of a plugin that does not fit stays open.
CheckAbiLeaking(t) ==
  /\ seeker[t].pc = "check"
  /\ IF plugin[seeker[t].key] = "good" THEN Go(t, "register") ELSE Tell(t, "unknown")
  /\ UNCHANGED <<plugin, registered, library>>

\* The symbols and the ABI version: a plugin that does not fit is closed again.
CheckAbi(t) ==
  /\ seeker[t].pc = "check"
  /\ IF plugin[seeker[t].key] = "good"
     THEN Go(t, "register") /\ UNCHANGED library
     ELSE Tell(t, "unknown") /\ library' = [library EXCEPT ![seeker[t].key] = @ - 1]
  /\ UNCHANGED <<plugin, registered>>

\* Mutant: who loses the race has not loaded.
RegisterLost(t) ==
  /\ seeker[t].pc = "register"
  /\ registered' = registered \cup {seeker[t].key}
  /\ IF seeker[t].key \in registered THEN Tell(t, "unknown") ELSE Go(t, "again")
  /\ UNCHANGED <<plugin, library>>

\* The plugin calls register_backend(), which throws for a scheme that is there;
\* resolve() takes that for loaded.
Register(t) ==
  /\ seeker[t].pc = "register"
  /\ registered' = registered \cup {seeker[t].key}
  /\ Go(t, "again")
  /\ UNCHANGED <<plugin, library>>

\* resolve(): the second look.
LookupAgain(t) ==
  /\ seeker[t].pc = "again"
  /\ Tell(t, IF seeker[t].key \in registered THEN "made" ELSE "unknown")
  /\ UNCHANGED <<plugin, registered, library>>

SeekerStep(t) == Lookup(t) \/ OpenLibrary(t) \/ CheckAbi(t) \/ Register(t) \/ LookupAgain(t)

LoaderNext == \E t \in Loaders : SeekerStep(t) \/ \E spelling \in Spellings : Create(t, spelling)

LoaderSpec == LoaderInit /\ [][LoaderNext]_loaderVars
-----------------------------------------------------------------------------
\* registry.cpp:85-87 "the map has the entry either way": with a plugin that
\* fits, or a scheme that is built in, no thread is told that the scheme is
\* unknown, however it spells it and whoever loads beside it; without either,
\* none gets a connection.
FoundWhenThere ==
  \A t \in Loaders :
    seeker[t].end # "none" =>
      (seeker[t].end = "made" <=> plugin[seeker[t].key] = "good" \/ seeker[t].key \in Builtin)

\* A factory that can be called has its code in memory, and a plugin that was
\* refused is not kept (plugin_loader.cpp:109-152): a thread that is on its way
\* holds the only other references.
LibrariesBalance ==
  \A k \in Keys :
    LET loading == {t \in Loaders : seeker[t].key = k /\ seeker[t].pc \in {"check", "register"}}
    IN  /\ k \in registered \ Builtin => library[k] > 0
        /\ k \notin registered => library[k] = Cardinality(loading)

\* However threads race for a plugin: with one that fits nobody is told that the
\* scheme is unknown, a factory that can be called has its library in memory, a
\* refused library is gone, and schemes are kept in lower case
\* (backend/registry.cpp:24-87, plugin_loader.cpp:109-152).
LoaderSound == LoaderTypeOK /\ FoundWhenThere /\ LibrariesBalance
=============================================================================
