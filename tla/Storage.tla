------------------------------ MODULE Storage ------------------------------
(***************************************************************************)
(* The queue directories on disk and the primitives of domain/storage.py   *)
(* that the ingest engine and the operator commands build on.              *)
(*                                                                         *)
(* A path is a queue root, the relative path a storage template renders    *)
(* for a file, and the numeric suffix collision avoidance appended to it   *)
(* (0: none).  A disk maps every path to the content stored there.  A      *)
(* content stands for its SHA-256.  It may be rendered under several       *)
(* names: the queues have templates of their own, and copies of one photo  *)
(* come under different file names and dates.                              *)
(***************************************************************************)
EXTENDS Naturals, FiniteSets

CONSTANTS
    Contents,     \* distinct file contents, identified by their SHA-256
    Names,        \* relative paths the storage templates can render
    NamesOf,      \* NamesOf[c]: the relative paths rendered for content c
    MaxAttempts,  \* collision suffixes tried (10_000 in the code)
    DeviceOf,     \* the filesystem each directory lives on
    NoFile,       \* "no file at this path"
    NoPath        \* SQL NULL in files.current_path

Roots == {"pending", "accepted", "rejected"}

Paths == [root: Roots, name: Names, suffix: 0..MaxAttempts]

ASSUME StorageAssumption ==
    /\ NamesOf \in [Contents -> SUBSET Names \ {{}}]
    /\ MaxAttempts \in Nat \ {0}
    /\ DOMAIN DeviceOf = Roots \union {"trash"}
    /\ NoFile \notin Contents
    /\ NoPath \notin Paths

\* The templates render different paths for different contents, as those that
\* contain {sha8} do.  The default, {yyyy}/{mm}/{original}, does not.
UniqueNames ==
    \A c, d \in Contents : \A name \in NamesOf[c] : name \in NamesOf[d] => c = d

-----------------------------------------------------------------------------

\* Path.exists
Exists(d, path) == path # NoPath /\ d[path] # NoFile

\* ensure_within_root
WithinRoot(path, root) == path # NoPath /\ path.root = root

\* Mutant: the candidate is not tested for existence.
ChooseDestinationUntested(d, root, c) ==
    {[root |-> root, name |-> name, suffix |-> 0] : name \in NamesOf[c]}

\* The names choose_collision_safe_destination may return for content c in a
\* root: for each name, the first suffix in numeric order whose path does not
\* exist.  A name has none when every suffix up to the threshold is taken
\* (StorageError).
ChooseDestination(d, root, c) ==
    {path \in Paths :
        /\ path.root = root
        /\ path.name \in NamesOf[c]
        /\ d[path] = NoFile
        /\ \A k \in 0..MaxAttempts :
              k < path.suffix => d[[path EXCEPT !.suffix = k]] # NoFile}

\* Path.replace: the destination, if it exists, is overwritten.
Rename(d, src, dst) == [d EXCEPT ![dst] = d[src], ![src] = NoFile]

\* A verified copy moved into place under its final name.
CopyTo(d, c, dst) == [d EXCEPT ![dst] = c]

\* Path.unlink(missing_ok=True)
Unlink(d, path) == [d EXCEPT ![path] = NoFile]

\* are_on_same_filesystem
SameDevice(r, s) == DeviceOf[r] = DeviceOf[s]

\* Some copy of content c is in one of the queue directories.
Held(d, c) == \E path \in Paths : d[path] = c

=============================================================================
