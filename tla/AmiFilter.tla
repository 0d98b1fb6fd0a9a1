----------------------------- MODULE AmiFilter -----------------------------
(***************************************************************************)
(* The driver-source selection of src/sw/AMI/gen_package.py: the walk of   *)
(* 'driver' in main() (lines 281-302) and find_longest_filter() (lines     *)
(* 115-130).  Paths are the strings the code builds; TLC compares them with *)
(* Len and SubSeq as Python's str.startswith and str.endswith do.  The     *)
(* walk is one step of AmiPackage, which instantiates this module.        *)
(***************************************************************************)
EXTENDS Naturals, Sequences, FiniteSetsExt

CONSTANTS
    Tree,          \* what os.walk('driver') yields: directory path -> file names
    DriverFilter   \* driver_filter: directory path -> file paths relative to it

VARIABLES
    todo,          \* the <<path, name>> pairs the walk has not reached yet
    driver         \* the driver list built so far (its order plays no part)

vars == <<todo, driver>>

FileSet == UNION {{<<p, n>> : n \in Tree[p]} : p \in DOMAIN Tree}

\* str.startswith and str.endswith.
StartsWith(s, prefix) == Len(prefix) <= Len(s) /\ SubSeq(s, 1, Len(prefix)) = prefix
EndsWith(s, suffix) ==
    Len(suffix) <= Len(s) /\ SubSeq(s, Len(s) - Len(suffix) + 1, Len(s)) = suffix

\* os.path.join of relative parts.
Join(a, b) == a \o "/" \o b

\* find_longest_filter(path, filters): the loop keeps a key that path starts
\* with whenever it is longer than the one kept so far, starting from ''.
FindLongestFilter(path, filters) ==
    LET Keep(k, longest) ==
            IF StartsWith(path, k) /\ Len(k) > Len(longest) THEN k ELSE longest
    IN  FoldSet(Keep, "", DOMAIN filters)

\* The inner loop with the `if src_filter` branch left out (mutant).
IncludeFileNoFilter(path, name) == EndsWith(name, ".c") \/ EndsWith(name, ".h")

\* The body of the inner loop: a file under a filter is kept only if it is
\* listed under that filter; every kept file must end in .c or .h.
IncludeFile(path, name) ==
    LET srcFilter == FindLongestFilter(path, DriverFilter)
    IN  /\ IF srcFilter # ""
           THEN \E f \in DriverFilter[srcFilter] : Join(srcFilter, f) = Join(path, name)
           ELSE TRUE
        /\ EndsWith(name, ".c") \/ EndsWith(name, ".h")

\* One iteration of `for name in files`, in whatever order os.walk gives.
Visit ==
    \E f \in todo :
        /\ todo' = todo \ {f}
        /\ driver' = IF IncludeFile(f[1], f[2]) THEN driver \cup {Join(f[1], f[2])}
                                                 ELSE driver

-----------------------------------------------------------------------------
(* The selection the comment above driver_filter describes: a filter names *)
(* a directory; a file in that directory or below it is packaged only if   *)
(* the deepest such filter lists it, any other .c or .h file is packaged.  *)
IsUnder(dir, k) == dir = k \/ StartsWith(dir, k \o "/")

Covering(dir) == {k \in DOMAIN DriverFilter : IsUnder(dir, k)}

Intended(path, name) ==
    /\ EndsWith(name, ".c") \/ EndsWith(name, ".h")
    /\ \/ Covering(path) = {}
       \/ \E k \in Covering(path) :
             /\ \A k2 \in Covering(path) : Len(k2) <= Len(k)
             /\ \E f \in DriverFilter[k] : Join(k, f) = Join(path, name)

\* No file is packaged that the filter table keeps out: every entry of the
\* driver list is a .c or .h file the deepest covering filter lists, or one
\* no filter covers (the include_file flag of main() must start FALSE for
\* every name and be set only by a listed match).
DriverListSound ==
    \A f \in FileSet \ todo : Join(f[1], f[2]) \in driver => Intended(f[1], f[2])

=============================================================================
