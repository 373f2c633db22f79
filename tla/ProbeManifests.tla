--------------------------- MODULE ProbeManifests ---------------------------
(***************************************************************************)
(* Discovery of usability probe manifests (usability_probe.rs): the        *)
(* directory is listed in whatever order the system gives and up to a      *)
(* number of entries, the first files by path are read, and user manifests *)
(* replace the built-in ones of the same id.  A path is a number; the path *)
(* order is theirs.                                                        *)
(***************************************************************************)
EXTENDS Naturals, FiniteSets

CONSTANTS Files,       \* paths, a set of numbers
          ManifestIds, \* manifest ids
          Builtins,    \* ids of the probes shipped in the executable
          MaxManifests, \* MAX_DISCOVERED_MANIFESTS
          MaxScanned    \* MAX_DIRECTORY_ENTRIES_SCANNED

\* 0 stands for no file.
ASSUME ManifestAssumption ==
    Files \subseteq Nat \ {0} /\ IsFiniteSet(Files) /\ MaxManifests \in Nat /\ MaxScanned \in Nat

VARIABLES dir,      \* path -> the document in it
          unlisted, \* directory entries not yet listed
          paths,    \* candidates kept so far
          more,     \* candidates_truncated
          stage,    \* "list", "load", "merged"
          loaded,   \* id -> path, 0 for none
          catalog   \* id -> path of its manifest, 0 for the built-in one

manVars == <<dir, unlisted, paths, more, stage, loaded, catalog>>

\* Which fields a document may have, and whether it asks for an interval.
Documents == [id : ManifestIds \cup {"bad id"},
              fields : {{"url"}, {"executable"}, {"executable", "args"}, {"builtin"}, {"url", "builtin"}, {"none"}},
              interval : BOOLEAN, background : BOOLEAN]

\* Files that are not JSON are not looked at.
ManInit ==
        /\ dir \in [Files -> {d \in Documents : d.interval \/ d.background => d.fields = {"url"}} \cup {[id |-> "not json"]}]
        /\ unlisted = Files /\ paths = {} /\ more = FALSE /\ stage = "list"
        /\ loaded = [i \in ManifestIds |-> 0] /\ catalog = [i \in {} |-> 0]

Largest(S) == CHOOSE x \in S : \A y \in S : y <= x
Least(S) == CHOOSE x \in S : \A y \in S : x <= y
Json(f) == dir[f].id # "not json"

\* Fault: one file less is kept, so that an extra one is never noticed.
BugKept(S) == IF Cardinality(S) > MaxManifests THEN S \ {Largest(S)} ELSE S

\* One more than the limit is kept while listing.
Kept(S) == IF Cardinality(S) > MaxManifests + 1 THEN S \ {Largest(S)} ELSE S

List(f) ==
    /\ stage = "list" /\ f \in unlisted /\ Cardinality(Files \ unlisted) < MaxScanned
    /\ unlisted' = unlisted \ {f}
    /\ paths' = IF Json(f) THEN Kept(paths \cup {f}) ELSE paths
    /\ more' = (more \/ Cardinality(paths') > MaxManifests)
    /\ UNCHANGED <<dir, stage, loaded, catalog>>

ListEnds ==
    /\ stage = "list" /\ (unlisted = {} \/ Cardinality(Files \ unlisted) = MaxScanned)
    /\ stage' = "load"
    /\ paths' = IF Cardinality(paths) > MaxManifests THEN paths \ {Largest(paths)} ELSE paths
    /\ UNCHANGED <<dir, unlisted, more, loaded, catalog>>

\* manifest_from_document: exactly one source, args with an executable only, an
\* interval only with permission to run in the background.
Valid(d) == /\ d.id \in ManifestIds
            /\ d.fields \in {{"url"}, {"executable", "args"}, {"builtin"}}
            /\ d.interval => d.background

\* In path order; a second file with the same id is reported and ignored.
Accepted(f) == Valid(dir[f]) /\ loaded[dir[f].id] = 0

Load ==
    /\ stage = "load" /\ paths # {}
    /\ LET f == Least(paths)
       IN /\ paths' = paths \ {f}
          /\ loaded' = IF Accepted(f) THEN [loaded EXCEPT ![dir[f].id] = f] ELSE loaded
    /\ UNCHANGED <<dir, unlisted, more, stage, catalog>>

\* with_default_usability_probe_manifests
Merge ==
    /\ stage = "load" /\ paths = {}
    /\ stage' = "merged"
    /\ catalog' = [i \in Builtins \cup {j \in ManifestIds : loaded[j] # 0} |-> IF i \in ManifestIds THEN loaded[i] ELSE 0]
    /\ UNCHANGED <<dir, unlisted, paths, more, loaded>>

ManNext == (\E f \in Files : List(f)) \/ ListEnds \/ Load \/ Merge

ManSpec == ManInit /\ [][ManNext]_manVars

-----------------------------------------------------------------------------
\* The JSON files listed; the first MaxManifests of a set of files; the valid ones with an id.
Listed == {f \in Files \ unlisted : Json(f)}
First(S) == {f \in S : Cardinality({g \in S : g < f}) < MaxManifests}
Naming(S, i) == {f \in S : dir[f].id = i /\ Valid(dir[f])}

\* The probes offered depend on the files listed, not on the order the directory
\* is listed in: of the first MaxManifests JSON files the first valid one of an id
\* counts, every built-in id stays present, a cut is reported exactly when there
\* was one, and nothing stays unlisted in a directory within the limit of entries.
CatalogFromFiles ==
    stage = "merged" =>
        /\ DOMAIN catalog = Builtins \cup {i \in ManifestIds : Naming(First(Listed), i) # {}}
        /\ \A i \in DOMAIN catalog :
              catalog[i] = IF i \in ManifestIds /\ Naming(First(Listed), i) # {}
                           THEN Least(Naming(First(Listed), i)) ELSE 0
        /\ more <=> Cardinality(Listed) > MaxManifests
        /\ Cardinality(Files) <= MaxScanned => unlisted = {}
=============================================================================
