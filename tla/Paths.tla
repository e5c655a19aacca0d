------------------------------- MODULE Paths -------------------------------
(***************************************************************************)
(* Which host file a guest path stands for: the map allowed_paths that     *)
(* Configuration::FromArgs builds from the command line (config.cpp,       *)
(* ensure_path), and the search of lookup_allowed_path (vm.cpp), one step  *)
(* per iteration of its loop.                                              *)
(*                                                                         *)
(* A path is the sequence of its segments, relative or after the root;     *)
(* segments are numbers, compared as the code compares strings.            *)
(***************************************************************************)
EXTENDS Integers, FiniteSets, Sequences

CONSTANTS
    Segments,       \* names of files and directories, positive numbers
    MaxLength,      \* bound on the segments of a path given by the user
    MaxOptions,     \* bound on the number of path options
    Targets,        \* second paths of --volume options
    HostCwd,        \* current_path(), the working directory of kvmserver
    Cwd,            \* the working directory of the guest
    Random,         \* /dev/urandom
    Device,         \* stands for /dev/null and /dev/zero
    Fake, Temp,     \* stand for /proc/self/maps, /lib/libkvmserverguest.so and
                    \* the temporary files that take their place
    Exe,            \* /proc/self/exe
    Main            \* config.main_filename

DotDot == 0

ASSUME SegmentsAssumption == Segments \subseteq Nat \ {DotDot}
ASSUME BoundsAssumption == MaxLength \in Nat /\ MaxOptions \in Nat
ASSUME PathsAssumption ==
    /\ \A p \in {HostCwd, Cwd, Random, Device, Fake, Temp, Exe, Main} : p \in Seq(Segments)
    /\ \A p \in Targets : p.relative \in BOOLEAN /\ p.segments \in Seq(Segments \cup {DotDot})

VARIABLES
    stage,          \* where FromArgs is: "read", "write", "volume", "ready"
    options,        \* number of path options seen
    allowed_paths,
    search,         \* lookup_allowed_path: "idle", "loop", "found", "none"
    path,
    want,           \* which predicate is passed as extract
    bound,          \* it = allowed_paths.upper_bound(bound)
    failsafe,
    pathinout       \* the path handed back

config == <<stage, options, allowed_paths>>
lookup == <<search, path, want, bound, failsafe, pathinout>>
vars == <<config, lookup>>

RawSegments == UNION {[1 .. n -> Segments \cup {DotDot}] : n \in 0 .. MaxLength}
UserPaths == [relative : BOOLEAN, segments : RawSegments]
Absolute(segments) == [relative |-> FALSE, segments |-> segments]
Wants == {"readable", "writable", "resolve"}

\* lexically_normal on an absolute path: ".." takes the segment before it away,
\* and nothing at the root.
LexicallyNormal(segments) ==
    LET normal[n \in 0 .. Len(segments)] ==
            IF n = 0 THEN <<>>
            ELSE LET before == normal[n - 1] IN
                 IF segments[n] # DotDot THEN Append(before, segments[n])
                 ELSE SubSeq(before, 1, Len(before) - 1)
    IN normal[Len(segments)]

\* A relative path starts at the working directory.
Joined(cwd, p) == IF p.relative THEN cwd \o p.segments ELSE p.segments

\* What the standard library promises: no ".." is left.
ASSUME NormalAssumption ==
    \A cwd \in {HostCwd, Cwd},
       p \in UserPaths \cup Targets
            \cup {Absolute(q) : q \in {Random, Device, Fake, Temp, Exe, Main}} :
          LexicallyNormal(Joined(cwd, p)) \in Seq(Segments)

\* A form of Normal that leaves ".." in the path.
Normal_verbatim(cwd, p) == Joined(cwd, p)

\* The absolute and normal form of p; ensure_path computes it in the same way.
Normal(cwd, p) == LexicallyNormal(Joined(cwd, p))

\* Paths are compared from their first segment on.
Agree(p, q, n) ==
    n <= Len(p) /\ n <= Len(q) /\ \A i \in 1 .. n : p[i] = q[i]

Starts(p, q) == Agree(p, q, Len(p))

\* ComparePathSegments, as "not greater": the paths agree on n segments, and
\* then the first one ends or goes on with the smaller segment.
AtMost(p, q) ==
    \E n \in 0 .. Len(p) :
        /\ Agree(p, q, n)
        /\ n = Len(p) \/ (n < Len(q) /\ p[n + 1] < q[n + 1])

-----------------------------------------------------------------------------
(* Configuration.                                                           *)

\* A form of ensure_path that gives an old entry the rights of the last option
\* only.
ensure_path_replaces(allowed, src, dst, readable, writable, symlink) ==
    LET key == Normal(HostCwd, src)
        new == [real_path |-> Normal(HostCwd, dst), readable |-> readable,
                writable |-> writable, symlink |-> symlink]
    IN [k \in DOMAIN allowed \cup {key} |-> IF k = key THEN new ELSE allowed[k]]

\* A new entry, or more rights and another target for an old one.
ensure_path(allowed, src, dst, readable, writable, symlink) ==
    LET key == Normal(HostCwd, src)
        target == Normal(HostCwd, dst)
        old == IF key \in DOMAIN allowed THEN allowed[key]
               ELSE [real_path |-> target, readable |-> FALSE, writable |-> FALSE,
                     symlink |-> FALSE]
        new == [real_path |-> target,
                readable |-> old.readable \/ readable,
                writable |-> old.writable \/ writable,
                symlink |-> old.symlink \/ symlink]
    IN [k \in DOMAIN allowed \cup {key} |-> IF k = key THEN new ELSE allowed[k]]

fake_path(allowed, p) ==
    ensure_path(allowed, p, Absolute(Temp), TRUE, FALSE, FALSE)

Option ==
    /\ options < MaxOptions
    /\ options' = options + 1
    /\ UNCHANGED lookup

\* --allow-read
AllowRead(p) ==
    /\ stage = "read"
    /\ Option
    /\ allowed_paths' = ensure_path(allowed_paths, p, p, TRUE, FALSE, FALSE)
    /\ UNCHANGED stage

\* --allow-write, after every --allow-read
AllowWrite(p) ==
    /\ stage \in {"read", "write"}
    /\ stage' = "write"
    /\ Option
    /\ allowed_paths' = ensure_path(allowed_paths, p, p, FALSE, TRUE, FALSE)

\* The paths that are always allowed.
AllowHarmless ==
    /\ stage \in {"read", "write"}
    /\ stage' = "volume"
    /\ LET random == ensure_path(allowed_paths, Absolute(Random), Absolute(Random),
                                 TRUE, FALSE, TRUE)
           devices == ensure_path(random, Absolute(Device), Absolute(Device), TRUE, TRUE, TRUE)
       IN allowed_paths' = fake_path(devices, Absolute(Fake))
    /\ UNCHANGED <<options, lookup>>

\* --volume src:dst[:perms]; a triple the parser rejects ends the program.
Volume(src, dst, r, w) ==
    /\ stage = "volume"
    /\ Option
    /\ allowed_paths' = ensure_path(allowed_paths, src, dst, r, w, FALSE)
    /\ UNCHANGED stage

\* The executable itself comes last.
AllowMain ==
    /\ stage = "volume"
    /\ stage' = "ready"
    /\ allowed_paths' =
          ensure_path(ensure_path(allowed_paths, Absolute(Exe), Absolute(Main),
                                  FALSE, FALSE, TRUE),
                      Absolute(Main), Absolute(Main), TRUE, FALSE, FALSE)
    /\ UNCHANGED <<options, lookup>>

-----------------------------------------------------------------------------
(* lookup_allowed_path.                                                     *)

\* The keys before upper_bound(bound), and the last of them.
Before == {k \in DOMAIN allowed_paths : AtMost(k, bound)}
LastKeys == {k \in Before : \A l \in Before : AtMost(l, k)}

extract(entry) ==
    CASE want = "readable" -> entry.readable
      [] want = "writable" -> entry.writable
      [] want = "resolve"  -> TRUE

Lookup(w, p) ==
    /\ stage = "ready" /\ search = "idle"
    /\ search' = "loop"
    /\ want' = w
    /\ path' = Normal(Cwd, p)
    /\ bound' = path'
    /\ failsafe' = Cardinality(DOMAIN allowed_paths)
    /\ UNCHANGED <<pathinout, config>>

\* std::mismatch: how many segments key and path have in common.
Mismatch(key) ==
    CHOOSE n \in 0 .. Len(key) :
        /\ Agree(key, path, n)
        /\ n = Len(key) \/ n = Len(path) \/ key[n + 1] # path[n + 1]

\* A form of NextBound that forgets to leave out the last segment of a key that
\* does not give the right asked for.
NextBound_stuck(key) == SubSeq(path, 1, Mismatch(key))

\* Where the search goes on after key: at the parent of a prefix of path that
\* does not give the right asked for (the root is its own parent), or at what
\* key and path have in common.
NextBound(key) ==
    SubSeq(path, 1, Mismatch(key) - (IF Starts(key, path) THEN 1 ELSE 0))

\* A form of Spent that does not count.
Spent_never == failsafe

\* The failsafe after one more iteration.
Spent == failsafe - 1

\* One iteration of the loop, or its end.
Iterate ==
    /\ search = "loop"
    /\ \/ /\ Before = {}
          /\ search' = "none"
          /\ UNCHANGED <<bound, failsafe, pathinout>>
       \/ \E key \in LastKeys :
            IF Starts(key, path) /\ extract(allowed_paths[key])
            THEN /\ search' = "found"
                 /\ pathinout' = allowed_paths[key].real_path
                                 \o SubSeq(path, Len(key) + 1, Len(path))
                 /\ UNCHANGED <<bound, failsafe>>
            ELSE /\ bound' = NextBound(key)
                 /\ failsafe' = Spent
                 /\ search' = IF failsafe' = 0 THEN "none" ELSE "loop"
                 /\ UNCHANGED pathinout
    /\ UNCHANGED <<path, want, config>>

-----------------------------------------------------------------------------

Init ==
    /\ stage = "read" /\ options = 0 /\ allowed_paths = <<>>
    /\ search = "idle" /\ path = <<>> /\ want = "readable" /\ bound = <<>>
    /\ failsafe = 0 /\ pathinout = <<>>

Next ==
    \/ \E p \in UserPaths : AllowRead(p) \/ AllowWrite(p)
    \/ \E p \in UserPaths, q \in Targets, r, w \in BOOLEAN : Volume(p, q, r, w)
    \/ AllowHarmless
    \/ AllowMain
    \/ \E w \in Wants, p \in UserPaths : Lookup(w, p)
    \/ Iterate

Spec == Init /\ [][Next]_vars
FairSpec == Spec /\ WF_vars(Iterate)

-----------------------------------------------------------------------------

Entries ==
    [real_path : Seq(Segments), readable : BOOLEAN, writable : BOOLEAN, symlink : BOOLEAN]

TypeOK ==
    /\ stage \in {"read", "write", "volume", "ready"}
    /\ options \in 0 .. MaxOptions
    /\ DOMAIN allowed_paths \subseteq Seq(Segments)
    /\ IsFiniteSet(DOMAIN allowed_paths)
    /\ \A k \in DOMAIN allowed_paths : allowed_paths[k] \in Entries
    /\ search \in {"idle", "loop", "found", "none"}
    /\ want \in Wants
    /\ \A p \in {path, bound, pathinout} : p \in Seq(Segments)
    /\ failsafe \in Nat

\* The keys that give the right asked for on path.
Granting == {k \in DOMAIN allowed_paths : Starts(k, path) /\ extract(allowed_paths[k])}

\* The search through the sorted map finds what a look at every entry would:
\* the longest prefix of the path that gives the right asked for, and nothing
\* only if there is none.  The failsafe never hides an entry.
FindsLongestPrefix ==
    /\ search = "none" => Granting = {}
    /\ search = "found" =>
          \E k \in Granting :
              /\ \A l \in Granting : Len(l) <= Len(k)
              /\ pathinout = allowed_paths[k].real_path \o SubSeq(path, Len(k) + 1, Len(path))

\* What the loop keeps true: the entries that could answer are at or above the
\* place where it goes on, and the failsafe has a turn left for every entry
\* before that place, so that it never runs out (nor wraps around, being
\* unsigned) while there is an answer to be found.
SearchInv ==
    /\ TypeOK
    /\ stage # "ready" => search = "idle"
    /\ search = "loop" =>
          /\ Starts(bound, path)
          /\ \A k \in Granting : Starts(k, bound)
          /\ Granting = {} \/ Cardinality(Before) <= failsafe
          /\ Before = {} \/ failsafe > 0

\* Every search ends, also when the root itself is an entry that does not give
\* the right asked for.
SearchEnds == search = "loop" ~> search \in {"found", "none"}

\* Why a search ends: every iteration leaves an entry behind for good, or it is
\* at the root, its own parent, where only the failsafe counts down.
SearchAdvances ==
    [][search = "loop" /\ search' = "loop" =>
          \/ Cardinality(Before') < Cardinality(Before)
          \/ Before = {<<>>} /\ failsafe' < failsafe]_vars

-----------------------------------------------------------------------------

\* All the iterations of a search up to its last one are invisible.
Policy == INSTANCE PathPolicy WITH
    phase <- IF stage # "ready" THEN "options" ELSE IF search = "loop" THEN "asked" ELSE search,
    allowed <- allowed_paths,
    answer <- pathinout

\* FromArgs and lookup_allowed_path together keep the promise of PathPolicy: no
\* option, the built-in paths included, takes a right away that an earlier one
\* gave (a later one for the same path only moves its target), nothing changes
\* once lookups begin, and a lookup looks as if it were one step.
ImplementsPolicy == Policy!Spec

=============================================================================
