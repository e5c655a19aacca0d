---------------------------- MODULE PathsProofs ----------------------------
(* The search of lookup_allowed_path finds the longest prefix, for every     *)
(* map of paths.                                                             *)
EXTENDS Paths, FiniteSetTheorems, SequenceTheorems, TLAPS

\* A prefix of a path, one segment at a time.
LEMMA PrefixSegments ==
    ASSUME NEW p \in Seq(Nat), NEW q \in Seq(Nat)
    PROVE  Starts(p, q) <=> Len(p) <= Len(q) /\ \A i \in 1 .. Len(p) : p[i] = q[i]
BY DEF Starts, Agree

\* ComparePathSegments, one segment at a time.
LEMMA AtMostSegments ==
    ASSUME NEW p \in Seq(Nat), NEW q \in Seq(Nat)
    PROVE  AtMost(p, q) <=>
             \E n \in 0 .. Len(p) :
                /\ n <= Len(q)
                /\ \A i \in 1 .. n : p[i] = q[i]
                /\ n = Len(p) \/ (n < Len(q) /\ p[n + 1] < q[n + 1])
BY DEF AtMost, Agree

\* Every prefix is at most what it is a prefix of.
LEMMA PrefixAtMost ==
    ASSUME NEW p \in Seq(Nat), NEW q \in Seq(Nat), Starts(p, q)
    PROVE  AtMost(p, q)
<1>1. Len(p) \in 0 .. Len(p)
  OBVIOUS
<1> QED BY <1>1, PrefixSegments, AtMostSegments

\* Of two prefixes of a path, the one that is at most the other is a prefix of
\* it.
LEMMA PrefixesOrdered ==
    ASSUME NEW l \in Seq(Nat), NEW k \in Seq(Nat), NEW p \in Seq(Nat),
           Starts(l, p), Starts(k, p), AtMost(l, k)
    PROVE  Len(l) <= Len(k) /\ Starts(l, k)
<1>1. PICK n \in 0 .. Len(l) :
                /\ n <= Len(k)
                /\ \A i \in 1 .. n : l[i] = k[i]
                /\ n = Len(l) \/ (n < Len(k) /\ l[n + 1] < k[n + 1])
  BY AtMostSegments
<1>2. CASE n = Len(l)
  BY <1>1, <1>2, PrefixSegments
<1>3. CASE n # Len(l)
  <2>1. n + 1 \in 1 .. Len(l) /\ n + 1 \in 1 .. Len(k)
    BY <1>1, <1>3
  <2>2. l[n + 1] = p[n + 1] /\ k[n + 1] = p[n + 1]
    BY <2>1, PrefixSegments
  <2>3. p[n + 1] \in Nat
    BY <2>1, PrefixSegments
  <2> QED BY <1>1, <1>3, <2>2, <2>3
<1> QED BY <1>2, <1>3

\* What is at most a prefix of a path is at most the path.
LEMMA AtMostPrefix ==
    ASSUME NEW l \in Seq(Nat), NEW k \in Seq(Nat), NEW b \in Seq(Nat),
           AtMost(l, k), Starts(k, b)
    PROVE  AtMost(l, b)
<1>1. PICK n \in 0 .. Len(l) :
                /\ n <= Len(k)
                /\ \A i \in 1 .. n : l[i] = k[i]
                /\ n = Len(l) \/ (n < Len(k) /\ l[n + 1] < k[n + 1])
  BY AtMostSegments
<1>2. Len(k) <= Len(b) /\ \A i \in 1 .. Len(k) : k[i] = b[i]
  BY PrefixSegments
<1>3. n <= Len(b) /\ \A i \in 1 .. n : l[i] = b[i]
  BY <1>1, <1>2
<1>4. n < Len(k) => n + 1 \in 1 .. Len(k) /\ n < Len(b)
  BY <1>1, <1>2
<1>5. n = Len(l) \/ (n < Len(b) /\ l[n + 1] < b[n + 1])
  BY <1>1, <1>2, <1>4
<1> QED BY <1>3, <1>5, AtMostSegments

\* A key between a prefix l of path and a longer prefix b of it, in the order of
\* the map, starts with l.
LEMMA Between ==
    ASSUME NEW l \in Seq(Nat), NEW k \in Seq(Nat), NEW b \in Seq(Nat),
           Starts(l, b), AtMost(l, k), AtMost(k, b)
    PROVE  Starts(l, k)
<1>1. PICK n \in 0 .. Len(l) :
                /\ n <= Len(k)
                /\ \A i \in 1 .. n : l[i] = k[i]
                /\ n = Len(l) \/ (n < Len(k) /\ l[n + 1] < k[n + 1])
  BY AtMostSegments
<1>2. PICK m \in 0 .. Len(k) :
                /\ m <= Len(b)
                /\ \A i \in 1 .. m : k[i] = b[i]
                /\ m = Len(k) \/ (m < Len(b) /\ k[m + 1] < b[m + 1])
  BY AtMostSegments
<1>3. Len(l) <= Len(b) /\ \A i \in 1 .. Len(l) : l[i] = b[i]
  BY PrefixSegments
<1>4. CASE n = Len(l)
  BY <1>1, <1>4, PrefixSegments
<1>5. CASE n # Len(l)
  <2>1. n + 1 \in 1 .. Len(l) /\ n + 1 \in 1 .. Len(k) /\ n + 1 \in 1 .. Len(b)
    <3>1. Len(l) \in Nat /\ Len(k) \in Nat /\ Len(b) \in Nat
      OBVIOUS
    <3>2. n < Len(k)
      BY <1>1, <1>5
    <3>3. n \in Nat /\ n < Len(l)
      BY <1>5, <3>1
    <3>4. Len(l) <= Len(b)
      BY <1>3
    <3> QED BY <3>1, <3>2, <3>3, <3>4
  <2>2. l[n + 1] < k[n + 1] /\ l[n + 1] = b[n + 1] /\ \A i \in 1 .. n : k[i] = b[i]
    BY <1>1, <1>3, <1>5, <2>1
  <2>3. l[n + 1] \in Nat /\ k[n + 1] \in Nat /\ b[n + 1] \in Nat
    BY <2>1
  <2>4. CASE n < m
    <3>1. k[n + 1] = b[n + 1]
      BY <1>2, <2>1, <2>4
    <3> QED BY <2>2, <2>3, <3>1
  <2>5. CASE n = m
    <3>1. k[n + 1] < b[n + 1]
      BY <1>2, <2>1, <2>5
    <3> QED BY <2>2, <2>3, <3>1
  <2>6. CASE m < n
    <3>1. m + 1 \in 1 .. n /\ m < Len(k)
      BY <1>1, <1>2, <2>6
    <3>2. m # Len(k)
      BY <1>2, <3>1
    <3>4. k[m + 1] < b[m + 1]
      BY <1>2, <3>2
    <3>3. k[m + 1] = b[m + 1]
      BY <2>2, <3>1
    <3>6. m + 1 \in 1 .. Len(b)
      BY <1>2, <3>2
    <3>5. b[m + 1] \in Nat
      BY <3>6
    <3> QED BY <3>3, <3>4, <3>5
  <2> QED BY <1>1, <1>2, <2>4, <2>5, <2>6
<1> QED BY <1>4, <1>5

\* The place std::mismatch stops at is the only one of its kind.
LEMMA MismatchAt ==
    ASSUME path \in Seq(Nat), NEW key \in Seq(Nat), NEW n \in 0 .. Len(key),
           n <= Len(path), \A i \in 1 .. n : key[i] = path[i],
           n = Len(key) \/ n = Len(path) \/ key[n + 1] # path[n + 1]
    PROVE  Mismatch(key) = n
<1> DEFINE Stops(m) == /\ Agree(key, path, m)
                       /\ m = Len(key) \/ m = Len(path) \/ key[m + 1] # path[m + 1]
<1>1. Stops(n)
  BY DEF Agree
<1>2. ASSUME NEW m \in 0 .. Len(key), Stops(m) PROVE m = n
  <2>1. m \in Nat /\ m <= Len(key) /\ m <= Len(path) /\ n \in Nat
    BY <1>2 DEF Agree
  <2>2. \A i \in 1 .. m : key[i] = path[i]
    BY <1>2 DEF Agree
  <2>3. ~(m < n)
    <3> SUFFICES ASSUME m < n PROVE FALSE
      OBVIOUS
    <3>1. m + 1 \in 1 .. n /\ m < Len(key) /\ m < Len(path)
      BY <2>1
    <3> QED BY <1>2, <3>1
  <2>4. ~(n < m)
    <3> SUFFICES ASSUME n < m PROVE FALSE
      OBVIOUS
    <3>1. n + 1 \in 1 .. m /\ n < Len(key) /\ n < Len(path)
      BY <2>1
    <3> QED BY <2>2, <3>1
  <2> QED BY <2>1, <2>3, <2>4
<1> HIDE DEF Stops
<1>3. (CHOOSE m \in 0 .. Len(key) : Stops(m)) = n
  BY <1>1, <1>2
<1> QED BY <1>3 DEF Mismatch, Stops

-----------------------------------------------------------------------------
(* The map.                                                                 *)

MapOK(allowed) ==
    /\ DOMAIN allowed \subseteq Seq(Segments)
    /\ IsFiniteSet(DOMAIN allowed)
    /\ \A k \in DOMAIN allowed : allowed[k] \in Entries

\* ensure_path keeps the map what it is.
LEMMA EnsureMapOK ==
    ASSUME NEW allowed, MapOK(allowed), NEW src, NEW dst,
           Normal(HostCwd, src) \in Seq(Segments), Normal(HostCwd, dst) \in Seq(Segments),
           NEW r \in BOOLEAN, NEW w \in BOOLEAN, NEW s \in BOOLEAN
    PROVE  MapOK(ensure_path(allowed, src, dst, r, w, s))
<1> DEFINE key == Normal(HostCwd, src)
           target == Normal(HostCwd, dst)
           none == [real_path |-> target, readable |-> FALSE, writable |-> FALSE,
                    symlink |-> FALSE]
           old == IF key \in DOMAIN allowed THEN allowed[key] ELSE none
           new == [real_path |-> target, readable |-> old.readable \/ r,
                   writable |-> old.writable \/ w, symlink |-> old.symlink \/ s]
           result == [k \in DOMAIN allowed \cup {key} |-> IF k = key THEN new ELSE allowed[k]]
<1>1. old \in Entries
  BY DEF MapOK, Entries
<1>2. new \in Entries
  BY <1>1 DEF Entries
<1> HIDE DEF new
<1>3. DOMAIN result = DOMAIN allowed \cup {key}
  OBVIOUS
<1>4. \A k \in DOMAIN result : result[k] = IF k = key THEN new ELSE allowed[k]
  OBVIOUS
<1>5. IsFiniteSet(DOMAIN result)
  BY <1>3, FS_AddElement DEF MapOK
<1>6. MapOK(result)
  BY <1>2, <1>3, <1>4, <1>5 DEF MapOK
<1> QED BY <1>6 DEF ensure_path, new

\* A path of the command line, or one of the fixed ones, in normal form.
LEMMA NormalTyped ==
    /\ \A p \in UserPaths : Normal(HostCwd, p) \in Seq(Segments) /\ Normal(Cwd, p) \in Seq(Segments)
    /\ \A p \in Targets : Normal(HostCwd, p) \in Seq(Segments)
    /\ \A q \in {Random, Device, Fake, Temp, Exe, Main} : Normal(HostCwd, Absolute(q)) \in Seq(Segments)
BY NormalAssumption DEF Normal

-----------------------------------------------------------------------------
(* The invariant of the search.                                             *)

IndInv == SearchInv /\ FindsLongestPrefix

\* Before any option is read.
LEMMA SearchInitially == Init => IndInv
<1> SUFFICES ASSUME Init PROVE IndInv
  OBVIOUS
<1>1. DOMAIN allowed_paths = {} /\ <<>> \in Seq(Segments)
  BY DEF Init
<1>2. IsFiniteSet(DOMAIN allowed_paths)
  BY <1>1, FS_EmptySet
<1>3. TypeOK
  BY <1>1, <1>2, BoundsAssumption DEF Init, TypeOK, Wants
<1> QED BY <1>3 DEF Init, IndInv, SearchInv, FindsLongestPrefix

\* An option: nothing is searched yet, and the map stays what it is.
LEMMA OptionKeeps ==
    ASSUME IndInv, stage # "ready", MapOK(allowed_paths'), UNCHANGED lookup,
           stage' \in {"read", "write", "volume", "ready"}, options' \in 0 .. MaxOptions
    PROVE  IndInv'
<1>1. search = "idle" /\ TypeOK
  BY DEF IndInv, SearchInv
<1>2. TypeOK'
  BY <1>1 DEF TypeOK, MapOK, lookup
<1> QED BY <1>1, <1>2 DEF IndInv, SearchInv, FindsLongestPrefix, lookup

\* Every step of FromArgs keeps the map what it is.
LEMMA ConfigKeeps ==
    ASSUME IndInv,
           \/ \E p \in UserPaths : AllowRead(p) \/ AllowWrite(p)
           \/ \E p \in UserPaths, q \in Targets, r, w \in BOOLEAN : Volume(p, q, r, w)
           \/ AllowHarmless
           \/ AllowMain
    PROVE  IndInv'
<1>1. MapOK(allowed_paths) /\ options \in 0 .. MaxOptions /\ MaxOptions \in Nat
  BY BoundsAssumption DEF IndInv, SearchInv, TypeOK, MapOK
<1>2. ASSUME NEW p \in UserPaths, AllowRead(p) PROVE IndInv'
  <2>1. MapOK(allowed_paths')
    BY <1>1, <1>2, EnsureMapOK, NormalTyped DEF AllowRead
  <2> QED BY <1>1, <1>2, <2>1, OptionKeeps DEF AllowRead, Option
<1>3. ASSUME NEW p \in UserPaths, AllowWrite(p) PROVE IndInv'
  <2>1. MapOK(allowed_paths')
    BY <1>1, <1>3, EnsureMapOK, NormalTyped DEF AllowWrite
  <2> QED BY <1>1, <1>3, <2>1, OptionKeeps DEF AllowWrite, Option
<1>4. ASSUME NEW p \in UserPaths, NEW q \in Targets, NEW r \in BOOLEAN, NEW w \in BOOLEAN,
             Volume(p, q, r, w)
      PROVE  IndInv'
  <2>1. MapOK(allowed_paths')
    BY <1>1, <1>4, EnsureMapOK, NormalTyped DEF Volume
  <2> QED BY <1>1, <1>4, <2>1, OptionKeeps DEF Volume, Option
<1>5. ASSUME AllowHarmless PROVE IndInv'
  <2> DEFINE random == ensure_path(allowed_paths, Absolute(Random), Absolute(Random),
                                   TRUE, FALSE, TRUE)
             devices == ensure_path(random, Absolute(Device), Absolute(Device), TRUE, TRUE, TRUE)
  <2>1. MapOK(random)
    BY <1>1, EnsureMapOK, NormalTyped
  <2>2. MapOK(devices)
    <3> HIDE DEF random
    <3> QED BY <2>1, EnsureMapOK, NormalTyped
  <2>3. MapOK(allowed_paths')
    <3>1. allowed_paths' = fake_path(devices, Absolute(Fake))
      BY <1>5 DEF AllowHarmless
    <3> HIDE DEF devices
    <3> QED BY <2>2, <3>1, EnsureMapOK, NormalTyped DEF fake_path
  <2> QED BY <1>1, <1>5, <2>3, OptionKeeps DEF AllowHarmless
<1>6. ASSUME AllowMain PROVE IndInv'
  <2>1. MapOK(ensure_path(allowed_paths, Absolute(Exe), Absolute(Main), FALSE, FALSE, TRUE))
    BY <1>1, EnsureMapOK, NormalTyped
  <2>2. MapOK(allowed_paths')
    BY <1>6, <2>1, EnsureMapOK, NormalTyped DEF AllowMain
  <2> QED BY <1>1, <1>6, <2>2, OptionKeeps DEF AllowMain
<1> QED BY <1>2, <1>3, <1>4, <1>5, <1>6

-----------------------------------------------------------------------------
(* One iteration.                                                           *)

\* Segments are compared as numbers.
LEMMA SegmentsAreNumbers == Segments \subseteq Nat /\ Seq(Segments) \subseteq Seq(Nat)
<1>1. Segments \subseteq Nat
  BY SegmentsAssumption
<1> QED BY <1>1, SeqMonotonic

\* The start of a path is a prefix of it.
LEMMA StartIsPrefix ==
    ASSUME NEW p \in Seq(Segments), NEW n \in 0 .. Len(p)
    PROVE  /\ SubSeq(p, 1, n) \in Seq(Segments)
           /\ Len(SubSeq(p, 1, n)) = n
           /\ \A i \in 1 .. n : SubSeq(p, 1, n)[i] = p[i]
           /\ Starts(SubSeq(p, 1, n), p)
<1> DEFINE s == SubSeq(p, 1, n)
<1>1. s \in Seq(Segments) /\ Len(s) = n /\ \A i \in 1 .. n : s[i] = p[i]
  OBVIOUS
<1>2. s \in Seq(Nat) /\ p \in Seq(Nat) /\ n <= Len(p)
  BY <1>1, SegmentsAreNumbers
<1> HIDE DEF s
<1>3. Starts(s, p)
  BY <1>1, <1>2, PrefixSegments
<1> QED BY <1>1, <1>3 DEF s

\* The start of a path is a prefix of what agrees with the path that far.
LEMMA StartOfOther ==
    ASSUME NEW p \in Seq(Segments), NEW n \in 0 .. Len(p), NEW q \in Seq(Nat),
           n <= Len(q), \A i \in 1 .. n : q[i] = p[i]
    PROVE  Starts(SubSeq(p, 1, n), q)
<1> DEFINE s == SubSeq(p, 1, n)
<1>1. s \in Seq(Nat) /\ Len(s) = n /\ \A i \in 1 .. n : s[i] = p[i]
  BY StartIsPrefix, SegmentsAreNumbers
<1> HIDE DEF s
<1>2. Starts(s, q)
  BY <1>1, PrefixSegments
<1> QED BY <1>2 DEF s

\* Every entry that could answer is before the place where the search is, and
\* at most the last one there.
LEMMA GrantingBefore ==
    ASSUME IndInv, search = "loop", NEW key \in LastKeys
    PROVE  /\ Granting \subseteq Before
           /\ \A l \in Granting : AtMost(l, key)
<1>1. ASSUME NEW l \in Granting PROVE l \in Before
  <2>1. l \in Seq(Nat) /\ bound \in Seq(Nat) /\ Starts(l, bound)
    BY SegmentsAreNumbers DEF IndInv, SearchInv, TypeOK, Granting
  <2>2. AtMost(l, bound)
    BY <2>1, PrefixAtMost
  <2> QED BY <2>2 DEF Before, Granting
<1> QED BY <1>1 DEF LastKeys

\* A prefix of path that does not answer: the search goes on at its parent.
LEMMA ParentKeeps ==
    ASSUME IndInv, search = "loop", NEW key \in LastKeys, key \notin Granting,
           Starts(key, path)
    PROVE  /\ NextBound(key) \in Seq(Segments)
           /\ Starts(NextBound(key), path) /\ Starts(NextBound(key), bound)
           /\ \A l \in Granting : Starts(l, NextBound(key))
           /\ Granting # {} => Len(key) # 0
           /\ Len(key) # 0 => ~AtMost(key, NextBound(key))
<1> DEFINE n == IF Len(key) = 0 THEN 0 ELSE Len(key) - 1
           nb == SubSeq(path, 1, n)
<1>1. /\ key \in Seq(Nat) /\ path \in Seq(Nat) /\ bound \in Seq(Nat)
      /\ path \in Seq(Segments)
      /\ Starts(bound, path) /\ AtMost(key, bound)
  BY SegmentsAreNumbers DEF IndInv, SearchInv, TypeOK, LastKeys, Before
<1>2. Len(key) <= Len(path) /\ \A i \in 1 .. Len(key) : key[i] = path[i]
  BY <1>1, PrefixSegments
<1>3. Mismatch(key) = Len(key)
  <2>1. Len(key) \in 0 .. Len(key)
    BY <1>1
  <2> QED BY <1>1, <1>2, <2>1, MismatchAt
<1>4. NextBound(key) = nb
  <2>1. CASE Len(key) = 0
    <3>1. SubSeq(path, 1, 0 - 1) = SubSeq(path, 1, 0)
      BY <1>1
    <3> QED BY <1>3, <2>1, <3>1 DEF NextBound
  <2>2. CASE Len(key) # 0
    BY <1>3, <2>2 DEF NextBound
  <2> QED BY <2>1, <2>2
<1>5. /\ n \in 0 .. Len(path) /\ n <= Len(key) /\ n \in Nat
      /\ Len(key) # 0 => n = Len(key) - 1
  BY <1>1, <1>2
<1> HIDE DEF n
<1>6. /\ nb \in Seq(Segments) /\ nb \in Seq(Nat) /\ Len(nb) = n
      /\ \A i \in 1 .. n : nb[i] = path[i]
      /\ Starts(nb, path)
  BY <1>1, <1>5, StartIsPrefix, SegmentsAreNumbers
<1>8. Len(key) <= Len(bound)
  BY <1>1, PrefixesOrdered
<1>9. Starts(nb, bound)
  <2>1. Len(bound) <= Len(path) /\ \A i \in 1 .. Len(bound) : bound[i] = path[i]
    BY <1>1, PrefixSegments
  <2>2. n <= Len(bound)
    BY <1>1, <1>5, <1>8
  <2>3. \A i \in 1 .. n : bound[i] = path[i]
    BY <1>1, <1>5, <2>1, <2>2
  <2> QED BY <1>1, <1>5, <2>2, <2>3, StartOfOther
<1> HIDE DEF nb
<1>10. ASSUME NEW l \in Granting PROVE Starts(l, nb) /\ Len(key) # 0
  <2>1. l \in Seq(Nat) /\ Starts(l, path) /\ AtMost(l, key)
    BY GrantingBefore, SegmentsAreNumbers DEF IndInv, SearchInv, TypeOK, Granting
  <2>2. Len(l) <= Len(key) /\ \A i \in 1 .. Len(l) : l[i] = path[i]
    BY <1>1, <2>1, PrefixesOrdered, PrefixSegments
  <2>3. Len(l) # Len(key)
    <3> SUFFICES ASSUME Len(l) = Len(key) PROVE l = key
      OBVIOUS
    <3>1. \A i \in 1 .. Len(key) : l[i] = key[i]
      BY <1>2, <2>2
    <3> QED BY <1>1, <2>1, <3>1, SeqEqual
  <2>4. Len(l) <= n /\ Len(key) # 0
    BY <1>1, <1>5, <2>1, <2>2, <2>3
  <2>5. \A i \in 1 .. Len(l) : l[i] = nb[i]
    BY <1>5, <1>6, <2>1, <2>2, <2>4
  <2> QED BY <1>6, <2>1, <2>4, <2>5, PrefixSegments
<1>11. Len(key) # 0 => ~AtMost(key, nb)
  <2> SUFFICES ASSUME Len(key) # 0, AtMost(key, nb) PROVE FALSE
    OBVIOUS
  <2>1. Len(key) <= Len(nb)
    BY <1>1, <1>6, PrefixesOrdered
  <2> QED BY <1>1, <1>5, <1>6, <2>1
<1> QED BY <1>4, <1>6, <1>9, <1>10, <1>11

\* An entry that is no prefix of path: the search goes on at what they share.
LEMMA SharedKeeps ==
    ASSUME IndInv, search = "loop", NEW key \in LastKeys, ~Starts(key, path)
    PROVE  /\ NextBound(key) \in Seq(Segments)
           /\ Starts(NextBound(key), path) /\ Starts(NextBound(key), bound)
           /\ \A l \in Granting : Starts(l, NextBound(key))
           /\ Len(key) # 0
           /\ ~AtMost(key, NextBound(key))
<1>1. /\ key \in Seq(Nat) /\ path \in Seq(Nat) /\ bound \in Seq(Nat)
      /\ path \in Seq(Segments)
      /\ Starts(bound, path) /\ AtMost(key, bound)
  BY SegmentsAreNumbers DEF IndInv, SearchInv, TypeOK, LastKeys, Before
<1>2. Len(bound) <= Len(path) /\ \A i \in 1 .. Len(bound) : bound[i] = path[i]
  BY <1>1, PrefixSegments
<1>3. PICK n \in 0 .. Len(key) :
                /\ n <= Len(bound)
                /\ \A i \in 1 .. n : key[i] = bound[i]
                /\ n = Len(key) \/ (n < Len(bound) /\ key[n + 1] < bound[n + 1])
  BY <1>1, AtMostSegments
<1>4. n \in Nat /\ n <= Len(path) /\ \A i \in 1 .. n : key[i] = path[i]
  BY <1>1, <1>2, <1>3
<1>5. n # Len(key)
  BY <1>1, <1>4, PrefixSegments
<1>6. n + 1 \in 1 .. Len(key) /\ n + 1 \in 1 .. Len(bound) /\ n < Len(path)
  <2>1. Len(key) \in Nat /\ Len(bound) \in Nat /\ Len(path) \in Nat
    BY <1>1
  <2>2. n < Len(bound)
    BY <1>3, <1>5
  <2>3. n \in Nat /\ n < Len(key)
    BY <1>5, <2>1
  <2>4. Len(bound) <= Len(path)
    BY <1>2
  <2> QED BY <2>1, <2>2, <2>3, <2>4
<1>7. key[n + 1] # path[n + 1]
  <2>1. key[n + 1] < bound[n + 1] /\ bound[n + 1] = path[n + 1]
    BY <1>2, <1>3, <1>5, <1>6
  <2>2. key[n + 1] \in Nat
    BY <1>1, <1>6
  <2> QED BY <2>1, <2>2
<1>8. Mismatch(key) = n
  BY <1>1, <1>3, <1>4, <1>7, MismatchAt
<1> DEFINE nb == SubSeq(path, 1, n)
<1>9. NextBound(key) = nb
  BY <1>4, <1>8 DEF NextBound
<1>10. n \in 0 .. Len(path)
  BY <1>1, <1>4
<1>11. /\ nb \in Seq(Segments) /\ nb \in Seq(Nat) /\ Len(nb) = n
       /\ \A i \in 1 .. n : nb[i] = path[i]
       /\ Starts(nb, path)
  BY <1>1, <1>10, StartIsPrefix, SegmentsAreNumbers
<1>12. Starts(nb, key)
  BY <1>1, <1>3, <1>4, <1>10, StartOfOther
<1>13. Starts(nb, bound)
  <2>1. \A i \in 1 .. n : bound[i] = path[i]
    BY <1>1, <1>2, <1>3
  <2> QED BY <1>1, <1>3, <1>10, <2>1, StartOfOther
<1> HIDE DEF nb
<1>14. ASSUME NEW l \in Granting PROVE Starts(l, nb)
  <2>1. l \in Seq(Nat) /\ Starts(l, path) /\ Starts(l, bound) /\ AtMost(l, key)
    BY GrantingBefore, SegmentsAreNumbers DEF IndInv, SearchInv, TypeOK, Granting
  <2>2. \A i \in 1 .. Len(l) : l[i] = path[i] /\ l[i] = key[i]
    BY <1>1, <2>1, Between, PrefixSegments
  <2>3. Len(l) <= n
    <3> SUFFICES ASSUME ~(Len(l) <= n) PROVE FALSE
      OBVIOUS
    <3>1. n + 1 \in 1 .. Len(l)
      BY <1>4, <2>1
    <3> QED BY <1>7, <2>2, <3>1
  <2>4. \A i \in 1 .. Len(l) : l[i] = nb[i]
    <3> TAKE i \in 1 .. Len(l)
    <3>1. i \in 1 .. n
      BY <1>4, <2>1, <2>3
    <3> QED BY <1>11, <2>2, <3>1
  <2> QED BY <1>11, <2>1, <2>3, <2>4, PrefixSegments
<1>15. ~AtMost(key, nb)
  <2> SUFFICES ASSUME AtMost(key, nb) PROVE FALSE
    OBVIOUS
  <2>1. Starts(key, key)
    BY <1>1, PrefixSegments
  <2>2. Len(key) <= Len(nb)
    BY <1>1, <1>11, <1>12, <2>1, PrefixesOrdered
  <2> QED BY <1>1, <1>3, <1>5, <1>11, <2>2
<1>16. Len(key) # 0
  BY <1>1, <1>6
<1> QED BY <1>9, <1>11, <1>12, <1>13, <1>14, <1>15, <1>16

\* Where the search goes on after an entry that does not answer.
LEMMA NextBoundKeeps ==
    ASSUME IndInv, search = "loop", NEW key \in LastKeys, key \notin Granting
    PROVE  /\ NextBound(key) \in Seq(Segments)
           /\ Starts(NextBound(key), path) /\ Starts(NextBound(key), bound)
           /\ \A l \in Granting : Starts(l, NextBound(key))
           /\ Granting # {} => Len(key) # 0
           /\ Len(key) # 0 => ~AtMost(key, NextBound(key))
BY ParentKeeps, SharedKeeps

\* The entries left to look at get fewer, except that the root is its own
\* parent.
LEMMA FewerBefore ==
    ASSUME IndInv, search = "loop", NEW key \in LastKeys, key \notin Granting,
           bound' = NextBound(key), UNCHANGED <<allowed_paths, path>>
    PROVE  /\ Cardinality(Before') \in Nat /\ IsFiniteSet(Before')
           /\ Granting # {} => Len(key) # 0
           /\ Len(key) # 0 => Cardinality(Before') < Cardinality(Before)
<1>1. /\ DOMAIN allowed_paths \subseteq Seq(Nat) /\ bound \in Seq(Nat)
      /\ bound' \in Seq(Nat) /\ Starts(bound', bound)
  BY NextBoundKeeps, SegmentsAreNumbers DEF IndInv, SearchInv, TypeOK
<1>2. Before' = {k \in DOMAIN allowed_paths : AtMost(k, bound')}
  BY DEF Before, AtMost
<1>3. Before' \subseteq Before
  BY <1>1, <1>2, AtMostPrefix DEF Before
<1>4. IsFiniteSet(Before) /\ key \in Before
  <2>1. IsFiniteSet(DOMAIN allowed_paths) /\ Before \in SUBSET DOMAIN allowed_paths
    BY DEF IndInv, SearchInv, TypeOK, Before
  <2> QED BY <2>1, FS_Subset DEF LastKeys
<1>5. Cardinality(Before) \in Nat /\ IsFiniteSet(Before') /\ Cardinality(Before') \in Nat
  BY <1>3, <1>4, FS_Subset, FS_CardinalityType
<1>6. ASSUME Len(key) # 0 PROVE Cardinality(Before') < Cardinality(Before)
  <2>1. key \notin Before'
    BY <1>2, <1>6, NextBoundKeeps
  <2>2. Before' \in SUBSET (Before \ {key}) /\ IsFiniteSet(Before \ {key})
    BY <1>3, <1>4, <2>1, FS_RemoveElement
  <2>3. Cardinality(Before \ {key}) = Cardinality(Before) - 1
    BY <1>4, FS_RemoveElement
  <2>4. Cardinality(Before') <= Cardinality(Before \ {key})
    BY <2>2, FS_Subset
  <2> QED BY <1>5, <2>3, <2>4
<1> QED BY <1>5, <1>6, NextBoundKeeps

\* The root is the last entry only if it is the only one left.
LEMMA RootIsLast ==
    ASSUME IndInv, NEW key \in LastKeys, Len(key) = 0
    PROVE  Before = {<<>>}
<1>1. \A l \in Before : l \in Seq(Nat) /\ AtMost(l, key)
  BY SegmentsAreNumbers DEF IndInv, SearchInv, TypeOK, LastKeys, Before
<1>2. key \in Before /\ key \in Seq(Nat)
  BY <1>1 DEF LastKeys
<1>3. ASSUME NEW l \in Before PROVE l = <<>>
  <2>1. PICK n \in 0 .. Len(l) : n <= Len(key) /\ (n = Len(l) \/ n < Len(key))
    BY <1>1, <1>2, AtMostSegments
  <2>2. Len(l) = 0
    BY <1>1, <2>1
  <2> QED BY <1>1, <2>2
<1> QED BY <1>2, <1>3

\* A search begins at the path itself, with a turn for every entry.
LEMMA LookupKeeps ==
    ASSUME IndInv, NEW w \in Wants, NEW p \in UserPaths, Lookup(w, p)
    PROVE  IndInv'
<1>1. path' \in Seq(Segments) /\ bound' = path' /\ path' \in Seq(Nat)
  BY NormalTyped, SegmentsAreNumbers DEF Lookup
<1>2. /\ stage = "ready" /\ search' = "loop" /\ want' = w
      /\ failsafe' = Cardinality(DOMAIN allowed_paths)
      /\ UNCHANGED <<stage, options, allowed_paths, pathinout>>
  BY DEF Lookup, config
<1>3. TypeOK /\ IsFiniteSet(DOMAIN allowed_paths)
  BY DEF IndInv, SearchInv, TypeOK
<1>4. failsafe' \in Nat
  BY <1>2, <1>3, FS_CardinalityType
<1>5. TypeOK'
  BY <1>1, <1>2, <1>3, <1>4 DEF TypeOK
<1>6. Starts(bound', path')
  BY <1>1, PrefixSegments
<1>7. \A k \in Granting' : Starts(k, bound')
  BY <1>1 DEF Granting
<1>8. Before' \in SUBSET DOMAIN allowed_paths
  BY <1>2 DEF Before
<1>9. Cardinality(Before') <= failsafe' /\ IsFiniteSet(Before')
  BY <1>2, <1>3, <1>8, FS_Subset
<1>10. Before' = {} \/ failsafe' > 0
  <2>1. Before' # {} => DOMAIN allowed_paths # {}
    BY <1>8
  <2>2. DOMAIN allowed_paths # {} => Cardinality(DOMAIN allowed_paths) # 0
    BY <1>3, FS_EmptySet
  <2> QED BY <1>2, <1>4, <2>1, <2>2
<1>11. SearchInv'
  BY <1>2, <1>5, <1>6, <1>7, <1>9, <1>10 DEF SearchInv
<1> QED BY <1>2, <1>11 DEF IndInv, FindsLongestPrefix

\* No entry is left before the place where the search is: none could answer.
LEMMA ExhaustedKeeps ==
    ASSUME IndInv, search = "loop", Before = {}, search' = "none",
           UNCHANGED <<bound, failsafe, pathinout, path, want, config>>
    PROVE  IndInv'
<1>1. Granting = {}
  <2> SUFFICES ASSUME NEW l \in Granting PROVE FALSE
    OBVIOUS
  <2>1. l \in Seq(Nat) /\ bound \in Seq(Nat) /\ Starts(l, bound)
    BY SegmentsAreNumbers DEF IndInv, SearchInv, TypeOK, Granting
  <2>2. l \in Before
    BY <2>1, PrefixAtMost DEF Before, Granting
  <2> QED BY <2>2
<1>2. Granting' = {}
  BY <1>1 DEF Granting, extract, config
<1>3. TypeOK'
  BY DEF IndInv, SearchInv, TypeOK, config
<1>4. stage' = "ready"
  BY DEF IndInv, SearchInv, config
<1> QED BY <1>2, <1>3, <1>4 DEF IndInv, SearchInv, FindsLongestPrefix

\* The last entry before the place where the search is answers: it is the
\* longest that could.
LEMMA FoundKeeps ==
    ASSUME IndInv, search = "loop", NEW key \in LastKeys, Starts(key, path),
           extract(allowed_paths[key]), search' = "found",
           pathinout' = allowed_paths[key].real_path \o SubSeq(path, Len(key) + 1, Len(path)),
           UNCHANGED <<bound, failsafe, path, want, config>>
    PROVE  IndInv'
<1>1. /\ key \in DOMAIN allowed_paths /\ key \in Granting
      /\ key \in Seq(Segments) /\ key \in Seq(Nat)
      /\ path \in Seq(Segments) /\ path \in Seq(Nat)
      /\ allowed_paths[key].real_path \in Seq(Segments)
  BY SegmentsAreNumbers DEF IndInv, SearchInv, TypeOK, Granting, LastKeys, Before, Entries
<1>2. \A l \in Granting : Len(l) <= Len(key)
  <2> TAKE l \in Granting
  <2>1. l \in Seq(Nat) /\ Starts(l, path) /\ AtMost(l, key)
    BY GrantingBefore, SegmentsAreNumbers DEF IndInv, SearchInv, TypeOK, Granting
  <2> QED BY <1>1, <2>1, PrefixesOrdered
<1>3. Granting' = Granting
  BY DEF Granting, extract, config
<1>4. pathinout' \in Seq(Segments)
  <2>1. SubSeq(path, Len(key) + 1, Len(path)) \in Seq(Segments)
    BY <1>1
  <2> QED BY <1>1, <2>1
<1>5. TypeOK'
  BY <1>4 DEF IndInv, SearchInv, TypeOK, config
<1>6. stage' = "ready" /\ UNCHANGED allowed_paths
  BY DEF IndInv, SearchInv, config
<1>7. SearchInv'
  BY <1>5, <1>6 DEF SearchInv
<1>8. FindsLongestPrefix'
  BY <1>1, <1>2, <1>3, <1>6 DEF FindsLongestPrefix
<1> QED BY <1>7, <1>8 DEF IndInv

\* The last entry does not answer: the search goes on, or the failsafe ends it
\* with nothing left to find.
LEMMA GoesOnKeeps ==
    ASSUME IndInv, search = "loop", NEW key \in LastKeys,
           ~(Starts(key, path) /\ extract(allowed_paths[key])),
           bound' = NextBound(key), failsafe' = failsafe - 1,
           search' = IF failsafe' = 0 THEN "none" ELSE "loop",
           UNCHANGED <<pathinout, path, want, config>>
    PROVE  IndInv'
<1>1. key \notin Granting /\ key \in Before
  BY DEF Granting, LastKeys
<1>2. UNCHANGED <<allowed_paths, stage, options>> /\ Granting' = Granting /\ stage = "ready"
  BY DEF Granting, extract, config, IndInv, SearchInv
<1>3. failsafe' \in Nat
  BY <1>1 DEF IndInv, SearchInv, TypeOK
<1>4. /\ bound' \in Seq(Segments) /\ Starts(bound', path')
      /\ \A l \in Granting' : Starts(l, bound')
  BY <1>1, <1>2, NextBoundKeeps
<1>5. TypeOK'
  BY <1>2, <1>3, <1>4 DEF IndInv, SearchInv, TypeOK
<1>6. Granting' = {} \/ Cardinality(Before') <= failsafe'
  <2>1. /\ Cardinality(Before') \in Nat
        /\ Granting = {} \/ Cardinality(Before') < Cardinality(Before)
    BY <1>1, <1>2, FewerBefore
  <2>2. Granting = {} \/ Cardinality(Before) <= failsafe
    BY DEF IndInv, SearchInv
  <2>3. Cardinality(Before) \in Nat /\ failsafe \in Nat
    <3>1. IsFiniteSet(DOMAIN allowed_paths) /\ Before \in SUBSET DOMAIN allowed_paths
      BY DEF IndInv, SearchInv, TypeOK, Before
    <3> QED BY <3>1, FS_Subset, FS_CardinalityType DEF IndInv, SearchInv, TypeOK
  <2> QED BY <1>2, <2>1, <2>2, <2>3
<1>7. SearchInv'
  <2>1. failsafe' # 0 => failsafe' > 0
    BY <1>3 DEF IndInv, SearchInv, TypeOK
  <2>2. search' = "loop" => failsafe' # 0
    OBVIOUS
  <2>3. stage' = "ready"
    BY <1>2
  <2> QED BY <1>4, <1>5, <1>6, <2>1, <2>2, <2>3 DEF SearchInv
<1>8. search' = "none" => Granting' = {}
  <2> SUFFICES ASSUME failsafe' = 0, NEW l \in Granting' PROVE FALSE
    OBVIOUS
  <2>1. IsFiniteSet(Before') /\ Cardinality(Before') \in Nat
    BY <1>1, <1>2, FewerBefore
  <2>2. Cardinality(Before') = 0
    BY <1>6, <2>1
  <2>3. Before' = {}
    BY <2>1, <2>2, FS_EmptySet
  <2>4. l \in Seq(Nat) /\ bound' \in Seq(Nat) /\ Starts(l, bound')
    BY <1>2, <1>4, SegmentsAreNumbers DEF IndInv, SearchInv, TypeOK, Granting
  <2>5. l \in Before'
    BY <1>2, <2>4, PrefixAtMost DEF Before, Granting
  <2> QED BY <2>3, <2>5
<1> QED BY <1>7, <1>8 DEF IndInv, FindsLongestPrefix

\* Every step keeps the invariant.
LEMMA SearchInductive == IndInv /\ [Next]_vars => IndInv'
<1> SUFFICES ASSUME IndInv, [Next]_vars PROVE IndInv'
  OBVIOUS
<1>1. CASE \/ \E p \in UserPaths : AllowRead(p) \/ AllowWrite(p)
           \/ \E p \in UserPaths, q \in Targets, r, w \in BOOLEAN : Volume(p, q, r, w)
           \/ AllowHarmless
           \/ AllowMain
  BY <1>1, ConfigKeeps
<1>2. ASSUME NEW w \in Wants, NEW p \in UserPaths, Lookup(w, p) PROVE IndInv'
  BY <1>2, LookupKeeps
<1>3. CASE Iterate
  <2>1. CASE Before = {} /\ search' = "none" /\ UNCHANGED <<bound, failsafe, pathinout>>
    BY <1>3, <2>1, ExhaustedKeeps DEF Iterate
  <2>2. ASSUME NEW key \in LastKeys, Starts(key, path), extract(allowed_paths[key]),
               search' = "found",
               pathinout' = allowed_paths[key].real_path \o SubSeq(path, Len(key) + 1, Len(path)),
               UNCHANGED <<bound, failsafe>>
        PROVE  IndInv'
    BY <1>3, <2>2, FoundKeeps DEF Iterate
  <2>3. ASSUME NEW key \in LastKeys, ~(Starts(key, path) /\ extract(allowed_paths[key])),
               bound' = NextBound(key), failsafe' = failsafe - 1,
               search' = IF failsafe' = 0 THEN "none" ELSE "loop", UNCHANGED pathinout
        PROVE  IndInv'
    BY <1>3, <2>3, GoesOnKeeps DEF Iterate
  <2> QED BY <1>3, <2>1, <2>2, <2>3 DEF Iterate, Spent
<1>4. CASE UNCHANGED vars
  <2>1. UNCHANGED <<stage, options, allowed_paths, search, path, want, bound, failsafe, pathinout>>
    BY <1>4 DEF vars, config, lookup
  <2>2. Granting' = Granting /\ Before' = Before
    BY <2>1 DEF Granting, extract, Before
  <2>3. TypeOK'
    BY <2>1 DEF IndInv, SearchInv, TypeOK
  <2>4. SearchInv'
    BY <2>1, <2>2, <2>3 DEF IndInv, SearchInv
  <2>5. FindsLongestPrefix'
    BY <2>1, <2>2 DEF IndInv, FindsLongestPrefix
  <2> QED BY <2>4, <2>5 DEF IndInv
<1> QED BY <1>1, <1>2, <1>3, <1>4 DEF Next

\* The loop of lookup_allowed_path keeps the answer in sight and its failsafe
\* never runs out before it, whatever the map and the path.
THEOREM PathsInvariant == Spec => []SearchInv
<1>1. IndInv => SearchInv
  BY DEF IndInv
<1> QED BY <1>1, SearchInitially, SearchInductive, PTL DEF Spec

\* lookup_allowed_path finds the longest prefix that gives the right asked for,
\* and nothing only if there is none, for every map of paths and every path.
THEOREM PathsFindsLongestPrefix == Spec => []FindsLongestPrefix
<1>1. IndInv => FindsLongestPrefix
  BY DEF IndInv
<1> QED BY <1>1, SearchInitially, SearchInductive, PTL DEF Spec

\* Every iteration of the search leaves an entry behind for good, until only
\* the root is left: there are no more iterations than entries.
THEOREM PathsSearchAdvances == Spec => SearchAdvances
<1> DEFINE Advances ==
      search = "loop" /\ search' = "loop" =>
          \/ Cardinality(Before') < Cardinality(Before)
          \/ Before = {<<>>} /\ failsafe' < failsafe
<1>1. IndInv /\ [Next]_vars => [Advances]_vars
  <2> SUFFICES ASSUME IndInv, Next, search = "loop", search' = "loop" PROVE Advances
    OBVIOUS
  <2>1. Iterate
    BY DEF Next, IndInv, SearchInv, AllowRead, AllowWrite, Volume, AllowHarmless, AllowMain, Lookup
  <2>2. PICK key \in LastKeys :
          /\ ~(Starts(key, path) /\ extract(allowed_paths[key]))
          /\ bound' = NextBound(key) /\ failsafe' = failsafe - 1
          /\ UNCHANGED <<allowed_paths, path>>
    BY <2>1 DEF Iterate, Spent, config
  <2>3. key \notin Granting
    BY <2>2 DEF Granting
  <2>4. CASE Len(key) # 0
    BY <2>2, <2>3, <2>4, FewerBefore
  <2>5. CASE Len(key) = 0
    BY <2>2, <2>5, RootIsLast DEF IndInv, SearchInv, TypeOK
  <2> QED BY <2>4, <2>5
<1>2. Spec => []IndInv
  BY SearchInitially, SearchInductive, PTL DEF Spec
<1> QED BY <1>1, <1>2, PTL DEF Spec, SearchAdvances

-----------------------------------------------------------------------------
(* The refinement of PathPolicy.                                            *)

\* No path and no right is lost from one map to the next.
Grown(old, new) ==
    /\ DOMAIN old \subseteq DOMAIN new
    /\ \A k \in DOMAIN old :
          /\ old[k].readable => new[k].readable
          /\ old[k].writable => new[k].writable
          /\ old[k].symlink => new[k].symlink

\* ensure_path only adds rights, whatever the map, the paths and the rights.
LEMMA EnsureGrows ==
    ASSUME NEW allowed, NEW src, NEW dst, NEW r, NEW w, NEW s
    PROVE  Grown(allowed, ensure_path(allowed, src, dst, r, w, s))
<1> DEFINE key == Normal(HostCwd, src)
           target == Normal(HostCwd, dst)
           old == IF key \in DOMAIN allowed THEN allowed[key]
                  ELSE [real_path |-> target, readable |-> FALSE, writable |-> FALSE,
                        symlink |-> FALSE]
           new == [real_path |-> target, readable |-> old.readable \/ r,
                   writable |-> old.writable \/ w, symlink |-> old.symlink \/ s]
           result == [k \in DOMAIN allowed \cup {key} |-> IF k = key THEN new ELSE allowed[k]]
<1>1. /\ new.readable <=> old.readable \/ r
      /\ new.writable <=> old.writable \/ w
      /\ new.symlink <=> old.symlink \/ s
  OBVIOUS
<1>2. key \in DOMAIN allowed => old = allowed[key]
  OBVIOUS
<1> HIDE DEF new, old
<1>3. /\ DOMAIN result = DOMAIN allowed \cup {key}
      /\ \A k \in DOMAIN result : result[k] = IF k = key THEN new ELSE allowed[k]
  OBVIOUS
<1> HIDE DEF result
<1>4. Grown(allowed, result)
  BY <1>1, <1>2, <1>3 DEF Grown
<1> QED BY <1>4 DEF ensure_path, result, new, old

\* Several calls of it do, too.
LEMMA GrownTransitive ==
    ASSUME NEW a, NEW b, NEW c, Grown(a, b), Grown(b, c)
    PROVE  Grown(a, c)
BY DEF Grown

\* Every step of FromArgs.
LEMMA ConfigGrants ==
    ASSUME IndInv, IndInv',
           \/ \E p \in UserPaths : AllowRead(p) \/ AllowWrite(p)
           \/ \E p \in UserPaths, q \in Targets, r, w \in BOOLEAN : Volume(p, q, r, w)
           \/ AllowHarmless
           \/ AllowMain
    PROVE  Policy!Grant
<1>1. Grown(allowed_paths, allowed_paths')
  <2>1. CASE \/ \E p \in UserPaths : AllowRead(p) \/ AllowWrite(p)
             \/ \E p \in UserPaths, q \in Targets, r, w \in BOOLEAN : Volume(p, q, r, w)
    BY <2>1, EnsureGrows DEF AllowRead, AllowWrite, Volume
  <2>2. CASE AllowHarmless
    <3> DEFINE random == ensure_path(allowed_paths, Absolute(Random), Absolute(Random),
                                     TRUE, FALSE, TRUE)
               devices == ensure_path(random, Absolute(Device), Absolute(Device), TRUE, TRUE, TRUE)
    <3>1. Grown(allowed_paths, random)
      BY EnsureGrows
    <3>2. Grown(random, devices)
      BY EnsureGrows
    <3>3. Grown(devices, allowed_paths')
      BY <2>2, EnsureGrows DEF AllowHarmless, fake_path
    <3> HIDE DEF random, devices
    <3> QED BY <3>1, <3>2, <3>3, GrownTransitive
  <2>3. CASE AllowMain
    <3> DEFINE exe == ensure_path(allowed_paths, Absolute(Exe), Absolute(Main), FALSE, FALSE, TRUE)
    <3>1. Grown(allowed_paths, exe)
      BY EnsureGrows
    <3>2. Grown(exe, allowed_paths')
      BY <2>3, EnsureGrows DEF AllowMain
    <3> HIDE DEF exe
    <3> QED BY <3>1, <3>2, GrownTransitive
  <2> QED BY <2>1, <2>2, <2>3
<1>2. stage # "ready" /\ UNCHANGED lookup
  BY DEF AllowRead, AllowWrite, Volume, AllowHarmless, AllowMain, Option
<1>3. search' = "idle"
  BY <1>2 DEF IndInv, SearchInv, lookup
<1> QED BY <1>1, <1>2, <1>3 DEF Grown, Policy!Grant, lookup

\* A look at every entry, in the words of both specifications.
LEMMA SameGranting ==
    ASSUME IndInv
    PROVE  Policy!Granting = Granting
<1>1. \A k \in DOMAIN allowed_paths : Policy!Prefix(k) <=> Starts(k, path)
  <2> TAKE k \in DOMAIN allowed_paths
  <2>1. k \in Seq(Segments) /\ path \in Seq(Segments)
    BY DEF IndInv, SearchInv, TypeOK
  <2> QED BY <2>1 DEF Policy!Prefix, Starts, Agree
<1>2. \A k \in DOMAIN allowed_paths : Policy!Gives(allowed_paths[k]) <=> extract(allowed_paths[k])
  BY DEF IndInv, SearchInv, TypeOK, Wants, Entries, Policy!Gives, extract
<1> QED BY <1>1, <1>2 DEF Policy!Granting, Granting

\* The last iteration of a search answers, and the others are not seen.
LEMMA IterateAnswers ==
    ASSUME IndInv, IndInv', Iterate
    PROVE  Policy!Answer \/ UNCHANGED Policy!vars
<1>1. stage = "ready" /\ search = "loop" /\ UNCHANGED <<stage, allowed_paths, path, want>>
  BY DEF Iterate, config, IndInv, SearchInv
<1>2. Granting' = Granting /\ Policy!Granting = Granting
  BY <1>1, SameGranting DEF Granting, extract
<1>3. CASE search' = "loop"
  BY <1>1, <1>3 DEF Iterate, Policy!vars
<1>4. CASE search' = "none"
  <2>1. Policy!Granting = {}
    BY <1>2, <1>4 DEF IndInv, FindsLongestPrefix
  <2>2. UNCHANGED pathinout
    BY <1>4 DEF Iterate
  <2> QED BY <1>1, <1>4, <2>1, <2>2 DEF Policy!Answer
<1>5. CASE search' = "found"
  <2>1. PICK k \in Granting :
          /\ \A l \in Granting : Len(l) <= Len(k)
          /\ pathinout' = allowed_paths[k].real_path \o SubSeq(path, Len(k) + 1, Len(path))
    BY <1>1, <1>2, <1>5 DEF IndInv, FindsLongestPrefix
  <2> QED BY <1>1, <1>2, <1>5, <2>1 DEF Policy!Answer
<1> QED BY <1>3, <1>4, <1>5 DEF Iterate

\* FromArgs and lookup_allowed_path implement PathPolicy, for every set of
\* paths and any number of options.
THEOREM PathsImplementPolicy == Spec => ImplementsPolicy
<1>1. Init => Policy!Init
  BY DEF Init, Policy!Init
<1>2. IndInv /\ IndInv' /\ [Next]_vars => [Policy!Next]_(Policy!vars)
  <2> SUFFICES ASSUME IndInv, IndInv', [Next]_vars PROVE [Policy!Next]_(Policy!vars)
    OBVIOUS
  <2>1. CASE \/ \E p \in UserPaths : AllowRead(p) \/ AllowWrite(p)
             \/ \E p \in UserPaths, q \in Targets, r, w \in BOOLEAN : Volume(p, q, r, w)
             \/ AllowHarmless
             \/ AllowMain
    BY <2>1, ConfigGrants DEF Policy!Next
  <2>2. ASSUME NEW w \in Wants, NEW p \in UserPaths, Lookup(w, p) PROVE Policy!Ask
    <3>1. path' \in Seq(Segments)
      BY <2>2, NormalTyped DEF Lookup
    <3> QED BY <2>2, <3>1 DEF Lookup, config, Wants, Policy!Ask
  <2>3. CASE Iterate
    BY <2>3, IterateAnswers DEF Policy!Next
  <2>4. CASE UNCHANGED vars
    BY <2>4 DEF vars, config, lookup, Policy!vars
  <2> QED BY <2>1, <2>2, <2>3, <2>4 DEF Next, Policy!Next
<1>3. Spec => []IndInv
  BY SearchInitially, SearchInductive, PTL DEF Spec
<1> QED BY <1>1, <1>2, <1>3, PTL DEF Spec, ImplementsPolicy, Policy!Spec

=============================================================================
