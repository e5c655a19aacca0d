----------------------------- MODULE PathPolicy -----------------------------
(***************************************************************************)
(* What the path options and the lookup of a guest path promise, without   *)
(* saying how: as long as options are read, paths only gain rights; after  *)
(* that nothing changes any more, and a path is answered in one step, by   *)
(* the longest of its prefixes that gives the right asked for.             *)
(***************************************************************************)
EXTENDS Integers, Sequences

CONSTANT Segments   \* names of files and directories

VARIABLES
    phase,     \* "options", then "idle", "asked", and "found" or "none"
    allowed,   \* the target and the rights of every path that has any
    path,      \* the path asked for
    want,      \* the right asked for
    answer     \* the path handed back

vars == <<phase, allowed, path, want, answer>>

Init ==
    /\ phase = "options"
    /\ DOMAIN allowed = {}
    /\ path = <<>> /\ want = "readable" /\ answer = <<>>

\* Paths are added, and rights: no path and no right is taken away.
Grant ==
    /\ phase = "options" /\ phase' \in {"options", "idle"}
    /\ DOMAIN allowed \subseteq DOMAIN allowed'
    /\ \A k \in DOMAIN allowed :
          /\ allowed[k].readable => allowed'[k].readable
          /\ allowed[k].writable => allowed'[k].writable
          /\ allowed[k].symlink => allowed'[k].symlink
    /\ UNCHANGED <<path, want, answer>>

Ask ==
    /\ phase = "idle" /\ phase' = "asked"
    /\ path' \in Seq(Segments)
    /\ want' \in {"readable", "writable", "resolve"}
    /\ UNCHANGED <<allowed, answer>>

Prefix(k) == Len(k) <= Len(path) /\ \A i \in 1 .. Len(k) : k[i] = path[i]
Gives(entry) ==
    (want = "readable" => entry.readable) /\ (want = "writable" => entry.writable)
Granting == {k \in DOMAIN allowed : Prefix(k) /\ Gives(allowed[k])}

Answer ==
    /\ phase = "asked"
    /\ \/ Granting = {} /\ phase' = "none" /\ UNCHANGED answer
       \/ \E k \in Granting :
             /\ \A l \in Granting : Len(l) <= Len(k)
             /\ phase' = "found"
             /\ answer' = allowed[k].real_path \o SubSeq(path, Len(k) + 1, Len(path))
    /\ UNCHANGED <<allowed, path, want>>

Next == Grant \/ Ask \/ Answer

Spec == Init /\ [][Next]_vars

=============================================================================
