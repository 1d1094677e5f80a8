----------------------------- MODULE MCManagedJobs -----------------------------
(* Instances of ManagedJobs for TLC: one GPU, one or two jobs, two backends.  *)
EXTENDS ManagedJobs, TLC

CONSTANTS s1, s2, j1, j2, r1, k1

\* A crashed backend and its successor.
MCOneRepo == [s \in Server |-> r1]

\* Two repositories of one user, whose backends share only the registry.
MCOwnRepo == [s \in Server |-> s]

\* Sound for invariants: instances differ by name only, and RepoOf is either
\* constant or injective.
MCSymmetry == Permutations(Server) \cup Permutations(Job)

\* Bound: at most two calls and stale cleanups are under way at a time, beside
\* the launches.
MCFewCalls ==
    Cardinality({j \in Job : op[j].pc # "idle"})
        + Cardinality({s \in Server : look[s].key # NoKey}) <= 2
=============================================================================
