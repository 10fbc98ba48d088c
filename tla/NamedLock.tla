------------------------------- MODULE NamedLock -------------------------------
(***************************************************************************)
(* The named lock of the DistributedBackend contract, as LocalBackend      *)
(* carries it out in one process (distributed/backend.py).  A backend over *)
(* a network implements it as long as it is upheld.                        *)
(***************************************************************************)
CONSTANTS
    Owners,
    NoOwner

VARIABLES
    owner,     \* _locks[name]
    holders,   \* the owners that were told they have the lock
    upheld     \* the promise of the backend stands

lockVars == <<owner, holders, upheld>>

Init ==
    /\ owner = NoOwner
    /\ holders = {}
    /\ upheld = TRUE

\* acquire_lock returning True; the answer may be lost on its way.
Acquire(p) ==
    /\ owner \in {NoOwner, p}
    /\ owner' = p
    /\ holders' \in {holders, holders \cup {p}}
    /\ UNCHANGED upheld

\* release_lock returning True
Release(p) ==
    /\ owner = p
    /\ owner' = NoOwner
    /\ holders' = holders \ {p}
    /\ UNCHANGED upheld

\* A process ends, or takes a refusal for the truth.
Forget(p) ==
    /\ holders' = holders \ {p}
    /\ UNCHANGED <<owner, upheld>>

\* A lock nobody believes to hold becomes free.
Lapse ==
    /\ owner \notin holders
    /\ owner' = NoOwner
    /\ UNCHANGED <<holders, upheld>>

\* Nothing is promised from here on.
Break ==
    /\ upheld' = FALSE
    /\ owner' \in Owners \cup {NoOwner}
    /\ holders' \in SUBSET Owners

Next ==
    \/ \E p \in Owners : Acquire(p) \/ Release(p) \/ Forget(p)
    \/ Lapse
    \/ Break

Spec == Init /\ [][Next]_lockVars
=============================================================================
