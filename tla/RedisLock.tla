------------------------------- MODULE RedisLock -------------------------------
(***************************************************************************)
(* The lock of RedisBackend (distributed/redis.py) under LocalLock         *)
(* (distributed/locks.py): processes that share one Redis key, where every *)
(* call is two commands, GET and then SET NX or DELETE, and every command  *)
(* may be carried out and answered, carried out with the answer lost, or   *)
(* lost; _execute tries a failed command again after a reconnect.          *)
(*                                                                         *)
(* One process has one backend, whose lock its calls hold to the end, so a *)
(* process has one call at a time.  Redis is external: GET, SET NX EX and  *)
(* DELETE are atomic, and a key set with EX may expire at any moment.      *)
(***************************************************************************)
EXTENDS Naturals

CONSTANTS
    Owners,              \* the processes, by the owner they lock with
    NoOwner,
    ReconnectAttempts    \* reconnect_attempts

ASSUME LockAssumption ==
    /\ NoOwner \notin Owners
    /\ ReconnectAttempts \in Nat

VARIABLES
    key,        \* the owner stored under the lock's key
    acquired,   \* the processes whose LocalLock._acquired is set
    call,       \* the call under way in each process
    upheld      \* no holder lost its key, no DELETE its answer (history)

vars == <<key, acquired, call, upheld>>

Ops == {"acquire", "renew", "release"}

Idle == [op |-> "none", at |-> "none", left |-> 0, link |-> "up"]

Command(op, at) == [op |-> op, at |-> at, left |-> ReconnectAttempts, link |-> "up"]

Init ==
    /\ key = NoOwner
    /\ acquired = {}
    /\ call = [p \in Owners |-> Idle]
    /\ upheld = TRUE

\* acquire and renew, which both end in acquire_lock
Locking(p) == call[p].op # "release"

At(p, at) == call[p].at = at /\ call[p].link = "up"

Return(p) == call' = [call EXCEPT ![p] = Idle]

-----------------------------------------------------------------------------
(* Calls of LocalLock, and their results.                                   *)

\* renew of a lock not acquired is refused without a command.
Begin(p, op) ==
    /\ call[p] = Idle
    /\ op = "renew" => p \in acquired
    /\ call' = [call EXCEPT ![p] = Command(op, "lookup")]
    /\ UNCHANGED <<key, acquired, upheld>>

Granted(p) == Return(p) /\ acquired' = acquired \cup {p}

\* acquire forgets the lock when it is refused, renew does not.
Refused(p) ==
    /\ Return(p)
    /\ acquired' = IF call[p].op = "acquire" THEN acquired \ {p} ELSE acquired

\* release forgets the lock only when a key was deleted.
Released(p, deleted) ==
    /\ Return(p)
    /\ acquired' = IF deleted THEN acquired \ {p} ELSE acquired

-----------------------------------------------------------------------------
(* The commands, answered.                                                  *)

\* A slip: release does not compare the owner it looked up.
MutantMine(p) == call[p].op = "release" \/ key = p

Mine(p) == key = p

\* GET decides: the owner's own lock is granted at once, without a new expiry,
\* and a lock of another is not released.
Lookup(p) ==
    /\ At(p, "lookup")
    /\ IF Locking(p) /\ Mine(p) THEN Granted(p)
       ELSE IF ~Locking(p) /\ ~Mine(p) THEN Released(p, FALSE)
       ELSE /\ call' = [call EXCEPT ![p] = Command(@.op, "write")]
            /\ UNCHANGED acquired
    /\ UNCHANGED <<key, upheld>>

\* A slip: SET without NX.
MutantSetNX(p) == p

SetNX(p) == IF key = NoOwner THEN p ELSE key

Written(p) == IF Locking(p) THEN SetNX(p) ELSE NoOwner

Write(p) ==
    /\ At(p, "write")
    /\ key' = Written(p)
    /\ IF ~Locking(p) THEN Released(p, key # NoOwner)
       ELSE IF key' # key THEN Granted(p)
       ELSE Refused(p)
    /\ UNCHANGED upheld

-----------------------------------------------------------------------------
(* The commands that fail: _execute and _reconnect.                         *)

\* Another attempt, or an exception out of the call, which leaves _acquired.
Retry(p) ==
    IF call[p].left = 0
    THEN Return(p)
    ELSE call' = [call EXCEPT ![p].left = @ - 1, ![p].link = "down"]

CommandLost(p) ==
    /\ At(p, "lookup") \/ At(p, "write")
    /\ Retry(p)
    /\ UNCHANGED <<key, acquired, upheld>>

\* Redis carried the command out.  A lost SET is harmless; the DELETE of one's
\* own key is not, for it will be sent again or reported as failed.
AnswerLost(p) ==
    /\ At(p, "write")
    /\ key' = Written(p)
    /\ upheld' = (upheld /\ (Locking(p) \/ key # p))
    /\ Retry(p)
    /\ UNCHANGED acquired

\* The ping of _reconnect, answered or not.
Reconnect(p) ==
    /\ call[p].link = "down"
    /\ call' = [call EXCEPT ![p].link = "up"] \/ Return(p)
    /\ UNCHANGED <<key, acquired, upheld>>

-----------------------------------------------------------------------------
(* The environment.                                                         *)

\* A slip: SET without EX.
MutantExpires == FALSE

\* ex = lock_ttl_seconds: nothing but the first SET sets an expiry, so no
\* call keeps the key alive.
Expires == key # NoOwner

\* The holder of the lock and one about to delete it rely on the key.
Relies(p) == p \in acquired \/ (call[p].op = "release" /\ call[p].at = "write")

Expire ==
    /\ Expires
    /\ key' = NoOwner
    /\ upheld' = (upheld /\ ~Relies(key))
    /\ UNCHANGED <<acquired, call>>

\* The process is lost; another takes its name.
Crash(p) ==
    /\ acquired' = acquired \ {p}
    /\ Return(p)
    /\ UNCHANGED <<key, upheld>>

Proceed(p) ==
    Lookup(p) \/ Write(p) \/ CommandLost(p) \/ AnswerLost(p) \/ Reconnect(p)

Next ==
    \/ \E p \in Owners :
          \/ \E op \in Ops : Begin(p, op)
          \/ Proceed(p)
          \/ Crash(p)
    \/ Expire

Spec == Init /\ [][Next]_vars

\* Redis expires its keys.
FairSpec == Spec /\ WF_vars(Expire)

-----------------------------------------------------------------------------
(* Properties.                                                              *)

TypeOK ==
    /\ key \in Owners \cup {NoOwner}
    /\ acquired \subseteq Owners
    /\ call \in [Owners -> [op : Ops \cup {"none"},
                            at : {"none", "lookup", "write"},
                            left : 0..ReconnectAttempts,
                            link : {"up", "down"}]]
    /\ upheld \in BOOLEAN

\* A release is about to delete only the key of its own process.
DeletesOwn(p) == call[p].op = "release" /\ call[p].at = "write" => key = p

\* LocalLock._acquired is exclusive although lookup and write are two commands
\* and the answers of SET are lost, until a key expires under its holder or the
\* answer of a DELETE is lost: these are all the ways to two holders.
Exclusive == upheld => \A p \in Owners : (p \in acquired => key = p) /\ DeletesOwn(p)

Lock == INSTANCE NamedLock WITH
    owner <- key, holders <- acquired

\* Until then the Redis lock implements the lock of LocalBackend.
Promised == Lock!Spec

\* A lock left by a process that crashed, or whose grant was lost, is freed:
\* it is not held against the others for ever.
OrphanFreed ==
    \A p \in Owners : (key = p /\ p \notin acquired) ~> (key # p \/ p \in acquired)
=============================================================================
