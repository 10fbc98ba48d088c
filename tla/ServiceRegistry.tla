---------------------------- MODULE ServiceRegistry ----------------------------
(***************************************************************************)
(* RedisServiceRegistry (distributed/discovery.py) in several processes    *)
(* that share one Redis: one record per instance and one index per service *)
(* that every call reads and writes back as a whole.  One service is       *)
(* modelled; _known_services is then one flag per process.                 *)
(*                                                                         *)
(* Every command of a call is a step and may raise.  A process runs one    *)
(* call at a time, for its registry holds its lock to the end.  lookup and *)
(* list are a cleanup followed by reads that change nothing.               *)
(***************************************************************************)
EXTENDS Naturals

CONSTANTS
    Processes,
    Instances

VARIABLES
    record,    \* of each instance: "none", "live" or "expired"
    index,     \* the instances in the index of the service
    known,     \* the processes with the service in _known_services
    call,      \* the call under way in each process
    serial,    \* no call began while another was under way (history)
    failed     \* some command raised (history)

vars == <<record, index, known, call, serial, failed>>

Idle == [op |-> "none", at |-> "none", of |-> {}, index |-> {}, todo |-> {}]

\* of: the instance of the call as a singleton; index: the copy of the index;
\* todo: what cleanup has still to look at.
Call(op, at, of) == [op |-> op, at |-> at, of |-> of, index |-> {}, todo |-> {}]

Init ==
    /\ record = [i \in Instances |-> "none"]
    /\ index = {}
    /\ known = {}
    /\ call = [p \in Processes |-> Idle]
    /\ serial = TRUE
    /\ failed = FALSE

At(p, op, at) == call[p].op = op /\ call[p].at = at

Goto(p, at) == call' = [call EXCEPT ![p].at = at]

Return(p) == call' = [call EXCEPT ![p] = Idle]

Set(S, value) == record' = [i \in Instances |-> IF i \in S THEN value ELSE record[i]]

History == UNCHANGED <<serial, failed>>

-----------------------------------------------------------------------------
(* Calls.                                                                   *)

Begin(p, c) ==
    /\ call[p] = Idle
    /\ call' = [call EXCEPT ![p] = c]
    /\ serial' = (serial /\ \A q \in Processes : call[q] = Idle)
    /\ UNCHANGED <<record, index, known, failed>>

BeginCall(p) ==
    \E i \in Instances :
        \/ Begin(p, Call("register", "record", {i}))
        \/ Begin(p, Call("deregister", "index", {i}))
        \/ Begin(p, Call("renew", "read", {i}))

\* cleanup looks only at services this process registered.
BeginCleanup(p) == p \in known /\ Begin(p, Call("cleanup", "index", {}))

\* backend.get of the index
ReadIndex(p) ==
    /\ call[p].at = "index"
    /\ call' = [call EXCEPT
          ![p].index = index,
          ![p].todo = IF call[p].op = "cleanup" THEN index ELSE {},
          ![p].at = CASE call[p].op = "cleanup" -> "scan"
                      [] call[p].op = "deregister" /\ call[p].of \cap index = {} -> "delete"
                      [] OTHER -> "save"]
    /\ UNCHANGED <<record, index, known>> /\ History

-----------------------------------------------------------------------------
(* register: the record first, then the index.                              *)

RegisterRecord(p) ==
    /\ At(p, "register", "record")
    /\ \E value \in {"live", "expired"} : Set(call[p].of, value)
    /\ Goto(p, "index")
    /\ UNCHANGED <<index, known>> /\ History

Added(p) == call[p].index \cup call[p].of

\* The service becomes known after the index was saved.
RegisterIndex(p) ==
    /\ At(p, "register", "save")
    /\ index' = Added(p)
    /\ known' = known \cup {p}
    /\ Return(p)
    /\ UNCHANGED record /\ History

-----------------------------------------------------------------------------
(* deregister: the index first, then the record; renew: the record only.    *)

DeregisterIndex(p) ==
    /\ At(p, "deregister", "save")
    /\ index' = call[p].index \ call[p].of
    /\ call' = [call EXCEPT ![p].index = @ \ call[p].of, ![p].at = "delete"]
    /\ UNCHANGED <<record, known>> /\ History

DeregisterRecord(p) ==
    /\ At(p, "deregister", "delete")
    /\ Set(call[p].of, "none")
    /\ known' = IF call[p].index = {} THEN known \ {p} ELSE known
    /\ Return(p)
    /\ UNCHANGED index /\ History

\* A record that is missing ends renew with an exception.
RenewRead(p) ==
    /\ At(p, "renew", "read")
    /\ IF \A i \in call[p].of : record[i] = "none" THEN Return(p) ELSE Goto(p, "write")
    /\ UNCHANGED <<record, index, known>> /\ History

RenewWrite(p) ==
    /\ At(p, "renew", "write")
    /\ Set(call[p].of, "live")
    /\ Return(p)
    /\ UNCHANGED <<index, known>> /\ History

-----------------------------------------------------------------------------
(* cleanup.                                                                 *)

\* A slip: the records of live instances are purged, too.
MutantStale(i) == TRUE

Stale(i) == record[i] \in {"none", "expired"}

\* Read one record: a stale one is deleted by the next command.
CleanupRead(p) ==
    /\ At(p, "cleanup", "scan")
    /\ \E i \in call[p].todo :
          call' = [call EXCEPT ![p].todo = @ \ {i},
                               ![p].of = IF Stale(i) THEN {i} ELSE {},
                               ![p].at = IF Stale(i) THEN "purge" ELSE "scan"]
    /\ UNCHANGED <<record, index, known>> /\ History

CleanupDelete(p) ==
    /\ At(p, "cleanup", "purge")
    /\ Set(call[p].of, "none")
    /\ call' = [call EXCEPT ![p].index = @ \ call[p].of, ![p].at = "scan"]
    /\ UNCHANGED <<index, known>> /\ History

\* A slip: a service is forgotten by every cleanup.
MutantForgotten(p) == TRUE

Forgotten(p) == call[p].index = {}

\* The index is saved whether or not something was removed.
CleanupSave(p) ==
    /\ At(p, "cleanup", "scan")
    /\ call[p].todo = {}
    /\ index' = call[p].index
    /\ known' = IF Forgotten(p) THEN known \ {p} ELSE known
    /\ Return(p)
    /\ UNCHANGED record /\ History

-----------------------------------------------------------------------------
(* Failures and time.                                                       *)

\* A command raises before or after it was carried out; in the second case
\* this follows the step that carried it out.
Raise(p) ==
    /\ call[p] # Idle
    /\ Return(p)
    /\ failed' = TRUE
    /\ UNCHANGED <<record, index, known, serial>>

\* register raises although its index was saved: the service stays unknown.
RaiseSaved(p) ==
    /\ At(p, "register", "save")
    /\ index' = Added(p)
    /\ Return(p)
    /\ failed' = TRUE
    /\ UNCHANGED <<record, known, serial>>

Expire(i) ==
    /\ record[i] = "live"
    /\ Set({i}, "expired")
    /\ UNCHANGED <<index, known, call>> /\ History

Proceed(p) ==
    \/ ReadIndex(p)
    \/ RegisterRecord(p) \/ RegisterIndex(p)
    \/ DeregisterIndex(p) \/ DeregisterRecord(p)
    \/ RenewRead(p) \/ RenewWrite(p)
    \/ CleanupRead(p) \/ CleanupDelete(p) \/ CleanupSave(p)

Next ==
    \/ \E p \in Processes :
          BeginCall(p) \/ BeginCleanup(p) \/ Proceed(p) \/ Raise(p) \/ RaiseSaved(p)
    \/ \E i \in Instances : Expire(i)

Spec == Init /\ [][Next]_vars

\* Calls go on, and the worker of start() gets the lock of its registry again
\* and again although other calls compete for it.
FairSpec ==
    /\ Spec
    /\ \A p \in Processes : WF_vars(Proceed(p)) /\ SF_vars(BeginCleanup(p))

-----------------------------------------------------------------------------
(* Properties.                                                              *)

TypeOK ==
    /\ record \in [Instances -> {"none", "live", "expired"}]
    /\ index \subseteq Instances
    /\ known \subseteq Processes
    /\ serial \in BOOLEAN /\ failed \in BOOLEAN

Listed == {i \in Instances : i \in index /\ record[i] # "none"}

\* The directory that callers see, and what they are asking of it.
Entry == [i \in Instances |-> IF i \in Listed THEN record[i] ELSE "none"]

Asked ==
    UNION {{call[p].op} \X call[p].of : p \in {q \in Processes : call[q].op # "cleanup"}}

Directory == INSTANCE ServiceDirectory WITH
    entry <- Entry, asked <- Asked, upheld <- serial

\* Command by command, whatever fails, the registry is the directory of
\* LocalServiceRegistry as long as no two processes' calls overlap: an entry
\* appears, is refreshed or goes only for a call that asks for it, but for an
\* expired one, which may be purged.
Promised == Directory!Spec

\* As long as calls neither overlap nor raise, some process knows the service
\* whenever its index has entries, so that an expired instance does not stay
\* listed: _known_services is lost only with the last entry.
Purged ==
    \A i \in Instances :
        (i \in index /\ record[i] = "expired")
            ~> (i \notin index \/ record[i] # "expired" \/ failed \/ ~serial)
=============================================================================
