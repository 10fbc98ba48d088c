---------------------------- MODULE RedisLock_proofs ----------------------------
(***************************************************************************)
(* The Redis lock is exclusive, and implements the lock of LocalBackend,   *)
(* until a key expires under its holder or the answer of a DELETE is lost: *)
(* for any number of processes and attempts.                               *)
(***************************************************************************)
EXTENDS RedisLock, TLAPS

USE LockAssumption DEF LockAssumption

\* The types of the key, the flags of LocalLock and the calls under way.
THEOREM TypeCorrect == Spec => []TypeOK
<1>1. Init => TypeOK
  BY DEF Init, TypeOK, Idle
<1>2. TypeOK /\ [Next]_vars => TypeOK'
  <2> SUFFICES ASSUME TypeOK, [Next]_vars PROVE TypeOK'
    OBVIOUS
  <2> USE DEF TypeOK, Idle, Ops, Command
  <2>1. ASSUME NEW p \in Owners, NEW op \in Ops, Begin(p, op) PROVE TypeOK'
    BY <2>1 DEF Begin
  <2>2. ASSUME NEW p \in Owners, Lookup(p) PROVE TypeOK'
    BY <2>2 DEF Lookup, Granted, Released, Return, Locking, Mine, At
  <2>3. ASSUME NEW p \in Owners, Write(p) PROVE TypeOK'
    BY <2>3 DEF Write, Written, SetNX, Granted, Released, Refused, Return
  <2>4. ASSUME NEW p \in Owners, CommandLost(p) PROVE TypeOK'
    BY <2>4 DEF CommandLost, Retry, Return
  <2>5. ASSUME NEW p \in Owners, AnswerLost(p) PROVE TypeOK'
    BY <2>5 DEF AnswerLost, Written, SetNX, Retry, Return
  <2>6. ASSUME NEW p \in Owners, Reconnect(p) PROVE TypeOK'
    BY <2>6 DEF Reconnect, Return
  <2>7. ASSUME NEW p \in Owners, Crash(p) PROVE TypeOK'
    BY <2>7 DEF Crash, Return
  <2>8. CASE Expire
    BY <2>8 DEF Expire
  <2>9. CASE UNCHANGED vars
    BY <2>9 DEF vars
  <2> QED
    BY <2>1, <2>2, <2>3, <2>4, <2>5, <2>6, <2>7, <2>8, <2>9 DEF Next, Proceed
<1> QED
  BY <1>1, <1>2, PTL DEF Spec

\* The exclusion of the lock follows from what GET and SET NX see at the moment
\* they are carried out.  That a DELETE under way is for one's own key is the
\* part of the invariant the comparison in release_lock is there for.
THEOREM ExclusiveHolds == Spec => []Exclusive
<1>1. ASSUME Init PROVE Exclusive
  <2>1. \A p \in Owners : p \notin acquired /\ call[p].op = "none"
    BY <1>1 DEF Init, Idle
  <2> QED
    BY <2>1 DEF Exclusive, DeletesOwn
<1>2. TypeOK /\ Exclusive /\ [Next]_vars => Exclusive'
  <2> SUFFICES ASSUME TypeOK, Exclusive, [Next]_vars PROVE Exclusive'
    OBVIOUS
  <2> USE DEF TypeOK, Exclusive, DeletesOwn, Ops, Idle, Command
  <2>1. ASSUME NEW p \in Owners, NEW op \in Ops, Begin(p, op) PROVE Exclusive'
    BY <2>1 DEF Begin
  <2>2. ASSUME NEW p \in Owners, Lookup(p) PROVE Exclusive'
    BY <2>2 DEF Lookup, Granted, Released, Return, Locking, Mine, At
  <2>3. ASSUME NEW p \in Owners, Write(p) PROVE Exclusive'
    BY <2>3 DEF Write, Written, SetNX, Granted, Released, Refused, Return,
                Locking, At
  <2>4. ASSUME NEW p \in Owners, CommandLost(p) PROVE Exclusive'
    BY <2>4 DEF CommandLost, Retry, Return
  <2>5. ASSUME NEW p \in Owners, AnswerLost(p) PROVE Exclusive'
    <3> SUFFICES ASSUME upheld', NEW q \in Owners
                 PROVE (q \in acquired => key' = q) /\ DeletesOwn(q)'
      BY <2>5 DEF AnswerLost
    <3>1. Locking(p) /\ upheld
      BY <2>5 DEF AnswerLost, At, Locking
    <3>2. key' = SetNX(p)
      BY <2>5, <3>1 DEF AnswerLost, Written
    <3>3. q \in acquired => key' = q
      BY <3>1, <3>2 DEF SetNX
    <3>4. call'[q].op = "release" => call'[q] = call[q]
      BY <2>5, <3>1 DEF AnswerLost, Retry, Return, Locking
    <3> QED
      BY <3>1, <3>2, <3>3, <3>4 DEF SetNX
  <2>6. ASSUME NEW p \in Owners, Reconnect(p) PROVE Exclusive'
    BY <2>6 DEF Reconnect, Return
  <2>7. ASSUME NEW p \in Owners, Crash(p) PROVE Exclusive'
    BY <2>7 DEF Crash, Return
  <2>8. CASE Expire
    BY <2>8 DEF Expire, Expires, Relies
  <2>9. CASE UNCHANGED vars
    BY <2>9 DEF vars
  <2> QED
    BY <2>1, <2>2, <2>3, <2>4, <2>5, <2>6, <2>7, <2>8, <2>9 DEF Next, Proceed
<1> QED
  BY <1>1, <1>2, TypeCorrect, PTL DEF Spec

\* The Redis lock implements NamedLock: commands that end a call are the
\* abstract operations, those whose answer is lost are operations whose answer
\* is lost, and an expiry nobody relies on is a lapse.
THEOREM Refinement == Spec => Promised
<1>1. Init => Lock!Init
  BY DEF Init, Lock!Init
<1>2. TypeOK /\ TypeOK' /\ Exclusive /\ [Next]_vars => [Lock!Next]_(Lock!lockVars)
  <2> SUFFICES ASSUME TypeOK, TypeOK', Exclusive, [Next]_vars
               PROVE [Lock!Next]_(Lock!lockVars)
    OBVIOUS
  <2> USE DEF TypeOK, Lock!Next, Lock!lockVars
  <2>1. ASSUME NEW p \in Owners, NEW op \in Ops, Begin(p, op)
        PROVE UNCHANGED Lock!lockVars
    BY <2>1 DEF Begin
  <2>2. ASSUME NEW p \in Owners, Lookup(p)
        PROVE Lock!Acquire(p) \/ UNCHANGED Lock!lockVars
    BY <2>2 DEF Lookup, Granted, Released, Locking, Mine, At, Lock!Acquire
  <2>3. ASSUME NEW p \in Owners, Write(p), ~upheld PROVE Lock!Break
    BY <2>3 DEF Write, Lock!Break
  <2>4. ASSUME NEW p \in Owners, Write(p), upheld
        PROVE Lock!Acquire(p) \/ Lock!Release(p) \/ Lock!Forget(p)
    BY <2>4 DEF Write, Written, SetNX, Granted, Released, Refused, Locking, At,
                Exclusive, DeletesOwn, Ops, Lock!Acquire, Lock!Release, Lock!Forget
  <2>5. ASSUME NEW p \in Owners, AnswerLost(p)
        PROVE Lock!Acquire(p) \/ Lock!Break \/ UNCHANGED Lock!lockVars
    BY <2>5 DEF AnswerLost, Written, SetNX, Lock!Acquire, Lock!Break,
                Exclusive, DeletesOwn, Locking, At, Ops
  <2>6. ASSUME NEW p \in Owners, CommandLost(p) \/ Reconnect(p)
        PROVE UNCHANGED Lock!lockVars
    BY <2>6 DEF CommandLost, Reconnect
  <2>7. ASSUME NEW p \in Owners, Crash(p) PROVE Lock!Forget(p)
    BY <2>7 DEF Crash, Lock!Forget
  <2>8. ASSUME Expire PROVE Lock!Lapse \/ Lock!Break
    BY <2>8 DEF Expire, Expires, Relies, Lock!Lapse, Lock!Break
  <2>9. CASE UNCHANGED vars
    BY <2>9 DEF vars
  <2> QED
    BY <2>1, <2>2, <2>3, <2>4, <2>5, <2>6, <2>7, <2>8, <2>9 DEF Next, Proceed
<1> QED
  BY <1>1, <1>2, TypeCorrect, ExclusiveHolds, PTL DEF Spec, Promised, Lock!Spec
=============================================================================
