------------------------ MODULE ServiceRegistry_proofs ------------------------
(***************************************************************************)
(* Proofs about ServiceRegistry, for any processes and instances: command  *)
(* by command the registry is the directory of ServiceDirectory.           *)
(***************************************************************************)
EXTENDS ServiceRegistry, TLAPS

Values == {"none", "live", "expired"}

Asking == {"register", "deregister", "renew"}

Places == {"none", "record", "index", "save", "delete", "read", "write", "scan", "purge"}

CallRecords ==
    [op : Asking \cup {"cleanup", "none"}, at : Places, of : SUBSET Instances,
     index : SUBSET Instances, todo : SUBSET Instances]

\* Where each kind of call can be, and that it concerns one instance.
CallOK(p) ==
    /\ call[p].op = "none" => call[p] = Idle
    /\ call[p].op \in Asking => \E i \in Instances : call[p].of = {i}
    /\ call[p].op = "register" => call[p].at \in {"record", "index", "save"}
    /\ call[p].op = "deregister" => call[p].at \in {"index", "save", "delete"}
    /\ call[p].op = "renew" => call[p].at \in {"read", "write"}
    /\ call[p].op = "cleanup" => call[p].at \in {"index", "scan", "purge"}
    /\ call[p].at = "purge" => \E i \in Instances : call[p].of = {i}

\* What a call that no other call overlaps knows of Redis: its copy of the
\* index is the index, but for entries that cleanup has already deleted, and
\* the record it is about to write or list exists.
Abreast(p) ==
    /\ call[p].at = "save" => call[p].index = index
    /\ (call[p].op = "register" /\ call[p].at \in {"index", "save"}) =>
          \A i \in call[p].of : record[i] # "none"
    /\ call[p].at = "delete" => call[p].of \cap index = {}
    /\ call[p].at = "write" => \A i \in call[p].of : record[i] # "none"
    /\ call[p].at \in {"scan", "purge"} =>
          /\ call[p].index \subseteq index
          /\ \A i \in index \ call[p].index : record[i] = "none"
    /\ call[p].at = "purge" => \A i \in call[p].of : record[i] \in {"none", "expired"}

IInv ==
    /\ TypeOK
    /\ call \in [Processes -> CallRecords]
    /\ \A p \in Processes : CallOK(p)
    /\ serial => \A p, q \in Processes : (call[p] # Idle /\ call[q] # Idle) => p = q
    /\ serial => \A p \in Processes : Abreast(p)

USE DEF Asking, Values

-----------------------------------------------------------------------------
(* The inductive step.                                                      *)

\* What the invariant says of one process.
LEMMA CallFacts ==
    ASSUME IInv, NEW p \in Processes
    PROVE  /\ call \in [Processes -> CallRecords] /\ call[p] \in CallRecords /\ CallOK(p)
           /\ call[p].op \in Asking \cup {"cleanup", "none"} /\ call[p].at \in Places
           /\ call[p].of \subseteq Instances /\ call[p].index \subseteq Instances
           /\ call[p].todo \subseteq Instances
           /\ serial => Abreast(p)
           /\ TypeOK
<1>1. call \in [Processes -> CallRecords] /\ call[p] \in CallRecords /\ CallOK(p)
      /\ (serial => Abreast(p)) /\ TypeOK
  BY DEF IInv
<1> QED BY <1>1 DEF CallRecords

LEMMA IdleFacts ==
    /\ Idle \in CallRecords
    /\ Idle.op = "none" /\ Idle.at = "none" /\ Idle.of = {}
BY DEF Idle, CallRecords, Places

\* A step of the call of one process: nobody else's call is under way, or the
\* calls overlap.
LEMMA StepKeeps ==
    ASSUME IInv, NEW p \in Processes, call[p] # Idle, TypeOK', serial' = serial,
           NEW c \in CallRecords, call' = [call EXCEPT ![p] = c],
           CallOK(p)', serial => Abreast(p)'
    PROVE  IInv'
<1>1. call \in [Processes -> CallRecords]
  BY DEF IInv
<1>2. call' \in [Processes -> CallRecords] /\ call'[p] = c
      /\ \A q \in Processes \ {p} : call'[q] = call[q]
  BY <1>1
<1>3. \A q \in Processes : CallOK(q)'
  <2>1. ASSUME NEW q \in Processes, q # p PROVE CallOK(q)'
    <3>1. CallOK(q) /\ call'[q] = call[q]
      BY <1>2, <2>1 DEF IInv
    <3> QED BY <3>1 DEF CallOK
  <2> QED BY <2>1
<1>4. serial => \A q \in Processes \ {p} : call[q] = Idle
  BY DEF IInv
<1>5. serial' => \A q, r \in Processes : (call'[q] # Idle /\ call'[r] # Idle) => q = r
  BY <1>2, <1>4
<1>6. serial' => \A q \in Processes : Abreast(q)'
  <2>1. ASSUME serial, NEW q \in Processes, q # p PROVE Abreast(q)'
    <3>1. call'[q] = Idle
      BY <1>2, <1>4, <2>1
    <3> QED BY <3>1, IdleFacts DEF Abreast
  <2> QED BY <2>1
<1> QED
  BY <1>2, <1>3, <1>5, <1>6 DEF IInv

\* The end of a call.
LEMMA ReturnKeeps ==
    ASSUME IInv, NEW p \in Processes, call[p] # Idle, TypeOK', serial' = serial, Return(p)
    PROVE  IInv'
<1>1. call' = [call EXCEPT ![p] = Idle] /\ call'[p] = Idle
  BY CallFacts DEF Return
<1>2. CallOK(p)' /\ Abreast(p)'
  BY <1>1, IdleFacts DEF CallOK, Abreast
<1> QED BY <1>1, <1>2, IdleFacts, StepKeeps

\* The step of a call to another command, with what else it changes of the call.
LEMMA GotoFacts ==
    ASSUME IInv, NEW p \in Processes, NEW at \in Places, Goto(p, at)
    PROVE  \E c \in CallRecords :
              /\ call' = [call EXCEPT ![p] = c] /\ call'[p] = c
              /\ c.op = call[p].op /\ c.at = at /\ c.of = call[p].of /\ c.index = call[p].index
<1> DEFINE c == [call[p] EXCEPT !.at = at]
<1>1. call[p] \in CallRecords /\ call \in [Processes -> CallRecords]
  BY CallFacts
<1>2. c \in CallRecords /\ c.op = call[p].op /\ c.at = at /\ c.of = call[p].of
      /\ c.index = call[p].index
  BY <1>1 DEF CallRecords
<1>3. call' = [call EXCEPT ![p] = c]
  BY DEF Goto
<1> HIDE DEF c
<1> QED BY <1>1, <1>2, <1>3

\* Writing one record.
LEMMA SetFacts ==
    ASSUME TypeOK, NEW S \in SUBSET Instances, NEW value \in Values, Set(S, value)
    PROVE  /\ record' \in [Instances -> Values]
           /\ \A i \in S : record'[i] = value
           /\ \A i \in Instances \ S : record'[i] = record[i]
BY DEF TypeOK, Set

LEMMA BusyFacts ==
    ASSUME NEW p, call[p].op # "none" \/ call[p].at # "none"
    PROVE  call[p] # Idle
BY IdleFacts

LEMMA BeginKeeps ==
    ASSUME IInv, NEW p \in Processes, BeginCall(p) \/ BeginCleanup(p)
    PROVE  IInv'
<1>1. PICK c \in CallRecords :
         /\ Begin(p, c)
         /\ \/ c.op = "register" /\ c.at = "record"
            \/ c.op = "deregister" /\ c.at = "index"
            \/ c.op = "renew" /\ c.at = "read"
            \/ c.op = "cleanup" /\ c.at = "index"
         /\ c.op \in Asking => \E i \in Instances : c.of = {i}
  <2>1. ASSUME NEW i \in Instances
        PROVE  /\ Call("register", "record", {i}) \in CallRecords
               /\ Call("deregister", "index", {i}) \in CallRecords
               /\ Call("renew", "read", {i}) \in CallRecords
    BY DEF Call, CallRecords, Places
  <2>2. Call("cleanup", "index", {}) \in CallRecords
    BY DEF Call, CallRecords, Places
  <2>3. CASE BeginCall(p)
    <3>1. PICK i \in Instances :
            \/ Begin(p, Call("register", "record", {i}))
            \/ Begin(p, Call("deregister", "index", {i}))
            \/ Begin(p, Call("renew", "read", {i}))
      BY <2>3 DEF BeginCall
    <3> QED BY <2>1, <3>1 DEF Call
  <2>4. CASE BeginCleanup(p)
    BY <2>2, <2>4 DEF BeginCleanup, Call
  <2> QED BY <2>3, <2>4
<1>2. call \in [Processes -> CallRecords] /\ TypeOK
  BY CallFacts
<1>3. /\ call' \in [Processes -> CallRecords] /\ call'[p] = c
      /\ \A q \in Processes \ {p} : call'[q] = call[q]
      /\ serial' = (serial /\ \A q \in Processes : call[q] = Idle)
      /\ UNCHANGED <<record, index, known, failed>>
  BY <1>1, <1>2 DEF Begin
<1>4. TypeOK'
  BY <1>2, <1>3 DEF TypeOK
<1>5. \A q \in Processes : CallOK(q)'
  <2>1. CallOK(p)'
    BY <1>1, <1>3 DEF CallOK
  <2>2. ASSUME NEW q \in Processes, q # p PROVE CallOK(q)'
    <3>1. CallOK(q) /\ call'[q] = call[q]
      BY <1>3, <2>2 DEF IInv
    <3> QED BY <3>1 DEF CallOK
  <2> QED BY <2>1, <2>2
<1>6. serial' => \A q, r \in Processes : (call'[q] # Idle /\ call'[r] # Idle) => q = r
  BY <1>3
<1>7. serial' => \A q \in Processes : Abreast(q)'
  <2>1. Abreast(p)'
    BY <1>1, <1>3 DEF Abreast
  <2>2. ASSUME serial', NEW q \in Processes, q # p PROVE Abreast(q)'
    <3>1. call'[q] = Idle
      BY <1>3, <2>2
    <3> QED BY <3>1, IdleFacts DEF Abreast
  <2> QED BY <2>1, <2>2
<1> QED
  BY <1>3, <1>4, <1>5, <1>6, <1>7 DEF IInv

LEMMA ReadIndexKeeps ==
    ASSUME IInv, NEW p \in Processes, ReadIndex(p)
    PROVE  IInv'
<1> DEFINE at == CASE call[p].op = "cleanup" -> "scan"
                   [] call[p].op = "deregister" /\ call[p].of \cap index = {} -> "delete"
                   [] OTHER -> "save"
           todo == IF call[p].op = "cleanup" THEN index ELSE {}
           c == [call[p] EXCEPT !.index = index, !.todo = todo, !.at = at]
<1>1. /\ call[p] \in CallRecords /\ CallOK(p) /\ TypeOK /\ call \in [Processes -> CallRecords]
      /\ serial => Abreast(p)
  BY CallFacts
<1>2. call[p].at = "index" /\ call[p] # Idle /\ call[p].op \in {"register", "deregister", "cleanup"}
      /\ UNCHANGED <<record, index, known, serial, failed>>
  BY <1>1, CallFacts, BusyFacts DEF ReadIndex, History, CallOK
<1>3. /\ call[p].op = "cleanup" => at = "scan"
      /\ call[p].op = "register" => at = "save"
      /\ call[p].op = "deregister" => at = "save" \/ (at = "delete" /\ call[p].of \cap index = {})
  BY <1>2
<1>4. call' = [call EXCEPT ![p] = c] /\ call'[p] = c
  BY <1>1 DEF ReadIndex
<1>5. c \in CallRecords /\ c.op = call[p].op /\ c.at = at /\ c.of = call[p].of /\ c.index = index
  <2>1. index \subseteq Instances /\ todo \subseteq Instances /\ at \in Places
    BY <1>1, <1>2, <1>3 DEF TypeOK, Places
  <2> HIDE DEF at, todo
  <2> QED BY <1>1, <2>1 DEF CallRecords
<1> HIDE DEF c, at
<1>6. CallOK(p)'
  BY <1>1, <1>2, <1>3, <1>4, <1>5 DEF CallOK
<1>7. serial => Abreast(p)'
  BY <1>1, <1>2, <1>3, <1>4, <1>5 DEF Abreast
<1>8. TypeOK'
  BY <1>1, <1>2 DEF TypeOK
<1> QED BY <1>2, <1>4, <1>5, <1>6, <1>7, <1>8, StepKeeps

LEMMA RegisterKeeps ==
    ASSUME IInv, NEW p \in Processes,
           RegisterRecord(p) \/ RegisterIndex(p) \/ RaiseSaved(p)
    PROVE  IInv'
<1>1. /\ call[p] \in CallRecords /\ CallOK(p) /\ TypeOK /\ call[p].of \subseteq Instances
      /\ call[p].index \subseteq Instances
      /\ serial => Abreast(p)
  BY CallFacts
<1>2. call[p].op = "register" /\ call[p] # Idle
  BY BusyFacts DEF RegisterRecord, RegisterIndex, RaiseSaved, At
<1>3. CASE RegisterRecord(p)
  <2>1. PICK value \in {"live", "expired"} : Set(call[p].of, value)
    BY <1>3 DEF RegisterRecord
  <2>2. /\ record' \in [Instances -> Values]
        /\ \A i \in call[p].of : record'[i] = value
    BY <1>1, <2>1, SetFacts
  <2>3. PICK c \in CallRecords :
           /\ call' = [call EXCEPT ![p] = c] /\ call'[p] = c
           /\ c.op = call[p].op /\ c.at = "index" /\ c.of = call[p].of
    BY <1>3, GotoFacts DEF RegisterRecord, Places
  <2>4. UNCHANGED <<index, known, serial, failed>>
    BY <1>3 DEF RegisterRecord, History
  <2>5. TypeOK'
    BY <1>1, <2>2, <2>4 DEF TypeOK
  <2>6. CallOK(p)' /\ Abreast(p)'
    BY <1>1, <1>2, <2>2, <2>3 DEF CallOK, Abreast
  <2> QED BY <1>2, <2>3, <2>4, <2>5, <2>6, StepKeeps
<1>4. CASE RegisterIndex(p) \/ RaiseSaved(p)
  <2>1. Return(p) /\ serial' = serial
    BY <1>4 DEF RegisterIndex, RaiseSaved, History
  <2>2. TypeOK'
    BY <1>1, <1>4 DEF RegisterIndex, RaiseSaved, History, TypeOK, Added
  <2> QED BY <1>2, <2>1, <2>2, ReturnKeeps
<1> QED BY <1>3, <1>4

LEMMA DeregisterKeeps ==
    ASSUME IInv, NEW p \in Processes, DeregisterIndex(p) \/ DeregisterRecord(p)
    PROVE  IInv'
<1>1. /\ call[p] \in CallRecords /\ CallOK(p) /\ TypeOK /\ call[p].of \subseteq Instances
      /\ call[p].index \subseteq Instances /\ call \in [Processes -> CallRecords]
      /\ serial => Abreast(p)
  BY CallFacts
<1>2. call[p].op = "deregister" /\ call[p] # Idle
  BY BusyFacts DEF DeregisterIndex, DeregisterRecord, At
<1>3. CASE DeregisterIndex(p)
  <2> DEFINE c == [call[p] EXCEPT !.index = call[p].index \ call[p].of, !.at = "delete"]
  <2>1. /\ call' = [call EXCEPT ![p] = c] /\ call'[p] = c
        /\ index' = call[p].index \ call[p].of
        /\ UNCHANGED <<record, known, serial, failed>>
    BY <1>1, <1>3 DEF DeregisterIndex, History
  <2>2. c \in CallRecords /\ c.op = call[p].op /\ c.at = "delete" /\ c.of = call[p].of
    BY <1>1 DEF CallRecords, Places
  <2> HIDE DEF c
  <2>3. CallOK(p)' /\ Abreast(p)'
    BY <1>1, <1>2, <2>1, <2>2 DEF CallOK, Abreast
  <2>4. TypeOK'
    BY <1>1, <2>1 DEF TypeOK
  <2> QED BY <1>2, <2>1, <2>2, <2>3, <2>4, StepKeeps
<1>4. CASE DeregisterRecord(p)
  <2>1. Return(p) /\ serial' = serial /\ record' \in [Instances -> Values]
    BY <1>1, <1>4, SetFacts DEF DeregisterRecord, History
  <2>2. TypeOK'
    BY <1>1, <1>4, <2>1 DEF DeregisterRecord, History, TypeOK
  <2> QED BY <1>2, <2>1, <2>2, ReturnKeeps
<1> QED BY <1>3, <1>4

LEMMA RenewKeeps ==
    ASSUME IInv, NEW p \in Processes, RenewRead(p) \/ RenewWrite(p)
    PROVE  IInv'
<1>1. /\ CallOK(p) /\ TypeOK /\ call[p].of \subseteq Instances
      /\ serial => Abreast(p)
  BY CallFacts
<1>2. call[p].op = "renew" /\ call[p] # Idle
  BY BusyFacts DEF RenewRead, RenewWrite, At
<1>3. CASE RenewRead(p)
  <2>1. UNCHANGED <<record, index, known, serial, failed>> /\ TypeOK'
    BY <1>1, <1>3 DEF RenewRead, History, TypeOK
  <2>2. CASE Return(p)
    BY <1>2, <2>1, <2>2, ReturnKeeps
  <2>3. CASE Goto(p, "write") /\ ~(\A i \in call[p].of : record[i] = "none")
    <3>1. PICK c \in CallRecords :
             /\ call' = [call EXCEPT ![p] = c] /\ call'[p] = c
             /\ c.op = call[p].op /\ c.at = "write" /\ c.of = call[p].of
      BY <2>3, GotoFacts DEF Places
    <3>2. \A i \in call[p].of : record[i] # "none"
      BY <1>1, <1>2, <2>3 DEF CallOK
    <3>3. CallOK(p)' /\ Abreast(p)'
      BY <1>1, <1>2, <2>1, <3>1, <3>2 DEF CallOK, Abreast
    <3> QED BY <1>2, <2>1, <3>1, <3>3, StepKeeps
  <2> QED BY <1>3, <2>2, <2>3 DEF RenewRead
<1>4. CASE RenewWrite(p)
  <2>1. Return(p) /\ serial' = serial /\ record' \in [Instances -> Values]
    BY <1>1, <1>4, SetFacts DEF RenewWrite, History
  <2>2. TypeOK'
    BY <1>1, <1>4, <2>1 DEF RenewWrite, History, TypeOK
  <2> QED BY <1>2, <2>1, <2>2, ReturnKeeps
<1> QED BY <1>3, <1>4

LEMMA CleanupKeeps ==
    ASSUME IInv, NEW p \in Processes, CleanupRead(p) \/ CleanupDelete(p) \/ CleanupSave(p)
    PROVE  IInv'
<1>1. /\ call[p] \in CallRecords /\ CallOK(p) /\ TypeOK /\ call[p].of \subseteq Instances
      /\ call[p].index \subseteq Instances /\ call[p].todo \subseteq Instances
      /\ call \in [Processes -> CallRecords]
      /\ serial => Abreast(p)
  BY CallFacts
<1>2. call[p].op = "cleanup" /\ call[p] # Idle
  BY BusyFacts DEF CleanupRead, CleanupDelete, CleanupSave, At
<1>3. CASE CleanupRead(p)
  <2>1. PICK i \in call[p].todo :
          call' = [call EXCEPT ![p].todo = @ \ {i},
                               ![p].of = IF Stale(i) THEN {i} ELSE {},
                               ![p].at = IF Stale(i) THEN "purge" ELSE "scan"]
    BY <1>3 DEF CleanupRead
  <2> DEFINE of == IF Stale(i) THEN {i} ELSE {}
             at == IF Stale(i) THEN "purge" ELSE "scan"
             c == [call[p] EXCEPT !.todo = @ \ {i}, !.of = of, !.at = at]
  <2>2. call' = [call EXCEPT ![p] = c] /\ call'[p] = c
    BY <1>1, <2>1
  <2>3. \/ at = "purge" /\ of = {i} /\ record[i] \in {"none", "expired"}
        \/ at = "scan" /\ of = {}
    BY DEF Stale
  <2>4. of \subseteq Instances /\ at \in Places /\ i \in Instances
    BY <1>1, <2>3 DEF Places
  <2> HIDE DEF of, at
  <2>5. c \in CallRecords /\ c.op = call[p].op /\ c.at = at /\ c.of = of /\ c.index = call[p].index
    BY <1>1, <2>4 DEF CallRecords
  <2> HIDE DEF c
  <2>6. UNCHANGED <<record, index, known, serial, failed>> /\ TypeOK' /\ call[p].at = "scan"
    BY <1>1, <1>3 DEF CleanupRead, History, TypeOK, At
  <2>7. CallOK(p)'
    BY <1>1, <1>2, <2>2, <2>3, <2>4, <2>5 DEF CallOK
  <2>8. serial => Abreast(p)'
    BY <1>1, <1>2, <2>2, <2>3, <2>4, <2>5, <2>6 DEF Abreast
  <2> QED BY <1>2, <2>2, <2>5, <2>6, <2>7, <2>8, StepKeeps
<1>4. CASE CleanupDelete(p)
  <2> DEFINE c == [call[p] EXCEPT !.index = call[p].index \ call[p].of, !.at = "scan"]
  <2>1. /\ call' = [call EXCEPT ![p] = c] /\ call'[p] = c
        /\ call[p].at = "purge"
        /\ UNCHANGED <<index, known, serial, failed>>
    BY <1>1, <1>4 DEF CleanupDelete, History, At
  <2>2. /\ c \in CallRecords /\ c.op = call[p].op /\ c.at = "scan" /\ c.of = call[p].of
        /\ c.index = call[p].index \ call[p].of
    BY <1>1 DEF CallRecords, Places
  <2> HIDE DEF c
  <2>3. /\ record' \in [Instances -> Values]
        /\ \A i \in call[p].of : record'[i] = "none"
        /\ \A i \in Instances \ call[p].of : record'[i] = record[i]
    BY <1>1, <1>4, SetFacts DEF CleanupDelete
  <2>4. CallOK(p)'
    BY <1>1, <1>2, <2>1, <2>2 DEF CallOK
  <2>5. serial => Abreast(p)'
    BY <1>1, <1>2, <2>1, <2>2, <2>3 DEF Abreast, TypeOK
  <2>6. TypeOK'
    BY <1>1, <2>1, <2>3 DEF TypeOK
  <2> QED BY <1>2, <2>1, <2>2, <2>4, <2>5, <2>6, StepKeeps
<1>5. CASE CleanupSave(p)
  <2>1. Return(p) /\ serial' = serial
    BY <1>5 DEF CleanupSave, History
  <2>2. TypeOK'
    BY <1>1, <1>5 DEF CleanupSave, History, TypeOK
  <2> QED BY <1>2, <2>1, <2>2, ReturnKeeps
<1> QED BY <1>3, <1>4, <1>5

\* A record that expires is still a record.
LEMMA ExpireKeeps ==
    ASSUME IInv, NEW i \in Instances, Expire(i)
    PROVE  IInv'
<1>1. UNCHANGED <<index, known, call, serial, failed>> /\ record[i] = "live"
  BY DEF Expire, History
<1>2. /\ record' \in [Instances -> Values] /\ record'[i] = "expired"
      /\ \A j \in Instances \ {i} : record'[j] = record[j]
  BY SetFacts DEF Expire, IInv
<1>3. TypeOK'
  BY <1>1, <1>2 DEF IInv, TypeOK
<1>4. \A p \in Processes : CallOK(p)'
  BY <1>1 DEF IInv, CallOK
<1>5. ASSUME serial, NEW p \in Processes PROVE Abreast(p)'
  <2>1. Abreast(p) /\ call[p].of \subseteq Instances /\ index \subseteq Instances
    BY <1>5, CallFacts DEF TypeOK
  <2> QED BY <1>1, <1>2, <2>1 DEF Abreast
<1> QED BY <1>1, <1>3, <1>4, <1>5 DEF IInv

LEMMA InvStep == IInv /\ [Next]_vars => IInv'
<1> SUFFICES ASSUME IInv, [Next]_vars PROVE IInv'
  OBVIOUS
<1>1. ASSUME NEW p \in Processes, Raise(p) PROVE IInv'
  <2>1. TypeOK'
    BY <1>1 DEF Raise, IInv, TypeOK
  <2> QED BY <1>1, <2>1, ReturnKeeps DEF Raise
<1>2. CASE UNCHANGED vars
  BY <1>2 DEF vars, IInv, TypeOK, CallOK, Abreast
<1> QED
  BY <1>1, <1>2, BeginKeeps, ReadIndexKeeps, RegisterKeeps, DeregisterKeeps, RenewKeeps,
     CleanupKeeps, ExpireKeeps DEF Next, Proceed

LEMMA Invariant == Spec => []IInv
<1>1. Init => IInv
  <2> SUFFICES ASSUME Init PROVE IInv
    OBVIOUS
  <2>1. call \in [Processes -> CallRecords] /\ \A p \in Processes : call[p] = Idle
    BY IdleFacts DEF Init
  <2>2. \A p \in Processes : CallOK(p) /\ Abreast(p)
    BY <2>1, IdleFacts DEF CallOK, Abreast
  <2>3. TypeOK
    BY DEF Init, TypeOK
  <2> QED BY <2>1, <2>2, <2>3 DEF IInv
<1> QED BY <1>1, InvStep, PTL DEF Spec

\* The records, the index and the services known always have their types.
THEOREM TypeCorrect == Spec => []TypeOK
<1>1. IInv => TypeOK
  BY DEF IInv
<1> QED BY <1>1, Invariant, PTL

-----------------------------------------------------------------------------
(* The registry is a directory.                                             *)

LEMMA EntryFacts ==
    ASSUME TypeOK
    PROVE  /\ Entry \in [Instances -> Values]
           /\ \A i \in Instances : i \in index => Entry[i] = record[i]
           /\ \A i \in Instances : i \notin index => Entry[i] = "none"
BY DEF Entry, Listed, TypeOK

AskedOK == Asked \subseteq Asking \X Instances

\* What is asked of the directory, by calls that are under way.
LEMMA AskedFacts ==
    ASSUME IInv
    PROVE  /\ AskedOK
           /\ \A p \in Processes : call[p].op \in Asking =>
                 \A i \in call[p].of : <<call[p].op, i>> \in Asked
<1>1. ASSUME NEW a \in Asked PROVE a \in Asking \X Instances
  <2>1. PICK p \in Processes : call[p].op # "cleanup" /\ a \in {call[p].op} \X call[p].of
    BY DEF Asked
  <2>2. call[p].of \subseteq Instances /\ (call[p].op = "none" => call[p].of = {})
    BY CallFacts, IdleFacts DEF CallOK
  <2>3. call[p].op \in Asking
    BY <2>1, <2>2, CallFacts
  <2> QED BY <2>1, <2>2, <2>3
<1>2. ASSUME NEW p \in Processes, call[p].op \in Asking, NEW i \in call[p].of
      PROVE  <<call[p].op, i>> \in Asked
  <2>1. p \in {q \in Processes : call[q].op # "cleanup"}
        /\ <<call[p].op, i>> \in {call[p].op} \X call[p].of
    BY <1>2
  <2> QED BY <2>1 DEF Asked
<1> QED BY <1>1, <1>2 DEF AskedOK

\* A step that leaves the entries as they are is one of the directory.
LEMMA Stutters ==
    ASSUME TypeOK, TypeOK', AskedOK', serial' = serial,
           \A i \in Instances : Entry'[i] = Entry[i]
    PROVE  Directory!Next
<1>1. Entry' \in [Instances -> Values]
  BY DEF Entry, Listed, TypeOK
<1>2. Entry' = Entry
  BY <1>1, EntryFacts
<1> QED BY <1>2 DEF Directory!Next, AskedOK

\* So is one that changes an entry as a call asks, or as the directory may.
LEMMA Changes ==
    ASSUME TypeOK, TypeOK', AskedOK', serial' = serial, NEW i \in Instances,
           \A j \in Instances \ {i} : Entry'[j] = Entry[j],
           \/ <<"register", i>> \in Asked /\ Entry'[i] # "none"
           \/ <<"deregister", i>> \in Asked /\ Entry'[i] = "none" /\ Entry[i] # "none"
           \/ <<"renew", i>> \in Asked /\ Entry'[i] = "live" /\ Entry[i] # "none"
           \/ Entry[i] = "expired" /\ Entry'[i] = "none"
           \/ Entry[i] = "live" /\ Entry'[i] = "expired"
    PROVE  Directory!Next
<1>1. Entry \in [Instances -> Values] /\ Entry' \in [Instances -> Values]
  BY DEF Entry, Listed, TypeOK
<1>2. Entry' = [Entry EXCEPT ![i] = Entry'[i]] /\ Entry'[i] \in Values
  BY <1>1
<1>3. \/ Directory!Register(i) \/ Directory!Deregister(i) \/ Directory!Renew(i)
      \/ Directory!Purge(i) \/ Directory!Expire(i)
  BY <1>2 DEF Directory!Register, Directory!Deregister, Directory!Renew, Directory!Purge,
     Directory!Expire
<1> QED BY <1>3 DEF Directory!Next, AskedOK

\* And one after which the promise no longer stands.
LEMMA Breaks ==
    ASSUME TypeOK', AskedOK', serial' = FALSE
    PROVE  Directory!Next
<1>1. Entry' \in [Instances -> Values]
  BY DEF Entry, Listed, TypeOK
<1> QED BY <1>1 DEF Directory!Next, Directory!Break, Directory!Entries, AskedOK

\* Entries after a step that writes one record, or adds to the index or takes
\* from it.
LEMMA EntryAfter ==
    ASSUME TypeOK'
    PROVE  \A i \in Instances :
              Entry'[i] = IF i \in index' THEN record'[i] ELSE "none"
BY DEF Entry, Listed, TypeOK

\* register: the instance of the call is listed, if it is.
LEMMA RegisterStep ==
    ASSUME IInv, TypeOK', AskedOK', serial, serial', NEW p \in Processes,
           RegisterRecord(p) \/ RegisterIndex(p) \/ RaiseSaved(p)
    PROVE  Directory!Next
<1>1. TypeOK /\ CallOK(p) /\ Abreast(p) /\ call[p].of \subseteq Instances
      /\ call[p].op = "register"
  BY CallFacts DEF RegisterRecord, RegisterIndex, RaiseSaved, At
<1>2. PICK i \in Instances : call[p].of = {i}
  BY <1>1 DEF CallOK
<1>3. <<"register", i>> \in Asked
  BY <1>1, <1>2, AskedFacts
<1>4. CASE RegisterRecord(p)
  <2>1. /\ index' = index /\ record'[i] # "none"
        /\ \A j \in Instances \ {i} : record'[j] = record[j]
    BY <1>1, <1>2, <1>4, SetFacts DEF RegisterRecord
  <2>2. \A j \in Instances \ {i} : Entry'[j] = Entry[j]
    BY <1>1, <2>1, EntryFacts, EntryAfter
  <2>3. CASE i \in index
    <3>1. Entry'[i] # "none"
      BY <2>1, <2>3, EntryAfter
    <3> QED BY <1>1, <1>3, <2>2, <3>1, Changes
  <2>4. CASE i \notin index
    <3>1. Entry'[i] = Entry[i]
      BY <1>1, <2>1, <2>4, EntryFacts, EntryAfter
    <3> QED BY <1>1, <2>2, <3>1, Stutters
  <2> QED BY <2>3, <2>4
<1>5. CASE RegisterIndex(p) \/ RaiseSaved(p)
  <2>1. index' = index \cup {i} /\ record' = record /\ record[i] # "none"
    BY <1>1, <1>2, <1>5 DEF RegisterIndex, RaiseSaved, Added, Abreast, At
  <2>2. \A j \in Instances \ {i} : Entry'[j] = Entry[j]
    BY <1>1, <2>1, EntryFacts, EntryAfter
  <2>3. Entry'[i] # "none"
    BY <2>1, EntryAfter
  <2> QED BY <1>1, <1>3, <2>2, <2>3, Changes
<1> QED BY <1>4, <1>5

\* deregister: the index loses the instance before the record goes.
LEMMA DeregisterStep ==
    ASSUME IInv, TypeOK', AskedOK', serial, serial', NEW p \in Processes,
           DeregisterIndex(p) \/ DeregisterRecord(p)
    PROVE  Directory!Next
<1>1. TypeOK /\ CallOK(p) /\ Abreast(p) /\ call[p].of \subseteq Instances
      /\ call[p].op = "deregister"
  BY CallFacts DEF DeregisterIndex, DeregisterRecord, At
<1>2. PICK i \in Instances : call[p].of = {i}
  BY <1>1 DEF CallOK
<1>3. <<"deregister", i>> \in Asked
  BY <1>1, <1>2, AskedFacts
<1>4. CASE DeregisterIndex(p)
  <2>1. index' = index \ {i} /\ record' = record
    BY <1>1, <1>2, <1>4 DEF DeregisterIndex, Abreast, At
  <2>2. /\ \A j \in Instances \ {i} : Entry'[j] = Entry[j]
        /\ Entry'[i] = "none"
    BY <1>1, <2>1, EntryFacts, EntryAfter
  <2>3. CASE Entry[i] = "none"
    BY <1>1, <2>2, <2>3, Stutters
  <2>4. CASE Entry[i] # "none"
    BY <1>1, <1>3, <2>2, <2>4, Changes
  <2> QED BY <2>3, <2>4
<1>5. CASE DeregisterRecord(p)
  <2>1. index' = index /\ i \notin index
        /\ \A j \in Instances \ {i} : record'[j] = record[j]
    BY <1>1, <1>2, <1>5, SetFacts DEF DeregisterRecord, Abreast, At
  <2>2. \A j \in Instances : Entry'[j] = Entry[j]
    BY <1>1, <2>1, EntryFacts, EntryAfter
  <2> QED BY <1>1, <2>2, Stutters
<1> QED BY <1>4, <1>5

\* renew: the entry was there when it was read, and still is.
LEMMA RenewStep ==
    ASSUME IInv, TypeOK', AskedOK', serial, serial', NEW p \in Processes, RenewWrite(p)
    PROVE  Directory!Next
<1>1. TypeOK /\ CallOK(p) /\ Abreast(p) /\ call[p].of \subseteq Instances
      /\ call[p].op = "renew"
  BY CallFacts DEF RenewWrite, At
<1>2. PICK i \in Instances : call[p].of = {i}
  BY <1>1 DEF CallOK
<1>3. <<"renew", i>> \in Asked
  BY <1>1, <1>2, AskedFacts
<1>4. /\ index' = index /\ record'[i] = "live" /\ record[i] # "none"
      /\ \A j \in Instances \ {i} : record'[j] = record[j]
  BY <1>1, <1>2, SetFacts DEF RenewWrite, Abreast, At
<1>5. \A j \in Instances \ {i} : Entry'[j] = Entry[j]
  BY <1>1, <1>4, EntryFacts, EntryAfter
<1>6. CASE i \in index
  <2>1. Entry'[i] = "live" /\ Entry[i] # "none"
    BY <1>1, <1>4, <1>6, EntryFacts, EntryAfter
  <2> QED BY <1>1, <1>3, <1>5, <2>1, Changes
<1>7. CASE i \notin index
  <2>1. Entry'[i] = Entry[i]
    BY <1>1, <1>4, <1>7, EntryFacts, EntryAfter
  <2> QED BY <1>1, <1>5, <2>1, Stutters
<1> QED BY <1>6, <1>7

\* cleanup: what it deletes had expired, and what it drops from the index has
\* no record.
LEMMA CleanupStep ==
    ASSUME IInv, TypeOK', AskedOK', serial, serial', NEW p \in Processes,
           CleanupDelete(p) \/ CleanupSave(p)
    PROVE  Directory!Next
<1>1. TypeOK /\ CallOK(p) /\ Abreast(p) /\ call[p].of \subseteq Instances
      /\ call[p].op = "cleanup"
  BY CallFacts DEF CleanupDelete, CleanupSave, At
<1>2. CASE CleanupDelete(p)
  <2>1. PICK i \in Instances : call[p].of = {i}
    BY <1>1, <1>2 DEF CleanupDelete, CallOK, At
  <2>2. /\ index' = index /\ record'[i] = "none" /\ record[i] \in {"none", "expired"}
        /\ \A j \in Instances \ {i} : record'[j] = record[j]
    BY <1>1, <1>2, <2>1, SetFacts DEF CleanupDelete, Abreast, At
  <2>3. /\ \A j \in Instances \ {i} : Entry'[j] = Entry[j]
        /\ Entry'[i] = "none" /\ Entry[i] \in {"none", "expired"}
    BY <1>1, <2>2, EntryFacts, EntryAfter
  <2>4. CASE Entry[i] = "none"
    BY <1>1, <2>3, <2>4, Stutters
  <2>5. CASE Entry[i] = "expired"
    BY <1>1, <2>3, <2>5, Changes
  <2> QED BY <2>3, <2>4, <2>5
<1>3. CASE CleanupSave(p)
  <2>1. /\ index' \subseteq index /\ record' = record
        /\ \A j \in index \ index' : record[j] = "none"
    BY <1>1, <1>3 DEF CleanupSave, Abreast, At
  <2>2. \A j \in Instances : Entry'[j] = Entry[j]
    BY <1>1, <2>1, EntryFacts, EntryAfter
  <2> QED BY <1>1, <2>2, Stutters
<1> QED BY <1>2, <1>3

LEMMA ExpireStep ==
    ASSUME IInv, TypeOK', AskedOK', NEW i \in Instances, Expire(i)
    PROVE  Directory!Next
<1>1. TypeOK /\ serial' = serial /\ index' = index
  BY DEF Expire, History, IInv
<1>2. record[i] = "live" /\ record'[i] = "expired"
      /\ \A j \in Instances \ {i} : record'[j] = record[j]
  BY <1>1, SetFacts DEF Expire
<1>3. \A j \in Instances \ {i} : Entry'[j] = Entry[j]
  BY <1>1, <1>2, EntryFacts, EntryAfter
<1>4. CASE i \in index
  <2>1. Entry[i] = "live" /\ Entry'[i] = "expired"
    BY <1>1, <1>2, <1>4, EntryFacts, EntryAfter
  <2> QED BY <1>1, <1>3, <2>1, Changes
<1>5. CASE i \notin index
  <2>1. Entry'[i] = Entry[i]
    BY <1>1, <1>2, <1>5, EntryFacts, EntryAfter
  <2> QED BY <1>1, <1>3, <2>1, Stutters
<1> QED BY <1>4, <1>5

\* Every step of the registry is a step of the directory.
LEMMA DirectoryStep ==
    ASSUME IInv, TypeOK', AskedOK', Next
    PROVE  Directory!Next
<1>1. serial \in BOOLEAN /\ serial' \in BOOLEAN /\ TypeOK
  BY DEF IInv, TypeOK
<1>2. CASE serial' = FALSE
  BY <1>2, Breaks
<1>3. CASE serial' = TRUE
  <2>1. serial = TRUE
    BY <1>1, <1>3 DEF Next, BeginCall, BeginCleanup, Begin, Proceed, ReadIndex, RegisterRecord,
       RegisterIndex, DeregisterIndex, DeregisterRecord, RenewRead, RenewWrite, CleanupRead,
       CleanupDelete, CleanupSave, Raise, RaiseSaved, Expire, History
  <2>2. ASSUME UNCHANGED <<record, index>> PROVE Directory!Next
    <3>1. \A i \in Instances : Entry'[i] = Entry[i]
      BY <1>1, <2>2, EntryFacts, EntryAfter
    <3> QED BY <1>1, <1>3, <2>1, <3>1, Stutters
  <2>3. ASSUME NEW p \in Processes,
               BeginCall(p) \/ BeginCleanup(p) \/ ReadIndex(p) \/ RenewRead(p)
               \/ CleanupRead(p) \/ Raise(p)
        PROVE  UNCHANGED <<record, index>>
    BY <2>3 DEF BeginCall, BeginCleanup, Begin, ReadIndex, RenewRead, CleanupRead, Raise
  <2> QED
    BY <1>3, <2>1, <2>2, <2>3, RegisterStep, DeregisterStep, RenewStep, CleanupStep, ExpireStep
       DEF Next, Proceed
<1> QED BY <1>1, <1>2, <1>3

\* Whatever commands fail and whichever processes call, as long as no two calls
\* overlap the registry is the directory of LocalServiceRegistry.
THEOREM Refinement == Spec => Promised
<1>1. Init => Directory!Init
  BY IdleFacts DEF Init, Directory!Init, Entry, Listed, Asked
<1>2. IInv /\ IInv' /\ [Next]_vars => [Directory!Next]_<<Entry, Asked, serial>>
  <2> SUFFICES ASSUME IInv, IInv', [Next]_vars
               PROVE  [Directory!Next]_<<Entry, Asked, serial>>
    OBVIOUS
  <2>1. CASE Next
    <3>1. AskedOK'
      BY AskedFacts, PTL
    <3>2. TypeOK'
      BY DEF IInv
    <3> QED BY <2>1, <3>1, <3>2, DirectoryStep
  <2>2. CASE UNCHANGED vars
    BY <2>2 DEF vars, Entry, Listed, Asked
  <2> QED BY <2>1, <2>2
<1> QED
  BY <1>1, <1>2, Invariant, PTL DEF Spec, Promised, Directory!Spec, Directory!directoryVars
==============================================================================
