---------------------------- MODULE ServiceDirectory ----------------------------
(***************************************************************************)
(* What the ServiceRegistry contract promises about the instances of one   *)
(* service, as LocalServiceRegistry keeps it under its lock                *)
(* (distributed/discovery.py): a directory of live and expired entries.    *)
(***************************************************************************)
CONSTANT Instances

VARIABLES
    entry,    \* of each instance: "none", "live" or "expired"
    asked,    \* the calls under way, as pairs of an operation and an instance
    upheld    \* the promise of the registry stands

directoryVars == <<entry, asked, upheld>>

Entries == {"none", "live", "expired"}

Init ==
    /\ entry = [i \in Instances |-> "none"]
    /\ asked = {}
    /\ upheld = TRUE

\* The time to live runs from the creation of the instance, so an instance
\* may be expired when it is registered.
Register(i) ==
    /\ <<"register", i>> \in asked
    /\ \E e \in {"live", "expired"} : entry' = [entry EXCEPT ![i] = e]

Deregister(i) ==
    /\ <<"deregister", i>> \in asked
    /\ entry[i] # "none"
    /\ entry' = [entry EXCEPT ![i] = "none"]

\* renew refreshes an entry, an expired one too until it is purged.
Renew(i) ==
    /\ <<"renew", i>> \in asked
    /\ entry[i] # "none"
    /\ entry' = [entry EXCEPT ![i] = "live"]

\* cleanup removes expired entries only, and nobody has to ask for it.
Purge(i) ==
    /\ entry[i] = "expired"
    /\ entry' = [entry EXCEPT ![i] = "none"]

Expire(i) ==
    /\ entry[i] = "live"
    /\ entry' = [entry EXCEPT ![i] = "expired"]

Break == upheld' = FALSE /\ entry' \in [Instances -> Entries]

\* Callers ask and are answered at any moment.
Next ==
    /\ \/ UNCHANGED <<entry, upheld>>
       \/ /\ \E i \in Instances :
                Register(i) \/ Deregister(i) \/ Renew(i) \/ Purge(i) \/ Expire(i)
          /\ UNCHANGED upheld
       \/ Break
    /\ asked' \subseteq {"register", "deregister", "renew"} \X Instances

Spec == Init /\ [][Next]_directoryVars
=============================================================================
