------------------------------ MODULE DedupIndex ------------------------------
(***************************************************************************)
(* What the trait DedupIndex (index/mod.rs) promises the threads that use  *)
(* an index: an insert and a lookup take effect at once, at some moment    *)
(* between their call and their return.  So a lookup finds what was        *)
(* inserted last, and what was once inserted is found ever after.          *)
(***************************************************************************)
CONSTANTS Hash, Location, NoLocation, Thread

VARIABLES
    map,    \* the location of each hash, NoLocation if it has none
    call,   \* what a thread has called and what has yet to take effect
    key,    \* the hash its call is about
    value   \* the location it inserts, or its lookup has found

Init ==
    /\ map = [h \in Hash |-> NoLocation]
    /\ call = [t \in Thread |-> "none"]
    /\ key \in [Thread -> Hash]
    /\ value = [t \in Thread |-> NoLocation]

Calls(t, name, h, loc) ==
    /\ call[t] = "none"
    /\ call' = [call EXCEPT ![t] = name]
    /\ key' = [key EXCEPT ![t] = h]
    /\ value' = [value EXCEPT ![t] = loc]
    /\ UNCHANGED map

Insert(t) ==
    /\ call[t] = "insert"
    /\ call' = [call EXCEPT ![t] = "none"]
    /\ map' = [map EXCEPT ![key[t]] = value[t]]
    /\ UNCHANGED <<key, value>>

(* lookup, and contains, which only says whether there is a location.      *)
Lookup(t) ==
    /\ call[t] = "lookup"
    /\ call' = [call EXCEPT ![t] = "none"]
    /\ value' = [value EXCEPT ![t] = map[key[t]]]
    /\ UNCHANGED <<map, key>>

Next ==
    \E t \in Thread :
        \/ \E h \in Hash : \/ Calls(t, "lookup", h, NoLocation)
                           \/ \E loc \in Location : Calls(t, "insert", h, loc)
        \/ Insert(t) \/ Lookup(t)

Spec == Init /\ [][Next]_<<map, call, key, value>>

=============================================================================
