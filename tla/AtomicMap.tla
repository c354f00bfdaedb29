------------------------------- MODULE AtomicMap -------------------------------
(***************************************************************************)
(* What a user of Abstractions/ConcurrentHashMap may rely on.  Find,       *)
(* Insert and Erase take effect at one moment between their call and their *)
(* return, on the map as a whole.  Clear does not: it removes the keys a   *)
(* few at a time, and promises only that each was absent at some moment of *)
(* the call.                                                               *)
(***************************************************************************)
CONSTANTS
    Thread,
    Key,
    Value,
    Absent      \* what is found for a key that is not in the map

VARIABLES
    contents,   \* the value of each key, or Absent
    pending,    \* the call each thread is in
    toClear,    \* the keys a thread in Clear has still to remove
    answer      \* what the last Find of each thread returned

vars == <<contents, pending, toClear, answer>>

Idle == [op |-> "none"]

Calls ==
    [op : {"Find", "Erase"}, key : Key]
        \union [op : {"Insert"}, key : Key, value : Value]

Init ==
    /\ contents = [k \in Key |-> Absent]
    /\ pending = [t \in Thread |-> Idle]
    /\ toClear = [t \in Thread |-> {}]
    /\ answer = [t \in Thread |-> Absent]

Invoke(t, call) ==
    /\ pending[t] = Idle
    /\ pending' = [pending EXCEPT ![t] = call]
    /\ UNCHANGED <<contents, toClear, answer>>

InvokeClear(t) ==
    /\ pending[t] = Idle
    /\ pending' = [pending EXCEPT ![t] = [op |-> "Clear"]]
    /\ toClear' = [toClear EXCEPT ![t] = Key]
    /\ UNCHANGED <<contents, answer>>

Found(t) ==
    /\ pending[t].op = "Find"
    /\ answer' = [answer EXCEPT ![t] = contents[pending[t].key]]
    /\ pending' = [pending EXCEPT ![t] = Idle]
    /\ UNCHANGED <<contents, toClear>>

Inserted(t) ==
    /\ pending[t].op = "Insert"
    /\ contents' = [contents EXCEPT ![pending[t].key] = pending[t].value]
    /\ pending' = [pending EXCEPT ![t] = Idle]
    /\ UNCHANGED <<toClear, answer>>

(* Without the memory to insert a key, the call throws and changes nothing. *)
InsertFailed(t) ==
    /\ pending[t].op = "Insert"
    /\ contents[pending[t].key] = Absent
    /\ pending' = [pending EXCEPT ![t] = Idle]
    /\ UNCHANGED <<contents, toClear, answer>>

Erased(t) ==
    /\ pending[t].op = "Erase"
    /\ contents' = [contents EXCEPT ![pending[t].key] = Absent]
    /\ pending' = [pending EXCEPT ![t] = Idle]
    /\ UNCHANGED <<toClear, answer>>

ClearSome(t) ==
    /\ \E K \in SUBSET toClear[t] :
          /\ contents' = [k \in Key |-> IF k \in K THEN Absent ELSE contents[k]]
          /\ toClear' = [toClear EXCEPT ![t] = @ \ K]
    /\ UNCHANGED <<pending, answer>>

Cleared(t) ==
    /\ pending[t].op = "Clear"
    /\ toClear[t] = {}
    /\ pending' = [pending EXCEPT ![t] = Idle]
    /\ UNCHANGED <<contents, toClear, answer>>

Next ==
    \E t \in Thread :
        \/ \E call \in Calls : Invoke(t, call)
        \/ InvokeClear(t)
        \/ Found(t) \/ Inserted(t) \/ InsertFailed(t) \/ Erased(t)
        \/ ClearSome(t) \/ Cleared(t)

Spec == Init /\ [][Next]_vars
===============================================================================
