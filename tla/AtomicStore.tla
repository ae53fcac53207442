----------------------------- MODULE AtomicStore -----------------------------
(***************************************************************************)
(* What a leader promises its clients of its own state machine: a SET      *)
(* takes effect there at one moment between its call and its answer, or    *)
(* never when the answer is a failure (its peers may keep it all the same, *)
(* consensus.go:238-252); a GET answers what the last SET to take effect   *)
(* there wrote.                                                            *)
(***************************************************************************)
CONSTANTS Set, Get, Key, KeyOf

VARIABLES
    store,   \* the SET whose value each key has, or what it had at first
    status,  \* of each request: "new", "pending", "ok" or "failed"
    answer   \* what each GET was answered: {} before it is

Init ==
    /\ \A k \in Key : store[k] \notin Set
    /\ status = [r \in Set \cup Get |-> "new"]
    /\ answer = [r \in Get |-> {}]

Call(r) ==
    /\ r \in Set /\ status[r] = "new"
    /\ status' = [status EXCEPT ![r] = "pending"]
    /\ UNCHANGED <<store, answer>>

Apply(r) ==
    /\ r \in Set /\ status[r] = "pending"
    /\ status' = [status EXCEPT ![r] = "ok"]
    /\ store' = [store EXCEPT ![KeyOf[r]] = r]
    /\ UNCHANGED answer

Fail(r) ==
    /\ r \in Set /\ status[r] = "pending"
    /\ status' = [status EXCEPT ![r] = "failed"]
    /\ UNCHANGED <<store, answer>>

Read(r) ==
    /\ r \in Get /\ status[r] = "new"
    /\ status' = [status EXCEPT ![r] = "ok"]
    /\ answer' = [answer EXCEPT ![r] = {store[KeyOf[r]]}]
    /\ UNCHANGED store

Next == \E r \in Set \cup Get : Call(r) \/ Apply(r) \/ Fail(r) \/ Read(r)

Spec == Init /\ [][Next]_<<store, status, answer>>
=============================================================================
