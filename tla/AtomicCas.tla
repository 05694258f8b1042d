------------------------------ MODULE AtomicCas ------------------------------
(***************************************************************************)
(* What a client's compare-and-swap promises: threads running a CAS        *)
(* increment loop on the words lo and hi, where the CAS is one indivisible *)
(* step that compares, writes and reports the old values.  A CAS loop      *)
(* counts an increment exactly when its CAS succeeded.                     *)
(***************************************************************************)
EXTENDS Naturals

CONSTANTS Tids, MaxAttempts

Halves == {"lo", "hi"}
Zero == [h \in Halves |-> 0]

VARIABLES
    pc,        \* pc[t]: "idle" or "ready" (the expected values are read)
    mem,       \* the words lo and hi
    e,         \* e[t]: the values thread t read and expects
    attempts,  \* CAS steps t has taken
    seen       \* increments each thread counted as done

avars == <<pc, mem, e, attempts, seen>>

Init ==
    /\ pc = [t \in Tids |-> "idle"]
    /\ mem = Zero
    /\ e = [t \in Tids |-> Zero]
    /\ attempts = [t \in Tids |-> 0]
    /\ seen = [t \in Tids |-> Zero]

Read(t) ==
    /\ pc[t] = "idle" /\ attempts[t] < MaxAttempts
    /\ e' = [e EXCEPT ![t] = mem]
    /\ pc' = [pc EXCEPT ![t] = "ready"]
    /\ UNCHANGED <<mem, attempts, seen>>

(* The atomic CAS of one word (d = FALSE) or of both (d = TRUE).           *)
Cas(t, d) ==
    LET touched == IF d THEN Halves ELSE {"lo"}
        ok == \A h \in touched : mem[h] = e[t][h]
    IN  /\ pc[t] = "ready"
        /\ mem' = [h \in Halves |-> IF ok /\ h \in touched THEN e[t][h] + 1 ELSE mem[h]]
        /\ seen' = [seen EXCEPT ![t] = [h \in Halves |->
                       IF ok /\ h \in touched THEN @[h] + 1 ELSE @[h]]]
        /\ attempts' = [attempts EXCEPT ![t] = @ + 1]
        /\ pc' = [pc EXCEPT ![t] = "idle"]
        /\ e' = [e EXCEPT ![t] = Zero]

Next == \E t \in Tids : Read(t) \/ \E d \in BOOLEAN : Cas(t, d)

Spec == Init /\ [][Next]_avars

=============================================================================
