--------------------------- MODULE Instrumentation ---------------------------
(***************************************************************************)
(* Client threads running instrumented superblocks under Valgrind's        *)
(* serialisation: one thread at a time holds the lock (holder) and gives   *)
(* it up only at a superblock boundary.                                    *)
(*                                                                         *)
(* Each thread increments a shared client word lo (and, for a double-      *)
(* element CAS, the word hi beside it) with a compare-and-swap loop:       *)
(*   superblock 1: e := LD(lo), LD(hi)                                     *)
(*   superblock 2: CAS(lo, hi: e -> e + 1), old := the CAS's oldLo, oldHi   *)
(* and counts the increment if old = e, as a CAS loop does.  dg_instrument *)
(* puts the mode's instrumentation of the CAS (which tests success into    *)
(* cas_succeeded and writes the shadow) in front of dg_original_statement, *)
(* which replaces the CAS by loads of oldLo/oldHi and stores of            *)
(* ITE(cas_succeeded, data, LD(addr)).  Every statement is one step.       *)
(***************************************************************************)
EXTENDS Naturals, FiniteSets

CONSTANTS
    Tids,         \* client threads
    ShVals,       \* shadow values of the data a CAS writes
    MaxAttempts   \* CAS superblocks per thread

Modes == {"d", "b", "t"}

Halves == {"lo", "hi"}
Zero == [h \in Halves |-> 0]

VARIABLES
    mode,      \* the tool's mode, fixed after dg_post_clo_init
    tests,     \* whether that mode's handler tests a CAS into cas_succeeded
    shadow,    \* shadow[m]: the shadow of lo in mode m's layer
    holder,    \* the thread holding Valgrind's lock
    pc,        \* pc[t]: "idle", "ready" (e read), or the next CAS statement
    mem,       \* the client words lo and hi
    e,         \* e[t]: the values thread t read and expects
    dbl,       \* dbl[t]: thread t's CAS is double-element
    succ,      \* the temporary cas_succeeded of t's superblock
    old,       \* oldLo and oldHi of t's CAS
    attempts,  \* CAS superblocks t has run
    seen       \* history: increments each thread counted as done

vars == <<mode, tests, shadow, holder, pc, mem, e, dbl, succ, old, attempts, seen>>

Init ==
    /\ mode \in Modes
    /\ tests \in BOOLEAN
    /\ shadow = [m \in Modes |-> 0]
    /\ holder \in Tids
    /\ pc = [t \in Tids |-> "idle"]
    /\ mem = [h \in Halves |-> 0]
    /\ e = [t \in Tids |-> mem]
    /\ dbl = [t \in Tids |-> FALSE]
    /\ succ = [t \in Tids |-> FALSE]
    /\ old = [t \in Tids |-> mem]
    /\ attempts = [t \in Tids |-> 0]
    /\ seen = [t \in Tids |-> [h \in Halves |-> 0]]

AtBoundary(t) == pc[t] \in {"idle", "ready"}

(* The scheduler hands the lock to another thread between superblocks.    *)
Yield(t) ==
    /\ holder = t /\ AtBoundary(t)
    /\ \E u \in Tids \ {t} : holder' = u
    /\ UNCHANGED <<mode, tests, shadow, pc, mem, e, dbl, succ, old, attempts, seen>>

(* Superblock 1: the loads of lo and hi.                                   *)
ReadWords(t) ==
    /\ holder = t /\ pc[t] = "idle" /\ attempts[t] < MaxAttempts
    /\ e' = [e EXCEPT ![t] = mem]
    /\ pc' = [pc EXCEPT ![t] = "ready"]
    /\ UNCHANGED <<mode, tests, shadow, holder, mem, dbl, succ, old, attempts, seen>>

(* The mode's instrumentation of the CAS: cas_succeeded := the comparison  *)
(* of lo (and hi) with the expected values; the shadow of lo gets the      *)
(* data's shadow sh when it succeeds, in the layer of the mode.            *)
CasSucceeded(t, d) == mem["lo"] = e[t]["lo"] /\ (d => mem["hi"] = e[t]["hi"])

CasInstrument(t, d, sh) ==
    LET ok == CasSucceeded(t, d)
    IN  /\ tests /\ holder = t /\ pc[t] = "ready"
        /\ dbl' = [dbl EXCEPT ![t] = d]
        /\ succ' = [succ EXCEPT ![t] = ok]
        /\ shadow' = IF ok THEN [shadow EXCEPT ![mode] = sh] ELSE shadow
        /\ pc' = [pc EXCEPT ![t] = "old"]
        /\ attempts' = [attempts EXCEPT ![t] = @ + 1]
        /\ UNCHANGED <<mode, tests, holder, mem, e, old, seen>>

(* dg_original_statement when the mode's handler leaves cas_succeeded     *)
(* IRTemp_INVALID (the handlers are not among the sources, so either kind  *)
(* of handler is possible; a mode's handler does the same for every CAS):  *)
(* the CAS is copied and runs as one statement, comparing, *)
(* writing and setting oldLo/oldHi at once; no shadow is written for it.   *)
CasCopied(t, d) ==
    LET ok == CasSucceeded(t, d)
    IN  /\ ~tests /\ holder = t /\ pc[t] = "ready"
        /\ dbl' = [dbl EXCEPT ![t] = d]
        /\ old' = [old EXCEPT ![t] = [h \in Halves |->
                      IF h = "lo" \/ d THEN mem[h] ELSE old[t][h]]]
        /\ mem' = [h \in Halves |->
                      IF ok /\ (h = "lo" \/ d) THEN e[t][h] + 1 ELSE mem[h]]
        /\ pc' = [pc EXCEPT ![t] = "end"]
        /\ attempts' = [attempts EXCEPT ![t] = @ + 1]
        /\ UNCHANGED <<mode, tests, shadow, holder, e, succ, seen>>

(* dg_original_statement, a store: lo (or hi) := ITE(cas_succeeded,        *)
(* data, LD(lo)).                                                          *)
GuardedStore(t, h) ==
    [mem EXCEPT ![h] = IF succ[t] THEN e[t][h] + 1 ELSE mem[h]]

(* A variant that loads oldLo/oldHi after the guarded stores.             *)
LoadOldAfterStore(t) ==
    /\ holder = t /\ pc[t] = "old"
    /\ old' = [old EXCEPT ![t] = [h \in Halves |->
                  IF h = "lo" \/ dbl[t] THEN GuardedStore(t, h)[h] ELSE old[t][h]]]
    /\ pc' = [pc EXCEPT ![t] = "storeLo"]
    /\ UNCHANGED <<mode, tests, shadow, holder, mem, e, dbl, succ, attempts, seen>>

LoadOld(t) ==
    /\ holder = t /\ pc[t] = "old"
    /\ old' = [old EXCEPT ![t] = [h \in Halves |->
                  IF h = "lo" \/ dbl[t] THEN mem[h] ELSE old[t][h]]]
    /\ pc' = [pc EXCEPT ![t] = "storeLo"]
    /\ UNCHANGED <<mode, tests, shadow, holder, mem, e, dbl, succ, attempts, seen>>

(* The guarded store of the Lo part; a single-element CAS ends here.       *)
StoreLo(t) ==
    /\ holder = t /\ pc[t] = "storeLo"
    /\ mem' = GuardedStore(t, "lo")
    /\ pc' = [pc EXCEPT ![t] = IF dbl[t] THEN "storeHi" ELSE "end"]
    /\ UNCHANGED <<mode, tests, shadow, holder, e, dbl, succ, old, attempts, seen>>

StoreHi(t) ==
    /\ holder = t /\ pc[t] = "storeHi"
    /\ mem' = GuardedStore(t, "hi")
    /\ pc' = [pc EXCEPT ![t] = "end"]
    /\ UNCHANGED <<mode, tests, shadow, holder, e, dbl, succ, old, attempts, seen>>

(* The client's loop compares oldLo (and oldHi) with what it expected and  *)
(* counts the increment when they agree; otherwise it will read again.     *)
(* The temporaries of the superblock are dead after it.                    *)
CasDone(t) ==
    LET agreed == old[t]["lo"] = e[t]["lo"] /\ (dbl[t] => old[t]["hi"] = e[t]["hi"])
    IN  /\ holder = t /\ pc[t] = "end"
        /\ seen' = IF agreed
                   THEN [seen EXCEPT ![t] = [h \in Halves |->
                            IF h = "lo" \/ dbl[t] THEN @[h] + 1 ELSE @[h]]]
                   ELSE seen
        /\ pc' = [pc EXCEPT ![t] = "idle"]
        /\ e' = [e EXCEPT ![t] = Zero]
        /\ old' = [old EXCEPT ![t] = Zero]
        /\ dbl' = [dbl EXCEPT ![t] = FALSE]
        /\ succ' = [succ EXCEPT ![t] = FALSE]
        /\ UNCHANGED <<mode, tests, shadow, holder, mem, attempts>>

Next ==
    \E t \in Tids :
        \/ Yield(t)
        \/ ReadWords(t)
        \/ \E d \in BOOLEAN, sh \in ShVals : CasInstrument(t, d, sh)
        \/ \E d \in BOOLEAN : CasCopied(t, d)
        \/ LoadOld(t)
        \/ StoreLo(t)
        \/ StoreHi(t)
        \/ CasDone(t)

Spec == Init /\ [][Next]_vars

-----------------------------------------------------------------------------
(* Refinement mapping onto AtomicCas.  A CAS superblock takes effect at   *)
(* its test (CasInstrument): from there on the thread holds the lock until *)
(* the superblock ends, so its pending guarded stores and the increment    *)
(* its loop will count are those of the atomic CAS.                        *)
InSuperblock(t) == pc[t] \in {"old", "storeLo", "storeHi", "end"}
Touched(t) == IF dbl[t] THEN Halves ELSE {"lo"}

Pending(t, h) ==
    /\ succ[t] /\ h \in Touched(t)
    /\ pc[t] \in IF h = "lo" THEN {"old", "storeLo"} ELSE {"old", "storeLo", "storeHi"}

(* Before LoadOld, oldLo/oldHi will be the words as they are now.           *)
WillAgree(t) ==
    IF pc[t] = "old" THEN \A h \in Touched(t) : mem[h] = e[t][h]
    ELSE \A h \in Touched(t) : old[t][h] = e[t][h]

absMem == [h \in Halves |->
              IF \E t \in Tids : Pending(t, h)
              THEN e[CHOOSE t \in Tids : Pending(t, h)][h] + 1 ELSE mem[h]]
absSeen == [t \in Tids |->
              IF InSuperblock(t) /\ WillAgree(t)
              THEN [h \in Halves |-> IF h \in Touched(t) THEN seen[t][h] + 1 ELSE seen[t][h]]
              ELSE seen[t]]

Abs == INSTANCE AtomicCas WITH
          pc <- [t \in Tids |-> IF InSuperblock(t) THEN "idle" ELSE pc[t]],
          mem <- absMem,
          e <- [t \in Tids |-> IF pc[t] = "ready" THEN e[t] ELSE Zero],
          attempts <- attempts,
          seen <- absSeen

(* The CAS that dg_original_statement splits into a test, loads of oldLo/  *)
(* oldHi and guarded stores implements the atomic CAS: every behaviour of  *)
(* the threads, interleaved at superblock boundaries, is one of           *)
(* AtomicCas, so no update is lost or doubled and a loop counts  *)
(* an increment exactly when its CAS wrote it.                             *)
AtomicCasRefined == Abs!Spec

(* Valgrind runs a translated superblock to its end once a thread entered  *)
(* it: the statements of the CAS superblock are weakly fair.               *)
Fairness ==
    \A t \in Tids :
        /\ WF_vars(LoadOld(t)) /\ WF_vars(StoreLo(t))
        /\ WF_vars(StoreHi(t)) /\ WF_vars(CasDone(t))

LiveSpec == Spec /\ Fairness

=============================================================================
