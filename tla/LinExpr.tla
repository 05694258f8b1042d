------------------------------ MODULE LinExpr ------------------------------
(***************************************************************************)
(* The linearised-expression arena of the recording-mode draft            *)
(* (derivgrind/dg_bar.c): a growable buffer of LinExpr records, each a     *)
(* value with up to MAX_NDEP (identifier, jacobian) pairs, the arithmetic  *)
(* that forms linear combinations of them, and their normalisation.        *)
(*                                                                         *)
(* Nothing in the repository calls these functions yet; a client that      *)
(* creates independent variables and combines them is the environment.     *)
(* The client holds the pointers the functions return.  Each is an index   *)
(* into the buffer of the time it was returned: born[s] is the capacity    *)
(* of that buffer, so a pointer is stale once newLinExpr has replaced the  *)
(* buffer.  A freed block may be handed out again by the allocator, so a   *)
(* read through a stale pointer gives the copied contents or junk.         *)
(***************************************************************************)
EXTENDS Integers, Sequences

CONSTANTS
    MAX_NDEP,    \* capacity of the identifier and jacobian arrays
    Ids,         \* identifiers of independent variables
    Vals,        \* values the client gives independent variables
    MaxLinExpr,  \* bound on n_linexpr: the client stops allocating there
    Ops,         \* the operations the client uses
    MaxRounds,   \* bound on the client's calls of deleteAllLinExpr
    Undef,       \* a field never written since its memory was allocated
    Junk         \* bytes that are no longer what the program wrote

Idx == 0..MAX_NDEP-1

Num(x) == x \in Int
Plus(x, y) == IF Num(x) /\ Num(y) THEN x + y ELSE Junk
Times(x, y) == IF Num(x) /\ Num(y) THEN x * y ELSE Junk
(* Exact quotient of integers by a divisor 1 or -1; the client divides    *)
(* only by values it knows to be 1 or -1.                                  *)
Quot(x, y) == IF Num(x) /\ Num(y) /\ y \in {1, -1} THEN x * y ELSE Junk

(* The LinExpr struct.  A fresh block holds Undef everywhere; memory that *)
(* is no longer the program's reads as JunkEntry.                          *)
Uninit == [value |-> Undef, ndep |-> Undef,
           identifier |-> [k \in Idx |-> Undef], jacobian |-> [k \in Idx |-> Undef]]
JunkEntry == [value |-> Junk, ndep |-> Junk,
              identifier |-> [k \in Idx |-> Junk], jacobian |-> [k \in Idx |-> Junk]]

(* Element k of an array of MAX_NDEP; past its end there is other memory. *)
Elem(arr, k) == IF k \in Idx THEN arr[k] ELSE Junk

(* Buffer access: a slot past the allocation is someone else's memory.    *)
BufGet(b, s) == IF s \in DOMAIN b THEN b[s] ELSE JunkEntry
BufSet(b, s, e) == IF s \in DOMAIN b THEN [b EXCEPT ![s] = e] ELSE b

-----------------------------------------------------------------------------
(* newLinExpr: when the buffer is full, a buffer of 2*n_linexpr+1 entries  *)
(* replaces it (the old one is copied and freed) and max_linexpr becomes   *)
(* 2*max_linexpr+1; then the entry at n_linexpr gets ndep = 0 and is       *)
(* returned.  The result is the new buffer and capacity; the returned      *)
(* entry is slot n.                                                        *)
NewLinExprLate(b, n, mx) ==
    LET grow == n > mx
        nb   == IF grow THEN [k \in 0..2*n |-> IF k < n THEN b[k] ELSE Uninit] ELSE b
    IN  [buf |-> BufSet(nb, n, [BufGet(nb, n) EXCEPT !.ndep = 0]),
         max |-> IF grow THEN 2*mx + 1 ELSE mx]

NewLinExpr(b, n, mx) ==
    LET grow == n = mx
        nb   == IF grow THEN [k \in 0..2*n |-> IF k < n THEN b[k] ELSE Uninit] ELSE b
    IN  [buf |-> BufSet(nb, n, [BufGet(nb, n) EXCEPT !.ndep = 0]),
         max |-> IF grow THEN 2*mx + 1 ELSE mx]

(* linearCombinationOfDependencies with the second loop copying b's       *)
(* jacobian into the identifier array.                                     *)
LinCombIdFromJacobian(k, a, l, b, res) ==
    IF ~(Num(a.ndep) /\ Num(b.ndep)) THEN JunkEntry
    ELSE [res EXCEPT
            !.ndep = a.ndep + b.ndep,
            !.identifier = [i \in Idx |->
                 IF i < a.ndep THEN a.identifier[i]
                 ELSE IF i < a.ndep + b.ndep THEN Elem(b.jacobian, i - a.ndep)
                 ELSE @[i]],
            !.jacobian = [i \in Idx |->
                 IF i < a.ndep THEN Times(k, a.jacobian[i])
                 ELSE IF i < a.ndep + b.ndep THEN Times(l, Elem(b.jacobian, i - a.ndep))
                 ELSE @[i]]]

(* linearCombinationOfDependencies(k, a, l, b) filling res: ndep is the    *)
(* sum, a's pairs scaled by k, then b's scaled by l at offset a->ndep.     *)
(* Writes past the arrays (ndep > MAX_NDEP) land in the jacobian array,    *)
(* which the second loop overwrites, or in the unused next slot: they are  *)
(* lost.  A junk ndep makes the loops run over junk: the result is junk.   *)
LinComb(k, a, l, b, res) ==
    IF ~(Num(a.ndep) /\ Num(b.ndep)) THEN JunkEntry
    ELSE [res EXCEPT
            !.ndep = a.ndep + b.ndep,
            !.identifier = [i \in Idx |->
                 IF i < a.ndep THEN a.identifier[i]
                 ELSE IF i < a.ndep + b.ndep THEN Elem(b.identifier, i - a.ndep)
                 ELSE @[i]],
            !.jacobian = [i \in Idx |->
                 IF i < a.ndep THEN Times(k, a.jacobian[i])
                 ELSE IF i < a.ndep + b.ndep THEN Times(l, Elem(b.jacobian, i - a.ndep))
                 ELSE @[i]]]

addLinExpr(a, b, res) == [LinComb(1, a, 1, b, res) EXCEPT !.value = Plus(a.value, b.value)]
subLinExpr(a, b, res) ==
    [LinComb(1, a, -1, b, res) EXCEPT !.value = Plus(a.value, Times(-1, b.value))]
mulLinExprSwapped(a, b, res) ==
    [LinComb(a.value, a, b.value, b, res) EXCEPT !.value = Times(a.value, b.value)]
mulLinExpr(a, b, res) ==
    [LinComb(b.value, a, a.value, b, res) EXCEPT !.value = Times(a.value, b.value)]
(* k = -1/b and l = a/(b*b), as written.                                   *)
divLinExpr(a, b, res) ==
    [LinComb(Quot(-1, b.value), a, Quot(a.value, Times(b.value, b.value)), b, res)
        EXCEPT !.value = Quot(a.value, b.value)]

-----------------------------------------------------------------------------
(* mergesortLinExpr and normalizeLinExpr work on memory M, a function     *)
(* from <<block, slot>> to entries, so that the argument may lie in a     *)
(* freed block while ret lies in the live one.  A pointer is a pair       *)
(* <<block, slot>>; p[k] is the entry k places after it, as a[k] in C.    *)
At(p, k) == <<p[1], p[2] + k>>
Read(M, p, k) == IF At(p, k) \in DOMAIN M THEN M[At(p, k)] ELSE JunkEntry
Write(M, p, k, e) == IF At(p, k) \in DOMAIN M THEN [M EXCEPT ![At(p, k)] = e] ELSE M

(* The comparison of two identifiers; Undef or Junk never compares less.  *)
Less(x, y) == Num(x) /\ Num(y) /\ x < y

(* The merge loop: tmp[i] = a[from_m++] or a[sep_m++], chosen by comparing *)
(* a->identifier[from_m] with a->identifier[sep_m], the identifiers of the *)
(* entry a[0] as it is at that moment.  Whole entries are moved.           *)
RECURSIVE Merge(_, _, _, _, _, _, _, _)
Merge(M, a, tmp, i, to, from_m, sep, sep_m) ==
    IF i >= to THEN M
    ELSE LET id   == Read(M, a, 0).identifier
             left == sep_m >= to \/ (from_m < sep /\ Less(Elem(id, from_m), Elem(id, sep_m)))
         IN  IF left
             THEN Merge(Write(M, tmp, i, Read(M, a, from_m)), a, tmp, i + 1, to, from_m + 1, sep, sep_m)
             ELSE Merge(Write(M, tmp, i, Read(M, a, sep_m)), a, tmp, i + 1, to, from_m, sep, sep_m + 1)

(* The copy-back loop a[i] = tmp[i].                                       *)
RECURSIVE CopyBack(_, _, _, _, _)
CopyBack(M, a, tmp, i, to) ==
    IF i >= to THEN M ELSE CopyBack(Write(M, a, i, Read(M, tmp, i)), a, tmp, i + 1, to)

RECURSIVE mergesortLinExpr(_, _, _, _, _)
mergesortLinExpr(M, a, from, to, tmp) ==
    IF to - from <= 1 THEN M
    ELSE LET sep == (from + to) \div 2
             M1  == mergesortLinExpr(mergesortLinExpr(M, a, from, sep, tmp), a, sep, to, tmp)
         IN  CopyBack(Merge(M1, a, tmp, from, to, from, sep, sep), a, tmp, from, to)

(* The grouping loop of normalizeLinExpr.  The inner loop tests            *)
(* a->identifier[i] == id before i < a->ndep, so it reads one element past *)
(* the pairs; the value read is then discarded.                            *)
RECURSIVE RunEnd(_, _, _)
RunEnd(e, id, i) == IF Elem(e.identifier, i) = id /\ i < e.ndep THEN RunEnd(e, id, i + 1) ELSE i
RECURSIVE JacobianSum(_, _, _)
JacobianSum(e, i, j) == IF i >= j THEN 0 ELSE Plus(Elem(e.jacobian, i), JacobianSum(e, i + 1, j))
RECURSIVE Groups(_, _, _)
Groups(e, i, acc) ==
    IF i >= e.ndep THEN acc
    ELSE LET id == Elem(e.identifier, i)
             j  == RunEnd(e, id, i + 1)
         IN  Groups(e, j, Append(acc, <<id, JacobianSum(e, i, j)>>))

(* normalizeLinExpr(a) with ret the entry newLinExpr returned: sort a     *)
(* with ret as tmp, fill ret from the groups of a, then *a = *ret.  A     *)
(* junk ndep, before or after the sort, leaves nothing to say about the   *)
(* loops: a becomes junk.                                                  *)
normalizeLinExpr(M, a, ret) ==
    LET d == Read(M, a, 0).ndep
        S == mergesortLinExpr(M, a, 0, d, ret)
        e == Read(S, a, 0)
        g == Groups(e, 0, <<>>)
        r == [Read(S, ret, 0) EXCEPT
                !.ndep = Len(g), !.value = e.value,
                !.identifier = [k \in Idx |-> IF k < Len(g) THEN g[k + 1][1] ELSE @[k]],
                !.jacobian   = [k \in Idx |-> IF k < Len(g) THEN g[k + 1][2] ELSE @[k]]]
    IN  CASE ~Num(d)     -> Write(M, a, 0, JunkEntry)
          [] ~Num(e.ndep) -> Write(S, a, 0, JunkEntry)
          [] OTHER        -> Write(Write(S, ret, 0, r), a, 0, r)

-----------------------------------------------------------------------------
VARIABLES
    buf,          \* buffer_linexpr, with DOMAIN the allocated entries
    n_linexpr,
    max_linexpr,
    born,         \* born[s]: capacity of the buffer the client's pointer to s is into
    refval,       \* the value the client's expression s has (history)
    grad,         \* its derivative by each identifier (history)
    tainted,      \* entries computed from memory that was not the program's
    ops,          \* ops[s]: the operations the client's expression s is built with
    rounds        \* calls of deleteAllLinExpr so far

vars == <<buf, n_linexpr, max_linexpr, born, refval, grad, tainted, ops, rounds>>

Slots == 0..MaxLinExpr-1
Stale(s, mx) == born[s] # mx

(* What the client's pointer to s reads once the capacity is mx.          *)
ReadVia(b, s, mx) == IF Stale(s, mx) THEN {b[s], JunkEntry} ELSE {b[s]}

Init ==
    /\ buf = <<>>                       \* buffer_linexpr is NULL, max 0
    /\ n_linexpr = 0
    /\ max_linexpr = 0
    /\ born = [s \in Slots |-> 0]
    /\ refval = [s \in Slots |-> 0]
    /\ grad = [s \in Slots |-> [i \in Ids |-> 0]]
    /\ tainted = {}
    /\ ops = [s \in Slots |-> {}]
    /\ rounds = 0

(* The client makes an independent variable: newLinExpr, then value v and *)
(* the single pair (id, 1).                                                 *)
NewInput(id, v) ==
    /\ n_linexpr < MaxLinExpr
    /\ LET x == NewLinExpr(buf, n_linexpr, max_linexpr)
           e == BufGet(x.buf, n_linexpr)
       IN  /\ buf' = BufSet(x.buf, n_linexpr,
                        [e EXCEPT !.value = v, !.ndep = 1,
                                  !.identifier[0] = id, !.jacobian[0] = 1])
           /\ max_linexpr' = x.max
           /\ born' = [born EXCEPT ![n_linexpr] = x.max]
    /\ n_linexpr' = n_linexpr + 1
    /\ refval' = [refval EXCEPT ![n_linexpr] = v]
    /\ grad' = [grad EXCEPT ![n_linexpr] = [i \in Ids |-> IF i = id THEN 1 ELSE 0]]
    /\ tainted' = tainted \ {n_linexpr}
    /\ ops' = [ops EXCEPT ![n_linexpr] = {}]
    /\ UNCHANGED rounds

(* The value and derivative the client's expression op(a, b) has.         *)
RefValue(op, va, vb) ==
    CASE op = "add" -> va + vb [] op = "sub" -> va - vb
      [] op = "mul" -> va * vb [] op = "div" -> va * vb
RefGrad(op, va, ga, vb, gb) ==
    [i \in Ids |->
        CASE op = "add" -> ga[i] + gb[i]
          [] op = "sub" -> ga[i] - gb[i]
          [] op = "mul" -> vb * ga[i] + va * gb[i]
          [] op = "div" -> vb * ga[i] - va * gb[i]]     \* vb = 1/vb and vb*vb = 1

Apply(op, ea, eb, res) ==
    CASE op = "add" -> addLinExpr(ea, eb, res)
      [] op = "sub" -> subLinExpr(ea, eb, res)
      [] op = "mul" -> mulLinExpr(ea, eb, res)
      [] op = "div" -> divLinExpr(ea, eb, res)

(* addLinExpr, subLinExpr, mulLinExpr or divLinExpr on the client's        *)
(* pointers a and b: newLinExpr first, then the reads of *a and *b.        *)
Combine(op, a, b) ==
    /\ op \in Ops
    /\ n_linexpr < MaxLinExpr
    /\ a < n_linexpr /\ b < n_linexpr
    /\ op = "div" => refval[b] \in {1, -1}
    /\ LET x == NewLinExpr(buf, n_linexpr, max_linexpr)
           r == n_linexpr
       IN  \E ea \in ReadVia(x.buf, a, x.max), eb \in ReadVia(x.buf, b, x.max) :
             LET e == Apply(op, ea, eb, BufGet(x.buf, r))
             IN  /\ buf' = BufSet(x.buf, r, e)
                 /\ max_linexpr' = x.max
                 /\ born' = [born EXCEPT ![r] = x.max]
                 /\ tainted' = IF \/ Stale(a, x.max) \/ Stale(b, x.max)
                                  \/ {a, b} \cap tainted # {}
                                  \/ ~Num(e.ndep) \/ e.ndep > MAX_NDEP
                               THEN tainted \cup {r} ELSE tainted \ {r}
    /\ n_linexpr' = n_linexpr + 1
    /\ refval' = [refval EXCEPT ![n_linexpr] = RefValue(op, refval[a], refval[b])]
    /\ grad' = [grad EXCEPT ![n_linexpr] = RefGrad(op, refval[a], grad[a], refval[b], grad[b])]
    /\ ops' = [ops EXCEPT ![n_linexpr] = ops[a] \cup ops[b] \cup {op}]
    /\ UNCHANGED rounds

Add(a, b) == Combine("add", a, b)
Sub(a, b) == Combine("sub", a, b)
Mul(a, b) == Combine("mul", a, b)
Div(a, b) == Combine("div", a, b)

(* normalizeLinExpr(a): newLinExpr for ret (which may replace the buffer, *)
(* leaving a pointing into the freed one), then the sort and the grouping, *)
(* and *a = *ret.  The freed block holds what was copied out of it, or     *)
(* junk.  Every entry of the buffer the sort or *a = *ret rewrote has been *)
(* through a normalisation.                                                *)
Normalize(a) ==
    /\ "normalize" \in Ops
    /\ n_linexpr < MaxLinExpr
    /\ a < n_linexpr
    /\ LET x     == NewLinExpr(buf, n_linexpr, max_linexpr)
           r     == n_linexpr
           stale == Stale(a, x.max)
           blk   == IF stale THEN "freed" ELSE "live"
           d     == x.buf[a].ndep
       IN  \E F \in {[k \in 0..born[a]-1 |-> x.buf[k]], [k \in 0..born[a]-1 |-> JunkEntry]} :
             LET M0 == [q \in ({"live"} \X DOMAIN x.buf) \cup ({"freed"} \X DOMAIN F) |->
                           IF q[1] = "live" THEN x.buf[q[2]] ELSE F[q[2]]]
                 M1 == normalizeLinExpr(M0, <<blk, a>>, <<"live", r>>)
             IN  /\ buf' = [k \in DOMAIN x.buf |-> M1[<<"live", k>>]]
                 /\ ops' = [s \in Slots |->
                              IF s = r THEN ops[a] \cup {"normalize"}
                              ELSE IF s \in DOMAIN x.buf /\ buf'[s] # x.buf[s]
                              THEN ops[s] \cup {"normalize"} ELSE ops[s]]
                 /\ max_linexpr' = x.max
                 /\ born' = [born EXCEPT ![r] = x.max]
                 /\ tainted' =
                      IF \/ stale \/ a \in tainted \/ ~Num(d)
                         \/ r + d > x.max \/ a + d > born[a]
                      THEN (tainted \cup {r}) \cup (IF stale THEN {} ELSE {a})
                      ELSE tainted \ {r}
    /\ n_linexpr' = n_linexpr + 1
    /\ refval' = [refval EXCEPT ![n_linexpr] = refval[a]]
    /\ grad' = [grad EXCEPT ![n_linexpr] = grad[a]]
    /\ UNCHANGED rounds

(* deleteAllLinExpr: n_linexpr = 0; the buffer and its capacity stay.  The *)
(* client drops its pointers, so the history of the entries is reset.      *)
DeleteAll ==
    /\ rounds < MaxRounds
    /\ rounds' = rounds + 1
    /\ n_linexpr' = 0
    /\ born' = [s \in Slots |-> 0]
    /\ refval' = [s \in Slots |-> 0]
    /\ grad' = [s \in Slots |-> [i \in Ids |-> 0]]
    /\ tainted' = {}
    /\ ops' = [s \in Slots |-> {}]
    /\ UNCHANGED <<buf, max_linexpr>>

Next ==
    \/ \E id \in Ids, v \in Vals : NewInput(id, v)
    \/ \E a, b \in Slots : Add(a, b) \/ Sub(a, b) \/ Mul(a, b) \/ Div(a, b)
    \/ \E a \in Slots : Normalize(a)
    \/ DeleteAll

Spec == Init /\ [][Next]_vars

-----------------------------------------------------------------------------
EntryOK(e) ==
    /\ e.value \in Int \cup {Undef, Junk}
    /\ e.ndep \in Nat \cup {Undef, Junk}
    /\ DOMAIN e.identifier = Idx /\ DOMAIN e.jacobian = Idx
    /\ \A k \in Idx : /\ e.identifier[k] \in Ids \cup {Undef, Junk}
                      /\ e.jacobian[k] \in Int \cup {Undef, Junk}

TypeOK ==
    /\ n_linexpr \in 0..MaxLinExpr
    /\ max_linexpr \in Nat
    /\ \A s \in DOMAIN buf : EntryOK(buf[s])
    /\ born \in [Slots -> Nat]
    /\ tainted \subseteq Slots
    /\ ops \in [Slots -> SUBSET Ops]
    /\ rounds \in 0..MaxRounds

(* The gradient an entry represents: the jacobians summed by identifier.  *)
RECURSIVE GradFrom(_, _, _)
GradFrom(e, id, k) ==
    IF k >= e.ndep THEN 0
    ELSE Plus(IF e.identifier[k] = id THEN e.jacobian[k] ELSE 0, GradFrom(e, id, k + 1))

Represents(e, s) ==
    /\ e.value = refval[s]
    /\ Num(e.ndep) /\ e.ndep <= MAX_NDEP
    /\ \A id \in Ids : GradFrom(e, id, 0) = grad[s][id]

(* newLinExpr keeps its two counts of the capacity in step: the buffer it  *)
(* allocates (2*n_linexpr+1 entries) is exactly max_linexpr long after     *)
(* max_linexpr = 2*max_linexpr+1, and every entry handed out lies in it,   *)
(* across growth and deleteAllLinExpr.                                     *)
ArenaAccounting ==
    /\ n_linexpr <= max_linexpr
    /\ DOMAIN buf = 0..max_linexpr-1

(* Every entry the client holds that was computed only from live memory   *)
(* (no read through a pointer into a freed buffer or past an allocation)   *)
(* has the value and the linear dependencies the chain rule gives the      *)
(* client's expression: linearCombinationOfDependencies and the factors of *)
(* addLinExpr, subLinExpr, mulLinExpr, divLinExpr, and normalizeLinExpr    *)
(* preserving what a LinExpr represents.                                   *)
GradientExactLive ==
    \A s \in 0..n_linexpr-1 : s \notin tainted => Represents(buf[s], s)

(* The same for the entries built from inputs by sums, differences and    *)
(* products alone, while the client also divides and normalises other     *)
(* entries (growing and freeing the buffer under them): addLinExpr,        *)
(* subLinExpr and mulLinExpr compute the chain rule's factors.             *)
AlgebraGradientExact ==
    \A s \in 0..n_linexpr-1 :
        s \notin tainted /\ ops[s] \subseteq {"add", "sub", "mul"} => Represents(buf[s], s)

(* Every entry the client holds represents its expression, including      *)
(* those computed through pointers that newLinExpr has left dangling.      *)
GradientExact ==
    \A s \in 0..n_linexpr-1 : Represents(buf[s], s)

=============================================================================
