----------------------------- MODULE BufferPool -----------------------------
(***************************************************************************)
(* The pool of buffers of buffer/pool.go: goroutines that get and put      *)
(* buffers, and the calibration that one Put in a while does meanwhile.    *)
(* Every atomic operation is one action.                                   *)
(*                                                                         *)
(* A buffer is its length and capacity.  calls[i] of the code is the total *)
(* of what is counted here for the lengths of class i.                     *)
(***************************************************************************)
EXTENDS Integers, Sequences, FiniteSets, FiniteSetsExt, Functions

CONSTANTS
  Threads,
  Lens,            \* the lengths buffers are filled to
  Caps,            \* the capacities that append gives a buffer it grows
  MinBitSize, Steps, CallsThreshold, Percentile,  \* constants of the code, Percentile in %
  MaxPuts          \* bound: calls of Put

VARIABLES
  calls,        \* for each class, how many buffers of each length were put
  calibrating,
  defaultSize, maxSize,
  pool,         \* the capacities of the buffers in the sync.Pool
  pc,
  buff,         \* the buffer each goroutine has
  i, a,         \* i and a of calibrate
  chosen,       \* the sizes that calibrate has chosen and not stored
  basis,        \* history: what the last calibration counted
  puts          \* history: calls of Put

poolVars == <<calls, calibrating, defaultSize, maxSize, pool, pc, buff, i, a, chosen, basis, puts>>

Classes == 0..Steps - 1

Size(c) == 2 ^ (MinBitSize + c)

(* The loop of index: how often n can be halved before it is 0.            *)
Halvings[n \in Nat] == IF n = 0 THEN 0 ELSE 1 + Halvings[n \div 2]

index(n) == IF n = 0 THEN 0 ELSE Min({Halvings[(n - 1) \div 2 ^ MinBitSize], Steps - 1})

NoCalls == [n \in Lens |-> 0]

(* What was counted in class c, the number calls[c] of the code.           *)
Count(f, c) == SumFunction(f[c])

Sum(f) == MapThenSumSet(LAMBDA c : Count(f, c), Classes)

Goto(t, l) == pc' = [pc EXCEPT ![t] = l]

Init ==
  /\ calls = [c \in Classes |-> NoCalls]
  /\ calibrating = FALSE
  /\ defaultSize = 0
  /\ maxSize = 0
  /\ pool = {}
  /\ pc = [t \in Threads |-> "idle"]
  /\ buff = [t \in Threads |-> [len |-> 0, cap |-> 0]]
  /\ i = 0
  /\ a = [c \in Classes |-> NoCalls]
  /\ chosen = [default |-> 0, max |-> 0]
  /\ basis = [c \in Classes |-> NoCalls]
  /\ puts = 0

-----------------------------------------------------------------------------
(* Get, and the use of the buffer: from the pool or a new one, it is       *)
(* filled to the length n, and append, which may allocate more than is     *)
(* needed, grows it if it is too small.                                    *)
Get(t, n) ==
  /\ pc[t] = "idle"
  /\ puts < MaxPuts
  /\ puts' = puts + 1
  /\ \E c \in pool \cup {defaultSize} :
       \E k \in (IF n <= c THEN {c} ELSE {d \in Caps : n <= d}) :
         buff' = [buff EXCEPT ![t] = [len |-> n, cap |-> k]]
  /\ Goto(t, "put")
  /\ UNCHANGED <<calls, calibrating, defaultSize, maxSize, pool, i, a, chosen, basis>>

(* Put: the atomic add, whose result tells whether to calibrate.           *)
Put(t) ==
  LET n == buff[t].len
      c == index(n)
  IN  /\ pc[t] = "put"
      /\ calls' = [calls EXCEPT ![c] = [@ EXCEPT ![n] = @ + 1]]
      /\ Goto(t, IF Count(calls', c) > CallsThreshold THEN "calibrate" ELSE "keep")
      /\ UNCHANGED <<calibrating, defaultSize, maxSize, pool, buff, i, a, chosen, basis, puts>>

(* The end of Put: maxSize is loaded, and the buffer kept or dropped.      *)
PutKeep(t) ==
  /\ pc[t] = "keep"
  /\ pool' = IF maxSize = 0 \/ buff[t].cap <= maxSize THEN pool \cup {buff[t].cap} ELSE pool
  /\ buff' = [buff EXCEPT ![t] = [len |-> 0, cap |-> 0]]
  /\ Goto(t, "idle")
  /\ UNCHANGED <<calls, calibrating, defaultSize, maxSize, i, a, chosen, basis, puts>>

-----------------------------------------------------------------------------
(* calibrate: one goroutine at a time.                                     *)

CalibrateBegin(t) ==
  /\ pc[t] = "calibrate"
  /\ Goto(t, IF calibrating THEN "keep" ELSE "swap")
  /\ calibrating' = TRUE
  /\ UNCHANGED <<calls, defaultSize, maxSize, pool, buff, i, a, chosen, basis, puts>>

(* The counts of one class are taken and set to 0.                         *)
CalibrateSwap(t) ==
  /\ pc[t] = "swap"
  /\ a' = [a EXCEPT ![i] = calls[i]]
  /\ calls' = [calls EXCEPT ![i] = NoCalls]
  /\ i' = (i + 1) % Steps
  /\ Goto(t, IF i = Steps - 1 THEN "choose" ELSE "swap")
  /\ UNCHANGED <<calibrating, defaultSize, maxSize, pool, buff, chosen, basis, puts>>

(* The ways sort.Sort, which is not stable, may order the classes.         *)
Sorted ==
  {s \in [1..Steps -> Classes] :
     \A j, k \in 1..Steps : j < k => s[j] # s[k] /\ Count(a, s[j]) >= Count(a, s[k])}

(* Mutant: the loop stops at the percentile instead of beyond it.          *)
TakenEarly(s) ==
  {k \in 1..Steps : MapThenSumSet(LAMBDA j : Count(a, s[j]), 1..k - 1) < (Sum(a) * Percentile) \div 100}

(* The places of s that the second loop visits, before the calls of those  *)
(* already visited exceed the percentile.                                  *)
Taken(s) ==
  {k \in 1..Steps : MapThenSumSet(LAMBDA j : Count(a, s[j]), 1..k - 1) <= (Sum(a) * Percentile) \div 100}

CalibrateChoose(t) ==
  /\ pc[t] = "choose"
  /\ \E s \in Sorted :
       chosen' = [default |-> Size(s[1]), max |-> Max({Size(s[1])} \cup {Size(s[k]) : k \in Taken(s)})]
  /\ Goto(t, "storeDefault")
  /\ UNCHANGED <<calls, calibrating, defaultSize, maxSize, pool, buff, i, a, basis, puts>>

CalibrateStoreDefault(t) ==
  /\ pc[t] = "storeDefault"
  /\ defaultSize' = chosen.default
  /\ Goto(t, "storeMax")
  /\ UNCHANGED <<calls, calibrating, maxSize, pool, buff, i, a, chosen, basis, puts>>

CalibrateStoreMax(t) ==
  /\ pc[t] = "storeMax"
  /\ maxSize' = chosen.max
  /\ basis' = a
  /\ Goto(t, "release")
  /\ UNCHANGED <<calls, calibrating, defaultSize, pool, buff, i, a, chosen, puts>>

CalibrateEnd(t) ==
  /\ pc[t] = "release"
  /\ calibrating' = FALSE
  /\ chosen' = [default |-> 0, max |-> 0]
  /\ a' = [c \in Classes |-> NoCalls]
  /\ Goto(t, "keep")
  /\ UNCHANGED <<calls, defaultSize, maxSize, pool, buff, i, basis, puts>>

Next ==
  \E t \in Threads :
    \/ \E n \in Lens : Get(t, n)
    \/ Put(t) \/ PutKeep(t) \/ CalibrateBegin(t) \/ CalibrateSwap(t) \/ CalibrateChoose(t)
    \/ CalibrateStoreDefault(t) \/ CalibrateStoreMax(t) \/ CalibrateEnd(t)

Spec == Init /\ [][Next]_poolVars

-----------------------------------------------------------------------------
Largest == Size(Steps - 1)

(* How many of the buffers counted in f had a length of at most size; a    *)
(* length beyond every size was counted with the largest.                  *)
Covered(f, size) ==
  MapThenSumSet(LAMBDA c : SumFunctionOnSet(f[c], {n \in Lens : n <= size \/ size = Largest}), Classes)

(* When a calibration is over, with other calls of Put, and of calibrate,  *)
(* going on meanwhile: a new buffer is not too large to be kept; and if    *)
(* anything was counted, no size was put more often than the default one,  *)
(* and more than the percentile of the buffers counted had a length within *)
(* maxSize, or maxSize is the largest size there is.  This is not to say   *)
(* that they are kept: Put counts lengths and keeps by the capacity.       *)
Calibrated ==
  ~calibrating =>
    /\ defaultSize <= maxSize
    /\ Sum(basis) > 0 =>
         /\ \E c \in Classes : /\ Size(c) = defaultSize
                               /\ \A d \in Classes : Count(basis, d) <= Count(basis, c)
         /\ 100 * Covered(basis, maxSize) > Percentile * Sum(basis)
=============================================================================
