--------------------------- MODULE PoolLoops_proofs ----------------------------
(***************************************************************************)
(* Theorems about parallel loops, for every signed index type, every range *)
(* whose size does not overflow (DiffMax), any number of blocks and of     *)
(* threads.  Task i of a loop runs from Bound(i - 1) to Bound(i):          *)
(* the arithmetic below shows that the casts of class blocks compute these *)
(* bounds, which grow from `first` to `last`.  The invariant says that the *)
(* tasks submitted have them (Divided), what the loop function was called  *)
(* with (Executed), and what the futures mean (Futures, Waited).           *)
(***************************************************************************)
EXTENDS PoolLoops, FiniteSetTheorems, SequenceTheorems, TLAPS

Block == [start : Int, end : Int]
Clients == {"idle", "submit", "have", "get", "wait", "wait_for", "value", "error",
            "waited", "true", "false"}

LoopTypeOK ==
    /\ loop \in [kind : {"blocks", "sequence"}, first : Index, last : Index,
                 num : Nat, throws : Int]
    /\ client \in Clients /\ (client # "idle" => loop.num > 0)
    /\ next \in Int /\ clock \in Nat
    /\ submitted \in Seq(Block)
    /\ future \in Seq({"pending", "value", "error", "taken"})
    /\ Len(future) = Len(submitted)
    /\ ran \in [Index -> Nat]

\* The tasks a loop is divided into: how many, and where they end.
Count == IF loop.last <= loop.first THEN 0
         ELSE IF loop.kind = "blocks" THEN num_blocks ELSE loop.last - loop.first
Bound(i) == IF loop.kind = "blocks" THEN loop.first + i * block_size + Min2(i, remainder)
            ELSE loop.first + i

Divided ==
    /\ \A i \in DOMAIN submitted :
          submitted[i].start = Bound(i - 1) /\ submitted[i].end = Bound(i)
    /\ client = "idle" => submitted = <<>>
    /\ client = "submit" =>
          /\ Len(submitted) < Count
          /\ next = IF loop.kind = "blocks" THEN Len(submitted) ELSE loop.first + Len(submitted)
    /\ client \notin {"idle", "submit"} => Len(submitted) = Count

\* Does the loop function throw in a block, and which index is the last it
\* is called with there?
Fails(b) == loop.throws \in b.start..(b.end - 1)
To(b) == IF Fails(b) THEN loop.throws ELSE b.end - 1

\* Has task i called the loop function with k?
Called(i, k) == future[i] # "pending" /\ k \in submitted[i].start..To(submitted[i])

Executed ==
    \A k \in Index : ran[k] = IF \E i \in DOMAIN future : Called(i, k) THEN 1 ELSE 0

Futures ==
    /\ \A i \in DOMAIN future :
          /\ future[i] = "error" => Fails(submitted[i])
          /\ future[i] = "value" => ~Fails(submitted[i])
          /\ future[i] = "taken" /\ client \in {"get", "value"} => ~Fails(submitted[i])
    /\ client = "get" =>
          \A i \in DOMAIN future : i < next => future[i] = "taken"
    /\ client = "value" => \A i \in DOMAIN future : future[i] = "taken"

Waited ==
    /\ client \in {"wait", "wait_for", "get"} => next \in Nat \ {0}
    /\ client = "wait" => \A i \in DOMAIN future : i < next => IsReady(i)
    /\ client = "waited" => \A i \in DOMAIN future : IsReady(i)
    /\ client = "wait_for" =>
          \/ \A i \in DOMAIN future : i < next => IsReady(i)
          \/ clock = Duration
          \/ clock > Duration /\ next <= Len(future)
    /\ client = "true" => (\A i \in DOMAIN future : IsReady(i)) \/ clock = Duration

IInv == LoopTypeOK /\ Divided /\ Executed /\ Futures /\ Waited

-------------------------------------------------------------------------------
(* Arithmetic: division with remainder, and the casts to the index type.   *)

LEMMA Division ==
    ASSUME NEW d \in Nat, NEW n \in Nat \ {0}
    PROVE  d \div n \in Nat /\ d % n \in 0..(n - 1) /\ d = n * (d \div n) + (d % n)
<1>1. d \div n \in Int /\ d % n \in 0..(n - 1) /\ d = n * (d \div n) + (d % n)
  OBVIOUS
<1>2. ASSUME d \div n <= -1 PROVE FALSE
  <2>1. n * (d \div n) <= -n
    BY <1>1, <1>2
  <2> QED
    BY <1>1, <2>1
<1> QED
  BY <1>1, <1>2

\* A cast adds a multiple of the width ...
LEMMA CastAdds ==
    ASSUME NEW x \in Int PROVE \E k \in Int : Cast(x) = x + k * Width
<1>1. Width \in Nat \ {0} /\ Lowest \in Int
  BY LoopAssumption DEF Width, Lowest
<1>2. \A w \in Nat \ {0}, z \in Int : z % w = z - (z \div w) * w /\ z \div w \in Int
  OBVIOUS
<1> DEFINE z == x - Lowest
           d == z \div Width
<1>a. z \in Int
  BY <1>1
<1> HIDE DEF z
<1>3. d \in Int /\ z % Width = z - d * Width
  BY <1>1, <1>2, <1>a
<1> HIDE DEF d
<1>4. Cast(x) = x + (-d) * Width
  BY <1>1, <1>3 DEF Cast, z
<1> QED
  BY <1>3, <1>4

\* ... and gives the only index that differs by one from its argument.
LEMMA CastFinds ==
    ASSUME NEW y \in Index, NEW k \in Int PROVE Cast(y + k * Width) = y
<1>1. Width \in Nat \ {0} /\ Lowest \in Int /\ y \in Int /\ y - Lowest \in 0..(Width - 1)
  BY LoopAssumption DEF Width, Lowest, Index
<1>2. \A w \in Nat \ {0}, j \in Int : \A a \in 0..(w - 1) : (a + j * w) % w = a
  OBVIOUS
<1>3. (y - Lowest + k * Width) % Width = y - Lowest
  BY <1>1, <1>2
<1> QED
  BY <1>1, <1>3 DEF Cast

-------------------------------------------------------------------------------
(* The bounds of the tasks.                                                *)

\* A loop that has indices, as the invariant describes it.
Looping == LoopTypeOK /\ loop.num > 0 /\ loop.first < loop.last

\* The numbers class blocks computes, for a range of t and n blocks.
LEMMA Blocks ==
    ASSUME Looping, loop.kind = "blocks"
    PROVE  /\ num_blocks \in 1..(loop.last - loop.first) /\ Count = num_blocks
           /\ block_size \in Nat \ {0} /\ remainder \in 0..(num_blocks - 1)
           /\ loop.last - loop.first = num_blocks * block_size + remainder
<1>1. loop.first \in Int /\ loop.last \in Int /\ loop.num \in Nat
  BY LoopAssumption DEF Looping, LoopTypeOK, Index, Lowest
<1>2. num_blocks \in 1..(loop.last - loop.first) /\ loop.last - loop.first \in Nat
  BY <1>1 DEF Looping, num_blocks, Min2
<1>3. Count = num_blocks
  BY <1>1 DEF Looping, Count
<1>4. /\ block_size \in Nat /\ remainder \in 0..(num_blocks - 1)
      /\ loop.last - loop.first = num_blocks * block_size + remainder
  <2>1. num_blocks \in Nat \ {0}
    BY <1>2
  <2> QED
    BY <1>2, <2>1, Division DEF block_size, remainder
<1>5. block_size # 0
  BY <1>2, <1>4
<1> QED
  BY <1>2, <1>3, <1>4, <1>5

\* Each bound is at least one after the one before; blocks differ by one.
LEMMA BoundStep ==
    ASSUME Looping, NEW i \in 0..(Count - 1)
    PROVE  /\ Bound(i) \in Int
           /\ loop.kind = "blocks" =>
                Bound(i + 1) - Bound(i) = IF i < remainder THEN block_size + 1 ELSE block_size
           /\ loop.kind # "blocks" => Bound(i + 1) - Bound(i) = 1
<1>1. loop.first \in Int /\ loop.last \in Int /\ i \in Int
  BY LoopAssumption DEF Looping, LoopTypeOK, Index, Lowest
<1>2. CASE loop.kind = "blocks"
  <2>1. block_size \in Nat /\ remainder \in Nat
    BY <1>2, Blocks
  <2>2. (i + 1) * block_size = i * block_size + block_size /\ i * block_size \in Int
    BY <1>1, <2>1
  <2> QED
    BY <1>1, <1>2, <2>1, <2>2 DEF Bound, Min2
<1>3. CASE loop.kind # "blocks"
  BY <1>1, <1>3 DEF Bound
<1> QED
  BY <1>2, <1>3

LEMMA Bounds ==
    ASSUME Looping
    PROVE  /\ Count \in Nat \ {0}
           /\ Bound(0) = loop.first /\ Bound(Count) = loop.last
           /\ \A i, j \in 0..Count : /\ Bound(i) \in Index
                                     /\ i < j => Bound(i) < Bound(j)
<1>1. /\ loop.first \in Int /\ loop.last \in Int /\ loop.first < loop.last
      /\ \A x \in Int : loop.first <= x /\ x <= loop.last => x \in Index
  BY LoopAssumption DEF Looping, LoopTypeOK, Index, Lowest
<1>2. CASE loop.kind = "blocks"
  <2> DEFINE n == num_blocks
             q == block_size
             r == remainder
             f(i) == i * q + Min2(i, r)
  <2>1. /\ n \in Nat \ {0} /\ Count = n /\ q \in Nat \ {0} /\ r \in 0..(n - 1)
        /\ loop.last - loop.first = n * q + r
    BY <1>2, Blocks
  <2>2. \A i : Bound(i) = loop.first + i * q + Min2(i, r)
    BY <1>2 DEF Bound
  <2> HIDE DEF n, q, r
  <2>3. \A i, j \in 0..n : i < j => i * q < j * q
    <3> SUFFICES ASSUME NEW i \in 0..n, NEW j \in 0..n, i < j PROVE i * q < j * q
      OBVIOUS
    <3>1. j - i \in Nat /\ j - i >= 1
      BY <2>1
    <3>2. (j - i) * q >= q
      BY <2>1, <3>1
    <3>3. (j - i) * q = j * q - i * q
      BY <2>1
    <3> QED
      BY <2>1, <3>2, <3>3
  <2>4. \A i \in 0..n : i * q \in Int /\ Min2(i, r) \in Int
    BY <2>1 DEF Min2
  <2>5. \A i, j \in 0..n : i < j => Min2(i, r) <= Min2(j, r)
    BY <2>1 DEF Min2
  <2>6. \A i, j \in 0..n : i < j => Bound(i) < Bound(j)
    BY <1>1, <2>1, <2>2, <2>3, <2>4, <2>5
  <2>7. Bound(0) = loop.first /\ Bound(n) = loop.last
    <3>1. 0 * q = 0 /\ Min2(0, r) = 0 /\ Min2(n, r) = r
      BY <2>1 DEF Min2
    <3>2. Bound(0) = loop.first + 0 * q + Min2(0, r) /\ Bound(n) = loop.first + n * q + Min2(n, r)
      BY <2>2
    <3>3. n * q \in Int
      BY <2>1
    <3> QED
      BY <1>1, <2>1, <3>1, <3>2, <3>3
  <2>8. \A i \in 0..n : Bound(i) \in Int /\ loop.first <= Bound(i) /\ Bound(i) <= loop.last
    <3>1. \A i \in 0..n : Bound(i) \in Int
      BY <1>1, <2>2, <2>4
    <3> QED
      BY <1>1, <2>1, <2>6, <2>7, <3>1
  <2> QED
    BY <1>1, <2>1, <2>6, <2>7, <2>8
<1>3. CASE loop.kind # "blocks"
  <2>1. \A i : Bound(i) = loop.first + i
    BY <1>3 DEF Bound
  <2>2. Count = loop.last - loop.first
    BY <1>1, <1>3 DEF Count
  <2> QED
    BY <1>1, <2>1, <2>2
<1> QED
  BY <1>2, <1>3

\* What the casts of start() and end() leave is the bound.
LEMMA StartIsBound ==
    ASSUME Looping, loop.kind = "blocks", NEW b \in 0..(Count - 1)
    PROVE  start(b) = Bound(b) /\ end(b) = Bound(b + 1)
<1>1. ASSUME NEW c \in 0..(Count - 1) PROVE start(c) = Bound(c)
  <2>1. /\ loop.first \in Int /\ c \in Int /\ block_size \in Int /\ remainder \in Int
        /\ c * block_size \in Int /\ Min2(c, remainder) \in Int /\ Width \in Int
    <3>1. block_size \in Int /\ remainder \in Int /\ Count \in Int
      BY Blocks, Bounds
    <3>2. c \in Int /\ c * block_size \in Int /\ Min2(c, remainder) \in Int
      BY <3>1 DEF Min2
    <3>3. loop.first \in Int /\ Width \in Int
      BY LoopAssumption DEF Looping, LoopTypeOK, Index, Lowest, Width
    <3> QED
      BY <3>1, <3>2, <3>3
  <2>2. PICK k \in Int : Cast(c * block_size) = c * block_size + k * Width
    BY <2>1, CastAdds
  <2>3. PICK l \in Int : Cast(Min2(c, remainder)) = Min2(c, remainder) + l * Width
    BY <2>1, CastAdds
  <2>4. (k + l) * Width = k * Width + l * Width /\ k * Width \in Int /\ l * Width \in Int
    BY <2>1
  <2>5. loop.first + Cast(c * block_size) + Cast(Min2(c, remainder)) = Bound(c) + (k + l) * Width
    BY <2>1, <2>2, <2>3, <2>4 DEF Bound
  <2>6. Bound(c) \in Index /\ k + l \in Int
    BY Bounds
  <2> QED
    BY <2>5, <2>6, CastFinds DEF start
<1>2. Count \in Nat \ {0} /\ Count = num_blocks /\ Bound(Count) = loop.last
  BY Bounds, Blocks
<1>3. CASE b = num_blocks - 1
  BY <1>1, <1>2, <1>3 DEF end
<1>4. CASE b # num_blocks - 1
  BY <1>1, <1>2, <1>4 DEF end
<1> QED
  BY <1>1, <1>3, <1>4

\* The larger blocks come first, so an index is found by one of two divisions.
LEMMA Found ==
    ASSUME NEW n \in Nat \ {0}, NEW q \in Nat \ {0}, NEW r \in 0..(n - 1),
           NEW d \in 0..(n * q + r - 1)
    PROVE  \E c \in 0..(n - 1) :
              /\ c * q + Min2(c, r) <= d
              /\ d < (c + 1) * q + Min2(c + 1, r)
<1>0. n * q \in Nat /\ r * q \in Nat /\ d \in Nat
  OBVIOUS
<1>1. CASE d < r * q + r
  <2> DEFINE c == d \div (q + 1)
             m == d % (q + 1)
  <2>1. c \in Nat /\ m \in 0..q /\ d = (q + 1) * c + m
    <3>1. q + 1 \in Nat \ {0} /\ (q + 1) - 1 = q
      OBVIOUS
    <3> QED
      BY <1>0, <3>1, Division
  <2> c \in Nat /\ m \in Nat
    BY <2>1
  <2> HIDE DEF c, m
  <2>2. (q + 1) * c = c * q + c /\ (c + 1) * q = c * q + q /\ c * q \in Nat
    OBVIOUS
  <2>3. c < r
    <3>1. ASSUME c >= r PROVE FALSE
      <4>1. (c - r) * q >= 0 /\ (c - r) * q = c * q - r * q
        BY <3>1
      <4> QED
        BY <1>0, <1>1, <2>1, <2>2, <3>1, <4>1
    <3> QED
      BY <3>1
  <2> QED
    BY <1>0, <2>1, <2>2, <2>3 DEF Min2
<1>2. CASE d >= r * q + r
  <2> DEFINE c == (d - r) \div q
             m == (d - r) % q
  <2>1. c \in Nat /\ m \in 0..(q - 1) /\ d - r = q * c + m
    <3>1. d - r \in Nat
      BY <1>0, <1>2
    <3> QED
      BY <3>1, Division
  <2> c \in Nat /\ m \in Nat
    BY <2>1
  <2> HIDE DEF c, m
  <2>2. q * c = c * q /\ (c + 1) * q = c * q + q /\ c * q \in Nat
    OBVIOUS
  <2>3. c >= r
    <3>1. ASSUME c < r PROVE FALSE
      <4>1. (r - c) * q >= q /\ (r - c) * q = r * q - c * q
        <5>1. (r - c - 1) * q >= 0 /\ (r - c - 1) * q = r * q - c * q - q
          BY <3>1
        <5>2. (r - c) * q = r * q - c * q
          OBVIOUS
        <5> QED
          BY <1>0, <2>2, <5>1, <5>2
      <4> QED
        BY <1>0, <1>2, <2>1, <2>2, <4>1
    <3> QED
      BY <3>1
  <2>4. c < n
    <3>1. ASSUME c >= n PROVE FALSE
      <4>1. (c - n) * q >= 0 /\ (c - n) * q = c * q - n * q
        BY <3>1
      <4> QED
        BY <1>0, <2>1, <2>2, <4>1
    <3> QED
      BY <3>1
  <2> QED
    BY <1>0, <2>1, <2>2, <2>3, <2>4 DEF Min2
<1> QED
  BY <1>0, <1>1, <1>2

\* Every index of the loop is in exactly one task.
LEMMA OneTask ==
    ASSUME Looping, NEW k \in loop.first..(loop.last - 1)
    PROVE  \E i \in 1..Count : Bound(i - 1) <= k /\ k < Bound(i)
<1>1. loop.first \in Int /\ loop.last \in Int /\ loop.first < loop.last
  BY LoopAssumption DEF Looping, LoopTypeOK, Index, Lowest
<1>2. CASE loop.kind = "blocks"
  <2> DEFINE n == num_blocks
             q == block_size
             r == remainder
  <2>1. /\ n \in Nat \ {0} /\ Count = n /\ q \in Nat \ {0} /\ r \in 0..(n - 1)
        /\ loop.last - loop.first = n * q + r
    BY <1>2, Blocks
  <2>2. \A i : Bound(i) = loop.first + i * q + Min2(i, r)
    BY <1>2 DEF Bound
  <2> HIDE DEF n, q, r
  <2>3. k - loop.first \in 0..(n * q + r - 1)
    BY <1>1, <2>1
  <2>4. PICK c \in 0..(n - 1) : /\ c * q + Min2(c, r) <= k - loop.first
                                /\ k - loop.first < (c + 1) * q + Min2(c + 1, r)
    BY <2>1, <2>3, Found
  <2>5. /\ c * q \in Int /\ (c + 1) * q \in Int /\ Min2(c, r) \in Int /\ Min2(c + 1, r) \in Int
        /\ c + 1 \in 1..Count /\ (c + 1) - 1 = c
    BY <2>1 DEF Min2
  <2>6. Bound((c + 1) - 1) <= k /\ k < Bound(c + 1)
    BY <1>1, <2>2, <2>4, <2>5
  <2> QED
    BY <2>5, <2>6
<1>3. CASE loop.kind # "blocks"
  <2>1. Count = loop.last - loop.first /\ \A i : Bound(i) = loop.first + i
    BY <1>1, <1>3 DEF Count, Bound
  <2>2. k - loop.first + 1 \in 1..Count
    BY <1>1, <2>1
  <2> QED
    BY <1>1, <2>1, <2>2
<1> QED
  BY <1>2, <1>3

LEMMA OnlyTask ==
    ASSUME Looping, NEW i \in 1..Count, NEW j \in 1..Count, NEW k \in Int,
           Bound(i - 1) <= k, k < Bound(i), Bound(j - 1) <= k, k < Bound(j)
    PROVE  i = j
<1>1. \A m, n \in 0..Count : Bound(m) \in Int /\ (m < n => Bound(m) < Bound(n))
  BY Bounds, LoopAssumption DEF Index, Lowest
<1>2. Count \in Nat
  BY Bounds
<1>3. CASE i < j
  <2>1. i = j - 1 \/ i < j - 1
    BY <1>2, <1>3
  <2>2. Bound(i) <= Bound(j - 1)
    BY <1>1, <1>2, <1>3, <2>1
  <2> QED
    BY <1>1, <1>2, <2>2
<1>4. CASE j < i
  <2>1. j = i - 1 \/ j < i - 1
    BY <1>2, <1>4
  <2>2. Bound(j) <= Bound(i - 1)
    BY <1>1, <1>2, <1>4, <2>1
  <2> QED
    BY <1>1, <1>2, <2>2
<1> QED
  BY <1>2, <1>3, <1>4

-------------------------------------------------------------------------------
(* The invariant.                                                          *)

LEMMA Shapes ==
    ASSUME LoopTypeOK
    PROVE  /\ Len(submitted) \in Nat
           /\ DOMAIN submitted = 1..Len(submitted) /\ DOMAIN future = 1..Len(submitted)
           /\ \A i \in DOMAIN future :
                 /\ submitted[i].start \in Int /\ submitted[i].end \in Int
                 /\ future[i] \in {"pending", "value", "error", "taken"}
<1>1. /\ submitted \in [1..Len(submitted) -> Block] /\ Len(submitted) \in Nat
      /\ DOMAIN submitted = 1..Len(submitted)
  BY LenProperties DEF LoopTypeOK
<1>2. /\ future \in [1..Len(future) -> {"pending", "value", "error", "taken"}]
      /\ DOMAIN future = 1..Len(future)
  BY LenProperties DEF LoopTypeOK
<1> QED
  BY <1>1, <1>2 DEF LoopTypeOK, Block

\* A loop that has tasks has indices.
LEMMA HasTasks ==
    ASSUME LoopTypeOK, Divided, DOMAIN future # {}
    PROVE  Looping /\ DOMAIN future \subseteq 1..Count
<1>1. Len(submitted) \in Nat \ {0} /\ DOMAIN future = 1..Len(submitted)
  BY Shapes
<1>2. client # "idle" /\ Len(submitted) <= Count
  <2>1. client # "idle"
    BY <1>1, Len(<<>>) = 0 DEF Divided
  <2>2. CASE client = "submit"
    <3>1. Count \in Int
      <4>1. loop.first \in Int /\ loop.last \in Int /\ loop.num \in Int
        BY LoopAssumption DEF LoopTypeOK, Index, Lowest
      <4> QED
        BY <4>1 DEF Count, num_blocks, Min2
    <3> QED
      BY <1>1, <2>2, <3>1 DEF Divided
  <2>3. CASE client # "submit"
    BY <1>1, <2>1, <2>3 DEF Divided
  <2> QED
    BY <2>1, <2>2, <2>3
<1>3. loop.first < loop.last
  <2>1. loop.first \in Int /\ loop.last \in Int
    BY LoopAssumption DEF LoopTypeOK, Index, Lowest
  <2> QED
    BY <1>1, <1>2, <2>1 DEF Count
<1>4. Looping
  BY <1>2, <1>3 DEF Looping, LoopTypeOK
<1> QED
  BY <1>1, <1>2, <1>4, Bounds

LEMMA SameLoop ==
    ASSUME UNCHANGED loop
    PROVE  Count' = Count /\ \A i : Bound(i)' = Bound(i)
BY DEF Count, Bound, num_blocks, block_size, remainder

LEMMA InitIInv == LoopInit => IInv
<1> SUFFICES ASSUME LoopInit PROVE IInv
  OBVIOUS
<1>1. <<>> \in Seq(Block) /\ <<>> \in Seq({"pending", "value", "error", "taken"})
  BY EmptySeq
<1>2. Len(submitted) = 0 /\ Len(future) = 0 /\ DOMAIN submitted = {} /\ DOMAIN future = {}
  BY DEF LoopInit
<1>3. 0 \in Index
  BY LoopAssumption DEF Index, Lowest
<1>4. LoopTypeOK
  BY <1>1, <1>2, <1>3 DEF LoopInit, LoopTypeOK, NoLoop, Clients
<1>5. Divided
  BY <1>2 DEF LoopInit, Divided
<1>6. Executed
  BY <1>2 DEF LoopInit, Executed
<1>7. Futures /\ Waited
  BY <1>2 DEF LoopInit, Futures, Waited
<1> QED
  BY <1>4, <1>5, <1>6, <1>7 DEF IInv

\* A call on the futures that runs no task leaves the blocks as they are.
LEMMA Frame ==
    ASSUME IInv, UNCHANGED <<loop, submitted, future, ran>>,
           client \notin {"idle", "submit"}, client' \in Clients \ {"idle", "submit"},
           next' \in Int, clock' \in Nat
    PROVE  LoopTypeOK' /\ Divided' /\ Executed'
<1>1. Count' = Count /\ \A i : Bound(i)' = Bound(i)
  BY SameLoop
<1>2. LoopTypeOK'
  BY DEF IInv, LoopTypeOK
<1>3. Divided'
  BY <1>1 DEF IInv, Divided
<1>4. Executed'
  BY DEF IInv, Executed, Called, To, Fails
<1> QED
  BY <1>2, <1>3, <1>4

LEMMA SubmitStep ==
    ASSUME IInv, NEW kind \in {"blocks", "sequence"}, NEW first \in Index, NEW last \in Index,
           NEW num \in Nat, NEW throws \in first..(last - 1) \cup {Never},
           Submit(kind, first, last, num, throws)
    PROVE  IInv'
<1>1. /\ submitted' = submitted /\ future' = future /\ ran' = ran /\ clock' = clock
      /\ client' \in {"submit", "have"}
      /\ loop' = [kind |-> kind, first |-> first, last |-> last,
                  num |-> IF num = 0 THEN thread_count ELSE num, throws |-> throws]
      /\ next' = IF kind = "sequence" THEN first ELSE 0
      /\ client' = IF last > first THEN "submit" ELSE "have"
      /\ submitted = <<>>
  BY DEF Submit, IInv, Divided
<1>2. Len(submitted) = 0 /\ Len(future) = 0 /\ DOMAIN submitted = {} /\ DOMAIN future = {}
  BY <1>1, Shapes DEF IInv, LoopTypeOK
<1>3. first \in Int /\ last \in Int /\ throws \in Int
  BY LoopAssumption DEF Index, Lowest, Never
<1>4. loop'.num \in Nat \ {0}
  BY <1>1, LoopAssumption
<1>5. LoopTypeOK'
  BY <1>1, <1>3, <1>4 DEF IInv, LoopTypeOK, Clients
<1>6. Divided'
  <2>1. /\ loop'.kind = kind /\ loop'.first = first /\ loop'.last = last
    BY <1>1
  <2>2. CASE last > first
    <3>1. 0 < Count'
      BY <1>3, <1>4, <2>1, <2>2 DEF Count, num_blocks, Min2
    <3> QED
      BY <1>1, <1>2, <1>3, <2>1, <2>2, <3>1 DEF Divided
  <2>3. CASE ~(last > first)
    <3>1. Count' = 0
      BY <1>3, <2>1, <2>3 DEF Count
    <3> QED
      BY <1>1, <1>2, <2>3, <3>1 DEF Divided
  <2> QED
    BY <2>2, <2>3
<1>7. Executed'
  BY <1>1, <1>2 DEF IInv, Executed
<1>8. Futures' /\ Waited'
  BY <1>1, <1>2 DEF Futures, Waited
<1> QED
  BY <1>5, <1>6, <1>7, <1>8 DEF IInv

\* A new task is pending, so nothing has been called for it yet.
LEMMA TaskStep ==
    ASSUME IInv, NEW block \in Block, SubmitTask(block),
           block.start = Bound(Len(submitted)), block.end = Bound(Len(submitted) + 1),
           client' \in {"submit", "have"}, next' \in Int
    PROVE  /\ LoopTypeOK' /\ Executed' /\ Futures' /\ Waited'
           /\ Len(submitted') = Len(submitted) + 1
           /\ \A i \in DOMAIN submitted' :
                 submitted'[i].start = Bound(i - 1) /\ submitted'[i].end = Bound(i)
<1> DEFINE n == Len(submitted)
<1>1. /\ client = "submit" /\ loop' = loop /\ ran' = ran /\ clock' = clock
      /\ submitted' = Append(submitted, block) /\ future' = Append(future, "pending")
  BY DEF SubmitTask
<1>2. /\ n \in Nat /\ DOMAIN submitted = 1..n /\ DOMAIN future = 1..n /\ Len(future) = n
  BY Shapes DEF IInv, LoopTypeOK
<1>3. /\ submitted' \in Seq(Block) /\ Len(submitted') = n + 1
      /\ \A i \in 1..n : submitted'[i] = submitted[i]
      /\ submitted'[n + 1] = block
  BY <1>1, AppendProperties DEF IInv, LoopTypeOK
<1>4. /\ future' \in Seq({"pending", "value", "error", "taken"}) /\ Len(future') = n + 1
      /\ \A i \in 1..n : future'[i] = future[i]
      /\ future'[n + 1] = "pending"
  BY <1>1, <1>2, AppendProperties DEF IInv, LoopTypeOK
<1>5. DOMAIN submitted' = 1..(n + 1) /\ DOMAIN future' = 1..(n + 1)
  BY <1>3, <1>4, LenProperties
<1> HIDE DEF n
<1>6. LoopTypeOK'
  BY <1>1, <1>3, <1>4 DEF IInv, LoopTypeOK, Clients
<1>7. \A i \in DOMAIN submitted' :
          submitted'[i].start = Bound(i - 1) /\ submitted'[i].end = Bound(i)
  <2> SUFFICES ASSUME NEW i \in DOMAIN submitted'
               PROVE  submitted'[i].start = Bound(i - 1) /\ submitted'[i].end = Bound(i)
    OBVIOUS
  <2>1. CASE i \in 1..n
    BY <1>2, <1>3, <2>1 DEF IInv, Divided
  <2>2. CASE i \notin 1..n
    <3>1. i = n + 1 /\ i - 1 = n
      BY <1>2, <1>5, <2>2
    <3> QED
      BY <1>3, <3>1 DEF n
  <2> QED
    BY <2>1, <2>2
<1>8. Executed'
  <2>1. \A k : (\E i \in DOMAIN future : Called(i, k)) <=> (\E i \in DOMAIN future' : Called(i, k)')
    BY <1>1, <1>2, <1>3, <1>4, <1>5 DEF Called, To, Fails
  <2> QED
    BY <1>1, <2>1 DEF IInv, Executed
<1>9. Futures'
  BY <1>1, <1>2, <1>3, <1>4, <1>5 DEF IInv, Futures, Fails
<1>10. Waited'
  BY <1>1 DEF Waited
<1> QED
  BY <1>3, <1>6, <1>7, <1>8, <1>9, <1>10 DEF n

LEMMA SubmitTaskStep == ASSUME IInv, SubmitBlock \/ SubmitIndex PROVE IInv'
<1> DEFINE n == Len(submitted)
           block == IF loop.kind = "blocks" THEN [start |-> start(next), end |-> end(next)]
                    ELSE [start |-> next, end |-> next + 1]
<1>1. /\ client = "submit" /\ SubmitTask(block) /\ next' = next + 1 /\ loop' = loop
      /\ client' \in {"submit", "have"}
      /\ loop.kind = "blocks" =>
            client' = IF next + 1 < num_blocks THEN "submit" ELSE "have"
      /\ loop.kind # "blocks" =>
            client' = IF next + 1 < loop.last THEN "submit" ELSE "have"
  BY DEF SubmitBlock, SubmitIndex, SubmitTask
<1>2. /\ n \in Nat /\ n < Count
      /\ next = IF loop.kind = "blocks" THEN n ELSE loop.first + n
  BY <1>1, Shapes DEF IInv, Divided
<1>3. loop.first \in Int /\ loop.last \in Int /\ loop.num \in Nat \ {0}
  BY <1>1, LoopAssumption DEF IInv, LoopTypeOK, Index, Lowest
<1>4. Looping
  BY <1>2, <1>3 DEF IInv, Looping, Count
<1>5. Count \in Nat \ {0} /\ n \in 0..(Count - 1)
  BY <1>2, <1>4, Bounds
<1>6. Bound(n) \in Int /\ Bound(n + 1) \in Int
  BY <1>5, <1>4, Bounds, LoopAssumption DEF Index, Lowest
<1>7. block.start = Bound(n) /\ block.end = Bound(n + 1)
  <2>1. CASE loop.kind = "blocks"
    <3>1. next = n
      BY <1>2, <2>1
    <3>2. start(n) = Bound(n) /\ end(n) = Bound(n + 1)
      BY <1>4, <1>5, <2>1, StartIsBound
    <3> HIDE DEF n
    <3> QED
      BY <2>1, <3>1, <3>2
  <2>2. CASE loop.kind # "blocks"
    BY <1>2, <1>3, <2>2 DEF Bound
  <2> QED
    BY <2>1, <2>2
<1>8. block = [start |-> Bound(n), end |-> Bound(n + 1)]
  BY <1>7
<1> HIDE DEF block
<1>9. block \in Block
  BY <1>6, <1>8 DEF Block
<1>10. next' \in Int
  BY <1>1 DEF IInv, LoopTypeOK
<1>11. /\ LoopTypeOK' /\ Executed' /\ Futures' /\ Waited'
       /\ Len(submitted') = n + 1
       /\ \A i \in DOMAIN submitted' :
             submitted'[i].start = Bound(i - 1) /\ submitted'[i].end = Bound(i)
  BY <1>1, <1>7, <1>9, <1>10, TaskStep
<1>12. Count' = Count /\ \A i : Bound(i)' = Bound(i)
  BY <1>1, SameLoop
<1>13. Count = IF loop.kind = "blocks" THEN num_blocks ELSE loop.last - loop.first
  BY <1>3, <1>4 DEF Count, Looping
<1> HIDE DEF n
<1>14. /\ client' = IF n + 1 < Count THEN "submit" ELSE "have"
  BY <1>1, <1>2, <1>3, <1>13
<1>15. next' = IF loop.kind = "blocks" THEN n + 1 ELSE loop.first + (n + 1)
  BY <1>1, <1>2, <1>3
<1>16. Divided'
  <2>1. \A i \in DOMAIN submitted' :
          submitted'[i].start = Bound(i - 1)' /\ submitted'[i].end = Bound(i)'
    BY <1>11, <1>12
  <2> QED
    BY <1>1, <1>5, <1>11, <1>12, <1>14, <1>15, <2>1 DEF Divided
<1> QED
  BY <1>11, <1>16 DEF IInv

\* A task calls the loop function with indices no other task has.
LEMMA RunStep == ASSUME IInv, NEW i \in DOMAIN future, Run(i) PROVE IInv'
<1> DEFINE b == submitted[i]
           to == To(b)
           indices == b.start..to
<1>1. /\ future[i] = "pending" /\ loop' = loop /\ submitted' = submitted
      /\ client' = client /\ next' = next /\ clock' = clock
      /\ ran' = [k \in Index |-> ran[k] + IF k \in indices THEN 1 ELSE 0]
      /\ future' = [future EXCEPT ![i] = IF Fails(b) THEN "error" ELSE "value"]
  BY DEF Run, To, Fails
<1>2. /\ DOMAIN future = 1..Len(future) /\ DOMAIN submitted = DOMAIN future
      /\ future' \in Seq({"pending", "value", "error", "taken"}) /\ Len(future') = Len(future)
      /\ DOMAIN future' = DOMAIN future
      /\ \A j \in DOMAIN future :
            future'[j] = IF j = i THEN IF Fails(b) THEN "error" ELSE "value" ELSE future[j]
  <2>1. future \in Seq({"pending", "value", "error", "taken"}) /\ Len(future) = Len(submitted)
    BY DEF IInv, LoopTypeOK
  <2>2. DOMAIN future = 1..Len(future) /\ DOMAIN submitted = DOMAIN future
    BY <2>1, Shapes DEF IInv
  <2>3. (IF Fails(b) THEN "error" ELSE "value") \in {"pending", "value", "error", "taken"}
    OBVIOUS
  <2> HIDE DEF b
  <2> QED
    BY <1>1, <2>1, <2>2, <2>3, ExceptSeq, LenProperties
<1>3. \A j \in DOMAIN future : submitted[j].start \in Int /\ submitted[j].end \in Int
  BY Shapes DEF IInv
<1>4. LoopTypeOK'
  <2>1. \A k \in Index : ran[k] \in Nat
    BY DEF IInv, LoopTypeOK
  <2>2. ran' \in [Index -> Nat]
    BY <1>1, <2>1
  <2> HIDE DEF indices, b, to
  <2> QED
    BY <1>1, <1>2, <2>2 DEF IInv, LoopTypeOK
<1>5. Divided'
  <2>1. Count' = Count /\ \A j : Bound(j)' = Bound(j)
    BY <1>1, SameLoop
  <2> QED
    BY <1>1, <2>1 DEF IInv, Divided
<1>6. ASSUME NEW j \in DOMAIN future, NEW k \in Int, Called(j, k)
      PROVE  j # i /\ k \notin indices
  <2>1. j # i
    BY <1>1, <1>6 DEF Called
  <2>2. Looping /\ i \in 1..Count /\ j \in 1..Count
    BY HasTasks DEF IInv
  <2>3. /\ submitted[j].start = Bound(j - 1) /\ submitted[j].end = Bound(j)
        /\ b.start = Bound(i - 1) /\ b.end = Bound(i)
    BY <1>2 DEF IInv, Divided
  <2>4. submitted[j].start <= k /\ k < submitted[j].end
    BY <1>3, <1>6 DEF Called, To, Fails
  <2>5. ASSUME k \in indices PROVE FALSE
    <3>1. b.start <= k /\ k < b.end
      BY <1>3, <2>5 DEF To, Fails
    <3> QED
      BY <2>1, <2>2, <2>3, <2>4, <3>1, OnlyTask
  <2> QED
    BY <2>1, <2>5
<1>7. ASSUME NEW j \in DOMAIN future, NEW k
      PROVE  Called(j, k)' <=> Called(j, k) \/ (j = i /\ k \in indices)
  <2>1. To(submitted[j])' = To(submitted[j])
    BY <1>1 DEF To, Fails
  <2>2. CASE j = i
    BY <1>1, <1>2, <2>1, <2>2 DEF Called
  <2>3. CASE j # i
    BY <1>1, <1>2, <2>1, <2>3 DEF Called
  <2> QED
    BY <2>2, <2>3
<1>8. Executed'
  <2> SUFFICES ASSUME NEW k \in Index
               PROVE  ran'[k] = IF \E j \in DOMAIN future' : Called(j, k)' THEN 1 ELSE 0
    BY DEF Executed
  <2>1. k \in Int /\ ran'[k] = ran[k] + IF k \in indices THEN 1 ELSE 0
    BY <1>1, LoopAssumption DEF Index, Lowest
  <2>2. ran[k] = IF \E j \in DOMAIN future : Called(j, k) THEN 1 ELSE 0
    BY DEF IInv, Executed
  <2>3. (\E j \in DOMAIN future' : Called(j, k)')
           <=> (\E j \in DOMAIN future : Called(j, k)) \/ k \in indices
    BY <1>2, <1>7
  <2>4. k \in indices => ~ \E j \in DOMAIN future : Called(j, k)
    BY <1>6, <2>1
  <2> HIDE DEF indices
  <2> QED
    BY <2>1, <2>2, <2>3, <2>4
<1>9. Futures'
  <2>1. \A j \in DOMAIN future : Fails(submitted[j])' <=> Fails(submitted[j])
    BY <1>1 DEF Fails
  <2>2. client # "value" /\ (client = "get" => ~(i < next))
    BY <1>1 DEF IInv, Futures
  <2> HIDE DEF to, indices
  <2> QED
    BY <1>1, <1>2, <2>1, <2>2 DEF IInv, Futures
<1>10. Waited'
  <2>1. \A j \in DOMAIN future : IsReady(j) => IsReady(j)'
    BY <1>1, <1>2 DEF IsReady
  <2> HIDE DEF b, to, indices
  <2> QED
    BY <1>1, <1>2, <2>1 DEF IInv, Waited
<1> QED
  BY <1>4, <1>5, <1>8, <1>9, <1>10 DEF IInv

LEMMA StartStep == ASSUME IInv, NEW member \in Member, Start(member) PROVE IInv'
<1>1. /\ client = "have" /\ client' = member /\ next' = 1 /\ clock' = 0
      /\ UNCHANGED <<loop, submitted, future, ran>>
      /\ \A i \in DOMAIN future : future[i] # "taken"
  BY DEF Start, valid
<1>2. DOMAIN future \subseteq Nat \ {0}
  BY Shapes DEF IInv
<1>3. LoopTypeOK' /\ Divided' /\ Executed'
  BY <1>1, Frame DEF Member, Clients
<1>4. Futures'
  BY <1>1, <1>2 DEF IInv, Futures, Fails, Member
<1>5. Waited'
  BY <1>1, <1>2 DEF Waited, IsReady, Member
<1> QED
  BY <1>3, <1>4, <1>5 DEF IInv

LEMMA GetStep == ASSUME IInv, GetNext PROVE IInv'
<1>1. client = "get" /\ UNCHANGED <<loop, submitted, ran, clock>>
  BY DEF GetNext
<1>2. next \in Nat \ {0} /\ DOMAIN future = 1..Len(future) /\ Len(future) \in Nat
  BY <1>1, Shapes DEF IInv, Waited, LoopTypeOK
<1>3. CASE next > Len(future) /\ Finish("value") /\ UNCHANGED future
  <2>1. LoopTypeOK' /\ Divided' /\ Executed'
    BY <1>1, <1>2, <1>3, Frame DEF Finish, Clients, IInv, LoopTypeOK
  <2>2. \A i \in DOMAIN future : future[i] = "taken"
    BY <1>1, <1>2, <1>3 DEF IInv, Futures
  <2>3. Futures' /\ Waited'
    BY <1>1, <1>3, <2>2 DEF IInv, Futures, Waited, Finish, Fails
  <2> QED
    BY <2>1, <2>3 DEF IInv
<1>4. CASE /\ next <= Len(future) /\ IsReady(next)
           /\ future' = [future EXCEPT ![next] = "taken"]
           /\ \/ future[next] = "value" /\ next' = next + 1 /\ UNCHANGED client
              \/ future[next] = "error" /\ Finish("error")
  <2>1. /\ next \in DOMAIN future
        /\ future' \in Seq({"pending", "value", "error", "taken"}) /\ Len(future') = Len(future)
        /\ DOMAIN future' = DOMAIN future
        /\ \A j \in DOMAIN future : future'[j] = IF j = next THEN "taken" ELSE future[j]
    BY <1>2, <1>4, ExceptSeq, LenProperties DEF IInv, LoopTypeOK
  <2>2. future[next] # "pending"
    BY <1>4 DEF IsReady
  <2>3. LoopTypeOK'
    BY <1>1, <1>2, <1>4, <2>1 DEF IInv, LoopTypeOK, Clients, Finish
  <2>4. Divided'
    <3>1. Count' = Count /\ \A j : Bound(j)' = Bound(j)
      BY <1>1, SameLoop
    <3> QED
      BY <1>1, <1>4, <3>1 DEF IInv, Divided, Finish
  <2>5. Executed'
    <3>1. \A k : \A j \in DOMAIN future : Called(j, k)' <=> Called(j, k)
      BY <1>1, <2>1, <2>2 DEF Called, To, Fails
    <3> QED
      BY <1>1, <2>1, <3>1 DEF IInv, Executed
  <2>6. Futures' /\ Waited'
    <3>1. \A j \in DOMAIN future : Fails(submitted[j])' <=> Fails(submitted[j])
      BY <1>1 DEF Fails
    <3> QED
      BY <1>1, <1>2, <1>4, <2>1, <3>1 DEF IInv, Futures, Waited, Finish
  <2> QED
    BY <2>3, <2>4, <2>5, <2>6 DEF IInv
<1> QED
  BY <1>3, <1>4 DEF GetNext

LEMMA WaitStep == ASSUME IInv, WaitNext \/ WaitForNext \/ Again \/ Tick PROVE IInv'
<1>1. UNCHANGED <<loop, submitted, future, ran>>
  BY DEF WaitNext, WaitForNext, Again, Tick
<1>2. /\ DOMAIN future = 1..Len(future) /\ Len(future) \in Nat
      /\ next \in Int /\ clock \in Nat /\ Duration \in Nat
  BY Shapes, LoopAssumption DEF IInv, LoopTypeOK
<1>3. LoopTypeOK' /\ Divided' /\ Executed'
  <2>1. client \in {"wait", "wait_for", "waited", "true", "false"}
    BY DEF WaitNext, WaitForNext, Again, Tick
  <2>2. client' \in {"wait", "wait_for", "waited", "true", "false", "have"}
    BY DEF WaitNext, WaitForNext, Again, Tick, Finish
  <2>3. next' \in Int /\ clock' \in Nat
    BY <1>2 DEF WaitNext, WaitForNext, Again, Tick, Finish
  <2> QED
    BY <1>1, <2>1, <2>2, <2>3, Frame DEF Clients
<1>4. Futures'
  <2>1. client' \notin {"get", "value"}
    BY DEF WaitNext, WaitForNext, Again, Tick, Finish
  <2> QED
    BY <1>1, <2>1 DEF IInv, Futures, Fails
<1>5. \A i \in DOMAIN future : IsReady(i)' <=> IsReady(i)
  BY <1>1 DEF IsReady
<1>6. Waited'
  <2>1. CASE WaitNext
    BY <1>1, <1>2, <1>5, <2>1 DEF WaitNext, Finish, IInv, Waited
  <2>2. CASE WaitForNext
    BY <1>1, <1>2, <1>5, <2>2 DEF WaitForNext, Finish, TimeOver, IInv, Waited
  <2>3. CASE Again
    BY <2>3 DEF Again, Waited
  <2>4. CASE Tick
    BY <1>1, <1>2, <1>5, <2>4 DEF Tick, IInv, Waited
  <2> QED
    BY <2>1, <2>2, <2>3, <2>4
<1> QED
  BY <1>3, <1>4, <1>6 DEF IInv

LEMMA StutterStep == ASSUME IInv, UNCHANGED loopVars PROVE IInv'
<1>1. UNCHANGED <<loop, submitted, future, ran, client, next, clock>>
  BY DEF loopVars
<1>2. Count' = Count /\ \A j : Bound(j)' = Bound(j)
  BY <1>1, SameLoop
<1>3. Executed'
  BY <1>1 DEF IInv, Executed, Called, To, Fails
<1> QED
  BY <1>1, <1>2, <1>3 DEF IInv, LoopTypeOK, Divided, Futures, Fails, Waited, IsReady

LEMMA StepIInv == IInv /\ [LoopNext]_loopVars => IInv'
<1> SUFFICES ASSUME IInv, [LoopNext]_loopVars PROVE IInv'
  OBVIOUS
<1>1. CASE \E first, last \in Index : \E throws \in first..(last - 1) \cup {Never} :
             \/ \E num \in 0..MaxBlocks : Submit("blocks", first, last, num, throws)
             \/ Submit("sequence", first, last, 0, throws)
  BY <1>1, SubmitStep, LoopAssumption
<1>2. CASE SubmitBlock \/ SubmitIndex
  BY <1>2, SubmitTaskStep
<1>3. CASE \E i \in DOMAIN future : Run(i)
  BY <1>3, RunStep
<1>4. CASE \E member \in Member : Start(member)
  BY <1>4, StartStep
<1>5. CASE GetNext
  BY <1>5, GetStep
<1>6. CASE WaitNext \/ WaitForNext \/ Again \/ Tick
  BY <1>6, WaitStep
<1>7. CASE UNCHANGED loopVars
  BY <1>7, StutterStep
<1> QED
  BY <1>1, <1>2, <1>3, <1>4, <1>5, <1>6, <1>7 DEF LoopNext

LEMMA Invariance == LoopInit /\ [][LoopNext]_loopVars => []IInv
BY InitIInv, StepIInv, PTL

-------------------------------------------------------------------------------
(* What the invariant says of the properties.                              *)

LEMMA UpTo == ASSUME NEW n \in Nat PROVE IsFiniteSet(1..n) /\ Cardinality(1..n) = n
<1>1. IsFiniteSet(1..n) /\ Cardinality(1..n) = IF 1 > n THEN 0 ELSE n - 1 + 1
  BY FS_Interval
<1> QED
  BY <1>1

\* As many futures are ready as there are futures only when all of them are.
LEMMA Ready == ASSUME LoopTypeOK, AllReady PROVE \A i \in DOMAIN future : IsReady(i)
<1>1. DOMAIN future = 1..Len(future) /\ Len(future) \in Nat
  BY LenProperties DEF LoopTypeOK
<1>2. IsFiniteSet(DOMAIN future) /\ Cardinality(DOMAIN future) = Len(future)
  BY <1>1, UpTo
<1> DEFINE R == {i \in DOMAIN future : IsReady(i)}
<1>3. Cardinality(R) = Cardinality(DOMAIN future)
  BY <1>2 DEF AllReady, ready_count
<1>4. R = DOMAIN future
  BY <1>2, <1>3, FS_Subset
<1> QED
  BY <1>4

LEMMA AllOfThem ==
    ASSUME LoopTypeOK, \A i \in DOMAIN future : IsReady(i) PROVE AllReady
<1>1. DOMAIN future = 1..Len(future) /\ Len(future) \in Nat
  BY LenProperties DEF LoopTypeOK
<1>2. {i \in DOMAIN future : IsReady(i)} = DOMAIN future
  OBVIOUS
<1>3. Cardinality(DOMAIN future) = Len(future)
  BY <1>1, UpTo
<1> QED
  BY <1>2, <1>3 DEF AllReady, ready_count

LEMMA IInvPartition == IInv => BlocksPartition
<1> SUFFICES ASSUME IInv, client \notin {"idle", "submit"}, loop.kind = "blocks",
                    loop.first < loop.last
             PROVE  /\ Len(submitted) = Min2(loop.num, loop.last - loop.first)
                    /\ Head(submitted).start = loop.first /\ Last(submitted).end = loop.last
                    /\ \A i \in 1..(Len(submitted) - 1) :
                          submitted[i].end = submitted[i + 1].start
                    /\ \A b, d \in ToSet(submitted) : Length(b) > 0 /\ Length(b) - Length(d) <= 1
  BY DEF BlocksPartition
<1>1. Looping
  BY DEF IInv, Looping, LoopTypeOK
<1>2. /\ Count \in Nat \ {0} /\ Count = num_blocks /\ Len(submitted) = Count
      /\ DOMAIN submitted = 1..Count
  BY <1>1, Bounds, Blocks, Shapes DEF IInv, Divided
<1>3. \A i \in 1..Count : submitted[i].start = Bound(i - 1) /\ submitted[i].end = Bound(i)
  BY <1>2 DEF IInv, Divided
<1>4. Len(submitted) = Min2(loop.num, loop.last - loop.first)
  BY <1>2 DEF num_blocks
<1>5. Head(submitted).start = loop.first
  <2>1. Head(submitted) = submitted[1] /\ 1 \in 1..Count
    BY <1>2 DEF IInv, LoopTypeOK
  <2> QED
    BY <1>1, <1>3, <2>1, Bounds
<1>6. Last(submitted).end = loop.last
  BY <1>1, <1>2, <1>3, Bounds DEF Last
<1>7. \A i \in 1..(Len(submitted) - 1) : submitted[i].end = submitted[i + 1].start
  <2> SUFFICES ASSUME NEW i \in 1..(Count - 1) PROVE submitted[i].end = submitted[i + 1].start
    BY <1>2
  <2>1. i \in 1..Count /\ i + 1 \in 1..Count /\ (i + 1) - 1 = i
    BY <1>2
  <2> QED
    BY <1>3, <2>1
<1>8. ASSUME NEW i \in 1..Count
      PROVE  Length(submitted[i]) \in {block_size, block_size + 1}
  <2>1. i - 1 \in 0..(Count - 1) /\ (i - 1) + 1 = i
    BY <1>2
  <2> QED
    BY <1>1, <1>3, <2>1, BoundStep DEF Length
<1>9. \A b, d \in ToSet(submitted) : Length(b) > 0 /\ Length(b) - Length(d) <= 1
  <2>1. \A b \in ToSet(submitted) : Length(b) \in {block_size, block_size + 1}
    BY <1>2, <1>8 DEF ToSet
  <2>2. block_size \in Nat \ {0}
    BY <1>1, Blocks
  <2> QED
    BY <2>1, <2>2
<1> QED
  BY <1>4, <1>5, <1>6, <1>7, <1>9

LEMMA IInvRunOnce == IInv => LoopRunOnce
<1> SUFFICES ASSUME IInv, NEW k \in Index,
                    \/ client = "value"
                    \/ client \notin {"idle", "submit"} /\ AllReady /\ "error" \notin ToSet(future)
             PROVE  ran[k] = IF k \in loop.first..(loop.last - 1) THEN 1 ELSE 0
  BY DEF LoopRunOnce
<1>0. loop.first \in Int /\ loop.last \in Int /\ k \in Int
  BY LoopAssumption DEF IInv, LoopTypeOK, Index, Lowest
<1>1. /\ DOMAIN future = 1..Len(submitted) /\ DOMAIN submitted = DOMAIN future
      /\ client \notin {"idle", "submit"} /\ Len(submitted) = Count
      /\ \A i \in DOMAIN future : submitted[i].start \in Int /\ submitted[i].end \in Int
  BY Shapes DEF IInv, Divided
<1>2. \A i \in DOMAIN future : future[i] # "pending" /\ ~Fails(submitted[i])
  <2>1. CASE client = "value"
    BY <2>1 DEF IInv, Futures
  <2>2. CASE AllReady /\ "error" \notin ToSet(future)
    <3>1. \A i \in DOMAIN future : IsReady(i)
      BY <2>2, Ready DEF IInv
    <3>2. \A i \in DOMAIN future : future[i] = "value"
      BY <2>2, <3>1 DEF IsReady, ToSet
    <3> QED
      BY <3>2 DEF IInv, Futures
  <2> QED
    BY <2>1, <2>2
<1>3. \A i \in DOMAIN future :
          /\ Called(i, k) <=> submitted[i].start <= k /\ k < submitted[i].end
          /\ submitted[i].start = Bound(i - 1) /\ submitted[i].end = Bound(i)
  BY <1>0, <1>1, <1>2 DEF Called, To, IInv, Divided
<1>4. ran[k] = IF \E i \in DOMAIN future : Called(i, k) THEN 1 ELSE 0
  BY DEF IInv, Executed
<1>5. (\E i \in DOMAIN future : Called(i, k)) <=> k \in loop.first..(loop.last - 1)
  <2>1. ASSUME k \in loop.first..(loop.last - 1) PROVE \E i \in DOMAIN future : Called(i, k)
    <3>1. Looping
      BY <1>0, <1>1, <2>1 DEF IInv, Looping, LoopTypeOK
    <3> QED
      BY <1>1, <1>3, <2>1, <3>1, OneTask
  <2>2. ASSUME NEW i \in DOMAIN future, Called(i, k) PROVE k \in loop.first..(loop.last - 1)
    <3>1. Looping /\ i \in 1..Count
      BY <1>1, HasTasks DEF IInv
    <3>2. /\ Count \in Nat \ {0} /\ Bound(0) = loop.first /\ Bound(Count) = loop.last
          /\ \A m, n \in 0..Count : Bound(m) \in Int /\ (m < n => Bound(m) < Bound(n))
      BY <3>1, Bounds, LoopAssumption DEF Index, Lowest
    <3>3. i - 1 \in 0..Count /\ i \in 0..Count /\ 0 \in 0..Count /\ Count \in 0..Count
      BY <3>1, <3>2
    <3>4. Bound(0) <= Bound(i - 1) /\ Bound(i) <= Bound(Count)
      <4>1. (i - 1 = 0 \/ 0 < i - 1) /\ (i = Count \/ i < Count)
        BY <3>1, <3>2
      <4> QED
        BY <3>2, <3>3, <4>1
    <3> QED
      BY <1>0, <1>3, <2>2, <3>2, <3>3, <3>4
  <2> QED
    BY <2>1, <2>2
<1> QED
  BY <1>4, <1>5

LEMMA IInvTruth == IInv => WaitForTruth
BY AllOfThem DEF IInv, Waited, WaitForTruth

-------------------------------------------------------------------------------

\* In every history the blocks of a loop partition its range, evenly, in spite
\* of the casts: for every signed index type, every range in it whose size does
\* not overflow line 492 (any range, where the type is narrower than int), and
\* every number of blocks.
THEOREM Partitioned == LoopInit /\ [][LoopNext]_loopVars => []BlocksPartition
BY Invariance, IInvPartition, PTL

\* When the futures of a loop have all delivered a value, the loop function
\* was called exactly once for every index of the range, and for no other.
THEOREM RunOnce == LoopInit /\ [][LoopNext]_loopVars => []LoopRunOnce
BY Invariance, IInvRunOnce, PTL

\* wait() returns when every future is ready, and wait_for() says that they
\* are only when they are, or at the very tick of the timeout.
THEOREM WaitsTell == LoopInit /\ [][LoopNext]_loopVars => []WaitForTruth
BY Invariance, IInvTruth, PTL
===============================================================================
