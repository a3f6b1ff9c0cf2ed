---------------------------- MODULE KernelProofs ----------------------------
(* Theorems about Kernel for every vector unit, line size, number of sizes *)
(* and repetitions, memory and program.                                    *)
EXTENDS Kernel, ValidationProofs

(***************************************************************************)
(* Division                                                                *)
(***************************************************************************)
LEMMA DividesTrans ==
  ASSUME NEW a \in Nat, NEW b \in Nat, NEW c \in Nat,
         Divides(a, b), Divides(b, c)
  PROVE  Divides(a, c)
<1>1. PICK x \in Nat : b = x * a
  BY DEF Divides
<1>2. PICK y \in Nat : c = y * b
  BY DEF Divides
<1>3. c = (y * x) * a /\ y * x \in Nat
  BY <1>1, <1>2
<1>4. QED
  BY <1>3 DEF Divides

\* A divisor can be taken away, once at least.
LEMMA DividesRest ==
  ASSUME NEW d \in Positive, NEW r \in Positive, Divides(d, r)
  PROVE  d <= r /\ r - d \in Nat /\ Divides(d, r - d)
<1>1. PICK q \in Nat : r = q * d
  BY DEF Divides
<1>2. q # 0
  BY <1>1 DEF Positive
<1>3. q - 1 \in Nat
  BY <1>2
<1>4. r = (q - 1) * d + d
  BY <1>1, <1>3 DEF Positive
<1>5. (q - 1) * d \in Nat
  BY <1>3 DEF Positive
<1> DEFINE z == (q - 1) * d
<1> HIDE DEF z
<1>6. r - d = z /\ d <= r
  BY <1>4, <1>5 DEF z, Positive
<1>7. QED
  BY <1>3, <1>5, <1>6 DEF z, Divides

\* What is left after the division by a number is under it.
LEMMA ProductOrder ==
  ASSUME NEW a \in Nat, NEW b \in Nat, NEW c \in Nat, a <= b
  PROVE  a * c <= b * c
<1>1. b = a + (b - a) /\ b - a \in Nat
  OBVIOUS
<1>2. b * c = a * c + (b - a) * c
  BY <1>1
<1>3. (b - a) * c \in Nat /\ a * c \in Nat
  BY <1>1
<1> DEFINE x == a * c
           y == (b - a) * c
<1> HIDE DEF x, y
<1>4. x <= x + y
  BY <1>3 DEF x, y
<1>5. QED
  BY <1>2, <1>4 DEF x, y

\* A share of n parts of d out of more than n is at most d.
LEMMA ShareBound ==
  ASSUME NEW n \in Nat, NEW d \in Nat, NEW s \in Positive, n < s
  PROVE  (n * d) \div s \in 0 .. d
<1> DEFINE a == n * d
           q == a \div s
<1>1. a \in Nat
  OBVIOUS
<1> HIDE DEF a
<1>2. q \in Nat /\ a % s \in Nat /\ a = s * q + (a % s)
  BY <1>1, DivModFacts
<1> HIDE DEF q
<1>3. ASSUME q > d PROVE FALSE
  <2>1. d + 1 <= q /\ d + 1 \in Nat /\ s \in Nat
    BY <1>2, <1>3 DEF Positive
  <2>2. (d + 1) * s <= q * s
    BY <1>2, <2>1, ProductOrder
  <2>3. n * d <= s * d
    BY ProductOrder DEF Positive
  <2>4. (d + 1) * s = s * d + s /\ q * s = s * q
    BY <1>2 DEF Positive
  <2>5. s * d \in Nat /\ s * q \in Nat /\ s > 0
    BY <1>2 DEF Positive
  <2> DEFINE x == s * d
             y == s * q
  <2> HIDE DEF x, y
  <2>6. a <= x /\ x + s <= y /\ a = y + (a % s)
    BY <1>2, <2>2, <2>3, <2>4 DEF x, y, a
  <2>7. QED
    BY <1>1, <1>2, <2>5, <2>6 DEF x, y, Positive
<1>4. QED
  BY <1>2, <1>3 DEF q, a

\* A number rounded down to the chunk.
LEMMA ResizeFacts ==
  ASSUME chunk \in Positive, NEW s \in Nat
  PROVE  Resize(s) \in Nat /\ Resize(s) <= s /\ Divides(chunk, Resize(s))
<1>1. /\ s \div chunk \in Nat /\ s % chunk \in Nat
      /\ s = chunk * (s \div chunk) + (s % chunk)
  BY DivModFacts
<1>2. CASE s % chunk = 0
  BY <1>2, RemainderZero DEF Resize
<1>3. CASE s % chunk # 0
  <2> DEFINE q == s \div chunk
             x == chunk * q
  <2>1. x \in Nat /\ x = q * chunk
    BY <1>1 DEF Positive
  <2> HIDE DEF x
  <2>2. Resize(s) = x /\ s = x + (s % chunk)
    BY <1>1, <1>3 DEF Resize, x
  <2>3. QED
    BY <1>1, <2>1, <2>2 DEF Divides
<1>4. QED
  BY <1>2, <1>3

\* roofline_PPCM: the product of two numbers, divided by a common divisor, is
\* a multiple of both.
LEMMA CommonMultiple ==
  ASSUME NEW a \in Positive, NEW b \in Positive, NEW g \in Positive,
         Divides(g, a), Divides(g, b)
  PROVE  LET c == (a * b) \div g
         IN  c \in Positive /\ Divides(a, c) /\ Divides(b, c)
<1> DEFINE x == a \div g
           y == b \div g
           c == (a * b) \div g
<1>1. x \in Positive /\ a = x * g
  BY PositiveQuotient, ExactQuotient DEF Positive
<1>2. y \in Positive /\ b = y * g
  BY PositiveQuotient, ExactQuotient DEF Positive
<1> HIDE DEF x, y
<1>3. c = a * y
  BY <1>2, QuotientOfProduct DEF Positive
<1> HIDE DEF c
<1>4. c = y * a /\ c = x * b /\ c \in Positive
  BY <1>1, <1>2, <1>3 DEF Positive
<1>5. QED
  BY <1>1, <1>2, <1>4 DEF Divides, Positive, c

(***************************************************************************)
(* The invariant                                                           *)
(***************************************************************************)
NoJob == [kind |-> "none"]

\* A kernel of an intensity is held while its call runs, and no other is.
JobInv ==
  /\ at # "idle" =>
       job \in Call /\ phase = (IF job.kind = "oi" THEN "ready" ELSE "idle")
  /\ at = "idle" /\ phase # "idle" => job \in Call /\ job.kind = "oi"
  /\ at \in {"bounds", "align", "sizes", "round"} => job.kind # "fpeak"
  /\ at \in {"links", "chase"} => job.kind = "latency"
  /\ at \in {"pass", "chunk"} => job.kind \in {"stream", "oi"}
  /\ at \in {"flops", "overhead"} => job.kind = "fpeak"

\* The states in which the chunk, the sizes, the buffer are those of the call.
Aligned == {"sizes", "round", "links", "chase", "pass", "chunk", "report", "reported"}
Sized == Aligned \ {"sizes"}
Used == Sized \ {"round"}

Streams == job.kind # "fpeak"

BoundsInv ==
  /\ at \in {"align", "sizes"} => low <= job.mem.up
  /\ at = "align" =>
       /\ chunk = ChunkOf(job)
       /\ ppcm \in [max : Positive, min : Positive]
       /\ \A d \in Positive :
            Divides(d, ppcm.max) /\ Divides(d, ppcm.min)
              => Divides(d, chunk) /\ Divides(d, Alignement)

\* Sizes are multiples of a multiple of a line and of what a kernel goes through.
ChunkInv ==
  at \in Aligned /\ Streams =>
    Divides(ChunkOf(job), chunk) /\ Divides(Alignement, chunk)

SizesInv ==
  at \in Sized /\ Streams =>
    \A n \in 0 .. NSizes - 1 : sizes[n] <= alloc /\ Divides(chunk, sizes[n])

SizeInv ==
  at \in Used /\ Streams =>
    i < NSizes /\ size > 0 /\ size <= alloc /\ Divides(chunk, size)

LoopInv ==
  /\ at \in {"chase", "pass", "chunk", "flops", "overhead"} => left > 0
  /\ at = "chunk" => r11 + r12 = size /\ r12 > 0 /\ Divides(Step, r12)

\* A cell is linked to, or it is among those left.
ChaseInv ==
  /\ at = "links" =>
       /\ k <= size \div 8
       /\ links \in [Cells -> Cells] /\ rands \in [Cells -> Cells]
       /\ \A c \in Cells :
            \/ \E n \in 0 .. k - 1 : rands[n] = c
            \/ \E n \in Cells : n >= k /\ links[n] = c
  /\ at = "chase" =>
       /\ links \in [Cells -> Cells] /\ rax \in Cells
       /\ \A c \in Cells : \E n \in Cells : links[n] = c

KernelInv ==
  /\ ValidationInv
  /\ TypeOK
  /\ JobInv
  /\ BoundsInv
  /\ ChunkInv
  /\ SizesInv
  /\ SizeInv
  /\ LoopInv
  /\ ChaseInv

(***************************************************************************)
(* What the types say                                                      *)
(***************************************************************************)
LEMMA CallFacts ==
  ASSUME NEW c \in Call
  PROVE  /\ c.kind \in {"stream", "latency", "oi", "fpeak"}
         /\ c.kind # "fpeak" => c.mem \in Memory
         /\ c.kind = "oi" => c.request \in Requests
         /\ c.kind = "stream" => c.op \in MemoryOps
         /\ c.kind = "fpeak" => c.unit \in Units
BY DEF Call

LEMMA StreamFacts ==
  /\ Alignement \in Positive /\ Alignement >= 8
  /\ NSizes \in Positive /\ Repeat \in Positive
  /\ ChunkSize \in Positive
<1>1. ChunkSize \in Positive
  BY ChunkAssumption, SimdFacts DEF Positive, Strides
<1>2. QED
  BY <1>1, StreamAssumption DEF Positive

LEMMA TypeFacts ==
  ASSUME TypeOK
  PROVE  /\ chunk \in Positive /\ low \in Positive
         /\ sizes \in [0 .. NSizes - 1 -> Nat] /\ i \in 0 .. NSizes
         /\ alloc \in Nat /\ size \in Nat /\ k \in Nat /\ left \in Nat
         /\ r11 \in Nat /\ r12 \in Nat /\ rax \in Nat /\ measured \in Nat
         /\ oi_chunk_size \in Positive
         /\ code \in CodeType
BY DEF TypeOK, Positive, ValidationTypeOK, CodeType

LEMMA ChunkFacts ==
  ASSUME TypeOK, NEW c \in Call, c.kind # "fpeak"
  PROVE  ChunkOf(c) \in Positive /\ LowOf(c) \in Positive /\ c.mem.up \in Nat
<1>1. ChunkOf(c) \in Positive
  BY TypeFacts, StreamFacts DEF ChunkOf
<1>2. c.mem \in Memory
  BY CallFacts
<1>3. 4 * ChunkOf(c) \in Positive
  BY <1>1 DEF Positive
<1>4. QED
  BY <1>1, <1>2, <1>3 DEF LowOf, Memory, Positive

\* An iteration goes through the chunk of the call.
LEMMA StepFacts ==
  ASSUME KernelInv, at \in {"pass", "chunk"}
  PROVE  Step \in Positive /\ Step = ChunkOf(job) /\ Accessed = Step
<1>1. /\ job \in Call /\ job.kind \in {"stream", "oi"}
      /\ job.kind = "oi" => phase = "ready"
  BY DEF KernelInv, JobInv
<1>2. CASE job.kind = "stream"
  <2>1. Step = ChunkSize /\ ChunkOf(job) = ChunkSize
    BY <1>2 DEF Step, ChunkOf
  <2>2. IterationWork.loads + IterationWork.stores = 30
    BY <1>2 DEF IterationWork, MovWork, Strides
  <2>3. Accessed = ChunkSize
    BY <2>2, ChunkAssumption DEF Accessed, Strides
  <2>4. QED
    BY <2>1, <2>3, StreamFacts
<1>3. CASE job.kind = "oi"
  <2>1. phase = "ready"
    BY <1>1, <1>3
  <2>2. /\ oi_chunk_size = code.offset
        /\ code.offset = Muops(code) * SimdBytes
    BY <2>1 DEF KernelInv, ValidationInv, ChunkOfCode, CodeCounts
  <2>3. Step = code.offset /\ ChunkOf(job) = oi_chunk_size
    BY <1>3 DEF Step, ChunkOf
  <2>4. IterationWork.loads + IterationWork.stores = Muops(code)
    BY <1>3 DEF IterationWork, CodeWork, Muops
  <2>5. oi_chunk_size \in Positive
    BY TypeFacts DEF KernelInv
  <2>6. QED
    BY <2>2, <2>3, <2>4, <2>5 DEF Accessed
<1>4. QED
  BY <1>1, <1>2, <1>3

LEMMA SameValidation ==
  ASSUME ValidationInv, UNCHANGED validationVars
  PROVE  ValidationInv' /\ ValidationTypeOK'
BY StepInv DEF ValidationInv

(***************************************************************************)
(* Steps between calls                                                     *)
(***************************************************************************)
LEMMA KernelInitInv == Init => KernelInv
<1> SUFFICES ASSUME Init PROVE KernelInv
  OBVIOUS
<1>1. ValidationInv /\ ValidationTypeOK /\ phase = "idle"
  BY InitInv DEF Init, ValidationInv, ValidationInit
<1>2. todo \in Seq(Call)
  BY StreamAssumption DEF Init
<1>3. NSizes \in Nat /\ 0 \in 0 .. NSizes
  BY StreamAssumption
<1>4. TypeOK
  BY <1>1, <1>2, <1>3 DEF Init, TypeOK, NoOutput, NoJob
<1>5. QED
  BY <1>1, <1>4 DEF Init, KernelInv, JobInv, BoundsInv, ChunkInv, Aligned, SizesInv,
       Sized, SizeInv, Used, LoopInv, ChaseInv

\* Nothing but at, phase and job matters to what is said between the calls.
LEMMA IdleInv ==
  ASSUME ValidationInv', TypeOK', JobInv', at' = "idle" \/ at' = "bounds" \/ at' = "end"
  PROVE  KernelInv'
BY DEF KernelInv, BoundsInv, ChunkInv, Aligned, SizesInv, Sized, SizeInv, Used, LoopInv,
       ChaseInv

LEMMA HeadFacts ==
  ASSUME TypeOK, todo # <<>>
  PROVE  Head(todo) \in Call /\ Tail(todo) \in Seq(Call)
BY DEF TypeOK

LEMMA BeginOiStep ==
  ASSUME KernelInv, BeginOi
  PROVE  KernelInv' /\ [ValidationNext]_validationVars
<1> DEFINE c == Head(todo)
<1>1. /\ at = "idle" /\ phase = "idle" /\ todo # <<>> /\ c.kind = "oi"
      /\ Ask(c.request) /\ job' = c /\ todo' = Tail(todo) /\ measured' = 0
      /\ UNCHANGED <<at, chunk, low, sizes, alloc, i, size, k, left, r11, r12, rax, out>>
  BY DEF BeginOi, Free, sizeVars, linkVars, loopVars
<1>2. c \in Call /\ todo' \in Seq(Call)
  BY <1>1, HeadFacts DEF KernelInv
<1> HIDE DEF c
<1>3. c.request \in Requests
  BY <1>1, <1>2, CallFacts
<1>4. [ValidationNext]_validationVars
  BY <1>1, <1>3 DEF ValidationNext
<1>5. ValidationInv' /\ ValidationTypeOK'
  BY <1>4, StepInv DEF KernelInv, ValidationInv
<1>6. TypeOK'
  BY <1>1, <1>2, <1>5 DEF KernelInv, TypeOK
<1>7. JobInv'
  BY <1>1, <1>2 DEF JobInv
<1>8. QED
  BY <1>1, <1>4, <1>5, <1>6, <1>7, IdleInv

LEMMA ValidateStep ==
  ASSUME KernelInv, Validate
  PROVE  KernelInv' /\ [ValidationNext]_validationVars
<1>1. /\ at = "idle" /\ Generate
      /\ UNCHANGED <<todo, job, at, chunk, low, sizes, alloc, i, size, k, left, r11,
                     r12, rax, out, measured>>
  BY DEF Validate, sizeVars, linkVars, loopVars
<1>2. [ValidationNext]_validationVars
  BY <1>1 DEF ValidationNext
<1>3. ValidationInv' /\ ValidationTypeOK'
  BY <1>2, StepInv DEF KernelInv, ValidationInv
<1>4. TypeOK'
  BY <1>1, <1>3 DEF KernelInv, TypeOK
<1>5. phase # "idle"
  BY <1>1 DEF Generate, TryUnit, GiveUp, Divide, Simplify, WriteBody, Load, LoadFails
<1>6. JobInv'
  BY <1>1, <1>5 DEF KernelInv, JobInv
<1>7. QED
  BY <1>1, <1>2, <1>3, <1>4, <1>6, IdleInv

LEMMA BeginKernelStep ==
  ASSUME KernelInv, BeginKernel
  PROVE  KernelInv' /\ [ValidationNext]_validationVars
<1>1. /\ at = "idle" /\ phase = "ready" /\ at' = "bounds" /\ UNCHANGED validationVars
      /\ UNCHANGED <<todo, job, chunk, low, sizes, alloc, i, size, k, left, r11, r12,
                     rax, out, measured, phase>>
  BY DEF BeginKernel, sizeVars, linkVars, loopVars, validationVars
<1>2. ValidationInv' /\ ValidationTypeOK'
  BY <1>1, SameValidation DEF KernelInv
<1>3. TypeOK'
  BY <1>1, <1>2 DEF KernelInv, TypeOK
<1>4. JobInv'
  BY <1>1 DEF KernelInv, JobInv
<1>5. QED
  BY <1>1, <1>2, <1>3, <1>4, IdleInv

LEMMA BeginStreamStep ==
  ASSUME KernelInv, BeginStream
  PROVE  KernelInv' /\ [ValidationNext]_validationVars
<1> DEFINE c == Head(todo)
<1>1. /\ at = "idle" /\ phase = "idle" /\ todo # <<>> /\ c.kind \in {"stream", "latency"}
      /\ at' = "bounds" /\ job' = c /\ todo' = Tail(todo) /\ measured' = 0
      /\ UNCHANGED validationVars
      /\ UNCHANGED <<phase, chunk, low, sizes, alloc, i, size, k, left, r11, r12, rax,
                     out>>
  BY DEF BeginStream, Free, sizeVars, linkVars, loopVars, validationVars
<1>2. c \in Call /\ todo' \in Seq(Call)
  BY <1>1, HeadFacts DEF KernelInv
<1> HIDE DEF c
<1>3. ValidationInv' /\ ValidationTypeOK'
  BY <1>1, SameValidation DEF KernelInv
<1>4. TypeOK'
  BY <1>1, <1>2, <1>3 DEF KernelInv, TypeOK
<1>5. JobInv'
  BY <1>1, <1>2 DEF JobInv
<1>6. QED
  BY <1>1, <1>3, <1>4, <1>5, IdleInv

LEMMA BeginFpeakStep ==
  ASSUME KernelInv, BeginFpeak
  PROVE  KernelInv' /\ [ValidationNext]_validationVars
<1> DEFINE c == Head(todo)
<1>1. /\ at = "idle" /\ phase = "idle" /\ todo # <<>> /\ c.kind = "fpeak"
      /\ at' = "flops" /\ job' = c /\ todo' = Tail(todo) /\ measured' = 0
      /\ left' = Repeat
      /\ UNCHANGED validationVars
      /\ UNCHANGED <<phase, chunk, low, sizes, alloc, i, size, k, r11, r12, rax, out>>
  BY DEF BeginFpeak, Free, sizeVars, linkVars, validationVars
<1>2. c \in Call /\ todo' \in Seq(Call)
  BY <1>1, HeadFacts DEF KernelInv
<1> HIDE DEF c
<1>3. ValidationInv' /\ ValidationTypeOK'
  BY <1>1, SameValidation DEF KernelInv
<1>4. left' \in Nat /\ left' > 0
  BY <1>1, StreamFacts DEF Positive
<1>5. TypeOK'
  BY <1>1, <1>2, <1>3, <1>4 DEF KernelInv, TypeOK
<1>6. JobInv'
  BY <1>1, <1>2 DEF JobInv
<1>7. BoundsInv' /\ ChunkInv' /\ SizesInv' /\ SizeInv' /\ LoopInv' /\ ChaseInv'
  BY <1>1, <1>4 DEF BoundsInv, ChunkInv, SizesInv, SizeInv, LoopInv, ChaseInv,
       Aligned, Sized, Used
<1>8. QED
  BY <1>1, <1>3, <1>5, <1>6, <1>7 DEF KernelInv

LEMMA EndStep ==
  ASSUME KernelInv, End
  PROVE  KernelInv' /\ [ValidationNext]_validationVars
<1>1. /\ at = "end" /\ at' = "idle"
      /\ IF job.kind = "oi" THEN Release ELSE UNCHANGED validationVars
      /\ UNCHANGED <<todo, job, chunk, low, sizes, alloc, i, size, k, left, r11, r12,
                     rax, out, measured>>
  BY DEF End, sizeVars, linkVars, loopVars
<1>2. [ValidationNext]_validationVars
  BY <1>1 DEF ValidationNext
<1>3. ValidationInv' /\ ValidationTypeOK'
  BY <1>2, StepInv DEF KernelInv, ValidationInv
<1>4. TypeOK'
  BY <1>1, <1>3 DEF KernelInv, TypeOK
<1>5. phase' = "idle"
  BY <1>1 DEF KernelInv, JobInv, Release, validationVars
<1>6. JobInv'
  BY <1>1, <1>5 DEF JobInv
<1>7. QED
  BY <1>1, <1>2, <1>3, <1>4, <1>6, IdleInv

(***************************************************************************)
(* Steps within a call: the validation kernels are left alone              *)
(***************************************************************************)
LEMMA SameCall ==
  ASSUME KernelInv, at # "idle", at' # "idle", UNCHANGED validationVars,
         UNCHANGED <<todo, job>>
  PROVE  /\ ValidationInv' /\ ValidationTypeOK'
         /\ job \in Call /\ job' \in Call
         /\ phase' = IF job'.kind = "oi" THEN "ready" ELSE "idle"
         /\ ChunkOf(job)' = ChunkOf(job) /\ Step' = Step
<1>1. ValidationInv' /\ ValidationTypeOK'
  BY SameValidation DEF KernelInv
<1>2. job \in Call /\ job' \in Call /\ UNCHANGED <<phase, oi_chunk_size, code>>
  BY DEF KernelInv, JobInv, validationVars
<1>3. ChunkOf(job)' = ChunkOf(job) /\ Step' = Step
  BY <1>2 DEF ChunkOf, Step
<1>4. QED
  BY <1>1, <1>2, <1>3 DEF KernelInv, JobInv

LEMMA SetBoundsStep ==
  ASSUME KernelInv, SetBounds
  PROVE  KernelInv'
<1> DEFINE c == ChunkOf(job)
           l == LowOf(job)
<1>1. /\ at = "bounds" /\ UNCHANGED validationVars
      /\ low' = l /\ chunk' = c /\ ppcm' = PgcdStart(c, Alignement)
      /\ at' = IF job.mem.up < l THEN "end"
               ELSE IF c % Alignement = 0 THEN "sizes" ELSE "align"
      /\ UNCHANGED <<todo, job, sizes, alloc, i, size, k, left, r11, r12, rax, out,
                     measured>>
  BY DEF SetBounds, linkVars, loopVars
<1>2. at' \in {"end", "sizes", "align"} /\ at' # "idle"
  BY <1>1
<1>3. /\ ValidationInv' /\ ValidationTypeOK' /\ job \in Call
      /\ job' \in Call
      /\ phase' = IF job'.kind = "oi" THEN "ready" ELSE "idle"
      /\ ChunkOf(job)' = c
  BY <1>1, <1>2, SameCall
<1>4. job.kind # "fpeak"
  BY <1>1 DEF KernelInv, JobInv
<1>5. c \in Positive /\ l \in Positive /\ job.mem.up \in Nat
  BY <1>3, <1>4, ChunkFacts DEF KernelInv
<1> HIDE DEF c, l
<1>6. TypeOK'
  BY <1>1, <1>2, <1>3, <1>5 DEF KernelInv, TypeOK, Positive
<1>7. JobInv'
  BY <1>1, <1>2, <1>3, <1>4 DEF JobInv
<1>8. CASE at' = "end"
  BY <1>3, <1>6, <1>7, <1>8, IdleInv
<1>9. CASE at' = "sizes"
  <2>1. c % Alignement = 0 /\ l <= job.mem.up
    BY <1>1, <1>5, <1>9 DEF Positive
  <2>2. Divides(Alignement, c) /\ Divides(c, c)
    BY <1>5, <2>1, StreamFacts, RemainderZero, DividesSelf DEF Positive
  <2>3. BoundsInv'
    BY <1>1, <1>9, <2>1 DEF BoundsInv
  <2>4. ChunkInv'
    BY <1>1, <1>3, <2>2 DEF ChunkInv
  <2>5. SizesInv' /\ SizeInv' /\ LoopInv' /\ ChaseInv'
    BY <1>9 DEF SizesInv, SizeInv, LoopInv, ChaseInv, Sized, Used
  <2>6. QED
    BY <1>3, <1>6, <1>7, <2>3, <2>4, <2>5 DEF KernelInv
<1>10. CASE at' = "align"
  <2>1. l <= job.mem.up
    BY <1>1, <1>5, <1>10 DEF Positive
  <2>2. /\ ppcm' \in [max : Positive, min : Positive]
        /\ \/ ppcm'.max = c /\ ppcm'.min = Alignement
           \/ ppcm'.max = Alignement /\ ppcm'.min = c
    BY <1>1, <1>5, StreamFacts DEF PgcdStart
  <2>3. BoundsInv'
    BY <1>1, <1>3, <1>10, <2>1, <2>2 DEF BoundsInv
  <2>4. ChunkInv' /\ SizesInv' /\ SizeInv' /\ LoopInv' /\ ChaseInv'
    BY <1>10 DEF ChunkInv, SizesInv, SizeInv, LoopInv, ChaseInv, Aligned, Sized, Used
  <2>5. QED
    BY <1>3, <1>6, <1>7, <2>3, <2>4 DEF KernelInv
<1>11. QED
  BY <1>2, <1>8, <1>9, <1>10

LEMMA AlignDivideStep ==
  ASSUME KernelInv, AlignDivide
  PROVE  KernelInv'
<1> DEFINE r == Remainder(ppcm)
           q == ppcm.max \div ppcm.min
<1>1. /\ at = "align" /\ r # 0 /\ UNCHANGED validationVars
      /\ ppcm' = [max |-> ppcm.min, min |-> r]
      /\ UNCHANGED <<at, todo, job, chunk, low, sizes, alloc, i, size, k, left, r11, r12,
                     rax, out, measured>>
  BY DEF AlignDivide, PgcdNext, linkVars, loopVars
<1>2. ppcm.max \in Positive /\ ppcm.min \in Positive
  BY <1>1 DEF KernelInv, BoundsInv
<1>3. r \in Nat /\ q \in Nat /\ ppcm.max = ppcm.min * q + r
  BY <1>2, DivModFacts DEF Remainder, Positive
<1> HIDE DEF r, q
<1>4. /\ ValidationInv' /\ ValidationTypeOK' /\ job' \in Call
      /\ phase' = IF job'.kind = "oi" THEN "ready" ELSE "idle"
      /\ ChunkOf(job)' = ChunkOf(job)
  BY <1>1, SameCall
<1>5. TypeOK'
  BY <1>1, <1>4 DEF KernelInv, TypeOK
<1>6. JobInv'
  BY <1>1, <1>4 DEF KernelInv, JobInv
<1>7. ppcm' \in [max : Positive, min : Positive]
  BY <1>1, <1>2, <1>3 DEF Positive
<1>8. ASSUME NEW d \in Positive, Divides(d, ppcm'.max), Divides(d, ppcm'.min)
      PROVE  Divides(d, chunk) /\ Divides(d, Alignement)
  <2>1. Divides(d, ppcm.min) /\ Divides(d, r)
    BY <1>1, <1>8
  <2>2. Divides(d, q * ppcm.min + r)
    BY <1>2, <1>3, <2>1, DividesSum DEF Positive
  <2>3. q * ppcm.min + r = ppcm.max
    BY <1>2, <1>3 DEF Positive
  <2>4. QED
    BY <1>1, <2>1, <2>2, <2>3 DEF KernelInv, BoundsInv
<1>9. BoundsInv'
  BY <1>1, <1>4, <1>7, <1>8 DEF KernelInv, BoundsInv
<1>10. ChunkInv' /\ SizesInv' /\ SizeInv' /\ LoopInv' /\ ChaseInv'
  BY <1>1 DEF ChunkInv, SizesInv, SizeInv, LoopInv, ChaseInv, Aligned, Sized, Used
<1>11. QED
  BY <1>4, <1>5, <1>6, <1>9, <1>10 DEF KernelInv

LEMMA AlignStep ==
  ASSUME KernelInv, Align
  PROVE  KernelInv'
<1> DEFINE g == ppcm.min
           c == (chunk * Alignement) \div g
<1>1. /\ at = "align" /\ at' = "sizes" /\ Remainder(ppcm) = 0 /\ UNCHANGED validationVars
      /\ chunk' = c
      /\ UNCHANGED <<todo, job, low, sizes, alloc, i, size, k, left, r11, r12, rax, out,
                     measured>>
  BY DEF Align, linkVars, loopVars
<1>2. ppcm.max \in Positive /\ g \in Positive /\ chunk = ChunkOf(job)
  BY <1>1 DEF KernelInv, BoundsInv
<1>3. Divides(g, ppcm.max) /\ Divides(g, g)
  BY <1>1, <1>2, RemainderZero, DividesSelf DEF Remainder, Positive
<1>4. Divides(g, chunk) /\ Divides(g, Alignement)
  BY <1>1, <1>2, <1>3 DEF KernelInv, BoundsInv
<1>5. c \in Positive /\ Divides(chunk, c) /\ Divides(Alignement, c)
  BY <1>2, <1>4, TypeFacts, StreamFacts, CommonMultiple DEF KernelInv
<1> HIDE DEF c
<1>6. /\ ValidationInv' /\ ValidationTypeOK' /\ job' \in Call
      /\ phase' = IF job'.kind = "oi" THEN "ready" ELSE "idle"
      /\ ChunkOf(job)' = ChunkOf(job)
  BY <1>1, SameCall
<1>7. TypeOK'
  BY <1>1, <1>5, <1>6 DEF KernelInv, TypeOK, Positive
<1>8. JobInv'
  BY <1>1, <1>6 DEF KernelInv, JobInv
<1>9. BoundsInv'
  BY <1>1 DEF KernelInv, BoundsInv
<1>10. ChunkInv'
  BY <1>1, <1>2, <1>5, <1>6 DEF ChunkInv
<1>11. SizesInv' /\ SizeInv' /\ LoopInv' /\ ChaseInv'
  BY <1>1 DEF SizesInv, SizeInv, LoopInv, ChaseInv, Sized, Used
<1>12. QED
  BY <1>6, <1>7, <1>8, <1>9, <1>10, <1>11 DEF KernelInv

LEMMA LinearSizesFacts ==
  ASSUME chunk \in Positive, NEW first \in Nat, NEW last \in Nat, first <= last
  PROVE  /\ LinearSizes(first, last) \in [0 .. NSizes - 1 -> Nat]
         /\ \A n \in 0 .. NSizes - 1 :
              /\ LinearSizes(first, last)[n] <= last
              /\ Divides(chunk, LinearSizes(first, last)[n])
<1> DEFINE S(n) == first + (n * (last - first)) \div NSizes
<1>1. ASSUME NEW n \in 0 .. NSizes - 1
      PROVE  S(n) \in Nat /\ S(n) <= last
  <2> DEFINE d == last - first
             z == (n * d) \div NSizes
  <2>1. d \in Nat /\ last = first + d
    OBVIOUS
  <2> HIDE DEF d
  <2>2. z \in 0 .. d
    BY <2>1, StreamFacts, ShareBound DEF Positive
  <2>3. S(n) = first + z
    BY DEF d
  <2> HIDE DEF z
  <2>4. QED
    BY <2>1, <2>2, <2>3
<1>2. ASSUME NEW n \in 0 .. NSizes - 1
      PROVE  Resize(S(n)) \in Nat /\ Resize(S(n)) <= last /\ Divides(chunk, Resize(S(n)))
  <2> DEFINE z == S(n)
  <2>1. z \in Nat /\ z <= last
    BY <1>1
  <2> HIDE DEF z
  <2>2. Resize(z) \in Nat /\ Resize(z) <= z /\ Divides(chunk, Resize(z))
    BY <2>1, ResizeFacts
  <2>3. Resize(z) <= last
    BY <2>1, <2>2
  <2>4. QED
    BY <2>2, <2>3 DEF z
<1>3. LinearSizes(first, last) = [n \in 0 .. NSizes - 1 |-> Resize(S(n))]
  BY DEF LinearSizes
<1> HIDE DEF S
<1>4. QED
  BY <1>2, <1>3

LEMMA SetSizesStep ==
  ASSUME KernelInv, SetSizes
  PROVE  KernelInv'
<1> DEFINE f == LinearSizes(low, job.mem.up)
           z == Resize(job.mem.up)
<1>1. /\ at = "sizes" /\ at' = "round" /\ UNCHANGED validationVars
      /\ sizes' = f /\ alloc' = job.mem.up /\ size' = z /\ i' = 0
      /\ UNCHANGED <<todo, job, chunk, low, k, left, r11, r12, rax, out, measured>>
  BY DEF SetSizes, linkVars, loopVars
<1>2. /\ ValidationInv' /\ ValidationTypeOK' /\ job \in Call /\ job' \in Call
      /\ phase' = IF job'.kind = "oi" THEN "ready" ELSE "idle"
      /\ ChunkOf(job)' = ChunkOf(job)
  BY <1>1, SameCall
<1>3. job.kind # "fpeak" /\ low <= job.mem.up
  BY <1>1 DEF KernelInv, JobInv, BoundsInv
<1>4. job.mem.up \in Nat /\ chunk \in Positive /\ low \in Nat
  BY <1>2, <1>3, ChunkFacts, TypeFacts DEF KernelInv, Positive
<1>5. /\ f \in [0 .. NSizes - 1 -> Nat]
      /\ \A n \in 0 .. NSizes - 1 : f[n] <= job.mem.up /\ Divides(chunk, f[n])
  BY <1>3, <1>4, LinearSizesFacts
<1>6. z \in Nat
  BY <1>4, ResizeFacts
<1> HIDE DEF f, z
<1>7. i' \in 0 .. NSizes
  BY <1>1, StreamFacts DEF Positive
<1>8. TypeOK'
  BY <1>1, <1>2, <1>4, <1>5, <1>6, <1>7 DEF KernelInv, TypeOK
<1>9. JobInv'
  BY <1>1, <1>2, <1>3 DEF JobInv
<1>10. ChunkInv'
  BY <1>1, <1>2 DEF KernelInv, ChunkInv, Aligned, Streams
<1>11. SizesInv'
  BY <1>1, <1>5 DEF SizesInv
<1>12. BoundsInv' /\ SizeInv' /\ LoopInv' /\ ChaseInv'
  BY <1>1 DEF BoundsInv, SizeInv, LoopInv, ChaseInv, Used
<1>13. QED
  BY <1>2, <1>8, <1>9, <1>10, <1>11, <1>12 DEF KernelInv

\* What the calls share once the sizes are set.
LEMMA SameSizes ==
  ASSUME KernelInv, at \in Sized, at' \in Sized, UNCHANGED validationVars,
         UNCHANGED <<todo, job, chunk, low, sizes, alloc>>
  PROVE  /\ ValidationInv' /\ ValidationTypeOK'
         /\ job \in Call /\ job' \in Call
         /\ phase' = IF job'.kind = "oi" THEN "ready" ELSE "idle"
         /\ Step' = Step
         /\ BoundsInv' /\ ChunkInv' /\ SizesInv'
<1>1. at # "idle" /\ at' # "idle"
  BY DEF Sized, Aligned
<1>2. /\ ValidationInv' /\ ValidationTypeOK' /\ job \in Call /\ job' \in Call
      /\ phase' = IF job'.kind = "oi" THEN "ready" ELSE "idle"
      /\ ChunkOf(job)' = ChunkOf(job) /\ Step' = Step
  BY <1>1, SameCall
<1>3. BoundsInv'
  BY DEF BoundsInv, Sized, Aligned
<1>4. ChunkInv'
  BY <1>2 DEF KernelInv, ChunkInv, Sized, Streams
<1>5. SizesInv'
  BY DEF KernelInv, SizesInv, Streams
<1>6. QED
  BY <1>2, <1>3, <1>4, <1>5

LEMMA SkipSizeStep ==
  ASSUME KernelInv, SkipSize
  PROVE  KernelInv'
<1>1. /\ at = "round" /\ at' = "round" /\ i < NSizes /\ i' = i + 1
      /\ UNCHANGED validationVars
      /\ UNCHANGED <<todo, job, chunk, low, sizes, alloc, size, k, left, r11, r12, rax,
                     out, measured>>
  BY DEF SkipSize, sizeVars, linkVars, loopVars
<1>2. /\ ValidationInv' /\ ValidationTypeOK' /\ job' \in Call
      /\ phase' = IF job'.kind = "oi" THEN "ready" ELSE "idle"
      /\ BoundsInv' /\ ChunkInv' /\ SizesInv'
  BY <1>1, SameSizes DEF Sized, Aligned
<1>3. i' \in 0 .. NSizes
  <2>1. i \in 0 .. NSizes /\ NSizes \in Nat
    BY TypeFacts, StreamFacts DEF KernelInv, Positive
  <2>2. QED
    BY <1>1, <2>1
<1>4. TypeOK'
  BY <1>1, <1>2, <1>3 DEF KernelInv, TypeOK
<1>5. JobInv'
  BY <1>1, <1>2 DEF KernelInv, JobInv
<1>6. SizeInv' /\ LoopInv' /\ ChaseInv'
  BY <1>1 DEF SizeInv, LoopInv, ChaseInv, Used
<1>7. QED
  BY <1>2, <1>4, <1>5, <1>6 DEF KernelInv

LEMMA UseSizeStep ==
  ASSUME KernelInv, UseSize
  PROVE  KernelInv'
<1>1. /\ at = "round" /\ i < NSizes /\ ~ Skipped(i) /\ size' = sizes[i]
      /\ UNCHANGED validationVars
      /\ UNCHANGED <<todo, job, chunk, low, sizes, alloc, i, r11, r12, rax, out,
                     measured>>
      /\ job.kind = "latency" =>
           /\ k' = size' \div 8
           /\ rands' = [n \in 0 .. k' - 1 |-> n]
           /\ links' = [n \in 0 .. k' - 1 |-> 0]
           /\ at' = "links" /\ UNCHANGED left
      /\ job.kind # "latency" => at' = "pass" /\ left' = Repeat /\ UNCHANGED k
  BY DEF UseSize, sizeVars, linkVars
<1>2. at' \in {"links", "pass"}
  BY <1>1
<1>3. /\ ValidationInv' /\ ValidationTypeOK' /\ job' \in Call
      /\ phase' = IF job'.kind = "oi" THEN "ready" ELSE "idle"
      /\ BoundsInv' /\ ChunkInv' /\ SizesInv'
  BY <1>1, <1>2, SameSizes DEF Sized, Aligned
<1>4. i \in 0 .. NSizes - 1 /\ job.kind # "fpeak"
  BY <1>1, TypeFacts, StreamFacts DEF KernelInv, JobInv, Positive
<1>5. /\ size' \in Nat /\ size' >= low /\ size' <= alloc /\ Divides(chunk, size')
  BY <1>1, <1>4, TypeFacts DEF KernelInv, SizesInv, Sized, Aligned, Streams, Skipped,
       Positive
<1>6. size' > 0
  BY <1>5, TypeFacts DEF KernelInv, Positive
<1>7. SizeInv'
  BY <1>1, <1>5, <1>6 DEF SizeInv
<1>8. k' \in Nat /\ left' \in Nat
  <2>1. size' \div 8 \in Nat
    <3>1. 8 \in Positive /\ size' \in Nat
      BY <1>5 DEF Positive
    <3>2. QED
      BY <3>1, DivModFacts
  <2>2. k \in Nat /\ left \in Nat /\ Repeat \in Nat
    BY TypeFacts, StreamFacts DEF KernelInv, Positive
  <2>3. QED
    BY <1>1, <2>1, <2>2
<1>9. TypeOK'
  BY <1>1, <1>2, <1>3, <1>5, <1>8, SMTT(20) DEF KernelInv, TypeOK
<1>10. JobInv'
  <2>1. job.kind \in {"stream", "oi", "latency"}
    BY <1>1, <1>3, <1>4, CallFacts
  <2>2. job.kind = "latency" => at' = "links"
    BY <1>1
  <2>3. job.kind # "latency" => at' = "pass"
    BY <1>1
  <2>4. QED
    BY <1>1, <1>2, <1>3, <2>1, <2>2, <2>3 DEF JobInv
<1>11. LoopInv'
  BY <1>1, <1>2, StreamFacts DEF LoopInv, Positive
<1>12. ChaseInv'
  <2>1. CASE at' = "pass"
    BY <2>1 DEF ChaseInv
  <2>2. CASE at' = "links"
    <3> DEFINE m == size' \div 8
    <3>1. /\ k' = m /\ m \in Nat /\ Cells' = 0 .. m - 1
          /\ rands' = [n \in 0 .. m - 1 |-> n] /\ links' = [n \in 0 .. m - 1 |-> 0]
      BY <1>1, <1>5, <2>2 DEF Cells
    <3>2. k' <= size' \div 8
      <4>1. m <= m
        BY <3>1
      <4>2. QED
        BY <3>1, <4>1
    <3> HIDE DEF m
    <3>3. rands' \in [Cells -> Cells]' /\ links' \in [Cells -> Cells]'
      BY <3>1
    <3>4. \A c \in Cells' : \E n \in 0 .. k' - 1 : rands'[n] = c
      BY <3>1
    <3>5. QED
      BY <2>2, <3>2, <3>3, <3>4 DEF ChaseInv
  <2>3. QED
    BY <1>2, <2>1, <2>2
<1>13. QED
  BY <1>3, <1>7, <1>9, <1>10, <1>11, <1>12 DEF KernelInv

LEMMA NoMoreSizeStep ==
  ASSUME KernelInv, NoMoreSize
  PROVE  KernelInv'
<1>1. /\ at = "round" /\ at' = "end" /\ UNCHANGED validationVars
      /\ UNCHANGED <<todo, job, chunk, low, sizes, alloc, i, size, k, left, r11, r12, rax,
                     out, measured>>
  BY DEF NoMoreSize, sizeVars, linkVars, loopVars
<1>2. /\ ValidationInv' /\ ValidationTypeOK' /\ job' \in Call
      /\ phase' = IF job'.kind = "oi" THEN "ready" ELSE "idle"
  BY <1>1, SameCall
<1>3. TypeOK'
  BY <1>1, <1>2 DEF KernelInv, TypeOK
<1>4. JobInv'
  BY <1>1, <1>2 DEF JobInv
<1>5. QED
  BY <1>1, <1>2, <1>3, <1>4, IdleInv

\* A buffer in use has a line at least, so that a latency stream has a cell.
LEMMA BufferFacts ==
  ASSUME KernelInv, at \in Used, Streams
  PROVE  /\ size >= 8 /\ size <= alloc
         /\ size \div 8 \in Positive /\ 8 * (size \div 8) <= size
         /\ Divides(ChunkOf(job), size)
<1>1. /\ size \in Positive /\ size <= alloc /\ Divides(chunk, size)
      /\ Divides(ChunkOf(job), chunk) /\ Divides(Alignement, chunk)
      /\ chunk \in Positive /\ job \in Call /\ job.kind # "fpeak"
  BY TypeFacts DEF KernelInv, SizeInv, ChunkInv, JobInv, Used, Sized, Aligned, Streams,
     Positive
<1>2. ChunkOf(job) \in Positive
  BY <1>1, ChunkFacts DEF KernelInv
<1>3. Divides(Alignement, size) /\ Divides(ChunkOf(job), size)
  BY <1>1, <1>2, StreamFacts, DividesTrans DEF Positive
<1>4. Alignement <= size
  BY <1>1, <1>3, StreamFacts, DividesRest
<1>5. size \in Nat /\ size >= 8
  BY <1>1, <1>4, StreamFacts DEF Positive
<1>6. size \div 8 \in Positive /\ 8 * (size \div 8) <= size
  BY ONLY <1>5 DEF Positive
<1>7. QED
  BY <1>1, <1>3, <1>5, <1>6

LEMMA LinkStep ==
  ASSUME KernelInv, Link
  PROVE  KernelInv'
<1> DEFINE v == Rand % k
<1>1. /\ at = "links" /\ at' = "links" /\ k > 0 /\ k' = k - 1
      /\ links' = [links EXCEPT ![k - 1] = rands[v]]
      /\ rands' = [rands EXCEPT ![v] = rands[k - 1]]
      /\ UNCHANGED validationVars
      /\ UNCHANGED <<todo, job, chunk, low, sizes, alloc, i, size, left, r11, r12, rax,
                     out, measured>>
  BY DEF Link, sizeVars, loopVars
<1>2. /\ ValidationInv' /\ ValidationTypeOK' /\ job' \in Call
      /\ phase' = IF job'.kind = "oi" THEN "ready" ELSE "idle"
      /\ BoundsInv' /\ ChunkInv' /\ SizesInv'
  BY <1>1, SameSizes DEF Sized, Aligned
<1>3. /\ k \in Nat /\ k <= size \div 8 /\ size \div 8 \in Positive
      /\ links \in [Cells -> Cells] /\ rands \in [Cells -> Cells]
  BY <1>1, TypeFacts, BufferFacts DEF KernelInv, ChaseInv, JobInv, Streams, Used, Sized,
     Aligned
<1>4. v \in 0 .. k - 1
  <2>1. 1 + (k % Len(Draws)) \in 1 .. Len(Draws)
    <3>1. Len(Draws) \in Positive
      BY StreamAssumption DEF Positive
    <3>2. k % Len(Draws) \in Nat /\ k % Len(Draws) < Len(Draws)
      BY <1>3, <3>1, DivModFacts
    <3>3. QED
      BY <3>1, <3>2 DEF Positive
  <2>2. Rand \in Nat
    BY <2>1, StreamAssumption DEF Rand
  <2>3. k \in Positive
    BY <1>1, <1>3 DEF Positive
  <2>4. Rand % k \in Nat /\ Rand % k < k
    BY <2>2, <2>3, DivModFacts
  <2>5. QED
    BY <1>3, <2>4
<1> HIDE DEF v
<1> DEFINE m == size \div 8
<1>5. Cells = 0 .. m - 1 /\ Cells' = Cells /\ size' = size
  BY <1>1 DEF Cells
<1>6. v \in Cells /\ k - 1 \in Cells /\ k' \in Nat
  BY <1>1, <1>3, <1>4, <1>5 DEF Positive
<1>7. links' \in [Cells -> Cells] /\ rands' \in [Cells -> Cells]
  BY <1>1, <1>3, <1>6
<1>8. ASSUME NEW c \in Cells
      PROVE  \/ \E n \in 0 .. k - 2 : rands'[n] = c
             \/ \E n \in Cells : n >= k - 1 /\ links'[n] = c
  <2>1. CASE \E n \in Cells : n >= k /\ links[n] = c
    <3>1. PICK n \in Cells : n >= k /\ links[n] = c
      BY <2>1
    <3>2. n # k - 1 /\ n >= k - 1
      BY <1>3, <1>5, <3>1 DEF Positive
    <3>3. links'[n] = c
      BY <1>1, <1>3, <3>1, <3>2
    <3>4. QED
      BY <3>2, <3>3
  <2>2. CASE \E n \in 0 .. k - 1 : rands[n] = c
    <3>1. PICK n \in 0 .. k - 1 : rands[n] = c
      BY <2>2
    <3>2. CASE n = v
      <4>1. links'[k - 1] = c
        BY <1>1, <1>3, <1>6, <3>1, <3>2
      <4>2. QED
        BY <1>3, <1>6, <4>1
    <3>3. CASE n # v /\ n = k - 1
      <4>1. rands'[v] = c
        BY <1>1, <1>3, <1>6, <3>1, <3>3
      <4>2. v \in 0 .. k - 2
        BY <1>3, <1>4, <3>3
      <4>3. QED
        BY <4>1, <4>2
    <3>4. CASE n # v /\ n # k - 1
      <4>1. n \in Cells /\ n \in 0 .. k - 2
        BY <1>3, <1>5, <3>1, <3>4 DEF Positive
      <4>2. rands'[n] = c
        BY <1>1, <1>3, <3>1, <3>4, <4>1
      <4>3. QED
        BY <4>1, <4>2
    <3>5. QED
      BY <3>2, <3>3, <3>4
  <2>3. QED
    BY <1>1, <2>1, <2>2 DEF KernelInv, ChaseInv
<1>9. ChaseInv'
  <2>1. k' - 1 = k - 2 /\ k' = k - 1
    BY <1>1, <1>3
  <2>2. k' <= size' \div 8
    BY <1>1, <1>3, <1>5 DEF Positive
  <2>3. QED
    BY <1>1, <1>5, <1>7, <1>8, <2>1, <2>2, SMTT(20) DEF ChaseInv
<1>10. TypeOK'
  BY <1>1, <1>2, <1>6 DEF KernelInv, TypeOK
<1>11. JobInv'
  BY <1>1, <1>2 DEF KernelInv, JobInv
<1>12. SizeInv'
  BY <1>1 DEF KernelInv, SizeInv, Streams
<1>13. LoopInv'
  BY <1>1 DEF LoopInv
<1>14. QED
  BY <1>2, <1>9, <1>10, <1>11, <1>12, <1>13 DEF KernelInv

LEMMA BeginChaseStep ==
  ASSUME KernelInv, BeginChase
  PROVE  KernelInv'
<1> DEFINE l == (Repeat * size) \div 4
<1>1. /\ at = "links" /\ at' = "chase" /\ k = 0 /\ left' = l /\ rax' = 0
      /\ UNCHANGED validationVars
      /\ UNCHANGED <<todo, job, chunk, low, sizes, alloc, i, size, links, k, r11, r12, out,
                     measured>>
  BY DEF BeginChase, sizeVars, linkVars
<1>2. /\ ValidationInv' /\ ValidationTypeOK' /\ job' \in Call
      /\ phase' = IF job'.kind = "oi" THEN "ready" ELSE "idle"
      /\ BoundsInv' /\ ChunkInv' /\ SizesInv'
  BY <1>1, SameSizes DEF Sized, Aligned
<1>3. size \in Nat /\ size >= 8 /\ size \div 8 \in Positive
  BY <1>1, TypeFacts, BufferFacts DEF KernelInv, JobInv, Streams, Used, Sized, Aligned
<1>4. l \in Nat /\ l > 0
  <2> DEFINE p == Repeat * size
  <2>1. 1 * size <= Repeat * size
    BY <1>3, StreamFacts, ProductOrder DEF Positive
  <2>2. p \in Nat
    BY <1>3, StreamFacts DEF Positive
  <2> HIDE DEF p
  <2>3. p >= 8
    BY <1>3, <2>1, <2>2 DEF p
  <2>4. p \div 4 \in Nat /\ p \div 4 > 0
    BY ONLY <2>2, <2>3
  <2>5. QED
    BY <2>4 DEF p
<1> HIDE DEF l
<1>5. TypeOK'
  BY <1>1, <1>2, <1>4 DEF KernelInv, TypeOK
<1>6. JobInv'
  BY <1>1, <1>2 DEF KernelInv, JobInv
<1>7. SizeInv'
  BY <1>1 DEF KernelInv, SizeInv, Streams, Used, Sized, Aligned
<1>8. LoopInv'
  BY <1>1, <1>4 DEF LoopInv
<1>9. ChaseInv'
  <2>1. Cells' = Cells /\ 0 \in Cells
    BY <1>1, <1>3 DEF Cells, Positive
  <2>2. links \in [Cells -> Cells] /\ \A c \in Cells : \E n \in Cells : links[n] = c
    BY <1>1 DEF KernelInv, ChaseInv
  <2>3. QED
    BY <1>1, <2>1, <2>2 DEF ChaseInv
<1>10. QED
  BY <1>2, <1>5, <1>6, <1>7, <1>8, <1>9 DEF KernelInv

LEMMA ChaseStep ==
  ASSUME KernelInv, Chase
  PROVE  KernelInv'
<1>1. /\ at = "chase" /\ rax' = links[rax] /\ left' = left - 1
      /\ at' = IF left' = 0 THEN "report" ELSE "chase"
      /\ UNCHANGED validationVars
      /\ UNCHANGED <<todo, job, chunk, low, sizes, alloc, i, size, links, k, r11, r12, out,
                     measured>>
  BY DEF Chase, sizeVars, linkVars
<1>2. at' \in {"report", "chase"} /\ (at' = "chase" => left' # 0)
  BY <1>1
<1>3. /\ ValidationInv' /\ ValidationTypeOK' /\ job' \in Call
      /\ phase' = IF job'.kind = "oi" THEN "ready" ELSE "idle"
      /\ BoundsInv' /\ ChunkInv' /\ SizesInv'
  BY <1>1, <1>2, SameSizes DEF Sized, Aligned
<1>4. /\ links \in [Cells -> Cells] /\ rax \in Cells
      /\ \A c \in Cells : \E n \in Cells : links[n] = c
      /\ left \in Nat /\ left > 0
  BY <1>1, TypeFacts DEF KernelInv, ChaseInv, LoopInv
<1>5. rax' \in Cells /\ Cells' = Cells
  BY <1>1, <1>4 DEF Cells
<1>6. rax' \in Nat /\ left' \in Nat
  BY <1>1, <1>4, <1>5 DEF Cells
<1>7. TypeOK'
  BY <1>1, <1>2, <1>3, <1>6 DEF KernelInv, TypeOK
<1>8. JobInv'
  BY <1>1, <1>2, <1>3 DEF KernelInv, JobInv
<1>9. SizeInv'
  BY <1>1, <1>2 DEF KernelInv, SizeInv, Streams, Used, Sized, Aligned
<1>10. LoopInv'
  BY <1>2, <1>6 DEF LoopInv
<1>11. ChaseInv'
  BY <1>1, <1>2, <1>4, <1>5 DEF ChaseInv
<1>12. QED
  BY <1>3, <1>7, <1>8, <1>9, <1>10, <1>11 DEF KernelInv

LEMMA PassStep ==
  ASSUME KernelInv, Pass
  PROVE  KernelInv'
<1>1. /\ at = "pass" /\ at' = "chunk" /\ r11' = 0 /\ r12' = size
      /\ UNCHANGED validationVars
      /\ UNCHANGED <<todo, job, chunk, low, sizes, alloc, i, size, k, left, rax, out,
                     measured>>
  BY DEF Pass, sizeVars, linkVars
<1>2. /\ ValidationInv' /\ ValidationTypeOK' /\ job' \in Call
      /\ phase' = IF job'.kind = "oi" THEN "ready" ELSE "idle"
      /\ BoundsInv' /\ ChunkInv' /\ SizesInv' /\ Step' = Step
  BY <1>1, SameSizes DEF Sized, Aligned
<1>3. size \in Nat /\ size >= 8 /\ Divides(ChunkOf(job), size) /\ Step = ChunkOf(job)
  BY <1>1, TypeFacts, BufferFacts, StepFacts
     DEF KernelInv, JobInv, Streams, Used, Sized, Aligned
<1>4. TypeOK'
  BY <1>1, <1>2, <1>3 DEF KernelInv, TypeOK
<1>5. JobInv'
  BY <1>1, <1>2 DEF KernelInv, JobInv
<1>6. SizeInv'
  BY <1>1 DEF KernelInv, SizeInv, Streams, Used, Sized, Aligned
<1>7. LoopInv'
  <2>1. left' > 0
    BY <1>1 DEF KernelInv, LoopInv
  <2>2. r11' + r12' = size' /\ r12' > 0
    BY <1>1, <1>3
  <2>3. Divides(Step', r12')
    BY <1>1, <1>2, <1>3
  <2>4. QED
    BY <2>1, <2>2, <2>3 DEF LoopInv
<1>8. ChaseInv'
  BY <1>1 DEF ChaseInv
<1>9. QED
  BY <1>2, <1>4, <1>5, <1>6, <1>7, <1>8 DEF KernelInv

LEMMA IterateStep ==
  ASSUME KernelInv, Iterate
  PROVE  KernelInv'
<1> DEFINE c == Step
<1>1. /\ at = "chunk" /\ r11' = r11 + c /\ r12' = r12 - c
      /\ UNCHANGED validationVars
      /\ UNCHANGED <<todo, job, chunk, low, sizes, alloc, i, size, k, rax, out, measured>>
      /\ r12' # 0 => at' = "chunk" /\ left' = left
      /\ r12' = 0 => left' = left - 1 /\ at' = IF left' = 0 THEN "report" ELSE "pass"
  BY DEF Iterate, sizeVars, linkVars
<1>2. at' \in {"chunk", "report", "pass"}
  BY <1>1
<1>3. /\ ValidationInv' /\ ValidationTypeOK' /\ job' \in Call
      /\ phase' = IF job'.kind = "oi" THEN "ready" ELSE "idle"
      /\ BoundsInv' /\ ChunkInv' /\ SizesInv' /\ Step' = c
  BY <1>1, <1>2, SameSizes DEF Sized, Aligned
<1>4. /\ c \in Positive /\ left \in Nat /\ left > 0 /\ r11 \in Nat /\ r12 \in Positive
      /\ r11 + r12 = size /\ Divides(c, r12) /\ size \in Nat
  BY <1>1, TypeFacts, StepFacts DEF KernelInv, LoopInv, Positive
<1> HIDE DEF c
<1>5. r12 - c \in Nat /\ Divides(c, r12 - c) /\ r11 + c \in Nat
  BY <1>4, DividesRest DEF Positive
<1>6. left' \in Nat
  BY <1>1, <1>4
<1>7. TypeOK'
  BY <1>1, <1>2, <1>3, <1>5, <1>6 DEF KernelInv, TypeOK
<1>8. JobInv'
  BY <1>1, <1>2, <1>3 DEF KernelInv, JobInv
<1>9. SizeInv'
  BY <1>1, <1>2 DEF KernelInv, SizeInv, Streams, Used, Sized, Aligned
<1>10. LoopInv'
  <2>1. at' # "report" => left' > 0
    BY <1>1, <1>4
  <2>2. at' = "chunk" => r11' + r12' = size' /\ r12' > 0 /\ Divides(Step', r12')
    BY <1>1, <1>3, <1>4, <1>5 DEF Positive
  <2>3. QED
    BY <1>2, <2>1, <2>2 DEF LoopInv
<1>11. ChaseInv'
  BY <1>2 DEF ChaseInv
<1>12. QED
  BY <1>3, <1>7, <1>8, <1>9, <1>10, <1>11 DEF KernelInv

LEMMA FpeakStep ==
  ASSUME KernelInv, ComputeFlops \/ ComputeOverhead
  PROVE  KernelInv'
<1>1. /\ at \in {"flops", "overhead"} /\ at' \in {"flops", "overhead", "report"}
      /\ UNCHANGED validationVars
      /\ UNCHANGED <<todo, job, chunk, low, sizes, alloc, i, size, k, r11, r12, rax, out,
                     measured>>
  BY DEF ComputeFlops, ComputeOverhead, sizeVars, linkVars
<1>2. at # "idle" /\ at' # "idle"
  BY <1>1
<1>3. /\ ValidationInv' /\ ValidationTypeOK' /\ job' \in Call
      /\ phase' = IF job'.kind = "oi" THEN "ready" ELSE "idle"
  BY <1>1, <1>2, SameCall
<1>4. left \in Nat /\ left > 0 /\ job.kind = "fpeak" /\ Repeat \in Nat /\ Repeat > 0
  BY <1>1, TypeFacts, StreamFacts DEF KernelInv, LoopInv, JobInv, Positive
<1>5. left' \in Nat /\ (at' # "report" => left' > 0)
  <2>1. CASE ComputeFlops
    BY <1>4, <2>1 DEF ComputeFlops
  <2>2. CASE ComputeOverhead
    BY <1>4, <2>2 DEF ComputeOverhead
  <2>3. QED
    BY <2>1, <2>2
<1>6. TypeOK'
  BY <1>1, <1>3, <1>5 DEF KernelInv, TypeOK
<1>7. JobInv'
  BY <1>1, <1>3, <1>4 DEF JobInv
<1>8. LoopInv'
  BY <1>1, <1>5 DEF LoopInv
<1>9. BoundsInv' /\ ChunkInv' /\ SizesInv' /\ SizeInv' /\ ChaseInv'
  BY <1>1, <1>4 DEF BoundsInv, ChunkInv, SizesInv, SizeInv, ChaseInv, Streams
<1>10. QED
  BY <1>3, <1>6, <1>7, <1>8, <1>9 DEF KernelInv

LEMMA ReportedType ==
  ASSUME KernelInv, at = "report"
  PROVE  Reported \in [bytes : Nat, flops : Nat, ins : Nat]
<1>1. /\ job \in Call /\ (job.kind = "oi" => phase = "ready")
      /\ size \in Nat /\ Repeat \in Nat /\ SimdFlops \in Nat /\ SimdBytes \in Positive
      /\ code \in CodeType
  BY TypeFacts, StreamFacts, SimdFacts DEF KernelInv, JobInv, Positive
<1> DEFINE p == Repeat * size
<1>2. p \in Nat /\ size * Repeat = p
  BY <1>1
<1>3. CASE job.kind = "stream"
  <2>1. Reported = [bytes |-> p, flops |-> 0, ins |-> p \div SimdBytes]
    BY <1>2, <1>3 DEF Reported
  <2> HIDE DEF p
  <2>2. p \div SimdBytes \in Nat
    BY <1>1, <1>2, DivModFacts
  <2>3. QED
    BY <1>2, <2>1, <2>2
<1>4. CASE job.kind = "oi"
  <2> DEFINE x == p * code.flops
             y == p * code.ins
             b == code.bytes
  <2>1. Reported = [bytes |-> p, flops |-> x \div b, ins |-> y \div b]
    BY <1>4 DEF Reported
  <2>2. b \in Positive
    BY <1>1, <1>4 DEF KernelInv, ValidationInv, CodeCounts, ChunkOfCode, CodeType, Positive
  <2>3. x \in Nat /\ y \in Nat
    BY <1>1, <1>2 DEF CodeType
  <2> HIDE DEF p, x, y, b
  <2>4. x \div b \in Nat /\ y \div b \in Nat
    BY <2>2, <2>3, DivModFacts
  <2>5. QED
    BY <1>2, <2>1, <2>4
<1>5. CASE job.kind = "latency"
  <2>1. Reported = [bytes |-> p, flops |-> 0, ins |-> p \div 4]
    BY <1>5 DEF Reported
  <2> HIDE DEF p
  <2>2. p \div 4 \in Nat
    BY ONLY <1>2
  <2>3. QED
    BY <1>2, <2>1, <2>2
<1>6. CASE job.kind = "fpeak"
  <2> DEFINE x == 16 * SimdFlops * Repeat * PerElement(job.unit)
  <2>1. Reported = [bytes |-> 0, flops |-> x, ins |-> Repeat * 16]
    BY <1>6 DEF Reported
  <2>2. PerElement(job.unit) \in Nat
    BY DEF PerElement
  <2>3. x \in Nat /\ Repeat * 16 \in Nat
    BY <1>1, <2>2
  <2> HIDE DEF x
  <2>4. QED
    BY <2>1, <2>3
<1>7. QED
  BY <1>1, <1>3, <1>4, <1>5, <1>6, CallFacts

LEMMA ReportStep ==
  ASSUME KernelInv, Report
  PROVE  KernelInv'
<1>1. /\ at = "report" /\ at' = "reported" /\ out' = Reported /\ measured' = measured + 1
      /\ UNCHANGED validationVars
      /\ UNCHANGED <<todo, job, chunk, low, sizes, alloc, i, size, k, left, r11, r12, rax>>
  BY DEF Report, sizeVars, linkVars, loopVars
<1>2. /\ ValidationInv' /\ ValidationTypeOK' /\ job' \in Call
      /\ phase' = IF job'.kind = "oi" THEN "ready" ELSE "idle"
      /\ BoundsInv' /\ ChunkInv' /\ SizesInv'
  BY <1>1, SameSizes DEF Sized, Aligned
<1>3. out' \in [bytes : Nat, flops : Nat, ins : Nat] /\ measured' \in Nat
  BY <1>1, ReportedType, TypeFacts DEF KernelInv
<1>4. TypeOK'
  BY <1>1, <1>2, <1>3 DEF KernelInv, TypeOK
<1>5. JobInv'
  BY <1>1, <1>2 DEF JobInv
<1>6. SizeInv'
  BY <1>1 DEF KernelInv, SizeInv, Streams, Used, Sized, Aligned
<1>7. LoopInv' /\ ChaseInv'
  BY <1>1 DEF LoopInv, ChaseInv
<1>8. QED
  BY <1>2, <1>4, <1>5, <1>6, <1>7 DEF KernelInv

LEMMA ContinueStep ==
  ASSUME KernelInv, Continue
  PROVE  KernelInv'
<1>1. /\ at = "reported" /\ at' \in {"end", "round"} /\ UNCHANGED validationVars
      /\ at' = "round" => job.kind # "fpeak" /\ i' = i + 1
      /\ at' = "end" => i' = i
      /\ UNCHANGED <<todo, job, chunk, low, sizes, alloc, size, k, left, r11, r12, rax,
                     out, measured>>
  BY DEF Continue, sizeVars, linkVars, loopVars
<1>2. at # "idle" /\ at' # "idle"
  BY <1>1
<1>3. /\ ValidationInv' /\ ValidationTypeOK' /\ job' \in Call
      /\ phase' = IF job'.kind = "oi" THEN "ready" ELSE "idle"
  BY <1>1, <1>2, SameCall
<1>4. i' \in 0 .. NSizes
  <2>1. i \in 0 .. NSizes /\ NSizes \in Nat
    BY TypeFacts, StreamFacts DEF KernelInv, Positive
  <2>2. at' = "round" => i < NSizes
    BY <1>1 DEF KernelInv, SizeInv, Streams, Used, Sized, Aligned
  <2>3. QED
    BY <1>1, <2>1, <2>2
<1>5. TypeOK'
  BY <1>1, <1>3, <1>4 DEF KernelInv, TypeOK
<1>6. JobInv'
  BY <1>1, <1>3 DEF JobInv
<1>7. CASE at' = "end"
  BY <1>3, <1>5, <1>6, <1>7, IdleInv
<1>8. CASE at' = "round"
  <2>1. BoundsInv' /\ ChunkInv' /\ SizesInv'
    BY <1>1, <1>8, SameSizes DEF Sized, Aligned
  <2>2. SizeInv' /\ LoopInv' /\ ChaseInv'
    BY <1>8 DEF SizeInv, LoopInv, ChaseInv, Used
  <2>3. QED
    BY <1>3, <1>5, <1>6, <2>1, <2>2 DEF KernelInv
<1>9. QED
  BY <1>1, <1>7, <1>8

LEMMA StutterStep ==
  ASSUME KernelInv, UNCHANGED vars
  PROVE  KernelInv'
<1>1. /\ UNCHANGED validationVars
      /\ UNCHANGED <<phase, oi_chunk_size, code>>
      /\ UNCHANGED <<todo, job, at, ppcm, chunk, low, sizes, alloc, i, size, links, rands, k,
                     left, r11, r12, rax, out, measured>>
  BY DEF vars, validationVars, sizeVars, linkVars, loopVars
<1>2. ValidationInv' /\ ValidationTypeOK'
  BY <1>1, SameValidation DEF KernelInv
<1>3. TypeOK'
  BY <1>1, <1>2 DEF KernelInv, TypeOK
<1>4. JobInv'
  BY <1>1 DEF KernelInv, JobInv
<1>5. BoundsInv' /\ ChunkInv' /\ SizesInv' /\ SizeInv'
  BY <1>1 DEF KernelInv, BoundsInv, ChunkInv, SizesInv, SizeInv, Streams, ChunkOf
<1>6. LoopInv' /\ ChaseInv'
  BY <1>1 DEF KernelInv, LoopInv, ChaseInv, Cells, Step
<1>7. QED
  BY <1>2, <1>3, <1>4, <1>5, <1>6 DEF KernelInv

(***************************************************************************)
(* Theorems                                                                *)
(***************************************************************************)
\* Steps that are not those of a validation kernel leave it alone.
LEMMA KernelStep ==
  ASSUME KernelInv, [Next]_vars
  PROVE  KernelInv' /\ [ValidationNext]_validationVars
<1>1. CASE BeginOi
  BY <1>1, BeginOiStep
<1>2. CASE Validate
  BY <1>2, ValidateStep
<1>3. CASE BeginKernel
  BY <1>3, BeginKernelStep
<1>4. CASE BeginStream
  BY <1>4, BeginStreamStep
<1>5. CASE BeginFpeak
  BY <1>5, BeginFpeakStep
<1>6. CASE End
  BY <1>6, EndStep
<1>7. CASE SetBounds \/ AlignDivide \/ Align \/ SetSizes
  <2>1. UNCHANGED validationVars
    BY <1>7 DEF SetBounds, AlignDivide, Align, SetSizes
  <2>2. QED
    BY <1>7, <2>1, SetBoundsStep, AlignDivideStep, AlignStep, SetSizesStep
<1>8. CASE SkipSize \/ UseSize \/ NoMoreSize \/ Continue
  <2>1. UNCHANGED validationVars
    BY <1>8 DEF SkipSize, UseSize, NoMoreSize, Continue
  <2>2. QED
    BY <1>8, <2>1, SkipSizeStep, UseSizeStep, NoMoreSizeStep, ContinueStep
<1>9. CASE Link \/ BeginChase \/ Chase
  <2>1. UNCHANGED validationVars
    BY <1>9 DEF Link, BeginChase, Chase
  <2>2. QED
    BY <1>9, <2>1, LinkStep, BeginChaseStep, ChaseStep
<1>10. CASE Pass \/ Iterate \/ ComputeFlops \/ ComputeOverhead \/ Report
  <2>1. UNCHANGED validationVars
    BY <1>10 DEF Pass, Iterate, ComputeFlops, ComputeOverhead, Report
  <2>2. QED
    BY <1>10, <2>1, PassStep, IterateStep, FpeakStep, ReportStep
<1>11. CASE Done \/ UNCHANGED vars
  <2>1. UNCHANGED vars /\ UNCHANGED validationVars
    BY <1>11 DEF Done, vars
  <2>2. QED
    BY <2>1, StutterStep
<1>12. QED
  BY <1>1, <1>2, <1>3, <1>4, <1>5, <1>6, <1>7, <1>8, <1>9, <1>10, <1>11 DEF Next

LEMMA KernelInvariant == Spec => []KernelInv
<1>1. KernelInv /\ [Next]_vars => KernelInv'
  BY KernelStep
<1>2. QED
  BY <1>1, KernelInitInv, PTL DEF Spec

\* The buffers, sizes and counters keep their types for every line, memory and
\* program: no size or counter goes below 0, and no division is by 0.
THEOREM KernelTypeCorrect == Spec => []TypeOK
<1>1. KernelInv => TypeOK
  BY DEF KernelInv
<1>2. QED
  BY <1>1, KernelInvariant, PTL

\* roofline_oi() uses benchmark_validation() as Validation says: every behaviour
\* of the calls is one of it.
THEOREM KernelValidates == Spec => ValidationSpec
<1>1. Init => ValidationInit
  BY DEF Init
<1>2. KernelInv /\ [Next]_vars => [ValidationNext]_validationVars
  BY KernelStep
<1>3. QED
  BY <1>1, <1>2, KernelInvariant, PTL DEF Spec, ValidationSpec

\* Between streams, latency and compute kernels, the kernels of validation have
\* the intensity asked.
THEOREM KernelIntensity == Spec => []IntensityReached
BY KernelValidates, IntensityCorrect, PTL

\* So have its kernels of two loads and a store whole groups.
THEOREM KernelGroups == Spec => []TwoLoadsAStore
BY KernelValidates, WholeGroups, PTL

\* No kernel leaves its buffer, whichever chunk the kernel before it left.
THEOREM StaysInBuffer == Spec => []InBuffer
<1>1. ASSUME KernelInv PROVE InBuffer
  <2>1. ASSUME at = "chunk" PROVE r11 + Accessed <= size /\ size <= alloc
    <3>1. /\ r11 + r12 = size /\ Divides(Step, r12) /\ r12 \in Positive /\ r11 \in Nat
          /\ Step \in Positive /\ Accessed = Step
      BY <1>1, <2>1, TypeFacts, StepFacts DEF KernelInv, LoopInv, Positive
    <3>2. Step <= r12
      BY <3>1, DividesRest
    <3>3. size <= alloc
      BY <1>1, <2>1, BufferFacts DEF KernelInv, JobInv, Streams, Used, Sized, Aligned
    <3>4. QED
      BY <3>1, <3>2, <3>3 DEF Positive
  <2>2. ASSUME at = "chase" PROVE 8 * rax + 8 <= size /\ size <= alloc
    <3>1. /\ rax \in Cells /\ size \div 8 \in Positive /\ 8 * (size \div 8) <= size
          /\ size <= alloc /\ size \in Nat
      BY <1>1, <2>2, TypeFacts, BufferFacts
         DEF KernelInv, ChaseInv, JobInv, Streams, Used, Sized, Aligned
    <3>2. QED
      BY <3>1 DEF Cells, Positive
  <2>3. QED
    BY <2>1, <2>2 DEF InBuffer
<1>2. QED
  BY <1>1, KernelInvariant, PTL

\* Every cell of a latency stream is linked to by one cell, for every size and
\* every sequence of numbers drawn.
THEOREM LatencyPermuted == Spec => []LinksPermuted
<1>1. ASSUME KernelInv PROVE LinksPermuted
  <2>1. SUFFICES ASSUME at = "chase" PROVE {links[n] : n \in Cells} = Cells
    BY DEF LinksPermuted
  <2>2. /\ links \in [Cells -> Cells]
        /\ \A c \in Cells : \E n \in Cells : links[n] = c
    BY <1>1, <2>1 DEF KernelInv, ChaseInv
  <2>3. QED
    BY <2>2
<1>2. QED
  BY <1>1, KernelInvariant, PTL

(***************************************************************************)
(* The work reported                                                       *)
(***************************************************************************)
Counted == [loads : Int, stores : Int, fuops : Int]

Times(q, w) == [loads |-> q * w.loads, stores |-> q * w.stores, fuops |-> q * w.fuops]

\* What the loops have done of the buffer is a whole number of iterations.
WorkInv ==
  /\ work \in Counted
  /\ at = "report" => left = 0
  /\ at \in {"pass", "chunk"} => left <= Repeat
  /\ at \in {"pass", "chunk", "report"} /\ job.kind \in {"stream", "oi"} =>
       \E q \in Nat :
         /\ work = Times(q, IterationWork)
         /\ q * Step = (Repeat - left) * size + (IF at = "chunk" THEN r11 ELSE 0)
  /\ at \in {"chase", "report"} /\ job.kind = "latency" =>
       work = [NoWork EXCEPT !.loads = ((Repeat * size) \div 4) - left]
  /\ at = "flops" => work = [NoWork EXCEPT !.fuops = 32 * (Repeat - left)]
  /\ at = "overhead" => work = [NoWork EXCEPT !.fuops = 16 * (Repeat + left)]
  /\ at = "report" /\ job.kind = "fpeak" => work = [NoWork EXCEPT !.fuops = 16 * Repeat]
  /\ WorkReported

LEMMA IterationFacts ==
  ASSUME KernelInv, job.kind \in {"stream", "oi"}
  PROVE  IterationWork \in [loads : Nat, stores : Nat, fuops : Nat]
<1>1. CASE job.kind = "stream"
  BY <1>1 DEF IterationWork, MovWork, Strides
<1>2. CASE job.kind = "oi"
  BY <1>2, TypeFacts DEF KernelInv, IterationWork, CodeWork, CodeType
<1>3. QED
  BY <1>1, <1>2

LEMMA TimesFacts ==
  ASSUME NEW q \in Nat, NEW w \in [loads : Nat, stores : Nat, fuops : Nat]
  PROVE  /\ Times(q, w) \in Counted
         /\ Plus(Times(q, w), w) = Times(q + 1, w)
         /\ Times(0, w) = NoWork
         /\ Times(q, w).loads + Times(q, w).stores = q * (w.loads + w.stores)
<1>1. /\ q * w.loads \in Nat /\ q * w.stores \in Nat /\ q * w.fuops \in Nat
  OBVIOUS
<1>2. /\ q * w.loads + w.loads = (q + 1) * w.loads
      /\ q * w.stores + w.stores = (q + 1) * w.stores
      /\ q * w.fuops + w.fuops = (q + 1) * w.fuops
  OBVIOUS
<1>3. 0 * w.loads = 0 /\ 0 * w.stores = 0 /\ 0 * w.fuops = 0
  OBVIOUS
<1>4. q * w.loads + q * w.stores = q * (w.loads + w.stores)
  OBVIOUS
<1>5. Times(q, w) \in Counted
  BY <1>1 DEF Times, Counted
<1>6. Plus(Times(q, w), w) = Times(q + 1, w)
  BY <1>2 DEF Times, Plus
<1>7. Times(0, w) = NoWork
  BY <1>3 DEF Times, NoWork
<1>8. QED
  BY <1>4, <1>5, <1>6, <1>7 DEF Times

LEMMA ExactProduct ==
  ASSUME NEW a \in Nat, NEW d \in Positive
  PROVE  (a * d) \div d = a
BY DEF Positive

\* After the loops, what Reported computes from the size is the work.
LEMMA ReportedWork ==
  ASSUME KernelInv, WorkInv, Report
  PROVE  WorkReported'
<1>1. /\ at = "report" /\ out' = Reported /\ at' = "reported"
      /\ UNCHANGED <<job, work, units>>
  BY DEF Report, loopVars, validationVars
<1>2. job \in Call /\ left = 0 /\ (job.kind = "oi" => phase = "ready")
  BY <1>1 DEF KernelInv, JobInv, WorkInv
<1>3. /\ size \in Nat /\ Repeat \in Nat /\ SimdFlops \in Positive /\ SimdBytes \in Positive
      /\ code \in CodeType
  BY <1>2, TypeFacts, StreamFacts, SimdFacts DEF KernelInv, Positive
<1> DEFINE p == Repeat * size
<1>4. p \in Nat /\ size * Repeat = p /\ (Repeat - left) * size + 0 = p
  BY <1>2, <1>3
<1>5. CASE job.kind = "stream"
  <2>1. PICK q \in Nat : work = Times(q, IterationWork) /\ q * Step = p
    BY <1>1, <1>4, <1>5 DEF WorkInv
  <2>2. /\ IterationWork \in [loads : Nat, stores : Nat, fuops : Nat]
        /\ IterationWork.loads + IterationWork.stores = 30 /\ IterationWork.fuops = 0
    BY <1>5, IterationFacts DEF IterationWork, MovWork, Strides
  <2>3. work.loads + work.stores = q * 30
    BY <2>1, <2>2, TimesFacts
  <2>4. work.fuops = 0
    BY <2>1, <2>2 DEF Times
  <2>5. p = (q * 30) * SimdBytes
    BY <1>3, <1>5, <2>1, ChunkAssumption DEF Step, Strides, Positive
  <2>6. q * 30 \in Nat
    OBVIOUS
  <2>7. p \div SimdBytes = q * 30
    BY <1>3, <2>5, <2>6, ExactProduct
  <2>8. out' = [bytes |-> p, flops |-> 0, ins |-> p \div SimdBytes]
    BY <1>1, <1>4, <1>5 DEF Reported
  <2> HIDE DEF p
  <2>9. 0 * SimdFlops * 0 = 0
    BY <1>3 DEF Positive
  <2>10. QED
    BY <1>1, <1>5, <2>3, <2>4, <2>5, <2>6, <2>7, <2>8, <2>9 DEF WorkReported
<1>6. CASE job.kind = "oi"
  <2> DEFINE b == code.bytes
             e == PerElement(Unit)
  <2>1. PICK q \in Nat : work = Times(q, IterationWork) /\ q * Step = p
    BY <1>1, <1>4, <1>6 DEF WorkInv
  <2>2. /\ b = code.offset /\ b \in Positive /\ b = Muops(code) * SimdBytes
        /\ code.flops = code.fuops * (SimdFlops * e)
        /\ code.ins = code.fuops + Muops(code)
    BY <1>2, <1>3, <1>6 DEF KernelInv, ValidationInv, CodeCounts, ChunkOfCode, CodeType,
         Positive
  <2>3. /\ code.flops \in Nat /\ code.ins \in Nat /\ code.fuops \in Nat
        /\ Muops(code) \in Nat /\ e \in Nat
    BY <1>3 DEF CodeType, Muops, PerElement
  <2>4. /\ work.loads + work.stores = q * Muops(code) /\ work.fuops = q * code.fuops
    <3>1. /\ IterationWork \in [loads : Nat, stores : Nat, fuops : Nat]
          /\ IterationWork.loads + IterationWork.stores = Muops(code)
          /\ IterationWork.fuops = code.fuops
      BY <1>6, IterationFacts DEF IterationWork, CodeWork, Muops
    <3>2. QED
      BY <2>1, <3>1, TimesFacts DEF Times
  <2>5. p = q * b
    BY <1>6, <2>1, <2>2 DEF Step
  <2>6. out' = [bytes |-> p, flops |-> (p * code.flops) \div b,
                ins |-> (p * code.ins) \div b]
    BY <1>1, <1>6 DEF Reported
  <2> DEFINE u == code.fuops
             v == Muops(code)
             n == q * code.flops
             o == q * code.ins
  <2> HIDE DEF p, b, e, u, v
  <2>7. /\ p * code.flops = n * b /\ n \in Nat
        /\ p * code.ins = o * b /\ o \in Nat
    BY <2>2, <2>3, <2>5 DEF Positive
  <2> HIDE DEF n, o
  <2>8. (n * b) \div b = n /\ (o * b) \div b = o
    BY <2>2, <2>7, ExactProduct
  <2>9. out'.bytes = (work.loads + work.stores) * SimdBytes
    <3>1. q * (v * SimdBytes) = (q * v) * SimdBytes
      BY <1>3, <2>3 DEF Positive, v
    <3>2. QED
      BY <2>2, <2>4, <2>5, <2>6, <3>1 DEF v
  <2>10. out'.flops = work.fuops * SimdFlops * e
    <3>1. n = q * (u * (SimdFlops * e))
      BY <2>2 DEF n, u
    <3>2. q * (u * (SimdFlops * e)) = (q * u) * SimdFlops * e
      BY <1>3, <2>3 DEF Positive, u
    <3>3. QED
      BY <2>4, <2>6, <2>7, <2>8, <3>1, <3>2 DEF u
  <2>11. out'.ins = work.loads + work.stores + work.fuops
    <3>1. o = q * (u + v)
      BY <2>2 DEF o, u, v
    <3>2. q * (u + v) = q * v + q * u
      BY <2>3 DEF u, v
    <3>3. QED
      BY <2>4, <2>6, <2>7, <2>8, <3>1, <3>2 DEF u, v
  <2>12. QED
    BY <1>1, <1>6, <2>9, <2>10, <2>11 DEF WorkReported, e, Unit
<1>7. CASE job.kind = "latency"
  <2>1. work = [NoWork EXCEPT !.loads = (p \div 4) - left]
    BY <1>1, <1>7 DEF WorkInv
  <2>2. out' = [bytes |-> p, flops |-> 0, ins |-> p \div 4]
    BY <1>1, <1>7 DEF Reported
  <2> HIDE DEF p
  <2>3. p \div 4 \in Nat
    BY ONLY <1>4
  <2>4. work.fuops = 0 /\ work.loads + work.stores + work.fuops = p \div 4
    BY <1>2, <2>1, <2>3 DEF NoWork
  <2>5. 0 * SimdFlops * 0 = 0
    BY <1>3 DEF Positive
  <2>6. QED
    BY <1>1, <1>7, <2>2, <2>4, <2>5 DEF WorkReported
<1>8. CASE job.kind = "fpeak"
  <2> DEFINE e == PerElement(job.unit)
  <2>1. work = [NoWork EXCEPT !.fuops = 16 * Repeat]
    BY <1>1, <1>8 DEF WorkInv
  <2>2. out' = [bytes |-> 0, flops |-> 16 * SimdFlops * Repeat * e, ins |-> Repeat * 16]
    BY <1>1, <1>8 DEF Reported
  <2>3. e \in Nat
    BY DEF PerElement
  <2> HIDE DEF e
  <2>4. 16 * SimdFlops * Repeat * e = (16 * Repeat) * SimdFlops * e
    BY <1>3, <2>3 DEF Positive
  <2>5. (0 + 0) * SimdBytes = 0 /\ Repeat * 16 = 0 + 0 + (16 * Repeat)
    BY <1>3 DEF Positive
  <2>6. /\ work.loads = 0 /\ work.stores = 0 /\ work.fuops = 16 * Repeat
    BY <2>1 DEF NoWork
  <2>7. QED
    BY <1>1, <1>8, <2>2, <2>4, <2>5, <2>6 DEF WorkReported, e
<1>9. QED
  BY <1>2, <1>5, <1>6, <1>7, <1>8, CallFacts

LEMMA LoopWork ==
  ASSUME KernelInv, WorkInv, UseSize \/ Pass \/ Iterate
  PROVE  WorkInv'
<1>1. /\ UNCHANGED <<job, code>>
      /\ at' \in {"links", "pass", "chunk", "report"}
      /\ at' = "report" => left' = 0
      /\ job.kind = "latency" => at' = "links"
  BY DEF UseSize, Pass, Iterate, validationVars, KernelInv, JobInv
<1>2. IterationWork' = IterationWork /\ Step' = Step
  BY <1>1 DEF IterationWork, Step, CodeWork, MovWork
<1>3. /\ size \in Nat /\ Repeat \in Nat /\ left \in Nat /\ r11 \in Nat /\ r12 \in Nat
  BY TypeFacts, StreamFacts DEF KernelInv, Positive
<1>4. NoWork \in Counted
  BY DEF NoWork, Counted
<1>5. ASSUME at' = "links" PROVE WorkInv'
  <2>1. UseSize /\ UNCHANGED work
    BY <1>5 DEF UseSize, Pass, Iterate
  <2>2. QED
    BY <1>1, <1>5, <2>1 DEF WorkInv, WorkReported
<1>6. SUFFICES ASSUME at' # "links", job.kind \in {"stream", "oi"}
               PROVE  WorkInv'
  <2>1. at # "idle" /\ job.kind # "fpeak"
    BY DEF UseSize, Pass, Iterate, KernelInv, JobInv
  <2>2. job.kind \in {"stream", "oi", "latency"}
    BY <2>1, CallFacts DEF KernelInv, JobInv
  <2>3. QED
    BY <1>1, <1>5, <2>2
<1>7. SUFFICES /\ work' \in Counted /\ left' <= Repeat
               /\ \E q \in Nat :
                    /\ work' = Times(q, IterationWork)
                    /\ q * Step = (Repeat - left') * size'
                                    + (IF at' = "chunk" THEN r11' ELSE 0)
  BY <1>1, <1>2, <1>6 DEF WorkInv, WorkReported
<1>8. IterationWork \in [loads : Nat, stores : Nat, fuops : Nat]
  BY <1>6, IterationFacts
<1>9. CASE UseSize
  <2>1. /\ at = "round" /\ at' = "pass" /\ work' = NoWork /\ left' = Repeat
        /\ size' = sizes[i] /\ i < NSizes
    BY <1>6, <1>9 DEF UseSize
  <2>2. sizes[i] \in Nat
    BY <2>1, TypeFacts, StreamFacts DEF KernelInv, Positive
  <2>3. work' = Times(0, IterationWork)
    BY <1>8, <2>1, TimesFacts
  <2>4. Step \in Nat
    BY <1>6, TypeFacts, StreamFacts DEF KernelInv, Step, CodeType, Positive
  <2>5. 0 * Step = (Repeat - left') * size' + 0
    BY <1>3, <2>1, <2>2, <2>4
  <2>6. left' <= Repeat
    BY <1>3, <2>1
  <2>7. 0 \in Nat /\ at' # "chunk"
    BY <2>1
  <2>8. QED
    BY <1>4, <2>1, <2>3, <2>5, <2>6, <2>7
<1>10. CASE Pass
  <2>1. /\ at = "pass" /\ at' = "chunk" /\ r11' = 0
        /\ UNCHANGED <<work, size, left>>
    BY <1>10 DEF Pass
  <2>2. QED
    BY <1>6, <2>1 DEF WorkInv
<1>11. CASE Iterate
  <2> DEFINE c == Step
             t == (Repeat - left) * size
  <2>1. /\ at = "chunk" /\ r11' = r11 + c /\ r12' = r12 - c /\ size' = size
        /\ work' = Plus(work, IterationWork)
        /\ r12' # 0 => at' = "chunk" /\ left' = left
        /\ r12' = 0 => left' = left - 1 /\ at' # "chunk"
    BY <1>11 DEF Iterate
  <2>2. PICK q \in Nat : work = Times(q, IterationWork) /\ q * c = t + r11
    BY <1>6, <2>1 DEF WorkInv
  <2>3. work' = Times(q + 1, IterationWork) /\ q + 1 \in Nat
    BY <1>8, <2>1, <2>2, TimesFacts
  <2>4. work' \in Counted
    BY <1>8, <2>3, TimesFacts
  <2>5. c \in Positive /\ r11 + r12 = size /\ left > 0 /\ left <= Repeat
    BY <2>1, StepFacts DEF KernelInv, LoopInv, WorkInv
  <2>6. t \in Nat /\ (Repeat - (left - 1)) * size = t + size
    BY <1>3, <2>5
  <2> HIDE DEF c, t
  <2>7. (q + 1) * c = (t + r11) + c
    BY <2>2, <2>5 DEF Positive
  <2>8. CASE r12' # 0
    <3>1. (q + 1) * c = (Repeat - left') * size' + r11'
      BY <1>3, <2>1, <2>5, <2>6, <2>7, <2>8 DEF t, Positive
    <3>2. QED
      BY <2>1, <2>3, <2>4, <2>5, <2>8, <3>1 DEF c
  <2>9. CASE r12' = 0
    <3>1. r11 + c = size
      BY <1>3, <2>1, <2>5, <2>9 DEF Positive
    <3>2. (q + 1) * c = t + size
      BY <1>3, <2>5, <2>6, <2>7, <3>1 DEF Positive
    <3>3. left' = left - 1 /\ left' <= Repeat
      BY <1>3, <2>1, <2>5, <2>9
    <3>4. (Repeat - left') * size' = t + size
      BY <2>1, <2>6, <3>3
    <3>5. t + size = (t + size) + 0
      BY <1>3, <2>6
    <3>6. QED
      BY <2>1, <2>3, <2>4, <2>9, <3>2, <3>3, <3>4, <3>5 DEF c
  <2>10. QED
    BY <2>8, <2>9
<1>12. QED
  BY <1>9, <1>10, <1>11

LEMMA ChaseWork ==
  ASSUME KernelInv, WorkInv, BeginChase \/ Chase
  PROVE  WorkInv'
<1> DEFINE p == Repeat * size
<1>1. /\ job' = job /\ job.kind = "latency" /\ size' = size
      /\ at' \in {"chase", "report"} /\ (at' = "report" => left' = 0)
  BY DEF BeginChase, Chase, KernelInv, JobInv
<1>2. p \in Nat /\ left \in Nat
  BY TypeFacts, StreamFacts, SMTT(20) DEF KernelInv, Positive
<1>3. p \div 4 \in Nat
  BY ONLY <1>2
<1>4. /\ work' = [NoWork EXCEPT !.loads = (p \div 4) - left'] /\ left' \in Int
  <2>1. CASE BeginChase
    <3>1. left' = p \div 4 /\ work' = NoWork
      BY <2>1 DEF BeginChase
    <3>2. left' \in Int /\ (p \div 4) - left' = 0
      BY <1>3, <3>1
    <3>3. NoWork = [NoWork EXCEPT !.loads = 0]
      BY DEF NoWork
    <3>4. QED
      BY <3>1, <3>2, <3>3
  <2>2. CASE Chase
    <3>1. /\ left' = left - 1
          /\ work' = Plus(work, [NoWork EXCEPT !.loads = 1])
          /\ work = [NoWork EXCEPT !.loads = (p \div 4) - left]
      BY <1>1, <2>2 DEF Chase, WorkInv
    <3> HIDE DEF p
    <3>2. work' = [loads |-> (p \div 4) - left + 1, stores |-> 0, fuops |-> 0]
      BY <3>1 DEF Plus, NoWork
    <3>3. (p \div 4) - left + 1 = (p \div 4) - left' /\ left' \in Int
      BY <1>2, <1>3, <3>1
    <3>4. QED
      BY <3>2, <3>3 DEF NoWork
  <2>3. QED
    BY <2>1, <2>2
<1>5. work' \in Counted
  BY <1>3, <1>4 DEF NoWork, Counted
<1>6. QED
  BY <1>1, <1>4, <1>5 DEF WorkInv, WorkReported

LEMMA FpeakWork ==
  ASSUME KernelInv, WorkInv, BeginFpeak \/ ComputeFlops \/ ComputeOverhead
  PROVE  WorkInv'
<1>1. Repeat \in Nat /\ left \in Nat
  BY TypeFacts, StreamFacts DEF KernelInv, Positive
<1>2. /\ job'.kind = "fpeak" /\ at' \in {"flops", "overhead", "report"}
      /\ at' = "report" => left' = 0
  BY DEF BeginFpeak, ComputeFlops, ComputeOverhead, KernelInv, JobInv
<1>3. SUFFICES /\ work' \in Counted
               /\ at' = "flops" => work' = [NoWork EXCEPT !.fuops = 32 * (Repeat - left')]
               /\ at' = "overhead" =>
                    work' = [NoWork EXCEPT !.fuops = 16 * (Repeat + left')]
               /\ at' = "report" => work' = [NoWork EXCEPT !.fuops = 16 * Repeat]
  BY <1>2 DEF WorkInv, WorkReported
<1>4. CASE BeginFpeak
  <2>1. at' = "flops" /\ work' = NoWork /\ left' = Repeat
    BY <1>4 DEF BeginFpeak
  <2>2. NoWork = [NoWork EXCEPT !.fuops = 0] /\ NoWork \in Counted
    BY DEF NoWork, Counted
  <2>3. 32 * (Repeat - left') = 0
    BY <1>1, <2>1
  <2>4. QED
    BY <2>1, <2>2, <2>3
<1>5. CASE ComputeFlops
  <2>1. /\ work = [NoWork EXCEPT !.fuops = 32 * (Repeat - left)]
        /\ work' = Plus(work, [NoWork EXCEPT !.fuops = 32])
        /\ left = 1 => left' = Repeat /\ at' = "overhead"
        /\ left # 1 => left' = left - 1 /\ at' = "flops"
    BY <1>5 DEF ComputeFlops, WorkInv
  <2>2. work' = [loads |-> 0, stores |-> 0, fuops |-> 32 * (Repeat - left) + 32]
    BY <2>1 DEF Plus, NoWork
  <2>3. work' \in Counted
    BY <1>1, <2>2 DEF Counted
  <2>4. left = 1 => 32 * (Repeat - left) + 32 = 16 * (Repeat + left')
    BY <1>1, <2>1
  <2>5. left # 1 => 32 * (Repeat - left) + 32 = 32 * (Repeat - left')
    BY <1>1, <2>1
  <2>6. QED
    BY <2>1, <2>2, <2>3, <2>4, <2>5 DEF NoWork
<1>6. CASE ComputeOverhead
  <2>1. /\ work = [NoWork EXCEPT !.fuops = 16 * (Repeat + left)]
        /\ work' = Plus(work, [NoWork EXCEPT !.fuops = -16])
        /\ left' = left - 1
        /\ (at' = "report" /\ left' = 0) \/ at' = "overhead"
    BY <1>6 DEF ComputeOverhead, WorkInv
  <2>2. work' = [loads |-> 0, stores |-> 0, fuops |-> 16 * (Repeat + left) + (-16)]
    BY <2>1 DEF Plus, NoWork
  <2>3. work' \in Counted
    BY <1>1, <2>2 DEF Counted
  <2>4. 16 * (Repeat + left) + (-16) = 16 * (Repeat + left')
    BY <1>1, <2>1
  <2>5. left' = 0 => 16 * (Repeat + left') = 16 * Repeat
    BY <1>1, <2>1
  <2>6. QED
    BY <2>1, <2>2, <2>3, <2>4, <2>5 DEF NoWork
<1>7. QED
  BY <1>4, <1>5, <1>6

\* The other steps leave the work alone, and begin or end no loop.
LEMMA OtherWork ==
  ASSUME KernelInv, WorkInv, [Next]_vars,
         ~ (UseSize \/ Pass \/ Iterate \/ BeginChase \/ Chase \/ BeginFpeak
              \/ ComputeFlops \/ ComputeOverhead \/ Report)
  PROVE  WorkInv'
<1>1. CASE BeginOi \/ Validate \/ BeginKernel \/ BeginStream
  <2>1. /\ UNCHANGED work /\ at' \in {"idle", "bounds"}
    BY <1>1 DEF BeginOi, Validate, BeginKernel, BeginStream, Free, loopVars
  <2>2. QED
    BY <2>1 DEF WorkInv, WorkReported
<1>2. CASE SetBounds \/ AlignDivide \/ Align \/ SetSizes
  <2>1. /\ UNCHANGED work /\ at' \in {"end", "sizes", "align", "round"}
    BY <1>2 DEF SetBounds, AlignDivide, Align, SetSizes, loopVars
  <2>2. QED
    BY <2>1 DEF WorkInv, WorkReported
<1>3. CASE SkipSize \/ NoMoreSize \/ Link \/ Continue \/ End
  <2>1. /\ UNCHANGED work /\ at' \in {"idle", "end", "round", "links"}
    BY <1>3 DEF SkipSize, NoMoreSize, Link, Continue, End, loopVars
  <2>2. QED
    BY <2>1 DEF WorkInv, WorkReported
<1>4. CASE Done \/ UNCHANGED vars
  <2>1. UNCHANGED <<at, job, work, left, r11, size, out, code, units>>
    BY <1>4 DEF Done, vars, loopVars, validationVars
  <2>2. QED
    BY <2>1 DEF WorkInv, WorkReported, IterationWork, CodeWork, MovWork, Step
<1>5. QED
  BY <1>1, <1>2, <1>3, <1>4 DEF Next

\* The counters printed are those of the instructions run, whatever the size,
\* the kernel and the number of repetitions.
THEOREM WorkIsReported == Spec => []WorkReported
<1>1. Init => WorkInv
  BY DEF Init, WorkInv, WorkReported, NoWork, Counted
<1>2. ASSUME KernelInv, WorkInv, [Next]_vars PROVE WorkInv'
  <2>1. CASE Report
    <3>1. WorkReported'
      BY <1>2, <2>1, ReportedWork
    <3>2. /\ UNCHANGED work /\ at' = "reported"
      BY <2>1 DEF Report, loopVars
    <3>3. QED
      BY <1>2, <3>1, <3>2 DEF WorkInv
  <2>2. QED
    BY <1>2, <2>1, LoopWork, ChaseWork, FpeakWork, OtherWork
<1>3. WorkInv => WorkReported
  BY DEF WorkInv
<1>4. QED
  BY <1>1, <1>2, <1>3, KernelInvariant, PTL DEF Spec

(***************************************************************************)
(* No memory is passed over                                                *)
(***************************************************************************)
\* A line divides four chunks: so it does, four times over, what the divisions
\* of roofline_PPCM() leave, and the bound of the first cache is a whole chunk.
LineInv ==
  /\ Divides(Alignement, 4 * oi_chunk_size)
  /\ at = "align" =>
       /\ low = LowOf(job)
       /\ Divides(Alignement, 4 * ppcm.max) /\ Divides(Alignement, 4 * ppcm.min)
  /\ at \in Aligned /\ Streams => (job.mem.l1 => Divides(chunk, low))

Room ==
  IF job.mem.l1 THEN low <= job.mem.up ELSE low + NSizes * chunk <= job.mem.up

\* With room, a size was measured or one is to come that will be.
KeptInv ==
  /\ at = "round" /\ Room =>
       measured > 0 \/ \E n \in 0 .. NSizes - 1 : n >= i /\ ~ Skipped(n)
  /\ at = "reported" => measured > 0
  /\ at = "end" /\ Streams => measured > 0 \/ ~ Room

LEMMA DividesProduct ==
  ASSUME NEW d \in Nat, NEW a \in Nat, NEW q \in Nat, Divides(d, a)
  PROVE  Divides(d, q * a)
<1>1. PICK x \in Nat : a = x * d
  BY DEF Divides
<1>2. q * a = (q * x) * d /\ q * x \in Nat
  BY <1>1
<1>3. QED
  BY <1>2 DEF Divides

\* What divides a sum and a term of it divides the other.
LEMMA DividesDifference ==
  ASSUME NEW d \in Positive, NEW a \in Nat, NEW b \in Nat,
         Divides(d, a), Divides(d, a + b)
  PROVE  Divides(d, b)
<1>1. PICK x \in Nat : a = x * d
  BY DEF Divides
<1>2. PICK y \in Nat : a + b = y * d
  BY DEF Divides
<1>3. x <= y
  <2>1. ASSUME y < x PROVE FALSE
    <3>1. y + 1 <= x /\ y + 1 \in Nat
      BY <2>1
    <3>2. (y + 1) * d <= x * d
      BY <3>1, ProductOrder DEF Positive
    <3>3. (y + 1) * d = y * d + d
      BY DEF Positive
    <3>4. (a + b) + d <= a /\ d > 0
      BY <1>1, <1>2, <3>2, <3>3 DEF Positive
    <3>5. QED
      BY <3>4 DEF Positive
  <2>2. QED
    BY <2>1
<1>4. y - x \in Nat /\ y = (y - x) + x
  BY <1>3
<1>5. y * d = (y - x) * d + x * d
  BY <1>4 DEF Positive
<1>6. (y - x) * d \in Nat /\ x * d \in Nat
  BY <1>4 DEF Positive
<1> DEFINE u == (y - x) * d
           v == x * d
<1> HIDE DEF u, v
<1>7. b = u
  BY <1>1, <1>2, <1>5, <1>6 DEF u, v
<1>8. QED
  BY <1>4, <1>7 DEF Divides, u

LEMMA ProductNat ==
  ASSUME NEW a \in Nat, NEW b \in Nat
  PROVE  a * b \in Nat
OBVIOUS

LEMMA LineFacts ==
  /\ Divides(Alignement, 4 * SimdBytes) /\ Divides(Alignement, 4 * FirstChunk)
  /\ NSizes \in Nat /\ NSizes > 1
<1>1. 4 * SimdBytes \in Nat /\ 4 * FirstChunk \in Nat /\ Alignement \in Positive
  BY SimdFacts, StreamFacts DEF Positive, FirstChunk
<1>2. QED
  BY <1>1, LineAssumption, StreamFacts, RemainderZero DEF Positive

\* Four chunks of a call are whole lines.
LEMMA ChunkLine ==
  ASSUME KernelInv, LineInv
  PROVE  Divides(Alignement, 4 * ChunkOf(job))
<1>1. CASE job.kind = "stream"
  <2>1. ChunkOf(job) = 30 * SimdBytes
    BY <1>1, ChunkAssumption DEF ChunkOf, Strides
  <2>2. SimdBytes \in Nat /\ Alignement \in Nat
    BY SimdFacts, StreamFacts DEF Positive
  <2>3. 4 * (30 * SimdBytes) = 30 * (4 * SimdBytes) /\ 4 * SimdBytes \in Nat
    BY <2>2
  <2>4. Divides(Alignement, 30 * (4 * SimdBytes))
    BY <2>2, <2>3, LineFacts, DividesProduct
  <2>5. QED
    BY <2>1, <2>3, <2>4
<1>2. CASE job.kind # "stream"
  BY <1>2 DEF ChunkOf, LineInv
<1>3. QED
  BY <1>1, <1>2

\* The first bound is a multiple of the least common multiple of its chunk and
\* of a line.
LEMMA LeastMultiple ==
  ASSUME NEW a \in Positive, NEW b \in Positive, NEW g \in Positive, NEW m \in Nat,
         Divides(g, a), Divides(g, b), Divides(b, m * g)
  PROVE  Divides((a * b) \div g, m * a)
<1> DEFINE x == a \div g
           y == b \div g
           c == (a * b) \div g
<1>1. x \in Positive /\ a = x * g
  BY PositiveQuotient, ExactQuotient DEF Positive
<1>2. y \in Positive /\ b = y * g
  BY PositiveQuotient, ExactQuotient DEF Positive
<1> HIDE DEF x, y
<1>3. c = a * y
  BY <1>2, QuotientOfProduct DEF Positive
<1> HIDE DEF c
<1>4. PICK z \in Nat : m * g = z * b
  BY DEF Divides
<1>5. m * g = (z * y) * g /\ z * y \in Nat
  BY <1>2, <1>4 DEF Positive
<1>6. m = z * y
  BY <1>5, Cancel DEF Positive
<1>7. m * a = z * c
  BY <1>2, <1>3, <1>6 DEF Positive
<1>8. QED
  BY <1>7 DEF Divides, c

LEMMA SetBoundsLine ==
  ASSUME KernelInv, LineInv, SetBounds
  PROVE  LineInv'
<1> DEFINE c == ChunkOf(job)
<1>1. /\ at = "bounds" /\ UNCHANGED <<job, oi_chunk_size>>
      /\ low' = LowOf(job) /\ chunk' = c /\ ppcm' = PgcdStart(c, Alignement)
      /\ at' \in {"end", "sizes", "align"}
  BY DEF SetBounds, validationVars
<1>2. job \in Call /\ job.kind # "fpeak"
  BY <1>1 DEF KernelInv, JobInv
<1>3. c \in Nat /\ Alignement \in Nat
  BY <1>2, ChunkFacts, StreamFacts DEF KernelInv, Positive
<1>4. Divides(Alignement, 4 * c) /\ LowOf(job)' = LowOf(job)
  BY <1>1, ChunkLine DEF LowOf, ChunkOf
<1>5. Divides(Alignement, 4 * Alignement)
  BY <1>3 DEF Divides
<1>6. job.mem.l1 => Divides(c, LowOf(job))
  BY <1>3 DEF LowOf, Divides
<1> HIDE DEF c
<1>7. \/ ppcm'.max = c /\ ppcm'.min = Alignement
      \/ ppcm'.max = Alignement /\ ppcm'.min = c
  BY <1>1 DEF PgcdStart
<1>8. QED
  BY <1>1, <1>4, <1>5, <1>6, <1>7 DEF LineInv

LEMMA AlignDivideLine ==
  ASSUME KernelInv, LineInv, AlignDivide
  PROVE  LineInv'
<1> DEFINE r == Remainder(ppcm)
           q == ppcm.max \div ppcm.min
<1>1. /\ at = "align" /\ at' = "align"
      /\ ppcm'.max = ppcm.min /\ ppcm'.min = r
      /\ UNCHANGED <<job, oi_chunk_size, chunk, low>>
  BY DEF AlignDivide, PgcdNext, validationVars
<1>2. ppcm.max \in Positive /\ ppcm.min \in Positive /\ Alignement \in Positive
  BY <1>1, StreamFacts DEF KernelInv, BoundsInv
<1>3. r \in Nat /\ q \in Nat /\ ppcm.max = ppcm.min * q + r
  BY <1>2, DivModFacts DEF Remainder, Positive
<1>4. Divides(Alignement, 4 * ppcm.max) /\ Divides(Alignement, 4 * ppcm.min)
  BY <1>1 DEF LineInv
<1> HIDE DEF r, q
<1> DEFINE t == q * (4 * ppcm.min)
<1>5. 4 * ppcm.max = t + 4 * r /\ t \in Nat /\ 4 * r \in Nat /\ 4 * ppcm.min \in Nat
  BY <1>2, <1>3 DEF Positive
<1>6. Divides(Alignement, t)
  BY <1>2, <1>3, <1>4, <1>5, DividesProduct DEF Positive
<1> HIDE DEF t
<1>7. Divides(Alignement, 4 * r)
  BY <1>2, <1>4, <1>5, <1>6, DividesDifference
<1>8. LowOf(job)' = LowOf(job)
  BY <1>1 DEF LowOf, ChunkOf
<1>9. QED
  BY <1>1, <1>4, <1>7, <1>8 DEF LineInv, Aligned

LEMMA AlignLine ==
  ASSUME KernelInv, LineInv, Align
  PROVE  LineInv'
<1> DEFINE g == ppcm.min
           c == (chunk * Alignement) \div g
<1>1. /\ at = "align" /\ at' = "sizes" /\ Remainder(ppcm) = 0 /\ chunk' = c
      /\ UNCHANGED <<job, oi_chunk_size, low>>
  BY DEF Align, validationVars
<1>2. ppcm.max \in Positive /\ g \in Positive /\ chunk = ChunkOf(job)
  BY <1>1 DEF KernelInv, BoundsInv
<1>3. Divides(g, ppcm.max) /\ Divides(g, g)
  BY <1>1, <1>2, RemainderZero, DividesSelf DEF Remainder, Positive
<1>4. Divides(g, chunk) /\ Divides(g, Alignement)
  BY <1>1, <1>2, <1>3 DEF KernelInv, BoundsInv
<1>5. Divides(Alignement, 4 * g) /\ low = LowOf(job)
  BY <1>1 DEF LineInv
<1>6. chunk \in Positive /\ Alignement \in Positive
  BY TypeFacts, StreamFacts DEF KernelInv
<1> HIDE DEF g
<1>7. Divides(c, 4 * chunk)
  BY <1>2, <1>4, <1>5, <1>6, LeastMultiple
<1> HIDE DEF c
<1>8. job.mem.l1 => Divides(chunk', low')
  BY <1>1, <1>2, <1>5, <1>7 DEF LowOf
<1>9. QED
  BY <1>1, <1>8 DEF LineInv

LEMMA ValidateLine ==
  ASSUME KernelInv, LineInv, Validate
  PROVE  LineInv'
<1>1. at = "idle" /\ at' = "idle" /\ Generate
  BY DEF Validate
<1>2. CASE UNCHANGED oi_chunk_size
  BY <1>1, <1>2 DEF LineInv, Aligned
<1>3. CASE ~ UNCHANGED oi_chunk_size
  <2>1. WriteBody
    BY <1>1, <1>3 DEF Generate, TryUnit, GiveUp, Divide, Simplify, WriteBody, Load, LoadFails
  <2>2. phase' = "load" /\ oi_chunk_size' = code'.offset
    BY <1>3, <2>1 DEF WriteBody
  <2>3. KernelInv'
    BY ValidateStep
  <2>4. code'.offset = Muops(code') * SimdBytes /\ code' \in CodeType
    BY <2>2, <2>3, TypeFacts DEF KernelInv, ValidationInv, CodeCounts, ValidationTypeOK, CodeType
  <2>5. Muops(code') \in Nat
    BY <2>4 DEF CodeType, Muops
  <2> DEFINE m == Muops(code')
  <2> HIDE DEF m
  <2>6. SimdBytes \in Nat /\ Alignement \in Nat /\ m \in Nat
    BY <2>5, SimdFacts, StreamFacts DEF Positive, m
  <2>7. 4 * (m * SimdBytes) = m * (4 * SimdBytes) /\ 4 * SimdBytes \in Nat
    BY <2>6
  <2>8. Divides(Alignement, m * (4 * SimdBytes))
    BY <2>6, <2>7, LineFacts, DividesProduct
  <2>9. Divides(Alignement, 4 * oi_chunk_size')
    BY <2>2, <2>4, <2>7, <2>8 DEF m
  <2>10. QED
    BY <1>1, <2>9 DEF LineInv, Aligned
<1>4. QED
  BY <1>2, <1>3

LEMMA LineStep ==
  ASSUME KernelInv, LineInv, [Next]_vars
  PROVE  LineInv'
<1>1. CASE Validate
  BY <1>1, ValidateLine
<1>2. CASE SetBounds \/ AlignDivide \/ Align
  BY <1>2, SetBoundsLine, AlignDivideLine, AlignLine
<1>3. CASE BeginOi \/ BeginKernel \/ BeginStream \/ End
  <2>1. /\ UNCHANGED oi_chunk_size /\ at' \in {"idle", "bounds"}
    BY <1>3 DEF BeginOi, Free, Ask, BeginKernel, BeginStream, End, Release, validationVars
  <2>2. QED
    BY <2>1 DEF LineInv, Aligned
<1>4. CASE BeginFpeak \/ ComputeFlops \/ ComputeOverhead
  <2>1. /\ UNCHANGED oi_chunk_size /\ at' \in {"flops", "overhead", "report"}
        /\ job'.kind = "fpeak"
    BY <1>4 DEF BeginFpeak, ComputeFlops, ComputeOverhead, validationVars, KernelInv, JobInv
  <2>2. QED
    BY <2>1 DEF LineInv, Streams
<1>5. CASE \/ SetSizes \/ SkipSize \/ UseSize \/ NoMoreSize \/ Link \/ BeginChase \/ Chase
           \/ Pass \/ Iterate \/ Report \/ Continue
  <2>1. /\ UNCHANGED <<oi_chunk_size, job, chunk, low>> /\ at \in Aligned
        /\ at' \in Aligned \union {"end"}
    BY <1>5 DEF SetSizes, SkipSize, UseSize, NoMoreSize, Link, BeginChase, Chase, Pass,
         Iterate, Report, Continue, validationVars, sizeVars, Aligned
  <2>2. QED
    BY <2>1 DEF LineInv, Aligned, Streams
<1>6. CASE Done \/ UNCHANGED vars
  <2>1. UNCHANGED <<oi_chunk_size, job, chunk, low, at, ppcm>>
    BY <1>6 DEF Done, vars, validationVars, sizeVars
  <2>2. QED
    BY <2>1 DEF LineInv, Streams, LowOf, ChunkOf
<1>7. QED
  BY <1>1, <1>2, <1>3, <1>4, <1>5, <1>6 DEF Next

\* Rounding down loses less than a chunk.
LEMMA ResizeLoss ==
  ASSUME chunk \in Positive, NEW s \in Nat, NEW b \in Nat, b + chunk <= s
  PROVE  b < Resize(s)
<1>1. /\ s \div chunk \in Nat /\ s % chunk \in Nat /\ s % chunk < chunk
      /\ s = chunk * (s \div chunk) + (s % chunk)
  BY DivModFacts
<1> DEFINE x == chunk * (s \div chunk)
<1>2. x \in Nat
  BY <1>1 DEF Positive
<1> HIDE DEF x
<1>3. CASE s % chunk = 0
  BY <1>3 DEF Resize, Positive
<1>4. CASE s % chunk # 0
  <2>1. Resize(s) = x
    BY <1>4 DEF Resize, x
  <2>2. s = x + (s % chunk)
    BY <1>1 DEF x
  <2>3. QED
    BY <1>1, <1>2, <2>1, <2>2 DEF Positive
<1>5. QED
  BY <1>3, <1>4

\* A share of d out of s is one chunk when d has s chunks.
LEMMA ShareOfRoom ==
  ASSUME NEW d \in Nat, NEW s \in Positive, NEW c \in Nat, s * c <= d
  PROVE  c <= d \div s /\ d \div s \in Nat
<1> DEFINE q == d \div s
<1>1. q \in Nat /\ d % s \in Nat /\ d % s < s /\ d = s * q + (d % s)
  BY DivModFacts
<1> HIDE DEF q
<1>2. ASSUME q < c PROVE FALSE
  <2>1. q + 1 <= c /\ q + 1 \in Nat
    BY <1>1, <1>2
  <2>2. (q + 1) * s <= c * s
    BY <2>1, ProductOrder DEF Positive
  <2>3. (q + 1) * s = s * q + s /\ c * s = s * c
    BY <1>1 DEF Positive
  <2> DEFINE x == s * q
             y == s * c
  <2>4. x \in Nat /\ y \in Nat
    BY <1>1 DEF Positive
  <2> HIDE DEF x, y
  <2>5. x + s <= y /\ y <= d /\ d = x + (d % s)
    BY <1>1, <2>2, <2>3 DEF x, y
  <2>6. QED
    BY <1>1, <2>4, <2>5 DEF Positive
<1>3. QED
  BY <1>1, <1>2 DEF q

\* With room, one of the first two sizes is kept.
LEMMA SetSizesKeeps ==
  ASSUME KernelInv, LineInv, SetSizes, Room'
  PROVE  \E n \in 0 .. NSizes - 1 : n >= i' /\ ~ Skipped(n)'
<1> DEFINE up == job.mem.up
<1>1. /\ at = "sizes" /\ sizes' = LinearSizes(low, up) /\ i' = 0
      /\ UNCHANGED <<job, chunk, low>>
  BY DEF SetSizes
<1>2. job \in Call /\ job.kind # "fpeak" /\ low <= up
  BY <1>1 DEF KernelInv, JobInv, BoundsInv
<1>3. low \in Positive /\ chunk \in Positive /\ up \in Nat
  BY <1>2, TypeFacts, ChunkFacts DEF KernelInv
<1>4. NSizes \in Nat /\ NSizes > 1 /\ NSizes \in Positive
  BY LineFacts, StreamFacts
<1> DEFINE d == up - low
           S(n) == low + (n * d) \div NSizes
<1>5. d \in Nat /\ up = low + d
  BY <1>2, <1>3 DEF Positive
<1>6. sizes'[0] = Resize(S(0)) /\ sizes'[1] = Resize(S(1))
  <2>1. sizes' = [n \in 0 .. NSizes - 1 |-> Resize(S(n))]
    BY <1>1 DEF LinearSizes
  <2>2. 0 \in 0 .. NSizes - 1 /\ 1 \in 0 .. NSizes - 1
    BY <1>4
  <2> HIDE DEF S
  <2>3. QED
    BY <2>1, <2>2
<1> HIDE DEF d
<1>7. S(0) = low
  <2>1. 0 * d = 0 /\ 0 \div NSizes = 0
    BY <1>4, <1>5 DEF Positive
  <2>2. QED
    BY <1>3, <2>1 DEF Positive
<1>8. S(1) = low + d \div NSizes
  <2>1. 1 * d = d
    BY <1>5
  <2>2. QED
    BY <2>1
<1> HIDE DEF S, up
<1>9. CASE job.mem.l1
  <2>1. Divides(chunk, low)
    BY <1>1, <1>2, <1>9 DEF LineInv, Aligned, Streams
  <2>2. PICK q \in Nat : low = q * chunk
    BY <2>1 DEF Divides
  <2>3. Resize(low) = low
    <3> DEFINE c == chunk
    <3> HIDE DEF c
    <3>0. c \in Nat /\ c > 0
      BY <1>3 DEF c, Positive
    <3>1. (q * c) % c = 0
      <4>1. (q * c) \div c = q
        BY <1>3, ExactProduct DEF c
      <4> DEFINE z == q * c
      <4>2. z \in Nat
        BY <3>0
      <4>3. z \div c = q /\ c * q = z
        BY <3>0, <4>1
      <4> HIDE DEF z
      <4>4. z = c * (z \div c) + (z % c) /\ z % c \in Nat
        BY <1>3, <4>2, DivModFacts DEF c
      <4>5. z = z + (z % c)
        BY <4>3, <4>4
      <4>6. z % c = 0
        BY <4>2, <4>4, <4>5
      <4>7. QED
        BY <4>6 DEF z
    <3>2. QED
      BY <2>2, <3>1 DEF Resize, c
  <2>4. ~ Skipped(0)'
    BY <1>1, <1>3, <1>6, <1>7, <2>3 DEF Skipped, Positive
  <2>5. 0 \in 0 .. NSizes - 1 /\ 0 >= i'
    BY <1>1, <1>4
  <2>6. QED
    BY <2>4, <2>5
<1>10. CASE ~ job.mem.l1
  <2>1. low + NSizes * chunk <= up
    BY <1>1, <1>10 DEF Room, up
  <2> DEFINE y == NSizes * chunk
             z == d \div NSizes
  <2>2. y \in Nat
    BY <1>3, <1>4 DEF Positive
  <2> HIDE DEF y
  <2>3. y <= d
    BY <1>3, <1>5, <2>1, <2>2 DEF y, Positive
  <2>4. chunk <= z /\ z \in Nat
    BY <1>3, <1>4, <1>5, <2>3, ShareOfRoom DEF y, Positive
  <2> HIDE DEF z
  <2>5. S(1) = low + z
    BY <1>8 DEF z
  <2>6. low + chunk <= S(1) /\ S(1) \in Nat /\ low \in Nat
    BY <1>3, <2>4, <2>5 DEF Positive
  <2>7. low < sizes'[1]
    BY <1>3, <1>6, <2>6, ResizeLoss
  <2>8. sizes'[0] <= low /\ sizes'[0] \in Nat /\ sizes'[1] \in Nat
    BY <1>3, <1>6, <1>7, <2>6, ResizeFacts
  <2>9. ~ Skipped(1)'
    <3>1. sizes'[1 - 1] = sizes'[0]
      OBVIOUS
    <3>2. ~ (sizes'[1] < low) /\ sizes'[1] # sizes'[0]
      BY <2>6, <2>7, <2>8
    <3>3. QED
      BY <1>1, <3>1, <3>2 DEF Skipped
  <2>10. 1 \in 0 .. NSizes - 1 /\ 1 >= i'
    BY <1>1, <1>4
  <2>11. QED
    BY <2>9, <2>10
<1>11. QED
  BY <1>9, <1>10

LEMMA KeptStep ==
  ASSUME KernelInv, LineInv, KeptInv, [Next]_vars
  PROVE  KeptInv'
<1>1. CASE SetBounds
  <2>1. /\ at' \in {"end", "sizes", "align"} /\ job' = job /\ at = "bounds"
        /\ at' = "end" => job.mem.up < low'
    BY <1>1 DEF SetBounds
  <2>2. job \in Call /\ job.kind # "fpeak"
    BY <2>1 DEF KernelInv, JobInv
  <2>3. job.mem.up \in Nat /\ low' \in Nat /\ NSizes * chunk' \in Nat
    <3>1. KernelInv'
      BY <1>1, SetBoundsStep
    <3>2. low' \in Positive /\ chunk' \in Positive
      BY <3>1 DEF KernelInv, TypeOK, Positive
    <3>3. job.mem.up \in Nat
      BY <2>2, ChunkFacts DEF KernelInv
    <3>4. NSizes \in Nat /\ chunk' \in Nat
      BY <3>2, StreamFacts DEF Positive
    <3>5. NSizes * chunk' \in Nat
      BY <3>4, ProductNat
    <3>6. QED
      BY <3>2, <3>3, <3>5 DEF Positive
  <2> DEFINE y == NSizes * chunk'
  <2> HIDE DEF y
  <2>4. at' = "end" => ~ (low' <= job.mem.up) /\ ~ (low' + y <= job.mem.up)
    BY <2>1, <2>3 DEF y
  <2>5. at' = "end" => ~ Room'
    BY <2>1, <2>4 DEF Room, y
  <2>6. QED
    BY <2>1, <2>5 DEF KeptInv
<1>2. CASE SetSizes
  <2>1. at' = "round"
    BY <1>2 DEF SetSizes
  <2>2. QED
    BY <1>2, <2>1, SetSizesKeeps DEF KeptInv
<1>3. CASE SkipSize
  <2>1. /\ at = "round" /\ at' = "round" /\ i' = i + 1 /\ Skipped(i)
        /\ UNCHANGED <<job, low, chunk, sizes, measured>>
    BY <1>3 DEF SkipSize, sizeVars
  <2>2. i \in Nat
    BY TypeFacts, StreamFacts DEF KernelInv, Positive
  <2>3. ASSUME Room', ~ (measured' > 0)
        PROVE  \E n \in 0 .. NSizes - 1 : n >= i' /\ ~ Skipped(n)'
    <3>1. Room /\ ~ (measured > 0)
      BY <2>1, <2>3 DEF Room
    <3>2. PICK n \in 0 .. NSizes - 1 : n >= i /\ ~ Skipped(n)
      BY <2>1, <3>1 DEF KeptInv
    <3>3. n # i /\ n \in Nat
      BY <2>1, <3>2
    <3>4. n >= i'
      BY <2>1, <2>2, <3>2, <3>3
    <3>5. ~ Skipped(n)'
      BY <2>1, <3>2 DEF Skipped
    <3>6. QED
      BY <3>4, <3>5
  <2>4. QED
    BY <2>1, <2>3 DEF KeptInv
<1>4. CASE NoMoreSize
  <2>1. /\ at = "round" /\ at' = "end" /\ i = NSizes
        /\ UNCHANGED <<job, low, chunk, measured>>
    BY <1>4 DEF NoMoreSize, sizeVars
  <2>2. ~ \E n \in 0 .. NSizes - 1 : n >= i
    BY <2>1, LineFacts
  <2>3. Room' = Room
    BY <2>1 DEF Room
  <2>4. QED
    BY <2>1, <2>2, <2>3 DEF KeptInv
<1>5. CASE Report
  <2>1. at' = "reported" /\ measured' = measured + 1 /\ measured \in Nat
    BY <1>5, TypeFacts DEF Report, KernelInv
  <2>2. measured' > 0
    BY <2>1
  <2>3. QED
    BY <2>1, <2>2 DEF KeptInv
<1>6. CASE Continue
  <2>1. /\ at = "reported" /\ at' \in {"end", "round"} /\ UNCHANGED <<measured, job>>
    BY <1>6 DEF Continue
  <2>2. QED
    BY <2>1 DEF KeptInv
<1>7. CASE Done \/ UNCHANGED vars
  <2>1. UNCHANGED <<at, job, measured, low, chunk, sizes, i>>
    BY <1>7 DEF Done, vars, sizeVars
  <2>2. QED
    BY <2>1 DEF KeptInv, Room, Skipped, Streams
<1>8. CASE \/ BeginOi \/ Validate \/ BeginKernel \/ BeginStream \/ BeginFpeak \/ End
           \/ AlignDivide \/ Align
  <2>1. at' \notin {"round", "reported", "end"}
    BY <1>8 DEF BeginOi, Free, Validate, BeginKernel, BeginStream, BeginFpeak, End,
         AlignDivide, Align
  <2>2. QED
    BY <2>1 DEF KeptInv
<1>9. CASE \/ UseSize \/ Link \/ BeginChase \/ Chase \/ Pass \/ Iterate \/ ComputeFlops
           \/ ComputeOverhead
  <2>1. at' \notin {"round", "reported", "end"}
    BY <1>9 DEF UseSize, Link, BeginChase, Chase, Pass, Iterate, ComputeFlops,
         ComputeOverhead
  <2>2. QED
    BY <2>1 DEF KeptInv
<1>10. QED
  BY <1>1, <1>2, <1>3, <1>4, <1>5, <1>6, <1>7, <1>8, <1>9 DEF Next

\* In a memory with room for its sizes one size at least is measured, whatever its
\* bounds, the line, the kernels that were written before and the number of sizes.
\* Sizes are skipped (roofline.c:193-194), but never all of them.
THEOREM MeasuredCorrect == Spec => []Measured
<1>1. Init => LineInv /\ KeptInv
  <2>1. Divides(Alignement, 4 * FirstChunk)
    BY LineFacts
  <2>2. QED
    BY <2>1 DEF Init, ValidationInit, LineInv, KeptInv, Aligned
<1>2. KernelInv /\ LineInv /\ KeptInv /\ [Next]_vars => LineInv' /\ KeptInv'
  BY LineStep, KeptStep
<1>3. KernelInv /\ KeptInv => Measured
  <2> SUFFICES ASSUME KernelInv, KeptInv, at = "end", Streams, ~ (measured > 0)
               PROVE  IF job.mem.l1 THEN job.mem.up < low
                      ELSE job.mem.up < low + NSizes * chunk
    BY DEF Measured, Streams
  <2>1. job \in Call /\ ~ Room
    BY DEF KernelInv, JobInv, KeptInv
  <2>2. TypeOK /\ job.kind # "fpeak"
    BY DEF KernelInv, Streams
  <2>3. job.mem.up \in Nat /\ low \in Nat /\ chunk \in Nat
    <3>1. job.mem.up \in Nat
      BY <2>1, <2>2, ChunkFacts
    <3>2. low \in Positive /\ chunk \in Positive
      BY <2>2, TypeFacts
    <3> QED
      BY <3>1, <3>2 DEF Positive
  <2>4. NSizes * chunk \in Nat
    <3>1. NSizes \in Nat
      BY StreamFacts DEF Positive
    <3> QED
      BY <2>3, <3>1
  <2> DEFINE y == NSizes * chunk
  <2>5. y \in Nat
    BY <2>4
  <2>6. ~ (IF job.mem.l1 THEN job.mem.up >= low ELSE job.mem.up >= low + y)
    BY <2>1 DEF Room
  <2> HIDE DEF y
  <2>7. IF job.mem.l1 THEN job.mem.up < low ELSE job.mem.up < low + y
    BY <2>3, <2>5, <2>6
  <2> QED
    BY <2>7 DEF y
<1>4. QED
  BY <1>1, <1>2, <1>3, KernelInvariant, PTL DEF Spec
=============================================================================
