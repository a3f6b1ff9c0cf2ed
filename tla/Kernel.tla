------------------------------- MODULE Kernel -------------------------------
(***************************************************************************)
(* One thread's part of roofline_memory() and roofline_fpeak(): the sizes  *)
(* and the buffer (stream.c), the kernels that go through it or compute    *)
(* (MSC/intel/mov.c, flops.c, the kernels of Validation), and the work     *)
(* they report.  Bench has what the threads do together.                   *)
(***************************************************************************)
EXTENDS Validation

CONSTANTS
  Alignement,  \* size of a line of the first cache
  ChunkSize,   \* CHUNK_SIZE: bytes an iteration of a stream kernel goes through
  NSizes,      \* ROOFLINE_N_SAMPLES: how many sizes are tried
  Repeat,      \* how often a kernel is repeated, chosen by calibration
  Draws,       \* the numbers rand_r() gives from the fixed seed, over and over
  Programs     \* what is measured, one call after the other

\* A memory has its bounds; those of the first cache depend on the chunk.
Memory == [l1 : BOOLEAN, low : Nat \ {0}, up : Nat]

Call ==
  [kind : {"stream"}, op : MemoryOps, mem : Memory]
  \union [kind : {"latency"}, mem : Memory]
  \union [kind : {"oi"}, request : Requests, mem : Memory]
  \union [kind : {"fpeak"}, unit : Units]

\* asm_mov: 30 instructions, every third one is the second operation.
Strides == 30

ASSUME StreamAssumption ==
  /\ Alignement \in Nat \ {0} /\ NSizes \in Nat \ {0} /\ Repeat \in Nat \ {0}
  /\ Alignement >= 8  \* a line holds a cell of the latency stream
  /\ Draws \in Seq(Nat) /\ Draws # <<>>
  /\ Programs \subseteq Seq(Call)
\* The chunk is what the strides go through: so it is with AVX and AVX512.
ASSUME ChunkAssumption == ChunkSize = Strides * SimdBytes
\* Lines of 64 bytes, vectors of 16, 32 or 64: four vectors are whole lines, and
\* so are four of the chunks there are before any kernel.  The Makefile asks for
\* 16 sizes.
ASSUME LineAssumption ==
  /\ (4 * SimdBytes) % Alignement = 0 /\ (4 * FirstChunk) % Alignement = 0
  /\ NSizes > 1

VARIABLES
  todo,      \* calls to come
  job,       \* the call that was begun last
  at,        \* "idle", or where the call is
  ppcm,      \* max and min of the roofline_PGCD() of a roofline_PPCM()
  chunk,     \* the chunk sizes are a multiple of
  low,       \* the lower bound
  sizes,     \* the sizes to try
  i,         \* index of the size
  alloc,     \* allocated size of the stream
  size,      \* its used part
  links,     \* the latency stream: the next cell of each cell
  rands,     \* cells not linked yet, the first k of them
  k,
  left,      \* iterations left: operand 0 of the loops
  r11, r12,  \* bytes done and left in the buffer
  rax,       \* the cell the chase is at
  work,      \* instructions run between the timestamps, less the overhead
  out,       \* what is reported
  measured   \* how many sizes were measured in this call

sizeVars == <<ppcm, chunk, low, sizes, alloc>>
linkVars == <<links, rands, k>>
loopVars == <<left, r11, r12, rax, work>>
vars == <<validationVars, todo, job, at, sizeVars, i, size, linkVars, loopVars,
          out, measured>>

NoWork == [loads |-> 0, stores |-> 0, fuops |-> 0]
NoOutput == [bytes |-> 0, flops |-> 0, ins |-> 0]

-----------------------------------------------------------------------------
(***************************************************************************)
(* Sizes                                                                   *)
(***************************************************************************)
\* get_chunk_size: anything but the operations of a stream takes the chunk of
\* the last validation kernel, latency too.
ChunkOf(call) == IF call.kind = "stream" THEN ChunkSize ELSE oi_chunk_size

LowOf(call) == IF call.mem.l1 THEN 4 * ChunkOf(call) ELSE call.mem.low

\* Mutant: rounds up.
ResizeUp(s) == IF s % chunk = 0 THEN s ELSE chunk * (s \div chunk + 1)

\* resize_splitable_chunk, once the chunk is a multiple of a line.
Resize(s) == IF s % chunk = 0 THEN s ELSE chunk * (s \div chunk)

\* Mutant: divides before it multiplies.
LinearSizesCoarse(first, last) ==
  [n \in 0 .. NSizes - 1 |-> Resize(first + (n \div NSizes) * (last - first))]

LinearSizes(first, last) ==
  [n \in 0 .. NSizes - 1 |-> Resize(first + (n * (last - first)) \div NSizes)]

\* Sizes under the bound, or equal to the one before, are skipped.
Skipped(n) == sizes[n] < low \/ (n > 0 /\ sizes[n] = sizes[n - 1])

-----------------------------------------------------------------------------
(***************************************************************************)
(* Kernels                                                                 *)
(***************************************************************************)
\* What one iteration of the loop runs.
MovWork(op) ==
  LET stores == CASE op \in Loads  -> 0
                  [] op \in Stores -> Strides
                  [] OTHER         -> Strides \div 3
  IN  [loads |-> Strides - stores, stores |-> stores, fuops |-> 0]

CodeWork == [loads |-> code.loads, stores |-> code.stores, fuops |-> code.fuops]

IterationWork ==
  IF job.kind = "stream" THEN MovWork(job.op) ELSE CodeWork

\* What one iteration adds to r11 and takes from r12, and what it accesses.
Step == IF job.kind = "stream" THEN ChunkSize ELSE code.offset
Accessed == (IterationWork.loads + IterationWork.stores) * SimdBytes

Plus(w, v) ==
  [loads |-> w.loads + v.loads, stores |-> w.stores + v.stores,
   fuops |-> w.fuops + v.fuops]

\* What the kernel says it did.
Reported ==
  CASE job.kind = "stream" ->
         [bytes |-> size * Repeat, flops |-> 0, ins |-> (Repeat * size) \div SimdBytes]
    [] job.kind = "oi" ->
         [bytes |-> Repeat * size,
          flops |-> (Repeat * size * code.flops) \div code.bytes,
          ins |-> (Repeat * size * code.ins) \div code.bytes]
    [] job.kind = "latency" ->
         [bytes |-> Repeat * size, flops |-> 0, ins |-> (Repeat * size) \div 4]
    [] job.kind = "fpeak" ->
         [bytes |-> 0, flops |-> 16 * SimdFlops * Repeat * PerElement(job.unit),
          ins |-> Repeat * 16]

-----------------------------------------------------------------------------
Init ==
  /\ ValidationInit
  /\ todo \in Programs
  /\ job = [kind |-> "none"] /\ at = "idle"
  /\ ppcm = PgcdStart(1, 1) /\ chunk = 1 /\ low = 1 /\ sizes = [n \in 0 .. NSizes - 1 |-> 0] /\ i = 0
  /\ alloc = 0 /\ size = 0
  /\ links = <<>> /\ rands = <<>> /\ k = 0
  /\ left = 0 /\ r11 = 0 /\ r12 = 0 /\ rax = 0
  /\ work = NoWork /\ out = NoOutput /\ measured = 0

(***************************************************************************)
(* The calls of the program                                                *)
(***************************************************************************)
Free == at = "idle" /\ phase = "idle" /\ todo # <<>>

BeginOi ==
  /\ Free /\ Head(todo).kind = "oi"
  /\ Ask(Head(todo).request)
  /\ job' = Head(todo) /\ todo' = Tail(todo)
  /\ measured' = 0
  /\ UNCHANGED <<at, sizeVars, i, size, linkVars, loopVars, out>>

\* benchmark_validation
Validate ==
  /\ at = "idle"
  /\ Generate
  /\ UNCHANGED <<todo, job, at, sizeVars, i, size, linkVars, loopVars, out,
                 measured>>

\* With a kernel, roofline_memory starts from the bounds; so it does at once
\* for a stream and for latency.
BeginKernel ==
  /\ at = "idle" /\ phase = "ready"
  /\ at' = "bounds"
  /\ UNCHANGED <<validationVars, todo, job, sizeVars, i, size, linkVars, loopVars,
                 out, measured>>

BeginStream ==
  /\ Free /\ Head(todo).kind \in {"stream", "latency"}
  /\ job' = Head(todo) /\ todo' = Tail(todo)
  /\ at' = "bounds"
  /\ measured' = 0
  /\ UNCHANGED <<validationVars, sizeVars, i, size, linkVars, loopVars, out>>

\* benchmark_flops, repeated by operand 0.
BeginFpeak ==
  /\ Free /\ Head(todo).kind = "fpeak"
  /\ job' = Head(todo) /\ todo' = Tail(todo)
  /\ at' = "flops"
  /\ left' = Repeat /\ work' = NoWork
  /\ measured' = 0
  /\ UNCHANGED <<validationVars, sizeVars, i, size, linkVars, r11, r12, rax, out>>

(***************************************************************************)
(* Sizes and buffer                                                        *)
(***************************************************************************)
\* The lower bound, and the chunk aligned to the lines: roofline_PPCM is a
\* product divided by roofline_PGCD.  Without room there are no sizes, and the
\* call is over.
SetBounds ==
  /\ at = "bounds"
  /\ low' = LowOf(job)
  /\ chunk' = ChunkOf(job)
  /\ ppcm' = PgcdStart(chunk', Alignement)
  /\ at' = IF job.mem.up < low' THEN "end"
           ELSE IF chunk' % Alignement = 0 THEN "sizes" ELSE "align"
  /\ UNCHANGED <<validationVars, todo, job, sizes, i, alloc, size, linkVars, loopVars,
                 out, measured>>

AlignDivide ==
  /\ at = "align" /\ Remainder(ppcm) # 0
  /\ ppcm' = PgcdNext(ppcm)
  /\ UNCHANGED <<validationVars, todo, job, at, chunk, low, sizes, i, alloc, size,
                 linkVars, loopVars, out, measured>>

Align ==
  /\ at = "align" /\ Remainder(ppcm) = 0
  /\ chunk' = (chunk * Alignement) \div ppcm.min
  /\ at' = "sizes"
  /\ UNCHANGED <<validationVars, todo, job, ppcm, low, sizes, i, alloc, size, linkVars,
                 loopVars, out, measured>>

\* roofline_linear_sizes, new_roofline_stream.
SetSizes ==
  /\ at = "sizes"
  /\ sizes' = LinearSizes(low, job.mem.up)
  /\ alloc' = job.mem.up
  /\ size' = Resize(job.mem.up)
  /\ i' = 0
  /\ at' = "round"
  /\ UNCHANGED <<validationVars, todo, job, ppcm, chunk, low, linkVars, loopVars, out,
                 measured>>

\* Mutant: the index stays on the size that is skipped.
SkipSizeStays ==
  /\ at = "round" /\ i < NSizes /\ Skipped(i)
  /\ UNCHANGED vars

SkipSize ==
  /\ at = "round" /\ i < NSizes /\ Skipped(i)
  /\ i' = i + 1
  /\ UNCHANGED <<validationVars, todo, job, at, sizeVars, size, linkVars, loopVars,
                 out, measured>>

\* The stream is large enough for every size, so a latency stream never grows.
UseSize ==
  /\ at = "round" /\ i < NSizes /\ ~ Skipped(i)
  /\ size' = sizes[i]
  /\ IF job.kind = "latency"
     THEN /\ k' = size' \div 8
          /\ rands' = [n \in 0 .. k' - 1 |-> n]
          /\ links' = [n \in 0 .. k' - 1 |-> 0]
          /\ at' = "links" /\ UNCHANGED <<left, work>>
     ELSE at' = "pass" /\ left' = Repeat /\ work' = NoWork /\ UNCHANGED linkVars
  /\ UNCHANGED <<validationVars, todo, job, sizeVars, i, r11, r12, rax, out, measured>>

NoMoreSize ==
  /\ at = "round" /\ i = NSizes
  /\ at' = "end"
  /\ UNCHANGED <<validationVars, todo, job, sizeVars, i, size, linkVars, loopVars,
                 out, measured>>

(***************************************************************************)
(* The latency stream                                                      *)
(***************************************************************************)
\* rand_r(), called once for each cell.
Rand == Draws[1 + (k % Len(Draws))]

\* Mutant: the cell that was drawn stays among those to draw.
LinkKeeps ==
  LET val == Rand % k
  IN  /\ at = "links" /\ k > 0
      /\ links' = [links EXCEPT ![k - 1] = rands[val]]
      /\ k' = k - 1
      /\ UNCHANGED <<validationVars, todo, job, at, sizeVars, i, size, rands,
                     loopVars, out, measured>>

\* latency_stream_init: a cell is drawn among those left, and the last of them
\* takes its place.
Link ==
  LET val == Rand % k
  IN  /\ at = "links" /\ k > 0
      /\ links' = [links EXCEPT ![k - 1] = rands[val]]
      /\ rands' = [rands EXCEPT ![val] = rands[k - 1]]
      /\ k' = k - 1
      /\ UNCHANGED <<validationVars, todo, job, at, sizeVars, i, size, loopVars, out,
                     measured>>

\* roofline_latency_stream_load
BeginChase ==
  /\ at = "links" /\ k = 0
  /\ at' = "chase"
  /\ left' = (Repeat * size) \div 4 /\ rax' = 0 /\ work' = NoWork
  /\ UNCHANGED <<validationVars, todo, job, sizeVars, i, size, linkVars, r11, r12,
                 out, measured>>

Chase ==
  /\ at = "chase"
  /\ rax' = links[rax]
  /\ work' = Plus(work, [NoWork EXCEPT !.loads = 1])
  /\ left' = left - 1
  /\ at' = IF left' = 0 THEN "report" ELSE at
  /\ UNCHANGED <<validationVars, todo, job, sizeVars, i, size, linkVars, r11, r12,
                 out, measured>>

(***************************************************************************)
(* The loops of the kernels.  Their overhead, timed apart, goes through    *)
(* the same loop without the instructions.                                 *)
(***************************************************************************)
Pass ==
  /\ at = "pass"
  /\ r11' = 0 /\ r12' = size
  /\ at' = "chunk"
  /\ UNCHANGED <<validationVars, todo, job, sizeVars, i, size, linkVars, left, rax,
                 work, out, measured>>

Iterate ==
  /\ at = "chunk"
  /\ work' = Plus(work, IterationWork)
  /\ r11' = r11 + Step /\ r12' = r12 - Step
  /\ IF r12' # 0 THEN UNCHANGED <<at, left>>
     ELSE left' = left - 1 /\ at' = IF left' = 0 THEN "report" ELSE "pass"
  /\ UNCHANGED <<validationVars, todo, job, sizeVars, i, size, linkVars, rax, out,
                 measured>>

\* simd_fp: two turns over the 16 registers.
ComputeFlops ==
  /\ at = "flops"
  /\ work' = Plus(work, [NoWork EXCEPT !.fuops = 32])
  /\ left' = IF left = 1 THEN Repeat ELSE left - 1
  /\ at' = IF left = 1 THEN "overhead" ELSE at
  /\ UNCHANGED <<validationVars, todo, job, sizeVars, i, size, linkVars, r11, r12, rax,
                 out, measured>>

\* Mutant: the overhead is not repeated.
ComputeOverheadOnce ==
  /\ at = "overhead"
  /\ work' = Plus(work, [NoWork EXCEPT !.fuops = -16])
  /\ left' = 0
  /\ at' = "report"
  /\ UNCHANGED <<validationVars, todo, job, sizeVars, i, size, linkVars, r11, r12, rax,
                 out, measured>>

\* simd_fp_overhead: one turn, whose cycles are subtracted.
ComputeOverhead ==
  /\ at = "overhead"
  /\ work' = Plus(work, [NoWork EXCEPT !.fuops = -16])
  /\ left' = left - 1
  /\ at' = IF left' = 0 THEN "report" ELSE at
  /\ UNCHANGED <<validationVars, todo, job, sizeVars, i, size, linkVars, r11, r12, rax,
                 out, measured>>

Report ==
  /\ at = "report"
  /\ out' = Reported
  /\ measured' = measured + 1
  /\ at' = "reported"
  /\ UNCHANGED <<validationVars, todo, job, sizeVars, i, size, linkVars, loopVars>>

Continue ==
  /\ at = "reported"
  /\ IF job.kind = "fpeak" THEN at' = "end" /\ UNCHANGED i
     ELSE at' = "round" /\ i' = i + 1
  /\ UNCHANGED <<validationVars, todo, job, sizeVars, size, linkVars, loopVars, out,
                 measured>>

End ==
  /\ at = "end"
  /\ at' = "idle"
  /\ IF job.kind = "oi" THEN Release ELSE UNCHANGED validationVars
  /\ UNCHANGED <<todo, job, sizeVars, i, size, linkVars, loopVars, out, measured>>

\* The program has ended.
Done == at = "idle" /\ phase = "idle" /\ todo = <<>> /\ UNCHANGED vars

Next ==
  \/ BeginOi \/ Validate \/ BeginKernel \/ BeginStream \/ BeginFpeak
  \/ SetBounds \/ AlignDivide \/ Align \/ SetSizes
  \/ SkipSize \/ UseSize \/ NoMoreSize
  \/ Link \/ BeginChase \/ Chase
  \/ Pass \/ Iterate \/ ComputeFlops \/ ComputeOverhead
  \/ Report \/ Continue \/ End
  \/ Done

Spec == Init /\ [][Next]_vars

\* The thread runs.
FairSpec == Spec /\ WF_vars(Next)

-----------------------------------------------------------------------------
(***************************************************************************)
(* Properties                                                              *)
(***************************************************************************)
TypeOK ==
  /\ ValidationTypeOK
  /\ todo \in Seq(Call)
  /\ job \in Call \union {[kind |-> "none"]}
  /\ at \in {"idle", "bounds", "align", "sizes", "round", "links", "chase", "pass",
            "chunk", "flops", "overhead", "report", "reported", "end"}
  /\ {chunk, low} \subseteq Nat \ {0}
  /\ sizes \in [0 .. NSizes - 1 -> Nat]
  /\ i \in 0 .. NSizes
  /\ {alloc, size, k, left, r11, r12, rax, measured} \subseteq Nat
  /\ out \in [bytes : Nat, flops : Nat, ins : Nat]

\* A kernel stays in its buffer.  The loops end when r12 is exactly 0: a size
\* that is 0, or no multiple of what the kernel at hand goes through (its chunk
\* is a global the next kernel overwrites), would lead it out.
InBuffer ==
  /\ at = "chunk" => r11 + Accessed <= size /\ size <= alloc
  /\ at = "chase" => 8 * rax + 8 <= size /\ size <= alloc

\* Cells of a latency stream.
Cells == 0 .. (size \div 8) - 1

\* Every cell is linked to by one cell: the chase never falls into a short loop
\* that it did not start on.
LinksPermuted ==
  at = "chase" => {links[n] : n \in Cells} = Cells

\* What is reported is what was run between the timestamps less what the
\* overhead takes away.  Bytes of the latency stream are left out: each of the
\* loads counted reads 8 bytes, and 4 are reported.
WorkReported ==
  at = "reported" =>
    /\ job.kind = "latency" \/ out.bytes = (work.loads + work.stores) * SimdBytes
    /\ out.flops = work.fuops * SimdFlops *
                     (CASE job.kind = "fpeak" -> PerElement(job.unit)
                        [] job.kind = "oi"    -> PerElement(Head(units))
                        [] OTHER              -> 0)
    /\ out.ins = work.loads + work.stores + work.fuops

\* No memory is passed over in silence: with a chunk of room for each size, or
\* in a first cache with room for the lower bound, one size at least is kept.
Measured ==
  at = "end" /\ job.kind # "fpeak" =>
    \/ measured > 0
    \/ IF job.mem.l1 THEN job.mem.up < low
       ELSE job.mem.up < low + NSizes * chunk

\* Writing a kernel, its divisions and all loops come to an end.
Ends == <>(todo = <<>> /\ at = "idle" /\ phase = "idle")
=============================================================================
