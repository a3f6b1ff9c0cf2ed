----------------------------- MODULE Validation -----------------------------
(***************************************************************************)
(* The validation kernels: roofline_oi() (roofline.c) asks for a kernel of *)
(* a given intensity, benchmark_validation() (MSC/intel/validation.c)      *)
(* writes one as a loop that interleaves memory and compute instructions,  *)
(* compiles it and loads it.  When that fails for a compute unit, the next *)
(* unit is tried.                                                          *)
(*                                                                         *)
(* The text of an instruction is left out; what is kept is how many are    *)
(* written, and the counters the loop runs on.                             *)
(***************************************************************************)
EXTENDS Integers, FiniteSets, Sequences

CONSTANTS
  SimdBytes,  \* SIMD_BYTES: bytes of a vector register
  SimdFlops,  \* SIMD_FLOPS: doubles in it
  SimdRegs,   \* SIMD_N_REGS: number of them
  Requests    \* the kernels roofline_oi() may ask for

Loads == {"LOAD", "LOAD_NT"}
Stores == {"STORE", "STORE_NT"}
MemoryOps == Loads \union Stores \union {"2LD1ST"}
Units == {"ADD", "MUL", "MAD", "FMA"}

\* The intensity asked for is flops per byte; units are in the order they are
\* tried.  main() never asks for 0 flops or 0 bytes.
Request ==
  [op : MemoryOps, units : Seq(Units), flops : Nat \ {0}, bytes : Nat \ {0}]

ASSUME SimdAssumption ==
  /\ SimdBytes \in Nat \ {0} /\ SimdFlops \in Nat \ {0} /\ SimdRegs \in Nat \ {0}
  /\ SimdBytes = (SimdBytes \div SimdFlops) * SimdFlops
ASSUME RequestAssumption == Requests \subseteq Request /\ Requests # {}

VARIABLES
  phase,          \* "idle", or where benchmark_validation() is
  request,        \* what was asked last
  units,          \* the units not tried yet; the first is the one tried
  pgcd,           \* max and min of roofline_PGCD()
  mem_ins,        \* memory instructions in a body of the loop
  flop_ins,       \* compute instructions in it
  code,           \* what has been written
  oi_chunk_size   \* bytes an iteration of the last kernel goes through

validationVars ==
  <<phase, request, units, pgcd, mem_ins, flop_ins, code, oi_chunk_size>>

-----------------------------------------------------------------------------
(***************************************************************************)
(* roofline_PGCD(): its state, and one turn of its loop                    *)
(***************************************************************************)
PgcdStart(a, b) ==
  [max |-> IF a > b THEN a ELSE b, min |-> IF a > b THEN b ELSE a]

Remainder(e) == e.max % e.min

PgcdNext(e) == [max |-> e.min, min |-> Remainder(e)]

(***************************************************************************)
(* What is written                                                         *)
(***************************************************************************)
NoCode ==
  [loads |-> 0, stores |-> 0, fuops |-> 0, regnum |-> 0, offset |-> 0,
   bytes |-> 0, flops |-> 0, ins |-> 0]

\* muops, the number of memory instructions written.
Muops(c) == c.loads + c.stores

\* Flops of one element of a compute instruction.
PerElement(unit) == IF unit = "FMA" THEN 2 ELSE 1

\* How many of m memory instructions, numbered from first, are stores.
StoresIn(op, first, m) ==
  Cardinality({k \in first .. first + m - 1 :
                 op \in Stores \/ (op = "2LD1ST" /\ k % 3 = 0)})

\* One body of the loop: the memory instructions, then the compute ones.
WithBody(c, op, unit, m, f) ==
  LET stores == StoresIn(op, Muops(c), m)
  IN  [loads  |-> c.loads + m - stores,
       stores |-> c.stores + stores,
       fuops  |-> c.fuops + f,
       regnum |-> (c.regnum + m + f) % 32,
       offset |-> c.offset + m * SimdBytes,
       bytes  |-> c.bytes + m * SimdBytes,
       flops  |-> c.flops + f * SimdFlops * PerElement(unit),
       ins    |-> c.ins + f + m]

\* Two loads and a store come in threes.
Whole(c, op) == op = "2LD1ST" => Muops(c) % 3 = 0

Enough(c, op) ==
  c.ins > 64 /\ c.regnum >= SimdRegs \div 2 /\ Whole(c, op)

\* Mutant: the loop also ends in the middle of two loads and a store.
FinishedAnywhere(c, op) == (c.ins > 64 /\ c.regnum >= SimdRegs \div 2) \/ c.regnum = 0

Finished(c, op) == Enough(c, op) \/ (c.regnum = 0 /\ Whole(c, op))

-----------------------------------------------------------------------------
\* oi_chunk_size before any kernel is written.
FirstChunk == 64

ValidationInit ==
  /\ phase = "idle"
  /\ request = CHOOSE r \in Requests : TRUE
  /\ units = <<>>
  /\ pgcd = PgcdStart(1, 1)
  /\ mem_ins = 1 /\ flop_ins = 1
  /\ code = NoCode
  /\ oi_chunk_size = FirstChunk

\* roofline_oi: a kernel for one operation of the memory.
Ask(r) ==
  /\ phase = "idle"
  /\ phase' = "unit"
  /\ request' = r
  /\ units' = r.units
  /\ UNCHANGED <<pgcd, mem_ins, flop_ins, code, oi_chunk_size>>

\* Mutant: a fused instruction is counted as one flop.
TryUnitUnfused ==
  LET f == (request.flops * SimdBytes) \div SimdFlops
  IN  /\ phase = "unit" /\ units # <<>>
      /\ mem_ins' = request.bytes
      /\ flop_ins' = f
      /\ pgcd' = PgcdStart(f, request.bytes)
      /\ phase' = "pgcd"
      /\ UNCHANGED <<request, units, code, oi_chunk_size>>

\* Flops and bytes become numbers of instructions.
TryUnit ==
  LET m == request.bytes * PerElement(Head(units))
      f == (request.flops * SimdBytes) \div SimdFlops
  IN  /\ phase = "unit" /\ units # <<>>
      /\ mem_ins' = m
      /\ flop_ins' = f
      /\ pgcd' = PgcdStart(f, m)
      /\ phase' = "pgcd"
      /\ UNCHANGED <<request, units, code, oi_chunk_size>>

\* No unit is left: there is no kernel for this operation.
GiveUp ==
  /\ phase = "unit" /\ units = <<>>
  /\ phase' = "idle"
  /\ UNCHANGED <<request, units, pgcd, mem_ins, flop_ins, code, oi_chunk_size>>

Divide ==
  /\ phase = "pgcd" /\ Remainder(pgcd) # 0
  /\ pgcd' = PgcdNext(pgcd)
  /\ UNCHANGED <<phase, request, units, mem_ins, flop_ins, code, oi_chunk_size>>

\* Mutant: the greater of the two is taken for the divisor.
SimplifyByMax ==
  /\ phase = "pgcd" /\ Remainder(pgcd) = 0
  /\ mem_ins' = mem_ins \div pgcd.max
  /\ flop_ins' = flop_ins \div pgcd.max
  /\ code' = NoCode
  /\ phase' = "write"
  /\ UNCHANGED <<request, units, pgcd, oi_chunk_size>>

Simplify ==
  /\ phase = "pgcd" /\ Remainder(pgcd) = 0
  /\ mem_ins' = mem_ins \div pgcd.min
  /\ flop_ins' = flop_ins \div pgcd.min
  /\ code' = NoCode
  /\ phase' = "write"
  /\ UNCHANGED <<request, units, pgcd, oi_chunk_size>>

\* One turn of the loop of roofline_benchmark_write_oi_bench.  When it is over
\* the chunk of validation kernels is what an iteration goes through.
WriteBody ==
  /\ phase = "write"
  /\ code' = WithBody(code, request.op, Head(units), mem_ins, flop_ins)
  /\ IF Finished(code', request.op)
     THEN phase' = "load" /\ oi_chunk_size' = code'.offset
     ELSE UNCHANGED <<phase, oi_chunk_size>>
  /\ UNCHANGED <<request, units, pgcd, mem_ins, flop_ins>>

Load ==
  /\ phase = "load"
  /\ phase' = "ready"
  /\ UNCHANGED <<request, units, pgcd, mem_ins, flop_ins, code, oi_chunk_size>>

\* The compiler or the loader fails; the chunk stays that of the lost kernel.
LoadFails ==
  /\ phase = "load"
  /\ phase' = "unit"
  /\ units' = Tail(units)
  /\ UNCHANGED <<request, pgcd, mem_ins, flop_ins, code, oi_chunk_size>>

\* The kernel has been used.
Release ==
  /\ phase = "ready"
  /\ phase' = "idle"
  /\ UNCHANGED <<request, units, pgcd, mem_ins, flop_ins, code, oi_chunk_size>>

Generate ==
  \/ TryUnit \/ GiveUp
  \/ Divide \/ Simplify \/ WriteBody
  \/ Load \/ LoadFails

ValidationNext == (\E r \in Requests : Ask(r)) \/ Generate \/ Release

ValidationSpec == ValidationInit /\ [][ValidationNext]_validationVars

-----------------------------------------------------------------------------
(***************************************************************************)
(* Properties                                                              *)
(***************************************************************************)
Written == phase \in {"load", "ready"}

ValidationTypeOK ==
  /\ phase \in {"idle", "unit", "pgcd", "write", "load", "ready"}
  /\ request \in Requests
  /\ units \in Seq(Units)
  /\ pgcd \in [max : Nat \ {0}, min : Nat \ {0}]
  /\ mem_ins \in Nat \ {0} /\ flop_ins \in Nat \ {0}
  /\ code \in [loads : Nat, stores : Nat, fuops : Nat, regnum : 0 .. 31,
               offset : Nat, bytes : Nat, flops : Nat, ins : Nat]
  /\ oi_chunk_size \in Nat \ {0}

\* The kernel has the intensity that was asked: its compute instructions, two
\* flops per element when they are fused, are to the bytes of its memory
\* instructions what the flops asked are to the bytes asked, whatever the
\* simplification and the number of bodies written.
IntensityReached ==
  Written =>
    code.fuops * SimdFlops * PerElement(Head(units)) * request.bytes
      = Muops(code) * SimdBytes * request.flops

\* A kernel of two loads and a store ends with a whole group, so that the loop
\* repeats the pattern.
TwoLoadsAStore ==
  Written /\ request.op = "2LD1ST" => code.loads = 2 * code.stores
=============================================================================
