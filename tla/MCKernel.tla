------------------------------ MODULE MCKernel ------------------------------
(* Small instances of Kernel: the intensities, memories and programs.      *)
EXTENDS Kernel

\* Intensities of bench_memory(): --validate gives one flop for 2 to 32 bytes
\* and 1 to 13 flops for one byte, --oi 0.3, 1.1 and 2.5 the last ones.
Points == {<<1, 6>>, <<1, 8>>, <<1, 30>>, <<7, 1>>, <<1, 3>>, <<70, 64>>, <<160, 64>>}

\* With and without fused instructions, which may fail to compile.
UnitLists == {<<"FMA", "MAD">>, <<"MUL">>}

Asked ==
  {[op |-> op, units |-> us, flops |-> p[1], bytes |-> p[2]] :
     op \in MemoryOps, us \in UnitLists, p \in Points}

\* A first cache of 16kB, one too small for most kernels, and a larger cache
\* from 8100 bytes on, which no chunk divides.
L1 == [l1 |-> TRUE, low |-> 1, up |-> 16384]
Tiny == [l1 |-> TRUE, low |-> 1, up |-> 1024]
L2 == [l1 |-> FALSE, low |-> 8100, up |-> 16000]

Oi(r, mem) == [kind |-> "oi", request |-> r, mem |-> mem]
Latency(mem) == [kind |-> "latency", mem |-> mem]
Stream(op, mem) == [kind |-> "stream", op |-> op, mem |-> mem]
Fpeak(unit) == [kind |-> "fpeak", unit |-> unit]

\* Kernels one by one; latency before and after a kernel; a stream after it.
AllPrograms ==
  {<<Oi(r, L1)>> : r \in Asked}
  \union {<<Oi(r, mem)>> : r \in {q \in Asked : q.bytes = 8}, mem \in {Tiny, L2}}
  \union {<<Latency(Tiny), Oi(r, Tiny), Latency(mem), Stream("2LD1ST", L2)>> :
            r \in {q \in Asked : q.op = "2LD1ST" /\ q.bytes \in {1, 3}},
            mem \in {Tiny, [l1 |-> TRUE, low |-> 1, up |-> 3000]}}
  \union {<<Stream(op, L1), Fpeak(unit)>> : op \in MemoryOps, unit \in Units}

\* Stands for rand_r() and its seed.
SomeDraws == [n \in 1 .. 400 |-> (n * 7919) % 1009]
=============================================================================
