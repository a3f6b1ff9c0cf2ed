-------------------------- MODULE ValidationProofs --------------------------
(* Theorems about Validation for every vector unit and every request.      *)
EXTENDS Validation, FiniteSetTheorems, FunctionTheorems, TLAPS

(***************************************************************************)
(* Division                                                                *)
(***************************************************************************)
Positive == Nat \ {0}

Divides(d, n) == \E q \in Nat : n = q * d

LEMMA DivModFacts ==
  ASSUME NEW a \in Nat, NEW b \in Positive
  PROVE  /\ a \div b \in Nat /\ a % b \in Nat /\ a % b < b
         /\ a = b * (a \div b) + (a % b)
<1>1. a \div b \in Nat
  BY DEF Positive
<1>2. a % b \in 0 .. b - 1
  BY DEF Positive
<1>3. a = b * (a \div b) + (a % b)
  BY DEF Positive
<1>4. QED
  BY <1>1, <1>2, <1>3 DEF Positive

LEMMA RemainderZero ==
  ASSUME NEW a \in Nat, NEW b \in Positive, a % b = 0
  PROVE  Divides(b, a)
<1>1. a \div b \in Nat /\ a = b * (a \div b) + 0
  BY DivModFacts
<1>2. a = (a \div b) * b
  BY <1>1 DEF Positive
<1>3. QED
  BY <1>1, <1>2 DEF Divides

LEMMA DividesSelf ==
  ASSUME NEW a \in Nat
  PROVE  Divides(a, a)
BY DEF Divides

\* What divides both of two numbers divides a combination of them.
LEMMA DividesSum ==
  ASSUME NEW d \in Nat, NEW a \in Nat, NEW b \in Nat, NEW q \in Nat,
         Divides(d, a), Divides(d, b)
  PROVE  Divides(d, q * a + b)
<1>1. PICK x \in Nat : a = x * d
  BY DEF Divides
<1>2. PICK y \in Nat : b = y * d
  BY DEF Divides
<1>3. q * x + y \in Nat
  OBVIOUS
<1>4. q * a + b = (q * x + y) * d
  BY <1>1, <1>2
<1>5. QED
  BY <1>3, <1>4 DEF Divides

\* The quotient by a divisor is exact.
LEMMA ExactQuotient ==
  ASSUME NEW a \in Nat, NEW d \in Positive, Divides(d, a)
  PROVE  a \div d \in Nat /\ a = (a \div d) * d
<1>1. PICK x \in Nat : a = x * d
  BY DEF Divides
<1>2. a \div d = x
  BY <1>1 DEF Positive
<1>3. QED
  BY <1>1, <1>2

LEMMA PositiveQuotient ==
  ASSUME NEW a \in Positive, NEW d \in Positive, Divides(d, a)
  PROVE  a \div d \in Positive
<1>1. a \div d \in Nat /\ a = (a \div d) * d
  BY ExactQuotient DEF Positive
<1>2. a \div d = 0 => a = 0
  BY <1>1 DEF Positive
<1>3. QED
  BY <1>1, <1>2 DEF Positive

LEMMA ProductGrows ==
  ASSUME NEW d \in Positive, NEW a \in Nat, NEW c \in Positive
  PROVE  d * (a + c) # d * a
<1>1. d * (a + c) = d * a + d * c
  BY DEF Positive
<1>2. d * c \in Positive /\ d * a \in Nat
  BY DEF Positive
<1> DEFINE p == d * a
           q == d * c
<1> HIDE DEF p, q
<1>3. p + q # p
  BY <1>2 DEF Positive, p, q
<1>4. QED
  BY <1>1, <1>3 DEF p, q

LEMMA Cancel ==
  ASSUME NEW d \in Positive, NEW a \in Nat, NEW b \in Nat, d * a = d * b
  PROVE  a = b
<1>1. ASSUME a < b PROVE FALSE
  <2>1. b - a \in Positive /\ b = a + (b - a)
    BY <1>1 DEF Positive
  <2>2. QED
    BY <2>1, ProductGrows
<1>2. ASSUME b < a PROVE FALSE
  <2>1. a - b \in Positive /\ a = b + (a - b)
    BY <1>2 DEF Positive
  <2>2. QED
    BY <2>1, ProductGrows
<1>3. QED
  BY <1>1, <1>2

\* A ratio is kept when both terms are divided.
LEMMA SimplifiedRatio ==
  ASSUME NEW p \in Nat, NEW q \in Nat, NEW x \in Nat, NEW y \in Nat,
         NEW d \in Positive, (p * d) * x = (q * d) * y
  PROVE  p * x = q * y
<1>1. p * x \in Nat /\ q * y \in Nat
  OBVIOUS
<1>2. d * (p * x) = (p * d) * x
  BY DEF Positive
<1>3. d * (q * y) = (q * d) * y
  BY DEF Positive
<1>4. d * (p * x) = d * (q * y)
  BY <1>2, <1>3
<1>5. QED
  BY <1>1, <1>4, Cancel

\* What is written in the proportion of the bodies has the ratio of a body.
LEMMA WrittenRatio ==
  ASSUME NEW u \in Nat, NEW v \in Nat, NEW m \in Positive, NEW f \in Nat,
         NEW x \in Nat, NEW y \in Nat, u * m = v * f, f * x = m * y
  PROVE  u * x = v * y
<1>1. u * x \in Nat /\ v * y \in Nat
  OBVIOUS
<1>2. m * (u * x) = (u * m) * x
  BY DEF Positive
<1>3. (v * f) * x = v * (f * x)
  OBVIOUS
<1>4. v * (m * y) = m * (v * y)
  BY DEF Positive
<1>5. m * (u * x) = m * (v * y)
  BY <1>2, <1>3, <1>4
<1>6. QED
  BY <1>1, <1>5, Cancel

(***************************************************************************)
(* The invariant                                                           *)
(***************************************************************************)
Unit == Head(units)

\* The terms of the intensity that is asked, in instructions.
BytesTerm == request.bytes * PerElement(Unit)
FlopsTerm == request.flops * (SimdBytes \div SimdFlops)

Tried == phase \in {"pgcd", "write", "load", "ready"} => units # <<>>

\* What divides both numbers of roofline_PGCD divides what it was called with.
CommonDivisors ==
  phase = "pgcd" =>
    \A d \in Positive :
      Divides(d, pgcd.max) /\ Divides(d, pgcd.min)
        => Divides(d, mem_ins) /\ Divides(d, flop_ins)

BodyRatio ==
  phase \in {"pgcd", "write", "load", "ready"}
    => flop_ins * BytesTerm = mem_ins * FlopsTerm

CodeRatio ==
  phase \in {"write", "load", "ready"}
    => code.fuops * mem_ins = Muops(code) * flop_ins

CodeCounts ==
  phase \in {"write", "load", "ready"} =>
    /\ code.offset = Muops(code) * SimdBytes
    /\ code.bytes = code.offset
    /\ code.flops = code.fuops * (SimdFlops * PerElement(Unit))
    /\ code.ins = code.fuops + Muops(code)

ChunkOfCode ==
  phase \in {"load", "ready"} => oi_chunk_size = code.offset /\ code.offset > 0

ValidationInv ==
  /\ ValidationTypeOK
  /\ Tried
  /\ CommonDivisors
  /\ BodyRatio
  /\ CodeRatio
  /\ CodeCounts
  /\ ChunkOfCode

LEMMA SimdFacts ==
  /\ SimdBytes \in Positive /\ SimdFlops \in Positive
  /\ SimdBytes \div SimdFlops \in Positive
  /\ SimdBytes = (SimdBytes \div SimdFlops) * SimdFlops
<1>1. SimdBytes \in Positive /\ SimdFlops \in Positive
  BY SimdAssumption DEF Positive
<1>2. SimdBytes = (SimdBytes \div SimdFlops) * SimdFlops
  BY SimdAssumption
<1>3. SimdBytes \div SimdFlops \in Nat
  BY <1>1, DivModFacts DEF Positive
<1>4. SimdBytes \div SimdFlops # 0
  BY <1>1, <1>2, <1>3 DEF Positive
<1>5. QED
  BY <1>1, <1>2, <1>3, <1>4 DEF Positive

LEMMA TermFacts ==
  ASSUME request \in Requests
  PROVE  /\ request.units \in Seq(Units)
         /\ request.flops \in Positive /\ request.bytes \in Positive
         /\ PerElement(Unit) \in {1, 2}
         /\ BytesTerm \in Positive /\ FlopsTerm \in Positive
<1>1. request \in Request
  BY RequestAssumption
<1>2. /\ request.units \in Seq(Units)
      /\ request.flops \in Positive /\ request.bytes \in Positive
  BY <1>1 DEF Request, Positive
<1>3. PerElement(Unit) \in {1, 2}
  BY DEF PerElement
<1>4. BytesTerm \in Positive
  BY <1>2, <1>3 DEF BytesTerm, Positive
<1>5. FlopsTerm \in Positive
  <2> DEFINE w == SimdBytes \div SimdFlops
  <2>1. w \in Positive
    BY SimdFacts
  <2> HIDE DEF w
  <2>2. request.flops * w \in Positive
    BY <1>2, <2>1 DEF Positive
  <2>3. QED
    BY <2>2 DEF w, FlopsTerm
<1>6. QED
  BY <1>2, <1>3, <1>4, <1>5

\* A product is divided by a factor of one of its terms.
LEMMA QuotientOfProduct ==
  ASSUME NEW a \in Nat, NEW w \in Nat, NEW d \in Positive
  PROVE  (a * (w * d)) \div d = a * w
<1>1. a * (w * d) = (a * w) * d
  BY DEF Positive
<1>2. a * w \in Nat
  OBVIOUS
<1> DEFINE p == a * w
<1> HIDE DEF p
<1>3. (p * d) \div d = p
  BY <1>2 DEF Positive, p
<1>4. QED
  BY <1>1, <1>3 DEF p

(***************************************************************************)
(* One body of the loop                                                    *)
(***************************************************************************)
CodeType ==
  [loads : Nat, stores : Nat, fuops : Nat, regnum : 0 .. 31, offset : Nat,
   bytes : Nat, flops : Nat, ins : Nat]

LEMMA StoresBound ==
  ASSUME NEW op, NEW first \in Nat, NEW m \in Nat
  PROVE  StoresIn(op, first, m) \in 0 .. m
<1> DEFINE all == first .. first + m - 1
           stored == {n \in all : op \in Stores \/ (op = "2LD1ST" /\ n % 3 = 0)}
<1>1. IsFiniteSet(all) /\ Cardinality(all) = m
  BY FS_Interval
<1>2. IsFiniteSet(stored) /\ Cardinality(stored) <= m
  BY <1>1, FS_Subset
<1>3. Cardinality(stored) \in Nat
  BY <1>2, FS_CardinalityType
<1>4. QED
  BY <1>2, <1>3 DEF StoresIn

LEMMA BodyFacts ==
  ASSUME NEW c \in CodeType, NEW op, NEW unit, NEW m \in Nat, NEW f \in Nat
  PROVE  LET d == WithBody(c, op, unit, m, f)
         IN  /\ d \in CodeType
             /\ Muops(d) = Muops(c) + m
             /\ d.fuops = c.fuops + f
             /\ d.offset = c.offset + m * SimdBytes
             /\ d.bytes = c.bytes + m * SimdBytes
             /\ d.flops = c.flops + f * SimdFlops * PerElement(unit)
             /\ d.ins = c.ins + f + m
<1> DEFINE s == StoresIn(op, Muops(c), m)
           d == WithBody(c, op, unit, m, f)
<1>1. Muops(c) \in Nat
  BY DEF CodeType, Muops
<1>2. s \in 0 .. m
  BY <1>1, StoresBound
<1> HIDE DEF s
<1>3. /\ d.loads = c.loads + m - s /\ d.stores = c.stores + s
      /\ d.fuops = c.fuops + f
      /\ d.regnum = (c.regnum + m + f) % 32
      /\ d.offset = c.offset + m * SimdBytes
      /\ d.bytes = c.bytes + m * SimdBytes
      /\ d.flops = c.flops + f * SimdFlops * PerElement(unit)
      /\ d.ins = c.ins + f + m
      /\ d = [loads |-> d.loads, stores |-> d.stores, fuops |-> d.fuops,
              regnum |-> d.regnum, offset |-> d.offset, bytes |-> d.bytes,
              flops |-> d.flops, ins |-> d.ins]
  BY DEF WithBody, s
<1> HIDE DEF d
<1>4. d.loads \in Nat /\ d.stores \in Nat /\ d.fuops \in Nat /\ d.ins \in Nat
  BY <1>2, <1>3 DEF CodeType
<1>5. d.regnum \in 0 .. 31
  <2>1. c.regnum + m + f \in Nat
    BY DEF CodeType
  <2>2. QED
    BY <1>3, <2>1
<1>6. m * SimdBytes \in Nat
  BY SimdFacts DEF Positive
<1>7. f * SimdFlops * PerElement(unit) \in Nat
  BY SimdFacts DEF Positive, PerElement
<1>8. d.offset \in Nat /\ d.bytes \in Nat /\ d.flops \in Nat
  BY <1>3, <1>6, <1>7 DEF CodeType
<1>9. d \in CodeType
  BY <1>3, <1>4, <1>5, <1>8 DEF CodeType
<1>10. Muops(d) = Muops(c) + m
  BY <1>2, <1>3 DEF Muops, CodeType
<1>11. QED
  BY <1>3, <1>9, <1>10 DEF d

(***************************************************************************)
(* Steps                                                                   *)
(***************************************************************************)
LEMMA InitInv == ValidationInit => ValidationInv
<1> SUFFICES ASSUME ValidationInit PROVE ValidationInv
  OBVIOUS
<1>1. request \in Requests
  BY RequestAssumption DEF ValidationInit
<1>2. NoCode \in CodeType
  BY DEF NoCode, CodeType
<1>3. PgcdStart(1, 1) \in [max : Nat \ {0}, min : Nat \ {0}]
  BY DEF PgcdStart
<1>4. ValidationTypeOK
  BY <1>1, <1>2, <1>3 DEF ValidationInit, FirstChunk, ValidationTypeOK, CodeType
<1>5. QED
  BY <1>4 DEF ValidationInit, FirstChunk, ValidationInv, Tried, CommonDivisors, BodyRatio,
              CodeRatio, CodeCounts, ChunkOfCode

LEMMA AskStep ==
  ASSUME ValidationInv, NEW r \in Requests, Ask(r)
  PROVE  ValidationInv'
<1>1. r.units \in Seq(Units)
  BY RequestAssumption DEF Request
<1>2. ValidationTypeOK'
  BY <1>1 DEF ValidationInv, ValidationTypeOK, Ask
<1>3. QED
  BY <1>2 DEF Ask, ValidationInv, Tried, CommonDivisors, BodyRatio, CodeRatio,
              CodeCounts, ChunkOfCode

LEMMA TryUnitStep ==
  ASSUME ValidationInv, TryUnit
  PROVE  ValidationInv'
<1> DEFINE m == request.bytes * PerElement(Head(units))
           f == (request.flops * SimdBytes) \div SimdFlops
           w == SimdBytes \div SimdFlops
<1>1. request \in Requests
  BY DEF ValidationInv, ValidationTypeOK
<1>2. m = BytesTerm /\ m \in Positive
  BY <1>1, TermFacts DEF BytesTerm, Unit
<1>3. f = FlopsTerm /\ f \in Positive
  <2>1. w \in Nat /\ SimdFlops \in Positive /\ SimdBytes = w * SimdFlops
    BY SimdFacts DEF Positive
  <2>2. request.flops \in Nat
    BY <1>1, TermFacts DEF Positive
  <2> HIDE DEF w
  <2>3. (request.flops * (w * SimdFlops)) \div SimdFlops = request.flops * w
    BY <2>1, <2>2, QuotientOfProduct
  <2>4. f = FlopsTerm
    BY <2>1, <2>3 DEF FlopsTerm, w
  <2>5. QED
    BY <2>4, <1>1, TermFacts
<1>4. /\ mem_ins' = m /\ flop_ins' = f /\ pgcd' = PgcdStart(f, m)
      /\ phase' = "pgcd" /\ units # <<>>
      /\ UNCHANGED <<request, units, code, oi_chunk_size>>
  BY DEF TryUnit
<1> HIDE DEF m, f
<1>5. /\ pgcd' \in [max : Nat \ {0}, min : Nat \ {0}]
      /\ (pgcd'.max = f /\ pgcd'.min = m) \/ (pgcd'.max = m /\ pgcd'.min = f)
  BY <1>2, <1>3, <1>4 DEF PgcdStart, Positive
<1>6. ValidationTypeOK'
  BY <1>2, <1>3, <1>4, <1>5 DEF ValidationInv, ValidationTypeOK, Positive
<1>7. CommonDivisors'
  BY <1>4, <1>5 DEF CommonDivisors
<1>8. BytesTerm' = BytesTerm /\ FlopsTerm' = FlopsTerm
  BY <1>4 DEF BytesTerm, FlopsTerm, Unit
<1>9. BodyRatio'
  <2>1. f * m = m * f
    BY <1>2, <1>3 DEF Positive
  <2>2. QED
    BY <2>1, <1>2, <1>3, <1>4, <1>8 DEF BodyRatio
<1>10. Tried' /\ CodeRatio' /\ CodeCounts' /\ ChunkOfCode'
  BY <1>4 DEF Tried, CodeRatio, CodeCounts, ChunkOfCode
<1>11. QED
  BY <1>6, <1>7, <1>9, <1>10 DEF ValidationInv

LEMMA PgcdFacts ==
  ASSUME ValidationTypeOK
  PROVE  /\ pgcd.max \in Positive /\ pgcd.min \in Positive
         /\ mem_ins \in Positive /\ flop_ins \in Positive
BY DEF ValidationTypeOK, Positive

LEMMA DivideStep ==
  ASSUME ValidationInv, Divide
  PROVE  ValidationInv'
<1> DEFINE r == Remainder(pgcd)
<1>1. /\ pgcd.max \in Positive /\ pgcd.min \in Positive
      /\ mem_ins \in Positive /\ flop_ins \in Positive
  BY PgcdFacts DEF ValidationInv
<1>2. /\ r \in Nat
      /\ pgcd.max = pgcd.min * (pgcd.max \div pgcd.min) + r
      /\ pgcd.max \div pgcd.min \in Nat
  BY <1>1, DivModFacts DEF Remainder, Positive
<1>3. /\ phase = "pgcd" /\ r # 0
      /\ pgcd' = [max |-> pgcd.min, min |-> r]
      /\ UNCHANGED <<phase, request, units, mem_ins, flop_ins, code, oi_chunk_size>>
  BY DEF Divide, PgcdNext
<1> HIDE DEF r
<1>4. ValidationTypeOK'
  BY <1>1, <1>2, <1>3 DEF ValidationInv, ValidationTypeOK, Positive
<1>5. CommonDivisors'
  <2> SUFFICES ASSUME NEW d \in Positive, Divides(d, pgcd.min), Divides(d, r)
               PROVE  Divides(d, mem_ins) /\ Divides(d, flop_ins)
    BY <1>3 DEF CommonDivisors
  <2>1. Divides(d, (pgcd.max \div pgcd.min) * pgcd.min + r)
    BY <1>1, <1>2, DividesSum DEF Positive
  <2>2. (pgcd.max \div pgcd.min) * pgcd.min + r = pgcd.max
    BY <1>1, <1>2 DEF Positive
  <2>3. Divides(d, pgcd.max)
    BY <2>1, <2>2
  <2>4. QED
    BY <2>3, <1>3 DEF ValidationInv, CommonDivisors
<1>6. QED
  BY <1>3, <1>4, <1>5 DEF ValidationInv, Tried, BodyRatio, CodeRatio, CodeCounts,
                          ChunkOfCode, BytesTerm, FlopsTerm, Unit

LEMMA SimplifyStep ==
  ASSUME ValidationInv, Simplify
  PROVE  ValidationInv'
<1> DEFINE g == pgcd.min
           m == mem_ins \div g
           f == flop_ins \div g
<1>1. /\ pgcd.max \in Positive /\ g \in Positive
      /\ mem_ins \in Positive /\ flop_ins \in Positive
  BY PgcdFacts DEF ValidationInv
<1>2. /\ phase = "pgcd" /\ pgcd.max % g = 0
      /\ mem_ins' = m /\ flop_ins' = f /\ code' = NoCode /\ phase' = "write"
      /\ UNCHANGED <<request, units, pgcd, oi_chunk_size>>
  BY DEF Simplify, Remainder
<1>3. Divides(g, pgcd.max) /\ Divides(g, g)
  BY <1>1, <1>2, RemainderZero, DividesSelf DEF Positive
<1>4. Divides(g, mem_ins) /\ Divides(g, flop_ins)
  BY <1>1, <1>2, <1>3 DEF ValidationInv, CommonDivisors
<1>5. m \in Positive /\ f \in Positive
  BY <1>1, <1>4, PositiveQuotient
<1>6. NoCode \in CodeType
  BY DEF NoCode, CodeType
<1>7. ValidationTypeOK'
  <2>1. mem_ins' \in Positive /\ flop_ins' \in Positive /\ code' \in CodeType
    BY <1>2, <1>5, <1>6
  <2>2. QED
    BY <1>2, <2>1 DEF ValidationInv, ValidationTypeOK, Positive, CodeType
<1>8. BytesTerm' = BytesTerm /\ FlopsTerm' = FlopsTerm
  BY <1>2 DEF BytesTerm, FlopsTerm, Unit
<1>9. BodyRatio'
  <2>1. BytesTerm \in Nat /\ FlopsTerm \in Nat
    BY TermFacts DEF ValidationInv, ValidationTypeOK, Positive
  <2>2. flop_ins * BytesTerm = mem_ins * FlopsTerm
    BY <1>2 DEF ValidationInv, BodyRatio
  <2>3. /\ m \in Nat /\ mem_ins = m * g
        /\ f \in Nat /\ flop_ins = f * g
    BY <1>1, <1>4, ExactQuotient DEF Positive
  <2> HIDE DEF m, f, g
  <2>4. (f * g) * BytesTerm = (m * g) * FlopsTerm
    BY <2>2, <2>3
  <2>5. g \in Positive /\ m \in Nat /\ f \in Nat
    BY <1>1, <2>3
  <2>6. f * BytesTerm = m * FlopsTerm
    BY ONLY <2>1, <2>4, <2>5, SimplifiedRatio
  <2>7. QED
    BY <1>2, <1>8, <2>6 DEF BodyRatio
<1>10. CodeRatio'
  <2>1. 0 * m = 0 * f
    BY <1>5 DEF Positive
  <2>2. NoCode.fuops = 0 /\ Muops(NoCode) = 0
    BY DEF NoCode, Muops
  <2>3. Muops(code)' = Muops(NoCode)
    BY <1>2 DEF Muops
  <2>4. QED
    BY <1>2, <2>1, <2>2, <2>3 DEF CodeRatio
<1>11. CodeCounts'
  <2>1. Muops(NoCode) = 0
    BY DEF NoCode, Muops
  <2>2. 0 * SimdBytes = 0
    BY SimdFacts DEF Positive
  <2>3. 0 * (SimdFlops * PerElement(Unit)') = 0
    BY SimdFacts DEF Positive, PerElement
  <2>4. QED
    BY <1>2, <2>1, <2>2, <2>3 DEF CodeCounts, NoCode, Muops
<1>12. Tried' /\ CommonDivisors' /\ ChunkOfCode'
  BY <1>2 DEF ValidationInv, Tried, CommonDivisors, ChunkOfCode
<1>13. QED
  BY <1>7, <1>9, <1>10, <1>11, <1>12 DEF ValidationInv

LEMMA WriteBodyStep ==
  ASSUME ValidationInv, WriteBody
  PROVE  ValidationInv'
<1> DEFINE p == PerElement(Unit)
           d == WithBody(code, request.op, Head(units), mem_ins, flop_ins)
<1>1. /\ mem_ins \in Positive /\ flop_ins \in Positive /\ code \in CodeType
      /\ p \in {1, 2}
  BY PgcdFacts DEF ValidationInv, ValidationTypeOK, CodeType, PerElement
<1>2. /\ phase = "write" /\ code' = d /\ phase' \in {"write", "load"}
      /\ phase' = "write" => oi_chunk_size' = oi_chunk_size
      /\ phase' = "load" => oi_chunk_size' = d.offset
      /\ UNCHANGED <<request, units, pgcd, mem_ins, flop_ins>>
  BY DEF WriteBody
<1>3. /\ d \in CodeType
      /\ Muops(d) = Muops(code) + mem_ins
      /\ d.fuops = code.fuops + flop_ins
      /\ d.offset = code.offset + mem_ins * SimdBytes
      /\ d.bytes = code.bytes + mem_ins * SimdBytes
      /\ d.flops = code.flops + flop_ins * SimdFlops * p
      /\ d.ins = code.ins + flop_ins + mem_ins
  BY <1>1, BodyFacts DEF Positive, Unit
<1>4. /\ Muops(code) \in Nat /\ code.fuops \in Nat
      /\ SimdBytes \in Positive /\ SimdFlops \in Positive
  BY <1>1, SimdFacts DEF CodeType, Muops
<1>5. /\ code.offset = Muops(code) * SimdBytes /\ code.bytes = code.offset
      /\ code.flops = code.fuops * (SimdFlops * p)
      /\ code.ins = code.fuops + Muops(code)
  BY <1>2 DEF ValidationInv, CodeCounts
<1>6. code.fuops * mem_ins = Muops(code) * flop_ins
  BY <1>2 DEF ValidationInv, CodeRatio
<1> HIDE DEF d, p
<1>7. d.offset = Muops(d) * SimdBytes
  BY <1>1, <1>3, <1>4, <1>5 DEF Positive
<1>8. d.flops = d.fuops * (SimdFlops * p)
  <2>1. flop_ins * SimdFlops * p = flop_ins * (SimdFlops * p)
    BY <1>1, <1>4 DEF Positive
  <2>2. SimdFlops * p \in Nat
    BY <1>1, <1>4 DEF Positive
  <2> DEFINE z == SimdFlops * p
  <2> HIDE DEF z
  <2>3. code.fuops * z + flop_ins * z = (code.fuops + flop_ins) * z
    BY <1>1, <1>4, <2>2 DEF Positive, z
  <2>4. QED
    BY <1>3, <1>5, <2>1, <2>3 DEF z
<1>9. d.fuops * mem_ins = Muops(d) * flop_ins
  BY <1>1, <1>3, <1>4, <1>6 DEF Positive
<1>10. d.offset > 0
  <2>1. Muops(d) \in Positive
    BY <1>1, <1>3, <1>4 DEF Positive
  <2>2. QED
    BY <1>4, <1>7, <2>1 DEF Positive
<1>11. Muops(code)' = Muops(d) /\ Unit' = Unit
  BY <1>2 DEF Muops, Unit
<1>12. ValidationTypeOK'
  <2> DEFINE z == d.offset
  <2>1. oi_chunk_size' = oi_chunk_size \/ oi_chunk_size' = z
    BY <1>2
  <2>2. oi_chunk_size \in Nat \ {0}
    BY DEF ValidationInv, ValidationTypeOK
  <2>3. z \in Nat /\ z > 0
    BY <1>3, <1>10 DEF CodeType
  <2> HIDE DEF z
  <2>4. oi_chunk_size' \in Nat \ {0}
    BY <2>1, <2>2, <2>3
  <2>5. code' \in CodeType
    BY <1>2, <1>3
  <2>6. QED
    BY <1>2, <2>4, <2>5 DEF ValidationInv, ValidationTypeOK, CodeType
<1>13. CodeCounts'
  <2>1. d.bytes = d.offset
    BY <1>3, <1>5
  <2>2. d.ins = d.fuops + Muops(d)
    BY <1>1, <1>3, <1>4, <1>5 DEF Positive
  <2>3. PerElement(Unit)' = p
    BY <1>11 DEF p
  <2>4. QED
    BY <1>2, <1>7, <1>8, <1>11, <2>1, <2>2, <2>3 DEF CodeCounts
<1>14. CodeRatio'
  BY <1>2, <1>9, <1>11 DEF CodeRatio
<1>15. ChunkOfCode'
  BY <1>2, <1>10 DEF ChunkOfCode
<1>16. Tried' /\ CommonDivisors' /\ BodyRatio'
  BY <1>2 DEF ValidationInv, Tried, CommonDivisors, BodyRatio, BytesTerm, FlopsTerm, Unit
<1>17. QED
  BY <1>12, <1>13, <1>14, <1>15, <1>16 DEF ValidationInv

\* The other steps only move from a phase to another.
LEMMA OtherStep ==
  ASSUME ValidationInv,
         GiveUp \/ Load \/ LoadFails \/ Release \/ UNCHANGED validationVars
  PROVE  ValidationInv'
<1>1. UNCHANGED <<request, pgcd, mem_ins, flop_ins, code, oi_chunk_size>>
  BY DEF GiveUp, Load, LoadFails, Release, validationVars
<1>2. CASE GiveUp \/ Release
  BY <1>1, <1>2 DEF GiveUp, Release, ValidationInv, ValidationTypeOK, Tried,
       CommonDivisors, BodyRatio, CodeRatio, CodeCounts, ChunkOfCode
<1>3. CASE LoadFails
  <2>1. units # <<>> /\ units \in Seq(Units)
    BY <1>3 DEF LoadFails, ValidationInv, ValidationTypeOK, Tried
  <2>2. units' \in Seq(Units) /\ phase' = "unit"
    BY <1>3, <2>1 DEF LoadFails
  <2>3. QED
    BY <1>1, <2>2 DEF ValidationInv, ValidationTypeOK, Tried, CommonDivisors, BodyRatio,
         CodeRatio, CodeCounts, ChunkOfCode
<1>4. CASE Load \/ UNCHANGED validationVars
  <2>1. /\ UNCHANGED units
        /\ phase' = phase \/ (phase = "load" /\ phase' = "ready")
    BY <1>4 DEF Load, validationVars
  <2>2. ValidationTypeOK'
    BY <1>1, <2>1 DEF ValidationInv, ValidationTypeOK
  <2>3. BytesTerm' = BytesTerm /\ FlopsTerm' = FlopsTerm /\ Muops(code)' = Muops(code)
        /\ PerElement(Unit)' = PerElement(Unit)
    BY <1>1, <2>1 DEF BytesTerm, FlopsTerm, Unit, Muops
  <2>4. Tried' /\ CommonDivisors' /\ BodyRatio' /\ CodeRatio'
    BY <1>1, <2>1, <2>3 DEF ValidationInv, Tried, CommonDivisors, BodyRatio, CodeRatio
  <2>5. CodeCounts' /\ ChunkOfCode'
    BY <1>1, <2>1, <2>3 DEF ValidationInv, CodeCounts, ChunkOfCode
  <2>6. QED
    BY <2>2, <2>4, <2>5 DEF ValidationInv
<1>5. QED
  BY <1>2, <1>3, <1>4

LEMMA StepInv ==
  ASSUME ValidationInv, [ValidationNext]_validationVars
  PROVE  ValidationInv'
<1>1. CASE \E r \in Requests : Ask(r)
  BY <1>1, AskStep
<1>2. CASE TryUnit
  BY <1>2, TryUnitStep
<1>3. CASE Divide
  BY <1>3, DivideStep
<1>4. CASE Simplify
  BY <1>4, SimplifyStep
<1>5. CASE WriteBody
  BY <1>5, WriteBodyStep
<1>6. CASE GiveUp \/ Load \/ LoadFails \/ Release \/ UNCHANGED validationVars
  BY <1>6, OtherStep
<1>7. QED
  BY <1>1, <1>2, <1>3, <1>4, <1>5, <1>6 DEF ValidationNext, Generate

LEMMA Invariant == ValidationSpec => []ValidationInv
<1>1. ValidationInv /\ [ValidationNext]_validationVars => ValidationInv'
  BY StepInv
<1>2. QED
  BY <1>1, InitInv, PTL DEF ValidationSpec

LEMMA InvIntensity == ValidationInv => IntensityReached
<1> SUFFICES ASSUME ValidationInv, Written
             PROVE  code.fuops * SimdFlops * PerElement(Head(units)) * request.bytes
                      = Muops(code) * SimdBytes * request.flops
  BY DEF IntensityReached
<1> DEFINE u == code.fuops
           v == Muops(code)
           p == PerElement(Unit)
           w == SimdBytes \div SimdFlops
           b == request.bytes
           q == request.flops
<1>1. code \in CodeType /\ mem_ins \in Positive /\ flop_ins \in Positive
  BY PgcdFacts DEF ValidationInv, ValidationTypeOK, CodeType
<1>2. u \in Nat /\ v \in Nat
  BY <1>1 DEF CodeType, Muops
<1>3. /\ p \in Nat /\ b \in Nat /\ q \in Nat
      /\ BytesTerm \in Nat /\ FlopsTerm \in Nat
  BY TermFacts, SMTT(20) DEF ValidationInv, ValidationTypeOK, Positive
<1>4. /\ w \in Nat /\ SimdFlops \in Nat /\ SimdBytes = w * SimdFlops
  BY SimdFacts DEF Positive
<1>5. u * mem_ins = v * flop_ins /\ flop_ins * BytesTerm = mem_ins * FlopsTerm
  BY DEF ValidationInv, CodeRatio, BodyRatio, Written
<1>6. u * BytesTerm = v * FlopsTerm
  BY <1>1, <1>2, <1>3, <1>5, WrittenRatio DEF Positive
<1>7. BytesTerm = b * p /\ FlopsTerm = q * w
  BY DEF BytesTerm, FlopsTerm
<1> HIDE DEF u, v, p, w, b, q
<1>8. u * SimdFlops * p * b = SimdFlops * (u * (b * p))
  BY <1>2, <1>3, <1>4
<1>9. v * (w * SimdFlops) * q = SimdFlops * (v * (q * w))
  BY <1>2, <1>3, <1>4
<1>10. u * SimdFlops * p * b = v * SimdBytes * q
  BY <1>4, <1>6, <1>7, <1>8, <1>9
<1>11. QED
  BY <1>10 DEF u, v, p, b, q, Unit

(***************************************************************************)
(* Theorems                                                                *)
(***************************************************************************)
\* Whatever the vector unit and the requests, the counters of
\* benchmark_validation() keep their types and no division is by 0.
THEOREM ValidationTypeCorrect == ValidationSpec => []ValidationTypeOK
<1>1. ValidationInv => ValidationTypeOK
  BY DEF ValidationInv
<1>2. QED
  BY <1>1, Invariant, PTL

\* Every kernel that benchmark_validation() writes has the intensity asked.
THEOREM IntensityCorrect == ValidationSpec => []IntensityReached
BY InvIntensity, Invariant, PTL

(***************************************************************************)
(* Two loads and a store                                                   *)
(***************************************************************************)
\* How many of the instructions before number n are stores, one out of three.
Thirds(n) == (n + 2) \div 3

LEMMA ThirdsFacts ==
  ASSUME NEW n \in Nat
  PROVE  Thirds(n) \in Nat /\ 3 * Thirds(n) <= n + 2 /\ n + 2 < 3 * Thirds(n) + 3
BY DEF Thirds

LEMMA ThirdsOfMultiple ==
  ASSUME NEW n \in Nat, n % 3 = 0
  PROVE  n = 3 * Thirds(n)
BY DEF Thirds

LEMMA StoresOfThree ==
  ASSUME NEW first \in Nat, NEW m \in Nat
  PROVE  StoresIn("2LD1ST", first, m) = Thirds(first + m) - Thirds(first)
<1> DEFINE g == Thirds(first)
           h == Thirds(first + m)
           S == g .. h - 1
           X == {n \in first .. first + m - 1 : n % 3 = 0}
           F == [j \in S |-> 3 * j]
<1>1. /\ g \in Nat /\ 3 * g <= first + 2 /\ first + 2 < 3 * g + 3
      /\ h \in Nat /\ 3 * h <= first + m + 2 /\ first + m + 2 < 3 * h + 3
  BY ThirdsFacts
<1> HIDE DEF g, h
<1>2. StoresIn("2LD1ST", first, m) = Cardinality(X)
  BY DEF StoresIn, Stores
<1>3. IsFiniteSet(S) /\ Cardinality(S) = h - g
  <2>1. IsFiniteSet(S) /\ Cardinality(S) = IF g > h - 1 THEN 0 ELSE h - 1 - g + 1
    BY <1>1, FS_Interval
  <2>2. g <= h
    BY <1>1
  <2>3. QED
    BY <1>1, <2>1, <2>2
<1>4. F \in [S -> X]
  <2>1. ASSUME NEW j \in S PROVE 3 * j \in X
    BY <1>1
  <2>2. QED
    BY <2>1
<1>5. \A a, b \in S : F[a] = F[b] => a = b
  BY <1>1
<1>6. \A t \in X : \E j \in S : F[j] = t
  <2>1. ASSUME NEW t \in X PROVE \E j \in S : F[j] = t
    <3> DEFINE q == t \div 3
    <3>1. t \in Nat /\ q \in Nat /\ t = 3 * q
      BY DivModFacts DEF Positive
    <3> HIDE DEF q
    <3>2. q \in S
      BY <1>1, <3>1
    <3>3. QED
      BY <3>1, <3>2
  <2>2. QED
    BY <2>1
<1> HIDE DEF S, X, F
<1>7. F \in Surjection(S, X) /\ F \in Injection(S, X)
  BY <1>4, <1>5, <1>6, Fun_IsSurj, Fun_IsInj
<1>8. Cardinality(X) = Cardinality(S)
  BY <1>3, <1>7, FS_Surjection
<1>9. QED
  BY <1>2, <1>3, <1>8 DEF g, h

StoresInv ==
  /\ phase \in {"write", "load", "ready"} /\ request.op = "2LD1ST" =>
       code.stores = Thirds(Muops(code))
  /\ Written => Whole(code, request.op)

LEMMA StoresStep ==
  ASSUME ValidationInv, StoresInv, [ValidationNext]_validationVars
  PROVE  StoresInv'
<1>1. CASE WriteBody
  <2> DEFINE d == WithBody(code, request.op, Head(units), mem_ins, flop_ins)
             b == Muops(code)
  <2>1. /\ phase = "write" /\ code' = d /\ request' = request
        /\ phase' \in {"write", "load"}
        /\ phase' = "load" => Finished(d, request.op)
    BY <1>1 DEF WriteBody
  <2>2. phase' = "load" => Whole(d, request.op)
    BY <2>1 DEF Finished, Enough
  <2>3. ASSUME request.op = "2LD1ST" PROVE d.stores = Thirds(Muops(d))
    <3>1. code \in CodeType /\ mem_ins \in Nat /\ flop_ins \in Nat
      BY DEF ValidationInv, ValidationTypeOK, CodeType
    <3>2. b \in Nat
      BY <3>1 DEF CodeType, Muops
    <3>3. Muops(d) = b + mem_ins
      BY <3>1, BodyFacts
    <3>4. d.stores = code.stores + StoresIn("2LD1ST", b, mem_ins)
      BY <2>3 DEF WithBody
    <3>5. code.stores = Thirds(b)
      BY <2>1, <2>3 DEF StoresInv
    <3> HIDE DEF d, b
    <3>6. StoresIn("2LD1ST", b, mem_ins) = Thirds(b + mem_ins) - Thirds(b)
      BY <3>1, <3>2, StoresOfThree
    <3>7. Thirds(b) \in Nat /\ Thirds(b + mem_ins) \in Nat
      BY <3>1, <3>2, ThirdsFacts
    <3>8. QED
      BY <3>3, <3>4, <3>5, <3>6, <3>7
  <2>4. Muops(code)' = Muops(d) /\ Whole(code, request.op)' = Whole(d, request.op)
    BY <2>1 DEF Muops, Whole
  <2> HIDE DEF d
  <2>5. QED
    BY <2>1, <2>2, <2>3, <2>4 DEF StoresInv, Written
<1>2. CASE Simplify
  <2>1. phase' = "write" /\ code' = NoCode
    BY <1>2 DEF Simplify
  <2>2. Muops(code)' = 0 /\ code'.stores = 0
    BY <2>1 DEF Muops, NoCode
  <2>3. Thirds(0) = 0
    BY DEF Thirds
  <2>4. Thirds(Muops(code))' = 0
    BY <2>2, <2>3 DEF Thirds
  <2>5. QED
    BY <2>1, <2>2, <2>4 DEF StoresInv, Written
<1>3. CASE (\E r \in Requests : Ask(r)) \/ TryUnit \/ GiveUp \/ Divide \/ LoadFails \/ Release
  <2>1. phase' \in {"unit", "pgcd", "idle"}
    BY <1>3 DEF Ask, TryUnit, GiveUp, Divide, LoadFails, Release
  <2>2. QED
    BY <2>1 DEF StoresInv, Written
<1>4. CASE Load \/ UNCHANGED validationVars
  <2>1. /\ UNCHANGED <<request, code>>
        /\ phase' = phase \/ (phase = "load" /\ phase' = "ready")
    BY <1>4 DEF Load, validationVars
  <2>2. QED
    BY <2>1 DEF StoresInv, Written, Muops, Whole, Thirds
<1>5. QED
  BY <1>1, <1>2, <1>3, <1>4 DEF ValidationNext, Generate

\* A kernel of two loads and a store has twice as many loads as stores, however
\* many instructions its bodies have.
THEOREM WholeGroups == ValidationSpec => []TwoLoadsAStore
<1>1. ValidationInit => StoresInv
  BY DEF ValidationInit, StoresInv, Written
<1>2. ASSUME ValidationInv, StoresInv PROVE TwoLoadsAStore
  <2>1. SUFFICES ASSUME Written, request.op = "2LD1ST"
                 PROVE  code.loads = 2 * code.stores
    BY DEF TwoLoadsAStore
  <2>2. code.loads \in Nat /\ code.stores \in Nat /\ Muops(code) = code.loads + code.stores
    BY <1>2 DEF ValidationInv, ValidationTypeOK, Muops
  <2>3. Muops(code) % 3 = 0 /\ code.stores = Thirds(Muops(code))
    BY <1>2, <2>1 DEF StoresInv, Whole, Written
  <2> DEFINE n == Muops(code)
  <2>4. n \in Nat /\ n % 3 = 0
    BY <2>2, <2>3
  <2> HIDE DEF n
  <2>5. n = 3 * Thirds(n)
    BY <2>4, ThirdsOfMultiple
  <2>6. QED
    BY <2>2, <2>3, <2>5 DEF n
<1>3. QED
  BY <1>1, <1>2, StoresStep, Invariant, PTL DEF ValidationSpec
=============================================================================
