------------------------------- MODULE SoftFp -------------------------------
(***************************************************************************)
(* The soft float of the interpreter: softfp_template.h, its integer       *)
(* conversions in softfp_template_icvt.h, and the instructions of          *)
(* riscv_cpu_fp_template.h that call them.  Everything is written in terms *)
(* of MANT_SIZE and EXP_SIZE as in the code, which instantiates it for 23  *)
(* and 8 and for 52 and 11; here the format is small enough for every      *)
(* operand to be tried.                                                    *)
(*                                                                         *)
(* A float is its bit pattern.  An operation returns [f, fl], the result   *)
(* and the flags it adds to fflags.  Half-word multiplication, bitwise     *)
(* division and Newton's square root are the code's variants without a     *)
(* double word type, the ones that serve double precision on this CPU.     *)
(*                                                                         *)
(* The reference is the exact rational value of the result in units of the *)
(* smallest subnormal, rounded by comparing it with its two neighbours.    *)
(***************************************************************************)
EXTENDS Integers, Sequences

CONSTANTS
    MANT_SIZE, EXP_SIZE,
    ICVT_SIZE,      \* width of the integers that are converted
    Operands,       \* second operands of the instructions that are executed
    Addends         \* third operands that are tried with fma

VARIABLES
    freg,           \* fp_reg[rs1] and fp_reg[rd]
    frm,            \* the rounding mode of fcsr
    fs              \* mstatus.FS is not Off

fpVars == <<freg, frm, fs>>

RNE == 0
RTZ == 1
RDN == 2
RUP == 3
RMM == 4
Modes == 0 .. 4

F_SIZE == 1 + EXP_SIZE + MANT_SIZE
RND_SIZE == F_SIZE - 2 - MANT_SIZE
Pow == [i \in 0 .. 30 |-> 2 ^ i]
EXP_MASK == Pow[EXP_SIZE] - 1
MANT_MASK == Pow[MANT_SIZE] - 1
Word == Pow[F_SIZE]
Floats == 0 .. Word - 1

\* The format has a quiet bit, room for the carry and the three extra bits of
\* add_sf(), and a half word.
ASSUME FormatAssumption ==
    /\ MANT_SIZE >= 2 /\ RND_SIZE >= 4 /\ F_SIZE % 2 = 0
    /\ Operands \cup Addends \subseteq Floats

-----------------------------------------------------------------------------
(* Fields and classes.                                                     *)

Sign(a) == a \div Pow[F_SIZE - 1]
Exp(a) == (a \div Pow[MANT_SIZE]) % Pow[EXP_SIZE]
Mant(a) == a % Pow[MANT_SIZE]
Abs(a) == a % Pow[F_SIZE - 1]
Neg(a) == (a + Pow[F_SIZE - 1]) % Word
pack_sf(sign, e, mant) == sign * Pow[F_SIZE - 1] + e * Pow[MANT_SIZE] + (mant % Pow[MANT_SIZE])

F_QNAN == pack_sf(0, EXP_MASK, Pow[MANT_SIZE - 1])
Inf(sign) == pack_sf(sign, EXP_MASK, 0)
Zero(sign) == pack_sf(sign, 0, 0)

IsInf(a) == Abs(a) = Inf(0)
IsZero(a) == Abs(a) = 0
isnan_sf(a) == Abs(a) > Inf(0)
issignan_sf(a) == isnan_sf(a) /\ Mant(a) < Pow[MANT_SIZE - 1]

Exact(f) == [f |-> f, fl |-> {}]
Invalid == [f |-> F_QNAN, fl |-> {"NV"}]
NanResult(signalling) == IF signalling THEN Invalid ELSE Exact(F_QNAN)

-----------------------------------------------------------------------------
(* Rounding.                                                               *)

\* Bits of n, from its highest one; F_SIZE - clz(n) for a word.
Bits(n) == CHOOSE i \in 0 .. 30 : Pow[i] > n /\ (i = 0 \/ Pow[i - 1] <= n)
Sticky(b) == IF b THEN 1 ELSE 0

\* The bits that are shifted out are lost.
MutRshiftRnd(a, d) == IF d >= F_SIZE THEN 0 ELSE a \div Pow[d]

\* A right shift that keeps a one in the lowest bit for what it shifts out.
rshift_rnd(a, d) ==
    IF d >= F_SIZE THEN Sticky(a # 0)
    ELSE LET q == a \div Pow[d]
         IN IF a % Pow[d] # 0 /\ q % 2 = 0 THEN q + 1 ELSE q

Addend(sign, rm) ==
    CASE rm \in {RNE, RMM} -> Pow[RND_SIZE - 1]
      [] rm = RTZ          -> 0
      [] OTHER             -> IF (sign = 1) # (rm = RUP) THEN Pow[RND_SIZE] - 1 ELSE 0

\* Rounds the low RND_SIZE bits away; half way goes to even only in RNE.
Rounded(m, sign, rm) ==
    LET r == (m + Addend(sign, rm)) \div Pow[RND_SIZE]
    IN IF rm = RNE /\ m % Pow[RND_SIZE] = Pow[RND_SIZE - 1] THEN r - (r % 2) ELSE r

\* mant has its highest bit at F_SIZE - 2, or is zero.
round_pack_sf(sign, e, mant, rm) ==
    LET low == e <= 0
        subnormal == low /\ (e < 0 \/ mant + Addend(sign, rm) < Pow[F_SIZE - 1])
        m == IF low THEN rshift_rnd(mant, 1 - e) ELSE mant
        inexact == m % Pow[RND_SIZE] # 0
        r == Rounded(m, sign, rm)
        e1 == (IF low THEN 1 ELSE e) + (r \div Pow[MANT_SIZE + 1])
        flags == (IF inexact THEN {"NX"} ELSE {})
                 \cup (IF subnormal /\ inexact THEN {"UF"} ELSE {})
    IN CASE r <= MANT_MASK -> [f |-> pack_sf(sign, 0, r), fl |-> flags]
         [] r > MANT_MASK /\ e1 >= EXP_MASK ->
                [f |-> IF Addend(sign, rm) = 0 THEN pack_sf(sign, EXP_MASK - 1, MANT_MASK)
                       ELSE Inf(sign),
                 fl |-> flags \cup {"OF", "NX"}]
         [] OTHER -> [f |-> pack_sf(sign, e1, r), fl |-> flags]

normalize_sf(sign, e, mant, rm) ==
    LET shift == (F_SIZE - 1) - Bits(mant)
    IN round_pack_sf(sign, e - shift, (mant * Pow[shift]) % Word, rm)

\* The same for a double word.
normalize2_sf(sign, e, mant1, mant0, rm) ==
    LET lead == IF mant1 = 0 THEN F_SIZE + (F_SIZE - Bits(mant0)) ELSE F_SIZE - Bits(mant1)
        shift == lead - 1
        m == CASE shift = 0 -> [hi |-> mant1, lo |-> mant0]
               [] shift > 0 /\ shift < F_SIZE ->
                    [hi |-> ((mant1 * Pow[shift]) % Word) + (mant0 \div Pow[F_SIZE - shift]),
                     lo |-> (mant0 * Pow[shift]) % Word]
               [] OTHER -> [hi |-> (mant0 * Pow[shift - F_SIZE]) % Word, lo |-> 0]
        rounded == IF m.lo # 0 /\ m.hi % 2 = 0 THEN m.hi + 1 ELSE m.hi
    IN round_pack_sf(sign, e - shift, rounded, rm)

\* The exponent and the significand with its leading one: normalize_subnormal_sf().
Norm(a) ==
    IF Exp(a) # 0 THEN [e |-> Exp(a), m |-> Mant(a) + Pow[MANT_SIZE]]
    ELSE LET shift == MANT_SIZE - (Bits(Mant(a)) - 1)
         IN [e |-> 1 - shift, m |-> Mant(a) * Pow[shift]]

-----------------------------------------------------------------------------
(* Arithmetic.                                                             *)

\* add_sf() of two finite numbers with Abs(a) >= Abs(b), three bits to spare.
AddFinite(a, b, rm) ==
    LET Wide(x) == (Mant(x) + (IF Exp(x) = 0 THEN 0 ELSE Pow[MANT_SIZE])) * 8
        E(x) == IF Exp(x) = 0 THEN 1 ELSE Exp(x)
        bm == rshift_rnd(Wide(b), E(a) - E(b))
        same == Sign(a) = Sign(b)
        m == IF same THEN Wide(a) + bm ELSE Wide(a) - bm
        sign == IF ~same /\ m = 0 THEN Sticky(rm = RDN) ELSE Sign(a)
    IN normalize_sf(sign, E(a) + (RND_SIZE - 3), m, rm)

AddOrdered(a, b, rm) ==
    CASE isnan_sf(a) -> NanResult(issignan_sf(a) \/ issignan_sf(b))
      [] IsInf(a)    -> IF IsInf(b) /\ Sign(a) # Sign(b) THEN Invalid ELSE Exact(a)
      [] OTHER       -> AddFinite(a, b, rm)

add_sf(a, b, rm) == IF Abs(a) < Abs(b) THEN AddOrdered(b, a, rm) ELSE AddOrdered(a, b, rm)
sub_sf(a, b, rm) == add_sf(a, Neg(b), rm)

\* The product of two words, from products of half words.
mul_u(a, b) ==
    LET H == Pow[F_SIZE \div 2]
        r00 == (a % H) * (b % H)
        r01 == (a % H) * (b \div H)
        r10 == (a \div H) * (b % H)
        r11 == (a \div H) * (b \div H)
        c1 == (r00 \div H) + (r01 % H) + (r10 % H)
        c2 == (c1 \div H) + (r01 \div H) + (r10 \div H) + (r11 % H)
    IN [hi |-> ((c2 \div H) + (r11 \div H)) * H + (c2 % H),
        lo |-> (c1 % H) * H + (r00 % H)]

BIAS1 == Pow[EXP_SIZE - 1]

mul_sf(a, b, rm) ==
    LET sign == Sticky(Sign(a) # Sign(b))
        na == Norm(a)
        nb == Norm(b)
        p == mul_u(na.m * Pow[RND_SIZE], nb.m * Pow[RND_SIZE + 1])
        m == IF p.lo # 0 /\ p.hi % 2 = 0 THEN p.hi + 1 ELSE p.hi
    IN CASE isnan_sf(a) \/ isnan_sf(b) -> NanResult(issignan_sf(a) \/ issignan_sf(b))
         [] ~(isnan_sf(a) \/ isnan_sf(b)) /\ (IsInf(a) \/ IsInf(b)) ->
                IF IsZero(a) \/ IsZero(b) THEN Invalid ELSE Exact(Inf(sign))
         [] Exp(a) # EXP_MASK /\ Exp(b) # EXP_MASK /\ (IsZero(a) \/ IsZero(b)) ->
                Exact(Zero(sign))
         [] OTHER -> normalize_sf(sign, na.e + nb.e - BIAS1 + 2, m, rm)

\* The two halves of a shift right by n of a double word, sticky.
ShiftDouble(m, n) ==
    CASE n = 0            -> m
      [] n >= 2 * F_SIZE  -> [hi |-> 0, lo |-> Sticky(m.hi # 0 \/ m.lo # 0)]
      [] n > F_SIZE /\ n < 2 * F_SIZE -> [hi |-> 0, lo |-> rshift_rnd(m.hi, n - F_SIZE)]
      [] n = F_SIZE       -> [hi |-> 0, lo |-> IF m.lo # 0 /\ m.hi % 2 = 0 THEN m.hi + 1 ELSE m.hi]
      [] OTHER            ->
            LET lo == ((m.hi * Pow[F_SIZE - n]) % Word) + (m.lo \div Pow[n])
            IN [hi |-> m.hi \div Pow[n],
                lo |-> IF m.lo % Pow[n] # 0 /\ lo % 2 = 0 THEN lo + 1 ELSE lo]

\* fma_sf() once the product p and the addend c are in double words with their
\* highest bits at F_SIZE - 3: the larger one first, then add or subtract.
FmaAdd(ps, pe, p, cs, ce, c, rm) ==
    LET keep == pe > ce \/ (pe = ce /\ p.hi >= c.hi)
        x == IF keep THEN [s |-> ps, e |-> pe, m |-> p] ELSE [s |-> cs, e |-> ce, m |-> c]
        y == IF keep THEN [s |-> cs, e |-> ce, m |-> c] ELSE [s |-> ps, e |-> pe, m |-> p]
        z == ShiftDouble(y.m, x.e - y.e)
        sum == IF x.s = y.s THEN x.m.hi * Word + x.m.lo + z.hi * Word + z.lo
               ELSE (x.m.hi * Word + x.m.lo - (z.hi * Word + z.lo)) % (Word * Word)
        sign == IF x.s # y.s /\ sum = 0 THEN Sticky(rm = RDN) ELSE x.s
    IN normalize2_sf(sign, x.e, (sum \div Word) % Word, sum % Word, rm)

\* Both operands of the product and the addend are finite, the product is not zero.
FmaFinite(sign, a, b, c, rm) ==
    LET na == Norm(a)
        nb == Norm(b)
        nc == Norm(c)
        e == na.e + nb.e - BIAS1 + 3
        p == mul_u(na.m * Pow[RND_SIZE], nb.m * Pow[RND_SIZE])
        small == p.hi < Pow[F_SIZE - 3]
        q == IF small THEN [hi |-> (p.hi * 2) + (p.lo \div Pow[F_SIZE - 1]), lo |-> (p.lo * 2) % Word]
             ELSE p
        qe == IF small THEN e - 1 ELSE e
    IN IF IsZero(c)
       THEN normalize_sf(sign, qe, IF q.lo # 0 /\ q.hi % 2 = 0 THEN q.hi + 1 ELSE q.hi, rm)
       ELSE FmaAdd(sign, qe, q, Sign(c), nc.e + 1, [hi |-> nc.m * Pow[RND_SIZE - 1], lo |-> 0], rm)

fma_sf(a, b, c, rm) ==
    LET sign == Sticky(Sign(a) # Sign(b))
        nan == isnan_sf(a) \/ isnan_sf(b) \/ isnan_sf(c)
        inf == IsInf(a) \/ IsInf(b) \/ IsInf(c)
        invalid == \/ (IsInf(a) /\ IsZero(b)) \/ (IsInf(b) /\ IsZero(a))
                   \/ ((IsInf(a) \/ IsInf(b)) /\ IsInf(c) /\ sign # Sign(c))
    IN CASE nan -> NanResult(issignan_sf(a) \/ issignan_sf(b) \/ issignan_sf(c))
         [] ~nan /\ inf -> IF invalid THEN Invalid
                           ELSE Exact(Inf(IF IsInf(c) THEN Sign(c) ELSE sign))
         [] ~nan /\ ~inf /\ (IsZero(a) \/ IsZero(b)) ->
                IF ~IsZero(c) THEN Exact(c)
                ELSE Exact(Zero(IF Sign(c) # sign THEN Sticky(rm = RDN) ELSE sign))
         [] OTHER -> FmaFinite(sign, a, b, c, rm)

\* divrem_u(): i steps of the division of the double word <<a1, a0>> by b, one
\* bit of the quotient at a time.
DivStep(d, b) ==
    LET top == d[1] \div Pow[F_SIZE - 1]
        a1 == ((d[1] * 2) % Word) + (d[2] \div Pow[F_SIZE - 1])
        fits == top = 1 \/ a1 >= b
    IN <<IF fits THEN (a1 - b) % Word ELSE a1, ((d[2] * 2) % Word) + Sticky(fits)>>
RECURSIVE DivSteps(_, _, _)
DivSteps(d, b, i) == IF i = 0 THEN d ELSE LET p == DivSteps(d, b, i - 1) IN DivStep(p, b)
divrem_u(a1, a0, b) == LET d == DivSteps(<<a1, a0>>, b, F_SIZE) IN [q |-> d[2], r |-> d[1]]

div_sf(a, b, rm) ==
    LET sign == Sticky(Sign(a) # Sign(b))
        nan == isnan_sf(a) \/ isnan_sf(b)
        na == Norm(a)
        nb == Norm(b)
        d == divrem_u(na.m, 0, nb.m * 4)
        m == IF d.r # 0 /\ d.q % 2 = 0 THEN d.q + 1 ELSE d.q
    IN CASE nan -> NanResult(issignan_sf(a) \/ issignan_sf(b))
         [] ~nan /\ IsInf(a) -> IF IsInf(b) THEN Invalid ELSE Exact(Inf(sign))
         [] ~nan /\ ~IsInf(a) /\ IsInf(b) -> Exact(Zero(sign))
         [] ~nan /\ ~IsInf(a) /\ IsZero(b) ->
                IF IsZero(a) THEN Invalid ELSE [f |-> Inf(sign), fl |-> {"DZ"}]
         [] ~nan /\ ~IsInf(b) /\ IsZero(a) /\ ~IsZero(b) -> Exact(Zero(sign))
         [] OTHER -> normalize_sf(sign, na.e - nb.e + BIAS1 - 1, m, rm)

\* sqrtrem_u(): Newton's iteration from above, of the double word <<a1, 0>>, a1 # 0.
RECURSIVE NewtonRoot(_, _)
NewtonRoot(a1, s) ==
    LET u == (divrem_u(a1, 0, s).q + s) \div 2
    IN IF u >= s THEN s ELSE NewtonRoot(a1, u)
sqrtrem_u(a1) ==
    LET l == F_SIZE + Bits(a1 - 1)
        s == NewtonRoot(a1, Pow[(l + 1) \div 2])
        square == mul_u(s, s)
    IN [s |-> s, inexact |-> square.lo # 0 \/ square.hi # a1]

sqrt_sf(a, rm) ==
    LET n == Norm(a)
        e == n.e - (EXP_MASK \div 2)
        odd == e % 2 = 1
        root == sqrtrem_u((IF odd THEN n.m * 2 ELSE n.m) * Pow[F_SIZE - 4 - MANT_SIZE])
        m == IF root.inexact /\ root.s % 2 = 0 THEN root.s + 1 ELSE root.s
    IN CASE isnan_sf(a) -> NanResult(issignan_sf(a))
         [] IsZero(a) -> Exact(a)
         [] ~isnan_sf(a) /\ ~IsZero(a) /\ Sign(a) = 1 -> Invalid
         [] IsInf(a) /\ Sign(a) = 0 -> Exact(a)
         [] OTHER -> normalize_sf(0, (e \div 2) + (EXP_MASK \div 2), m, rm)

-----------------------------------------------------------------------------
(* Minimum, maximum and comparisons.                                       *)

\* min_max_nan_sf() with FMINMAX_IEEE754_201X.
MinMaxNan(a, b) ==
    [f |-> IF ~isnan_sf(a) THEN a ELSE IF ~isnan_sf(b) THEN b ELSE F_QNAN,
     fl |-> IF issignan_sf(a) \/ issignan_sf(b) THEN {"NV"} ELSE {}]

\* a comes first in the order of the bit patterns with their signs.
First(a, b) == IF Sign(a) # Sign(b) THEN Sign(a) = 1 ELSE (a < b) # (Sign(a) = 1)

min_sf(a, b) ==
    IF isnan_sf(a) \/ isnan_sf(b) THEN MinMaxNan(a, b) ELSE Exact(IF First(a, b) THEN a ELSE b)
max_sf(a, b) ==
    IF isnan_sf(a) \/ isnan_sf(b) THEN MinMaxNan(a, b) ELSE Exact(IF First(a, b) THEN b ELSE a)

Ordered(holds, a, b, signalling) ==
    IF isnan_sf(a) \/ isnan_sf(b)
    THEN [f |-> FALSE, fl |-> IF signalling THEN {"NV"} ELSE {}]
    ELSE [f |-> holds, fl |-> {}]
eq_quiet_sf(a, b) ==
    Ordered((IsZero(a) /\ IsZero(b)) \/ a = b, a, b, issignan_sf(a) \/ issignan_sf(b))

le_sf(a, b) ==
    Ordered(IF Sign(a) # Sign(b) THEN Sign(a) = 1 \/ (IsZero(a) /\ IsZero(b))
            ELSE IF Sign(a) = 1 THEN a >= b ELSE a <= b, a, b, TRUE)
lt_sf(a, b) ==
    Ordered(IF Sign(a) # Sign(b) THEN Sign(a) = 1 /\ ~(IsZero(a) /\ IsZero(b))
            ELSE IF Sign(a) = 1 THEN a > b ELSE a < b, a, b, TRUE)

-----------------------------------------------------------------------------
(* Conversions from and to integers of ICVT_SIZE bits.                     *)

\* Rounded up to the next power of two is still in range.
MutIntMax(sign, unsigned) ==
    IF unsigned THEN (sign - 1) % Pow[ICVT_SIZE] ELSE Pow[ICVT_SIZE - 1]

\* r_max: the largest magnitude, by sign.
IntMax(sign, unsigned) ==
    IF unsigned THEN (sign - 1) % Pow[ICVT_SIZE] ELSE Pow[ICVT_SIZE - 1] - (1 - sign)

cvt_sf_i(a, rm, unsigned) ==
    LET sign == IF isnan_sf(a) THEN 0 ELSE Sign(a)
        sig == Mant(a) + (IF Exp(a) = 0 THEN 0 ELSE Pow[MANT_SIZE])
        e == (IF Exp(a) = 0 THEN 1 ELSE Exp(a)) - (EXP_MASK \div 2) - MANT_SIZE
        max == IntMax(sign, unsigned)
        m == rshift_rnd(sig * Pow[RND_SIZE], -e)
        tooBig == IF e >= 0 THEN e > ICVT_SIZE - 1 - MANT_SIZE \/ sig * Pow[e] > max
                  ELSE Rounded(m, sign, rm) > max
        r == IF e >= 0 THEN sig * Pow[e] ELSE Rounded(m, sign, rm)
    IN IF tooBig THEN [f |-> IF sign = 1 THEN -max ELSE max, fl |-> {"NV"}]
       ELSE [f |-> IF sign = 1 THEN -r ELSE r,
             fl |-> IF e < 0 /\ m % Pow[RND_SIZE] # 0 THEN {"NX"} ELSE {}]

cvt_i_sf(i, rm) ==
    LET sign == Sticky(i < 0)
        r == IF i < 0 THEN -i ELSE i
        l == Bits(r) - (F_SIZE - 1)
        m == IF l > 0
             THEN LET q == r \div Pow[l] IN IF r % Pow[l] # 0 /\ q % 2 = 0 THEN q + 1 ELSE q
             ELSE r
    IN normalize_sf(sign, (EXP_MASK \div 2) + F_SIZE - 2 + (IF l > 0 THEN l ELSE 0), m, rm)

-----------------------------------------------------------------------------
(* The instructions: a register, and the dynamic rounding mode.            *)

\* memset() in riscv_cpu_init(): everything zero, the unit off.
FpInit == freg = Zero(0) /\ frm = RNE /\ fs = FALSE

\* FS in a write of sstatus: the kernel lends the unit and takes it back.
SetFs(on) ==
    /\ fs' = on
    /\ UNCHANGED <<freg, frm>>

\* csr_write() of frm and fcsr: set_frm().
WriteFrm(val) ==
    /\ fs
    /\ frm' = IF val >= 5 THEN 0 ELSE val
    /\ UNCHANGED <<freg, fs>>

\* fmv.w.x and the loads.
Load(v) ==
    /\ fs
    /\ freg' = v
    /\ UNCHANGED <<frm, fs>>

\* get_insn_rm(): the mode of an instruction, -1 when there is none.
get_insn_rm(rm) == IF rm = 7 THEN frm ELSE IF rm >= 5 THEN -1 ELSE rm

\* fadd, fsub, fmul, fdiv and fsqrt.
Arithmetic(op, a, b, rm) ==
    CASE op = "add"  -> add_sf(a, b, rm)
      [] op = "sub"  -> sub_sf(a, b, rm)
      [] op = "mul"  -> mul_sf(a, b, rm)
      [] op = "div"  -> div_sf(a, b, rm)
      [] op = "sqrt" -> sqrt_sf(a, rm)

\* fmadd, fmsub, fnmsub and fnmadd: one operation, its operands' signs flipped.
Fused(op, a, b, c, rm) ==
    fma_sf(IF op \in {"nmsub", "nmadd"} THEN Neg(a) ELSE a, b,
           IF op \in {"msub", "nmadd"} THEN Neg(c) ELSE c, rm)

\* fsgnj, fsgnjn, fsgnjx, fmin and fmax: they round nothing.
Selected(op, a, b) ==
    CASE op = "sgnj"  -> Abs(a) + Sign(b) * Pow[F_SIZE - 1]
      [] op = "sgnjn" -> Abs(a) + (1 - Sign(b)) * Pow[F_SIZE - 1]
      [] op = "sgnjx" -> IF Sign(b) = 1 THEN Neg(a) ELSE a
      [] op = "min"   -> min_sf(a, b).f
      [] op = "max"   -> max_sf(a, b).f

\* An instruction with a rounding mode is illegal when there is none.
Execute(op, b, rm) ==
    /\ fs
    /\ get_insn_rm(rm) >= 0
    /\ freg' = Arithmetic(op, freg, b, get_insn_rm(rm)).f
    /\ UNCHANGED <<frm, fs>>

ExecuteFused(op, b, rm) ==
    /\ fs
    /\ get_insn_rm(rm) >= 0
    /\ freg' = Fused(op, freg, b, b, get_insn_rm(rm)).f
    /\ UNCHANGED <<frm, fs>>

Select(op, b) ==
    /\ fs
    /\ freg' = Selected(op, freg, b)
    /\ UNCHANGED <<frm, fs>>

\* fcvt from an integer register.
FromInteger(i, rm) ==
    /\ fs
    /\ get_insn_rm(rm) >= 0
    /\ freg' = cvt_i_sf(i, get_insn_rm(rm)).f
    /\ UNCHANGED <<frm, fs>>

FpNext ==
    \/ \E on \in BOOLEAN : SetFs(on)
    \/ \E val \in 0 .. 7 : WriteFrm(val)
    \/ \E v \in Floats : Load(v)
    \/ \E b \in Operands, rm \in {5, 7} :
         \/ \E op \in {"add", "sub", "mul", "div", "sqrt"} : Execute(op, b, rm)
         \/ \E op \in {"madd", "msub", "nmsub", "nmadd"} : ExecuteFused(op, b, rm)
         \/ FromInteger(b, rm)
    \/ \E op \in {"sgnj", "sgnjn", "sgnjx", "min", "max"}, b \in Operands : Select(op, b)

FpSpec == FpInit /\ [][FpNext]_fpVars

-----------------------------------------------------------------------------
(* The reference: exact values in units of the smallest subnormal.         *)

UnitExp == (EXP_MASK \div 2) - 1 + MANT_SIZE
Finite(a) == Exp(a) # EXP_MASK
Scale(a) == IF Exp(a) = 0 THEN 0 ELSE Exp(a) - 1
Significand(a) == Mant(a) + (IF Exp(a) = 0 THEN 0 ELSE Pow[MANT_SIZE])
Plus(n) == IF n > 0 THEN n ELSE 0
Compare(x, y) == IF x < y THEN -1 ELSE IF x = y THEN 0 ELSE 1

\* Away from zero in the directed modes.
Outward(sign, rm) == rm \in {RDN, RUP} /\ (sign = 1) = (rm = RDN)

\* The value between q and q + 1 units of 2^u; half compares it with the middle.
Nearest(sign, q, u, half, exact, tiny, rm) ==
    LET away == CASE rm = RNE -> half > 0 \/ (half = 0 /\ q % 2 = 1)
                  [] rm = RMM -> half >= 0
                  [] OTHER    -> Outward(sign, rm)
        k == IF ~exact /\ away THEN q + 1 ELSE q
        e == IF k < Pow[MANT_SIZE] THEN 0 ELSE IF k = Pow[MANT_SIZE + 1] THEN u + 2 ELSE u + 1
    IN IF e >= EXP_MASK
       THEN [f |-> IF rm \in {RNE, RMM} \/ Outward(sign, rm) THEN Inf(sign) ELSE Inf(sign) - 1,
             fl |-> {"OF", "NX"}]
       ELSE [f |-> pack_sf(sign, e, k),
             fl |-> IF exact THEN {} ELSE IF tiny THEN {"UF", "NX"} ELSE {"NX"}]

\* (n / d) * 2^e units, rounded.  It is tiny when, with the exponent unbounded, it
\* would still be below the smallest normal number after rounding.
Round(sign, n, d, e, rm) ==
    LET k == Bits(n) - Bits(d)
        log == IF n * Pow[Plus(-k)] >= d * Pow[Plus(k)] THEN k ELSE k - 1
        u == Plus(log + e - MANT_SIZE)
        num == n * Pow[Plus(e - u)]
        den == d * Pow[Plus(u - e)]
        q == num \div den
        least == Pow[MANT_SIZE]
        normal == IF rm \in {RNE, RMM} THEN 4 * num >= (4 * least - 1) * den
                  ELSE Outward(sign, rm) /\ 2 * num > (2 * least - 1) * den
    IN Nearest(sign, q, u, Compare(2 * num, (2 * q + 1) * den), num = q * den,
               u = 0 /\ num < least * den /\ ~normal, rm)

\* x * 2^i + y * 2^j for signed x and y; zero is the sign of a zero.  Exponents
\* further apart than Near would not fit TLC's integers.
Near == 20
RoundSum(x, i, y, j, zero, rm) ==
    LET least == IF i < j THEN i ELSE j
        v == x * Pow[i - least] + y * Pow[j - least]
    IN IF v = 0 THEN Exact(Zero(zero))
       ELSE Round(Sticky(v < 0), IF v < 0 THEN -v ELSE v, 1, least, rm)
Apart(i, j) == i > j + Near \/ j > i + Near

Signed(sign, n) == IF sign = 1 THEN -n ELSE n
ZeroSign(s, t, rm) == IF s = t THEN s ELSE Sticky(rm = RDN)
RefAdd(a, b, rm) ==
    RoundSum(Signed(Sign(a), Significand(a)), Scale(a), Signed(Sign(b), Significand(b)), Scale(b),
             ZeroSign(Sign(a), Sign(b), rm), rm)
RefFma(a, b, c, rm) ==
    LET sign == Sticky(Sign(a) # Sign(b))
    IN RoundSum(Signed(sign, Significand(a) * Significand(b)), Scale(a) + Scale(b) - UnitExp,
                Signed(Sign(c), Significand(c)), Scale(c), ZeroSign(sign, Sign(c), rm), rm)
RefMul(a, b, rm) ==
    LET sign == Sticky(Sign(a) # Sign(b))
    IN IF IsZero(a) \/ IsZero(b) THEN Exact(Zero(sign))
       ELSE Round(sign, Significand(a) * Significand(b), 1, Scale(a) + Scale(b) - UnitExp, rm)
RefDiv(a, b, rm) ==
    LET sign == Sticky(Sign(a) # Sign(b))
    IN CASE IsZero(a) /\ IsZero(b)  -> Invalid
         [] ~IsZero(a) /\ IsZero(b) -> [f |-> Inf(sign), fl |-> {"DZ"}]
         [] IsZero(a) /\ ~IsZero(b) -> Exact(Zero(sign))
         [] OTHER -> Round(sign, Significand(a), Significand(b), Scale(a) - Scale(b) + UnitExp, rm)

\* The root of x * 2^(2h) with enough digits: the largest r whose square is not above x.
RefSqrt(a, rm) ==
    LET t == Scale(a) + UnitExp
        p == 8 + (t % 2)
        x == Significand(a) * Pow[p]
        r == CHOOSE r \in 0 .. Word : r * r <= x /\ (r + 1) * (r + 1) > x
        u == Plus(Bits(r) - (MANT_SIZE + 1))
        q == r \div Pow[u]
        middle == (2 * q + 1) * Pow[u]
    IN IF IsZero(a) THEN Exact(a) ELSE IF Sign(a) = 1 THEN Invalid
       ELSE Nearest(0, q, u + ((t - p) \div 2), Compare(4 * x, middle * middle),
                    (q * Pow[u]) * (q * Pow[u]) = x, FALSE, rm)

-----------------------------------------------------------------------------
(* Properties.                                                             *)

FpTypeOK == freg \in Floats /\ frm \in Modes /\ fs \in BOOLEAN

\* Sums, products, quotients and square roots of finite numbers are the exact
\* value rounded once in the mode of frm, subnormal and overflowing results
\* included, with exactly the flags IEEE 754 asks for (underflow is detected after
\* rounding); a NaN operand gives the quiet NaN, invalid only when it signals.
ArithmeticExact ==
    /\ Finite(freg) => sqrt_sf(freg, frm) = RefSqrt(freg, frm)
    /\ \A b \in Floats :
         IF Finite(freg) /\ Finite(b)
         THEN /\ Apart(Scale(freg), Scale(b)) \/ add_sf(freg, b, frm) = RefAdd(freg, b, frm)
              /\ mul_sf(freg, b, frm) = RefMul(freg, b, frm)
              /\ div_sf(freg, b, frm) = RefDiv(freg, b, frm)
         ELSE isnan_sf(freg) \/ isnan_sf(b) =>
                \A r \in {add_sf(freg, b, frm), mul_sf(freg, b, frm), div_sf(freg, b, frm)} :
                    r = NanResult(issignan_sf(freg) \/ issignan_sf(b))

\* The fused operation rounds once: no intermediate result of the product is
\* rounded, whatever the distance of the exponents (fma_sf()).
FusedExact ==
    Finite(freg) =>
        \A b \in {x \in Floats : Finite(x) /\ Sign(x) = 0}, c \in Addends :
            \/ Apart(Scale(freg) + Scale(b) - UnitExp, Scale(c))
            \/ fma_sf(freg, b, c, frm) = RefFma(freg, b, c, frm)

\* Every result of the unit that is rounded is rounded once, from the exact value:
\* round_pack_sf() gets all it needs from each of its callers, whichever path they
\* take through cancellation, overflow, subnormals and double words.
RoundedOnce == fs => ArithmeticExact /\ FusedExact

\* Comparisons, minimum and maximum follow the order of the numbers, with the
\* zeros equal and -0 below +0 for min and max.
OrderExact ==
    \A b \in Floats : ~isnan_sf(freg) /\ ~isnan_sf(b) =>
        LET low == IF Scale(freg) < Scale(b) THEN Scale(freg) ELSE Scale(b)
            At(a) == LET s == Scale(a) - low
                     IN Signed(Sign(a), Significand(a) * Pow[IF s > Near THEN Near ELSE s])
            x == At(freg)
            y == At(b)
        IN /\ le_sf(freg, b) = Exact(x <= y) /\ lt_sf(freg, b) = Exact(x < y)
           /\ eq_quiet_sf(freg, b) = Exact(x = y)
           /\ {min_sf(freg, b), max_sf(freg, b)} = {Exact(freg), Exact(b)}
           /\ le_sf(min_sf(freg, b).f, max_sf(freg, b).f).f
           /\ (x = y /\ Sign(freg) # Sign(b)) => Sign(min_sf(freg, b).f) = 1

\* A conversion to an integer rounds once and saturates with invalid exactly
\* when the rounded number is out of range, and one from an integer rounds once.
InRange(i, unsigned) ==
    IF unsigned THEN i \in 0 .. Pow[ICVT_SIZE] - 1
    ELSE i \in -Pow[ICVT_SIZE - 1] .. Pow[ICVT_SIZE - 1] - 1
IntegersExact ==
    /\ Finite(freg) => \A unsigned \in BOOLEAN :
        LET num == Significand(freg) * Pow[Plus(Scale(freg) - UnitExp)]
            den == Pow[Plus(UnitExp - Scale(freg))]
            f == num \div den
            exact == num = f * den
            half == Compare(2 * num, (2 * f + 1) * den)
            away == CASE frm = RNE -> half > 0 \/ (half = 0 /\ f % 2 = 1)
                      [] frm = RMM -> half >= 0
                      [] OTHER     -> ~exact /\ Outward(Sign(freg), frm)
            k == Signed(Sign(freg), IF away THEN f + 1 ELSE f)
            r == cvt_sf_i(freg, frm, unsigned)
        IN IF InRange(k, unsigned) THEN r = [f |-> k, fl |-> IF exact THEN {} ELSE {"NX"}]
           ELSE /\ r.fl = {"NV"}
                /\ InRange(r.f, unsigned) /\ ~InRange(r.f + Signed(Sign(freg), 1), unsigned)
    /\ freg = Zero(0) => \A i \in -Pow[F_SIZE + 2] .. Pow[F_SIZE + 2] :
        cvt_i_sf(i, frm) = RoundSum(i, UnitExp, 0, UnitExp, 0, frm)

\* fle, flt, feq, fmin, fmax, fcvt.w, fcvt.wu and the conversions back (le_sf() to
\* cvt_i_sf()): the results a programmer reads out of the unit are the exact ones.
ReadOutExact == fs => OrderExact /\ IntegersExact
=============================================================================
