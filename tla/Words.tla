------------------------------- MODULE Words --------------------------------
(***************************************************************************)
(* Go's fixed-width integers over JavaScript numbers and bigints: the      *)
(* helpers of gs/builtin/builtin.ts that generated arithmetic goes through *)
(* and packages math/bits and sync/atomic.  The widths are parameters, so  *)
(* that a small instance keeps their proportions: a 64-bit word is twice   *)
(* the 32 bits JavaScript's own bit operators work on, and a number is     *)
(* exact up to a bound between the two.                                    *)
(***************************************************************************)
EXTENDS Integers, Sequences, FiniteSets, Bitwise

CONSTANTS W,        \* bits of uint64
          J,        \* bits of a JavaScript bit operation (32): W = 2 * J
          Safe      \* the largest exact number, Number.MAX_SAFE_INTEGER

AsUintN(n, v) == v % 2^n
AsIntN(n, v)  == LET u == v % 2^n IN IF u >= 2^(n - 1) THEN u - 2^n ELSE u
UintRange(n) == 0..(2^n - 1)
IntRange(n)  == (-(2^(n - 1)))..(2^(n - 1) - 1)
Abs(v) == IF v < 0 THEN -v ELSE v
\* Division of bigints truncates.
Quot(a, b) == LET q == Abs(a) \div Abs(b) IN IF (a < 0) = (b < 0) THEN q ELSE -q
Rem(a, b)  == a - b * Quot(a, b)
\* Bit operations on two's complement values of W bits.
AndW(a, b) == AsUintN(W, a) & AsUintN(W, b)
OrW(a, b)  == AsUintN(W, a) | AsUintN(W, b)
XorW(a, b) == AsUintN(W, a) ^^ AsUintN(W, b)
NotW(a)    == 2^W - 1 - AsUintN(W, a)

-----------------------------------------------------------------------------
\* builtin.ts: a JavaScript value is [big, v].
Num(v) == [big |-> FALSE, v |-> v]
Big(v) == [big |-> TRUE, v |-> v]

\* int(value, bits): a number wraps below W bits; without a width it is kept.
IntOf(x, bits) ==
    IF x.big THEN Num(IF bits \in 1..W THEN AsIntN(bits, x.v) ELSE x.v)
    ELSE IF bits \in 1..(W - 1) THEN Num(AsIntN(bits, x.v)) ELSE x
UintOfTruncated(x, bits) ==
    IF ~x.big /\ bits <= J THEN Num(AsUintN(bits, x.v)) ELSE Num(AsUintN(J, x.v))
\* uint(value, bits): a full-width result stays a bigint once it is too large
\* for a number.
UintOf(x, bits) ==
    LET n == AsUintN(IF bits < W THEN bits ELSE W, x.v)
    IN IF bits >= W /\ n > Safe THEN Big(n) ELSE Num(n)

Int64Value(x)  == AsIntN(W, x.v)
Uint64Value(x) == AsUintN(W, x.v)
Int64ResultUnwrapped(v) == v
Int64Result(v)  == IF v \in IntRange(W) THEN v ELSE AsIntN(W, v)
Uint64Result(v) == IF v \in UintRange(W) THEN v ELSE AsUintN(W, v)

\* The exact result before it is narrowed to the word.
Exact(op, a, b) ==
    CASE op = "add" -> a + b
      [] op = "sub" -> a - b
      [] op = "mul" -> a * b
      [] op = "div" -> Quot(a, b)
      [] op = "mod" -> Rem(a, b)
      [] op = "and" -> AndW(a, b)
      [] op = "or"  -> OrW(a, b)
      [] op = "xor" -> XorW(a, b)
      [] op = "andnot" -> AndW(a, NotW(b))
Int64Op(op, x, y)  == Int64Result(Exact(op, Int64Value(x), Int64Value(y)))
Uint64Op(op, x, y) == Uint64Result(Exact(op, Uint64Value(x), Uint64Value(y)))
Uint64Shl(x, k) == Uint64Result(Uint64Value(x) * 2^k)
Uint64Shr(x, k) == Uint64Result(Uint64Value(x) \div 2^k)
Int64Shl(x, k)  == Int64Result(Int64Value(x) * 2^k)
Int64Shr(x, k)  == Int64Result(Int64Value(x) \div 2^k)
UintShr(x, k, bits) ==
    LET width == IF bits < J THEN bits ELSE J
    IN IF k >= width THEN 0 ELSE UintOf(x, width).v \div 2^k

-----------------------------------------------------------------------------
\* math/bits over words of n bits.
RECURSIVE LeadingFrom(_, _, _)
LeadingFrom(x, mask, count) ==
    IF mask = 0 \/ x & mask # 0 THEN count ELSE LeadingFrom(x, mask \div 2, count + 1)
LeadingZeros(n, x) == IF x = 0 THEN n ELSE LeadingFrom(x, 2^(n - 1), 0)
RECURSIVE TrailingFrom(_, _)
TrailingFrom(x, count) == IF x % 2 # 0 THEN count ELSE TrailingFrom(x \div 2, count + 1)
TrailingZeros(n, x) == IF x = 0 THEN n ELSE TrailingFrom(x, 0)
\* Kernighan: x & (x - 1) clears the lowest set bit.
RECURSIVE OnesFrom(_, _)
OnesFrom(x, count) == IF x = 0 THEN count ELSE OnesFrom(x & (x - 1), count + 1)
OnesCount(n, x) == OnesFrom(AsUintN(n, x), 0)
RECURSIVE LenFrom(_, _)
LenFrom(x, n) == IF x = 0 THEN n ELSE LenFrom(x \div 2, n + 1)
BitLen(n, x) == LenFrom(AsUintN(n, x), 0)

RotateCount(k, n) == ((k % n) + n) % n
RotateLeftUncounted(n, x, k) == (x * 2^Abs(k) + x \div 2^(IF Abs(k) > n THEN 0 ELSE n - Abs(k))) % 2^n
RotateLeft(n, x, k) ==
    LET c == RotateCount(k, n)
    IN ((AsUintN(n, x) * 2^c) % 2^n) | (AsUintN(n, x) \div 2^(n - c))

\* Swap the halves of every group of 2 * step bits.
Odd(n, step) == {i \in 0..(n - 1) : (i \div step) % 2 = 1}
Mask(S) == LET RECURSIVE sum(_)
               sum(T) == IF T = {} THEN 0 ELSE LET i == CHOOSE i \in T : TRUE IN 2^i + sum(T \ {i})
           IN sum(S)
SwapStep(n, x, step) ==
    LET high == Mask(Odd(n, step))
    IN ((x & high) \div 2^step) | ((x & (2^n - 1 - high)) * 2^step)
RECURSIVE ReverseFrom(_, _, _)
ReverseFrom(n, x, step) == IF step = 0 THEN x ELSE ReverseFrom(n, SwapStep(n, x, step), step \div 2)
Reverse(n, x) == ReverseFrom(n, AsUintN(n, x), n \div 2)

Mul(n, x, y) == <<(x * y) \div 2^n, (x * y) % 2^n>>
Div(n, hi, lo, y) == LET d == hi * 2^n + lo IN <<d \div y, d % y>>
AddForgetsCarry(n, x, y, carry) == <<(x + y + carry) % 2^n, IF x + y > 2^n - 1 THEN 1 ELSE 0>>
Add(n, x, y, carry) ==
    LET sum == x + y + carry IN <<sum % 2^n, IF sum > 2^n - 1 THEN 1 ELSE 0>>
Sub(n, x, y, borrow) ==
    LET diff == x - y - borrow IN <<diff % 2^n, IF diff < 0 THEN 1 ELSE 0>>

-----------------------------------------------------------------------------
Ops == {"add", "sub", "mul", "div", "mod", "and", "or", "xor", "andnot"}
Ring == Ops \ {"div", "mod"}

\* The 64-bit helpers compute in Go's word: in range, signed and unsigned
\* results congruent, quotient and remainder making up the dividend with the
\* remainder on the dividend's side, shifts equal to repeated doubling or
\* halving (int64Result and uint64Result narrow only when they must).
WordPromise(x, y) ==
    LET s(op) == Int64Op(op, x, y)
        u(op) == Uint64Op(op, x, y)
        a == Int64Value(x)
        b == Int64Value(y)
    IN /\ \A op \in Ring : /\ s(op) \in IntRange(W) /\ u(op) \in UintRange(W)
                           /\ AsUintN(W, s(op)) = u(op)
       /\ u("add") = (x.v + y.v) % 2^W /\ u("sub") = (x.v - y.v) % 2^W /\ u("mul") = (x.v * y.v) % 2^W
       /\ b # 0 =>
            /\ (s("div") * b + s("mod") - a) % 2^W = 0 /\ s("div") \in IntRange(W)
            /\ Abs(s("mod")) < Abs(b) /\ s("mod") * a >= 0
       /\ Uint64Value(y) # 0 =>
            u("div") * Uint64Value(y) + u("mod") = Uint64Value(x) /\ u("mod") < Uint64Value(y)
       /\ u("xor") = u("or") - u("and") /\ u("andnot") = u("xor") & Uint64Value(x)
       /\ \A k \in 0..(W + 1) :
            /\ AsUintN(W, Int64Shl(x, k)) = Uint64Shl(x, k)
            /\ k > 0 => /\ Uint64Shl(x, k) = Uint64Op("add", Num(Uint64Shl(x, k - 1)), Num(Uint64Shl(x, k - 1)))
                        /\ 2 * Int64Shr(x, k) \in {Int64Shr(x, k - 1), Int64Shr(x, k - 1) - 1}
                        /\ 2 * Uint64Shr(x, k) \in {Uint64Shr(x, k - 1), Uint64Shr(x, k - 1) - 1}

\* Conversions to a width keep the value modulo that width, and a full-width
\* unsigned value is a number exactly when a number holds it (int and uint).
ConversionPromise(x, bits) ==
    /\ (UintOf(x, bits).v - x.v) % 2^bits = 0 /\ UintOf(x, bits).v \in UintRange(bits)
    /\ UintOf(x, bits).big <=> UintOf(x, bits).v > Safe /\ bits >= W
    /\ bits <= J => \A k \in 0..W : UintShr(x, k, bits) = UintOf(x, bits).v \div 2^k
    /\ bits < W => (IntOf(x, bits).v - x.v) % 2^bits = 0 /\ IntOf(x, bits).v \in IntRange(bits)

\* math/bits: counts agree with one another, rotation and reversal are
\* permutations of the bits, and the carry chains compute two-word results.
BitsPromise(x, y) ==
    LET bit(v, i) == (v \div 2^i) % 2
    IN /\ \A n \in {J, W} : LET v == AsUintN(n, x) IN
            /\ BitLen(n, v) + LeadingZeros(n, v) = n
            /\ OnesCount(n, v) = Cardinality({i \in 0..(n - 1) : bit(v, i) = 1})
            /\ v # 0 => bit(v, TrailingZeros(n, v)) = 1 /\ v % 2^TrailingZeros(n, v) = 0
            /\ \A i \in 0..(n - 1) : bit(Reverse(n, v), i) = bit(v, n - 1 - i)
            /\ \A k \in {-n - 1, -1, 0, 1, n, n + 3} : \A i \in 0..(n - 1) :
                  bit(RotateLeft(n, v, k), (i + k) % n) = bit(v, i)
       /\ Mul(W, x, y)[1] * 2^W + Mul(W, x, y)[2] = x * y
       /\ \A hi \in {0, 1, y - 1} : 0 <= hi /\ hi < y =>
            LET d == Div(W, hi, x, y) IN d[1] * y + d[2] = hi * 2^W + x /\ d[2] < y /\ d[1] < 2^W
       /\ \A c \in {0, 1}, h \in {0, 2^W - 1} :
            LET lo == Add(W, x, y, c)
                hi == Add(W, h, h, lo[2])
                dl == Sub(W, x, y, c)
                dh == Sub(W, h, 0, dl[2])
            IN /\ hi[2] * 2^(2 * W) + hi[1] * 2^W + lo[1] = (h * 2^W + x) + (h * 2^W + y) + c
               /\ dh[1] * 2^W + dl[1] - dh[2] * 2^(2 * W) = (h * 2^W + x) - y - c

-----------------------------------------------------------------------------
(* Package sync/atomic: the functions over a VarRef (doc.gs.ts,            *)
(* doc_64.gs.ts), the classes built on them (type.gs.ts) and Value         *)
(* (value.gs.ts).  JavaScript runs each without interruption, so what can  *)
(* go wrong is the arithmetic: which result is cut to the width of the     *)
(* type and with which sign.  A cell is the content of the VarRef; an      *)
(* operation answers the new cell and what the call returns.               *)

Answer(cell, ret) == [cell |-> cell, ret |-> ret]
Nothing == "nothing"

\* The classes.  uintptr is cut to the bits of a JavaScript bit operation.
Int32   == [bits |-> J, signed |-> TRUE]
Uint32  == [bits |-> J, signed |-> FALSE]
Uintptr == [bits |-> J, signed |-> FALSE]
Int64   == [bits |-> W, signed |-> TRUE]
Uint64  == [bits |-> W, signed |-> FALSE]

\* value | 0 and value >>> 0.
Cut(class, v) == IF class.signed THEN AsIntN(J, v) ELSE AsUintN(J, v)

-----------------------------------------------------------------------------
(* doc.gs.ts: the 32-bit functions and those of uintptr and pointers. *)

Load(cell) == Answer(cell, cell)
Swap(cell, new) == Answer(new, cell)
CompareAndSwap(cell, old, new) ==
  IF cell = old THEN Answer(new, TRUE) ELSE Answer(cell, FALSE)
Store32(class, cell, val) == Answer(Cut(class, val), Nothing)
Add32Unsigned(class, cell, delta) ==
  LET v == AsUintN(J, cell + delta) IN Answer(v, v)
Add32(class, cell, delta) == LET v == Cut(class, cell + delta) IN Answer(v, v)
\* & and | of JavaScript answer a signed number.
And32(class, cell, mask) ==
  Answer(Cut(class, AsIntN(J, AsUintN(J, cell) & AsUintN(J, mask))), cell)
Or32Signed(class, cell, mask) ==
  Answer(AsIntN(J, AsUintN(J, cell) | AsUintN(J, mask)), cell)
Or32(class, cell, mask) ==
  Answer(Cut(class, AsIntN(J, AsUintN(J, cell) | AsUintN(J, mask))), cell)

(* doc_64.gs.ts: bigints, through int64Add, uint64And and their like. *)
Result64(class, v) == IF class.signed THEN Int64Result(v) ELSE Uint64Result(v)
Op64(class, op, cell, arg) ==
  CASE op = "Store" -> Answer(arg, Nothing)
    [] op = "Add"   -> LET v == Result64(class, cell + arg) IN Answer(v, v)
    [] op = "And"   -> Answer(Result64(class, AsIntN(W, AndW(cell, arg))), cell)
    [] op = "Or"    -> Answer(Result64(class, AsIntN(W, OrW(cell, arg))), cell)

\* A method of the class: op, with the operands arg (and old for the swap).
Method(class, op, cell, arg, old) ==
  CASE op = "Load" -> Load(cell)
    [] op = "Swap" -> Swap(cell, arg)
    [] op = "CompareAndSwap" -> CompareAndSwap(cell, old, arg)
    [] op \in {"Store", "Add", "And", "Or"} ->
         IF class.bits = W THEN Op64(class, op, cell, arg)
         ELSE CASE op = "Store" -> Store32(class, cell, arg)
                [] op = "Add"   -> Add32(class, cell, arg)
                [] op = "And"   -> And32(class, cell, arg)
                [] op = "Or"    -> Or32(class, cell, arg)

\* Bool keeps 0 or 1 in a uint32.
B32(b) == IF b THEN 1 ELSE 0
BoolMethod(op, cell, arg, old) ==
  LET a == Method(Uint32, op, cell, B32(arg), B32(old))
  IN  IF op \in {"Load", "Swap"} THEN Answer(a.cell, a.ret # 0) ELSE a

\* Pointer and Value keep what they are given: Nil or a value of some type.
\* A Value refuses nil; the old value is compared with ===.
Nil == [type |-> "nil", v |-> 0]
Panics == [type |-> "panic", v |-> 0]
PointerMethod(op, cell, arg, old) ==
  CASE op = "Load" -> Load(cell)
    [] op = "Store" -> Answer(arg, Nothing)
    [] op = "Swap" -> Swap(cell, arg)
    [] op = "CompareAndSwap" -> CompareAndSwap(cell, old, arg)
ValueMethod(op, cell, arg, old) ==
  IF op # "Load" /\ arg = Nil THEN Answer(cell, Panics)
  ELSE PointerMethod(op, cell, arg, old)

-----------------------------------------------------------------------------
(* What Go says: arithmetic modulo 2^bits, on the values of the type. *)

Values(class) == IF class.signed THEN IntRange(class.bits) ELSE UintRange(class.bits)
OfType(class, v) ==
  CHOOSE x \in Values(class) : (x - v) % 2^class.bits = 0

GoMethod(class, op, cell, arg, old) ==
  LET bit(x) == x % 2^class.bits IN
  CASE op = "Load"  -> Answer(cell, cell)
    [] op = "Swap"  -> Answer(arg, cell)
    [] op = "Store" -> Answer(arg, Nothing)
    [] op = "CompareAndSwap" ->
         Answer(IF cell = old THEN arg ELSE cell, cell = old)
    [] op = "Add"   -> LET v == OfType(class, cell + arg) IN Answer(v, v)
    [] op = "And"   -> Answer(OfType(class, bit(cell) & bit(arg)), cell)
    [] op = "Or"    -> Answer(OfType(class, bit(cell) | bit(arg)), cell)

\* Every method leaves a value of the type in the cell and returns what Go
\* returns; a Bool, a Pointer and a Value (of values of one type) are swapped
\* and compared alike, and a Value never holds nil.
AtomicPromise(class, op, cell, arg, old) ==
  LET js == Method(class, op, cell, arg, old)
      T(v) == [type |-> "t", v |-> v]
      go == GoMethod(class, op, cell, arg, old)
      box == Answer(T(go.cell), IF op \in {"Load", "Swap"} THEN T(go.ret) ELSE go.ret)
  IN
  /\ js = go
  /\ op \notin {"Add", "And", "Or"} =>
       /\ ValueMethod(op, T(cell), T(arg), T(old)) = box
       /\ PointerMethod(op, T(cell), T(arg), T(old)) = box
       /\ ValueMethod(op, T(cell), Nil, T(old)).cell # Nil
       /\ \A c \in {0, 1} :
            LET b == BoolMethod(op, c, arg # 0, old # 0)
                g == GoMethod(Uint32, op, c, B32(arg # 0), B32(old # 0))
            IN  /\ b.cell = g.cell
                /\ b.ret = (IF op \in {"Load", "Swap"} THEN g.ret # 0 ELSE g.ret)

\* "All calls to Store for a given Value must use values of the same concrete
\* type.  Store of an inconsistent type panics, as does Store(nil)."
ValueTyped(op, cell, arg, old) ==
  (op # "Load" /\ (arg = Nil \/ (cell # Nil /\ arg.type # cell.type)))
    => ValueMethod(op, cell, arg, old).ret = Panics
=============================================================================
