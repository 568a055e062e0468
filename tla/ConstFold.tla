------------------------------ MODULE ConstFold -----------------------------
(***************************************************************************)
(* Constant arithmetic of the optimizer (const_fold.c, common.c) on words  *)
(* of Word bits, the int64_t of the code.  A fold returns <<result>>, or   *)
(* <<>> where the code returns false.                                      *)
(***************************************************************************)
EXTENDS Integers, Sequences, Bitwise

Word == 8

(* ny_opt_get_type_bit_width: i8, the 32 bits of i32 and of every type the  *)
(* function does not know, and i64.                                         *)
Width(type) == CASE type = "narrow" -> 2 [] type = "wide" -> Word [] OTHER -> 4

Unsigned(x, w) == x % 2^w

(* ny_opt_sign_extend_width                                                 *)
Signed(x, w) == LET u == Unsigned(x, w) IN IF u >= 2^(w-1) THEN u - 2^w ELSE u

(* ny_opt_mask_to_width: a full word keeps its sign.                        *)
Masked(x, w) == IF w = Word THEN x ELSE Unsigned(x, w)

(* Division of C: towards zero.                                             *)
Quotient(a, b) ==
    LET abs(x) == IF x < 0 THEN -x ELSE x
        q == abs(a) \div abs(b)
    IN  IF (a < 0) = (b < 0) THEN q ELSE -q
Remainder(a, b) == a - b * Quotient(a, b)

Bits(op, a, b) ==
    LET x == Unsigned(a, Word)
        y == Unsigned(b, Word)
    IN  Signed(CASE op = "and" -> x & y [] op = "or" -> x | y [] OTHER -> x ^^ y, Word)

ny_fold_int_unary(op, a, w) ==
    CASE op = "neg" -> <<Signed(-a, w)>>
      [] op = "not" -> <<Signed(-a - 1, w)>>
      [] OTHER -> <<>>

(* Shifts and rotations take the count modulo the width.                    *)
Shift(op, a, sh, w) ==
    LET u == Unsigned(a, w)
    IN  CASE op = "shl"  -> Signed(a * 2^sh, w)
          [] op = "shr"  -> Signed(u \div 2^sh, w)
          [] op = "sar"  -> Signed(Signed(a, w) \div 2^sh, w)
          [] op = "rotl" -> Signed(u * 2^sh + u \div 2^(w - sh), w)
          [] OTHER       -> Signed(u \div 2^sh + u * 2^(w - sh), w)

Divide(op, a, b, w) ==
    LET ua == Unsigned(a, w)
        ub == Unsigned(b, w)
        least == -(2^(Word-1))
    IN  CASE op = "div_s" -> IF b = 0 \/ (w = Word /\ a = least /\ b = -1) THEN <<>>
                             ELSE <<Signed(Quotient(a, b), w)>>
          [] op = "rem_s" -> IF b = 0 THEN <<>> ELSE <<Signed(Remainder(a, b), w)>>
          [] op = "div_u" -> IF ub = 0 THEN <<>> ELSE <<Signed(ua \div ub, w)>>
          [] OTHER        -> IF ub = 0 THEN <<>> ELSE <<Signed(ua % ub, w)>>

ny_fold_int_binary(op, a, b, w) ==
    CASE op = "add" -> <<Signed(a + b, w)>>
      [] op = "sub" -> <<Signed(a - b, w)>>
      [] op = "mul" -> <<Signed(a * b, w)>>
      [] op \in {"div_s", "rem_s", "div_u", "rem_u"} -> Divide(op, a, b, w)
      [] op \in {"and", "or", "xor"} -> <<Bits(op, a, b)>>
      [] op \in {"shl", "shr", "sar", "rotl", "rotr"} -> <<Shift(op, a, Unsigned(b, Word) % w, w)>>
      [] OTHER -> <<>>

(* Mutant: unsigned comparisons of the sign-extended words.                 *)
FoldCmpSigned(op, a, b, w) ==
    LET sa == Signed(a, w)
        sb == Signed(b, w)
        bit(p) == <<IF p THEN 1 ELSE 0>>
    IN  CASE op = "cmp_eq" -> bit(sa = sb) [] op = "cmp_ne" -> bit(sa # sb)
          [] op \in {"cmp_lt_s", "cmp_lt_u"} -> bit(sa < sb)
          [] op \in {"cmp_le_s", "cmp_le_u"} -> bit(sa <= sb)
          [] op \in {"cmp_gt_s", "cmp_gt_u"} -> bit(sa > sb)
          [] op \in {"cmp_ge_s", "cmp_ge_u"} -> bit(sa >= sb)
          [] OTHER -> <<>>

ny_fold_int_cmp(op, a, b, w) ==
    LET sa == Signed(a, w)
        sb == Signed(b, w)
        ua == Unsigned(a, w)
        ub == Unsigned(b, w)
        bit(p) == <<IF p THEN 1 ELSE 0>>
    IN  CASE op = "cmp_eq"   -> bit(sa = sb)  [] op = "cmp_ne"   -> bit(sa # sb)
          [] op = "cmp_lt_s" -> bit(sa < sb)  [] op = "cmp_lt_u" -> bit(ua < ub)
          [] op = "cmp_le_s" -> bit(sa <= sb) [] op = "cmp_le_u" -> bit(ua <= ub)
          [] op = "cmp_gt_s" -> bit(sa > sb)  [] op = "cmp_gt_u" -> bit(ua > ub)
          [] op = "cmp_ge_s" -> bit(sa >= sb) [] op = "cmp_ge_u" -> bit(ua >= ub)
          [] OTHER -> <<>>

(* The casts that the constant folding pass folds.                          *)
FoldCast(op, a, from, w) ==
    CASE op = "truncate" -> <<Signed(a, w)>>
      [] op = "sext"     -> <<Signed(a, from)>>
      [] op = "zext"     -> <<Masked(a, from)>>
      [] OTHER -> <<>>

=============================================================================
