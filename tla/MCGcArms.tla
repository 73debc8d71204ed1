------------------------------ MODULE MCGcArms ------------------------------
(***************************************************************************)
(* Instance of GcArms: a column of four cells.  Each row has texts of its  *)
(* own, so that ranges, cycles, errors, diamonds and chains all occur.     *)
(***************************************************************************)
EXTENDS GcArms

Column == {1} \X (1 .. 4)

Lit(n) == <<"int", n>>
Str(t) == <<"str", t>>
Ref(r) == <<"ref", << 1, r >> >>
Bin(op, l, r) == <<"bin", op, l, r>>
Agg(f, a, b) == <<"agg", f, << 1, a >>, << 1, b >> >>
F(node) == <<"=", node>>

MCTexts(a) ==
    CASE a[2] = 1 -> {F(Agg("SUM", 2, 4)), F(Bin("+", Ref(2), Ref(2)))}
      [] a[2] = 2 -> {F(Ref(3)), F(Bin("-", Bin("/", Lit(1), Ref(4)), Ref(3)))}
      [] a[2] = 3 -> {Str("#DIV!"), F(Ref(4)), F(Agg("MAX", 1, 2))}
      [] a[2] = 4 -> {Lit(0), Lit(1)}

\* A chain of two formulas over a number.
ChainTexts(a) ==
    CASE a[2] = 1 -> {F(Ref(2))}
      [] a[2] = 2 -> {F(Ref(3))}
      [] a[2] = 3 -> {Lit(1), Lit(2)}
      [] a[2] = 4 -> {Lit(1)}
=============================================================================
