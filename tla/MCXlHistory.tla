---------------------------- MODULE MCXlHistory ----------------------------
(***************************************************************************)
(* Instance of XlTwins: two sheets, a relative formula that copy()         *)
(* rewrites, and names bound locally and across sheets.                    *)
(***************************************************************************)
EXTENDS XlTwins

CONSTANTS s1, s2, a1, a2, lit, refUp, refDown, here, onS1, onS2

\* refUp at a2 and refDown at a1 are the same relative reference.
MCCopyText(v, a, b) ==
    IF v = lit \/ a = b THEN v ELSE IF v = refUp THEN refDown ELSE refUp

MCQualifierOf(t) == CASE t = onS1 -> s1 [] t = onS2 -> s2 [] OTHER -> NoSheet
=============================================================================
