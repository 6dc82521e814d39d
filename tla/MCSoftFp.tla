------------------------------ MODULE MCSoftFp ------------------------------
(* Eight bits: one of sign, five of exponent, two of mantissa.              *)
EXTENDS SoftFp

\* Zero, subnormals, the least normal, one, the largest, infinity, NaNs, minus one.
MCOperands == {0, 1, 3, 4, 60, 123, 124, 125, 126, 188}
\* Zeros, subnormals, one, a number with a full significand, the largest.
MCAddends == {0, 128, 1, 131, 60, 191, 123}
=============================================================================
