-------------------------------- MODULE Shamir --------------------------------
(***************************************************************************)
(* vstorage/shamir.py: secret sharing over GF(2^8), one byte of the secret *)
(* (the bytes are shared independently of each other).                     *)
(***************************************************************************)
EXTENDS Integers, Sequences, Bitwise, Folds

Byte == 0 .. 255

\* Multiplication by 3: x << 1, reduced by 0x11B when it overflows, plus x.
Times3(x) == (IF 2 * x > 255 THEN (2 * x) ^^ 283 ELSE 2 * x) ^^ x

\* x after n rounds of the loop of _init_tables; halved to keep the recursion flat.
Rounds[n \in 0 .. 254, x \in Byte] ==
    IF n = 0 THEN x
    ELSE IF n = 1 THEN Times3(x)
    ELSE Rounds[n - n \div 2, Rounds[n \div 2, x]]

\* _init_tables: the powers of 3, twice, and their inverse.
EXP == [i \in 0 .. 511 |-> Rounds[i % 255, 1]]
LOG == [x \in Byte |-> IF x = 0 THEN 0 ELSE CHOOSE i \in 0 .. 254 : EXP[i] = x]

gf_mul(a, b) == IF a = 0 \/ b = 0 THEN 0 ELSE EXP[LOG[a] + LOG[b]]
gf_div(a, b) == IF a = 0 THEN 0 ELSE EXP[(LOG[a] - LOG[b]) % 255]

\* _eval_poly: Horner's rule from the highest coefficient down; coeffs[1] is the secret.
eval_poly(coeffs, x) ==
    LET from[i \in 1 .. Len(coeffs) + 1] ==
            IF i > Len(coeffs) THEN 0 ELSE gf_mul(from[i + 1], x) ^^ coeffs[i]
    IN  from[1]

\* split_secret: a point of the polynomial for each x in 1 .. n.
split_secret(secret, random, n) == [x \in 1 .. n |-> <<x, eval_poly(<<secret>> \o random, x)>>]

\* combine_shares: Lagrange interpolation at 0.
combine_shares(shares) ==
    LET others(i) == DOMAIN shares \ {i}
        num(i)  == MapThenFoldSet(gf_mul, 1, LAMBDA j : shares[j][1],
                                  LAMBDA S : CHOOSE j \in S : TRUE, others(i))
        den(i)  == MapThenFoldSet(gf_mul, 1, LAMBDA j : shares[i][1] ^^ shares[j][1],
                                  LAMBDA S : CHOOSE j \in S : TRUE, others(i))
        term(i) == gf_mul(shares[i][2], gf_div(num(i), den(i)))
    IN  MapThenFoldSet(LAMBDA a, b : a ^^ b, 0, term, LAMBDA S : CHOOSE i \in S : TRUE, DOMAIN shares)

-----------------------------------------------------------------------------
(* What the tables promise, on sample bytes: the product is that of the    *)
(* polynomials modulo x^8 + x^4 + x^3 + x + 1, division undoes it, and one *)
(* share of two fits every secret.                                         *)

Samples == {0, 1, 2, 3, 83, 128, 202, 255}

DoubleMod[x \in Byte, n \in 0 .. 7] ==
    IF n = 0 THEN x
    ELSE LET y == 2 * DoubleMod[x, n - 1] IN IF y > 255 THEN y ^^ 283 ELSE y
Product(a, b) ==
    MapThenFoldSet(LAMBDA x, y : x ^^ y, 0, LAMBDA n : DoubleMod[a, n],
                   LAMBDA S : CHOOSE n \in S : TRUE, {n \in 0 .. 7 : (b \div 2^n) % 2 = 1})

ASSUME TablesAssumption ==
    \A a, b \in Samples :
        /\ gf_mul(a, b) = Product(a, b)
        /\ b # 0 => gf_div(gf_mul(a, b), b) = a

ASSUME ZeroInformation ==
    \A y \in {0, 83}, x \in {1, 3} :
        {s \in Byte : \E c \in Byte : eval_poly(<<s, c>>, x) = y} = Byte
=============================================================================
