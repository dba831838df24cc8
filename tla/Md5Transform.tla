---------------------------- MODULE Md5Transform ----------------------------
(***************************************************************************)
(* MD5::transform and what it is made of (src/md5.cpp).  A uint4 is the    *)
(* set of the positions of its 1 bits.                                     *)
(***************************************************************************)
EXTENDS Integers, Sequences, FiniteSets

Bit == 0 .. 31

Not(x) == Bit \ x
Xor(x, y) == (x \ y) \cup (y \ x)

\* Addition modulo 2^32: the carries are added until there are none.
RECURSIVE Plus(_, _)
Plus(x, y) ==
  IF y = {} THEN x ELSE Plus(Xor(x, y), {n + 1 : n \in (x \cap y) \ {31}})

F(x, y, z) == (x \cap y) \cup (Not(x) \cap z)
G(x, y, z) == (x \cap z) \cup (y \cap Not(z))
H(x, y, z) == Xor(Xor(x, y), z)
I_NotY(x, y, z) == Xor(y, x \cup z)
I(x, y, z) == Xor(y, x \cup Not(z))

rotate_left(x, n) == {(b + n) % 32 : b \in x}

\* n as bits, from position at
BitsOf(n, at) == {b \in at .. at + 15 : (n \div 2^(b - at)) % 2 = 1}

Word(halves) == BitsOf(halves[1], 16) \cup BitsOf(halves[2], 0)

\* init(): the state
magic == <<Word(<<\h6745, \h2301>>), Word(<<\hefcd, \hab89>>),
           Word(<<\h98ba, \hdcfe>>), Word(<<\h1032, \h5476>>)>>

\* Shift of step k (S11 to S44) and the word of the block it takes.
S == <<<<7, 12, 17, 22>>,
       <<5, 9, 14, 20>>,
       <<4, 11, 16, 23>>,
       <<6, 10, 15, 21>>>>

Taken(k) ==
  << k % 16,
     (5 * k + 1) % 16,
     (3 * k + 5) % 16,
     (7 * k) % 16 >>[(k \div 16) + 1] + 1

\* The additive constants, each as its two halves.
Halves == <<
  <<\hd76a, \ha478>>, <<\he8c7, \hb756>>, <<\h2420, \h70db>>, <<\hc1bd, \hceee>>,
  <<\hf57c, \h0faf>>, <<\h4787, \hc62a>>, <<\ha830, \h4613>>, <<\hfd46, \h9501>>,
  <<\h6980, \h98d8>>, <<\h8b44, \hf7af>>, <<\hffff, \h5bb1>>, <<\h895c, \hd7be>>,
  <<\h6b90, \h1122>>, <<\hfd98, \h7193>>, <<\ha679, \h438e>>, <<\h49b4, \h0821>>,
  <<\hf61e, \h2562>>, <<\hc040, \hb340>>, <<\h265e, \h5a51>>, <<\he9b6, \hc7aa>>,
  <<\hd62f, \h105d>>, <<\h0244, \h1453>>, <<\hd8a1, \he681>>, <<\he7d3, \hfbc8>>,
  <<\h21e1, \hcde6>>, <<\hc337, \h07d6>>, <<\hf4d5, \h0d87>>, <<\h455a, \h14ed>>,
  <<\ha9e3, \he905>>, <<\hfcef, \ha3f8>>, <<\h676f, \h02d9>>, <<\h8d2a, \h4c8a>>,
  <<\hfffa, \h3942>>, <<\h8771, \hf681>>, <<\h6d9d, \h6122>>, <<\hfde5, \h380c>>,
  <<\ha4be, \hea44>>, <<\h4bde, \hcfa9>>, <<\hf6bb, \h4b60>>, <<\hbebf, \hbc70>>,
  <<\h289b, \h7ec6>>, <<\heaa1, \h27fa>>, <<\hd4ef, \h3085>>, <<\h0488, \h1d05>>,
  <<\hd9d4, \hd039>>, <<\he6db, \h99e5>>, <<\h1fa2, \h7cf8>>, <<\hc4ac, \h5665>>,
  <<\hf429, \h2244>>, <<\h432a, \hff97>>, <<\hab94, \h23a7>>, <<\hfc93, \ha039>>,
  <<\h655b, \h59c3>>, <<\h8f0c, \hcc92>>, <<\hffef, \hf47d>>, <<\h8584, \h5dd1>>,
  <<\h6fa8, \h7e4f>>, <<\hfe2c, \he6e0>>, <<\ha301, \h4314>>, <<\h4e08, \h11a1>>,
  <<\hf753, \h7e82>>, <<\hbd3a, \hf235>>, <<\h2ad7, \hd2bb>>, <<\heb86, \hd391>> >>

Constants == [k \in 0 .. 63 |-> Word(Halves[k + 1])]

\* decode(): four bytes are a word, the low one first.
decode(block) ==
  [w \in 1 .. 16 |-> UNION {BitsOf(block[4 * (w - 1) + n + 1], 8 * n) : n \in 0 .. 3}]

\* encode()
ByteOf(x, n) ==
  LET bit(b) == IF 8 * n + b \in x THEN 2^b ELSE 0
  IN  bit(0) + bit(1) + bit(2) + bit(3) + bit(4) + bit(5) + bit(6) + bit(7)

encode(state) == [j \in 1 .. 16 |-> ByteOf(state[((j - 1) \div 4) + 1], (j - 1) % 4)]

\* FF, GG, HH and II
Mix(k, y, z, w) ==
  CASE k \div 16 = 0 -> F(y, z, w)
    [] k \div 16 = 1 -> G(y, z, w)
    [] k \div 16 = 2 -> H(y, z, w)
    [] k \div 16 = 3 -> I(y, z, w)

Step(k, r, x) ==
  LET sum == Plus(Plus(Plus(r[1], Mix(k, r[2], r[3], r[4])), x[Taken(k)]), Constants[k])
  IN  Plus(rotate_left(sum, S[(k \div 16) + 1][(k % 4) + 1]), r[2])

\* The registers after the first k steps; a step sets the first one, and the
\* next has them one further: (a, b, c, d), (d, a, b, c), ...
RECURSIVE After(_, _, _)
After(k, state, x) ==
  IF k = 0 THEN state
  ELSE LET r == After(k - 1, state, x)
       IN  <<r[4], Step(k - 1, r, x), r[2], r[3]>>

transform(state, block) ==
  LET r == After(64, state, decode(block))
  IN  [n \in 1 .. 4 |-> Plus(state[n], r[n])]
=============================================================================
