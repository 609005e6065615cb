------------------------------- MODULE Xdrbg -------------------------------
(***************************************************************************)
(* What the conditioning promises: the functions of FIPS 202 on the whole  *)
(* of the data given since the last result, and XDRBG-256 as the comments  *)
(* of jent_xdrbg256_generate_block() state it on top of them.              *)
(*                                                                         *)
(* A byte is the set of its bits that are one, a string of bits the set of *)
(* the positions of its ones, and a state of the permutation the set of    *)
(* the coordinates <<x, y, z>> of its ones.                                *)
(***************************************************************************)
EXTENDS Integers, Sequences, FiniteSets, SequencesExt

CONSTANTS LaneBits, Rounds, Rate, SizeState, SizeDigest

VARIABLES kind,     \* "sha3" for SHA3-256, "xdrbg" for XDRBG-256
          v,        \* the state of the generator, <<>> before the first seed
          given,    \* the bytes given since the last result
          asked,    \* the bytes asked for with it
          out       \* the last result

xdrbg_vars == <<kind, v, given, asked, out>>

-----------------------------------------------------------------------------
(* KECCAK-p of FIPS 202 *)

Cube == (0 .. 4) \X (0 .. 4) \X (0 .. LaneBits - 1)

StepTheta(a) ==
  LET odd == {<<x, z>> \in (0 .. 4) \X (0 .. LaneBits - 1) :
                Cardinality({y \in 0 .. 4 : <<x, y, z>> \in a}) % 2 = 1}
      flips(x, z) == (<<(x + 4) % 5, z>> \in odd) #
                     (<<(x + 1) % 5, (z + LaneBits - 1) % LaneBits>> \in odd)
  IN  {c \in Cube : (c \in a) # flips(c[1], c[3])}

\* The walk over the lanes along which the offsets grow.
Walk[t \in 0 .. 23] ==
  IF t = 0 THEN <<1, 0>>
  ELSE LET at == Walk[t - 1] IN <<at[2], (2 * at[1] + 3 * at[2]) % 5>>

\* The coordinates of every lane with the offset it is rotated by.
Offsets ==
  {<<0, 0, 0>>} \cup
    {<<Walk[t][1], Walk[t][2], ((t + 1) * (t + 2)) \div 2>> : t \in 0 .. 23}

StepRho(a, offsets) ==
  UNION {{<<o[1], o[2], (z + o[3]) % LaneBits>> :
            z \in {k \in 0 .. LaneBits - 1 : <<o[1], o[2], k>> \in a}} :
           o \in offsets}

StepPi(a) == {c \in Cube : <<(c[1] + 3 * c[2]) % 5, c[1], c[3]>> \in a}

StepChi(a) ==
  {c \in Cube : (c \in a) # (/\ <<(c[1] + 1) % 5, c[2], c[3]>> \notin a
                             /\ <<(c[1] + 2) % 5, c[2], c[3]>> \in a)}

\* The shift register of rc after n steps from r, as the set of the places of
\* its ones.
Shifted[r \in SUBSET (0 .. 7), n \in Nat] ==
  IF n = 0 THEN r
  ELSE IF n > 1 THEN Shifted[Shifted[r, n \div 2], n - (n \div 2)]
  ELSE LET moved == {i + 1 : i \in r}
           taps  == IF 8 \in moved THEN {0, 4, 5, 6} ELSE {}
       IN  ((moved \ taps) \cup (taps \ moved)) \ {8}

\* The bits of the constant of a round.
ConstantBits(round) ==
  {(2 ^ j) - 1 : j \in {k \in 0 .. 6 : 0 \in Shifted[{0}, (k + 7 * round) % 255]}}

StepIota(a, round) ==
  LET ones == {<<0, 0, z>> : z \in ConstantBits(round) \cap (0 .. LaneBits - 1)}
  IN  (a \ ones) \cup (ones \ a)

KeccakP(a) ==
  LET offsets == Offsets
      round(s, n) == StepIota(StepChi(StepPi(StepRho(StepTheta(s), offsets))), n)
  IN  FoldLeft(LAMBDA s, n : UNION {round(one, n) : one \in {s}},
               a, [k \in 1 .. Rounds |-> k - 1])

-----------------------------------------------------------------------------
(* The sponge of FIPS 202 *)

Coordinates(p) ==
  <<(p \div LaneBits) % 5, p \div (5 * LaneBits), p % LaneBits>>

\* The message with the suffix of the function and pad10*1, as <<ones, blocks>>.
Padded(message, suffix) ==
  LET n      == 8 * Len(message)
      end    == n + Len(suffix)
      blocks == (end + 2 + 8 * Rate - 1) \div (8 * Rate)
  IN  << UNION {{8 * (i - 1) + b : b \in message[i]} : i \in DOMAIN message}
         \cup {n + i - 1 : i \in {j \in DOMAIN suffix : suffix[j] = 1}}
         \cup {end, 8 * Rate * blocks - 1},
         blocks >>

\* The first d bytes of the output, at most one block of it.
Sponge(message, suffix, d) ==
  LET padded   == Padded(message, suffix)
      block(k) == {Coordinates(p - 8 * Rate * k) :
                     p \in {q \in padded[1] : q \div (8 * Rate) = k}}
      absorbed ==
        FoldLeft(LAMBDA s, k :
                   KeccakP((s \ block(k)) \cup (block(k) \ s)),
                 {}, [k \in 1 .. padded[2] |-> k - 1])
  IN  [i \in 1 .. d |->
         {b \in 0 .. 7 : Coordinates(8 * (i - 1) + b) \in absorbed}]

SHA3(message) == Sponge(message, <<0, 1>>, SizeDigest)

XOF(message, d) == Sponge(message, <<1, 1, 1, 1>>, d)

-----------------------------------------------------------------------------
(* XDRBG-256 *)

\* encode(message, "", n)
Encode(message, n) ==
  Append(message, {b \in 0 .. 7 : ((85 * n) \div (2 ^ b)) % 2 = 1})

Seeded == XOF(IF v = <<>> THEN Encode(given, 0) ELSE Encode(v \o given, 1),
              SizeState)

Give ==
  /\ IsPrefix(given, given')
  /\ UNCHANGED <<kind, v, asked, out>>

Digest ==
  /\ kind = "sha3"
  /\ out' = SHA3(given)
  /\ given' = <<>>
  /\ UNCHANGED <<kind, v>>

\* The next state, and as much of the output as asked for.
Generate ==
  /\ kind = "xdrbg"
  /\ LET t == XOF(Encode(Seeded, 2), SizeState + SizeDigest)
     IN  /\ v' = SubSeq(t, 1, SizeState)
         /\ out' = SubSeq(t, SizeState + 1,
                          SizeState + (IF asked' < SizeDigest THEN asked'
                                                              ELSE SizeDigest))
  /\ given' = <<>>
  /\ UNCHANGED kind

XdrbgInit ==
  /\ kind \in {"sha3", "xdrbg"}
  /\ v = <<>>
  /\ given = <<>>
  /\ asked = 0
  /\ out = <<>>

XdrbgSpec == XdrbgInit /\ [][Give \/ Digest \/ Generate]_xdrbg_vars
=============================================================================
