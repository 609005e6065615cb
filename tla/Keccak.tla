------------------------------- MODULE Keccak -------------------------------
(***************************************************************************)
(* The permutation of SHA-3 and SHAKE as jitterentropy-sha3.c computes it: *)
(* five steps per round on 25 lanes, in place and unrolled.                *)
(*                                                                         *)
(* The state is the set of its bits that are one, each with the index of   *)
(* its lane: exclusive or is symmetric difference, and ~a & b is b \ a.    *)
(* The width of a lane is a parameter, 64 in the code, and so is the       *)
(* number of rounds.                                                       *)
(***************************************************************************)
EXTENDS Integers, Sequences, SequencesExt

CONSTANTS LaneBits,     \* the bits of a lane
          Rounds        \* the rounds of jent_keccakp_1600()

Xor(a, b) == (a \ b) \cup (b \ a)

A(x, y) == x + 5 * y

LaneIndex == 0 .. 24

\* s[i], and a state with nothing but the lane i.
Lane(s, i) == {b \in 0 .. LaneBits - 1 : <<i, b>> \in s}

AsLane(i, lane) == {i} \X lane

\* jent_rol64()
Rol(lane, n) == {(b + n) % LaneBits : b \in lane}

-----------------------------------------------------------------------------

Theta(s) ==
  LET C(x) == Xor(Xor(Xor(Lane(s, A(x, 0)), Lane(s, A(x, 1))),
                      Xor(Lane(s, A(x, 2)), Lane(s, A(x, 3)))),
                  Lane(s, A(x, 4)))
      D(x) == Xor(C((x + 4) % 5), Rol(C((x + 1) % 5), 1))
      columns == <<D(0), D(1), D(2), D(3), D(4)>>
  IN  Xor(s, UNION {AsLane(i, columns[(i % 5) + 1]) : i \in LaneIndex})

\* The lanes in the order of the statements of jent_keccakp_rho().
RhoLane ==
  <<A(1, 0), A(0, 2), A(2, 1), A(1, 2), A(2, 3), A(3, 3), A(3, 0), A(0, 1),
    A(1, 3), A(3, 1), A(1, 4), A(4, 4), A(4, 0), A(0, 3), A(3, 4), A(4, 3),
    A(3, 2), A(2, 2), A(2, 0), A(0, 4), A(4, 2), A(2, 4), A(4, 1), A(1, 1)>>

\* RHO_ROL(t)
RhoRol(t) == (((t + 1) * (t + 2)) \div 2) % LaneBits

Rho(s) ==
  AsLane(0, Lane(s, 0)) \cup
    UNION {AsLane(RhoLane[k], Rol(Lane(s, RhoLane[k]), RhoRol(k - 1))) :
             k \in DOMAIN RhoLane}

\* The lanes jent_keccakp_pi() assigns to.  Each gets the value of the one that
\* follows, which is still the old one, and the last one the first one's, which
\* was copied.
PiLane ==
  <<A(4, 4), A(1, 4), A(3, 1), A(1, 3), A(0, 1), A(3, 0), A(3, 3), A(2, 3),
    A(1, 2), A(2, 1), A(0, 2), A(1, 0), A(1, 1), A(4, 1), A(2, 4), A(4, 2),
    A(0, 4), A(2, 0), A(2, 2), A(3, 2), A(4, 3), A(3, 4), A(0, 3), A(4, 0)>>

Pi(s) ==
  AsLane(0, Lane(s, 0)) \cup
    UNION {AsLane(PiLane[k], Lane(s, PiLane[(k % 24) + 1])) :
             k \in DOMAIN PiLane}

\* What jent_keccakp_chi() reads k columns to the right of lane i: the lane as
\* it is by now, or around the edge the copy of the columns 0 and 1 it began
\* with.
Right(now, t, i, k) ==
  IF (i % 5) + k < 5 THEN Lane(now, i + k) ELSE Lane(t, i + k - 5)

\* The statements on column x, with the copies in t.
ChiColumn(s, t, x) ==
  Xor(s, UNION {AsLane(i, Right(s, t, i, 2) \ Right(s, t, i, 1)) :
                  i \in {A(x, y) : y \in 0 .. 4}})

Chi(s) == FoldLeft(LAMBDA r, x : ChiColumn(r, s, x), s, <<0, 1, 2, 3, 4>>)

\* The bits of jent_keccakp_iota_vals[].
IotaVals ==
  <<{0}, {1, 7, 15}, {1, 3, 7, 15, 63}, {15, 31, 63}, {0, 1, 3, 7, 15}, {0, 31},
    {0, 7, 15, 31, 63}, {0, 3, 15, 63}, {1, 3, 7}, {3, 7}, {0, 3, 15, 31},
    {1, 3, 31}, {0, 1, 3, 7, 15, 31}, {0, 1, 3, 7, 63}, {0, 3, 7, 15, 63},
    {0, 1, 15, 63}, {1, 15, 63}, {7, 63}, {1, 3, 15}, {1, 3, 31, 63},
    {0, 7, 15, 31, 63}, {7, 15, 63}, {0, 31}, {3, 15, 31, 63}>>

Iota(s, round) ==
  Xor(s, AsLane(0, {b \in IotaVals[round] : b < LaneBits}))

Round(s, round) == Iota(Chi(Pi(Rho(Theta(s)))), round)

\* jent_keccakp_1600().  The singleton has the state of a round evaluated once,
\* before the next one begins.
Permute(s) ==
  FoldLeft(LAMBDA r, round : UNION {Round(one, round) : one \in {r}},
           s, [k \in 1 .. Rounds |-> k])
=============================================================================
