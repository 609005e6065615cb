---------------------------- MODULE Conditioning ----------------------------
(***************************************************************************)
(* The conditioning of the entropy pool: the sponge that takes data in     *)
(* pieces of any length, and the generator that turns what it holds into a *)
(* block of output and its own next state.                                 *)
(***************************************************************************)
EXTENDS Keccak, FiniteSetsExt

CONSTANTS Rate,         \* JENT_SHA3_256_SIZE_BLOCK, in bytes
          SizeState,    \* JENT_XDRBG_SIZE_STATE
          SizeDigest,   \* JENT_SHA3_256_SIZE_DIGEST
          Piece,        \* the lengths that data comes in
          Request,      \* the lengths that output is asked for in
          MaxCalls      \* bounds the calls

\* The conditions of jent_xdrbg256_generate_block() on the sizes.
ASSUME SizeAssumption ==
  /\ LaneBits % 8 = 0
  /\ Rate >= SizeState + SizeDigest
  /\ \A size \in {Rate, SizeState, SizeDigest} : (8 * size) % LaneBits = 0
  /\ 8 * Rate < 25 * LaneBits

VARIABLES ctx,          \* struct jent_sha_ctx
          out,          \* what the last call returned
          kind,         \* which of the two initializations ctx had
          calls,        \* counts the calls
          v,            \* history: the state the generator fed back last
          given,        \* history: the data since the last result
          asked         \* history: the length of the last request

vars == <<ctx, out, kind, calls, v, given, asked>>

LaneBytes == LaneBits \div 8

ByteOf(n) == {b \in 0 .. 7 : (n \div (2 ^ b)) % 2 = 1}

Zeros(n) == [i \in 1 .. n |-> {}]

-----------------------------------------------------------------------------
(* SHA-3 *)

\* jent_sha3_init()
Cleared(c) == [c EXCEPT !.state = {}, !.msg_len = 0]

\* The words of a block, each ptr_to_le64() of its bytes, exclusive-or'ed into
\* the state, and the permutation.
Absorb(c, block) ==
  LET word(i) == UNION {{8 * k + b : b \in block[LaneBytes * i + k + 1]} :
                          k \in 0 .. LaneBytes - 1}
      filled == UNION {AsLane(i, word(i)) : i \in 0 .. (Rate \div LaneBytes) - 1}
  IN  [c EXCEPT !.state = Permute(Xor(@, filled))]

\* memcpy(buffer + n, in, Len(in))
Copied(buffer, n, in) ==
  [i \in DOMAIN buffer |-> IF i \in n + 1 .. n + Len(in) THEN in[i - n]
                                                         ELSE buffer[i]]

\* Whether a piece stays in the partial block.  First, one that counts a block
\* it completes as partial.
StaysAtEnd(inlen, todo) == inlen <= todo

Stays(inlen, todo) == inlen < todo

Update(c, in) ==
  LET partial == c.msg_len % Rate
      todo    == Rate - partial
      counted == [c EXCEPT !.msg_len = @ + Len(in)]
  IN  IF partial # 0 /\ Stays(Len(in), todo)
      THEN [counted EXCEPT !.partial = Copied(@, partial, in)]
      ELSE LET taken  == IF partial # 0 THEN todo ELSE 0
               buffer == Copied(c.partial, partial, SubSeq(in, 1, taken))
               first  == IF partial = 0 THEN counted
                         ELSE Absorb([counted EXCEPT !.partial = buffer], buffer)
               blocks == (Len(in) - taken) \div Rate
               begin(k) == taken + Rate * (k - 1)
               last   == FoldLeft(
                           LAMBDA d, k :
                             Absorb(d, SubSeq(in, begin(k) + 1, begin(k) + Rate)),
                           first, [k \in 1 .. blocks |-> k])
               rest   == SubSeq(in, taken + Rate * blocks + 1, Len(in))
           IN  [last EXCEPT !.partial = Copied(@, 0, rest)]

\* jent_sha3_final() returns the digest and has the context begin again.
Final(c) ==
  LET partial == c.msg_len % Rate
      zeroed  == Copied(c.partial, partial, Zeros(Rate - partial))
      ended   == [zeroed EXCEPT ![partial + 1] = c.padding]
      s       == Absorb(c, [ended EXCEPT ![Rate] = @ \cup {7}]).state
  IN  [digest |-> [i \in 1 .. c.digestsize |->
                     LET k == (i - 1) % LaneBytes
                     IN  {b \in 0 .. 7 :
                            8 * k + b \in Lane(s, (i - 1) \div LaneBytes)}],
       ctx    |-> Cleared([c EXCEPT !.partial = Zeros(Rate)])]

-----------------------------------------------------------------------------
(* XDRBG-256 *)

\* JENT_XDRBG_DRNG_ENCODE_N()
EncodeN(n) == <<ByteOf(85 * n)>>

WithDigestsize(c, n) == [c EXCEPT !.digestsize = n]

\* What the encoding takes for the mark of a first seed.
Mark(c) == c.initially_seeded

\* Finalizes the seeding, generates, and feeds the next state back.
GenerateBlock(c) ==
  LET marked == [c EXCEPT !.initially_seeded = 1]
      seeded == Final(WithDigestsize(Update(marked, EncodeN(Mark(c))), SizeState))
      drawn  == Final(WithDigestsize(Update(Update(seeded.ctx, seeded.digest),
                                            EncodeN(2)),
                                     SizeState + SizeDigest))
      next_state == SubSeq(drawn.digest, 1, SizeState)
  IN  [next_state |-> next_state,
       block      |-> SubSeq(drawn.digest, SizeState + 1, SizeState + SizeDigest),
       ctx        |-> Update(drawn.ctx, next_state)]

-----------------------------------------------------------------------------
(* The calls *)

\* jent_sha3_256_init() and jent_shake256_init()
Init ==
  /\ kind \in {"sha3", "xdrbg"}
  /\ ctx = [state |-> {}, msg_len |-> 0, partial |-> Zeros(Rate),
            digestsize |-> IF kind = "sha3" THEN SizeDigest ELSE 0,
            padding |-> ByteOf(IF kind = "sha3" THEN 6 ELSE 31),
            initially_seeded |-> 0]
  /\ out = <<>>
  /\ calls = 0
  /\ v = <<>>
  /\ given = <<>>
  /\ asked = 0

\* No two bytes next to each other and no two pieces are the same.
Data(n) == [i \in 1 .. n |-> ByteOf((37 * calls + i) % 256)]

Insert(n) ==
  /\ calls < MaxCalls
  /\ calls' = calls + 1
  /\ ctx' = Update(ctx, Data(n))
  /\ given' = given \o Data(n)
  /\ UNCHANGED <<out, kind, v, asked>>

Digest ==
  /\ kind = "sha3"
  /\ calls < MaxCalls
  /\ calls' = calls + 1
  /\ LET final == Final(ctx)
     IN  ctx' = final.ctx /\ out' = final.digest
  /\ given' = <<>>
  /\ UNCHANGED <<kind, v, asked>>

\* jent_drbg_generate_block() of a request of dst_len bytes.
Generate(dst_len) ==
  /\ kind = "xdrbg"
  /\ calls < MaxCalls
  /\ calls' = calls + 1
  /\ LET generated == GenerateBlock(ctx)
     IN  /\ ctx' = generated.ctx
         /\ v' = generated.next_state
         /\ out' = SubSeq(generated.block, 1, Min({dst_len, SizeDigest}))
  /\ given' = <<>>
  /\ asked' = dst_len
  /\ UNCHANGED kind

Next ==
  \/ \E n \in Piece : Insert(n)
  \/ Digest
  \/ \E n \in Request : Generate(n)

Spec == Init /\ [][Next]_vars

-----------------------------------------------------------------------------
(* Properties *)

Reference == INSTANCE Xdrbg

\* The table of jent_keccakp_iota_vals[] to its last round and bit, whatever
\* part of it the sizes above use.
ASSUME IotaValsAssumption ==
  \A round \in 1 .. 24 : IotaVals[round] = Reference!ConstantBits(round - 1)

\* However the data was cut into pieces, and over any sequence of requests, what
\* jent_sha3_final() and jent_xdrbg256_generate_block() return is what FIPS 202
\* and XDRBG-256 define on the data as a whole: every byte given since the last
\* result and the state fed back by it are in the next one, in order.
ImplementsXdrbg == Reference!XdrbgSpec
=============================================================================
