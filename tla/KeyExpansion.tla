---------------------------- MODULE KeyExpansion ----------------------------
(***************************************************************************)
(* The key schedule in hardware (KeyExpansion.sv).  Ten stages compute a   *)
(* round key each from the one before, by gates alone but for the          *)
(* substituted bytes, which SubBytes registers at the falling edge of clk. *)
(* So a new Cipherkey reaches one more round key at every clock.           *)
(***************************************************************************)
EXTENDS Rijndael, RoundModules

CONSTANT Keys                   \* the keys that are applied

ASSUME KeysAssumption == Keys \subseteq [1..4 -> Word]

\* SubBytes.sv holds the substitution of the standard, in all its 256 places.
ASSUME SubBytesAssumption == \A b \in Byte : SubBytes(b) = SBox[b]

VARIABLES
  Cipherkey,
  subword,                      \* of each stage, the registers behind SubBytes
  clocks                        \* history: the clocks since the key was applied,
                                \* at most Stages
keyVars == <<Cipherkey, subword, clocks>>

Stages == 10
StageRcon == <<1, 2, 4, 8, 16, 32, 64, 128, 27, 54>>

\* Faulty variant: the words of a round are taken from the old key alone.
KeyExpansionOne_NoChain(oldkey, sub, rcon) ==
  LET w0 == XorWord(oldkey[1], <<Xor(sub[1], rcon), sub[2], sub[3], sub[4]>>)
  IN  <<w0, XorWord(oldkey[2], oldkey[1]), XorWord(oldkey[3], oldkey[2]),
        XorWord(oldkey[4], oldkey[3])>>
KeyExpansionOne(oldkey, sub, rcon) ==
  LET w0 == XorWord(oldkey[1], <<Xor(sub[1], rcon), sub[2], sub[3], sub[4]>>)
      w1 == XorWord(oldkey[2], w0)
      w2 == XorWord(oldkey[3], w1)
      w3 == XorWord(oldkey[4], w2)
  IN  <<w0, w1, w2, w3>>

key0 == KeyExpansionOne(Cipherkey, subword[1], StageRcon[1])
key1 == KeyExpansionOne(key0, subword[2], StageRcon[2])
key2 == KeyExpansionOne(key1, subword[3], StageRcon[3])
key3 == KeyExpansionOne(key2, subword[4], StageRcon[4])
key4 == KeyExpansionOne(key3, subword[5], StageRcon[5])
key5 == KeyExpansionOne(key4, subword[6], StageRcon[6])
key6 == KeyExpansionOne(key5, subword[7], StageRcon[7])
key7 == KeyExpansionOne(key6, subword[8], StageRcon[8])
key8 == KeyExpansionOne(key7, subword[9], StageRcon[9])
key9 == KeyExpansionOne(key8, subword[10], StageRcon[10])

RoundKeys == <<Cipherkey, key0, key1, key2, key3, key4, key5, key6, key7, key8, key9>>
KeySchedule == LET keys == RoundKeys IN [n \in 0..43 |-> keys[1 + (n \div 4)][1 + (n % 4)]]

\* The bytes of the last word, turned by one.
SubWord(oldkey) ==
  LET wp3 == oldkey[4]
  IN  <<SubBytes(wp3[2]), SubBytes(wp3[3]), SubBytes(wp3[4]), SubBytes(wp3[1])>>

KeyInit ==
  /\ Cipherkey \in Keys
  /\ subword = [i \in 1..Stages |-> <<0, 0, 0, 0>>]   \* registers power up as zero
  /\ clocks = 0

NegEdge ==
  /\ subword' = [i \in 1..Stages |-> SubWord(RoundKeys[i])]
  /\ clocks' = (IF clocks = Stages THEN Stages ELSE clocks + 1)
  /\ UNCHANGED Cipherkey

ApplyKey ==
  /\ Cipherkey' \in Keys \ {Cipherkey}
  /\ clocks' = 0
  /\ UNCHANGED subword

KeyNext == NegEdge \/ ApplyKey
KeySpec == KeyInit /\ [][KeyNext]_keyVars

-----------------------------------------------------------------------------
(* Properties *)

KeyTypeOK ==
  /\ Cipherkey \in [1..4 -> Word]
  /\ subword \in [1..Stages -> Word]
  /\ clocks \in 0..Stages

\* The strengthening of the property below: the first stages hold what their
\* round keys make of them, so the next clock changes none of those.
Settled == \A i \in 1..Stages : i <= clocks => subword[i] = SubWord(RoundKeys[i])

\* A key settles one round per clock, whatever keys were applied before it and
\* however far they came: after ten clocks the whole schedule is that of the
\* standard (KeyExpansion.sv:12-36, "does not complete in single clock cycle").
KeySettles == IsKeySchedule(KeySchedule, Cipherkey, FirstByte, clocks)
=============================================================================
