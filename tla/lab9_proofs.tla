---------------------------- MODULE lab9_proofs -----------------------------
(***************************************************************************)
(* For all the messages and keys of digits that the user types and every   *)
(* number of encryptions in the benchmark: the program enciphers as the    *)
(* standard does but for the place of a constant, and the display shows    *)
(* the key of the last encryption and never a half-stored one.  And for    *)
(* every sequence of keys applied at any time, the hardware's key schedule *)
(* is right n rounds deep n clocks after the last of them.                 *)
(***************************************************************************)
EXTENDS lab9, KeyExpansion, TLAPS

-----------------------------------------------------------------------------
(* The key schedule of the hardware *)

Key128 == [1..4 -> Word]

\* Exclusive or is a function of bytes.
LEMMA XorByte == ASSUME NEW a \in Byte, NEW b \in Byte PROVE Xor(a, b) \in Byte
<1>1. \A x, y \in Nibble : XorNibble[x][y] \in Nibble
  BY DEF XorNibble, Nibble
<1>2. /\ a \div 16 \in Nibble /\ a % 16 \in Nibble
      /\ b \div 16 \in Nibble /\ b % 16 \in Nibble
  BY DEF Byte, Nibble
<1> DEFINE high == XorNibble[a \div 16][b \div 16]
           low == XorNibble[a % 16][b % 16]
<1>3. high \in 0..15 /\ low \in 0..15
  BY <1>1, <1>2 DEF Nibble
<1> HIDE DEF high, low
<1>4. 16 * high + low \in Byte
  BY <1>3 DEF Byte
<1> QED
  BY <1>4 DEF Xor, high, low

LEMMA XorWordType == ASSUME NEW v \in Word, NEW w \in Word PROVE XorWord(v, w) \in Word
  BY XorByte DEF XorWord, Word

\* SubBytes.sv holds bytes.
LEMMA SubBytesType == ASSUME NEW b \in Byte PROVE SubBytes(b) \in Byte
<1>1. \A n \in 1..256 : SubBytesTable[n] \in 0..255
  BY SMTT(120) DEF SubBytesTable
<1>2. b + 1 \in 1..256
  BY DEF Byte
<1>3. SubBytesTable[b + 1] \in 0..255
  BY <1>1, <1>2, Zenon
<1> QED
  BY <1>3, Zenon DEF SubBytes, Byte

\* The constants of the stages are those of the standard.
LEMMA StageRconByte == \A q \in 1..Stages : StageRcon[q] \in Byte /\ StageRcon[q] = RoundConstant[q]
  BY DEF StageRcon, RoundConstant, Byte, Stages

LEMMA SubWordType == ASSUME NEW old \in Key128 PROVE SubWord(old) \in Word
<1>1. /\ old[4][1] \in Byte /\ old[4][2] \in Byte
      /\ old[4][3] \in Byte /\ old[4][4] \in Byte
  BY DEF Key128, Word
<1> QED
  BY <1>1, SubBytesType DEF SubWord, Word

\* A stage makes a key of a key (KeyExpansion.sv).
LEMMA StageType ==
  ASSUME NEW old \in Key128, NEW sub \in Word, NEW rcon \in Byte
  PROVE  KeyExpansionOne(old, sub, rcon) \in Key128
<1> DEFINE first == <<Xor(sub[1], rcon), sub[2], sub[3], sub[4]>>
           w0 == XorWord(old[1], first)
           w1 == XorWord(old[2], w0)
           w2 == XorWord(old[3], w1)
           w3 == XorWord(old[4], w2)
<1>1. first \in Word
  BY XorByte DEF Word
<1> HIDE DEF first
<1>2. w0 \in Word
  BY <1>1, XorWordType DEF Key128
<1> HIDE DEF w0
<1>3. w1 \in Word
  BY <1>2, XorWordType DEF Key128
<1> HIDE DEF w1
<1>4. w2 \in Word
  BY <1>3, XorWordType DEF Key128
<1> HIDE DEF w2
<1>5. w3 \in Word
  BY <1>4, XorWordType DEF Key128
<1> HIDE DEF w3
<1>6. <<w0, w1, w2, w3>> \in Key128
  BY <1>2, <1>3, <1>4, <1>5 DEF Key128
<1> QED
  BY <1>6 DEF KeyExpansionOne, w0, w1, w2, w3, first

\* A stage whose registers hold the bytes of its old key computes the next four
\* words of the standard's key schedule (KeyExpansion.sv:57-67).
LEMMA StageFollows ==
  ASSUME NEW old \in Key128, NEW q \in 1..Stages,
         NEW new, new = KeyExpansionOne(old, SubWord(old), StageRcon[q])
  PROVE  /\ new[1] = XorWord(old[1], RoundWord(old[4], q, FirstByte))
         /\ new[2] = XorWord(old[2], new[1])
         /\ new[3] = XorWord(old[3], new[2])
         /\ new[4] = XorWord(old[4], new[3])
<1>1. /\ old[4][1] \in Byte /\ old[4][2] \in Byte
      /\ old[4][3] \in Byte /\ old[4][4] \in Byte
  BY DEF Key128, Word
<1> DEFINE sub == SubWord(old)
           first == <<Xor(sub[1], StageRcon[q]), sub[2], sub[3], sub[4]>>
<1>2. RoundWord(old[4], q, FirstByte) = first
  <2>1. /\ sub[1] = SBox[old[4][2]] /\ sub[2] = SBox[old[4][3]]
        /\ sub[3] = SBox[old[4][4]] /\ sub[4] = SBox[old[4][1]]
    BY <1>1, SubBytesAssumption DEF SubWord
  <2>2. RoundWord(old[4], q, FirstByte)
          = <<Xor(SBox[old[4][2]], RoundConstant[q]), SBox[old[4][3]],
              SBox[old[4][4]], SBox[old[4][1]]>>
    BY DEF RoundWord, FirstByte
  <2> QED
    BY <2>1, <2>2, StageRconByte
<1>3. /\ new[1] = XorWord(old[1], first)
      /\ new[2] = XorWord(old[2], new[1])
      /\ new[3] = XorWord(old[3], new[2])
      /\ new[4] = XorWord(old[4], new[3])
  BY Zenon DEF KeyExpansionOne
<1> QED
  BY <1>2, <1>3
-----------------------------------------------------------------------------
(* The ten round keys *)

\* The round keys have their types, and each is a stage on the one before.
LEMMA Stages10 ==
  ASSUME KeyTypeOK
  PROVE  \A q \in 1..Stages :
           /\ RoundKeys[q] \in Key128
           /\ RoundKeys[q + 1] = KeyExpansionOne(RoundKeys[q], subword[q], StageRcon[q])
<1>0. /\ Cipherkey \in Key128
      /\ \A q \in 1..10 : subword[q] \in Word /\ StageRcon[q] \in Byte
  BY StageRconByte DEF KeyTypeOK, Key128, Stages
<1>a. \A old \in Key128 : \A q \in 1..10 :
        KeyExpansionOne(old, subword[q], StageRcon[q]) \in Key128
  BY <1>0, StageType
<1>1. key0 \in Key128
  BY <1>0, <1>a DEF key0
<1>2. key1 \in Key128
  BY <1>1, <1>a DEF key1
<1>3. key2 \in Key128
  BY <1>2, <1>a DEF key2
<1>4. key3 \in Key128
  BY <1>3, <1>a DEF key3
<1>5. key4 \in Key128
  BY <1>4, <1>a DEF key4
<1>6. key5 \in Key128
  BY <1>5, <1>a DEF key5
<1>7. key6 \in Key128
  BY <1>6, <1>a DEF key6
<1>8. key7 \in Key128
  BY <1>7, <1>a DEF key7
<1>9. key8 \in Key128
  BY <1>8, <1>a DEF key8
<1>10. RoundKeys = <<Cipherkey, key0, key1, key2, key3, key4, key5, key6, key7, key8, key9>>
  BY DEF RoundKeys
<1>11. ASSUME NEW q \in 1..10
       PROVE  /\ RoundKeys[q] \in Key128
              /\ RoundKeys[q + 1] = KeyExpansionOne(RoundKeys[q], subword[q], StageRcon[q])
  <2>1. CASE q = 1
    BY <2>1, <1>0, <1>10 DEF key0
  <2>2. CASE q = 2
    BY <2>2, <1>1, <1>10 DEF key1
  <2>3. CASE q = 3
    BY <2>3, <1>2, <1>10 DEF key2
  <2>4. CASE q = 4
    BY <2>4, <1>3, <1>10 DEF key3
  <2>5. CASE q = 5
    BY <2>5, <1>4, <1>10 DEF key4
  <2>6. CASE q = 6
    BY <2>6, <1>5, <1>10 DEF key5
  <2>7. CASE q = 7
    BY <2>7, <1>6, <1>10 DEF key6
  <2>8. CASE q = 8
    BY <2>8, <1>7, <1>10 DEF key7
  <2>9. CASE q = 9
    BY <2>9, <1>8, <1>10 DEF key8
  <2>10. CASE q = 10
    BY <2>10, <1>9, <1>10 DEF key9
  <2> QED
    BY <1>11, <2>1, <2>2, <2>3, <2>4, <2>5, <2>6, <2>7, <2>8, <2>9, <2>10
<1> QED
  BY <1>11 DEF Stages

\* What has settled does not change at a clock: the registers of the first
\* stages are loaded with what they hold, so neither do the keys behind them.
LEMMA SettledKeysStay ==
  ASSUME KeyTypeOK, Settled, NegEdge
  PROVE  \A q \in 1..Stages : q <= clocks + 1 => RoundKeys'[q] = RoundKeys[q]
<1> DEFINE Same(q) == RoundKeys'[q] = RoundKeys[q]
<1>0. /\ Cipherkey' = Cipherkey
      /\ clocks \in 0..10
      /\ \A q \in 1..10 : q <= clocks => subword'[q] = subword[q]
  BY DEF NegEdge, Settled, KeyTypeOK, Stages
<1>a. /\ RoundKeys = <<Cipherkey, key0, key1, key2, key3, key4, key5, key6, key7, key8, key9>>
      /\ RoundKeys' = <<Cipherkey', key0', key1', key2', key3', key4', key5', key6', key7',
                        key8', key9'>>
  BY DEF RoundKeys
<1>1. clocks >= 1 => key0' = key0
  BY <1>0, <1>0 DEF key0
<1>2. clocks >= 2 => key1' = key1
  BY <1>1, <1>0 DEF key1
<1>3. clocks >= 3 => key2' = key2
  BY <1>2, <1>0 DEF key2
<1>4. clocks >= 4 => key3' = key3
  BY <1>3, <1>0 DEF key3
<1>5. clocks >= 5 => key4' = key4
  BY <1>4, <1>0 DEF key4
<1>6. clocks >= 6 => key5' = key5
  BY <1>5, <1>0 DEF key5
<1>7. clocks >= 7 => key6' = key6
  BY <1>6, <1>0 DEF key6
<1>8. clocks >= 8 => key7' = key7
  BY <1>7, <1>0 DEF key7
<1>9. clocks >= 9 => key8' = key8
  BY <1>8, <1>0 DEF key8
<1>11. ASSUME NEW q \in 1..10, q <= clocks + 1 PROVE RoundKeys'[q] = RoundKeys[q]
  <2>1. CASE q = 1
    BY <2>1, <1>11, <1>0, <1>0, <1>a
  <2>2. CASE q = 2
    BY <2>2, <1>11, <1>1, <1>0, <1>a
  <2>3. CASE q = 3
    BY <2>3, <1>11, <1>2, <1>0, <1>a
  <2>4. CASE q = 4
    BY <2>4, <1>11, <1>3, <1>0, <1>a
  <2>5. CASE q = 5
    BY <2>5, <1>11, <1>4, <1>0, <1>a
  <2>6. CASE q = 6
    BY <2>6, <1>11, <1>5, <1>0, <1>a
  <2>7. CASE q = 7
    BY <2>7, <1>11, <1>6, <1>0, <1>a
  <2>8. CASE q = 8
    BY <2>8, <1>11, <1>7, <1>0, <1>a
  <2>9. CASE q = 9
    BY <2>9, <1>11, <1>8, <1>0, <1>a
  <2>10. CASE q = 10
    BY <2>10, <1>11, <1>9, <1>0, <1>a
  <2> QED
    BY <1>11, <2>1, <2>2, <2>3, <2>4, <2>5, <2>6, <2>7, <2>8, <2>9, <2>10
<1> QED
  BY <1>11 DEF Stages

-----------------------------------------------------------------------------
(* The invariant *)

KeyInv == KeyTypeOK /\ Settled

\* When the key has just been applied, nothing has settled but the key.
LEMMA InitKey == KeyInit => KeyInv
<1> SUFFICES ASSUME KeyInit PROVE KeyInv
  OBVIOUS
<1>1. Cipherkey \in [1..4 -> Word] /\ clocks = 0
  BY KeysAssumption DEF KeyInit
<1>2. <<0, 0, 0, 0>> \in Word
  BY DEF Word, Byte
<1>3. subword \in [1..Stages -> Word]
  BY <1>2 DEF KeyInit
<1> QED
  BY <1>1, <1>3 DEF KeyInv, KeyTypeOK, Settled, Stages

LEMMA NegEdgeKeeps == ASSUME KeyInv, NegEdge PROVE KeyInv'
<1>1. KeyTypeOK /\ Settled
  BY DEF KeyInv
<1>2. \A q \in 1..Stages : SubWord(RoundKeys[q]) \in Word
  BY <1>1, Stages10, SubWordType
<1>3. KeyTypeOK'
  <2>1. subword' \in [1..Stages -> Word]
    BY <1>2 DEF NegEdge
  <2>2. Cipherkey' \in [1..4 -> Word] /\ clocks' \in 0..Stages
    BY <1>1 DEF NegEdge, KeyTypeOK, Stages
  <2> QED
    BY <2>1, <2>2 DEF KeyTypeOK
<1>4. ASSUME NEW q \in 1..Stages, q <= clocks'
      PROVE  subword'[q] = SubWord(RoundKeys[q])'
  <2>1. q <= clocks + 1
    BY <1>1, <1>4 DEF NegEdge, KeyTypeOK, Stages
  <2>2. RoundKeys'[q] = RoundKeys[q]
    BY <1>1, <2>1, SettledKeysStay
  <2>3. subword'[q] = SubWord(RoundKeys[q])
    BY DEF NegEdge
  <2> QED
    BY <2>2, <2>3 DEF SubWord
<1> QED
  BY <1>3, <1>4 DEF KeyInv, Settled

LEMMA ApplyKeyKeeps == ASSUME KeyInv, ApplyKey PROVE KeyInv'
<1>1. KeyTypeOK' /\ clocks' = 0
  BY KeysAssumption DEF KeyInv, KeyTypeOK, ApplyKey, Stages
<1> QED
  BY <1>1 DEF KeyInv, Settled, Stages

LEMMA StutterKeeps == ASSUME KeyInv, UNCHANGED keyVars PROVE KeyInv'
<1>1. Cipherkey' = Cipherkey /\ subword' = subword /\ clocks' = clocks
  BY DEF keyVars
<1>2. RoundKeys' = RoundKeys
  BY <1>1 DEF RoundKeys, key0, key1, key2, key3, key4, key5, key6, key7, key8, key9
<1>3. KeyTypeOK'
  BY <1>1 DEF KeyInv, KeyTypeOK
<1>4. \A q \in 1..Stages : q <= clocks' => subword'[q] = SubWord(RoundKeys[q])'
  BY <1>1, <1>2 DEF KeyInv, Settled, SubWord
<1> QED
  BY <1>3, <1>4 DEF KeyInv, Settled

\* Settled registers make the settled rounds those of the standard.
LEMMA SettledFollow == KeyInv => KeySettles
<1> SUFFICES ASSUME KeyInv PROVE KeySettles
  OBVIOUS
<1> DEFINE w == KeySchedule
<1>0. KeyTypeOK /\ Settled /\ clocks \in 0..10
  BY DEF KeyInv, KeyTypeOK, Stages
<1>1. \A n \in 0..43 : w[n] = RoundKeys[1 + (n \div 4)][1 + (n % 4)]
  BY DEF KeySchedule
<1> HIDE DEF w
<1>2. \A n \in 0..3 : w[n] = Cipherkey[n + 1]
  <2>1. RoundKeys[1] = Cipherkey
    BY DEF RoundKeys
  <2> QED
    BY <1>1, <2>1
<1>3. ASSUME NEW n \in 4..(4 * clocks + 3)
      PROVE  w[n] = XorWord(w[n - 4], IF n % 4 = 0 THEN RoundWord(w[n - 1], n \div 4, FirstByte)
                                                   ELSE w[n - 1])
  <2> DEFINE q == n \div 4
             s == n % 4
             old == RoundKeys[q]
             new == RoundKeys[q + 1]
  <2>1. /\ q \in 1..10 /\ q <= clocks /\ s \in 0..3 /\ n = 4 * q + s
    BY <1>0
  <2>2. /\ old \in Key128
        /\ new = KeyExpansionOne(old, subword[q], StageRcon[q])
    BY <1>0, <2>1, Stages10 DEF Stages
  <2>3. subword[q] = SubWord(old)
    BY <1>0, <2>1 DEF Settled, Stages
  <2> HIDE DEF q, s
  <2>4. /\ w[n] = new[1 + s] /\ w[n - 4] = old[1 + s]
        /\ s = 0 => w[n - 1] = old[4]
        /\ s > 0 => w[n - 1] = new[s]
    <3>1. n \in 0..43 /\ n - 4 \in 0..43 /\ n - 1 \in 0..43
      BY <1>0
    <3>2. /\ 1 + (n \div 4) = q + 1 /\ 1 + (n % 4) = 1 + s
          /\ 1 + ((n - 4) \div 4) = q /\ 1 + ((n - 4) % 4) = 1 + s
      BY <2>1
    <3>3. /\ s = 0 => 1 + ((n - 1) \div 4) = q /\ 1 + ((n - 1) % 4) = 4
          /\ s > 0 => 1 + ((n - 1) \div 4) = q + 1 /\ 1 + ((n - 1) % 4) = s
      BY <2>1
    <3> QED
      BY <1>1, <3>1, <3>2, <3>3
  <2> HIDE DEF old, new
  <2>5. /\ new[1] = XorWord(old[1], RoundWord(old[4], q, FirstByte))
        /\ new[2] = XorWord(old[2], new[1])
        /\ new[3] = XorWord(old[3], new[2])
        /\ new[4] = XorWord(old[4], new[3])
    BY <2>1, <2>2, <2>3, StageFollows DEF Stages
  <2>6. CASE s = 0
    BY <2>4, <2>5, <2>6 DEF q, s
  <2>7. CASE s = 1
    BY <2>4, <2>5, <2>7 DEF s
  <2>8. CASE s = 2
    BY <2>4, <2>5, <2>8 DEF s
  <2>9. CASE s = 3
    BY <2>4, <2>5, <2>9 DEF s
  <2> QED
    BY <2>1, <2>6, <2>7, <2>8, <2>9
<1> QED
  BY <1>2, <1>3 DEF KeySettles, IsKeySchedule, w

\* The schedule of KeyExpansion.sv is the standard's as deep as clocks have passed
\* since its key was applied, for every set of keys.
THEOREM KeysSettle == KeySpec => []KeySettles
<1>1. KeyInv /\ [KeyNext]_keyVars => KeyInv'
  BY NegEdgeKeeps, ApplyKeyKeeps, StutterKeeps DEF KeyNext
<1> QED
  BY InitKey, <1>1, SettledFollow, PTL DEF KeySpec

-----------------------------------------------------------------------------
(* The display *)

\* The four words that the key is stored in.
KeyWords == 0..3

\* The program's place bounds its loop index.
Looping ==
  /\ i \in Nat
  /\ pc = "assign" => i < 12
  /\ pc \in {"storeKey", "rewrite"} => i < 4
  /\ pc \notin {"assign", "storeKey", "rewrite"} => i = 0

\* The registers follow the program: zeros until the first key, then the words of
\* the key, from the end of the loop that stores them to the next.
Stored ==
  /\ regs = [a \in 0..15 |-> regs[a]]
  /\ pc \in {"assign", "mode"} => keys = None
  /\ pc \notin {"assign", "mode", "message", "key", "packKey"} => keys # None
  /\ keys = None => \A n \in KeyWords : regs[n] = Zero
  /\ keys # None /\ pc \notin {"packKey", "storeKey"} =>
       \A n \in KeyWords : regs[n] = keys[n + 1]
  /\ pc = "storeKey" => \A n \in KeyWords : n < i => regs[n] = keys[n + 1]

\* The words are those of the key typed last.
Packed == keys # None /\ pc # "packKey" => keys = PackWords(key_ascii)

\* The display has caught up with the registers.
CaughtUp ==
  pc \in {"mode", "message", "key", "done"} \/ (pc = "assign" /\ i > 0) =>
    EXPORT_DATA = ExportOf(regs)

IInv == Looping /\ Stored /\ Packed /\ CaughtUp

\* Packing yields words.
LEMMA PackNotNone == \A ascii : PackWords(ascii) # None
<1>1. ASSUME NEW ascii PROVE PackWords(ascii) # None
  <2>1. DOMAIN PackWords(ascii) = 1..4
    BY DEF PackWords
  <2>2. DOMAIN None = {}
    BY DEF None
  <2>. QED
    BY <2>1, <2>2
<1>. QED
  BY <1>1

\* A store into one register.
LEMMA AfterStore ==
  ASSUME Stored, NEW a \in 0..15, NEW word, AvalonWrite(a, word)
  PROVE  /\ regs' = [x \in 0..15 |-> regs'[x]]
         /\ \A n \in KeyWords : regs'[n] = IF n = a THEN word ELSE regs[n]
         /\ EXPORT_DATA' = ExportOf(regs)
<1>1. DOMAIN regs = 0..15
  BY DEF Stored
<1>2. regs' = [regs EXCEPT ![a] = word] /\ EXPORT_DATA' = ExportOf(regs)
  BY DEF AvalonWrite
<1>3. regs' = [x \in 0..15 |-> IF x = a THEN word ELSE regs[x]]
  BY <1>1, <1>2
<1>4. regs' = [x \in 0..15 |-> regs'[x]]
  BY <1>3
<1>5. \A n \in KeyWords : regs'[n] = IF n = a THEN word ELSE regs[n]
  BY <1>3 DEF KeyWords
<1>. QED
  BY <1>2, <1>4, <1>5

\* After power-up the loop of main.c:293 has not begun.
LEMMA InitIInv == Init => IInv
BY DEF Init, IInv, Looping, Stored, Packed, CaughtUp, KeyWords, None

\* KEY[0] clears the registers and restarts the program; the display follows.
LEMMA ResetKeeps == IInv /\ Reset => IInv'
BY DEF Reset, Restart, IInv, Looping, Stored, Packed, CaughtUp, KeyWords

\* Steps that leave the key and the registers alone.
Inside == {"copyKey", "expand", "packMessage", "add", "sub", "shift", "mix", "reverse",
           "return", "rewrite", "done"}
LEMMA QuietKeeps ==
  ASSUME IInv, NoAvalon, UNCHANGED <<keys, key_ascii, i>>,
         \/ pc \in Inside \ {"rewrite"} /\ pc' \in Inside
         \/ pc \in {"mode", "message"} /\ pc' \in {"message", "key"}
  PROVE  IInv'
<1>1. i = 0 /\ i' = 0 /\ regs' = regs /\ keys' = keys /\ EXPORT_DATA' = ExportOf(regs')
  BY DEF IInv, Looping, Inside, NoAvalon
<1>2. Looping'
  BY <1>1 DEF Looping, Inside
<1>3. Stored' /\ Packed' /\ CaughtUp'
  BY <1>1 DEF IInv, Stored, Packed, CaughtUp, Inside
<1>. QED
  BY <1>2, <1>3 DEF IInv

\* Steps to the packing of a key: the old words may still be in the registers.
LEMMA GivenKeeps ==
  ASSUME IInv, NoAvalon, UNCHANGED <<keys, i>>, pc \in {"mode", "key", "return"},
         pc' = "packKey"
  PROVE  IInv'
<1>1. i = 0 /\ i' = 0 /\ regs' = regs /\ keys' = keys
  BY DEF IInv, Looping, NoAvalon
<1>. QED
  BY <1>1 DEF IInv, Looping, Stored, Packed, CaughtUp

\* The loop of main.c:293 clears what the reset has cleared.
LEMMA AssignKeeps == IInv /\ Assign => IInv'
<1>. SUFFICES ASSUME IInv, Assign PROVE IInv'
  OBVIOUS
<1>1. pc = "assign" /\ AvalonWrite(i, Zero) /\ i \in 0..15 /\ keys = None /\ keys' = None
  BY DEF Assign, StoreLoop, programVars, IInv, Looping, Stored
<1>2. Looping' /\ pc' \in {"assign", "mode"}
  BY <1>1 DEF Assign, StoreLoop, IInv, Looping
<1>3. \A n \in KeyWords : regs[n] = Zero /\ regs'[n] = Zero
  BY <1>1, AfterStore DEF IInv, Stored
<1>4. Stored' /\ Packed'
  BY <1>1, <1>2, <1>3, AfterStore DEF IInv, Stored, Packed
<1>5. EXPORT_DATA' = ExportOf(regs')
  BY <1>1, <1>3, AfterStore DEF IInv, ExportOf, KeyWords
<1>. QED
  BY <1>2, <1>4, <1>5 DEF IInv, CaughtUp

\* main.c:96-106: the words of the new key, made from what was typed.
LEMMA PackKeyKeeps == IInv /\ PackKey => IInv'
<1>. SUFFICES ASSUME IInv, PackKey PROVE IInv'
  OBVIOUS
<1>1. /\ pc = "packKey" /\ pc' = "storeKey" /\ i = 0 /\ i' = 0 /\ regs' = regs
      /\ keys' = PackWords(key_ascii) /\ key_ascii' = key_ascii
  BY DEF PackKey, NoAvalon, IInv, Looping
<1>2. keys' # None
  BY <1>1, PackNotNone
<1>. QED
  BY <1>1, <1>2 DEF IInv, Looping, Stored, Packed, CaughtUp, KeyWords

\* main.c:108-110: the loop that stores them; until it ends the display may show both keys.
LEMMA StoreKeyKeeps == IInv /\ StoreKey => IInv'
<1>. SUFFICES ASSUME IInv, StoreKey PROVE IInv'
  OBVIOUS
<1>1. /\ pc = "storeKey" /\ AvalonWrite(i, keys[i + 1]) /\ i \in 0..3 /\ keys # None
      /\ keys' = keys /\ key_ascii' = key_ascii
  BY DEF StoreKey, StoreLoop, programVars, IInv, Looping, Stored
<1>2. \/ i < 3 /\ i' = i + 1 /\ pc' = "storeKey"
      \/ i = 3 /\ i' = 0 /\ pc' = "copyKey"
  BY <1>1 DEF StoreKey, StoreLoop
<1>3. \A n \in KeyWords : regs'[n] = IF n = i THEN keys[i + 1] ELSE regs[n]
  BY <1>1, AfterStore DEF IInv
<1>4. \A n \in KeyWords : n <= i => regs'[n] = keys[n + 1]
  BY <1>1, <1>3 DEF IInv, Stored, KeyWords
<1>5. regs' = [a \in 0..15 |-> regs'[a]]
  BY <1>1, AfterStore DEF IInv
<1>6. Looping' /\ Packed' /\ CaughtUp'
  BY <1>1, <1>2 DEF IInv, Looping, Packed, CaughtUp
<1>7. Stored'
  BY <1>1, <1>2, <1>4, <1>5 DEF Stored, KeyWords
<1>. QED
  BY <1>6, <1>7 DEF IInv

\* main.c:330-332: the words again, each over itself.
LEMMA RewriteKeyKeeps == IInv /\ RewriteKey => IInv'
<1>. SUFFICES ASSUME IInv, RewriteKey PROVE IInv'
  OBVIOUS
<1>1. /\ pc = "rewrite" /\ AvalonWrite(i, keys[i + 1]) /\ i \in 0..3 /\ keys # None
      /\ keys' = keys /\ key_ascii' = key_ascii
  BY DEF RewriteKey, StoreLoop, programVars, IInv, Looping, Stored
<1>2. \/ i < 3 /\ i' = i + 1 /\ pc' = "rewrite"
      \/ i = 3 /\ i' = 0 /\ pc' = "message"
  BY <1>1 DEF RewriteKey, StoreLoop
<1>3. \A n \in KeyWords : regs'[n] = regs[n] /\ regs[n] = keys[n + 1]
  <2>1. \A n \in KeyWords : regs[n] = keys[n + 1]
    BY <1>1 DEF IInv, Stored
  <2>2. \A n \in KeyWords : regs'[n] = IF n = i THEN keys[i + 1] ELSE regs[n]
    BY <1>1, AfterStore DEF IInv
  <2>. QED
    BY <2>1, <2>2
<1>4. regs' = [a \in 0..15 |-> regs'[a]]
  BY <1>1, AfterStore DEF IInv
<1>5. EXPORT_DATA' = ExportOf(regs')
  BY <1>1, <1>3, AfterStore DEF IInv, ExportOf, KeyWords
<1>6. Looping' /\ Packed' /\ CaughtUp'
  BY <1>1, <1>2, <1>5 DEF IInv, Looping, Packed, CaughtUp
<1>7. Stored'
  BY <1>1, <1>2, <1>3, <1>4 DEF Stored
<1>. QED
  BY <1>6, <1>7 DEF IInv

\* The invariant is inductive.
LEMMA NextIInv == IInv /\ [Next]_labVars => IInv'
<1>. SUFFICES ASSUME IInv, [Next]_labVars PROVE IInv'
  OBVIOUS
<1>1. CASE SelectTesting \/ EnterMessage
  BY <1>1, QuietKeeps DEF SelectTesting, EnterMessage
<1>2. CASE SelectBenchmark \/ EnterKey
  BY <1>2, GivenKeeps DEF SelectBenchmark, EnterKey
<1>3. CASE CopyKey \/ ExpandRound
  BY <1>3, QuietKeeps DEF CopyKey, ExpandRound, Inside
<1>4. CASE PackMessage \/ AddKey \/ Sub
  BY <1>4, QuietKeeps DEF PackMessage, AddKey, Sub, Compute, Inside
<1>5. CASE Shift \/ Mix \/ TurnWords
  BY <1>5, QuietKeeps DEF Shift, Mix, TurnWords, Compute, Inside
<1>6. CASE PrintResult
  BY <1>6, QuietKeeps DEF PrintResult, programVars, Inside
<1>7. CASE Repeat
  BY <1>7, QuietKeeps, GivenKeeps DEF Repeat, Inside
<1>8. CASE UNCHANGED labVars
  BY <1>8 DEF labVars, programVars, IInv, Looping, Stored, Packed, CaughtUp
<1>. QED
  BY <1>1, <1>2, <1>3, <1>4, <1>5, <1>6, <1>7, <1>8, ResetKeeps, AssignKeeps, PackKeyKeeps,
     StoreKeyKeeps, RewriteKeyKeeps DEF Next, Encrypt

\* The inductive invariant of the program and its peripheral.
THEOREM Invariant == Spec => []IInv
BY InitIInv, NextIInv, PTL DEF Spec

\* The display shows the bytes that the program has made of the key it holds, for
\* every key the user types, digits or not (main.c:293, 108, 330).
DisplayFollows ==
  pc \in {"mode", "message", "key", "done"} =>
    EXPORT_DATA = IF keys = None THEN Zero
                  ELSE LET k == PackWords(key_ascii) IN <<k[1][4], k[1][3], k[4][2], k[4][1]>>
THEOREM DisplayFollowsKey == Spec => []DisplayFollows
<1>1. IInv => DisplayFollows
  <2>. SUFFICES ASSUME IInv, pc \in {"mode", "message", "key", "done"}
       PROVE  EXPORT_DATA = IF keys = None THEN Zero
                            ELSE LET k == PackWords(key_ascii)
                                 IN  <<k[1][4], k[1][3], k[4][2], k[4][1]>>
    BY DEF DisplayFollows
  <2>1. EXPORT_DATA = <<regs[0][4], regs[0][3], regs[3][2], regs[3][1]>>
    BY DEF IInv, CaughtUp, ExportOf
  <2>2. CASE keys = None
    <3>1. regs[0] = Zero /\ regs[3] = Zero
      BY <2>2 DEF IInv, Stored, KeyWords
    <3>. QED
      BY <2>1, <2>2, <3>1 DEF Zero
  <2>3. CASE keys # None
    <3>1. regs[0] = PackWords(key_ascii)[1] /\ regs[3] = PackWords(key_ascii)[4]
      BY <2>3 DEF IInv, Stored, Packed, KeyWords
    <3>. QED
      BY <2>1, <2>3, <3>1, Zenon
  <2>. QED
    BY <2>2, <2>3
<1>. QED
  BY <1>1, Invariant, PTL

-----------------------------------------------------------------------------
(* What the user typed *)

\* The program asks for digits ("Inputs must be 0-9, A-F, or a-f", main.c:71) and
\* checks no character; only keys and messages of digits have a value.
IsDigit(c) == \E d \in 0..15 : c \in HexDigit(d)
Digits(ascii) == \A n \in 0..31 : IsDigit(ascii[n])
DigitKeys == \A ascii \in CipherKeys : Digits(ascii)
DigitMessages == \A ascii \in Messages : Digits(ascii)

\* What is typed, of digits or not, are characters (Lab9Assumption).
Characters == [0..31 -> 0..127]
LEMMA NoneNoCharacters == None \notin Characters
<1>1. DOMAIN None = {} /\ 0 \in 0..31
  BY DEF None
<1>. QED
  BY <1>1 DEF Characters

\* charToHex gives the value of a digit (main.c:50-66).
LEMMA DigitValue ==
  ASSUME NEW c, IsDigit(c)
  PROVE  charToHex(c) \in 0..15 /\ charToHex(c) = (CHOOSE d \in 0..15 : c \in HexDigit(d))
<1>1. PICK e \in 0..15 : c \in HexDigit(e)
  BY DEF IsDigit
<1>2. c \in HexDigit(e) => charToHex(c) = e
  BY DEF HexDigit, charToHex
<1>3. ASSUME NEW d \in 0..15, c \in HexDigit(d) PROVE d = e
  BY <1>1, <1>3 DEF HexDigit
<1>4. (CHOOSE d \in 0..15 : c \in HexDigit(d)) = e
  BY <1>1, <1>3
<1>. QED
  BY <1>1, <1>2, <1>4

\* Two digits are a byte.
LEMMA TypedByteIs ==
  ASSUME NEW ascii, Digits(ascii), NEW n \in 0..15
  PROVE  charsToHex(ascii[2 * n], ascii[2 * n + 1]) = TypedByte(ascii, n)
<1>1. IsDigit(ascii[2 * n]) /\ IsDigit(ascii[2 * n + 1])
  <2>1. 2 * n \in 0..31 /\ 2 * n + 1 \in 0..31
    OBVIOUS
  <2>. QED
    BY <2>1 DEF Digits
<1> DEFINE a == charToHex(ascii[2 * n])  b == charToHex(ascii[2 * n + 1])
<1>2. a \in 0..15 /\ b \in 0..15
  BY <1>1, DigitValue
<1>3. TypedByte(ascii, n) = 16 * a + b
  <2>1. TypedByte(ascii, n) =
          16 * (CHOOSE d \in 0..15 : ascii[2 * n] \in HexDigit(d))
          + (CHOOSE d \in 0..15 : ascii[2 * n + 1] \in HexDigit(d))
    BY DEF TypedByte
  <2>2. /\ a = (CHOOSE d \in 0..15 : ascii[2 * n] \in HexDigit(d))
        /\ b = (CHOOSE d \in 0..15 : ascii[2 * n + 1] \in HexDigit(d))
    BY <1>1, DigitValue
  <2>. HIDE DEF a, b
  <2>. QED
    BY <2>1, <2>2, Zenon
<1>4. charsToHex(ascii[2 * n], ascii[2 * n + 1]) = (16 * a + b) % 256
  BY DEF charsToHex
<1>. HIDE DEF a, b
<1>5. (16 * a + b) % 256 = 16 * a + b
  BY <1>2
<1>. QED
  BY <1>3, <1>4, <1>5

\* The words packed are those typed.
LEMMA PackedIsTyped ==
  ASSUME NEW ascii, Digits(ascii), ascii # None
  PROVE  PackWords(ascii) = TypedWords(ascii)
<1>1. ASSUME NEW c \in 1..4 PROVE PackWords(ascii)[c] = TypedWords(ascii)[c]
  <2> DEFINE at(n) == charsToHex(ascii[2 * n], ascii[2 * n + 1])
  <2>1. PackWords(ascii)[c] = <<at(4 * c - 4), at(4 * c - 3), at(4 * c - 2), at(4 * c - 1)>>
    BY DEF PackWords
  <2>2. TypedWords(ascii)[c] = [k \in 1..4 |-> TypedByte(ascii, 4 * c + k - 5)]
    BY DEF TypedWords
  <2>3. \A k \in 1..4 : /\ 4 * c + k - 5 \in 0..15
                        /\ at(4 * c + k - 5) = TypedByte(ascii, 4 * c + k - 5)
    BY TypedByteIs
  <2>. HIDE DEF at
  <2>4. [k \in 1..4 |-> TypedByte(ascii, 4 * c + k - 5)] = [k \in 1..4 |-> at(4 * c + k - 5)]
    BY <2>3
  <2>5. [k \in 1..4 |-> at(4 * c + k - 5)]
          = <<at(4 * c - 4), at(4 * c - 3), at(4 * c - 2), at(4 * c - 1)>>
    OBVIOUS
  <2>. QED
    BY <2>1, <2>2, <2>4, <2>5
<1>2. /\ PackWords(ascii) = [c \in 1..4 |-> PackWords(ascii)[c]]
      /\ TypedWords(ascii) = [c \in 1..4 |-> TypedWords(ascii)[c]]
  BY DEF PackWords, TypedWords
<1>. QED
  BY <1>1, <1>2

\* The key in use is one of the user's, or the benchmark's thirty-two times b.
DigitsTyped == key_ascii = None \/ Digits(key_ascii)
\* Keys of digits stay keys of digits; the benchmark's is one.
LEMMA KeyDigits == ASSUME DigitKeys PROVE Spec => []DigitsTyped
<1>1. Init => DigitsTyped
  BY DEF Init, DigitsTyped
<1>2. DigitsTyped /\ [Next]_labVars => DigitsTyped'
  <2>. SUFFICES ASSUME DigitsTyped, [Next]_labVars PROVE DigitsTyped'
    OBVIOUS
  <2>1. CASE key_ascii' \in CipherKeys
    BY <2>1, DigitKeys DEF DigitKeys, DigitsTyped
  <2>2. CASE key_ascii' = [n \in 0..31 |-> 98]
    <3>1. 98 \in HexDigit(11)
      BY DEF HexDigit
    <3>2. IsDigit(98)
      BY <3>1 DEF IsDigit
    <3>. QED
      BY <2>2, <3>2 DEF DigitsTyped, Digits
  <2>3. CASE key_ascii' = None
    BY <2>3 DEF DigitsTyped
  <2>4. CASE key_ascii' = key_ascii
    BY <2>4 DEF DigitsTyped, Digits
  <2>. QED
    BY <2>1, <2>2, <2>3, <2>4
    DEF Next, Reset, Restart, Assign, SelectTesting, SelectBenchmark, EnterMessage, EnterKey,
        Encrypt, PackKey, StoreKey, CopyKey, ExpandRound, PackMessage, AddKey, Sub, Shift, Mix,
        TurnWords, Compute, PrintResult, RewriteKey, Repeat, StoreLoop, programVars, labVars
<1>. QED
  BY <1>1, <1>2, PTL DEF Spec

\* A message is one of the user's, or the benchmark's thirty-two times a.
MessageDigitsTyped == msg_ascii = None \/ Digits(msg_ascii)
\* Messages of digits stay messages of digits; the benchmark's is one.
LEMMA MessageDigits == ASSUME DigitMessages PROVE Spec => []MessageDigitsTyped
<1>1. Init => MessageDigitsTyped
  BY DEF Init, MessageDigitsTyped
<1>2. MessageDigitsTyped /\ [Next]_labVars => MessageDigitsTyped'
  <2>. SUFFICES ASSUME MessageDigitsTyped, [Next]_labVars PROVE MessageDigitsTyped'
    OBVIOUS
  <2>1. CASE msg_ascii' \in Messages
    BY <2>1, DigitMessages DEF DigitMessages, MessageDigitsTyped
  <2>2. CASE msg_ascii' = [n \in 0..31 |-> 97]
    <3>1. 97 \in HexDigit(10)
      BY DEF HexDigit
    <3>2. IsDigit(97)
      BY <3>1 DEF IsDigit
    <3>. QED
      BY <2>2, <3>2 DEF MessageDigitsTyped, Digits
  <2>3. CASE msg_ascii' = None
    BY <2>3 DEF MessageDigitsTyped
  <2>4. CASE msg_ascii' = msg_ascii
    BY <2>4 DEF MessageDigitsTyped, Digits
  <2>. QED
    BY <2>1, <2>2, <2>3, <2>4
    DEF Next, Reset, Restart, Assign, SelectTesting, SelectBenchmark, EnterMessage, EnterKey,
        Encrypt, PackKey, StoreKey, CopyKey, ExpandRound, PackMessage, AddKey, Sub, Shift, Mix,
        TurnWords, Compute, PrintResult, RewriteKey, Repeat, StoreLoop, programVars, labVars
<1>. QED
  BY <1>1, <1>2, PTL DEF Spec

\* Keys are characters, whether or not they are of digits.
KeyGiven == key_ascii = None \/ key_ascii \in Characters
LEMMA KeyCharacters == Spec => []KeyGiven
<1>1. Init => KeyGiven
  BY DEF Init, KeyGiven
<1>2. KeyGiven /\ [Next]_labVars => KeyGiven'
  <2>. SUFFICES ASSUME KeyGiven, [Next]_labVars PROVE KeyGiven'
    OBVIOUS
  <2>1. CASE key_ascii' \in CipherKeys
    BY <2>1, Lab9Assumption DEF KeyGiven, Characters
  <2>2. CASE key_ascii' = [n \in 0..31 |-> 98]
    BY <2>2 DEF KeyGiven, Characters
  <2>3. CASE key_ascii' = None \/ key_ascii' = key_ascii
    BY <2>3 DEF KeyGiven
  <2>. QED
    BY <2>1, <2>2, <2>3
    DEF Next, Reset, Restart, Assign, SelectTesting, SelectBenchmark, EnterMessage, EnterKey,
        Encrypt, PackKey, StoreKey, CopyKey, ExpandRound, PackMessage, AddKey, Sub, Shift, Mix,
        TurnWords, Compute, PrintResult, RewriteKey, Repeat, StoreLoop, programVars, labVars
<1>. QED
  BY <1>1, <1>2, PTL DEF Spec

\* Whatever is packed was typed.
Typed == keys # None \/ pc = "packKey" => key_ascii # None
\* main.c:308-349: a key is packed after it was typed.
LEMMA KeyTyped == Spec => []Typed
<1>1. Init => Typed
  BY DEF Init, Typed
<1>2. IInv /\ Typed /\ [Next]_labVars => Typed'
  <2>. SUFFICES ASSUME IInv, Typed, [Next]_labVars PROVE Typed'
    OBVIOUS
  <2>1. CASE EnterKey
    <3>1. None \notin CipherKeys
      <4>1. None \notin [0..31 -> 0..127]
        <5>1. DOMAIN None = {} /\ 0 \in 0..31
          BY DEF None
        <5>. QED
          BY <5>1
      <4>. QED
        BY <4>1, Lab9Assumption
    <3>. QED
      BY <2>1, <3>1 DEF EnterKey, Typed
  <2>2. CASE SelectBenchmark
    <3>1. [n \in 0..31 |-> 98] # None
      <4>1. DOMAIN [n \in 0..31 |-> 98] = 0..31 /\ DOMAIN None = {} /\ 0 \in 0..31
        BY DEF None
      <4>. QED
        BY <4>1
    <3>. QED
      BY <2>2, <3>1 DEF SelectBenchmark, Typed
  <2>3. CASE Reset
    BY <2>3 DEF Reset, Restart, Typed
  <2>4. CASE Repeat
    BY <2>4 DEF Repeat, Typed, IInv, Stored
  <2>5. CASE PackKey
    BY <2>5 DEF PackKey, Typed
  <2>6. CASE UNCHANGED labVars
    BY <2>6 DEF labVars, programVars, Typed
  <2>7. ASSUME UNCHANGED <<keys, key_ascii>>, pc' # "packKey" PROVE Typed'
    BY <2>7 DEF Typed
  <2>. QED
    BY <2>1, <2>2, <2>3, <2>4, <2>5, <2>6, <2>7
    DEF Next, Assign, SelectTesting, EnterMessage, Encrypt, StoreKey, CopyKey, ExpandRound,
        PackMessage, AddKey, Sub, Shift, Mix, TurnWords, Compute, PrintResult, RewriteKey,
        StoreLoop, programVars
<1>. QED
  BY <1>1, <1>2, Invariant, PTL DEF Spec

\* For keys of digits the display shows the bytes that were typed, high byte first
\* (main.c:293, 108, 330; avalon_aes_interface.sv:45-66).
THEOREM DisplayShowsTyped == ASSUME DigitKeys PROVE Spec => []DisplayShows
<1>1. Typed /\ DisplayFollows /\ DigitsTyped => DisplayShows
  <2>. SUFFICES ASSUME Typed, DisplayFollows, DigitsTyped, keys # None,
                       pc \in {"mode", "message", "key", "done"}
       PROVE  PackWords(key_ascii) = TypedWords(key_ascii)
    BY Zenon DEF DisplayFollows, DisplayShows
  <2>1. key_ascii # None
    BY DEF Typed
  <2>. QED
    BY <2>1, PackedIsTyped DEF DigitsTyped
<1>. QED
  BY <1>1, KeyTyped, DisplayFollowsKey, KeyDigits, PTL

-----------------------------------------------------------------------------
(* Bytes under exclusive or, and the tables *)

\* Exclusive or of nibbles commutes, and 0 is neutral.
LEMMA XorNibbles ==
  \A x, y \in Nibble : XorNibble[x][y] = XorNibble[y][x] /\ XorNibble[x][0] = x
<1>1. ASSUME NEW x \in Nibble, NEW y \in Nibble PROVE XorNibble[x][y] = XorNibble[y][x]
  BY DEF XorNibble, Nibble
<1>2. ASSUME NEW x \in 0..15 PROVE XorNibble[x][0] = x
  <2>1. XorNibble[x][0] =
          LET D(k) == IF (x \div k) % 2 = (0 \div k) % 2 THEN 0 ELSE k
          IN  D(1) + D(2) + D(4) + D(8)
    BY DEF XorNibble, Nibble
  <2>. QED
    BY <2>1
<1>. QED
  BY <1>1, <1>2 DEF Nibble

\* And so of bytes.
LEMMA XorCommutes == \A a, b \in Byte : Xor(a, b) = Xor(b, a)
<1>. SUFFICES ASSUME NEW a \in Byte, NEW b \in Byte PROVE Xor(a, b) = Xor(b, a)
  OBVIOUS
<1>1. /\ a \div 16 \in Nibble /\ a % 16 \in Nibble
      /\ b \div 16 \in Nibble /\ b % 16 \in Nibble
  BY DEF Byte, Nibble
<1>. QED
  BY <1>1, XorNibbles DEF Xor

\* Adding no constant leaves a byte as it is.
LEMMA XorZero == \A b \in Byte : Xor(b, 0) = b
<1>. SUFFICES ASSUME NEW b \in Byte PROVE Xor(b, 0) = b
  OBVIOUS
<1>1. /\ b \div 16 \in Nibble /\ b % 16 \in Nibble /\ 0 \div 16 = 0 /\ 0 % 16 = 0
      /\ 16 * (b \div 16) + (b % 16) = b
  BY DEF Byte, Nibble
<1>2. Xor(b, 0) = 16 * (b \div 16) + (b % 16)
  BY <1>1, XorNibbles DEF Xor
<1>. QED
  BY <1>1, <1>2

\* The standard's words are sums of the same bytes.
LEMMA SameXor ==
  /\ AES!Byte = Byte
  /\ \A a, b : AES!Xor(a, b) = Xor(a, b)
  /\ \A v, u : AES!XorWord(v, u) = XorWord(v, u)
  /\ \A a, b, c, d : AES!Xor4(a, b, c, d) = Xor4(a, b, c, d)
<1>1. AES!Byte = Byte
  BY DEF AES!Byte, Byte
<1>2. AES!XorNibble = XorNibble
  BY DEF AES!XorNibble, XorNibble, AES!Nibble, Nibble
<1>3. \A a, b : AES!Xor(a, b) = Xor(a, b)
  BY <1>2, Zenon DEF AES!Xor, Xor
<1>4. \A v, u : AES!XorWord(v, u) = XorWord(v, u)
  BY <1>3, Zenon DEF AES!XorWord, XorWord
<1>5. \A a, b, c, d : AES!Xor4(a, b, c, d) = Xor4(a, b, c, d)
  BY <1>3, Zenon DEF AES!Xor4, Xor4
<1>. QED
  BY <1>1, <1>3, <1>4, <1>5

\* The tables of aes.h hold bytes.
LEMMA SBoxType == \A b \in Byte : SBoxOf(b) \in Byte
<1>1. \A n \in 1..256 : aes_sbox[n] \in 0..255
  BY SMTT(120) DEF aes_sbox
<1>2. ASSUME NEW b \in Byte PROVE SBoxOf(b) \in Byte
  <2>1. b + 1 \in 1..256
    BY DEF Byte
  <2>2. aes_sbox[b + 1] \in 0..255
    BY <1>1, <2>1, Zenon
  <2>. QED
    BY <2>2, Zenon DEF SBoxOf, Byte
<1>. QED
  BY <1>2

\* The columns for 2 and 3 hold bytes, too.
LEMMA GfMulType == \A b \in Byte : GfMul(b, 0) \in Byte /\ GfMul(b, 1) \in Byte
<1>1. \A n \in 1..256 : gf_mul[1][n] \in 0..255
  BY SMTT(120) DEF gf_mul
<1>2. \A n \in 1..256 : gf_mul[2][n] \in 0..255
  BY SMTT(120) DEF gf_mul
<1>3. ASSUME NEW b \in Byte PROVE GfMul(b, 0) \in Byte /\ GfMul(b, 1) \in Byte
  <2>1. b + 1 \in 1..256 /\ 0 + 1 = 1 /\ 1 + 1 = 2
    BY DEF Byte
  <2>2. GfMul(b, 0) = gf_mul[1][b + 1] /\ GfMul(b, 1) = gf_mul[2][b + 1]
    BY <2>1, Zenon DEF GfMul
  <2>3. gf_mul[1][b + 1] \in 0..255 /\ gf_mul[2][b + 1] \in 0..255
    BY <1>1, <1>2, <2>1, Zenon
  <2>. QED
    BY <2>2, <2>3, Zenon DEF Byte
<1>. QED
  BY <1>3

\* The words that main.c:96-106 packs are words of bytes, of digits or not.
LEMMA PackType ==
  ASSUME NEW ascii \in Characters
  PROVE  PackWords(ascii) \in [1..4 -> Word]
<1> DEFINE at(n) == charsToHex(ascii[2 * n], ascii[2 * n + 1])
<1>1. \A n \in 0..15 : at(n) \in Byte
  <2>1. ASSUME NEW n \in 0..15 PROVE at(n) \in Byte
    <3>1. ascii[2 * n] \in 0..127 /\ ascii[2 * n + 1] \in 0..127
      <4>1. 2 * n \in 0..31 /\ 2 * n + 1 \in 0..31
        OBVIOUS
      <4>. QED
        BY <4>1 DEF Characters
    <3> DEFINE a == charToHex(ascii[2 * n])  b == charToHex(ascii[2 * n + 1])
    <3>2. \A x \in 0..127 : charToHex(x) \in Int
      BY DEF charToHex
    <3>3. a \in Int /\ b \in Int /\ at(n) = (16 * a + b) % 256
      BY <3>1, <3>2 DEF charsToHex
    <3>. HIDE DEF a, b, at
    <3>. QED
      BY <3>3 DEF Byte
  <2>. QED
    BY <2>1
<1>2. ASSUME NEW c \in 1..4 PROVE PackWords(ascii)[c] \in Word
  <2>1. PackWords(ascii)[c] = <<at(4 * c - 4), at(4 * c - 3), at(4 * c - 2), at(4 * c - 1)>>
    BY DEF PackWords
  <2>2. /\ 4 * c - 4 \in 0..15 /\ 4 * c - 3 \in 0..15
        /\ 4 * c - 2 \in 0..15 /\ 4 * c - 1 \in 0..15
    OBVIOUS
  <2>. HIDE DEF at
  <2>3. /\ at(4 * c - 4) \in Byte /\ at(4 * c - 3) \in Byte
        /\ at(4 * c - 2) \in Byte /\ at(4 * c - 1) \in Byte
    BY <1>1, <2>2
  <2>. QED
    BY <2>1, <2>3 DEF Word
<1>3. PackWords(ascii) = [c \in 1..4 |-> PackWords(ascii)[c]]
  BY DEF PackWords
<1>. QED
  BY <1>2, <1>3

\* In memory they are sixteen bytes (main.c:116-126).
LEMMA BlockType ==
  ASSUME NEW ascii \in Characters
  PROVE  InMemory(PackWords(ascii)) \in [0..15 -> Byte]
<1> DEFINE words == PackWords(ascii)
<1>1. words \in [1..4 -> Word]
  BY PackType
<1>2. \A j \in 0..15 : 1 + (j \div 4) \in 1..4 /\ 1 + (j % 4) \in 1..4
  OBVIOUS
<1>. HIDE DEF words
<1>3. \A j \in 0..15 : words[1 + (j \div 4)][1 + (j % 4)] \in Byte
  BY <1>1, <1>2 DEF Word
<1>4. InMemory(words) = [j \in 0..15 |-> words[1 + (j \div 4)][1 + (j % 4)]]
  BY DEF InMemory
<1>. QED
  BY <1>3, <1>4 DEF words

\* And the block that was typed, if they are of digits.
LEMMA BlockIsTyped ==
  ASSUME NEW ascii, Digits(ascii), ascii # None
  PROVE  InMemory(PackWords(ascii)) = TypedBlock(ascii)
<1> DEFINE words == PackWords(ascii)
<1>1. words = TypedWords(ascii)
  BY PackedIsTyped
<1>2. ASSUME NEW j \in 0..15
      PROVE  InMemory(words)[j] = TypedByte(ascii, j)
  <2>1. 1 + (j \div 4) \in 1..4 /\ 1 + (j % 4) \in 1..4
        /\ 4 * (1 + (j \div 4)) + (1 + (j % 4)) - 5 = j
    OBVIOUS
  <2>2. InMemory(words)[j] = words[1 + (j \div 4)][1 + (j % 4)]
    BY DEF InMemory
  <2>3. TypedWords(ascii) = [c \in 1..4 |-> [k \in 1..4 |-> TypedByte(ascii, 4 * c + k - 5)]]
    BY DEF TypedWords
  <2>4. words[1 + (j \div 4)][1 + (j % 4)]
          = TypedByte(ascii, 4 * (1 + (j \div 4)) + (1 + (j % 4)) - 5)
    BY <1>1, <2>1, <2>3
  <2>. QED
    BY <2>1, <2>2, <2>4
<1>3. InMemory(words) = [j \in 0..15 |-> InMemory(words)[j]]
  BY DEF InMemory
<1>4. TypedBlock(ascii) = [j \in 0..15 |-> TypedByte(ascii, j)]
  BY DEF TypedBlock
<1>. HIDE DEF words
<1>5. InMemory(words) = TypedBlock(ascii)
  BY <1>2, <1>3, <1>4
<1>. QED
  BY <1>5 DEF words

-----------------------------------------------------------------------------
(* The transformations of a round are the standard's *)

Block16 == [0..15 -> Byte]

\* The table over the block.
LEMMA SubIsSubstitute ==
  ASSUME NEW s \in Block16
  PROVE  stateSub(s) = AES!SubstituteBytes(s) /\ stateSub(s) \in Block16
<1>1. \A j \in 0..15 : SBoxOf(s[j]) = AES!SBox[s[j]] /\ SBoxOf(s[j]) \in Byte
  BY TablesAssumption, SBoxType DEF Block16
<1>2. stateSub(s) = [j \in 0..15 |-> SBoxOf(s[j])]
  BY DEF stateSub
<1>3. AES!SubstituteBytes(s) = [j \in 0..15 |-> AES!SBox[s[j]]]
  BY DEF AES!SubstituteBytes
<1>. QED
  BY <1>1, <1>2, <1>3 DEF Block16

\* Each row turns by its number.
LEMMA ShiftIsShift ==
  ASSUME NEW s \in Block16
  PROVE  rowShift(s) = AES!ShiftRows(s) /\ rowShift(s) \in Block16
<1>1. \A j \in 0..15 : /\ 4 * (((j \div 4) + (j % 4)) % 4) + (j % 4) = (j + 4 * (j % 4)) % 16
                       /\ (j + 4 * (j % 4)) % 16 \in 0..15
  OBVIOUS
<1>2. rowShift(s) = [j \in 0..15 |-> s[4 * (((j \div 4) + (j % 4)) % 4) + (j % 4)]]
  BY DEF rowShift
<1>3. AES!ShiftRows(s) = [j \in 0..15 |-> s[(j + 4 * (j % 4)) % 16]]
  BY DEF AES!ShiftRows
<1>4. rowShift(s) = AES!ShiftRows(s)
  BY <1>1, <1>2, <1>3
<1>5. AES!ShiftRows(s) \in Block16
  BY <1>1, <1>3 DEF Block16
<1>. QED
  BY <1>4, <1>5

\* Each column is multiplied with the standard's polynomial.
LEMMA MixIsMix ==
  ASSUME NEW s \in Block16
  PROVE  colMix(s) = AES!MixColumns(s) /\ colMix(s) \in Block16
<1>1. ASSUME NEW j \in 0..15
      PROVE  colMix(s)[j] = AES!MixColumns(s)[j] /\ colMix(s)[j] \in Byte
  <2> DEFINE column == [n \in 0..3 |-> s[4 * (j \div 4) + n]]
             a == column[((j % 4) + 0) % 4]  b == column[((j % 4) + 1) % 4]
             c == column[((j % 4) + 2) % 4]  d == column[((j % 4) + 3) % 4]
  <2>1. colMix(s)[j] = Xor4(GfMul(a, 0), GfMul(b, 1), c, d)
    BY DEF colMix, MixByte
  <2>2. AES!MixColumns(s)[j] =
          AES!Xor4(AES!Times(s[4 * (j \div 4) + ((j + 0) % 4)], 2),
                   AES!Times(s[4 * (j \div 4) + ((j + 1) % 4)], 3),
                   s[4 * (j \div 4) + ((j + 2) % 4)], s[4 * (j \div 4) + ((j + 3) % 4)])
    BY DEF AES!MixColumns
  <2>3. \A n \in 0..3 : /\ ((j % 4) + n) % 4 = (j + n) % 4 /\ (j + n) % 4 \in 0..3
                        /\ 4 * (j \div 4) + ((j + n) % 4) \in 0..15
    OBVIOUS
  <2>4. \A n \in 0..3 : /\ column[((j % 4) + n) % 4] = s[4 * (j \div 4) + ((j + n) % 4)]
                        /\ s[4 * (j \div 4) + ((j + n) % 4)] \in Byte
    BY <2>3 DEF Block16
  <2>5. /\ a = s[4 * (j \div 4) + ((j + 0) % 4)] /\ b = s[4 * (j \div 4) + ((j + 1) % 4)]
        /\ c = s[4 * (j \div 4) + ((j + 2) % 4)] /\ d = s[4 * (j \div 4) + ((j + 3) % 4)]
        /\ a \in Byte /\ b \in Byte /\ c \in Byte /\ d \in Byte
    BY <2>4
  <2>. HIDE DEF a, b, c, d, column
  <2>6. GfMul(a, 0) = AES!Times(a, 2) /\ GfMul(b, 1) = AES!Times(b, 3)
    BY <2>5, TablesAssumption
  <2>7. colMix(s)[j] = AES!MixColumns(s)[j]
    <3>1. AES!MixColumns(s)[j] = AES!Xor4(AES!Times(a, 2), AES!Times(b, 3), c, d)
      BY <2>2, <2>5, Zenon
    <3>2. colMix(s)[j] = Xor4(AES!Times(a, 2), AES!Times(b, 3), c, d)
      BY <2>1, <2>6, Zenon
    <3>. QED
      BY <3>1, <3>2, SameXor, Zenon
  <2>8. Xor4(GfMul(a, 0), GfMul(b, 1), c, d) \in Byte
    <3>1. GfMul(a, 0) \in Byte /\ GfMul(b, 1) \in Byte
      BY <2>5, GfMulType
    <3>2. Xor(GfMul(a, 0), GfMul(b, 1)) \in Byte /\ Xor(c, d) \in Byte
      BY <2>5, <3>1, XorByte
    <3>. QED
      BY <3>2, XorByte DEF Xor4
  <2>. QED
    BY <2>1, <2>7, <2>8
<1>2. /\ colMix(s) = [j \in 0..15 |-> colMix(s)[j]]
      /\ AES!MixColumns(s) = [j \in 0..15 |-> AES!MixColumns(s)[j]]
  BY DEF colMix, AES!MixColumns
<1>3. colMix(s) = AES!MixColumns(s)
  BY <1>1, <1>2
<1>4. colMix(s) \in Block16
  BY <1>1, <1>2 DEF Block16
<1>. QED
  BY <1>3, <1>4

\* The words of a round are added, in memory order.
LEMMA AddIsAdd ==
  ASSUME NEW s \in Block16, NEW n \in 0..10, NEW sched, \A m \in 0..43 : sched[m] \in Word
  PROVE  keyAdd(n, sched, s) = AES!AddRoundKey(s, sched, n) /\ keyAdd(n, sched, s) \in Block16
<1>1. \A j \in 0..15 : 4 * n + (j \div 4) \in 0..43 /\ 1 + (j % 4) \in 1..4
  OBVIOUS
<1>2. \A j \in 0..15 : s[j] \in Byte /\ sched[4 * n + (j \div 4)][1 + (j % 4)] \in Byte
  BY <1>1 DEF Block16, Word
<1>3. keyAdd(n, sched, s) = [j \in 0..15 |-> Xor(s[j], sched[4 * n + (j \div 4)][1 + (j % 4)])]
  BY DEF keyAdd
<1>4. AES!AddRoundKey(s, sched, n)
        = [j \in 0..15 |-> AES!Xor(s[j], sched[4 * n + (j \div 4)][1 + (j % 4)])]
  BY DEF AES!AddRoundKey
<1>5. keyAdd(n, sched, s) = AES!AddRoundKey(s, sched, n)
  BY <1>3, <1>4, SameXor, Zenon
<1>6. keyAdd(n, sched, s) \in Block16
  BY <1>2, <1>3, XorByte DEF Block16
<1>. QED
  BY <1>5, <1>6

-----------------------------------------------------------------------------
(* The key schedule of the software *)

\* The schedule up to round n, of words of bytes.
Expanded(n) ==
  /\ \A m \in 0..(4 * n + 3) : keySched[m] \in Word
  /\ AES!IsKeySchedule(keySched, keys, 4, n)

\* Words commute byte by byte.
LEMMA XorWordCommutes == \A v, u \in Word : XorWord(v, u) = XorWord(u, v)
BY XorCommutes DEF XorWord, Word

\* The first word of a round, with the constant in the last byte (main.c:197-203).
LEMMA FirstWord ==
  ASSUME NEW q \in 1..10, NEW before \in Word, NEW old \in Word
  PROVE  /\ XorWord(XorWord(byteSub(wordRotation(before)), Rcon(q)), old)
              = XorWord(old, AES!RoundWord(before, q, 4))
         /\ XorWord(old, AES!RoundWord(before, q, 4)) \in Word
<1> DEFINE b1 == SBoxOf(before[2])  b2 == SBoxOf(before[3])
           b3 == SBoxOf(before[4])  b4 == SBoxOf(before[1])
<1>1. before[1] \in Byte /\ before[2] \in Byte /\ before[3] \in Byte /\ before[4] \in Byte
  BY DEF Word
<1>2. b1 \in Byte /\ b2 \in Byte /\ b3 \in Byte /\ b4 \in Byte
  BY <1>1, SBoxType
<1>3. /\ AES!SBox[before[2]] = b1 /\ AES!SBox[before[3]] = b2
      /\ AES!SBox[before[4]] = b3 /\ AES!SBox[before[1]] = b4
  BY <1>1, TablesAssumption
<1>4. byteSub(wordRotation(before)) = <<b1, b2, b3, b4>>
  BY DEF byteSub, wordRotation
<1>5. RconByte[q] \in Byte /\ RconByte[q] = AES!RoundConstant[q]
  BY DEF RconByte, AES!RoundConstant, Byte
<1>6. AES!RoundWord(before, q, 4)
        = <<AES!SBox[before[2]], AES!SBox[before[3]], AES!SBox[before[4]],
            AES!Xor(AES!SBox[before[1]], AES!RoundConstant[q])>>
  BY DEF AES!RoundWord
<1>. HIDE DEF b1, b2, b3, b4
<1>7. XorWord(<<b1, b2, b3, b4>>, Rcon(q)) = <<b1, b2, b3, Xor(b4, RconByte[q])>>
  BY <1>2, XorZero DEF XorWord, Rcon
<1>8. AES!RoundWord(before, q, 4) = <<b1, b2, b3, Xor(b4, RconByte[q])>>
  BY <1>3, <1>5, <1>6, SameXor
<1>9. <<b1, b2, b3, Xor(b4, RconByte[q])>> \in Word
  BY <1>2, <1>5, XorByte DEF Word
<1> DEFINE word == <<b1, b2, b3, Xor(b4, RconByte[q])>>
<1>10. /\ XorWord(byteSub(wordRotation(before)), Rcon(q)) = word
       /\ AES!RoundWord(before, q, 4) = word /\ word \in Word
  BY <1>4, <1>7, <1>8, <1>9, Zenon
<1>. HIDE DEF word
<1>11. XorWord(word, old) = XorWord(old, word) /\ XorWord(old, word) \in Word
  BY <1>10, XorWordCommutes, XorWordType
<1>. QED
  BY <1>10, <1>11, Zenon

\* A round of the expansion extends the schedule by the standard's next four words
\* (main.c:190-207).
LEMMA ExpandFollows ==
  ASSUME NEW q \in 1..10, Expanded(q - 1), keySched' = keyExpand(q, keySched), keys' = keys
  PROVE  Expanded(q)'
<1> DEFINE before(k) == keySched[4 * q - 4 + k]
           w0 == XorWord(XorWord(byteSub(wordRotation(before(3))), Rcon(q)), before(0))
           w1 == XorWord(w0, before(1))
           w2 == XorWord(w1, before(2))
           w3 == XorWord(w2, before(3))
           new == keySched'
<1>1. /\ \A n \in 0..(4 * q - 1) : new[n] = keySched[n] /\ keySched[n] \in Word
      /\ new[4 * q] = w0 /\ new[4 * q + 1] = w1 /\ new[4 * q + 2] = w2 /\ new[4 * q + 3] = w3
  <2>1. keySched' = [n \in 0..(4 * q + 3) |->
          IF n < 4 * q THEN keySched[n] ELSE <<w0, w1, w2, w3>>[n - 4 * q + 1]]
    BY DEF keyExpand
  <2>2. \A n \in 0..(4 * q - 1) : keySched[n] \in Word
    <3>1. 4 * (q - 1) + 3 = 4 * q - 1
      OBVIOUS
    <3>. QED
      BY <3>1 DEF Expanded
  <2>. HIDE DEF w0, w1, w2, w3
  <2>3. \A n \in 0..(4 * q - 1) : new[n] = keySched[n]
    BY <2>1
  <2>4. \A k \in 0..3 : new[4 * q + k] = <<w0, w1, w2, w3>>[k + 1]
    BY <2>1
  <2>5. new[4 * q] = w0 /\ new[4 * q + 1] = w1 /\ new[4 * q + 2] = w2 /\ new[4 * q + 3] = w3
    <3>1. new[4 * q + 0] = w0 /\ 4 * q + 0 = 4 * q
      BY <2>4
    <3>. QED
      BY <2>4, <3>1
  <2>. QED
    BY <2>2, <2>3, <2>5
<1>2. \A k \in 0..3 : before(k) \in Word /\ before(k) = new[4 * q - 4 + k]
  BY <1>1
<1>3. /\ w0 = XorWord(before(0), AES!RoundWord(before(3), q, 4)) /\ w0 \in Word
      /\ w1 = XorWord(before(1), w0) /\ w1 \in Word
      /\ w2 = XorWord(before(2), w1) /\ w2 \in Word
      /\ w3 = XorWord(before(3), w2) /\ w3 \in Word
  <2>. HIDE DEF before
  <2>0. before(0) \in Word /\ before(1) \in Word /\ before(2) \in Word /\ before(3) \in Word
    BY <1>2
  <2>1. w0 = XorWord(before(0), AES!RoundWord(before(3), q, 4)) /\ w0 \in Word
    BY <2>0, FirstWord
  <2>. HIDE DEF w0
  <2>2. w1 = XorWord(before(1), w0) /\ w1 \in Word
    BY <2>0, <2>1, XorWordCommutes, XorWordType
  <2>. HIDE DEF w1
  <2>3. w2 = XorWord(before(2), w1) /\ w2 \in Word
    BY <2>0, <2>2, XorWordCommutes, XorWordType
  <2>. HIDE DEF w2
  <2>4. w3 = XorWord(before(3), w2) /\ w3 \in Word
    BY <2>0, <2>3, XorWordCommutes, XorWordType
  <2>. QED
    BY <2>1, <2>2, <2>3, <2>4
<1>. HIDE DEF w0, w1, w2, w3, before
<1>4. \A m \in 0..(4 * q + 3) : new[m] \in Word
  <2>1. ASSUME NEW m \in 0..(4 * q + 3) PROVE new[m] \in Word
    <3>1. \/ m \in 0..(4 * q - 1)
          \/ m = 4 * q \/ m = 4 * q + 1 \/ m = 4 * q + 2 \/ m = 4 * q + 3
      OBVIOUS
    <3>. QED
      BY <1>1, <1>3, <3>1
  <2>. QED
    BY <2>1
<1>5. \A n \in 0..3 : new[n] = keys'[n + 1]
  <2>1. \A n \in 0..3 : keySched[n] = keys[n + 1]
    BY DEF Expanded, AES!IsKeySchedule
  <2>2. \A n \in 0..3 : n \in 0..(4 * q - 1)
    OBVIOUS
  <2>. QED
    BY <1>1, <2>1, <2>2
<1> DEFINE Following(x, n) ==
             AES!XorWord(x[n - 4], IF n % 4 = 0 THEN AES!RoundWord(x[n - 1], n \div 4, 4)
                                                ELSE x[n - 1])
<1>6. \A n \in 4..(4 * (q - 1) + 3) : keySched[n] = Following(keySched, n)
  BY DEF Expanded, AES!IsKeySchedule
<1>7. ASSUME NEW n \in 4..(4 * q + 3) PROVE new[n] = Following(new, n)
  <2>1. CASE n < 4 * q
    <3>1. /\ n \in 4..(4 * (q - 1) + 3)
          /\ n \in 0..(4 * q - 1) /\ n - 4 \in 0..(4 * q - 1) /\ n - 1 \in 0..(4 * q - 1)
      BY <2>1
    <3>2. new[n] = keySched[n] /\ new[n - 4] = keySched[n - 4] /\ new[n - 1] = keySched[n - 1]
      BY <1>1, <3>1
    <3>. QED
      BY <1>6, <3>1, <3>2
  <2>2. CASE n = 4 * q
    <3>1. n % 4 = 0 /\ n \div 4 = q /\ n - 4 = 4 * q - 4 + 0 /\ n - 1 = 4 * q - 4 + 3
      BY <2>2
    <3>2. new[n] = w0 /\ new[n - 4] = before(0) /\ new[n - 1] = before(3)
      BY <1>1, <1>2, <2>2, <3>1
    <3>. QED
      BY <1>3, <3>1, <3>2, SameXor
  <2>3. CASE n = 4 * q + 1
    <3>1. n % 4 # 0 /\ n - 4 = 4 * q - 4 + 1 /\ n - 1 = 4 * q
      BY <2>3
    <3>2. before(1) = new[4 * q - 4 + 1]
      BY <1>2
    <3>3. new[n] = w1 /\ new[n - 4] = before(1) /\ new[n - 1] = w0
      BY <1>1, <2>3, <3>1, <3>2
    <3>. QED
      BY <1>3, <3>1, <3>3, SameXor
  <2>4. CASE n = 4 * q + 2
    <3>1. n % 4 # 0 /\ n - 4 = 4 * q - 4 + 2 /\ n - 1 = 4 * q + 1
      BY <2>4
    <3>2. before(2) = new[4 * q - 4 + 2]
      BY <1>2
    <3>3. new[n] = w2 /\ new[n - 4] = before(2) /\ new[n - 1] = w1
      BY <1>1, <2>4, <3>1, <3>2
    <3>. QED
      BY <1>3, <3>1, <3>3, SameXor
  <2>5. CASE n = 4 * q + 3
    <3>1. n % 4 # 0 /\ n - 4 = 4 * q - 4 + 3 /\ n - 1 = 4 * q + 2
      BY <2>5
    <3>2. before(3) = new[4 * q - 4 + 3]
      BY <1>2
    <3>3. new[n] = w3 /\ new[n - 4] = before(3) /\ new[n - 1] = w2
      BY <1>1, <2>5, <3>1, <3>2
    <3>. QED
      BY <1>3, <3>1, <3>3, SameXor
  <2>. QED
    BY <2>1, <2>2, <2>3, <2>4, <2>5
<1>. QED
  BY <1>4, <1>5, <1>7 DEF Expanded, AES!IsKeySchedule

-----------------------------------------------------------------------------
(* The encryption *)

Rounds == {"add", "sub", "shift", "mix"}

\* The rounds of the schedule, of which the rounds of the message follow.
Scheduled ==
  /\ pc = "expand" => r \in 1..10 /\ Expanded(r - 1)
  /\ pc = "packMessage" => r = 0 /\ Expanded(10)
  /\ pc \in Rounds => \A m \in 0..43 : keySched[m] \in Word

\* The round and the block in each transformation.
InRound ==
  /\ pc = "add" => r \in 0..10
  /\ pc \in {"sub", "shift"} => r \in 1..10
  /\ pc = "mix" => r \in 1..9
  /\ pc \in {"reverse", "return"} => r = 10
  /\ pc \in Rounds \cup {"reverse"} => msg_enc \in Block16

\* The message in use was typed.
MessageGiven == pc \notin {"assign", "mode", "message"} => msg_ascii \in Characters

EncryptInv == Scheduled /\ InRound /\ MessageGiven

\* What the invariants above say of the key, too.
Ready == IInv /\ KeyGiven /\ Typed

\* In the encryption the words are those of the key.
LEMMA KeyIsPacked ==
  ASSUME Ready, pc \in {"copyKey", "expand", "packMessage"}
  PROVE  /\ keys \in [1..4 -> Word] /\ keys = PackWords(key_ascii)
         /\ key_ascii # None
<1>1. keys # None
  BY DEF Ready, IInv, Stored
<1>2. keys = PackWords(key_ascii) /\ key_ascii # None /\ key_ascii \in Characters
  BY <1>1 DEF Ready, IInv, Packed, Typed, KeyGiven
<1>. QED
  BY <1>2, PackType

\* Nothing is enciphered at first.
LEMMA InitEncrypt == Init => EncryptInv
BY DEF Init, EncryptInv, Scheduled, InRound, MessageGiven, Rounds

\* Steps outside the encryption, or before its schedule.
LEMMA OutsideKeeps ==
  ASSUME EncryptInv,
         pc' \notin Rounds \cup {"expand", "packMessage", "reverse"},
         pc' = "return" => r' = 10,
         pc' \notin {"assign", "mode", "message"} => msg_ascii' \in Characters
  PROVE  EncryptInv'
<1>1. Scheduled'
  BY DEF Scheduled, Rounds
<1>2. InRound'
  BY DEF InRound, Rounds
<1>3. MessageGiven'
  BY DEF MessageGiven
<1>. QED
  BY <1>1, <1>2, <1>3 DEF EncryptInv

\* The key is copied, and the schedule grows by a round at a time (main.c:112-114, 190-207).
LEMMA CopyKeyKeeps == EncryptInv /\ Ready /\ CopyKey => EncryptInv'
<1>. SUFFICES ASSUME EncryptInv, Ready, CopyKey PROVE EncryptInv'
  OBVIOUS
<1>1. /\ pc = "copyKey" /\ pc' = "expand" /\ r' = 1 /\ msg_ascii' = msg_ascii /\ keys' = keys
      /\ keySched' = [n \in 0..3 |-> keys[n + 1]]
  BY DEF CopyKey
<1>2. keys \in [1..4 -> Word]
  BY <1>1, KeyIsPacked
<1>3. \A n \in 0..3 : keySched'[n] = keys[n + 1] /\ keys[n + 1] \in Word
  BY <1>1, <1>2
<1>4. Expanded(0)'
  <2>1. 4 * 0 + 3 = 3 /\ 4..3 = {}
    OBVIOUS
  <2>. QED
    BY <1>1, <1>3, <2>1 DEF Expanded, AES!IsKeySchedule
<1>5. Expanded(r - 1)'
  <2>1. r' - 1 = 0
    BY <1>1
  <2>. QED
    BY <1>4, <2>1 DEF Expanded
<1>6. Scheduled'
  BY <1>1, <1>5 DEF Scheduled, Rounds
<1>7. InRound' /\ MessageGiven'
  BY <1>1 DEF EncryptInv, InRound, MessageGiven, Rounds
<1>. QED
  BY <1>6, <1>7 DEF EncryptInv

\* A round of the schedule (main.c:190-207).
LEMMA ExpandKeeps == EncryptInv /\ Ready /\ ExpandRound => EncryptInv'
<1>. SUFFICES ASSUME EncryptInv, Ready, ExpandRound PROVE EncryptInv'
  OBVIOUS
<1>1. /\ pc = "expand" /\ r \in 1..10 /\ msg_ascii' = msg_ascii /\ keys' = keys
      /\ keySched' = keyExpand(r, keySched)
      /\ \/ r < 10 /\ r' = r + 1 /\ pc' = "expand"
         \/ r = 10 /\ r' = 0 /\ pc' = "packMessage"
  BY DEF ExpandRound, EncryptInv, Scheduled
<1>2. Expanded(r - 1)
  BY <1>1 DEF EncryptInv, Scheduled
<1>3. \A n \in 1..10 : n = r => Expanded(n)'
  BY <1>1, <1>2, ExpandFollows
<1>4. Scheduled'
  <2>1. CASE r < 10
    <3>1. r' - 1 = r /\ r' \in 1..10 /\ pc' = "expand"
      BY <1>1, <2>1
    <3>2. Expanded(r - 1)'
      BY <1>1, <1>3, <3>1 DEF Expanded
    <3>. QED
      BY <3>1, <3>2 DEF Scheduled, Rounds
  <2>2. CASE r = 10
    <3>1. Expanded(10)'
      BY <1>3, <2>2
    <3>. QED
      BY <1>1, <2>2, <3>1 DEF Scheduled, Rounds
  <2>. QED
    BY <1>1, <2>1, <2>2
<1>5. InRound' /\ MessageGiven'
  BY <1>1 DEF EncryptInv, InRound, MessageGiven, Rounds
<1>. QED
  BY <1>4, <1>5 DEF EncryptInv

\* main.c:116-140: the block, and its transformations in order.
LEMMA PackMessageKeeps == EncryptInv /\ Ready /\ PackMessage => EncryptInv'
<1>. SUFFICES ASSUME EncryptInv, Ready, PackMessage PROVE EncryptInv'
  OBVIOUS
<1>1. /\ pc = "packMessage" /\ pc' = "add" /\ r = 0 /\ r' = 0 /\ msg_ascii' = msg_ascii
      /\ keySched' = keySched /\ msg_enc' = InMemory(PackWords(msg_ascii))
  BY DEF PackMessage, Compute, EncryptInv, Scheduled
<1>2. msg_ascii \in Characters
  BY <1>1 DEF EncryptInv, MessageGiven
<1>3. msg_enc' \in Block16
  BY <1>1, <1>2, BlockType DEF Block16
<1>4. \A m \in 0..43 : keySched[m] \in Word
  <2>1. 4 * 10 + 3 = 43
    OBVIOUS
  <2>. QED
    BY <1>1, <2>1 DEF EncryptInv, Scheduled, Expanded
<1>5. Scheduled' /\ InRound'
  BY <1>1, <1>3, <1>4 DEF Scheduled, InRound, Rounds
<1>6. MessageGiven'
  BY <1>1, <1>2 DEF MessageGiven
<1>. QED
  BY <1>5, <1>6 DEF EncryptInv

\* A transformation of a block leaves the schedule and the message alone.
LEMMA RoundKeeps ==
  ASSUME EncryptInv, pc \in Rounds, pc' \in Rounds \cup {"reverse"},
         UNCHANGED <<keySched, msg_ascii>>, InRound'
  PROVE  EncryptInv'
<1>1. Scheduled'
  BY DEF EncryptInv, Scheduled, Rounds
<1>2. MessageGiven'
  BY DEF EncryptInv, MessageGiven, Rounds
<1>. QED
  BY <1>1, <1>2 DEF EncryptInv

\* The rounds, one transformation at a time (main.c:129-140).
LEMMA AddKeyKeeps == EncryptInv /\ AddKey => EncryptInv'
<1>. SUFFICES ASSUME EncryptInv, AddKey PROVE EncryptInv'
  OBVIOUS
<1>1. /\ pc = "add" /\ r \in 0..10 /\ msg_enc \in Block16 /\ \A m \in 0..43 : keySched[m] \in Word
      /\ pc' = IF r < 10 THEN "sub" ELSE "reverse"
      /\ r' = IF r < 10 THEN r + 1 ELSE r
      /\ msg_enc' = keyAdd(r, keySched, msg_enc)
      /\ UNCHANGED <<keySched, msg_ascii>>
  BY DEF AddKey, Compute, EncryptInv, Scheduled, InRound, Rounds
<1>2. msg_enc' \in Block16
  BY <1>1, AddIsAdd
<1>3. InRound'
  BY <1>1, <1>2 DEF InRound, Rounds
<1>. QED
  BY <1>1, <1>3, RoundKeeps DEF Rounds

LEMMA SubKeeps == EncryptInv /\ Sub => EncryptInv'
<1>. SUFFICES ASSUME EncryptInv, Sub PROVE EncryptInv'
  OBVIOUS
<1>1. /\ pc = "sub" /\ r \in 1..10 /\ msg_enc \in Block16
      /\ pc' = "shift" /\ r' = r /\ msg_enc' = stateSub(msg_enc)
      /\ UNCHANGED <<keySched, msg_ascii>>
  BY DEF Sub, Compute, EncryptInv, InRound, Rounds
<1>2. InRound'
  BY <1>1, SubIsSubstitute DEF InRound, Rounds
<1>. QED
  BY <1>1, <1>2, RoundKeeps DEF Rounds

LEMMA ShiftKeeps == EncryptInv /\ Shift => EncryptInv'
<1>. SUFFICES ASSUME EncryptInv, Shift PROVE EncryptInv'
  OBVIOUS
<1>1. /\ pc = "shift" /\ r \in 1..10 /\ msg_enc \in Block16
      /\ pc' = IF r < 10 THEN "mix" ELSE "add"
      /\ r' = r /\ msg_enc' = rowShift(msg_enc)
      /\ UNCHANGED <<keySched, msg_ascii>>
  BY DEF Shift, Compute, EncryptInv, InRound, Rounds
<1>2. InRound'
  BY <1>1, ShiftIsShift DEF InRound, Rounds
<1>. QED
  BY <1>1, <1>2, RoundKeeps DEF Rounds

LEMMA MixKeeps == EncryptInv /\ Mix => EncryptInv'
<1>. SUFFICES ASSUME EncryptInv, Mix PROVE EncryptInv'
  OBVIOUS
<1>1. /\ pc = "mix" /\ r \in 1..9 /\ msg_enc \in Block16
      /\ pc' = "add" /\ r' = r /\ msg_enc' = colMix(msg_enc)
      /\ UNCHANGED <<keySched, msg_ascii>>
  BY DEF Mix, Compute, EncryptInv, InRound, Rounds
<1>2. InRound'
  BY <1>1, MixIsMix DEF InRound, Rounds
<1>. QED
  BY <1>1, <1>2, RoundKeeps DEF Rounds

\* The program's encryption keeps its invariant.
LEMMA NextEncrypt ==
  ASSUME EncryptInv, Ready, [Next]_labVars PROVE EncryptInv'
<1>1. CASE Reset
  <2>1. pc' = "assign"
    BY <1>1 DEF Reset, Restart
  <2>. QED
    BY <2>1, OutsideKeeps DEF Rounds
<1>2. CASE Assign
  <2>1. pc' \in {"assign", "mode"}
    BY <1>2 DEF Assign, StoreLoop
  <2>. QED
    BY <2>1, OutsideKeeps DEF Rounds
<1>3. CASE SelectTesting
  <2>1. pc' = "message"
    BY <1>3 DEF SelectTesting
  <2>. QED
    BY <2>1, OutsideKeeps DEF Rounds
<1>4. CASE SelectBenchmark
  BY <1>4, OutsideKeeps DEF SelectBenchmark, Rounds, Characters
<1>5. CASE EnterMessage
  <2>1. pc' = "key" /\ msg_ascii' \in Characters
    BY <1>5, Lab9Assumption DEF EnterMessage, Characters
  <2>. QED
    BY <2>1, OutsideKeeps DEF Rounds
<1>6. ASSUME pc \notin {"assign", "mode", "message"}, msg_ascii' = msg_ascii,
             pc' \notin Rounds \cup {"expand", "packMessage", "reverse"},
             pc' = "return" => r' = 10
      PROVE  EncryptInv'
  <2>1. msg_ascii' \in Characters
    BY <1>6 DEF EncryptInv, MessageGiven
  <2>. QED
    BY <1>6, <2>1, OutsideKeeps
<1>7. CASE EnterKey \/ PackKey \/ PrintResult \/ Repeat
  BY <1>6, <1>7 DEF EnterKey, PackKey, PrintResult, Repeat, programVars, Rounds
<1>8. CASE StoreKey \/ RewriteKey
  BY <1>6, <1>8 DEF StoreKey, RewriteKey, StoreLoop, programVars, Rounds
<1>9. CASE TurnWords
  <2>1. /\ pc = "reverse" /\ pc' = "return" /\ r = 10 /\ r' = r /\ msg_ascii' = msg_ascii
    BY <1>9 DEF TurnWords, Compute, EncryptInv, InRound
  <2>. QED
    BY <1>6, <2>1 DEF Rounds
<1>10. CASE UNCHANGED labVars
  <2>1. UNCHANGED <<pc, r, msg_ascii, keys, keySched, msg_enc>>
    BY <1>10 DEF labVars, programVars
  <2>2. Scheduled'
    BY <2>1 DEF EncryptInv, Scheduled, Rounds, Expanded, AES!IsKeySchedule
  <2>3. InRound' /\ MessageGiven'
    BY <2>1 DEF EncryptInv, InRound, MessageGiven, Rounds
  <2>. QED
    BY <2>2, <2>3 DEF EncryptInv
<1>. QED
  BY <1>1, <1>2, <1>3, <1>4, <1>5, <1>7, <1>8, <1>9, <1>10, CopyKeyKeeps, ExpandKeeps,
     PackMessageKeeps, AddKeyKeeps, SubKeeps, ShiftKeeps, MixKeeps DEF Next, Encrypt

\* Whatever the user types, and whenever it is reset, the encryption computes with
\* bytes and the round number its transformation has (main.c:91-155).
THEOREM EncryptionInvariant == Spec => []EncryptInv
<1>1. EncryptInv /\ Ready /\ [Next]_labVars => EncryptInv'
  BY NextEncrypt
<1>2. IInv /\ KeyGiven /\ Typed => Ready
  BY DEF Ready
<1>. QED
  BY <1>1, <1>2, InitEncrypt, Invariant, KeyCharacters, KeyTyped, PTL DEF Spec

-----------------------------------------------------------------------------
(* The refinement of the standard's round machine *)

\* The places at which a block is in the making, or printed.
InCipher == Rounds \cup {"reverse", "return"}

\* How lab9 maps the program's variables.
MapW == IF Phase = "idle" THEN None ELSE keySched
MapState == CASE Phase = "idle" -> None
              [] pc = "return" -> Printed
              [] OTHER -> msg_enc
MapRound == IF Phase = "idle" THEN 0 ELSE r

\* The abstract variables, by the names above.
LEMMA MapVars ==
  AES!cipherVars
    = <<TypedBlock(msg_ascii), TypedWords(key_ascii), MapW, MapState, Phase, MapRound>>
BY Zenon DEF AES!cipherVars, MapW, MapState, MapRound

\* Outside the encryption the cipher is idle.
LEMMA OutsideMaps ==
  pc \notin InCipher => Phase = "idle" /\ MapW = None /\ MapState = None /\ MapRound = 0
<1>. SUFFICES ASSUME pc \notin InCipher
     PROVE  Phase = "idle" /\ MapW = None /\ MapState = None /\ MapRound = 0
  OBVIOUS
<1>1. Phase = "idle"
  BY DEF Phase, InCipher, Rounds
<1>2. MapState = None
  BY <1>1 DEF MapState, InCipher
<1>. QED
  BY <1>1, <1>2 DEF MapW, MapRound

\* Inside it the cipher's variables are the program's.
LEMMA InsideMaps ==
  pc \in InCipher =>
    /\ Phase = IF pc \in {"reverse", "return"} THEN "out"
               ELSE IF pc = "sub" THEN "substitute" ELSE pc
    /\ MapW = keySched /\ MapRound = r
    /\ MapState = IF pc = "return" THEN Printed ELSE msg_enc
<1>. SUFFICES ASSUME pc \in InCipher
     PROVE  /\ Phase = IF pc \in {"reverse", "return"} THEN "out"
                       ELSE IF pc = "sub" THEN "substitute" ELSE pc
            /\ MapW = keySched /\ MapRound = r
            /\ MapState = IF pc = "return" THEN Printed ELSE msg_enc
  OBVIOUS
<1>1. Phase = IF pc \in {"reverse", "return"} THEN "out"
              ELSE IF pc = "sub" THEN "substitute" ELSE pc
  BY DEF Phase, InCipher, Rounds
<1>2. Phase # "idle"
  BY <1>1 DEF InCipher, Rounds
<1>3. MapState = IF pc = "return" THEN Printed ELSE msg_enc
  BY <1>2 DEF MapState
<1>. QED
  BY <1>1, <1>2, <1>3 DEF MapW, MapRound

\* The abstract machine at rest.
LEMMA IdleMaps == pc \notin InCipher => AES!Idle
<1>1. AES!Idle <=> Phase = "idle" /\ MapW = << >> /\ MapState = << >> /\ MapRound = 0
  BY Zenon DEF AES!Idle, MapW, MapState, MapRound
<1>. QED
  BY <1>1, OutsideMaps DEF None

\* A program at rest stays at rest, or an encryption ends.
LEMMA ToIdle == pc' \notin InCipher => AES!Next
<1>. SUFFICES ASSUME pc' \notin InCipher PROVE AES!Next
  OBVIOUS
<1>1. AES!Idle'
  <2>1. (pc \notin InCipher => AES!Idle)'
    BY IdleMaps, PTL
  <2>. QED
    BY <2>1 DEF InCipher
<1>2. CASE pc \notin InCipher
  BY <1>1, <1>2, IdleMaps DEF AES!Next, AES!Give
<1>3. CASE pc \in InCipher
  <2>1. Phase # "idle"
    BY <1>3, InsideMaps DEF InCipher, Rounds
  <2>. QED
    BY <1>1, <2>1 DEF AES!Next, AES!End
<1>. QED
  BY <1>2, <1>3

\* The same after a step.
LEMMA InsideMapsNext ==
  pc' \in InCipher =>
    /\ Phase' = IF pc' \in {"reverse", "return"} THEN "out"
                ELSE IF pc' = "sub" THEN "substitute" ELSE pc'
    /\ MapW' = keySched' /\ MapRound' = r'
    /\ MapState' = IF pc' = "return" THEN Printed' ELSE msg_enc'
<1>1. (pc \in InCipher =>
        /\ Phase = IF pc \in {"reverse", "return"} THEN "out"
                   ELSE IF pc = "sub" THEN "substitute" ELSE pc
        /\ MapW = keySched /\ MapRound = r
        /\ MapState = IF pc = "return" THEN Printed ELSE msg_enc)'
  BY InsideMaps, PTL
<1>. QED
  BY <1>1 DEF InCipher

\* Packing the message begins the cipher with the standard's schedule.
LEMMA BeginMaps ==
  ASSUME EncryptInv, Ready, DigitsTyped, MessageDigitsTyped, PackMessage PROVE AES!Begin
<1>1. /\ pc = "packMessage" /\ pc' = "add" /\ r' = r /\ r = 0
      /\ UNCHANGED <<msg_ascii, key_ascii, keySched>>
      /\ msg_enc' = InMemory(PackWords(msg_ascii))
  BY DEF PackMessage, Compute, EncryptInv, Scheduled
<1>2. msg_enc' = TypedBlock(msg_ascii)
  <2>1. msg_ascii # None /\ Digits(msg_ascii)
    BY <1>1, NoneNoCharacters DEF EncryptInv, MessageGiven, MessageDigitsTyped
  <2>. QED
    BY <1>1, <2>1, BlockIsTyped
<1>3. Phase = "idle" /\ MapRound = 0
  BY <1>1, OutsideMaps DEF InCipher, Rounds
<1>4. Phase' = "add" /\ MapW' = keySched' /\ MapRound' = 0 /\ MapState' = msg_enc'
  BY <1>1, InsideMapsNext DEF InCipher, Rounds
<1>5. AES!IsKeySchedule(keySched', TypedWords(key_ascii), 4, 10)
  <2>1. Expanded(10) /\ keys = TypedWords(key_ascii)
    BY <1>1, KeyIsPacked, PackedIsTyped DEF EncryptInv, Scheduled, DigitsTyped
  <2>2. AES!IsKeySchedule(keySched, TypedWords(key_ascii), 4, 10)
    BY <2>1 DEF Expanded
  <2>. QED
    BY <1>1, <2>2
<1>6. /\ TypedBlock(msg_ascii)' = TypedBlock(msg_ascii)
      /\ TypedWords(key_ascii)' = TypedWords(key_ascii)
  BY <1>1 DEF TypedBlock, TypedWords, TypedByte
<1>7. AES!Begin <=>
        /\ Phase = "idle" /\ Phase' = "add"
        /\ UNCHANGED <<TypedBlock(msg_ascii), TypedWords(key_ascii), MapRound>>
        /\ MapState' = TypedBlock(msg_ascii)
        /\ AES!IsKeySchedule(MapW', TypedWords(key_ascii), 4, 10)
  BY Zenon DEF AES!Begin, MapW, MapState, MapRound
<1>. QED
  BY <1>2, <1>3, <1>4, <1>5, <1>6, <1>7

\* Each transformation of the block is the standard's.
LEMMA TransformMaps ==
  ASSUME NEW from, NEW to, NEW new,
         pc \in Rounds, pc' \in Rounds \cup {"reverse"},
         UNCHANGED <<msg_ascii, key_ascii, keySched>>, msg_enc' = new,
         from = Phase, to = Phase'
  PROVE  /\ AES!Transform(from, to, new)
         /\ MapState = msg_enc /\ MapState' = new
<1>1. /\ Phase = from /\ MapW = keySched /\ MapRound = r /\ MapState = msg_enc
      /\ Phase' = to /\ MapW' = keySched' /\ MapRound' = r' /\ MapState' = msg_enc'
  BY InsideMaps, InsideMapsNext DEF InCipher, Rounds
<1>2. /\ TypedBlock(msg_ascii)' = TypedBlock(msg_ascii)
      /\ TypedWords(key_ascii)' = TypedWords(key_ascii)
  BY DEF TypedBlock, TypedWords, TypedByte
<1>3. AES!Transform(from, to, new) <=>
        /\ Phase = from /\ Phase' = to
        /\ MapState' = new
        /\ UNCHANGED <<TypedBlock(msg_ascii), TypedWords(key_ascii), MapW>>
  BY Zenon DEF AES!Transform, MapW, MapState
<1>. QED
  BY <1>1, <1>2, <1>3

\* The four transformations map to those of the standard.
LEMMA AddMaps == ASSUME EncryptInv, AddKey PROVE AES!Add
<1>1. /\ pc = "add" /\ r \in 0..10 /\ msg_enc \in Block16
      /\ \A m \in 0..43 : keySched[m] \in Word
      /\ pc' = IF r < 10 THEN "sub" ELSE "reverse"
      /\ r' = IF r < 10 THEN r + 1 ELSE r
      /\ msg_enc' = keyAdd(r, keySched, msg_enc)
      /\ UNCHANGED <<msg_ascii, key_ascii, keySched>>
  BY DEF AddKey, Compute, EncryptInv, Scheduled, InRound, Rounds
<1>2. keyAdd(r, keySched, msg_enc) = AES!AddRoundKey(msg_enc, keySched, r)
  BY <1>1, AddIsAdd
<1>3. /\ Phase = "add" /\ MapRound = r /\ MapRound' = r' /\ MapW = keySched
      /\ Phase' = IF r = 10 THEN "out" ELSE "substitute"
  BY <1>1, InsideMaps, InsideMapsNext DEF InCipher, Rounds
<1>4. /\ AES!Transform(Phase, Phase', msg_enc') /\ MapState = msg_enc
  BY <1>1, TransformMaps DEF Rounds
<1>5. AES!Add <=>
        /\ AES!Transform("add", IF MapRound = 10 THEN "out" ELSE "substitute",
                         AES!AddRoundKey(MapState, MapW, MapRound))
        /\ MapRound' = IF MapRound = 10 THEN 10 ELSE MapRound + 1
  BY Zenon DEF AES!Add, MapW, MapState, MapRound
<1>6. AES!Transform("add", IF MapRound = 10 THEN "out" ELSE "substitute",
                    AES!AddRoundKey(MapState, MapW, MapRound))
  BY <1>1, <1>2, <1>3, <1>4, Zenon
<1>7. MapRound' = IF MapRound = 10 THEN 10 ELSE MapRound + 1
  BY <1>1, <1>3
<1>. QED
  BY <1>5, <1>6, <1>7

LEMMA SubMaps == ASSUME EncryptInv, Sub PROVE AES!Substitute
<1>1. /\ pc = "sub" /\ msg_enc \in Block16 /\ pc' = "shift" /\ r' = r
      /\ msg_enc' = stateSub(msg_enc)
      /\ UNCHANGED <<msg_ascii, key_ascii, keySched>>
  BY DEF Sub, Compute, EncryptInv, InRound, Rounds
<1>2. stateSub(msg_enc) = AES!SubstituteBytes(msg_enc)
  BY <1>1, SubIsSubstitute
<1>3. Phase = "substitute" /\ Phase' = "shift" /\ MapRound = r /\ MapRound' = r'
  BY <1>1, InsideMaps, InsideMapsNext DEF InCipher, Rounds
<1>4. AES!Transform(Phase, Phase', msg_enc') /\ MapState = msg_enc
  BY <1>1, TransformMaps DEF Rounds
<1>5. AES!Substitute <=>
        AES!Transform("substitute", "shift", AES!SubstituteBytes(MapState)) /\ UNCHANGED MapRound
  BY Zenon DEF AES!Substitute, MapState, MapRound
<1>. QED
  BY <1>1, <1>2, <1>3, <1>4, <1>5, Zenon

LEMMA ShiftMaps == ASSUME EncryptInv, Shift PROVE AES!Shift
<1>1. /\ pc = "shift" /\ r \in 1..10 /\ msg_enc \in Block16
      /\ pc' = IF r < 10 THEN "mix" ELSE "add"
      /\ r' = r /\ msg_enc' = rowShift(msg_enc)
      /\ UNCHANGED <<msg_ascii, key_ascii, keySched>>
  BY DEF Shift, Compute, EncryptInv, InRound, Rounds
<1>2. rowShift(msg_enc) = AES!ShiftRows(msg_enc)
  BY <1>1, ShiftIsShift
<1>3. /\ Phase = "shift" /\ MapRound = r /\ MapRound' = r'
      /\ Phase' = IF MapRound = 10 THEN "add" ELSE "mix"
  BY <1>1, InsideMaps, InsideMapsNext DEF InCipher, Rounds
<1>4. AES!Transform(Phase, Phase', msg_enc') /\ MapState = msg_enc
  BY <1>1, TransformMaps DEF Rounds
<1>5. AES!Shift <=>
        /\ AES!Transform("shift", IF MapRound = 10 THEN "add" ELSE "mix", AES!ShiftRows(MapState))
        /\ UNCHANGED MapRound
  BY Zenon DEF AES!Shift, MapState, MapRound
<1>. QED
  BY <1>1, <1>2, <1>3, <1>4, <1>5, Zenon

LEMMA MixMaps == ASSUME EncryptInv, Mix PROVE AES!Mix
<1>1. /\ pc = "mix" /\ msg_enc \in Block16 /\ pc' = "add" /\ r' = r
      /\ msg_enc' = colMix(msg_enc)
      /\ UNCHANGED <<msg_ascii, key_ascii, keySched>>
  BY DEF Mix, Compute, EncryptInv, InRound, Rounds
<1>2. colMix(msg_enc) = AES!MixColumns(msg_enc)
  BY <1>1, MixIsMix
<1>3. Phase = "mix" /\ Phase' = "add" /\ MapRound = r /\ MapRound' = r'
  BY <1>1, InsideMaps, InsideMapsNext DEF InCipher, Rounds
<1>4. AES!Transform(Phase, Phase', msg_enc') /\ MapState = msg_enc
  BY <1>1, TransformMaps DEF Rounds
<1>5. AES!Mix <=> AES!Transform("mix", "add", AES!MixColumns(MapState)) /\ UNCHANGED MapRound
  BY Zenon DEF AES!Mix, MapState, MapRound
<1>. QED
  BY <1>1, <1>2, <1>3, <1>4, <1>5, Zenon

\* The words are turned round so as to print in the order of the block (main.c:142-152).
LEMMA TurnMaps == ASSUME EncryptInv, TurnWords PROVE UNCHANGED AES!cipherVars
<1>1. /\ pc = "reverse" /\ pc' = "return" /\ r' = r /\ msg_enc \in Block16
      /\ msg_enc' = ReverseWords(msg_enc)
      /\ UNCHANGED <<msg_ascii, key_ascii, keySched>>
  BY DEF TurnWords, Compute, EncryptInv, InRound, Rounds
<1>2. Printed' = msg_enc
  <2>1. Printed' = [j \in 0..15 |-> msg_enc'[4 * (j \div 4) + 3 - (j % 4)]]
    BY DEF Printed
  <2>2. \A j \in 0..15 : /\ 4 * (j \div 4) + 3 - (j % 4) \in 0..15
                         /\ 4 * ((4 * (j \div 4) + 3 - (j % 4)) \div 4) + 3
                              - ((4 * (j \div 4) + 3 - (j % 4)) % 4) = j
    OBVIOUS
  <2>3. \A n \in 0..15 : msg_enc'[n] = msg_enc[4 * (n \div 4) + 3 - (n % 4)]
    BY <1>1 DEF ReverseWords
  <2>4. \A j \in 0..15 : msg_enc'[4 * (j \div 4) + 3 - (j % 4)] = msg_enc[j]
    BY <2>2, <2>3
  <2>5. msg_enc = [j \in 0..15 |-> msg_enc[j]]
    BY <1>1 DEF Block16
  <2>. QED
    BY <2>1, <2>4, <2>5
<1>3. /\ Phase = "out" /\ MapW = keySched /\ MapRound = r /\ MapState = msg_enc
      /\ Phase' = "out" /\ MapW' = keySched' /\ MapRound' = r' /\ MapState' = Printed'
  BY <1>1, InsideMaps, InsideMapsNext DEF InCipher, Rounds
<1>4. /\ TypedBlock(msg_ascii)' = TypedBlock(msg_ascii)
      /\ TypedWords(key_ascii)' = TypedWords(key_ascii)
  BY <1>1 DEF TypedBlock, TypedWords, TypedByte
<1>5. AES!cipherVars'
        = <<TypedBlock(msg_ascii), TypedWords(key_ascii), MapW, MapState, Phase, MapRound>>'
  <2>1. (AES!cipherVars
          = <<TypedBlock(msg_ascii), TypedWords(key_ascii), MapW, MapState, Phase, MapRound>>)'
    BY MapVars, PTL
  <2>. QED
    BY <2>1
<1>. QED
  BY <1>1, <1>2, <1>3, <1>4, <1>5, MapVars

\* Nothing moves in the cipher while nothing moves in the program.
LEMMA StutterMaps == UNCHANGED labVars => UNCHANGED AES!cipherVars
BY DEF labVars, programVars, AES!cipherVars, Phase, Printed, TypedBlock, TypedWords, TypedByte

\* Every step of the program is one of the cipher, or none.
LEMMA NextMaps ==
  ASSUME EncryptInv, Ready, DigitsTyped, MessageDigitsTyped, [Next]_labVars
  PROVE  [AES!Next]_AES!cipherVars
<1>1. CASE PackMessage
  BY <1>1, BeginMaps DEF AES!Next
<1>2. CASE AddKey \/ Sub \/ Shift \/ Mix
  BY <1>2, AddMaps, SubMaps, ShiftMaps, MixMaps DEF AES!Next
<1>3. CASE TurnWords
  BY <1>3, TurnMaps
<1>4. CASE UNCHANGED labVars
  BY <1>4, StutterMaps
<1>5. CASE pc' \notin InCipher
  BY <1>5, ToIdle
<1>. QED
  BY <1>1, <1>2, <1>3, <1>4, <1>5
  DEF Next, Reset, Restart, Assign, SelectTesting, SelectBenchmark, EnterMessage, EnterKey,
      Encrypt, PackKey, StoreKey, CopyKey, ExpandRound, PrintResult, RewriteKey, Repeat,
      StoreLoop, InCipher, Rounds

\* For messages and keys of digits the program enciphers what was typed by the
\* transformations of the standard, in every mode, whatever the resets and however
\* often the benchmark repeats (main.c:91-155).
THEOREM CipherRefinement ==
  ASSUME DigitKeys, DigitMessages PROVE Spec => ImplementsButForRcon
<1>1. Init => AES!Init
  BY IdleMaps DEF Init, AES!Init, InCipher, Rounds
<1>2. EncryptInv /\ Ready /\ DigitsTyped /\ MessageDigitsTyped /\ [Next]_labVars
        => [AES!Next]_AES!cipherVars
  BY NextMaps
<1>3. IInv /\ KeyGiven /\ Typed => Ready
  BY DEF Ready
<1>. QED
  BY <1>1, <1>2, <1>3, EncryptionInvariant, Invariant, KeyCharacters, KeyTyped, KeyDigits,
     MessageDigits, PTL DEF Spec, ImplementsButForRcon, AES!Spec

-----------------------------------------------------------------------------
(* Bytes as bits *)

\* The bits by their weights.
Weights8 == {1, 2, 4, 8, 16, 32, 64, 128}
On(b, k) == (b \div k) % 2 = 1

\* A nibble is the sum of its bits, and exclusive or compares them.
LEMMA NibbleBits ==
  \A x, y \in Nibble : \A k \in {1, 2, 4, 8} :
    On(XorNibble[x][y], k) <=> (On(x, k) # On(y, k))
<1>1. ASSUME NEW x \in 0..15, NEW y \in 0..15
      PROVE  \A k \in {1, 2, 4, 8} : On(XorNibble[x][y], k) <=> (On(x, k) # On(y, k))
  <2> DEFINE D(k) == IF (x \div k) % 2 = (y \div k) % 2 THEN 0 ELSE k
  <2>1. XorNibble[x][y] = D(1) + D(2) + D(4) + D(8)
    BY DEF XorNibble, Nibble
  <2>2. D(1) \in {0, 1} /\ D(2) \in {0, 2} /\ D(4) \in {0, 4} /\ D(8) \in {0, 8}
    OBVIOUS
  <2>3. /\ D(1) = 1 <=> On(x, 1) # On(y, 1)
        /\ D(2) = 2 <=> On(x, 2) # On(y, 2)
        /\ D(4) = 4 <=> On(x, 4) # On(y, 4)
        /\ D(8) = 8 <=> On(x, 8) # On(y, 8)
    BY DEF On
  <2>. HIDE DEF D
  <2>4. \A p \in {0, 1}, q \in {0, 2}, u \in {0, 4}, v \in {0, 8} :
          /\ On(p + q + u + v, 1) <=> p = 1
          /\ On(p + q + u + v, 2) <=> q = 2
          /\ On(p + q + u + v, 4) <=> u = 4
          /\ On(p + q + u + v, 8) <=> v = 8
    BY DEF On
  <2>. QED
    BY <2>1, <2>2, <2>3, <2>4
<1>. QED
  BY <1>1 DEF Nibble

\* The bits of a byte are those of its two nibbles.
LEMMA ByteNibbles ==
  \A h, l \in 0..15 :
    /\ On(16 * h + l, 1) <=> On(l, 1)
    /\ On(16 * h + l, 2) <=> On(l, 2)
    /\ On(16 * h + l, 4) <=> On(l, 4)
    /\ On(16 * h + l, 8) <=> On(l, 8)
    /\ On(16 * h + l, 16) <=> On(h, 1)
    /\ On(16 * h + l, 32) <=> On(h, 2)
    /\ On(16 * h + l, 64) <=> On(h, 4)
    /\ On(16 * h + l, 128) <=> On(h, 8)
BY SMTT(60) DEF On

\* Exclusive or is that of every bit.
LEMMA XorBits ==
  \A a, b \in Byte : \A k \in Weights8 : On(Xor(a, b), k) <=> (On(a, k) # On(b, k))
<1>1. ASSUME NEW a \in Byte, NEW b \in Byte
      PROVE  \A k \in Weights8 : On(Xor(a, b), k) <=> (On(a, k) # On(b, k))
  <2> DEFINE ha == a \div 16  la == a % 16  hb == b \div 16  lb == b % 16
             h == XorNibble[ha][hb]  l == XorNibble[la][lb]
  <2>1. /\ ha \in 0..15 /\ la \in 0..15 /\ hb \in 0..15 /\ lb \in 0..15
        /\ a = 16 * ha + la /\ b = 16 * hb + lb
    BY DEF Byte
  <2>2. Xor(a, b) = 16 * h + l
    BY DEF Xor
  <2>. HIDE DEF ha, la, hb, lb
  <2>3. h \in 0..15 /\ l \in 0..15
    BY <2>1 DEF XorNibble, Nibble
  <2>4. \A k \in {1, 2, 4, 8} : /\ On(h, k) <=> (On(ha, k) # On(hb, k))
                                /\ On(l, k) <=> (On(la, k) # On(lb, k))
    BY <2>1, NibbleBits DEF Nibble
  <2>. HIDE DEF h, l
  <2>5. /\ On(Xor(a, b), 1) <=> On(l, 1)
        /\ On(Xor(a, b), 2) <=> On(l, 2)
        /\ On(Xor(a, b), 4) <=> On(l, 4)
        /\ On(Xor(a, b), 8) <=> On(l, 8)
        /\ On(Xor(a, b), 16) <=> On(h, 1)
        /\ On(Xor(a, b), 32) <=> On(h, 2)
        /\ On(Xor(a, b), 64) <=> On(h, 4)
        /\ On(Xor(a, b), 128) <=> On(h, 8)
    BY <2>2, <2>3, ByteNibbles
  <2>6. /\ On(a, 1) <=> On(la, 1)
        /\ On(a, 2) <=> On(la, 2)
        /\ On(a, 4) <=> On(la, 4)
        /\ On(a, 8) <=> On(la, 8)
        /\ On(a, 16) <=> On(ha, 1)
        /\ On(a, 32) <=> On(ha, 2)
        /\ On(a, 64) <=> On(ha, 4)
        /\ On(a, 128) <=> On(ha, 8)
    BY <2>1, ByteNibbles
  <2>7. /\ On(b, 1) <=> On(lb, 1)
        /\ On(b, 2) <=> On(lb, 2)
        /\ On(b, 4) <=> On(lb, 4)
        /\ On(b, 8) <=> On(lb, 8)
        /\ On(b, 16) <=> On(hb, 1)
        /\ On(b, 32) <=> On(hb, 2)
        /\ On(b, 64) <=> On(hb, 4)
        /\ On(b, 128) <=> On(hb, 8)
    BY <2>1, ByteNibbles
  <2>8. On(a, 1) \in BOOLEAN /\ \A x, k : On(x, k) \in BOOLEAN
    BY DEF On
  <2>. QED
    BY <2>4, <2>5, <2>6, <2>7, <2>8 DEF Weights8
<1>. QED
  BY <1>1

\* Bytes with the same bits are the same.
LEMMA SameBits ==
  ASSUME NEW a \in Byte, NEW b \in Byte, \A k \in Weights8 : On(a, k) <=> On(b, k)
  PROVE  a = b
<1> DEFINE bit(x, k) == (x \div k) % 2
           sum(x) == bit(x, 1) + 2 * bit(x, 2) + 4 * bit(x, 4) + 8 * bit(x, 8)
                       + 16 * bit(x, 16) + 32 * bit(x, 32) + 64 * bit(x, 64)
                       + 128 * bit(x, 128)
<1>1. \A x \in Byte : x = sum(x)
  BY SMTT(60) DEF Byte
<1>2. /\ bit(a, 1) = bit(b, 1) /\ bit(a, 2) = bit(b, 2) /\ bit(a, 4) = bit(b, 4)
      /\ bit(a, 8) = bit(b, 8) /\ bit(a, 16) = bit(b, 16) /\ bit(a, 32) = bit(b, 32)
      /\ bit(a, 64) = bit(b, 64) /\ bit(a, 128) = bit(b, 128)
  BY DEF Weights8, On, Byte
<1>. HIDE DEF bit
<1>3. sum(a) = sum(b)
  BY <1>2
<1>. QED
  BY <1>1, <1>3

\* The multiplication by x: every bit moves up, and the highest comes back as 27.
LEMMA XtimeBits ==
  \A a \in Byte :
    /\ xtime(a) \in Byte
    /\ On(xtime(a), 1) <=> On(a, 128)
    /\ On(xtime(a), 2) <=> (On(a, 1) # On(a, 128))
    /\ On(xtime(a), 4) <=> On(a, 2)
    /\ On(xtime(a), 8) <=> (On(a, 4) # On(a, 128))
    /\ On(xtime(a), 16) <=> (On(a, 8) # On(a, 128))
    /\ On(xtime(a), 32) <=> On(a, 16)
    /\ On(xtime(a), 64) <=> On(a, 32)
    /\ On(xtime(a), 128) <=> On(a, 64)
<1>. SUFFICES ASSUME NEW a \in Byte
     PROVE  /\ xtime(a) \in Byte
            /\ On(xtime(a), 1) <=> On(a, 128)
            /\ On(xtime(a), 2) <=> (On(a, 1) # On(a, 128))
            /\ On(xtime(a), 4) <=> On(a, 2)
            /\ On(xtime(a), 8) <=> (On(a, 4) # On(a, 128))
            /\ On(xtime(a), 16) <=> (On(a, 8) # On(a, 128))
            /\ On(xtime(a), 32) <=> On(a, 16)
            /\ On(xtime(a), 64) <=> On(a, 32)
            /\ On(xtime(a), 128) <=> On(a, 64)
  OBVIOUS
<1> DEFINE up == (2 * a) % 256
           carry == IF a >= 128 THEN 27 ELSE 0
<1>1. up \in Byte /\ carry \in Byte
  BY DEF Byte
<1>2. xtime(a) = Xor(up, carry)
  BY DEF xtime
<1>3. /\ ~ On(up, 1)
      /\ On(up, 2) <=> On(a, 1)
      /\ On(up, 4) <=> On(a, 2)
      /\ On(up, 8) <=> On(a, 4)
      /\ On(up, 16) <=> On(a, 8)
      /\ On(up, 32) <=> On(a, 16)
      /\ On(up, 64) <=> On(a, 32)
      /\ On(up, 128) <=> On(a, 64)
  BY SMTT(60) DEF On, Byte
<1>4. /\ On(carry, 1) <=> On(a, 128)
      /\ On(carry, 2) <=> On(a, 128)
      /\ ~ On(carry, 4)
      /\ On(carry, 8) <=> On(a, 128)
      /\ On(carry, 16) <=> On(a, 128)
      /\ ~ On(carry, 32) /\ ~ On(carry, 64) /\ ~ On(carry, 128)
  BY DEF On, Byte
<1>. HIDE DEF up, carry
<1>5. \A k \in Weights8 : On(xtime(a), k) <=> (On(up, k) # On(carry, k))
  BY <1>1, <1>2, XorBits
<1>6. \A x, k : On(x, k) \in BOOLEAN
  BY DEF On
<1>7. xtime(a) \in Byte
  BY <1>1, <1>2, XorByte, Zenon
<1>. HIDE DEF On
<1>. QED
  BY <1>3, <1>4, <1>5, <1>6, <1>7 DEF Weights8

\* The hardware's table of inverses inverts the software's table, in all 256 places.
LEMMA InverseTable == \A n \in 1..256 : InvSubBytesTable[aes_sbox[n] + 1] = n - 1
BY SMTT(200) DEF InvSubBytesTable, aes_sbox

\* The bits of the products with 2 in gf_mul are those of the multiplication by x.
LEMMA Table2 ==
  \A n \in 1..256 :
    /\ On(gf_mul[1][n], 1) <=> On(n - 1, 128)
    /\ On(gf_mul[1][n], 2) <=> (On(n - 1, 1) # On(n - 1, 128))
    /\ On(gf_mul[1][n], 4) <=> On(n - 1, 2)
    /\ On(gf_mul[1][n], 8) <=> (On(n - 1, 4) # On(n - 1, 128))
    /\ On(gf_mul[1][n], 16) <=> (On(n - 1, 8) # On(n - 1, 128))
    /\ On(gf_mul[1][n], 32) <=> On(n - 1, 16)
    /\ On(gf_mul[1][n], 64) <=> On(n - 1, 32)
    /\ On(gf_mul[1][n], 128) <=> On(n - 1, 64)
BY SMTT(200) DEF gf_mul, On

\* And the products with 3 are the sums of those with 2 and the bytes.
LEMMA Table3 ==
  \A n \in 1..256 : \A k \in Weights8 :
    On(gf_mul[2][n], k) <=> (On(gf_mul[1][n], k) # On(n - 1, k))
BY SMTT(200) DEF gf_mul, On, Weights8

\* The software's products with 2 and 3 are those of the multiplication by x.
LEMMA SoftwareProducts ==
  \A b \in Byte : /\ GfMul(b, 0) \in Byte /\ GfMul(b, 1) \in Byte
                  /\ GfMul(b, 0) = xtime(b)
                  /\ GfMul(b, 1) = Xor(xtime(b), b)
<1>1. \A b \in Byte : GfMul(b, 0) \in Byte /\ GfMul(b, 1) \in Byte
  BY GfMulType
<1>2. ASSUME NEW b \in Byte PROVE GfMul(b, 0) = xtime(b) /\ GfMul(b, 1) = Xor(xtime(b), b)
  <2>1. b + 1 \in 1..256 /\ (b + 1) - 1 = b /\ 0 + 1 = 1 /\ 1 + 1 = 2
    BY DEF Byte
  <2>2. GfMul(b, 0) = gf_mul[1][b + 1] /\ GfMul(b, 1) = gf_mul[2][b + 1]
    BY <2>1, Zenon DEF GfMul
  <2>3. \A x, k : On(x, k) \in BOOLEAN
    BY DEF On
  <2>4. \A k \in Weights8 : On(GfMul(b, 0), k) <=> On(xtime(b), k)
    <3> DEFINE n == b + 1
    <3>1. /\ On(gf_mul[1][n], 1) <=> On(n - 1, 128)
          /\ On(gf_mul[1][n], 2) <=> (On(n - 1, 1) # On(n - 1, 128))
          /\ On(gf_mul[1][n], 4) <=> On(n - 1, 2)
          /\ On(gf_mul[1][n], 8) <=> (On(n - 1, 4) # On(n - 1, 128))
          /\ On(gf_mul[1][n], 16) <=> (On(n - 1, 8) # On(n - 1, 128))
          /\ On(gf_mul[1][n], 32) <=> On(n - 1, 16)
          /\ On(gf_mul[1][n], 64) <=> On(n - 1, 32)
          /\ On(gf_mul[1][n], 128) <=> On(n - 1, 64)
      BY <2>1, Table2, Zenon
    <3>2. n - 1 = b
      BY <2>1
    <3>3. gf_mul[1][n] = GfMul(b, 0)
      BY <2>2
    <3>. HIDE DEF n
    <3>4. /\ On(GfMul(b, 0), 1) <=> On(b, 128)
          /\ On(GfMul(b, 0), 2) <=> (On(b, 1) # On(b, 128))
          /\ On(GfMul(b, 0), 4) <=> On(b, 2)
          /\ On(GfMul(b, 0), 8) <=> (On(b, 4) # On(b, 128))
          /\ On(GfMul(b, 0), 16) <=> (On(b, 8) # On(b, 128))
          /\ On(GfMul(b, 0), 32) <=> On(b, 16)
          /\ On(GfMul(b, 0), 64) <=> On(b, 32)
          /\ On(GfMul(b, 0), 128) <=> On(b, 64)
      BY <3>1, <3>2, <3>3
    <3>. QED
      BY <2>3, <3>4, XtimeBits DEF Weights8
  <2>5. GfMul(b, 0) = xtime(b)
    BY <1>1, <2>4, SameBits, XtimeBits, SMTT(30)
  <2>6. Xor(xtime(b), b) \in Byte
    BY XtimeBits, XorByte
  <2>7. ASSUME NEW k \in Weights8 PROVE On(GfMul(b, 1), k) <=> On(Xor(xtime(b), b), k)
    <3>1. On(gf_mul[2][b + 1], k) <=> (On(gf_mul[1][b + 1], k) # On((b + 1) - 1, k))
      BY <2>1, Table3, Zenon
    <3>2. On(GfMul(b, 1), k) <=> (On(xtime(b), k) # On(b, k))
      BY <2>1, <2>2, <2>5, <3>1
    <3>. QED
      BY <2>3, <3>2, XtimeBits, XorBits
  <2>. QED
    BY <1>1, <2>5, <2>6, <2>7, SameBits
<1>. QED
  BY <1>1, <1>2

\* The multiplication by x is linear.
LEMMA XtimeSum ==
  \A a, b \in Byte : xtime(Xor(a, b)) = Xor(xtime(a), xtime(b))
<1>. SUFFICES ASSUME NEW a \in Byte, NEW b \in Byte
     PROVE  xtime(Xor(a, b)) = Xor(xtime(a), xtime(b))
  OBVIOUS
<1>1. /\ Xor(a, b) \in Byte /\ xtime(a) \in Byte /\ xtime(b) \in Byte
      /\ xtime(Xor(a, b)) \in Byte /\ Xor(xtime(a), xtime(b)) \in Byte
  BY XorByte, XtimeBits
<1>2. \A x, k : On(x, k) \in BOOLEAN
  BY DEF On
<1>3. \A k \in Weights8 : /\ On(Xor(a, b), k) <=> (On(a, k) # On(b, k))
                          /\ On(Xor(xtime(a), xtime(b)), k) <=> (On(xtime(a), k) # On(xtime(b), k))
  BY <1>1, XorBits
<1>4. \A k \in Weights8 : On(xtime(Xor(a, b)), k) <=> On(Xor(xtime(a), xtime(b)), k)
  BY <1>1, <1>2, <1>3, XtimeBits DEF Weights8
<1>. QED
  BY <1>1, <1>4, SameBits

\* Sums of four bytes may be added in any order.
LEMMA XorMedial ==
  \A a, b, c, d \in Byte : Xor(Xor(a, b), Xor(c, d)) = Xor(Xor(a, c), Xor(b, d))
<1>. SUFFICES ASSUME NEW a \in Byte, NEW b \in Byte, NEW c \in Byte, NEW d \in Byte
     PROVE  Xor(Xor(a, b), Xor(c, d)) = Xor(Xor(a, c), Xor(b, d))
  OBVIOUS
<1>1. /\ Xor(a, b) \in Byte /\ Xor(c, d) \in Byte /\ Xor(a, c) \in Byte /\ Xor(b, d) \in Byte
  BY XorByte
<1>2. /\ Xor(Xor(a, b), Xor(c, d)) \in Byte /\ Xor(Xor(a, c), Xor(b, d)) \in Byte
  BY <1>1, XorByte
<1>3. ASSUME NEW k \in Weights8
      PROVE  On(Xor(Xor(a, b), Xor(c, d)), k) <=> On(Xor(Xor(a, c), Xor(b, d)), k)
  <2>1. \A x, y : On(x, y) \in BOOLEAN
    BY DEF On
  <2>. QED
    BY <1>1, <2>1, XorBits
<1>. QED
  BY <1>2, <1>3, SameBits

\* What the four multipliers of InvMixColumns.sv make of a sum is the sum of what
\* they make of its parts.
LEMMA ProductSums ==
  \A a, b \in Byte :
    /\ GF_Mul_9(a) \in Byte /\ GF_Mul_9(Xor(a, b)) = Xor(GF_Mul_9(a), GF_Mul_9(b))
    /\ GF_Mul_b(a) \in Byte /\ GF_Mul_b(Xor(a, b)) = Xor(GF_Mul_b(a), GF_Mul_b(b))
    /\ GF_Mul_d(a) \in Byte /\ GF_Mul_d(Xor(a, b)) = Xor(GF_Mul_d(a), GF_Mul_d(b))
    /\ GF_Mul_e(a) \in Byte /\ GF_Mul_e(Xor(a, b)) = Xor(GF_Mul_e(a), GF_Mul_e(b))
<1>. SUFFICES ASSUME NEW a \in Byte, NEW b \in Byte
     PROVE
    /\ GF_Mul_9(a) \in Byte /\ GF_Mul_9(Xor(a, b)) = Xor(GF_Mul_9(a), GF_Mul_9(b))
    /\ GF_Mul_b(a) \in Byte /\ GF_Mul_b(Xor(a, b)) = Xor(GF_Mul_b(a), GF_Mul_b(b))
    /\ GF_Mul_d(a) \in Byte /\ GF_Mul_d(Xor(a, b)) = Xor(GF_Mul_d(a), GF_Mul_d(b))
    /\ GF_Mul_e(a) \in Byte /\ GF_Mul_e(Xor(a, b)) = Xor(GF_Mul_e(a), GF_Mul_e(b))
  OBVIOUS
<1> DEFINE a1 == xtime(a)  a2 == xtime(a1)  a3 == xtime(a2)
           b1 == xtime(b)  b2 == xtime(b1)  b3 == xtime(b2)
           s == Xor(a, b)  s1 == xtime(s)   s2 == xtime(s1)  s3 == xtime(s2)
<1>1. a1 \in Byte /\ a2 \in Byte /\ a3 \in Byte /\ b1 \in Byte /\ b2 \in Byte /\ b3 \in Byte
  BY XtimeBits
<1>2. s1 = Xor(a1, b1) /\ s2 = Xor(a2, b2) /\ s3 = Xor(a3, b3)
  BY <1>1, XtimeSum
<1>3. /\ GF_Mul_9(a) = Xor(a3, a) /\ GF_Mul_9(b) = Xor(b3, b) /\ GF_Mul_9(s) = Xor(s3, s)
  BY DEF GF_Mul_9
<1>4. /\ GF_Mul_b(a) = Xor(Xor(a3, a1), a) /\ GF_Mul_b(b) = Xor(Xor(b3, b1), b)
      /\ GF_Mul_b(s) = Xor(Xor(s3, s1), s)
  BY DEF GF_Mul_b
<1>5. /\ GF_Mul_d(a) = Xor(Xor(a3, a2), a) /\ GF_Mul_d(b) = Xor(Xor(b3, b2), b)
      /\ GF_Mul_d(s) = Xor(Xor(s3, s2), s)
  BY DEF GF_Mul_d
<1>6. /\ GF_Mul_e(a) = Xor(Xor(a3, a2), a1) /\ GF_Mul_e(b) = Xor(Xor(b3, b2), b1)
      /\ GF_Mul_e(s) = Xor(Xor(s3, s2), s1)
  BY DEF GF_Mul_e
<1>. HIDE DEF a1, a2, a3, b1, b2, b3, s1, s2, s3
<1>7. /\ Xor(a3, a1) \in Byte /\ Xor(b3, b1) \in Byte /\ Xor(a3, a2) \in Byte /\ Xor(b3, b2) \in Byte
  BY <1>1, XorByte
<1>8. /\ GF_Mul_9(a) \in Byte /\ GF_Mul_b(a) \in Byte /\ GF_Mul_d(a) \in Byte /\ GF_Mul_e(a) \in Byte
  BY <1>1, <1>3, <1>4, <1>5, <1>6, <1>7, XorByte
<1>9. GF_Mul_9(s) = Xor(GF_Mul_9(a), GF_Mul_9(b))
  BY <1>1, <1>2, <1>3, XorMedial
<1>10. Xor(s3, s1) = Xor(Xor(a3, a1), Xor(b3, b1)) /\ Xor(s3, s2) = Xor(Xor(a3, a2), Xor(b3, b2))
  BY <1>1, <1>2, XorMedial
<1>11. GF_Mul_b(s) = Xor(GF_Mul_b(a), GF_Mul_b(b))
  BY <1>1, <1>4, <1>7, <1>10, XorMedial
<1>12. GF_Mul_d(s) = Xor(GF_Mul_d(a), GF_Mul_d(b))
  BY <1>1, <1>5, <1>7, <1>10, XorMedial
<1>13. GF_Mul_e(s) = Xor(GF_Mul_e(a), GF_Mul_e(b))
  BY <1>1, <1>2, <1>6, <1>7, <1>10, XorMedial
<1>. QED
  BY <1>8, <1>9, <1>11, <1>12, <1>13

\* The polynomial of the decryption times that of the encryption is 1: of what a
\* byte contributes to a column, its own place gets the byte, ...
LEMMA OwnPlace ==
  \A a \in Byte :
    Xor4(GF_Mul_e(xtime(a)), GF_Mul_b(a), GF_Mul_d(a), GF_Mul_9(Xor(xtime(a), a))) = a
<1>. SUFFICES ASSUME NEW a \in Byte
     PROVE  Xor4(GF_Mul_e(xtime(a)), GF_Mul_b(a), GF_Mul_d(a), GF_Mul_9(Xor(xtime(a), a))) = a
  OBVIOUS
<1> DEFINE a1 == xtime(a)  a2 == xtime(a1)  a3 == xtime(a2)  a4 == xtime(a3)
           p == Xor(Xor(a4, a3), a2)  q == Xor(Xor(a3, a1), a)
           u == Xor(Xor(a3, a2), a)   v == Xor(Xor(a4, a1), Xor(a3, a))
<1>1. a1 \in Byte /\ a2 \in Byte /\ a3 \in Byte /\ a4 \in Byte
  BY XtimeBits
<1>2. /\ GF_Mul_e(a1) = p /\ GF_Mul_b(a) = q /\ GF_Mul_d(a) = u
      /\ GF_Mul_9(a1) = Xor(a4, a1) /\ GF_Mul_9(a) = Xor(a3, a)
  BY DEF GF_Mul_e, GF_Mul_b, GF_Mul_d, GF_Mul_9
<1>. HIDE DEF a1, a2, a3, a4
<1>3. GF_Mul_9(Xor(a1, a)) = v
  BY <1>1, <1>2, ProductSums
<1>4. /\ Xor(a4, a3) \in Byte /\ Xor(a3, a1) \in Byte /\ Xor(a3, a2) \in Byte
      /\ Xor(a4, a1) \in Byte /\ Xor(a3, a) \in Byte
  BY <1>1, XorByte
<1>5. p \in Byte /\ q \in Byte /\ u \in Byte /\ v \in Byte
  BY <1>1, <1>4, XorByte
<1>6. Xor(p, q) \in Byte /\ Xor(u, v) \in Byte /\ Xor(Xor(p, q), Xor(u, v)) \in Byte
  BY <1>5, XorByte
<1>7. ASSUME NEW k \in Weights8 PROVE On(Xor(Xor(p, q), Xor(u, v)), k) <=> On(a, k)
  <2>1. \A x, y : On(x, y) \in BOOLEAN
    BY DEF On
  <2>2. /\ On(p, k) <=> ((On(a4, k) # On(a3, k)) # On(a2, k))
        /\ On(q, k) <=> ((On(a3, k) # On(a1, k)) # On(a, k))
        /\ On(u, k) <=> ((On(a3, k) # On(a2, k)) # On(a, k))
        /\ On(v, k) <=> ((On(a4, k) # On(a1, k)) # (On(a3, k) # On(a, k)))
    BY <1>1, <1>4, <2>1, XorBits
  <2>. HIDE DEF p, q, u, v
  <2>3. On(Xor(Xor(p, q), Xor(u, v)), k) <=> ((On(p, k) # On(q, k)) # (On(u, k) # On(v, k)))
    BY <1>5, <1>6, <2>1, XorBits
  <2>. QED
    BY <2>1, <2>2, <2>3
<1>8. Xor(Xor(p, q), Xor(u, v)) = a
  BY <1>6, <1>7, SameBits
<1>. QED
  BY <1>2, <1>3, <1>8 DEF Xor4, a1

\* ... and the others nothing.
LEMMA OtherPlaces ==
  \A a \in Byte :
    /\ Xor4(GF_Mul_e(Xor(xtime(a), a)), GF_Mul_b(xtime(a)), GF_Mul_d(a), GF_Mul_9(a)) = 0
    /\ Xor4(GF_Mul_e(a), GF_Mul_b(Xor(xtime(a), a)), GF_Mul_d(xtime(a)), GF_Mul_9(a)) = 0
    /\ Xor4(GF_Mul_e(a), GF_Mul_b(a), GF_Mul_d(Xor(xtime(a), a)), GF_Mul_9(xtime(a))) = 0
<1>. TAKE a \in Byte
<1> DEFINE a1 == xtime(a)  a2 == xtime(a1)  a3 == xtime(a2)  a4 == xtime(a3)
           s == Xor(a1, a)
<1>1. a1 \in Byte /\ a2 \in Byte /\ a3 \in Byte /\ a4 \in Byte
  BY XtimeBits
<1>2. /\ GF_Mul_e(a) = Xor(Xor(a3, a2), a1) /\ GF_Mul_e(a1) = Xor(Xor(a4, a3), a2)
      /\ GF_Mul_b(a) = Xor(Xor(a3, a1), a) /\ GF_Mul_b(a1) = Xor(Xor(a4, a2), a1)
      /\ GF_Mul_d(a) = Xor(Xor(a3, a2), a) /\ GF_Mul_d(a1) = Xor(Xor(a4, a3), a1)
      /\ GF_Mul_9(a) = Xor(a3, a) /\ GF_Mul_9(a1) = Xor(a4, a1)
  BY DEF GF_Mul_e, GF_Mul_b, GF_Mul_d, GF_Mul_9
<1>. HIDE DEF a1, a2, a3, a4
<1>3. /\ GF_Mul_e(s) = Xor(GF_Mul_e(a1), GF_Mul_e(a))
      /\ GF_Mul_b(s) = Xor(GF_Mul_b(a1), GF_Mul_b(a))
      /\ GF_Mul_d(s) = Xor(GF_Mul_d(a1), GF_Mul_d(a))
  BY <1>1, ProductSums
<1>4. /\ GF_Mul_e(a) \in Byte /\ GF_Mul_b(a) \in Byte /\ GF_Mul_d(a) \in Byte
      /\ GF_Mul_9(a) \in Byte
      /\ GF_Mul_e(a1) \in Byte /\ GF_Mul_b(a1) \in Byte /\ GF_Mul_d(a1) \in Byte
      /\ GF_Mul_9(a1) \in Byte
  BY <1>1, ProductSums
<1>5. GF_Mul_e(s) \in Byte /\ GF_Mul_b(s) \in Byte /\ GF_Mul_d(s) \in Byte
  BY <1>3, <1>4, XorByte
\* Of a sum of four to be 0 each bit occurs an even number of times.
<1>6. ASSUME NEW p \in Byte, NEW q \in Byte, NEW u \in Byte, NEW v \in Byte,
             \A k \in Weights8 : ~ ((On(p, k) # On(q, k)) # (On(u, k) # On(v, k)))
      PROVE  Xor4(p, q, u, v) = 0
  <2>. Xor(p, q) \in Byte /\ Xor(u, v) \in Byte
    BY XorByte
  <2>. 0 \in Byte
    BY DEF Byte
  <2>1. Xor(Xor(p, q), Xor(u, v)) \in Byte
    BY XorByte
  <2>2. ASSUME NEW k \in Weights8
        PROVE  On(Xor(Xor(p, q), Xor(u, v)), k) <=> On(0, k)
    <3>1. ~ On(0, k)
      BY DEF On, Weights8
    <3>2. \A x, y : On(x, y) \in BOOLEAN
      BY DEF On
    <3>3. On(Xor(Xor(p, q), Xor(u, v)), k) <=> ((On(p, k) # On(q, k)) # (On(u, k) # On(v, k)))
      BY <2>1, <3>2, XorBits
    <3>. QED
      BY <1>6, <3>1, <3>3
  <2>3. Xor(Xor(p, q), Xor(u, v)) = 0
    BY <2>1, <2>2, SameBits
  <2>. QED
    BY <2>3 DEF Xor4
<1>7. ASSUME NEW k \in Weights8
      PROVE  /\ On(GF_Mul_e(a), k) <=> ((On(a3, k) # On(a2, k)) # On(a1, k))
             /\ On(GF_Mul_e(a1), k) <=> ((On(a4, k) # On(a3, k)) # On(a2, k))
             /\ On(GF_Mul_b(a), k) <=> ((On(a3, k) # On(a1, k)) # On(a, k))
             /\ On(GF_Mul_b(a1), k) <=> ((On(a4, k) # On(a2, k)) # On(a1, k))
             /\ On(GF_Mul_d(a), k) <=> ((On(a3, k) # On(a2, k)) # On(a, k))
             /\ On(GF_Mul_d(a1), k) <=> ((On(a4, k) # On(a3, k)) # On(a1, k))
             /\ On(GF_Mul_9(a), k) <=> (On(a3, k) # On(a, k))
             /\ On(GF_Mul_9(a1), k) <=> (On(a4, k) # On(a1, k))
             /\ On(GF_Mul_e(s), k) <=> (On(GF_Mul_e(a1), k) # On(GF_Mul_e(a), k))
             /\ On(GF_Mul_b(s), k) <=> (On(GF_Mul_b(a1), k) # On(GF_Mul_b(a), k))
             /\ On(GF_Mul_d(s), k) <=> (On(GF_Mul_d(a1), k) # On(GF_Mul_d(a), k))
  <2>1. \A x, y : On(x, y) \in BOOLEAN
    BY DEF On
  <2>2. /\ Xor(a3, a2) \in Byte /\ Xor(a4, a3) \in Byte /\ Xor(a3, a1) \in Byte
        /\ Xor(a4, a2) \in Byte
    BY <1>1, XorByte
  <2>3. /\ On(Xor(a3, a2), k) <=> (On(a3, k) # On(a2, k))
        /\ On(Xor(a4, a3), k) <=> (On(a4, k) # On(a3, k))
        /\ On(Xor(a3, a1), k) <=> (On(a3, k) # On(a1, k))
        /\ On(Xor(a4, a2), k) <=> (On(a4, k) # On(a2, k))
    BY <1>1, XorBits
  <2>4. /\ On(GF_Mul_e(s), k) <=> (On(GF_Mul_e(a1), k) # On(GF_Mul_e(a), k))
        /\ On(GF_Mul_b(s), k) <=> (On(GF_Mul_b(a1), k) # On(GF_Mul_b(a), k))
        /\ On(GF_Mul_d(s), k) <=> (On(GF_Mul_d(a1), k) # On(GF_Mul_d(a), k))
    BY <1>3, <1>4, XorBits
  <2>5. /\ On(GF_Mul_e(a), k) <=> (On(Xor(a3, a2), k) # On(a1, k))
        /\ On(GF_Mul_e(a1), k) <=> (On(Xor(a4, a3), k) # On(a2, k))
        /\ On(GF_Mul_b(a), k) <=> (On(Xor(a3, a1), k) # On(a, k))
        /\ On(GF_Mul_b(a1), k) <=> (On(Xor(a4, a2), k) # On(a1, k))
        /\ On(GF_Mul_d(a), k) <=> (On(Xor(a3, a2), k) # On(a, k))
        /\ On(GF_Mul_d(a1), k) <=> (On(Xor(a4, a3), k) # On(a1, k))
        /\ On(GF_Mul_9(a), k) <=> (On(a3, k) # On(a, k))
        /\ On(GF_Mul_9(a1), k) <=> (On(a4, k) # On(a1, k))
    BY <1>1, <1>2, <2>2, XorBits
  <2>. QED
    BY <2>1, <2>3, <2>4, <2>5
<1>8. \A x, y : On(x, y) \in BOOLEAN
  BY DEF On
<1>. HIDE DEF s
<1>9. Xor4(GF_Mul_e(s), GF_Mul_b(a1), GF_Mul_d(a), GF_Mul_9(a)) = 0
  <2>1. \A k \in Weights8 : ~ ((On(GF_Mul_e(s), k) # On(GF_Mul_b(a1), k))
                                 # (On(GF_Mul_d(a), k) # On(GF_Mul_9(a), k)))
    BY <1>7, <1>8
  <2>. QED
    BY <1>4, <1>5, <1>6, <2>1
<1>10. Xor4(GF_Mul_e(a), GF_Mul_b(s), GF_Mul_d(a1), GF_Mul_9(a)) = 0
  <2>1. \A k \in Weights8 : ~ ((On(GF_Mul_e(a), k) # On(GF_Mul_b(s), k))
                                 # (On(GF_Mul_d(a1), k) # On(GF_Mul_9(a), k)))
    BY <1>7, <1>8
  <2>. QED
    BY <1>4, <1>5, <1>6, <2>1
<1>11. Xor4(GF_Mul_e(a), GF_Mul_b(a), GF_Mul_d(s), GF_Mul_9(a1)) = 0
  <2>1. \A k \in Weights8 : ~ ((On(GF_Mul_e(a), k) # On(GF_Mul_b(a), k))
                                 # (On(GF_Mul_d(s), k) # On(GF_Mul_9(a1), k)))
    BY <1>7, <1>8
  <2>. QED
    BY <1>4, <1>5, <1>6, <2>1
<1>. QED
  BY <1>9, <1>10, <1>11 DEF s, a1

\* Four sums of four, added the other way.
LEMMA XorTranspose ==
  ASSUME NEW a \in Word, NEW b \in Word,
         NEW c \in Word, NEW d \in Word
  PROVE  Xor4(Xor4(a[1], a[2], a[3], a[4]), Xor4(b[1], b[2], b[3], b[4]),
              Xor4(c[1], c[2], c[3], c[4]), Xor4(d[1], d[2], d[3], d[4]))
           = Xor4(Xor4(a[1], b[1], c[1], d[1]), Xor4(a[2], b[2], c[2], d[2]),
                  Xor4(a[3], b[3], c[3], d[3]), Xor4(a[4], b[4], c[4], d[4]))
<1> DEFINE Sum(x, m, n) == Xor(x[m], x[n])
           Both(x, y, m, n) == Xor(Sum(x, m, n), Sum(y, m, n))
           Across(m) == Xor4(a[m], b[m], c[m], d[m])
<1>1. ASSUME NEW x \in Word, NEW y \in Word, NEW m \in 1..4, NEW n \in 1..4
      PROVE  /\ Sum(x, m, n) \in Byte /\ Both(x, y, m, n) \in Byte
             /\ Xor(x[m], y[m]) \in Byte /\ Xor(x[n], y[n]) \in Byte
             /\ Both(x, y, m, n) = Xor(Xor(x[m], y[m]), Xor(x[n], y[n]))
  <2>1. x[m] \in Byte /\ x[n] \in Byte /\ y[m] \in Byte /\ y[n] \in Byte
    BY DEF Word
  <2>2. /\ Xor(x[m], x[n]) \in Byte /\ Xor(y[m], y[n]) \in Byte
        /\ Xor(x[m], y[m]) \in Byte /\ Xor(x[n], y[n]) \in Byte
    BY <2>1, XorByte, Zenon
  <2>3. Xor(Xor(x[m], x[n]), Xor(y[m], y[n])) \in Byte
    BY <2>2, XorByte, Zenon
  <2>4. Xor(Xor(x[m], x[n]), Xor(y[m], y[n])) = Xor(Xor(x[m], y[m]), Xor(x[n], y[n]))
    BY <2>1, XorMedial
  <2>. QED
    BY <2>2, <2>3, <2>4, Zenon
<1>. 1 \in 1..4 /\ 2 \in 1..4 /\ 3 \in 1..4 /\ 4 \in 1..4
  OBVIOUS
<1>2. ASSUME NEW x \in Word, NEW y \in Word
      PROVE  Xor(Xor4(x[1], x[2], x[3], x[4]), Xor4(y[1], y[2], y[3], y[4]))
               = Xor(Both(x, y, 1, 2), Both(x, y, 3, 4))
  <2>1. /\ Sum(x, 1, 2) \in Byte /\ Sum(x, 3, 4) \in Byte
        /\ Sum(y, 1, 2) \in Byte /\ Sum(y, 3, 4) \in Byte
    BY <1>1
  <2>2. Xor(Xor(Sum(x, 1, 2), Sum(x, 3, 4)), Xor(Sum(y, 1, 2), Sum(y, 3, 4)))
          = Xor(Xor(Sum(x, 1, 2), Sum(y, 1, 2)), Xor(Sum(x, 3, 4), Sum(y, 3, 4)))
    BY <2>1, XorMedial
  <2>. QED
    BY <2>2, Zenon DEF Xor4
<1>3. ASSUME NEW m \in 1..4, NEW n \in 1..4
      PROVE  Xor(Both(a, b, m, n), Both(c, d, m, n)) = Xor(Across(m), Across(n))
  <2>1. /\ Xor(a[m], b[m]) \in Byte /\ Xor(a[n], b[n]) \in Byte
        /\ Both(a, b, m, n) = Xor(Xor(a[m], b[m]), Xor(a[n], b[n]))
    BY <1>1
  <2>2. /\ Xor(c[m], d[m]) \in Byte /\ Xor(c[n], d[n]) \in Byte
        /\ Both(c, d, m, n) = Xor(Xor(c[m], d[m]), Xor(c[n], d[n]))
    BY <1>1
  <2>3. Xor(Xor(Xor(a[m], b[m]), Xor(a[n], b[n])), Xor(Xor(c[m], d[m]), Xor(c[n], d[n])))
          = Xor(Xor(Xor(a[m], b[m]), Xor(c[m], d[m])), Xor(Xor(a[n], b[n]), Xor(c[n], d[n])))
    BY <2>1, <2>2, XorMedial, ZenonT(40)
  <2>4. /\ Across(m) = Xor(Xor(a[m], b[m]), Xor(c[m], d[m]))
        /\ Across(n) = Xor(Xor(a[n], b[n]), Xor(c[n], d[n]))
    BY Zenon DEF Xor4
  <2>. HIDE DEF Both, Across
  <2>. QED
    BY <2>1, <2>2, <2>3, <2>4
<1>4. /\ Both(a, b, 1, 2) \in Byte /\ Both(a, b, 3, 4) \in Byte
      /\ Both(c, d, 1, 2) \in Byte /\ Both(c, d, 3, 4) \in Byte
  BY <1>1
<1>. HIDE DEF Both
<1>5. Xor(Xor(Both(a, b, 1, 2), Both(a, b, 3, 4)), Xor(Both(c, d, 1, 2), Both(c, d, 3, 4)))
        = Xor(Xor(Both(a, b, 1, 2), Both(c, d, 1, 2)), Xor(Both(a, b, 3, 4), Both(c, d, 3, 4)))
  BY <1>4, XorMedial
<1>. HIDE DEF Across
<1>6. Xor4(Xor4(a[1], a[2], a[3], a[4]), Xor4(b[1], b[2], b[3], b[4]),
           Xor4(c[1], c[2], c[3], c[4]), Xor4(d[1], d[2], d[3], d[4]))
        = Xor(Xor(Both(a, b, 1, 2), Both(a, b, 3, 4)), Xor(Both(c, d, 1, 2), Both(c, d, 3, 4)))
  <2> DEFINE A == Xor4(a[1], a[2], a[3], a[4])  B == Xor4(b[1], b[2], b[3], b[4])
             C == Xor4(c[1], c[2], c[3], c[4])  D == Xor4(d[1], d[2], d[3], d[4])
  <2>1. /\ Xor(A, B) = Xor(Both(a, b, 1, 2), Both(a, b, 3, 4))
        /\ Xor(C, D) = Xor(Both(c, d, 1, 2), Both(c, d, 3, 4))
    BY <1>2
  <2>. HIDE DEF A, B, C, D
  <2>2. Xor4(A, B, C, D) = Xor(Xor(A, B), Xor(C, D))
    BY DEF Xor4
  <2>3. Xor4(A, B, C, D) = Xor(Xor(Both(a, b, 1, 2), Both(a, b, 3, 4)),
                               Xor(Both(c, d, 1, 2), Both(c, d, 3, 4)))
    BY <2>1, <2>2, Zenon
  <2>. QED
    BY <2>3, Zenon DEF A, B, C, D
<1>7. /\ Xor(Both(a, b, 1, 2), Both(c, d, 1, 2)) = Xor(Across(1), Across(2))
      /\ Xor(Both(a, b, 3, 4), Both(c, d, 3, 4)) = Xor(Across(3), Across(4))
  BY <1>3
<1>8. Xor4(Across(1), Across(2), Across(3), Across(4))
        = Xor(Xor(Across(1), Across(2)), Xor(Across(3), Across(4)))
  BY DEF Xor4
<1>. QED
  BY <1>5, <1>6, <1>7, <1>8, Zenon DEF Across

\* The order of four does not matter, as far as the columns need it.
LEMMA XorTurns ==
  \A a, b, c, d \in Byte : /\ Xor4(a, b, c, d) \in Byte
                           /\ Xor4(a, b, c, d) = Xor4(b, c, d, a)
                           /\ Xor4(a, b, c, d) = Xor4(c, d, a, b)
                           /\ Xor4(a, b, c, d) = Xor4(d, a, b, c)
<1>1. ASSUME NEW a \in Byte, NEW b \in Byte, NEW c \in Byte, NEW d \in Byte
      PROVE  Xor4(a, b, c, d) \in Byte /\ Xor4(a, b, c, d) = Xor4(b, c, d, a)
  <2>1. /\ Xor(a, b) \in Byte /\ Xor(c, d) \in Byte /\ Xor(b, d) \in Byte /\ Xor(a, c) \in Byte
        /\ Xor(c, a) = Xor(a, c)
    BY XorByte, XorCommutes
  <2>2. /\ Xor(Xor(a, b), Xor(c, d)) = Xor(Xor(a, c), Xor(b, d))
        /\ Xor(Xor(b, c), Xor(d, a)) = Xor(Xor(b, d), Xor(c, a))
        /\ Xor(Xor(a, b), Xor(c, d)) \in Byte
        /\ Xor(Xor(a, c), Xor(b, d)) = Xor(Xor(b, d), Xor(a, c))
    BY <2>1, XorByte, XorCommutes, XorMedial
  <2>. QED
    BY <2>1, <2>2 DEF Xor4
<1>. QED
  BY <1>1

\* And what the multipliers make of a sum of four.
LEMMA ProductSums4 ==
  \A a, b, c, d \in Byte :
    /\ GF_Mul_9(Xor4(a, b, c, d)) = Xor4(GF_Mul_9(a), GF_Mul_9(b), GF_Mul_9(c), GF_Mul_9(d))
    /\ GF_Mul_b(Xor4(a, b, c, d)) = Xor4(GF_Mul_b(a), GF_Mul_b(b), GF_Mul_b(c), GF_Mul_b(d))
    /\ GF_Mul_d(Xor4(a, b, c, d)) = Xor4(GF_Mul_d(a), GF_Mul_d(b), GF_Mul_d(c), GF_Mul_d(d))
    /\ GF_Mul_e(Xor4(a, b, c, d)) = Xor4(GF_Mul_e(a), GF_Mul_e(b), GF_Mul_e(c), GF_Mul_e(d))
<1>. TAKE a, b, c, d \in Byte
<1>1. Xor(a, b) \in Byte /\ Xor(c, d) \in Byte
  BY XorByte
<1>2. GF_Mul_9(Xor4(a, b, c, d)) = Xor4(GF_Mul_9(a), GF_Mul_9(b), GF_Mul_9(c), GF_Mul_9(d))
  BY <1>1, ProductSums DEF Xor4
<1>3. GF_Mul_b(Xor4(a, b, c, d)) = Xor4(GF_Mul_b(a), GF_Mul_b(b), GF_Mul_b(c), GF_Mul_b(d))
  BY <1>1, ProductSums DEF Xor4
<1>4. GF_Mul_d(Xor4(a, b, c, d)) = Xor4(GF_Mul_d(a), GF_Mul_d(b), GF_Mul_d(c), GF_Mul_d(d))
  BY <1>1, ProductSums DEF Xor4
<1>5. GF_Mul_e(Xor4(a, b, c, d)) = Xor4(GF_Mul_e(a), GF_Mul_e(b), GF_Mul_e(c), GF_Mul_e(d))
  BY <1>1, ProductSums DEF Xor4
<1>. QED
  BY <1>2, <1>3, <1>4, <1>5

\* A column the software mixed is the column again (main.c:226-237, InvMixColumns.sv).
LEMMA ColumnBack ==
  ASSUME NEW p \in [0..3 -> Byte]
  PROVE  InvMixColumns([k \in 0..3 |-> MixByte(p, k)]) = p
<1> DEFINE mixed == [k \in 0..3 |-> MixByte(p, k)]
<1>1. ASSUME NEW k \in 0..3 PROVE InvMixColumns(mixed)[k] = p[k]
  <2> DEFINE a == p[k]  b == p[(k + 1) % 4]  c == p[(k + 2) % 4]  d == p[(k + 3) % 4]
             a2 == xtime(a)  a3 == Xor(a2, a)  b2 == xtime(b)  b3 == Xor(b2, b)
             c2 == xtime(c)  c3 == Xor(c2, c)  d2 == xtime(d)  d3 == Xor(d2, d)
  <2>1. /\ (k + 1) % 4 \in 0..3 /\ (k + 2) % 4 \in 0..3 /\ (k + 3) % 4 \in 0..3
        /\ (k + 0) % 4 = k
    OBVIOUS
  <2>2. a \in Byte /\ b \in Byte /\ c \in Byte /\ d \in Byte
    BY <2>1
  <2>3. /\ a2 \in Byte /\ b2 \in Byte /\ c2 \in Byte /\ d2 \in Byte
    BY <2>2, XtimeBits
  <2>4. /\ a3 \in Byte /\ b3 \in Byte /\ c3 \in Byte /\ d3 \in Byte
    BY <2>2, <2>3, XorByte
  <2>5. /\ mixed[k] = Xor4(a2, b3, c, d)
        /\ mixed[(k + 1) % 4] = Xor4(b2, c3, d, a)
        /\ mixed[(k + 2) % 4] = Xor4(c2, d3, a, b)
        /\ mixed[(k + 3) % 4] = Xor4(d2, a3, b, c)
    <3>1. ASSUME NEW n \in 0..3
          PROVE  mixed[n] = Xor4(xtime(p[n]), Xor(xtime(p[(n + 1) % 4]), p[(n + 1) % 4]),
                                 p[(n + 2) % 4], p[(n + 3) % 4])
      <4>1. /\ (n + 0) % 4 = n /\ (n + 1) % 4 \in 0..3 /\ (n + 2) % 4 \in 0..3
            /\ (n + 3) % 4 \in 0..3
        OBVIOUS
      <4>2. mixed[n] = Xor4(GfMul(p[(n + 0) % 4], 0), GfMul(p[(n + 1) % 4], 1),
                            p[(n + 2) % 4], p[(n + 3) % 4])
        BY DEF MixByte
      <4>3. p[n] \in Byte /\ p[(n + 1) % 4] \in Byte
        BY <4>1
      <4>. QED
        BY <4>1, <4>2, <4>3, SoftwareProducts
    <3>2. /\ (((k + 1) % 4) + 1) % 4 = (k + 2) % 4 /\ (((k + 1) % 4) + 2) % 4 = (k + 3) % 4
          /\ (((k + 1) % 4) + 3) % 4 = k
          /\ (((k + 2) % 4) + 1) % 4 = (k + 3) % 4 /\ (((k + 2) % 4) + 2) % 4 = k
          /\ (((k + 2) % 4) + 3) % 4 = (k + 1) % 4
          /\ (((k + 3) % 4) + 1) % 4 = k /\ (((k + 3) % 4) + 2) % 4 = (k + 1) % 4
          /\ (((k + 3) % 4) + 3) % 4 = (k + 2) % 4
      OBVIOUS
    <3>. HIDE DEF mixed
    <3>3. mixed[k] = Xor4(a2, b3, c, d)
      BY <3>1
    <3>4. mixed[(k + 1) % 4] = Xor4(b2, c3, d, a)
      BY <2>1, <3>1, <3>2
    <3>5. mixed[(k + 2) % 4] = Xor4(c2, d3, a, b)
      BY <2>1, <3>1, <3>2
    <3>6. mixed[(k + 3) % 4] = Xor4(d2, a3, b, c)
      BY <2>1, <3>1, <3>2
    <3>. QED
      BY <3>3, <3>4, <3>5, <3>6
  <2>6. InvMixColumns(mixed)[k]
          = Xor4(GF_Mul_e(mixed[k]), GF_Mul_b(mixed[(k + 1) % 4]),
                 GF_Mul_d(mixed[(k + 2) % 4]), GF_Mul_9(mixed[(k + 3) % 4]))
    <3>. HIDE DEF mixed
    <3>. QED
      BY <2>1 DEF InvMixColumns
  <2>. HIDE DEF mixed, a, b, c, d, a2, b2, c2, d2, a3, b3, c3, d3
  <2>7. /\ mixed[(k + 1) % 4] = Xor4(a, b2, c3, d)
        /\ mixed[(k + 2) % 4] = Xor4(a, b, c2, d3)
        /\ mixed[(k + 3) % 4] = Xor4(a3, b, c, d2)
    <3>1. Xor4(b2, c3, d, a) = Xor4(a, b2, c3, d)
      BY <2>2, <2>3, <2>4, XorTurns
    <3>2. Xor4(c2, d3, a, b) = Xor4(a, b, c2, d3)
      BY <2>2, <2>3, <2>4, XorTurns
    <3>3. Xor4(d2, a3, b, c) = Xor4(a3, b, c, d2)
      BY <2>2, <2>3, <2>4, XorTurns
    <3>. QED
      BY <2>5, <3>1, <3>2, <3>3, Zenon
  <2>8. GF_Mul_e(mixed[k]) = Xor4(GF_Mul_e(a2), GF_Mul_e(b3), GF_Mul_e(c), GF_Mul_e(d))
    BY <2>2, <2>3, <2>4, <2>5, ProductSums4
  <2>9. GF_Mul_b(mixed[(k + 1) % 4])
          = Xor4(GF_Mul_b(a), GF_Mul_b(b2), GF_Mul_b(c3), GF_Mul_b(d))
    BY <2>2, <2>3, <2>4, <2>7, ProductSums4
  <2>10. GF_Mul_d(mixed[(k + 2) % 4])
           = Xor4(GF_Mul_d(a), GF_Mul_d(b), GF_Mul_d(c2), GF_Mul_d(d3))
    BY <2>2, <2>3, <2>4, <2>7, ProductSums4
  <2>11. GF_Mul_9(mixed[(k + 3) % 4])
           = Xor4(GF_Mul_9(a3), GF_Mul_9(b), GF_Mul_9(c), GF_Mul_9(d2))
    BY <2>2, <2>3, <2>4, <2>7, ProductSums4
  <2> DEFINE row1 == <<GF_Mul_e(a2), GF_Mul_e(b3), GF_Mul_e(c), GF_Mul_e(d)>>
             row2 == <<GF_Mul_b(a), GF_Mul_b(b2), GF_Mul_b(c3), GF_Mul_b(d)>>
             row3 == <<GF_Mul_d(a), GF_Mul_d(b), GF_Mul_d(c2), GF_Mul_d(d3)>>
             row4 == <<GF_Mul_9(a3), GF_Mul_9(b), GF_Mul_9(c), GF_Mul_9(d2)>>
  <2>12. row1 \in Word /\ row2 \in Word /\ row3 \in Word /\ row4 \in Word
    <3>1. \A x \in Byte : /\ GF_Mul_9(x) \in Byte /\ GF_Mul_b(x) \in Byte
                          /\ GF_Mul_d(x) \in Byte /\ GF_Mul_e(x) \in Byte
      BY ProductSums
    <3>. QED
      BY <2>2, <2>3, <2>4, <3>1 DEF Word
  <2>13. /\ Xor4(row1[1], row2[1], row3[1], row4[1]) = a
         /\ Xor4(row1[2], row2[2], row3[2], row4[2]) = 0
         /\ Xor4(row1[3], row2[3], row3[3], row4[3]) = 0
         /\ Xor4(row1[4], row2[4], row3[4], row4[4]) = 0
    BY <2>2, OwnPlace, OtherPlaces DEF a2, a3, b2, b3, c2, c3, d2, d3
  <2>14. InvMixColumns(mixed)[k]
           = Xor4(Xor4(row1[1], row1[2], row1[3], row1[4]), Xor4(row2[1], row2[2], row2[3], row2[4]),
                  Xor4(row3[1], row3[2], row3[3], row3[4]), Xor4(row4[1], row4[2], row4[3], row4[4]))
    BY <2>6, <2>8, <2>9, <2>10, <2>11
  <2>. HIDE DEF row1, row2, row3, row4
  <2>15. InvMixColumns(mixed)[k] = Xor4(a, 0, 0, 0)
    BY <2>12, <2>13, <2>14, XorTranspose
  <2>16. Xor4(a, 0, 0, 0) = a
    <3>1. 0 \in Byte
      BY DEF Byte
    <3>. QED
      BY <2>2, <3>1, XorZero DEF Xor4
  <2>. QED
    BY <2>15, <2>16 DEF a
<1>2. InvMixColumns(mixed) = [k \in 0..3 |-> InvMixColumns(mixed)[k]]
  BY DEF InvMixColumns
<1>. QED
  BY <1>1, <1>2

\* The bytes of a block are substituted back.
LEMMA SubBack == ASSUME NEW s \in Block16 PROVE InvSubBytes(stateSub(s)) = s
<1>1. ASSUME NEW j \in 0..15 PROVE InvSubBytes(stateSub(s))[j] = s[j]
  <2>1. s[j] \in Byte
    BY DEF Block16
  <2>2. s[j] + 1 \in 1..256 /\ (s[j] + 1) - 1 = s[j]
    BY <2>1 DEF Byte
  <2>3. stateSub(s)[j] = aes_sbox[s[j] + 1]
    BY DEF stateSub, SBoxOf
  <2>4. InvSubBytes(stateSub(s))[j] = InvSubBytesTable[stateSub(s)[j] + 1]
    BY DEF InvSubBytes
  <2>5. InvSubBytesTable[aes_sbox[s[j] + 1] + 1] = (s[j] + 1) - 1
    BY <2>2, InverseTable, Zenon
  <2>. QED
    BY <2>2, <2>3, <2>4, <2>5, Zenon
<1>2. InvSubBytes(stateSub(s)) = [j \in 0..15 |-> InvSubBytes(stateSub(s))[j]]
  BY DEF InvSubBytes
<1>3. s = [j \in 0..15 |-> s[j]]
  BY DEF Block16
<1>. QED
  BY <1>1, <1>2, <1>3

\* A row is turned back.
LEMMA ShiftBack == ASSUME NEW s \in Block16 PROVE InvShiftRows(rowShift(s)) = s
<1> DEFINE Left(j) == 4 * (((j \div 4) + (j % 4)) % 4) + (j % 4)
           Right(j) == 4 * (((j \div 4) - (j % 4)) % 4) + (j % 4)
<1>1. \A j \in 0..15 : Right(j) \in 0..15 /\ Left(Right(j)) = j
  OBVIOUS
<1>2. \A j \in 0..15 : rowShift(s)[j] = s[Left(j)]
  BY DEF rowShift
<1>3. InvShiftRows(rowShift(s)) = [j \in 0..15 |-> rowShift(s)[Right(j)]]
  BY DEF InvShiftRows
<1>4. s = [j \in 0..15 |-> s[j]]
  BY DEF Block16
<1>. HIDE DEF Left, Right
<1>. QED
  BY <1>1, <1>2, <1>3, <1>4

\* A column of the block is mixed back.
LEMMA MixBack ==
  ASSUME NEW s \in Block16, NEW c \in 0..3
  PROVE  InvMixColumns([k \in 0..3 |-> colMix(s)[4 * c + k]]) = [k \in 0..3 |-> s[4 * c + k]]
<1> DEFINE p == [k \in 0..3 |-> s[4 * c + k]]
<1>1. p \in [0..3 -> Byte]
  BY DEF Block16
<1>2. ASSUME NEW k \in 0..3 PROVE colMix(s)[4 * c + k] = MixByte(p, k)
  <2>1. 4 * c + k \in 0..15 /\ (4 * c + k) \div 4 = c /\ (4 * c + k) % 4 = k
    OBVIOUS
  <2>2. colMix(s)[4 * c + k] = MixByte([n \in 0..3 |-> s[4 * ((4 * c + k) \div 4) + n]],
                                       (4 * c + k) % 4)
    BY <2>1, Zenon DEF colMix
  <2>. QED
    BY <2>1, <2>2, Zenon
<1>3. [k \in 0..3 |-> colMix(s)[4 * c + k]] = [k \in 0..3 |-> MixByte(p, k)]
  BY <1>2, Zenon
<1>. HIDE DEF p
<1>4. InvMixColumns([k \in 0..3 |-> MixByte(p, k)]) = p
  BY <1>1, ColumnBack, Zenon
<1>. QED
  BY <1>3, <1>4, Zenon DEF p

-----------------------------------------------------------------------------
(* The round modules and the program *)

\* A step of the program from one of these places.
LEMMA FromRound ==
  ASSUME [Next]_labVars, pc \in {"sub", "shift", "mix"}, pc' # "assign", pc' # pc
  PROVE  \/ Sub /\ pc = "sub"
         \/ Shift /\ pc = "shift"
         \/ Mix /\ pc = "mix"
BY DEF Next, Reset, Restart, Assign, SelectTesting, SelectBenchmark, EnterMessage, EnterKey,
       Encrypt, PackKey, StoreKey, CopyKey, ExpandRound, PackMessage, AddKey, Sub, Shift, Mix,
       Compute, TurnWords, PrintResult, RewriteKey, Repeat, StoreLoop, labVars

\* The round modules of the hardware take back every step of the software's rounds,
\* whatever is enciphered with whatever key (main.c:129-140, InvShiftRows.sv,
\* InvMixColumns.sv and InvSubBytes of SubBytes.sv).
THEOREM RoundModulesTakeBack == Spec => RoundModulesInvert
<1>1. ASSUME EncryptInv, [Next]_labVars, pc = "sub", pc' = "shift"
      PROVE  InvSubBytes(msg_enc') = msg_enc
  <2>1. Sub
    BY <1>1, FromRound
  <2>2. msg_enc \in Block16 /\ msg_enc' = stateSub(msg_enc)
    BY <1>1, <2>1 DEF Sub, Compute, EncryptInv, InRound, Rounds
  <2>. QED
    BY <2>2, SubBack
<1>2. ASSUME EncryptInv, [Next]_labVars, pc = "shift", pc' # "assign", ~ UNCHANGED labVars
      PROVE  InvShiftRows(msg_enc') = msg_enc
  <2>1. Shift
    BY <1>2
    DEF Next, Reset, Restart, Assign, SelectTesting, SelectBenchmark, EnterMessage, EnterKey,
        Encrypt, PackKey, StoreKey, CopyKey, ExpandRound, PackMessage, AddKey, Sub, Shift, Mix,
        Compute, TurnWords, PrintResult, RewriteKey, Repeat, StoreLoop
  <2>2. msg_enc \in Block16 /\ msg_enc' = rowShift(msg_enc)
    BY <1>2, <2>1 DEF Shift, Compute, EncryptInv, InRound, Rounds
  <2>. QED
    BY <2>2, ShiftBack
<1>3. ASSUME EncryptInv, [Next]_labVars, pc = "mix", pc' = "add", NEW c \in 0..3
      PROVE  LET Column(s) == [k \in 0..3 |-> s[4 * c + k]]
             IN  InvMixColumns(Column(msg_enc')) = Column(msg_enc)
  <2>1. Mix
    BY <1>3, FromRound
  <2>2. msg_enc \in Block16 /\ msg_enc' = colMix(msg_enc)
    BY <1>3, <2>1 DEF Mix, Compute, EncryptInv, InRound, Rounds
  <2>. QED
    BY <2>2, MixBack
<1> DEFINE Back == /\ pc = "sub" /\ pc' = "shift" => InvSubBytes(msg_enc') = msg_enc
                   /\ pc = "shift" /\ pc' # "assign" => InvShiftRows(msg_enc') = msg_enc
                   /\ pc = "mix" /\ pc' = "add" =>
                        \A c \in 0..3 :
                          LET Column(s) == [k \in 0..3 |-> s[4 * c + k]]
                          IN  InvMixColumns(Column(msg_enc')) = Column(msg_enc)
<1>4. EncryptInv /\ [Next]_labVars => [Back]_labVars
  BY <1>1, <1>2, <1>3
<1>. QED
  BY <1>4, EncryptionInvariant, PTL DEF Spec, RoundModulesInvert

=============================================================================
