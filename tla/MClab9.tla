------------------------------- MODULE MClab9 -------------------------------
(* Two examples of the standard, with digits in both cases, and one more key. *)
(* The program and the key schedule of the hardware share no state: a         *)
(* behaviour is one of the program or one of the hardware.                    *)
EXTENDS lab9, KeyExpansion

VARIABLE inHardware             \* which of the two runs

Lower(d) == IF d < 10 THEN 48 + d ELSE 87 + d
Upper(d) == IF d < 10 THEN 48 + d ELSE 55 + d

\* 00112233...ff and 000102...0f (FIPS 197, C.1)
Message1 == [n \in 0..31 |-> Lower(n \div 2)]
Key1 == [n \in 0..31 |-> IF n % 2 = 0 THEN Lower(0) ELSE Upper(n \div 2)]
\* 3243f6a8885a308d313198a2e0370734 and 2b7e151628aed2a6abf7158809cf4f3c (B)
Message2 ==
  LET digits == <<3,2,4,3,15,6,10,8,8,8,5,10,3,0,8,13,3,1,3,1,9,8,10,2,14,0,3,7,0,7,3,4>>
  IN  [n \in 0..31 |-> Upper(digits[n + 1])]
Key2 ==
  LET digits == <<2,11,7,14,1,5,1,6,2,8,10,14,13,2,10,6,10,11,15,7,1,5,8,8,0,9,12,15,4,15,3,12>>
  IN  [n \in 0..31 |-> Lower(digits[n + 1])]
Key3 == [n \in 0..31 |-> Lower(15)]

MCMessages == {Message1, Message2}
MCCipherKeys == {Key1, Key2, Key3}
MCKeys == {TypedWords(Key1), TypedWords(Key2)}

MCInit == Init /\ KeyInit /\ inHardware \in BOOLEAN
MCNext ==
  \/ ~inHardware /\ Next /\ UNCHANGED <<keyVars, inHardware>>
  \/ inHardware /\ KeyNext /\ UNCHANGED <<labVars, inHardware>>
MCSpec == MCInit /\ [][MCNext]_<<labVars, keyVars, inHardware>>

\* The inverse table of the hardware is that of the standard, and its multipliers
\* are the products they are named for.
ASSUME TablesAgree ==
  \A b \in Byte :
    /\ InvSubBytesTable[SBox[b] + 1] = b
    /\ GF_Mul_9(b) = Times(b, 9) /\ GF_Mul_b(b) = Times(b, 11)
    /\ GF_Mul_d(b) = Times(b, 13) /\ GF_Mul_e(b) = Times(b, 14)

\* The examples of the standard: what the program prints for them.
KnownAnswers ==
  pc = "return" /\ run_mode = 0 =>
    /\ msg_ascii = Message1 /\ key_ascii = Key1 =>
         Printed = [j \in 0..15 |-> <<105, 196, 224, 216, 106, 123, 4, 48,
                                      216, 205, 183, 128, 112, 180, 197, 90>>[j + 1]]
    /\ msg_ascii = Message2 /\ key_ascii = Key2 =>
         Printed = [j \in 0..15 |-> <<57, 37, 132, 29, 2, 220, 9, 251,
                                      220, 17, 133, 151, 25, 106, 11, 50>>[j + 1]]
=============================================================================
