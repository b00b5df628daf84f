-------------------------------- MODULE lab9 --------------------------------
(***************************************************************************)
(* Lab 9: the program of main.c, the registers it writes in                *)
(* avalon_aes_interface.sv and the display that lab9_top.sv drives from    *)
(* them.  A step of the program takes one clock at least, and the register *)
(* in front of the display follows the others by one.  KEY[0] resets the   *)
(* whole system at any time: the program starts again.                     *)
(***************************************************************************)
EXTENDS aes, RoundModules

CONSTANTS
  Messages, CipherKeys,         \* what the user may type: 32 characters each
  Repetitions                   \* the encryptions of the benchmark

ASSUME Lab9Assumption ==
  /\ Messages \cup CipherKeys \subseteq [0..31 -> 0..127]
  /\ Repetitions \in Nat \ {0}

None == << >>

VARIABLES
  pc, i, r,                     \* the program's place, a loop's index, the round
  run_mode, msg_ascii, key_ascii, keys, keySched, msg_enc,
  repetition,
  regs, EXPORT_DATA             \* the peripheral

programVars == <<run_mode, msg_ascii, key_ascii, keys, keySched, msg_enc, repetition>>
labVars == <<pc, i, r, programVars, regs, EXPORT_DATA>>

Zero == <<0, 0, 0, 0>>

\* The high half of the first word and the low half of the fourth.
ExportOf(words) == <<words[0][4], words[0][3], words[3][2], words[3][1]>>

Restart ==
  /\ pc' = "assign" /\ i' = 0 /\ r' = 0
  /\ run_mode' = 0
  /\ msg_ascii' = None /\ key_ascii' = None /\ keys' = None
  /\ keySched' = None /\ msg_enc' = None
  /\ repetition' = 0

\* After power-up, or after KEY[0] was held for some clocks.
Init ==
  /\ pc = "assign" /\ i = 0 /\ r = 0
  /\ run_mode = 0
  /\ msg_ascii = None /\ key_ascii = None /\ keys = None
  /\ keySched = None /\ msg_enc = None
  /\ repetition = 0
  /\ regs = [a \in 0..15 |-> Zero]
  /\ EXPORT_DATA = Zero

\* The edges of a step of the program: a store of a word, or none.
AvalonWrite(a, word) ==
  regs' = [regs EXCEPT ![a] = word] /\ EXPORT_DATA' = ExportOf(regs)
NoAvalon == UNCHANGED regs /\ EXPORT_DATA' = ExportOf(regs)

Reset ==
  /\ Restart
  /\ regs' = [a \in 0..15 |-> Zero]
  /\ EXPORT_DATA' = ExportOf(regs)

\* A loop that stores n words.
StoreLoop(at, n, word, next) ==
  /\ pc = at
  /\ AvalonWrite(i, word)
  /\ IF i + 1 < n THEN i' = i + 1 /\ UNCHANGED pc ELSE i' = 0 /\ pc' = next

Assign == StoreLoop("assign", 12, Zero, "mode") /\ UNCHANGED <<r, programVars>>

SelectTesting ==
  /\ pc = "mode" /\ pc' = "message"
  /\ run_mode' = 0
  /\ NoAvalon
  /\ UNCHANGED <<i, r, msg_ascii, key_ascii, keys, keySched, msg_enc, repetition>>

SelectBenchmark ==
  /\ pc = "mode" /\ pc' = "packKey"
  /\ run_mode' = 1
  /\ msg_ascii' = [n \in 0..31 |-> 97]
  /\ key_ascii' = [n \in 0..31 |-> 98]
  /\ NoAvalon
  /\ UNCHANGED <<i, r, keys, keySched, msg_enc, repetition>>

EnterMessage ==
  /\ pc = "message" /\ pc' = "key"
  /\ msg_ascii' \in Messages
  /\ NoAvalon
  /\ UNCHANGED <<i, r, run_mode, key_ascii, keys, keySched, msg_enc, repetition>>

EnterKey ==
  /\ pc = "key" /\ pc' = "packKey"
  /\ key_ascii' \in CipherKeys
  /\ NoAvalon
  /\ UNCHANGED <<i, r, run_mode, msg_ascii, keys, keySched, msg_enc, repetition>>

-----------------------------------------------------------------------------
(* encrypt *)

PackKey ==
  /\ pc = "packKey" /\ pc' = "storeKey"
  /\ keys' = PackWords(key_ascii)
  /\ NoAvalon
  /\ UNCHANGED <<i, r, run_mode, msg_ascii, key_ascii, keySched, msg_enc, repetition>>

StoreKey ==
  /\ StoreLoop("storeKey", 4, keys[i + 1], "copyKey")
  /\ UNCHANGED <<r, programVars>>

CopyKey ==
  /\ pc = "copyKey" /\ pc' = "expand"
  /\ keySched' = [n \in 0..3 |-> keys[n + 1]]
  /\ r' = 1
  /\ NoAvalon
  /\ UNCHANGED <<i, run_mode, msg_ascii, key_ascii, keys, msg_enc, repetition>>

ExpandRound ==
  /\ pc = "expand"
  /\ keySched' = keyExpand(r, keySched)
  /\ IF r < 10 THEN r' = r + 1 /\ UNCHANGED pc ELSE r' = 0 /\ pc' = "packMessage"
  /\ NoAvalon
  /\ UNCHANGED <<i, run_mode, msg_ascii, key_ascii, keys, msg_enc, repetition>>

\* A step that computes the message anew.
Compute(from, to, new) ==
  /\ pc = from /\ pc' = to
  /\ msg_enc' = new
  /\ NoAvalon
  /\ UNCHANGED <<i, run_mode, msg_ascii, key_ascii, keys, repetition>>

PackMessage ==
  /\ Compute("packMessage", "add", InMemory(PackWords(msg_ascii)))
  /\ UNCHANGED <<r, keySched>>
AddKey ==
  /\ Compute("add", IF r < 10 THEN "sub" ELSE "reverse", keyAdd(r, keySched, msg_enc))
  /\ r' = (IF r < 10 THEN r + 1 ELSE r)
  /\ UNCHANGED keySched
Sub == Compute("sub", "shift", stateSub(msg_enc)) /\ UNCHANGED <<r, keySched>>
\* Faulty variant: the last round mixes its columns too.
Shift_AlwaysMix == Compute("shift", "mix", rowShift(msg_enc)) /\ UNCHANGED <<r, keySched>>
Shift == /\ Compute("shift", IF r < 10 THEN "mix" ELSE "add", rowShift(msg_enc))
         /\ UNCHANGED <<r, keySched>>
Mix == Compute("mix", "add", colMix(msg_enc)) /\ UNCHANGED <<r, keySched>>

\* The words are turned round; the schedule is freed, and nothing reads it again.
TurnWords == Compute("reverse", "return", ReverseWords(msg_enc)) /\ UNCHANGED <<r, keySched>>

-----------------------------------------------------------------------------
(* after encrypt; decrypt does nothing *)

PrintResult ==
  /\ pc = "return" /\ run_mode = 0 /\ pc' = "rewrite"
  /\ NoAvalon
  /\ UNCHANGED <<i, r, programVars>>

\* Faulty variant: the words are stored one place too high.
RewriteKey_Shifted ==
  /\ StoreLoop("rewrite", 4, keys[1 + ((i + 1) % 4)], "message")
  /\ UNCHANGED <<r, programVars>>
RewriteKey ==
  /\ StoreLoop("rewrite", 4, keys[i + 1], "message")
  /\ UNCHANGED <<r, programVars>>

Repeat ==
  /\ pc = "return" /\ run_mode = 1
  /\ repetition' = repetition + 1
  /\ pc' = (IF repetition' < Repetitions THEN "packKey" ELSE "done")
  /\ NoAvalon
  /\ UNCHANGED <<i, r, run_mode, msg_ascii, key_ascii, keys, keySched, msg_enc>>

Encrypt == \/ PackKey \/ StoreKey \/ CopyKey \/ ExpandRound \/ PackMessage
           \/ AddKey \/ Sub \/ Shift \/ Mix \/ TurnWords
Next == \/ Reset \/ Assign \/ SelectTesting \/ SelectBenchmark \/ EnterMessage \/ EnterKey
        \/ Encrypt \/ PrintResult \/ RewriteKey \/ Repeat
Spec == Init /\ [][Next]_labVars

-----------------------------------------------------------------------------
(* The encryption as the standard's: what was typed, and the block *)

HexDigit(d) == IF d < 10 THEN {48 + d} ELSE {55 + d, 87 + d}
TypedByte(ascii, n) ==
  LET value(c) == CHOOSE d \in 0..15 : c \in HexDigit(d)
  IN  16 * value(ascii[2 * n]) + value(ascii[2 * n + 1])
TypedBlock(ascii) ==
  IF ascii = None THEN None ELSE [n \in 0..15 |-> TypedByte(ascii, n)]
TypedWords(ascii) ==
  IF ascii = None THEN None
  ELSE [c \in 1..4 |-> [k \in 1..4 |-> TypedByte(ascii, 4 * c + k - 5)]]

\* The bytes in the order in which the words are printed, high byte first.
Printed == [j \in 0..15 |-> msg_enc[4 * (j \div 4) + 3 - (j % 4)]]

Phase == CASE pc = "add" -> "add"
           [] pc = "sub" -> "substitute"
           [] pc = "shift" -> "shift"
           [] pc = "mix" -> "mix"
           [] pc \in {"reverse", "return"} -> "out"
           [] OTHER -> "idle"

AES == INSTANCE Cipher WITH
  ConstantPlace <- 4,
  message <- TypedBlock(msg_ascii),
  key <- TypedWords(key_ascii),
  w <- IF Phase = "idle" THEN None ELSE keySched,
  state <- CASE Phase = "idle" -> None
             [] pc = "return" -> Printed
             [] OTHER -> msg_enc,
  phase <- Phase,
  round <- IF Phase = "idle" THEN 0 ELSE r

\* The tables of the software are the standard's, in all their places.
ASSUME TablesAssumption ==
  \A b \in Byte : /\ SBoxOf(b) = AES!SBox[b]
                  /\ GfMul(b, 0) = AES!Times(b, 2) /\ GfMul(b, 1) = AES!Times(b, 3)

-----------------------------------------------------------------------------
(* Properties *)

\* Every encryption, in the testing mode and in the benchmark, enciphers what was
\* typed by the transformations of the standard in its order, and what is printed
\* is the result; only the constants of the key schedule are in the last byte of
\* their words and not in the first (main.c:91-261).
ImplementsButForRcon == AES!Spec

\* While the program waits for the user the display shows four bytes of the key
\* of the last encryption since the reset, or zeros: never a half-stored key, nor
\* one from before the reset (main.c:293, 108, 330; avalon_aes_interface.sv:45-66).
DisplayShows ==
  pc \in {"mode", "message", "key", "done"} =>
    EXPORT_DATA = IF keys = None THEN Zero
                  ELSE LET k == TypedWords(key_ascii) IN <<k[1][4], k[1][3], k[4][2], k[4][1]>>

\* The round modules of the hardware take back, on every block, what a step of the
\* software did to it: on the words as both hold them, and with the rounds in the
\* order of the decryption (main.c:131-140; InvShiftRows.sv, InvMixColumns.sv and
\* InvSubBytes of SubBytes.sv).
RoundModulesInvert ==
  [][/\ pc = "sub" /\ pc' = "shift" => InvSubBytes(msg_enc') = msg_enc
     /\ pc = "shift" /\ pc' # "assign" => InvShiftRows(msg_enc') = msg_enc
     /\ pc = "mix" /\ pc' = "add" =>
          \A c \in 0..3 :
            LET Column(s) == [k \in 0..3 |-> s[4 * c + k]]
            IN  InvMixColumns(Column(msg_enc')) = Column(msg_enc)]_labVars

=============================================================================
