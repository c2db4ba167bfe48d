-------------------------------- MODULE PsyCrypt -------------------------------
(* The reversible password encryption of p_crypt.c on strings of character     *)
(* codes: every character is moved by two salts and two running offsets and    *)
(* written as two digits of base 67 (hashdot, p_idea.c). psycrypt() stops      *)
(* after MaxText characters; longer strings are outside the model.             *)
EXTENDS Integers, Sequences, SequencesExt

CONSTANTS
    slt1, slt2,     \* the salts of salt.h, sequences of character codes
    CODE1, CODE2,   \* the first values of the offsets
    SA1, SA2        \* where the salts are entered

baselen == 67
MaxText == 996      \* slen > 1990 ends the loop, and slen counts digits
PLUS == 43          \* '+', the mark of an encrypted string

(* The salts are text; no code a character can get is negative.                *)
ASSUME PsyCryptAssumption ==
    /\ slt1 \in Seq(1 .. 127) \ {<<>>} /\ slt2 \in Seq(1 .. 127) \ {<<>>}
    /\ CODE1 \in 0 .. 255 /\ CODE2 \in 0 .. 255
    /\ SA1 \in Nat /\ SA2 \in Nat
    /\ \A i \in DOMAIN slt1, j \in DOMAIN slt2 : slt2[j] <= slt1[i] + CODE2

(* What psycrypt() is given to encrypt. *)
Texts == {p \in Seq(1 .. 127) : p # <<>> /\ Len(p) <= MaxText /\ Head(p) # PLUS}

hashdot(r) == <<r \div baselen, r % baselen>>
unhashdot(hh, hl) == hh * baselen + hl

(* The running state of psycrypt(): positions in the salts and the offsets.    *)
Started == [p1 |-> SA1, p2 |-> SA2, t1 |-> CODE1, t2 |-> CODE2, out |-> <<>>]

(* At the head of the loop an offset that left 0..255 is set back, and a salt  *)
(* that is used up begins again.                                               *)
Wrapped(s) ==
    [p1 |-> IF s.p1 < Len(slt1) THEN s.p1 ELSE 0,
     p2 |-> IF s.p2 < Len(slt2) THEN s.p2 ELSE 0,
     t1 |-> IF s.t1 \in 0 .. 255 THEN s.t1 ELSE CODE1,
     t2 |-> IF s.t2 \in 0 .. 255 THEN s.t2 ELSE CODE2,
     out |-> s.out]

Shift(s) == slt1[s.p1 + 1] + s.t1 - slt2[s.p2 + 1] + s.t2

(* The plain character res moves the second offset.                            *)
Moved(s, res, out) ==
    [p1 |-> s.p1 + 1, p2 |-> s.p2 + 1, t1 |-> s.t1 - 1, t2 |-> s.t2 + res \div 10,
     out |-> s.out \o out]

Ciphered(s, ch) == LET w == Wrapped(s) IN Moved(w, ch, hashdot(ch + Shift(w)))

Deciphered(s, d) ==
    LET w == Wrapped(s)
        erg == unhashdot(d[1], d[2]) - Shift(w)
    IN  Moved(w, erg, <<erg>>)

(* The loop over the characters, or the pairs of digits if de is set.          *)
Loop(de, seq) ==
    LET after[i \in 0 .. Len(seq)] ==
          IF i = 0 THEN Started
          ELSE IF de THEN Deciphered(after[i - 1], seq[i]) ELSE Ciphered(after[i - 1], seq[i])
    IN  after[Len(seq)]

(* psycrypt(): what begins with the mark is decrypted, all else is encrypted.  *)
psycrypt(st) ==
    IF Head(st) = PLUS
    THEN LET pairs == [i \in 1 .. (Len(st) - 1) \div 2 |-> <<st[2 * i], st[2 * i + 1]>>]
         IN  Loop(TRUE, pairs).out
    ELSE <<PLUS>> \o Loop(FALSE, st).out

cryptit(st) == IF Head(st) = PLUS THEN st ELSE psycrypt(st)
decryptit(st) == IF Head(st) = PLUS THEN psycrypt(st) ELSE st

================================================================================
