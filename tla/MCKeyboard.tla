----------------------------- MODULE MCKeyboard -----------------------------
(* A small keyboard for Keyboard: the two shift keys and a letter.           *)
EXTENDS Keyboard, TLC

Lsh == 42
Rsh == 54
Bksp == 14
KeyA == 30

MCScancodes == {Lsh, Rsh, Bksp, KeyA}
Plain == [s \in MCScancodes |-> IF s = KeyA THEN 97 ELSE 0]
Shifted == [s \in MCScancodes |-> IF s = KeyA THEN 65 ELSE 0]

OneByte(s) == [pressed \in BOOLEAN |-> <<<<s, pressed>>>>]
MCCodes == "lshift" :> OneByte(Lsh) @@ "rshift" :> OneByte(Rsh) @@ "a" :> OneByte(KeyA)
MCKeys == DOMAIN MCCodes
=============================================================================
