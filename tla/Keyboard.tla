------------------------------ MODULE Keyboard ------------------------------
(***************************************************************************)
(* The PS/2 keyboard driver of src/drivers/input/keyboard.c: the IRQ 1     *)
(* handler turns scancodes into keys and leaves the last one in            *)
(* pending_key, a single slot that the shell task polls.  Interrupt gates  *)
(* keep other handlers out, so the handler is one step.                    *)
(***************************************************************************)
EXTENDS Integers

CONSTANTS
    Codes,                      \* the make codes of keys other than the ones below
    scancode_to_ascii,          \* their characters, NONE where the table has a 0
    scancode_to_ascii_shift,    \* or does not reach
    Shifts                      \* the keys that send codes of a shift key

NONE == "none"
KEY_LEFT == "left"
KEY_RIGHT == "right"
BACKSPACE == "backspace"
ENTER == "enter"
TAB == "tab"        \* a character below 32: Tab or Escape

Special == {KEY_LEFT, KEY_RIGHT, BACKSPACE, ENTER}

ASSUME TablesMatch == DOMAIN scancode_to_ascii = Codes /\ DOMAIN scancode_to_ascii_shift = Codes

VARIABLES
    pending_key,
    shift_pressed,
    down,       \* the keys of Shifts that are held down
    fresh       \* the key in the slot was put there after the last call of shell_input

keyboardVars == <<pending_key, shift_pressed, down, fresh>>

KeyboardInit ==
    /\ pending_key = NONE
    /\ shift_pressed = FALSE
    /\ down = {}
    /\ fresh = FALSE

Pend(key) ==
    /\ pending_key' = key
    /\ fresh' = TRUE

\* The character of a make code.
Ascii(code) == IF shift_pressed THEN scancode_to_ascii_shift[code] ELSE scancode_to_ascii[code]

\* keyboard_handler, by what the controller reports.  Break codes of other
\* keys, the prefix E0, mouse data and an empty controller change nothing.
\* Without its prefix, the E0 2A and E0 AA that a keyboard puts around the codes
\* of an arrow key while Num Lock is on are the codes of a shift key, so such an
\* arrow key is one of Shifts, too.
ShiftDown(k) ==
    /\ shift_pressed' = TRUE
    /\ down' = down \cup {k}
    /\ UNCHANGED <<pending_key, fresh>>

\* mutated: the release is not looked at
Released_Ignored == UNCHANGED shift_pressed

Released == shift_pressed' = FALSE

ShiftUp(k) ==
    /\ k \in down
    /\ Released
    /\ down' = down \ {k}
    /\ UNCHANGED <<pending_key, fresh>>

\* A shift key that stays down is masked by an E0 AA before the codes of an
\* arrow key; the E0 2A behind them is one more ShiftDown of that shift key.
ShiftMasked ==
    /\ down # {}
    /\ Released
    /\ UNCHANGED <<pending_key, down, fresh>>

SpecialKey(k) ==
    /\ Pend(k)
    /\ UNCHANGED <<shift_pressed, down>>

CharKey(code) ==
    /\ Ascii(code) # NONE
    /\ Pend(Ascii(code))
    /\ UNCHANGED <<shift_pressed, down>>

keyboard_handler ==
    \/ \E k \in Shifts : ShiftDown(k) \/ ShiftUp(k)
    \/ ShiftMasked
    \/ \E k \in Special : SpecialKey(k)
    \/ \E code \in Codes : CharKey(code)

-----------------------------------------------------------------------------
\* Characters are shifted only while a key that sends codes of a shift is held
\* down: no sequence of presses and releases, of shift keys or of arrow keys
\* with such codes around theirs, leaves shift_pressed stuck.
ShiftNeverStuck == shift_pressed => down # {}
=============================================================================
