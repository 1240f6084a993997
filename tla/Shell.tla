------------------------------- MODULE Shell -------------------------------
(***************************************************************************)
(* The shell task of src/kernel/shell/shell.c: it polls the keyboard's     *)
(* slot, edits the input line, redraws it on the console and runs the      *)
(* commands.  The keyboard interrupt arrives between any two steps.  It    *)
(* shares nothing but pending_key with the task, so the steps are the      *)
(* stretches of code between two accesses to pending_key, cut further      *)
(* where shell_lock is taken or given back.                                *)
(***************************************************************************)
EXTENDS Console, Keyboard

CONSTANTS
    MAX_BUFFER,     \* the size of input_buffer
    ARG_SIZE,       \* the size of cmd_arg, 64
    PROMPT,         \* a sequence of characters
    Printable,      \* the characters from 32 to 126
    Outputs         \* what a command may print

PROMPT_LEN == Len(PROMPT)
NUL == "nul"

ASSUME BufferHoldsLine == MAX_BUFFER \in Nat /\ MAX_BUFFER > 1
ASSUME ArgHoldsText == ARG_SIZE \in Nat \ {0}
ASSUME PromptFits == PROMPT \in Seq(Printable) /\ PROMPT_LEN \in 1..(width - 1)
ASSUME PrintableStaysInRow == NL \notin Printable
ASSUME OutputsAreText == Outputs \subseteq Seq(Printable \cup {NL})

VARIABLES
    screen,
    input_buffer, buffer_len, cursor_idx,
    prompt_start_y,
    shell_lock,     \* TRUE while it is taken
    cmd_copy,       \* the line that was entered last
    pc,
    longest         \* the longest the line has been since the prompt

line == <<input_buffer, buffer_len, cursor_idx>>
vars == <<pending_key, shift_pressed, down, fresh, screen, input_buffer, buffer_len,
          cursor_idx, prompt_start_y, shell_lock, cmd_copy, pc, longest>>

Labels == {"start", "poll", "input", "redraw", "command", "init", "clear", "lost"}

TypeOK ==
    /\ screen.buffer \in [Cells -> Printable \cup {Blank}]
    /\ input_buffer \in [0..(MAX_BUFFER - 1) -> Printable \cup {NUL}]
    /\ buffer_len \in 0..(MAX_BUFFER - 1)
    /\ cursor_idx \in 0..buffer_len
    /\ prompt_start_y \in 1..(height - 1)
    /\ shell_lock \in BOOLEAN
    /\ pc \in Labels
    /\ pending_key \in Special \cup Printable \cup {TAB, NONE}

\* kmain has cleared the screen and printed a line.
Init ==
    /\ KeyboardInit
    /\ screen = Screen([i \in Cells |-> Blank], 0, 2)
    /\ input_buffer = [i \in 0..(MAX_BUFFER - 1) |-> NUL]
    /\ buffer_len = 0 /\ cursor_idx = 0
    /\ prompt_start_y = 1
    /\ shell_lock = FALSE
    /\ cmd_copy = <<>>
    /\ pc = "start"
    /\ longest = 0

-----------------------------------------------------------------------------
\* What input_buffer holds as a string.
Line == [i \in 1..buffer_len |-> input_buffer[i - 1]]

\* shell_init, first from shell_task_main and then after every command.
shell_init ==
    /\ pc \in {"start", "init"} /\ ~shell_lock
    /\ input_buffer' = [i \in 0..(MAX_BUFFER - 1) |-> NUL]
    /\ buffer_len' = 0 /\ cursor_idx' = 0 /\ longest' = 0
    /\ LET s == IF screen.cursor_y < 1 THEN set_cursor(screen, 0, 1) ELSE screen IN
          /\ prompt_start_y' = s.cursor_y
          /\ screen' = puts(s, PROMPT)
    /\ shell_lock' = FALSE
    /\ pc' = IF pc = "start" THEN "poll" ELSE "clear"
    /\ UNCHANGED <<keyboardVars, cmd_copy>>

\* process_pending_key, called again and again by shell_task_main.
Poll ==
    /\ pc = "poll"
    /\ pc' = IF pending_key # NONE THEN "input" ELSE "poll"
    /\ UNCHANGED <<keyboardVars, screen, line, prompt_start_y, shell_lock, cmd_copy, longest>>

\* shell_input, called with what is in the slot by now.  Every branch gives
\* back the lock it takes here, before it redraws or runs the command.
Input(key) ==
    /\ pc = "input" /\ ~shell_lock
    /\ pending_key = key
    /\ fresh' = FALSE
    /\ UNCHANGED <<pending_key, shift_pressed, down, prompt_start_y>>

\* The line is copied and reset before the command runs.
InputEnter ==
    /\ Input(ENTER)
    /\ screen' = puts(screen, <<NL>>)
    /\ cmd_copy' = Line
    /\ input_buffer' = [i \in 0..(MAX_BUFFER - 1) |-> NUL]
    /\ buffer_len' = 0 /\ cursor_idx' = 0
    /\ shell_lock' = FALSE
    /\ pc' = "command"
    /\ UNCHANGED longest

\* An edit of the line, which is drawn again afterwards.
Edit(key) ==
    /\ Input(key)
    /\ shell_lock' = FALSE
    /\ pc' = "redraw"
    /\ UNCHANGED <<screen, cmd_copy>>

\* mutated: the characters behind the cursor move down one place too late
EraseAt_OffByOne == cursor_idx

EraseAt == cursor_idx - 1

InputBackspace ==
    /\ Edit(BACKSPACE)
    /\ cursor_idx > 0
    /\ input_buffer' = [i \in 0..(MAX_BUFFER - 1) |->
                           IF i \in EraseAt..(buffer_len - 2)
                           THEN input_buffer[i + 1] ELSE input_buffer[i]]
    /\ buffer_len' = buffer_len - 1 /\ cursor_idx' = cursor_idx - 1
    /\ UNCHANGED longest

InputLeft ==
    /\ Edit(KEY_LEFT)
    /\ cursor_idx > 0
    /\ cursor_idx' = cursor_idx - 1
    /\ UNCHANGED <<input_buffer, buffer_len, longest>>

InputRight ==
    /\ Edit(KEY_RIGHT)
    /\ cursor_idx < buffer_len
    /\ cursor_idx' = cursor_idx + 1
    /\ UNCHANGED <<input_buffer, buffer_len, longest>>

HasRoom == buffer_len < MAX_BUFFER - 1

\* The characters from the cursor on move up; one place stays for the NUL.
InputChar(c) ==
    /\ Edit(c)
    /\ HasRoom
    /\ input_buffer' = [i \in 0..(MAX_BUFFER - 1) |->
                           CASE i = cursor_idx -> c
                             [] i \in (cursor_idx + 1)..buffer_len -> input_buffer[i - 1]
                             [] OTHER -> input_buffer[i]]
    /\ buffer_len' = buffer_len + 1 /\ cursor_idx' = cursor_idx + 1
    /\ longest' = IF longest > buffer_len THEN longest ELSE buffer_len + 1

\* mutated: the lock is kept when there is nothing to do
LeaveEarly_KeepsLock == shell_lock' = TRUE

LeaveEarly == shell_lock' = FALSE

\* Nothing to erase, to move over or to insert into, or not printable.
InputIgnored(key) ==
    /\ Input(key)
    /\ \/ key \in {BACKSPACE, KEY_LEFT} /\ cursor_idx = 0
       \/ key = KEY_RIGHT /\ cursor_idx = buffer_len
       \/ key \in Printable /\ ~HasRoom
       \/ key = TAB
    /\ LeaveEarly
    /\ pc' = "clear"
    /\ UNCHANGED <<screen, line, cmd_copy, longest>>

\* mutated: no space behind the line
Redrawn_NoErase == Line

Redrawn == Append(Line, Blank)

\* The whole line is drawn again, behind the prompt, and a space behind it.
redraw_line ==
    /\ pc = "redraw"
    /\ LET total == PROMPT_LEN + cursor_idx
           drawn == puts(set_cursor(screen, PROMPT_LEN, prompt_start_y), Redrawn)
       IN screen' = set_cursor(drawn, total % width, prompt_start_y + (total \div width))
    /\ pc' = "clear"
    /\ UNCHANGED <<keyboardVars, line, prompt_start_y, shell_lock, cmd_copy, longest>>

\* parse_command finds no command word.
NoCommand == cmd_copy # <<>> => Head(cmd_copy) = Blank

\* parse_command copies all that follows the first blank to cmd_arg, and it
\* does not fit there together with its NUL.
ArgOverflows ==
    \E i \in 1..Len(cmd_copy) : cmd_copy[i] = Blank /\ Len(cmd_copy) - i >= ARG_SIZE

\* A line without a command word prints nothing, cmd_clear clears the screen,
\* the other commands and the error message print some lines.  An argument that
\* overflows overwrites cmd_name or the caller's part of the stack: any of these
\* may follow, or the CPU leaves the code when the functions return.
process_command ==
    /\ pc = "command"
    /\ \/ /\ NoCommand \/ ArgOverflows
          /\ UNCHANGED screen
          /\ pc' = "init"
       \/ /\ ~NoCommand \/ ArgOverflows
          /\ \/ screen' = print_clear(screen)
             \/ \E out \in Outputs : screen' = puts(screen, Append(out, NL))
          /\ pc' = "init"
       \/ /\ ArgOverflows
          /\ UNCHANGED screen
          /\ pc' = "lost"
    /\ UNCHANGED <<keyboardVars, line, prompt_start_y, shell_lock, cmd_copy, longest>>

\* mutated: the slot is not emptied
EmptySlot_Keeps == UNCHANGED pending_key

EmptySlot == pending_key' = NONE

\* process_pending_key empties the slot, whatever is in it by now.
PollClear ==
    /\ pc = "clear"
    /\ EmptySlot
    /\ pc' = "poll"
    /\ UNCHANGED <<shift_pressed, down, fresh, screen, line, prompt_start_y, shell_lock,
                   cmd_copy, longest>>

shell_input ==
    \/ InputEnter \/ InputBackspace \/ InputLeft \/ InputRight
    \/ \E c \in Printable : InputChar(c)
    \/ \E key \in Special \cup Printable \cup {TAB} : InputIgnored(key)

shell_task_main ==
    shell_init \/ Poll \/ shell_input \/ redraw_line \/ process_command \/ PollClear

Interrupt ==
    /\ keyboard_handler
    /\ UNCHANGED <<screen, line, prompt_start_y, shell_lock, cmd_copy, pc, longest>>

Next == shell_task_main \/ Interrupt

Spec == Init /\ [][Next]_vars

\* The shell is the only task: the CPU executes it whenever no handler runs.
\* This is weak fairness of shell_task_main written out: Runnable is its guard,
\* without the polling of an empty slot, and only its steps change pc.
Runnable ==
    CASE pc \in {"start", "init", "input"} -> ~shell_lock
      [] pc = "poll" -> pending_key # NONE
      [] pc = "lost" -> FALSE
      [] OTHER -> TRUE
FairSpec == Spec /\ ([]<>(~Runnable) \/ []<><<TRUE>>_pc)

-----------------------------------------------------------------------------
\* The array, its length and the cursor index together behave as a line with
\* a cursor: the shifting loops of shell_input lose and invent no character.
Editor == INSTANCE LineEditor WITH
    Letter <- Printable,
    Capacity <- MAX_BUFFER - 1,
    before <- SubSeq(Line, 1, cursor_idx),
    after <- SubSeq(Line, cursor_idx + 1, buffer_len),
    submitted <- cmd_copy
EditsLikeLineEditor == Editor!Init /\ [][Editor!Next]_(Editor!vars)

\* Whenever the interrupts arrive, also within process_pending_key, no key is
\* handled twice and none overtakes another: the one that shell_input is called
\* with was typed after the ones it was called with before.
KeysInOrder == pc = "input" => fresh

\* A line of n characters behind the prompt, and the space behind it, stay on
\* the screen without scrolling.
FitsBelowPrompt(n) == prompt_start_y + ((PROMPT_LEN + n) \div width) < height

CellOf(k) == prompt_start_y * width + k

ShowsLine ==
    LET text == PROMPT \o Line IN
    /\ \A k \in 1..Len(text) : screen.buffer[CellOf(k - 1)] = text[k]
    /\ \A k \in Len(text)..(PROMPT_LEN + longest - 1) : screen.buffer[CellOf(k)] = Blank
    /\ screen.cursor_y * width + screen.cursor_x = CellOf(PROMPT_LEN + cursor_idx)

\* Between two keys the screen shows the prompt and the line, and behind it
\* nothing of what this line has been before, with the cursor where the next
\* key will edit, as long as the line has not been so long that drawing it
\* scrolled the screen.
DisplayShowsLine == pc = "poll" /\ FitsBelowPrompt(longest) => ShowsLine

\* Although the cursor may be set to a row behind the screen, no character is
\* ever written there: whatever prints next sets the cursor or starts a row.
WritesStayOnScreen == ~screen.stray

\* The shell keeps polling: when process_pending_key finds a key, shell_input is
\* called with it or with the one that has replaced it, and the shell is back
\* at its poll later, without hanging on shell_lock, unless the argument of a
\* command was too long for cmd_arg.  (A key that arrives in between is wiped
\* out of the slot and never reaches shell_input.)
KeysAreTaken ==
    /\ (pc = "poll" /\ pending_key # NONE) ~> ~fresh
    /\ (pc # "poll") ~> (pc = "poll" \/ (pc = "lost" /\ ArgOverflows))
=============================================================================
