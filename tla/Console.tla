------------------------------ MODULE Console -------------------------------
(***************************************************************************)
(* The text console and the two line editors that write on it:             *)
(* drivers/framebuffer.rs (cursor, wrapping, scrolling), the kernel shell's *)
(* line editor (shell/mod.rs), which redraws the whole line after the      *)
(* prompt on every key, and the editor of the login screen and the Ring 3  *)
(* shell (auth/login.rs, userland/main.rs), which echoes one character at  *)
(* a time.  The screen is Rows rows of Cols character cells, one cell for  *)
(* CHAR_WIDTH by LINE_HEIGHT pixels; colours and glyphs are left out.      *)
(***************************************************************************)
EXTENDS Naturals, Sequences, SequencesExt

CONSTANTS
    Cols, Rows,
    Chars, Blank,         \* printable characters; an empty cell
    Prompt,               \* what print_prompt prints
    Outputs,              \* what a command may print
    MAX_CMD_LEN,          \* shell/mod.rs; CMD_BUF_SIZE in userland
    MAX_HISTORY

VARIABLES
    fb,                   \* the Framebuffer: cells, and the cursor (x, y)
    mode,                 \* the editor at work: "kernel" or "echo"
    cmd_buffer, cmd_len, cursor_pos,
    history, history_index,   \* index 0 is None, i is Some(i - 1)
    prompt,               \* prompt_x, prompt_y
    outgrown              \* the line has reached the end of the prompt's row since the prompt was printed

vars == <<fb, mode, cmd_buffer, cmd_len, cursor_pos, history, history_index, prompt, outgrown>>

NewLineChar == "nl"
TabChar == "tab"
BackspaceChar == "bs"
-----------------------------------------------------------------------------
(* The framebuffer                                                         *)

clear == [cell |-> [r \in 0..(Rows - 1) |-> [c \in 0..(Cols - 1) |-> Blank]], x |-> 0, y |-> 0]

put(f, c) ==
    IF f.x < Cols /\ f.y < Rows THEN [f EXCEPT !.cell[f.y][f.x] = c] ELSE f

scroll(f) ==
    [f EXCEPT !.cell = [r \in 0..(Rows - 1) |->
                          IF r = Rows - 1 THEN [c \in 0..(Cols - 1) |-> Blank] ELSE f.cell[r + 1]],
              !.y = Rows - 1]

NextRow(f) ==
    LET d == [f EXCEPT !.x = 0, !.y = @ + 1]
    IN  IF d.y + 1 > Rows THEN scroll(d) ELSE d

\* the cursor stays at the start of its row
backspace_same_row(f) == IF f.x >= 1 THEN put([f EXCEPT !.x = @ - 1], Blank) ELSE f

backspace(f) ==
    IF f.x >= 1 THEN put([f EXCEPT !.x = @ - 1], Blank)
    ELSE IF f.y >= 1 THEN put([f EXCEPT !.y = @ - 1, !.x = Cols - 1], Blank)
    ELSE f

draw_char(f, c) ==
    CASE c = NewLineChar -> NextRow(f)
      [] c = TabChar -> LET t == [f EXCEPT !.x = (f.x \div 4 + 1) * 4]
                        IN  IF t.x >= Cols THEN NextRow(t) ELSE t
      [] c = BackspaceChar -> backspace(f)
      [] OTHER -> LET d == [put(f, c) EXCEPT !.x = @ + 1]
                  IN  IF d.x + 1 > Cols THEN NextRow(d) ELSE d

print(f, s) == FoldLeft(draw_char, f, s)

set_cursor_pos(f, x, y) == [f EXCEPT !.x = x, !.y = y]

\* old text stays to the right of the line
clear_line_keep(f) == f

clear_line(f) ==
    IF f.y >= Rows THEN f
    ELSE [f EXCEPT !.cell[f.y] = [c \in 0..(Cols - 1) |-> IF c >= f.x THEN Blank ELSE @[c]]]
-----------------------------------------------------------------------------
(* The line                                                                *)

get_cmd_str == [i \in 1..cmd_len |-> cmd_buffer[i - 1]]

Init ==
    /\ mode \in {"kernel", "echo"}
    /\ fb = print(clear, Prompt)
    /\ prompt = [x |-> fb.x, y |-> fb.y]
    /\ cmd_buffer = [i \in 0..(MAX_CMD_LEN - 1) |-> Blank] /\ cmd_len = 0 /\ cursor_pos = 0
    /\ history = <<>> /\ history_index = 0 /\ outgrown = FALSE

update_cursor_position(f, p, cur) == set_cursor_pos(f, p.x + cur, p.y)

\* the end of every redraw: the cursor is put where the new cursor_pos is
redraw_line ==
    LET line == [i \in 1..cmd_len' |-> cmd_buffer'[i - 1]]
        home == clear_line(set_cursor_pos(fb, prompt.x, prompt.y))
    IN  /\ fb' = update_cursor_position(print(home, line), prompt, cursor_pos')
        /\ outgrown' = (outgrown \/ prompt.x + cmd_len' >= Cols)

\* the text after the cursor is not shifted
insert_char_over(c) ==
    /\ mode = "kernel" /\ cmd_len < MAX_CMD_LEN - 1
    /\ cmd_buffer' = [cmd_buffer EXCEPT ![cursor_pos] = c]
    /\ cmd_len' = cmd_len + 1 /\ cursor_pos' = cursor_pos + 1
    /\ redraw_line
    /\ UNCHANGED <<mode, history, history_index, prompt>>

insert_char(c) ==
    /\ mode = "kernel" /\ cmd_len < MAX_CMD_LEN - 1
    /\ cmd_buffer' = [i \in 0..(MAX_CMD_LEN - 1) |->
                        IF i = cursor_pos THEN c
                        ELSE IF i \in (cursor_pos + 1)..cmd_len THEN cmd_buffer[i - 1]
                        ELSE cmd_buffer[i]]
    /\ cmd_len' = cmd_len + 1 /\ cursor_pos' = cursor_pos + 1
    /\ redraw_line
    /\ UNCHANGED <<mode, history, history_index, prompt>>

\* the characters from index from on move one to the left
ShiftLeft(from) ==
    cmd_buffer' = [i \in 0..(MAX_CMD_LEN - 1) |->
                     IF i + 1 \in from..(cmd_len - 1) THEN cmd_buffer[i + 1] ELSE cmd_buffer[i]]

handle_backspace ==
    /\ mode = "kernel" /\ cursor_pos > 0
    /\ ShiftLeft(cursor_pos)
    /\ cmd_len' = cmd_len - 1 /\ cursor_pos' = cursor_pos - 1
    /\ redraw_line
    /\ UNCHANGED <<mode, history, history_index, prompt>>

handle_delete ==
    /\ mode = "kernel" /\ cursor_pos < cmd_len
    /\ ShiftLeft(cursor_pos + 1)
    /\ cmd_len' = cmd_len - 1
    /\ UNCHANGED <<mode, cursor_pos, history, history_index, prompt>>
    /\ redraw_line

move_cursor ==
    /\ mode = "kernel"
    /\ \/ cursor_pos > 0 /\ cursor_pos' = cursor_pos - 1
       \/ cursor_pos < cmd_len /\ cursor_pos' = cursor_pos + 1
    /\ fb' = update_cursor_position(fb, prompt, cursor_pos')
    /\ UNCHANGED <<mode, cmd_buffer, cmd_len, history, history_index, prompt, outgrown>>

HomeOrEnd ==
    /\ mode = "kernel"
    /\ cursor_pos' \in {0, cmd_len}
    /\ UNCHANGED <<mode, cmd_buffer, cmd_len, history, history_index, prompt>>
    /\ redraw_line

KillToEnd ==
    /\ mode = "kernel"
    /\ cmd_len' = cursor_pos
    /\ UNCHANGED <<mode, cmd_buffer, cursor_pos, history, history_index, prompt>>
    /\ redraw_line

KillToStart ==
    /\ mode = "kernel" /\ cursor_pos > 0
    /\ cmd_buffer' = [i \in 0..(MAX_CMD_LEN - 1) |->
                        IF i < cmd_len - cursor_pos THEN cmd_buffer[cursor_pos + i] ELSE cmd_buffer[i]]
    /\ cmd_len' = cmd_len - cursor_pos /\ cursor_pos' = 0
    /\ redraw_line
    /\ UNCHANGED <<mode, history, history_index, prompt>>

ClearScreen ==
    LET shown == print(clear, Prompt)
    IN  /\ mode = "kernel"
        /\ prompt' = [x |-> shown.x, y |-> shown.y]
        /\ fb' = update_cursor_position(print(clear_line(shown), get_cmd_str), prompt', cursor_pos)
        /\ outgrown' = (shown.x + cmd_len >= Cols)
        /\ UNCHANGED <<mode, cmd_buffer, cmd_len, cursor_pos, history, history_index>>
-----------------------------------------------------------------------------
(* History                                                                 *)

load_history_command(i) ==
    /\ history_index' = i
    /\ cmd_buffer' = [k \in 0..(MAX_CMD_LEN - 1) |->
                        IF k < Len(history[i]) THEN history[i][k + 1] ELSE cmd_buffer[k]]
    /\ cmd_len' = Len(history[i]) /\ cursor_pos' = Len(history[i])

history_up ==
    /\ mode = "kernel" /\ history # <<>>
    /\ load_history_command(CASE history_index = 0 -> Len(history)
                              [] history_index = 1 -> 1
                              [] OTHER -> history_index - 1)
    /\ redraw_line
    /\ UNCHANGED <<mode, history, prompt>>

\* the command after the last one is asked for
history_down_late ==
    /\ mode = "kernel" /\ history # <<>> /\ history_index # 0
    /\ IF history_index > Len(history)
         THEN history_index' = 0 /\ cmd_len' = 0 /\ cursor_pos' = 0 /\ UNCHANGED cmd_buffer
         ELSE /\ history_index' = history_index + 1
              /\ UNCHANGED <<cmd_buffer, cmd_len, cursor_pos>>
    /\ redraw_line
    /\ UNCHANGED <<mode, history, prompt>>

history_down ==
    /\ mode = "kernel" /\ history # <<>> /\ history_index # 0
    /\ IF history_index >= Len(history)
         THEN history_index' = 0 /\ cmd_len' = 0 /\ cursor_pos' = 0 /\ UNCHANGED cmd_buffer
         ELSE load_history_command(history_index + 1)
    /\ redraw_line
    /\ UNCHANGED <<mode, history, prompt>>

\* repeats are kept
remember_all(h, cmd) ==
    IF cmd = <<>> THEN h
    ELSE Append(IF Len(h) >= MAX_HISTORY THEN Tail(h) ELSE h, cmd)

remember(h, cmd) ==
    IF cmd = <<>> \/ (h # <<>> /\ Last(h) = cmd) THEN h
    ELSE Append(IF Len(h) >= MAX_HISTORY THEN Tail(h) ELSE h, cmd)

\* the newline, the command's output, the history, a fresh prompt
Enter(out) ==
    /\ mode = "kernel"
    /\ history' = remember(history, get_cmd_str)
    /\ cmd_len' = 0 /\ cursor_pos' = 0 /\ history_index' = 0
    /\ fb' = print(print(print(fb, <<NewLineChar>>), IF cmd_len = 0 THEN <<>> ELSE out), Prompt)
    /\ prompt' = [x |-> fb'.x, y |-> fb'.y] /\ outgrown' = FALSE
    /\ UNCHANGED <<mode, cmd_buffer>>
-----------------------------------------------------------------------------
(* read_line of the login screen and the loop of the Ring 3 shell          *)

EchoChar(c) ==
    /\ mode = "echo" /\ cmd_len < MAX_CMD_LEN - 1
    /\ cmd_buffer' = [cmd_buffer EXCEPT ![cmd_len] = c]
    /\ cmd_len' = cmd_len + 1 /\ cursor_pos' = cmd_len + 1
    /\ fb' = print(fb, <<c>>)
    /\ UNCHANGED <<mode, history, history_index, prompt, outgrown>>

EchoBackspace ==
    /\ mode = "echo" /\ cmd_len > 0
    /\ cmd_len' = cmd_len - 1 /\ cursor_pos' = cmd_len - 1
    /\ fb' = print(fb, <<BackspaceChar, Blank, BackspaceChar>>)
    /\ UNCHANGED <<mode, cmd_buffer, history, history_index, prompt, outgrown>>

EchoEnter(out) ==
    /\ mode = "echo"
    /\ cmd_len' = 0 /\ cursor_pos' = 0
    /\ fb' = print(print(print(fb, <<NewLineChar>>), IF cmd_len = 0 THEN <<>> ELSE out), Prompt)
    /\ prompt' = [x |-> fb'.x, y |-> fb'.y]
    /\ UNCHANGED <<mode, cmd_buffer, history, history_index, outgrown>>

Next ==
    \/ \E c \in Chars : insert_char(c) \/ EchoChar(c)
    \/ handle_backspace \/ handle_delete \/ move_cursor \/ HomeOrEnd \/ KillToEnd \/ KillToStart
    \/ ClearScreen \/ history_up \/ history_down
    \/ \E out \in Outputs : Enter(out) \/ EchoEnter(out)
    \/ EchoBackspace

Spec == Init /\ [][Next]_vars
-----------------------------------------------------------------------------
Line == get_cmd_str
Pre == SubSeq(Line, 1, cursor_pos)
Post == SubSeq(Line, cursor_pos + 1, cmd_len)

\* Types of the line, the screen and the history.
TypeOK ==
    /\ cmd_len \in 0..(MAX_CMD_LEN - 1) /\ cursor_pos \in 0..cmd_len
    /\ \A i \in 1..cmd_len : cmd_buffer[i - 1] \in Chars
    /\ Len(history) <= MAX_HISTORY /\ history_index \in 0..Len(history)
    /\ fb.y \in 0..(Rows - 1)

\* The kernel shell's arrow keys walk a history in which no command follows
\* itself: neighbours differ, and while a command from the history is being
\* shown its index names an existing entry.
HistorySound ==
    /\ \A i \in 1..(Len(history) - 1) : history[i] # history[i + 1]
    /\ history_index <= Len(history)

\* Every key does to the text before and after the cursor what such a key
\* does to a line: one character in or out at the cursor, a move, a kill, or
\* the whole line replaced by a command of the history or by nothing.
EditsTheLine ==
    \/ \E c \in Chars : Pre' = Append(Pre, c) /\ Post' = Post
    \/ Pre # <<>> /\ Pre' = Front(Pre) /\ Post' = Post
    \/ Post # <<>> /\ Post' = Tail(Post) /\ Pre' = Pre
    \/ Line' = Line
    \/ Post' = <<>> /\ Pre' = Pre
    \/ Pre' = <<>> /\ Post' = Post
    \/ Post' = <<>> /\ Pre' \in {history[i] : i \in 1..Len(history)} \cup {<<>>}

\* What the user sees is what Enter will run.  The kernel shell shows the
\* line, and blanks after it, from the prompt on and keeps the cursor on its
\* character, as long as the line has not outgrown the prompt's row; the
\* echoing editors show it just before the cursor, across wrapped rows and
\* scrolling.
ScreenShowsLine ==
    IF mode = "kernel"
      THEN outgrown
           \/ /\ fb.x = prompt.x + cursor_pos /\ fb.y = prompt.y
              /\ \A c \in prompt.x..(Cols - 1) :
                    fb.cell[prompt.y][c] = IF c - prompt.x < cmd_len THEN Line[c - prompt.x + 1] ELSE Blank
      ELSE LET start == fb.y * Cols + fb.x
           IN  \A i \in 1..cmd_len : start >= i =>
                 fb.cell[(start - i) \div Cols][(start - i) % Cols] = Line[cmd_len + 1 - i]
=============================================================================
