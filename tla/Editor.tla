------------------------------- MODULE Editor -------------------------------
(***************************************************************************)
(* apps/editor.rs: the gap buffers, the modal editor over them and its     *)
(* key loop run_cli, opened again and again on one file.  A byte of the    *)
(* gap is Junk: nothing may depend on it.  The file is as fs_read gives it *)
(* and fs_write leaves it; a write may fail, leaving the file garbled.     *)
(* What render_editor draws is left out, the lines it draws are not.       *)
(***************************************************************************)
EXTENDS Naturals, Sequences, SequencesExt, FiniteSetsExt

CONSTANTS
    Chars, NL, Junk,
    Files,                \* contents the file may have at first: sequences over Chars and NL
    Absent, Garbled,
    GAP_NEW, GAP_EXTRA,   \* 4096 and 1024
    VIEW_HEIGHT,
    MaxText, MaxSaved,    \* bounds on the text, and on the text that is saved
    Commands              \* bound on the command line: what may stand in it

VARIABLES
    file,                 \* on the disk
    lines, cursor, mode, modified, view_offset, command_buffer,
    open                  \* "open", "closed", or "panic"

vars == <<file, lines, cursor, mode, modified, view_offset, command_buffer, open>>
-----------------------------------------------------------------------------
(* GapBuffer: [buffer, gap_start, gap_end], positions from 0               *)

Junks(n) == [i \in 1..n |-> Junk]
GapNew == [buffer |-> Junks(GAP_NEW), gap_start |-> 0, gap_end |-> GAP_NEW]
with_content(s) == [buffer |-> s \o Junks(GAP_EXTRA), gap_start |-> Len(s), gap_end |-> Len(s) + GAP_EXTRA]

gap_size(g) == g.gap_end - g.gap_start
content_len(g) == Len(g.buffer) - gap_size(g)

\* n bytes are copied from position src to position dst, and the gap put at start..end
Copied(g, n, src, dst, start, end) ==
    [buffer |-> [i \in 1..Len(g.buffer) |->
                   IF i \in (start + 1)..end THEN Junk
                   ELSE IF i \in (dst + 1)..(dst + n) THEN g.buffer[src + i - dst]
                   ELSE g.buffer[i]],
     gap_start |-> start, gap_end |-> end]

\* the gap moves right without the bytes it passes
move_gap_jump(g, at) ==
    LET pos == Min({at, content_len(g)})
        left == g.gap_start - pos
        right == pos - g.gap_start
    IN  IF pos < g.gap_start
          THEN Copied(g, left, pos, g.gap_end - left, pos, g.gap_end - left)
          ELSE Copied(g, 0, 0, 0, g.gap_start + right, g.gap_end + right)

move_gap(g, at) ==
    LET pos == Min({at, content_len(g)})
        left == g.gap_start - pos
        right == pos - g.gap_start
    IN  IF pos < g.gap_start
          THEN Copied(g, left, pos, g.gap_end - left, pos, g.gap_end - left)
          ELSE Copied(g, right, g.gap_end, g.gap_start, g.gap_start + right, g.gap_end + right)

\* the bytes after the gap stay where they were
ensure_gap_append(g, needed) ==
    IF gap_size(g) >= needed THEN g
    ELSE LET grow == Max({needed - gap_size(g), GAP_EXTRA})
         IN  [g EXCEPT !.buffer = @ \o Junks(grow), !.gap_end = @ + grow]

ensure_gap(g, needed) ==
    IF gap_size(g) >= needed THEN g
    ELSE LET grow == Max({needed - gap_size(g), GAP_EXTRA})
             old == Len(g.buffer)
             after == old - g.gap_end
         IN  Copied([g EXCEPT !.buffer = @ \o Junks(grow)],
                    after, g.gap_end, old + grow - after, g.gap_start, old + grow - after)

\* insert is insert_str of one byte
insert_str(g, pos, data) ==
    LET m == ensure_gap(move_gap(g, pos), Len(data))
    IN  [m EXCEPT !.buffer = [i \in 1..Len(m.buffer) |->
                                IF i - m.gap_start \in 1..Len(data) THEN data[i - m.gap_start] ELSE m.buffer[i]],
                  !.gap_start = @ + Len(data)]

delete_range(g, start, to) ==
    LET end == Min({to, content_len(g)})
    IN  IF start >= end THEN g
        ELSE LET m == move_gap(g, start)
             IN  Copied(m, 0, 0, 0, m.gap_start, m.gap_end + end - start)

delete(g, pos) == IF pos >= content_len(g) THEN g ELSE delete_range(g, pos, pos + 1)

to_bytes(g) == SubSeq(g.buffer, 1, g.gap_start) \o SubSeq(g.buffer, g.gap_end + 1, Len(g.buffer))
-----------------------------------------------------------------------------
(* Loading and saving                                                      *)

\* positions of the newlines, with one before and one after the text
Breaks(s) == SetToSortSeq({0, Len(s) + 1} \cup {i \in 1..Len(s) : s[i] = NL}, <)

\* a last line without bytes is not pushed
SplitNonEmpty(s) ==
    LET b == Breaks(s)
        all == [k \in 1..(Len(b) - 1) |-> SubSeq(s, b[k] + 1, b[k + 1] - 1)]
    IN  IF Last(all) = <<>> /\ Len(all) > 1 THEN Front(all) ELSE all

\* one line for each newline and one for the rest
Split(s) ==
    LET b == Breaks(s)
    IN  [k \in 1..(Len(b) - 1) |-> SubSeq(s, b[k] + 1, b[k + 1] - 1)]

LoadedLines(f) ==
    IF f = Absent THEN <<GapNew>>
    ELSE LET parts == Split(IF f = Garbled THEN <<Garbled>> ELSE f)
         IN  [k \in 1..Len(parts) |-> with_content(parts[k])]

Text == FlattenSeq([k \in 1..Len(lines) |->
                      to_bytes(lines[k]) \o (IF k < Len(lines) THEN <<NL>> ELSE <<>>)])

Fresh(f) ==
    /\ lines = LoadedLines(f)
    /\ cursor = [line |-> 0, col |-> 0]
    /\ mode = "Normal" /\ modified = FALSE /\ view_offset = 0 /\ command_buffer = <<>>
    /\ open = "open"

Init == file \in Files \cup {Absent} /\ Fresh(file)

\* run_cli again
Open ==
    /\ open = "closed"
    /\ open' = "open" /\ lines' = LoadedLines(file) /\ cursor' = [line |-> 0, col |-> 0]
    /\ mode' = "Normal" /\ modified' = FALSE /\ view_offset' = 0 /\ command_buffer' = <<>>
    /\ UNCHANGED file

save ==
    \/ file' = Text /\ modified' = FALSE
    \/ file' \in {file, IF file \in {Absent, <<>>} THEN <<>> ELSE Garbled} /\ UNCHANGED modified
-----------------------------------------------------------------------------
(* Keys.  should_quit is tested after each one; then update_view runs.     *)

should_quit(buf) == buf \in {<<"q">>, <<"w", "q">>}

\* the view only follows the cursor upwards
update_view_up(line, offset) == IF line < offset THEN line ELSE offset

update_view(line, offset) ==
    IF line < offset THEN line
    ELSE IF line >= offset + VIEW_HEIGHT THEN line - VIEW_HEIGHT + 1
    ELSE offset

\* the end of the loop's turn
Turn ==
    IF should_quit(command_buffer')
      THEN open' = "closed" /\ UNCHANGED view_offset
      ELSE open' = "open" /\ view_offset' = update_view(cursor'.line, view_offset)

Cur == lines[cursor.line + 1]
LineLen(k) == content_len(lines[k + 1])
Here == open = "open"
UnchangedText == UNCHANGED <<file, lines, modified>>

\* h l j k 0 $ G g; G and g leave the column alone
Moves ==
    LET c == cursor IN
    {[c EXCEPT !.col = Max({@, 1}) - 1],
     [c EXCEPT !.col = IF @ < LineLen(c.line) THEN @ + 1 ELSE @],
     IF c.line > 0 THEN [line |-> c.line - 1, col |-> Min({c.col, LineLen(c.line - 1)})] ELSE c,
     IF c.line < Len(lines) - 1 THEN [line |-> c.line + 1, col |-> Min({c.col, LineLen(c.line + 1)})] ELSE c,
     [c EXCEPT !.col = 0], [c EXCEPT !.col = LineLen(c.line)],
     [c EXCEPT !.line = Len(lines) - 1], [c EXCEPT !.line = 0]}

Move ==
    /\ Here /\ mode = "Normal"
    /\ cursor' \in Moves
    /\ UNCHANGED <<mode, command_buffer>> /\ UnchangedText /\ Turn

\* i, Esc, and ':', which clears the command
SwitchMode ==
    /\ Here
    /\ \/ mode = "Normal" /\ mode' = "Insert" /\ UNCHANGED command_buffer
       \/ mode = "Normal" /\ mode' = "Command" /\ command_buffer' = <<>>
       \/ mode # "Normal" /\ mode' = "Normal" /\ UNCHANGED command_buffer
    /\ UNCHANGED cursor /\ UnchangedText /\ Turn

\* x
delete_char ==
    /\ Here /\ mode = "Normal"
    /\ cursor.col < LineLen(cursor.line)
    /\ lines' = [lines EXCEPT ![cursor.line + 1] = delete(@, cursor.col)]
    /\ modified' = TRUE
    /\ UNCHANGED <<file, cursor, mode, command_buffer>> /\ Turn

\* the text is changed and not marked so
insert_char_unmarked(ch) ==
    /\ Here /\ mode = "Insert" /\ Len(Text) < MaxText
    /\ lines' = [lines EXCEPT ![cursor.line + 1] = insert_str(@, cursor.col, <<ch>>)]
    /\ cursor' = [cursor EXCEPT !.col = @ + 1]
    /\ UNCHANGED <<file, modified, mode, command_buffer>> /\ Turn

insert_char(ch) ==
    /\ Here /\ mode = "Insert" /\ Len(Text) < MaxText
    /\ lines' = [lines EXCEPT ![cursor.line + 1] = insert_str(@, cursor.col, <<ch>>)]
    /\ cursor' = [cursor EXCEPT !.col = @ + 1]
    /\ modified' = TRUE
    /\ UNCHANGED <<file, mode, command_buffer>> /\ Turn

\* to_bytes()[col..] panics when the column is past the end
insert_newline ==
    /\ Here /\ mode = "Insert" /\ Len(Text) < MaxText
    /\ UNCHANGED <<file, mode, command_buffer>>
    /\ IF cursor.col > LineLen(cursor.line)
         THEN open' = "panic" /\ UNCHANGED <<lines, cursor, modified, view_offset>>
         ELSE LET rest == SubSeq(to_bytes(Cur), cursor.col + 1, content_len(Cur))
                  cut == [lines EXCEPT ![cursor.line + 1] = delete_range(@, cursor.col, content_len(@))]
              IN  /\ lines' = InsertAt(cut, cursor.line + 2, with_content(rest))
                  /\ cursor' = [line |-> cursor.line + 1, col |-> 0]
                  /\ modified' = TRUE /\ Turn

backspace ==
    /\ Here /\ mode = "Insert"
    /\ \/ /\ cursor.col > 0
          /\ lines' = [lines EXCEPT ![cursor.line + 1] = delete(@, cursor.col - 1)]
          /\ cursor' = [cursor EXCEPT !.col = @ - 1]
       \/ /\ cursor.col = 0 /\ cursor.line > 0
          /\ LET above == cursor.line
                 at == content_len(lines[above])
             IN  /\ lines' = [RemoveAt(lines, above + 1) EXCEPT ![above] = insert_str(@, at, to_bytes(Cur))]
                 /\ cursor' = [line |-> above - 1, col |-> at]
    /\ modified' = TRUE
    /\ UNCHANGED <<file, mode, command_buffer>> /\ Turn

CommandChar(ch) ==
    /\ Here /\ mode = "Command"
    /\ command_buffer' = Append(command_buffer, ch) /\ command_buffer' \in Commands
    /\ UNCHANGED <<cursor, mode>> /\ UnchangedText /\ Turn

CommandBackspace ==
    /\ Here /\ mode = "Command" /\ command_buffer # <<>>
    /\ command_buffer' = Front(command_buffer)
    /\ UNCHANGED <<cursor, mode>> /\ UnchangedText /\ Turn

execute_command ==
    /\ Here /\ mode = "Command"
    /\ IF command_buffer \in {<<"w">>, <<"w", "q">>} THEN Len(Text) <= MaxSaved /\ save ELSE UNCHANGED <<file, modified>>
    /\ mode' = "Normal"
    /\ UNCHANGED <<lines, cursor, command_buffer>> /\ Turn
-----------------------------------------------------------------------------
Next ==
    \/ Open \/ Move \/ SwitchMode \/ delete_char \/ insert_newline \/ backspace
    \/ \E ch \in Chars : insert_char(ch)
    \/ \E ch \in {"w", "q"} : CommandChar(ch)
    \/ CommandBackspace \/ execute_command

Spec == Init /\ [][Next]_vars
-----------------------------------------------------------------------------
\* Types of the text, the cursor and the mode.
TypeOK ==
    /\ lines # <<>> /\ cursor.line \in 0..(Len(lines) - 1) /\ cursor.col \in Nat
    /\ \A k \in 1..Len(lines) :
          /\ lines[k].gap_start <= lines[k].gap_end /\ lines[k].gap_end <= Len(lines[k].buffer)
          /\ \A i \in 1..Len(lines[k].buffer) :
                (lines[k].buffer[i] = Junk) = (i \in (lines[k].gap_start + 1)..lines[k].gap_end)
    /\ mode \in {"Normal", "Insert", "Command"} /\ modified \in BOOLEAN

\* where the cursor is in the text; past the end of its line is the end
Offset ==
    Min({cursor.col, LineLen(cursor.line)})
      + FoldLeft(LAMBDA n, k : n + LineLen(k - 1) + 1, 0, [k \in 1..cursor.line |-> k])

\* Through gap moves, growing buffers, split and joined lines, a key does one
\* thing to the text: it inserts a character at the cursor and steps over it,
\* removes the one before the cursor or the one under it, or changes nothing.
EditsAtCursor ==
    open' = "open" /\ open = "open" =>
        \/ Text' = Text
        \/ \E c \in Chars \cup {NL} : Text' = InsertAt(Text, Offset + 1, c) /\ Offset' = Offset + 1
        \/ Offset > 0 /\ Text' = RemoveAt(Text, Offset) /\ Offset' = Offset - 1
        \/ Offset < Len(Text) /\ Text' = RemoveAt(Text, Offset + 1) /\ Offset' = Offset

\* A buffer that is not marked modified is what the file holds, byte for byte,
\* through load's splitting and save's joining, trailing newlines included; and
\* the cursor's line is among the ones on the screen.
UnmodifiedIsSaved ==
    /\ ~modified /\ open = "open" /\ file \notin {Absent, Garbled} => Text = file
    /\ open = "open" => view_offset <= cursor.line /\ cursor.line < view_offset + VIEW_HEIGHT
=============================================================================
