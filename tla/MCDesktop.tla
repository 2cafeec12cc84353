------------------------------ MODULE MCDesktop ------------------------------
(***************************************************************************)
(* What the user sees and does, for TLC: the desktop, the graphics server, *)
(* the desktop's calculator and terminal, the console the shells edit      *)
(* their line on, the session from the login screen to the shells, and the *)
(* text editor.  A behaviour exercises one of them, `part`, and the others *)
(* rest.                                                                   *)
(***************************************************************************)
EXTENDS Desktop

CONSTANTS Parts, Absent, Garbled, Nobody, NL, Junk

VARIABLES
    part,
    gs_surfaces, next_surface_id, back_buffer, framebuffer, damage_rects, full_redraw,
    presenting, composed,
    display, operand1, operator, clear_on_next, keys,
    output, typing, term_cursor, commands, transcript, typed,
    fb, con_mode, cmd_buffer, cmd_len, cursor_pos, history, history_index, prompt, outgrown,
    at, attempts, user, files, formatted, mounted, cmd, msg, shown,
    file, lines, cursor, ed_mode, modified, view_offset, command_buffer, open

Windows ==
    [t \in {"Files", "About Astral", "System Info", "Calculator", "Terminal"} |->
        CASE t = "Files" -> <<8, 8>> [] t = "About Astral" -> <<7, 6>>
          [] t = "System Info" -> <<7, 7>> [] t = "Calculator" -> <<6, 6>>
          [] t = "Terminal" -> <<9, 8>>]
OpeningWindows == <<"Files", "System Info">>
PointerPlaces == {<<2, 1>>, <<12, 9>>}

Gfx == INSTANCE Compositor WITH
    surfaces <- gs_surfaces, Threads <- {"t1"}, WIDTH <- 2, HEIGHT <- 1, OPAQUE <- 2, MAX_DIM <- 2,
    BootScreen <- 9, Dims <- {<<1, 2>>, <<2, 1>>, <<0, 1>>, <<1, 3>>}, Images <- {<<2, 1>>},
    White <- <<3, 2>>, MaxSurfaces <- 2
App == INSTANCE Apps WITH
    input <- typing, cursor <- term_cursor, history <- commands,
    Digits <- {0, 2}, MaxKeys <- 5, MaxValue <- 99, Letters <- {"h", "c", "s"}, Space <- "s",
    Help <- <<"h", "p">>, Clear <- <<"c">>, Hel <- <<"h">>, Cle <- <<"c">>, Prints <- {1, 2},
    MAX_HISTORY <- 1, MAX_OUTPUT_LINES <- 3, MaxLine <- 2, MaxLines <- 5
Con == INSTANCE Console WITH
    mode <- con_mode, Cols <- 3, Rows <- 2, Chars <- {"a", "b"}, Blank <- " ", Prompt <- <<">">>,
    Outputs <- {<<"a", "tab", "b", "nl">>}, MAX_CMD_LEN <- 3, MAX_HISTORY <- 2
Ses == INSTANCE Session WITH
    Accounts <- {[username |-> "root", password |-> "p", uid |-> 0],
                 [username |-> "user", password |-> "q", uid |-> 1000]},
    Usernames <- {"root", "user", "x"}, Passwords <- {"p", "q", "r"},
    Hash <- [w \in {"p", "q", "r"} |-> IF w = "p" THEN 1 ELSE 2],
    MAX_ATTEMPTS <- 3, Words <- {"f", "g"}, MaxArgs <- 2, MAX_FILENAME_LEN <- 2, MAX_FILES <- 1,
    CatBuf <- 1, WordSize <- 64, ErrBase <- 48
Edt == INSTANCE Editor WITH
    mode <- ed_mode, Chars <- {"a"}, Files <- {<<"b", NL>>}, GAP_NEW <- 1, GAP_EXTRA <- 1,
    VIEW_HEIGHT <- 1, MaxText <- 3, MaxSaved <- 1, Commands <- {<<"w">>, <<"q">>, <<"w", "q">>}

gfx_vars == <<gs_surfaces, next_surface_id, back_buffer, framebuffer, damage_rects, full_redraw,
              presenting, composed>>
calc_vars == <<display, operand1, operator, clear_on_next, keys>>
term_vars == <<output, typing, term_cursor, commands, transcript, typed>>
con_vars == <<fb, con_mode, cmd_buffer, cmd_len, cursor_pos, history, history_index, prompt, outgrown>>
ses_vars == <<at, attempts, user, files, formatted, mounted, cmd, msg, shown>>
ed_vars == <<file, lines, cursor, ed_mode, modified, view_offset, command_buffer, open>>
all_vars == <<part, vars, gfx_vars, calc_vars, term_vars, con_vars, ses_vars, ed_vars>>
-----------------------------------------------------------------------------
\* Which part runs, and one start of each that does not.
DesktopInit ==
    /\ part \in Parts
    /\ Init /\ Gfx!Init /\ App!Init /\ Con!Init /\ Ses!Init /\ Edt!Init
    /\ part # "desktop" => mouse.x = 2
    /\ part # "console" => con_mode = "kernel"
    /\ part # "editor" => file = Absent

\* Nothing is waiting for the user but the part the user has before them, and they
\* may leave it alone.
LeftAlone ==
    /\ part \in {"calculator", "terminal", "session", "editor"} \/ (part = "desktop" /\ pc = "out")
    /\ UNCHANGED all_vars

DesktopNext ==
    \/ /\ UNCHANGED part
       /\ \/ /\ part = "desktop" /\ Next
             /\ UNCHANGED <<gfx_vars, calc_vars, term_vars, con_vars, ses_vars, ed_vars>>
          \/ /\ part = "graphics" /\ Gfx!Next
             /\ UNCHANGED <<vars, calc_vars, term_vars, con_vars, ses_vars, ed_vars>>
          \/ /\ part = "calculator" /\ App!CalculatorKey
             /\ UNCHANGED <<vars, gfx_vars, con_vars, ses_vars, ed_vars>>
          \/ /\ part = "terminal" /\ App!TerminalKey
             /\ UNCHANGED <<vars, gfx_vars, con_vars, ses_vars, ed_vars>>
          \/ /\ part = "console" /\ Con!Next
             /\ UNCHANGED <<vars, gfx_vars, calc_vars, term_vars, ses_vars, ed_vars>>
          \/ /\ part = "session" /\ Ses!Next
             /\ UNCHANGED <<vars, gfx_vars, calc_vars, term_vars, con_vars, ed_vars>>
          \/ /\ part = "editor" /\ Edt!Next
             /\ UNCHANGED <<vars, gfx_vars, calc_vars, term_vars, con_vars, ses_vars>>
    \/ LeftAlone

\* The desktop's loop goes on: WF_vars(Loop), written out, since a step of the loop
\* is enabled exactly while the desktop has not been left.
LoopFair == []<>(part # "desktop" \/ pc = "out") \/ []<><<Loop>>_vars

DesktopSpec == DesktopInit /\ [][DesktopNext]_all_vars /\ LoopFair
-----------------------------------------------------------------------------
\* Every variable of the parts has its type.
TypesOK ==
    /\ TypeOK
    /\ CASE part = "graphics" -> Gfx!TypeOK
         [] part \in {"calculator", "terminal"} -> App!TypeOK
         [] part = "console" -> Con!TypeOK
         [] part = "session" -> Ses!TypeOK
         [] part = "editor" -> Edt!TypeOK
         [] OTHER -> TRUE

\* Desktop: the focus, the open applications, the surfaces and the windows agree
\* after any keys and clicks, and the tiled windows lie in the work area, none
\* empty and no two on top of each other.
WindowsSound == part = "desktop" => DesktopSound /\ LayoutSound

\* What is on the screen is what there is: the desktop's last frame has its windows
\* as they are, no drawing is lost to another process's frame, and the console
\* shows the line that Enter will run.
ScreenIsCurrent ==
    CASE part = "desktop" -> FrameIsCurrent
      [] part = "graphics" -> Gfx!DrawingIsComposed
      [] part = "console" -> Con!ScreenShowsLine
      [] OTHER -> TRUE

\* Input acts where the user sees it act: a click goes to the window seen under the
\* pointer, and a key does one thing to the text, at the cursor, in the line editors
\* of the shells and in the text editor.
InputActsWhereSeen ==
    [][ /\ part = "desktop" => ClickHitsSeen
        /\ part = "console" => Con!EditsTheLine
        /\ part = "editor" => Edt!EditsAtCursor ]_all_vars

\* What the programs keep is what was typed: the calculator's result, the end of
\* the terminal's output and its last commands, the shell's history without
\* repetitions, an unmodified text and its file.
AppsRight ==
    CASE part = "calculator" -> App!CalculatesLeftToRight
      [] part = "terminal" -> App!TerminalShowsLast
      [] part = "console" -> Con!HistorySound
      [] part = "editor" -> Edt!UnmodifiedIsSaved
      [] OTHER -> TRUE

\* Session: nobody passes the login screen without an account's name and password,
\* it locks at the last attempt, and only root gets to the kernel shell.
SessionSound == part = "session" => Ses!SessionSound

\* What an operation reports has happened: a shell says so only when the file system
\* did what was asked, and the first frame that is presented is the surfaces painted
\* in turn over black.
ReportsAreTrue ==
    [][ /\ part = "session" => Ses!SuccessIsReal
        /\ part = "graphics" => Gfx!FirstFrameIsRight ]_all_vars

Near(a, b) == a - b \in -2..2
Settled ==
    \A i \in DOMAIN server.windows :
        LET w == server.windows[i]
        IN  Near(w.x, w.tx) /\ Near(w.y, w.ty) /\ Near(w.w, w.tw) /\ Near(w.h, w.th)

\* Desktop: with no more input every window comes within two pixels of the place
\* and size it is to have, whatever was moving or held when the input ended, and
\* stays there.
AnimationsSettle ==
    (part = "desktop" /\ events = MaxEvents /\ pc # "out") ~> [](pc # "out" => Settled)

\* "Present surface to screen" (usermode/syscall.rs:419): the frame a present
\* composes is on the screen when the system call returns.
PresentReachesScreen == Gfx!PresentReachesScreen
=============================================================================
