------------------------------- MODULE Desktop -------------------------------
(***************************************************************************)
(* The desktop: the loop of gui/mod.rs, the display server it drives       *)
(* (display/mod.rs), the surfaces its applications draw on and the frame   *)
(* the renderer leaves on the screen (display/renderer.rs).                *)
(*                                                                         *)
(* One iteration of the loop is the steps "x", "y" (the two loads of the   *)
(* pointer's position), "mouse", "key" and "frame"; the mouse interrupt    *)
(* may land between any two of them.  Pixels are abstracted to what covers *)
(* what: a frame is the windows in the order they were painted.            *)
(***************************************************************************)
EXTENDS Integers, Sequences, FiniteSets, TLC

CONSTANTS SCREEN_W, SCREEN_H, TASKBAR, GAP,
          POP,        \* the size a window pops in at (50)
          UNSIZED,    \* the size recalculate_layout takes for a new window (10)
          FLOAT_MIN,  \* the least size it gives such a window (100)
          TITLE_BAR,  \* the strip a window is dragged by (30)
          PILLS,      \* the windows the taskbar has room for
          SizeOf,     \* title -> <<width, height>> asked for
          Opening,    \* the titles of the windows run() opens
          Points,     \* where the pointer may be moved to
          Keys, NumFiles,
          MaxEvents,  \* keys and mouse packets of one behaviour
          MaxSurfaces, None

VARIABLES server,     \* DISPLAY_SERVER
          surfaces,   \* the surfaces of the graphics server
          browser, calc, term, files_win, calc_win, term_win,
          mouse,      \* MOUSE_X, MOUSE_Y, the left button
          px, py, last_pressed, last_pos, moved, dragging, handled,
          frame,      \* what the framebuffer shows
          pc, events

vars == <<server, surfaces, browser, calc, term, files_win, calc_win, term_win, mouse,
          px, py, last_pressed, last_pos, moved, dragging, handled, frame, pc, events>>

apps == <<browser, calc, term, files_win, calc_win, term_win>>
input == <<px, py, last_pressed, last_pos, moved, dragging>>

----------------------------------------------------------------------------
(* The display server. *)

Ids(ws) == {ws[i].id : i \in DOMAIN ws}
Find(ws, id) == ws[CHOOSE i \in DOMAIN ws : ws[i].id = id]

\* Replace window id, when there is one, by f applied to it.
Update(ws, id, f(_)) == [i \in DOMAIN ws |-> IF ws[i].id = id THEN f(ws[i]) ELSE ws[i]]

Tiled(ws) == SelectSeq(ws, LAMBDA w : ~w.floating)

WorkArea == [x |-> GAP, y |-> GAP, w |-> SCREEN_W - 2 * GAP, h |-> SCREEN_H - TASKBAR - 2 * GAP]

\* The halves the dwindle layout cuts an area into: along its longer side.
First(a) == IF a.w > a.h THEN [a EXCEPT !.w = a.w \div 2 - GAP] ELSE [a EXCEPT !.h = a.h \div 2 - GAP]
\* A mutant of Rest: the rest starts where the area starts.
RestInPlace(a) == IF a.w > a.h THEN [a EXCEPT !.w = a.w - a.w \div 2] ELSE [a EXCEPT !.h = a.h - a.h \div 2]

Rest(a) == IF a.w > a.h
           THEN [a EXCEPT !.x = a.x + a.w \div 2, !.w = a.w - a.w \div 2]
           ELSE [a EXCEPT !.y = a.y + a.h \div 2, !.h = a.h - a.h \div 2]

Tiles(n) ==
  LET area[i \in 1..n] == IF i = 1 THEN WorkArea ELSE Rest(area[i - 1])
  IN  [i \in 1..n |-> IF i = n THEN area[i] ELSE First(area[i])]

Targeted(w, r) == [w EXCEPT !.tx = r.x, !.ty = r.y, !.tw = r.w, !.th = r.h]

LargerOf(a, b) == IF a > b THEN a ELSE b
SmallerOf(a, b) == IF a < b THEN a ELSE b

Dwindle(ws) ==
  LET tiles == Tiles(Len(Tiled(ws)))
      rank(i) == Cardinality({j \in 1..i : ~ws[j].floating})
  IN  [i \in DOMAIN ws |-> IF ws[i].floating THEN ws[i] ELSE Targeted(ws[i], tiles[rank(i)])]

\* A floating window of the initial size is centred.
Centre(w) ==
  LET tw == LargerOf(w.tw, FLOAT_MIN)  th == LargerOf(w.th, FLOAT_MIN)
  IN  IF w.floating /\ w.w = UNSIZED
      THEN Targeted(w, [x |-> (SCREEN_W - tw) \div 2, y |-> (SCREEN_H - th) \div 2, w |-> tw, h |-> th])
      ELSE w

recalculate_layout(s) ==
  LET kept == [i \in DOMAIN s.windows |->
                 LET w == s.windows[i]
                 IN  IF w.floating THEN w ELSE Targeted(w, [x |-> w.x, y |-> w.y, w |-> w.w, h |-> w.h])]
      ws == IF s.mode = "Floating" THEN kept ELSE Dwindle(s.windows)
  IN  IF s.windows = <<>> \/ (s.mode = "Dwindle" /\ Tiled(s.windows) = <<>>)
      THEN s
      ELSE [s EXCEPT !.windows = [i \in DOMAIN ws |-> Centre(ws[i])], !.laid = s.mode]

\* A mutant: the window that had the focus keeps its flag.
UnfocusedNot(ws, id) == ws

Unfocused(ws, id) == Update(ws, id, LAMBDA w : [w EXCEPT !.focused = FALSE])

create_window(s, title, surface) ==
  LET floating == title \in {"Calculator", "About"}
      w == [id |-> s.next_id, title |-> title, surface |-> surface,
            x |-> SCREEN_W \div 2, y |-> SCREEN_H \div 2, w |-> POP, h |-> POP,
            tx |-> SCREEN_W \div 2, ty |-> SCREEN_H \div 2,
            tw |-> SizeOf[title][1], th |-> SizeOf[title][2],
            focused |-> TRUE, z |-> Len(s.windows), floating |-> floating, decorated |-> floating]
  IN  recalculate_layout([s EXCEPT !.windows = Append(Unfocused(@, s.focused), w),
                                   !.focused = s.next_id, !.next_id = @ + 1, !.dirty = TRUE])

destroy_window(s, id) ==
  LET ws == SelectSeq(s.windows, LAMBDA w : w.id # id)
      f == IF ws = <<>> THEN None ELSE ws[Len(ws)].id
      focus(w) == [w EXCEPT !.focused = TRUE]
  IN  recalculate_layout(
        IF s.focused = id
        THEN [s EXCEPT !.windows = Update(ws, f, focus), !.focused = f, !.dirty = TRUE]
        ELSE [s EXCEPT !.windows = ws, !.dirty = TRUE])

focus_window(s, id) ==
  LET zs == {s.windows[i].z : i \in DOMAIN s.windows}
      top == IF zs = {} THEN 0 ELSE CHOOSE z \in zs : \A y \in zs : y <= z
      raise(w) == [w EXCEPT !.focused = TRUE, !.z = top + 1]
  IN  [s EXCEPT !.windows = Update(Unfocused(@, s.focused), id, raise),
                !.focused = id, !.dirty = TRUE]

focus_next(s) ==
  LET n == Len(s.windows)
      at == IF s.focused \in Ids(s.windows) THEN CHOOSE i \in 1..n : s.windows[i].id = s.focused ELSE 1
  IN  IF n = 0 THEN s ELSE focus_window(s, s.windows[(at % n) + 1].id)

\* A mutant: a dragged window stays in the tiling.
move_window_tiled(s, id, x, y) ==
  LET to(w) == [w EXCEPT !.tx = x, !.ty = y, !.x = x, !.y = y]
  IN  IF id \in Ids(s.windows)
      THEN [recalculate_layout([s EXCEPT !.windows = Update(@, id, to)]) EXCEPT !.dirty = TRUE]
      ELSE s

move_window(s, id, x, y) ==
  LET to(w) == [w EXCEPT !.tx = x, !.ty = y, !.x = x, !.y = y, !.floating = TRUE]
  IN  IF id \in Ids(s.windows)
      THEN [recalculate_layout([s EXCEPT !.windows = Update(@, id, to)]) EXCEPT !.dirty = TRUE]
      ELSE s

\* A mutant: the factor is converted before the product, (0.35 as i32).
LerpTruncated(d) == (35 \div 100) * d

\* (d as f32 * 0.35) as i32: truncated towards zero.
Lerp(d) == IF d >= 0 THEN (35 * d) \div 100 ELSE -((-35 * d) \div 100)

Far(w) == \E d \in {w.tx - w.x, w.ty - w.y, w.tw - w.w, w.th - w.h} : d > 1 \/ d < -1
Placed(w) == <<w.x, w.y, w.w, w.h>> = <<w.tx, w.ty, w.tw, w.th>>

tick_window(w) ==
  IF Far(w)
  THEN [w EXCEPT !.x = @ + Lerp(w.tx - w.x), !.y = @ + Lerp(w.ty - w.y),
                 !.w = @ + Lerp(w.tw - w.w), !.h = @ + Lerp(w.th - w.h)]
  ELSE [w EXCEPT !.x = w.tx, !.y = w.ty, !.w = w.tw, !.h = w.th]

\* A mutant: a window that moves does not ask for a frame.
tick_quiet(s) == [s EXCEPT !.windows = [i \in DOMAIN s.windows |-> tick_window(s.windows[i])]]

tick(s) ==
  [s EXCEPT !.windows = [i \in DOMAIN s.windows |-> tick_window(s.windows[i])],
            !.dirty = @ \/ \E i \in DOMAIN s.windows : ~Placed(s.windows[i])]

windows_sorted(s) ==
  SortSeq(s.windows, LAMBDA v, w : v.z < w.z \/ (v.z = w.z /\ v.id < w.id))

Covers(w, x, y) == x >= w.x /\ x < w.x + w.w /\ y >= w.y /\ y < w.y + w.h

\* A mutant: the windows are tried from the bottom.
hit_test_bottom(s, x, y) ==
  LET order == windows_sorted(s)
      hit == {i \in DOMAIN order : Covers(order[i], x, y)}
  IN  IF hit = {} THEN None ELSE order[CHOOSE i \in hit : \A j \in hit : j >= i].id

\* The first window, from the top, that the point is in.
hit_test_window(s, x, y) ==
  LET order == windows_sorted(s)
      hit == {i \in DOMAIN order : Covers(order[i], x, y)}
  IN  IF hit = {} THEN None ELSE order[CHOOSE i \in hit : \A j \in hit : j <= i].id

----------------------------------------------------------------------------
(* Drawing and painting. *)

\* The surface of window id, when it has one, takes the size the window has
\* now and shows what is drawn.
Draw(sf, s, id, what) ==
  IF id \notin Ids(s.windows) THEN sf
  ELSE LET w == Find(s.windows, id)
       IN  [sf EXCEPT ![w.surface] = [w |-> w.w, h |-> w.h, shows |-> what]]

draw_file_browser(sf, s, id, b) == Draw(sf, s, id, <<"files", b>>)
draw_about_window(sf, s, id) == Draw(sf, s, id, <<"about">>)
draw_calculator(sf, s, id, c) == Draw(sf, s, id, <<"calc", c>>)
draw_terminal(sf, s, id, t) == Draw(sf, s, id, <<"term", t>>)

\* It alone keeps the size the surface was created with.
draw_sysinfo_window(sf, s, id) ==
  IF id \notin Ids(s.windows) THEN sf ELSE [sf EXCEPT ![Find(s.windows, id).surface].shows = <<"sysinfo">>]

\* A surface of the size asked for, blank.
create_surface(sf, title) == sf @@ ((Cardinality(DOMAIN sf) + 1) :>
                               [w |-> SizeOf[title][1], h |-> SizeOf[title][2], shows |-> <<"blank">>])

\* The part of a window's surface that is copied to the screen: below the
\* title bar of a decorated window, and no more than the window or the surface has.
render_surface_clipped(sf, w) ==
  LET c == sf[w.surface]
      h == IF w.decorated THEN w.h - TITLE_BAR ELSE w.h
  IN  [w |-> SmallerOf(w.w, c.w), h |-> SmallerOf(h, c.h), shows |-> c.shows]

\* From the bottom to the top.
render_windows(s, sf) ==
  LET order == windows_sorted(s)
  IN  [i \in DOMAIN order |->
         [id |-> order[i].id, x |-> order[i].x, y |-> order[i].y, w |-> order[i].w, h |-> order[i].h,
          focused |-> order[i].focused, content |-> render_surface_clipped(sf, order[i])]]

\* A pill for each of the lowest PILLS windows.
render_taskbar(s) ==
  LET order == windows_sorted(s)
  IN  [i \in 1..SmallerOf(PILLS, Len(order)) |-> [title |-> order[i].title, accent |-> order[i].focused]]

\* The background is painted over first, the cursor is painted over last.
render_frame(s, sf) == [windows |-> render_windows(s, sf), taskbar |-> render_taskbar(s)]

----------------------------------------------------------------------------
(* The loop of gui::run. *)

NoServer == [windows |-> <<>>, focused |-> None, next_id |-> 1, mode |-> "Dwindle",
             dirty |-> TRUE, laid |-> "none"]

\* run() up to its loop, when n surfaces have been created before: the opening
\* windows are created, drawn and painted.
OpenedServer(n) ==
  LET s[i \in 0..Len(Opening)] == IF i = 0 THEN NoServer ELSE create_window(s[i - 1], Opening[i], n + i)
  IN  s[Len(Opening)]

OpenedSurfaces(sf, b) ==
  LET n == Cardinality(DOMAIN sf)
      s == OpenedServer(n)
      made[i \in 0..Len(Opening)] == IF i = 0 THEN sf ELSE create_surface(made[i - 1], Opening[i])
      drawn[i \in 0..Len(Opening)] ==
        IF i = 0 THEN made[Len(Opening)]
        ELSE CASE Opening[i] = "Files" -> draw_file_browser(drawn[i - 1], s, i, b)
               [] Opening[i] = "System Info" -> draw_sysinfo_window(drawn[i - 1], s, i)
               [] OTHER -> draw_about_window(drawn[i - 1], s, i)
  IN  drawn[Len(Opening)]

FreshBrowser(n) == [files |-> n, selected |-> 0]

Open(sf, b, mpos) ==
  LET s == OpenedServer(Cardinality(DOMAIN sf))
      opened == OpenedSurfaces(sf, b)
  IN  [server |-> [s EXCEPT !.dirty = FALSE], surfaces |-> opened, frame |-> render_frame(s, opened), pos |-> mpos]

Init ==
  /\ browser = FreshBrowser(NumFiles)
  /\ mouse \in [x : {p[1] : p \in Points}, y : {p[2] : p \in Points}, left : {FALSE}]
  /\ <<mouse.x, mouse.y>> \in Points
  /\ LET o == Open(<<>>, browser, <<mouse.x, mouse.y>>)
     IN  server = o.server /\ surfaces = o.surfaces /\ frame = o.frame
  /\ calc = None /\ term = None
  /\ files_win = 1 /\ calc_win = None /\ term_win = None
  /\ px = mouse.x /\ py = mouse.y
  /\ last_pressed = FALSE /\ last_pos = <<mouse.x, mouse.y>> /\ moved = FALSE
  /\ dragging = None /\ handled = FALSE
  /\ pc = "x" /\ events = 0

\* IRQ 12 completes a packet: the pointer moves, the button changes.
MousePacket ==
  /\ pc # "out" /\ events < MaxEvents
  /\ events' = events + 1
  /\ \E p \in Points, left \in BOOLEAN :
       /\ mouse' = [x |-> p[1], y |-> p[2], left |-> left]
       /\ mouse' # mouse
  /\ UNCHANGED <<server, surfaces, apps, input, handled, frame, pc>>

\* get_position(): two loads.
ReadX ==
  /\ pc = "x" /\ pc' = "y"
  /\ px' = mouse.x
  /\ UNCHANGED <<server, surfaces, apps, mouse, py, last_pressed, last_pos, moved, dragging, handled, frame, events>>

ReadY ==
  /\ pc = "y" /\ pc' = "mouse"
  /\ py' = mouse.y
  /\ moved' = (<<px, py'>> # last_pos)
  /\ last_pos' = <<px, py'>>
  /\ UNCHANGED <<server, surfaces, apps, mouse, px, last_pressed, dragging, handled, frame, events>>

\* A press raises the window under the pointer and may start a drag; a
\* release ends it; a held button moves the window that is dragged.
Mouse ==
  LET pressed == mouse.left
      id == hit_test_window(server, px, py)
      clicked == pressed /\ ~last_pressed /\ id # None
      s1 == IF clicked THEN focus_window(server, id) ELSE server
      w == Find(server.windows, id)
      drag == IF clicked /\ py - w.y < TITLE_BAR THEN [id |-> id, x |-> px - w.x, y |-> py - w.y]
              ELSE IF ~pressed /\ last_pressed THEN None
              ELSE dragging
  IN  /\ pc = "mouse" /\ pc' = "key"
      /\ dragging' = drag
      /\ server' = IF pressed /\ drag # None THEN move_window(s1, drag.id, px - drag.x, py - drag.y) ELSE s1
      /\ last_pressed' = pressed
      /\ handled' = FALSE
      /\ UNCHANGED <<surfaces, apps, mouse, px, py, last_pos, moved, frame, events>>

\* The key goes to the application whose window has the focus.
CalcTakes == server.focused = calc_win /\ calc # None
TermTakes == server.focused # calc_win /\ server.focused = term_win /\ term # None

Key(k) ==
  /\ pc = "key" /\ pc' = "frame"
  /\ k \in Keys /\ events < MaxEvents
  /\ events' = events + 1
  /\ UNCHANGED <<mouse, input, frame, files_win>>

NoKey ==
  /\ pc = "key" /\ pc' = "frame"
  /\ UNCHANGED <<server, surfaces, apps, mouse, input, handled, frame, events>>

AppKey ==
  /\ \E k \in Keys : Key(k) /\ k # "q"
  /\ CalcTakes \/ TermTakes
  /\ IF CalcTakes
     THEN /\ calc' = 1 - calc /\ term' = term
          /\ surfaces' = draw_calculator(surfaces, server, calc_win, calc')
     ELSE /\ term' = 1 - term /\ calc' = calc
          /\ surfaces' = draw_terminal(surfaces, server, term_win, term')
  /\ handled' = TRUE
  /\ UNCHANGED <<server, browser, calc_win, term_win>>

DesktopKey(k) == Key(k) /\ ~CalcTakes /\ ~TermTakes

FocusNext ==
  /\ DesktopKey("tab")
  /\ server' = focus_next(server) /\ handled' = TRUE
  /\ UNCHANGED <<surfaces, browser, calc, term, calc_win, term_win>>

\* '1' and 'c' open the calculator, or raise it when it is open.
OpenCalculator ==
  /\ DesktopKey("c")
  /\ IF calc = None
     THEN LET s == create_window(server, "Calculator", Cardinality(DOMAIN surfaces) + 1)
          IN  /\ calc' = 0 /\ calc_win' = server.next_id /\ server' = s
              /\ surfaces' = draw_calculator(create_surface(surfaces, "Calculator"), s, calc_win', 0)
     ELSE /\ server' = focus_window(server, calc_win)
          /\ UNCHANGED <<surfaces, calc, calc_win>>
  /\ handled' = TRUE
  /\ UNCHANGED <<browser, term, term_win>>

OpenTerminal ==
  /\ DesktopKey("2")
  /\ IF term = None
     THEN LET s == create_window(server, "Terminal", Cardinality(DOMAIN surfaces) + 1)
          IN  /\ term' = 0 /\ term_win' = server.next_id /\ server' = s
              /\ surfaces' = draw_terminal(create_surface(surfaces, "Terminal"), s, term_win', 0)
     ELSE /\ server' = focus_window(server, term_win)
          /\ UNCHANGED <<surfaces, term, term_win>>
  /\ handled' = TRUE
  /\ UNCHANGED <<browser, calc, calc_win>>

\* The surface stays in the domain, marked destroyed: ids are not used again.
CloseWindow ==
  LET win == server.focused
  IN  /\ DesktopKey("x")
      /\ handled' = (win # None)
      /\ IF win = None THEN UNCHANGED <<server, surfaces, calc, term, calc_win, term_win>>
         ELSE /\ IF win = calc_win THEN calc' = None /\ calc_win' = None ELSE UNCHANGED <<calc, calc_win>>
              /\ IF win # calc_win /\ win = term_win THEN term' = None /\ term_win' = None
                 ELSE UNCHANGED <<term, term_win>>
              /\ server' = destroy_window(server, win)
              /\ surfaces' = [surfaces EXCEPT ![Find(server.windows, win).surface].shows = <<"destroyed">>]
      /\ UNCHANGED browser

\* The layout is switched, not recomputed.
ToggleLayout ==
  /\ DesktopKey(" ")
  /\ server' = [server EXCEPT !.mode = IF @ = "Dwindle" THEN "Floating" ELSE "Dwindle"]
  /\ handled' = FALSE
  /\ UNCHANGED <<surfaces, browser, calc, term, calc_win, term_win>>

----------------------------------------------------------------------------
(* The file browser: how many files it lists and which one is selected. *)

move_up(b) == IF b.selected > 0 THEN [b EXCEPT !.selected = @ - 1] ELSE b
move_down(b) == IF b.selected + 1 < b.files THEN [b EXCEPT !.selected = @ + 1] ELSE b

\* A mutant: the selection stays where it was when the list shrinks.
refresh_unclamped(b, n) == [files |-> n, selected |-> b.selected]

refresh(b, n) ==
  [files |-> n, selected |-> IF b.selected >= n /\ n > 0 THEN n - 1 ELSE b.selected]

\* A mutant: the selection moves and the list is not drawn again.
BrowserKeyUndrawn(k, b) ==
  /\ DesktopKey(k)
  /\ handled' = (server.focused = files_win)
  /\ browser' = IF server.focused = files_win THEN b ELSE browser
  /\ UNCHANGED <<server, surfaces, calc, term, calc_win, term_win>>

BrowserKey(k, b) ==
  /\ DesktopKey(k)
  /\ handled' = (server.focused = files_win)
  /\ IF server.focused = files_win
     THEN browser' = b /\ surfaces' = draw_file_browser(surfaces, server, files_win, b)
     ELSE UNCHANGED <<browser, surfaces>>
  /\ UNCHANGED <<server, calc, term, calc_win, term_win>>

BrowserUp == BrowserKey("k", move_up(browser))
BrowserDown == BrowserKey("j", move_down(browser))
BrowserRefresh == BrowserKey("r", refresh(browser, browser.files))

\* fs_delete of the selected file, which may fail, then refresh.
BrowserDelete ==
  IF browser.selected < browser.files
  THEN \E n \in {browser.files, browser.files - 1} : BrowserKey("d", refresh(browser, n))
  ELSE /\ DesktopKey("d") /\ handled' = FALSE
       /\ UNCHANGED <<server, surfaces, browser, calc, term, calc_win, term_win>>

OtherKey ==
  /\ DesktopKey("z") /\ handled' = FALSE
  /\ UNCHANGED <<server, surfaces, browser, calc, term, calc_win, term_win>>

----------------------------------------------------------------------------

\* tick, then the frame when something changed; the spin or the hlt.
Frame ==
  LET s == tick(server)
      redraw == moved \/ handled \/ s.dirty
  IN  /\ pc = "frame" /\ pc' = "x"
      /\ frame' = IF redraw THEN render_frame(s, surfaces) ELSE frame
      /\ server' = IF redraw THEN [s EXCEPT !.dirty = FALSE] ELSE s
      /\ UNCHANGED <<surfaces, apps, mouse, input, handled, events>>

\* 'q' or Escape leaves the loop, whatever has the focus.
Leave ==
  /\ pc = "key" /\ pc' = "out"
  /\ events < MaxEvents /\ events' = events + 1
  /\ frame' = [windows |-> <<>>, taskbar |-> <<>>]
  /\ UNCHANGED <<server, surfaces, apps, mouse, input, handled>>

\* The desktop is started again: a new display server, the old surfaces.
Enter ==
  LET o == Open(surfaces, FreshBrowser(browser.files), <<mouse.x, mouse.y>>)
  IN  /\ pc = "out" /\ pc' = "x"
      /\ Cardinality(DOMAIN surfaces) + Len(Opening) <= MaxSurfaces
      /\ server' = o.server /\ surfaces' = o.surfaces /\ frame' = o.frame
      /\ browser' = FreshBrowser(browser.files)
      /\ calc' = None /\ term' = None /\ calc_win' = None /\ term_win' = None
      /\ px' = mouse.x /\ py' = mouse.y
      /\ last_pressed' = FALSE /\ last_pos' = o.pos /\ moved' = FALSE
      /\ dragging' = None /\ handled' = FALSE
      /\ UNCHANGED <<files_win, mouse, events>>

Next ==
  \/ MousePacket \/ ReadX \/ ReadY \/ Mouse
  \/ NoKey \/ AppKey \/ FocusNext \/ OpenCalculator \/ OpenTerminal \/ CloseWindow \/ ToggleLayout
  \/ BrowserUp \/ BrowserDown \/ BrowserRefresh \/ BrowserDelete \/ OtherKey
  \/ Frame \/ Leave \/ Enter

Spec == Init /\ [][Next]_vars

\* The loop runs on its own processor and never waits for good: the spin ends
\* and the timer interrupt ends the hlt.
Loop == ReadX \/ ReadY \/ Mouse \/ NoKey \/ Frame

----------------------------------------------------------------------------

\* The desktop's state has its type.
TypeOK ==
  /\ server.mode \in {"Dwindle", "Floating"} /\ server.dirty \in BOOLEAN
  /\ \A i \in DOMAIN server.windows : server.windows[i].title \in DOMAIN SizeOf
  /\ browser.selected \in 0..NumFiles /\ browser.files \in 0..NumFiles
  /\ <<mouse.x, mouse.y>> \in Points
  /\ pc \in {"x", "y", "mouse", "key", "frame", "out"}

\* The focus, the open applications and the surfaces agree with the window
\* list after any sequence of keys and clicks: the display server names one
\* focused window, it exists, and it alone carries the flag (create_window,
\* destroy_window, focus_window); an open application has its window; every
\* window has a live surface of its own; the browser's selection is in its
\* list (FileBrowser::refresh); and a window that is dragged is where the
\* pointer holds it.
DesktopSound ==
  LET ws == server.windows
      live(id) == id \in Ids(ws)
  IN  /\ Cardinality(Ids(ws)) = Len(ws)
      /\ {w \in {ws[i] : i \in DOMAIN ws} : w.focused} =
           IF ws = <<>> THEN {} ELSE {Find(ws, server.focused)}
      /\ (ws = <<>>) = (server.focused = None)
      /\ pc # "out" => (calc # None => live(calc_win)) /\ (term # None => live(term_win))
      /\ \A i, j \in DOMAIN ws : i # j => ws[i].surface # ws[j].surface
      /\ \A i \in DOMAIN ws : surfaces[ws[i].surface].shows # <<"destroyed">>
      /\ browser.files > 0 => browser.selected < browser.files
      /\ (pc = "x" /\ dragging # None /\ live(dragging.id)) =>
             LET w == Find(ws, dragging.id)
             IN  <<w.x, w.y>> = <<px - dragging.x, py - dragging.y>>

\* After the dwindle layout the tiled windows have room: their places are not
\* empty, lie in the work area and do not overlap (recalculate_layout), also
\* when windows have been dragged out, closed and opened again.
LayoutSound ==
  LET ts == Tiled(server.windows)
      cells(w) == {w.tx, w.tx + w.tw - 1} \X {w.ty, w.ty + w.th - 1}
      inside(p, w) == p[1] >= w.tx /\ p[1] < w.tx + w.tw /\ p[2] >= w.ty /\ p[2] < w.ty + w.th
  IN  server.laid = "Dwindle" =>
        /\ \A i \in DOMAIN ts :
             /\ ts[i].tw > 0 /\ ts[i].th > 0
             /\ ts[i].tx >= WorkArea.x /\ ts[i].tx + ts[i].tw <= WorkArea.x + WorkArea.w
             /\ ts[i].ty >= WorkArea.y /\ ts[i].ty + ts[i].th <= WorkArea.y + WorkArea.h
        /\ \A i, j \in DOMAIN ts : i # j => \A p \in cells(ts[i]) : ~inside(p, ts[j])

\* When an iteration ends the screen shows the windows as they are: place,
\* order, focus and what their applications show.  No change is lost between
\* the dirty flag, the key that was handled and the pointer that moved.
FrameIsCurrent ==
  pc = "x" =>
    /\ frame = render_frame(server, surfaces)
    /\ files_win \in Ids(server.windows) =>
         surfaces[Find(server.windows, files_win).surface].shows = <<"files", browser>>
    /\ calc # None => surfaces[Find(server.windows, calc_win).surface].shows = <<"calc", calc>>
    /\ term # None => surfaces[Find(server.windows, term_win).surface].shows = <<"term", term>>

\* The window the screen shows at a point, above the taskbar.
Seen(x, y) ==
  LET ws == frame.windows
      at == {i \in DOMAIN ws : Covers(ws[i], x, y)}
  IN  IF at = {} THEN None ELSE ws[CHOOSE i \in at : \A j \in at : j <= i].id

\* A press goes to the window the user sees under the pointer: hit_test_window
\* agrees with the last frame that was painted.
ClickHitsSeen ==
  (pc = "mouse" /\ mouse.left /\ ~last_pressed /\ py < SCREEN_H - TASKBAR) =>
      (pc' = "key" => server'.focused = IF Seen(px, py) = None THEN server.focused ELSE Seen(px, py))
=============================================================================
