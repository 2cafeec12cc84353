----------------------------- MODULE Compositor -----------------------------
(***************************************************************************)
(* The graphics server (graphics/mod.rs, surface.rs, compositor.rs) behind *)
(* the graphics system calls of usermode/syscall.rs: processes create      *)
(* surfaces, draw on them and present them; a present composes the dirty   *)
(* surfaces into the back buffer and copies it to the framebuffer.         *)
(*                                                                         *)
(* A colour channel stands for the three; a pixel is <<channel, alpha>>.   *)
(* Nothing in the kernel moves, hides or restacks a surface, updates a     *)
(* region of one or adds damage, so these have no action.                  *)
(***************************************************************************)
EXTENDS Integers, Sequences, FiniteSets

CONSTANTS Threads, WIDTH, HEIGHT,
          OPAQUE,      \* the largest alpha (255)
          MAX_DIM,     \* the largest side of a surface (8192)
          BootScreen,  \* what the framebuffer holds before the first frame
          Dims,        \* the <<width, height>> a process asks for
          Images,      \* the pixels a process paints a surface with
          White,       \* the colour of sys_graphics_fill_rect
          MaxSurfaces

VARIABLES surfaces, next_surface_id,
          back_buffer, framebuffer, damage_rects, full_redraw,
          presenting,  \* the thread is between present_surface and composite_frame
          composed     \* surface id -> the pixels it had when last composed (history)

vars == <<surfaces, next_surface_id, back_buffer, framebuffer, damage_rects, full_redraw,
          presenting, composed>>

----------------------------------------------------------------------------

Cells(w, h) == (0..w - 1) \X (0..h - 1)
Screen == Cells(WIDTH, HEIGHT)
Black == 0
Blank == <<0, 0>>

Init ==
  /\ surfaces = <<>> /\ next_surface_id = 1
  /\ back_buffer = [p \in Screen |-> Black]
  /\ framebuffer = [p \in Screen |-> BootScreen]
  /\ damage_rects = {} /\ full_redraw = TRUE
  /\ presenting = [t \in Threads |-> FALSE]
  /\ composed = <<>>

compositor == <<back_buffer, framebuffer, damage_rects, full_redraw, composed>>

\* sys_graphics_create_surface, GraphicsServer::create_surface, Surface::new.
CreateSurface(w, h) ==
  /\ next_surface_id <= MaxSurfaces
  /\ w \in 1..MAX_DIM /\ h \in 1..MAX_DIM
  /\ next_surface_id' = next_surface_id + 1
  /\ surfaces' = Append(surfaces, [id |-> next_surface_id, w |-> w, h |-> h, dirty |-> TRUE,
                                   pixels |-> [p \in Cells(w, h) |-> Blank]])
  /\ composed' = Append(composed, [p \in Cells(w, h) |-> Blank])
  /\ UNCHANGED <<back_buffer, framebuffer, damage_rects, full_redraw, presenting>>

\* The system call refuses a side of zero and one that is too large.
CreateRefused(w, h) ==
  /\ w \notin 1..MAX_DIM \/ h \notin 1..MAX_DIM
  /\ UNCHANGED vars

\* sys_graphics_blit: the data must have the size of the surface.
Blit(i, size, image) ==
  /\ size = surfaces[i].w * surfaces[i].h
  /\ surfaces' = [surfaces EXCEPT ![i].pixels = [p \in DOMAIN @ |-> image], ![i].dirty = TRUE]
  /\ UNCHANGED <<next_surface_id, compositor, presenting>>

BlitRefused(i, size) ==
  /\ size # surfaces[i].w * surfaces[i].h
  /\ UNCHANGED vars

\* A mutant: the surface is not marked dirty.
FillRectClean(i, x, y, w, h) ==
  /\ surfaces' = [surfaces EXCEPT ![i].pixels =
                    [p \in DOMAIN @ |-> IF p \in (x..x + w - 1) \X (y..y + h - 1) THEN White ELSE @[p]]]
  /\ UNCHANGED <<next_surface_id, compositor, presenting>>

\* sys_graphics_fill_rect: clipped to the surface.
FillRect(i, x, y, w, h) ==
  /\ surfaces' = [surfaces EXCEPT ![i].dirty = TRUE,
                    ![i].pixels = [p \in DOMAIN @ |->
                        IF p \in (x..x + w - 1) \X (y..y + h - 1) THEN White ELSE @[p]]]
  /\ UNCHANGED <<next_surface_id, compositor, presenting>>

\* A mutant: a half-transparent pixel replaces what is under it.
blend_replace(src, dst) == IF src[2] = 0 THEN dst ELSE src[1]

\* Porter-Duff over; the destination's channel stays in range.
blend_pixel(src, dst) ==
  IF src[2] = OPAQUE THEN src[1]
  ELSE IF src[2] = 0 THEN dst
  ELSE (src[1] * src[2] + dst * (OPAQUE - src[2])) \div OPAQUE

\* The part of the surface that is on the screen, over the buffer.
blit_surface(buffer, s) ==
  [p \in DOMAIN buffer |-> IF p \in DOMAIN s.pixels THEN blend_pixel(s.pixels[p], buffer[p]) ELSE buffer[p]]

\* Every surface of ss in turn, if it is dirty.
composite_surfaces(buffer, ss) ==
  LET under[i \in 0..Len(ss)] ==
        IF i = 0 THEN buffer
        ELSE IF ss[i].dirty THEN blit_surface(under[i - 1], ss[i]) ELSE under[i - 1]
  IN  under[Len(ss)]

begin_frame(buffer) == IF full_redraw THEN [p \in DOMAIN buffer |-> Black] ELSE buffer

\* The whole buffer is copied on a full redraw, else the damaged rectangles.
end_frame(buffer) ==
  [p \in Screen |-> IF full_redraw \/ \E r \in damage_rects : p \in r THEN buffer[p] ELSE framebuffer[p]]

\* sys_graphics_present: present_surface finds the surface ...
PresentSurface(t, i) ==
  /\ ~presenting[t]
  /\ presenting' = [presenting EXCEPT ![t] = TRUE]
  /\ UNCHANGED <<surfaces, next_surface_id, compositor>>

\* ... and, the server unlocked and locked again, composite_frame runs.
CompositeFrame(t) ==
  /\ presenting[t]
  /\ presenting' = [presenting EXCEPT ![t] = FALSE]
  /\ back_buffer' = composite_surfaces(begin_frame(back_buffer), surfaces)
  /\ framebuffer' = end_frame(back_buffer')
  /\ damage_rects' = {} /\ full_redraw' = FALSE
  /\ surfaces' = [i \in DOMAIN surfaces |-> [surfaces[i] EXCEPT !.dirty = FALSE]]
  /\ composed' = [i \in DOMAIN surfaces |-> IF surfaces[i].dirty THEN surfaces[i].pixels ELSE composed[i]]
  /\ UNCHANGED next_surface_id

Create == \E d \in Dims : CreateSurface(d[1], d[2])
CreateFails == \E d \in Dims : CreateRefused(d[1], d[2])
BlitAny == \E i \in DOMAIN surfaces, image \in Images, size \in 1..MAX_DIM * MAX_DIM : Blit(i, size, image)
BlitFails == \E i \in DOMAIN surfaces, size \in 1..MAX_DIM * MAX_DIM : BlitRefused(i, size)
Fill == \E i \in DOMAIN surfaces, x \in 0..1, w \in 1..2 : FillRect(i, x, 0, w, 1)
Present == \E t \in Threads, i \in DOMAIN surfaces : PresentSurface(t, i)
Composite == \E t \in Threads : CompositeFrame(t)

Next == Create \/ CreateFails \/ BlitAny \/ BlitFails \/ Fill \/ Present \/ Composite

Spec == Init /\ [][Next]_vars

----------------------------------------------------------------------------

\* The graphics server's state has its type.
TypeOK ==
  /\ next_surface_id \in 1..MaxSurfaces + 1
  /\ \A i \in DOMAIN surfaces : surfaces[i].id < next_surface_id /\ surfaces[i].dirty \in BOOLEAN
  /\ DOMAIN back_buffer = Screen /\ DOMAIN framebuffer = Screen
  /\ full_redraw \in BOOLEAN /\ presenting \in [Threads -> BOOLEAN]

\* No drawing is lost to a frame that another process composed in between: a
\* surface whose pixels are not the ones last composed is dirty, so that the
\* next composite_frame takes it (update_pixels, sys_graphics_fill_rect,
\* clear_dirty).
DrawingIsComposed == \A i \in DOMAIN surfaces : surfaces[i].pixels # composed[i] => surfaces[i].dirty

\* The colour of a cell when every surface is painted in turn over black.
Picture(p) ==
  LET c[i \in 0..Len(surfaces)] ==
        IF i = 0 THEN Black
        ELSE IF p \notin DOMAIN surfaces[i].pixels THEN c[i - 1]
        ELSE LET s == surfaces[i].pixels[p]
             IN  (s[1] * s[2] + c[i - 1] * (OPAQUE - s[2])) \div OPAQUE
  IN  c[Len(surfaces)]

\* The first frame is the painter's picture of every surface over black,
\* whatever the buffers held: later surfaces over earlier ones, blended by
\* their alpha (begin_frame, blit_surface, blend_pixel, end_frame).
FirstFrameIsRight ==
  (full_redraw /\ ~full_redraw') => \A p \in Screen : framebuffer'[p] = Picture(p)

\* "Present surface to screen": the frame a present composes is on the screen
\* when the system call returns.
PresentReachesScreen ==
  [][(\E t \in Threads : presenting[t] /\ ~presenting'[t]) => framebuffer' = back_buffer']_vars
=============================================================================
