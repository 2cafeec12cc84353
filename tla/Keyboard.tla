------------------------------- MODULE Keyboard -----------------------------
(***************************************************************************)
(* interrupts/handlers.rs: the keyboard interrupt handler, which turns     *)
(* scancodes into bytes, and the ring buffer it shares with getchar.  The  *)
(* handler interrupts the reader on the same CPU, so it is one step; the   *)
(* reader's steps are its accesses to the ring.  A byte is the code of the *)
(* key and the table it was looked up in.                                  *)
(***************************************************************************)
EXTENDS Naturals, Sequences

CONSTANTS
    Keys,              \* the keys there are
    KB_BUFFER_SIZE

\* each key's scancode, and whether it is sent after the prefix 0xE0
KeyTable == [lshift |-> [code |-> "shift1", prefix |-> FALSE],
             rshift |-> [code |-> "shift2", prefix |-> FALSE],
             lctrl  |-> [code |-> "ctrl", prefix |-> FALSE],
             rctrl  |-> [code |-> "ctrl", prefix |-> TRUE],
             a      |-> [code |-> "a", prefix |-> FALSE],
             f1     |-> [code |-> "f1", prefix |-> FALSE],
             pad8   |-> [code |-> "8", prefix |-> FALSE],
             up     |-> [code |-> "8", prefix |-> TRUE]]

Shifts == {"shift1", "shift2"}
HasSpecial == {"8"}            \* a key after the prefix
HasCtrl == {"a"}               \* a byte with Ctrl
HasAscii == {"a", "8"}         \* a byte in the two tables
None == <<"", "">>

VARIABLES
    held, rest,        \* the keys that are down, the scancode to follow a prefix
    esc, shift, ctrl,  \* ESCAPE_SEQUENCE, SHIFT_PRESSED, CTRL_PRESSED
    buffer, write, read,
    pc, c,             \* the reader, the byte it read
    typed              \* history: the bytes accepted and not yet returned

ring == <<buffer, write>>
modifiers == <<esc, shift, ctrl>>
reader == <<read, c>>
vars == <<held, rest, modifiers, ring, pc, reader, typed>>

Slots == 0..(KB_BUFFER_SIZE - 1)

Init ==
    /\ held = {} /\ rest = <<>>
    /\ esc = 0 /\ shift = FALSE /\ ctrl = FALSE
    /\ buffer = [i \in Slots |-> None] /\ write = 0 /\ read = 0
    /\ pc = "idle" /\ c = None
    /\ typed = <<>>
-----------------------------------------------------------------------------
(* The handler                                                             *)

Succ(i) == (i + 1) % KB_BUFFER_SIZE

push_to_buffer(byte) ==
    IF Succ(write) # read
      THEN /\ buffer' = [buffer EXCEPT ![write] = byte]
           /\ write' = Succ(write)
           /\ typed' = Append(typed, byte)
      ELSE UNCHANGED <<ring, typed>>

\* a byte, or none
Emit(table, mode, code) ==
    IF code \in table THEN push_to_buffer(<<code, mode>>) ELSE UNCHANGED <<ring, typed>>

\* a release is taken for a press
ModifierStuck(code, down) ==
    /\ shift' = IF code \in Shifts THEN TRUE ELSE shift
    /\ ctrl' = IF code = "ctrl" THEN TRUE ELSE ctrl

Modifier(code, down) ==
    /\ shift' = IF code \in Shifts THEN down ELSE shift
    /\ ctrl' = IF code = "ctrl" THEN down ELSE ctrl

\* the handler for the prefix
HandlePrefix == esc' = 1 /\ UNCHANGED <<shift, ctrl, ring, typed>>

\* the handler for a scancode: after the prefix, a modifier, or another key
Handle(code, down) ==
    /\ esc' = 0
    /\ CASE esc = 1 /\ down  -> Emit(HasSpecial, "special", code) /\ UNCHANGED <<shift, ctrl>>
         [] esc = 1 /\ ~down -> UNCHANGED <<shift, ctrl, ring, typed>>
         [] esc = 0 /\ (~down \/ code \in Shifts \cup {"ctrl"}) ->
               Modifier(code, down) /\ UNCHANGED <<ring, typed>>
         [] OTHER -> /\ IF ctrl THEN Emit(HasCtrl, "ctrl", code)
                        ELSE Emit(HasAscii, IF shift THEN "shifted" ELSE "plain", code)
                     /\ UNCHANGED <<shift, ctrl>>

\* every interrupt ends the reader's hlt
Wake == pc' = IF pc = "hlt" THEN "wait" ELSE pc

\* a key goes down or up
Key(k) ==
    /\ rest = <<>>
    /\ held' = IF k \in held THEN held \ {k} ELSE held \cup {k}
    /\ IF KeyTable[k].prefix
         THEN HandlePrefix /\ rest' = <<KeyTable[k].code, k \notin held>>
         ELSE Handle(KeyTable[k].code, k \notin held) /\ UNCHANGED rest
    /\ Wake
    /\ UNCHANGED reader

\* the scancode after the prefix
KeyRest ==
    /\ rest # <<>>
    /\ Handle(rest[1], rest[2])
    /\ rest' = <<>>
    /\ Wake
    /\ UNCHANGED <<held, reader>>

\* the mouse, say
OtherInterrupt ==
    /\ pc = "hlt" /\ Wake
    /\ UNCHANGED <<held, rest, modifiers, ring, reader, typed>>
-----------------------------------------------------------------------------
(* getchar, called by itself or in the loop of getchar_blocking            *)

Polls == {"poll", "wait"}
Step(from, to) == pc = from /\ pc' = to

Call ==
    /\ pc = "idle" /\ pc' \in Polls
    /\ UNCHANGED <<held, rest, modifiers, ring, reader, typed>>

\* the positions are loaded: None, or the byte is read next
Look ==
    /\ pc \in Polls
    /\ pc' = CASE read # write -> "get"
               [] pc = "poll" -> "idle"
               [] OTHER -> "halting"
    /\ UNCHANGED <<held, rest, modifiers, ring, reader, typed>>

Halt ==
    /\ Step("halting", "hlt")
    /\ UNCHANGED <<held, rest, modifiers, ring, reader, typed>>

GetByte ==
    /\ Step("get", "store")
    /\ c' = buffer[read]
    /\ UNCHANGED <<held, rest, modifiers, ring, read, typed>>

\* the position is left where it was
StoreForgotten ==
    /\ Step("store", "idle")
    /\ typed' = Tail(typed) /\ c' = None
    /\ UNCHANGED <<held, rest, modifiers, ring, read>>

Store ==
    /\ Step("store", "idle")
    /\ read' = Succ(read)
    /\ typed' = Tail(typed)
    /\ c' = None
    /\ UNCHANGED <<held, rest, modifiers, ring>>
-----------------------------------------------------------------------------
Reader == Look \/ Halt \/ GetByte \/ Store

Next == (\E k \in Keys : Key(k)) \/ KeyRest \/ OtherInterrupt \/ Call \/ Reader

Spec == Init /\ [][Next]_vars
-----------------------------------------------------------------------------
Bytes == ((HasAscii \cup HasSpecial \cup HasCtrl) \X {"plain", "shifted", "ctrl", "special"}) \cup {None}

\* Types of the keys, the ring and the reader.
TypeOK ==
    /\ held \subseteq Keys /\ esc \in {0, 1} /\ shift \in BOOLEAN /\ ctrl \in BOOLEAN
    /\ buffer \in [Slots -> Bytes] /\ write \in Slots /\ read \in Slots
    /\ pc \in {"idle", "poll", "wait", "get", "store", "halting", "hlt"}
    /\ c \in Bytes
    /\ Len(typed) < KB_BUFFER_SIZE

\* getchar returns the bytes in the order they were accepted, each once, whatever
\* interrupts come between its loads and its store.
ReturnsOldest == pc = "store" => typed # <<>> /\ c = Head(typed)

\* "Full scancode translation with modifier support": the modifier flags say
\* which modifier keys are down, if the keyboard has one of each.  (The two
\* shift keys share a flag, and the right control key is not looked at.)
ModifiersTracked ==
    rest = <<>> =>
        /\ shift = (held \cap {"lshift", "rshift"} # {})
        /\ ctrl = (held \cap {"lctrl", "rctrl"} # {})
=============================================================================
