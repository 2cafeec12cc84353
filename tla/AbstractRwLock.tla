--------------------------- MODULE AbstractRwLock ---------------------------
(***************************************************************************)
(* What a readers-writer lock promises: any number of readers, or one      *)
(* writer and nobody else.  RwLock.tla implements it.                      *)
(***************************************************************************)
CONSTANT Threads

VARIABLES
    reading,  \* threads that hold a read guard
    writing   \* threads that hold the write guard

Init == reading = {} /\ writing = {}

AcquireRead(t) ==
    /\ t \notin reading \cup writing
    /\ writing = {}
    /\ reading' = reading \cup {t}
    /\ UNCHANGED writing

AcquireWrite(t) ==
    /\ reading = {} /\ writing = {}
    /\ writing' = {t}
    /\ UNCHANGED reading

ReleaseRead(t) ==
    /\ t \in reading
    /\ reading' = reading \ {t}
    /\ UNCHANGED writing

ReleaseWrite(t) ==
    /\ t \in writing
    /\ writing' = writing \ {t}
    /\ UNCHANGED reading

Next ==
    \E t \in Threads :
        \/ AcquireRead(t) \/ AcquireWrite(t)
        \/ ReleaseRead(t) \/ ReleaseWrite(t)

Spec == Init /\ [][Next]_<<reading, writing>>
=============================================================================
