----------------------------- MODULE ByteSource -----------------------------
(***************************************************************************)
(* What a decoder may rely on of the buffer it reads a track from: each    *)
(* read is answered by the byte of the file at the reader's position, by   *)
(* the end of the file, or by a failure that says why.  It knows nothing   *)
(* of downloads, ranges or restarts.  A byte is named by its position.     *)
(***************************************************************************)
EXTENDS Naturals

CONSTANTS Readers,
          Total,     \* the file's length
          Failures   \* what a read that fails may report

VARIABLES
    asking,  \* whether the reader is inside a read
    cursor,  \* the position it reads at
    answer,  \* what its last read was told
    cut      \* the body ended before the file did

vars == <<asking, cursor, answer, cut>>

Byte(b) == <<"byte", b>>
Word(w) == <<w, 0>>

Init ==
    /\ asking = [r \in Readers |-> FALSE]
    /\ cursor = [r \in Readers |-> 0]
    /\ answer = [r \in Readers |-> Word("none")]
    /\ cut = FALSE

(* A reader that starts to read, that moves, or that takes a position over. *)
Ask(r) ==
    /\ ~asking[r]
    /\ asking' = [asking EXCEPT ![r] = TRUE]
    /\ answer' = [answer EXCEPT ![r] = Word("none")]
    /\ UNCHANGED <<cursor, cut>>

Move(r, p) ==
    /\ ~asking[r]
    /\ cursor' = [cursor EXCEPT ![r] = p]
    /\ answer' = [answer EXCEPT ![r] = Word("none")]
    /\ UNCHANGED <<asking, cut>>

Told(r, a) ==
    /\ asking[r]
    /\ asking' = [asking EXCEPT ![r] = FALSE]
    /\ answer' = [answer EXCEPT ![r] = a]
    /\ UNCHANGED cut

Serve(r) ==
    /\ cursor[r] < Total
    /\ Told(r, Byte(cursor[r]))
    /\ cursor' = [cursor EXCEPT ![r] = cursor[r] + 1]

End(r) ==
    /\ cursor[r] = Total \/ cut
    /\ Told(r, Word("end"))
    /\ UNCHANGED cursor

Fail(r) ==
    /\ \E why \in Failures : Told(r, Word(why))
    /\ UNCHANGED cursor

Cut ==
    /\ cut' = TRUE
    /\ UNCHANGED <<asking, cursor, answer>>

Next ==
    \/ \E r \in Readers :
        \/ Ask(r) \/ Serve(r) \/ End(r) \/ Fail(r)
        \/ \E p \in 0 .. Total : Move(r, p)
    \/ Cut

Spec == Init /\ [][Next]_vars
=============================================================================
