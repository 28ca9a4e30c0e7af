------------------------------- MODULE Strings -------------------------------
(***************************************************************************)
(* Strings of bytes that are written behind each other.                    *)
(***************************************************************************)
EXTENDS Integers, Sequences

\* The strings behind each other, as a loop that appends one after the other
\* leaves them.
Joined(strings) ==
    LET first[i \in 0..Len(strings)] == IF i = 0 THEN <<>> ELSE first[i - 1] \o strings[i]
    IN  first[Len(strings)]

=============================================================================
