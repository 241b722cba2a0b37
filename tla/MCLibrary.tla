----------------------------- MODULE MCLibrary -----------------------------
(* Library for TLC: short strings and arrays, and narrow types. *)
EXTENDS Library

\* A tab, a space, the signs, '0', '1', '2', '3', '6', '9', 'f' and 'x': the numbers
\* around the limits of the types (-8, 7, 15, -32, 31, 63) are among the strings.
Characters == {9, 32, 43, 45, 48, 49, 50, 51, 54, 57, 102, 120}
MCNumerals == {Append(s, NUL) : s \in BoundedSeq(Characters, 4)}

Sorted(array) == \A i \in 2..Len(array) : array[i - 1] <= array[i]
MCArrays == {array \in BoundedSeq({2, 4, 6}, 5) : Sorted(array)}

\* ',' and 'a' and 'b'.
MCTexts == {Append(s, NUL) : s \in BoundedSeq({44, 97, 98}, 3)}
=============================================================================
