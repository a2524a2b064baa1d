------------------------------- MODULE Paging -------------------------------
(***************************************************************************)
(* Offset pagination (src/results/pagination.ts): a page is a slice of a   *)
(* list, and the token that comes with it is the offset of the next one.   *)
(* Offsets count from 0, as in the code; a sequence's elements from 1.     *)
(***************************************************************************)
EXTENDS Integers

CONSTANT NoToken    \* undefined: no NextToken

\* Mutants: the offset of the page's last element; a list that ends with the
\* page counted as going on, one that goes on by one element as ended.
nextOffsetShort(offset, size) == offset + size - 1
isLastPageLate(next, length) == next > length
isLastPageEarly(next, length) == next + 1 >= length

\* The offset behind a page of the given size.
nextOffset(offset, size) == offset + size

\* Whether nothing is left behind it.
isLastPage(next, length) == next >= length

\* How many elements slice(offset, offset + maxResults) has.
sliceSize(offset, maxResults, length) ==
    IF offset >= length THEN 0
    ELSE IF offset + maxResults <= length THEN maxResults ELSE length - offset

\* The token that goes out with a page of the given size.
tokenAfter(offset, size, length) ==
    LET next == nextOffset(offset, size)
    IN  IF isLastPage(next, length) THEN NoToken ELSE next

\* The offset a request's token stands for.
offsetOf(token) == IF token = NoToken THEN 0 ELSE token

=============================================================================
