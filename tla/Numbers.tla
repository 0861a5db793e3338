------------------------------- MODULE Numbers -------------------------------
\* Math.min and Math.max, sums, and lists of times.
EXTENDS Integers, Sequences

Smaller(a, b) == IF a < b THEN a ELSE b
Larger(a, b)  == IF a > b THEN a ELSE b

\* Of the first numbers of a sequence, by their number, and of all.
Sums(s) == LET sum[i \in 0..Len(s)] == IF i = 0 THEN 0 ELSE sum[i - 1] + s[i] IN sum
Total(s) == Sums(s)[Len(s)]

\* The times after t, in their order: of the first times by their number, and of all.
Recents(times, t) ==
    LET recents[i \in 0..Len(times)] ==
            IF i = 0 THEN <<>>
            ELSE IF times[i] > t THEN Append(recents[i - 1], times[i]) ELSE recents[i - 1]
    IN recents
Recent(times, t) == Recents(times, t)[Len(times)]
=============================================================================
