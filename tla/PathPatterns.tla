---------------------------- MODULE PathPatterns ----------------------------
(***************************************************************************)
(* The two pattern languages of the gateway.  A path is the sequence of    *)
(* its segments, "/a/" is <<"a", "">> and "/" is <<"">>; a pattern may have*)
(* Star for a segment.  The same pattern means different things as a skip   *)
(* path and as the path of a role rule.                                    *)
(***************************************************************************)
EXTENDS Sequences, FiniteSetsExt

Star == "*"

SegmentMatches(p, s) == p = s \/ (p = Star /\ s # "")

\* Segment by segment, for as long as the pattern is.
PrefixMatches(p, s) ==
    Len(p) <= Len(s) /\ \A i \in DOMAIN p : SegmentMatches(p[i], s[i])

EndsInAny(p) == p # <<>> /\ p[Len(p)] = Star

\* A skip path: a trailing "/*" matches any number of further segments, none
\* and empty ones included; every other "*" exactly one that is not empty.
SkipMatches(p, s) ==
    IF EndsInAny(p)
    THEN PrefixMatches(SubSeq(p, 1, Len(p) - 1), s)
    ELSE Len(p) = Len(s) /\ PrefixMatches(p, s)

\* strings.Trim(path, "/")
Trimmed(s) ==
    LET full == {i \in DOMAIN s : s[i] # ""}
    IN IF full = {} THEN <<"">> ELSE SubSeq(s, Min(full), Max(full))

\* The path of a role rule: "*" is exactly one segment, wherever it is.
RuleMatches(p, s) ==
    LET a == Trimmed(p)  b == Trimmed(s)
    IN Len(a) = Len(b) /\ \A i \in DOMAIN a : a[i] = Star \/ a[i] = b[i]

=============================================================================
