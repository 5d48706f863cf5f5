----------------------------- MODULE WriteScope -----------------------------
(***************************************************************************)
(* Write scopes: how PlanStep.normalize_write_scope accepts one and how    *)
(* scopes_overlap compares two.  A raw scope is its segments between the   *)
(* slashes, a segment its characters; "*" stands for every wildcard.       *)
(* Trimming, backslashes, drive letters and .git (refused like "..") are   *)
(* left out.                                                               *)
(***************************************************************************)
EXTENDS Naturals, Sequences, SequencesExt

CONSTANTS
    Characters,    \* the characters segments are made of
    Segments,      \* the segments raw scopes are made of
    Names,         \* the segments file names are made of
    MaxSegments,   \* bound on the segments of a raw scope
    MaxDepth       \* bound on the segments of a file name

ASSUME ScopeAssumption ==
    /\ MaxSegments \in Nat \ {0} /\ MaxDepth \in Nat \ {0}
    /\ "/" \notin Characters
    /\ Segments \subseteq Seq(Characters) /\ Names \subseteq Segments

\* Whatever a scope can name, a file can be called.
ASSUME FileAssumption ==
    /\ MaxDepth >= MaxSegments
    /\ \A p \in Segments \ {<<>>, <<".">>, <<".", ".">>} :
          (\A i \in DOMAIN p : p[i] # "*") => p \in Names

Raw == BoundedSeq(Segments, MaxSegments) \ {<<>>}
Files == BoundedSeq(Names, MaxDepth) \ {<<>>}

\* Path segments joined with slashes.
Text(segments) ==
    LET join[k \in 0..Len(segments)] ==
            IF k = 0 THEN <<>>
            ELSE IF k = 1 THEN segments[1]
            ELSE join[k - 1] \o <<"/">> \o segments[k]
    IN  join[Len(segments)]

\* Empty and "." segments name nothing.
Named(segments) ==
    LET kept[k \in 0..Len(segments)] ==
            IF k = 0 THEN <<>>
            ELSE IF segments[k] \in {<<>>, <<".">>} THEN kept[k - 1]
            ELSE Append(kept[k - 1], segments[k])
    IN  kept[Len(segments)]

\* Leading "./" are dropped.
Stripped(raw) ==
    LET kept == {k \in 1..Len(raw) : \A i \in 1..(k - 1) : raw[i] = <<".">>}
        first == CHOOSE k \in kept : \A i \in kept : i <= k
    IN  SubSeq(raw, first, Len(raw))

Parts(raw) == Named(Stripped(raw))

\* normalize_write_scope: relative, not empty, no parent directories.
Accepted(raw) ==
    /\ Stripped(raw)[1] # <<>>
    /\ \A i \in DOMAIN raw : raw[i] # <<".", ".">>
    /\ Parts(raw) # <<>>

\* _scope_prefix of a normalized scope: the literal text before its first
\* wildcard, without trailing slashes; universal if there is none.
Prefix(parts) ==
    LET text == Text(parts)
        wild == {i \in DOMAIN text : text[i] = "*"}
        literal == {i \in DOMAIN text : \A j \in 1..i : text[j] # "*"}
        ends == {i \in literal : text[i] # "/"}
        value == SubSeq(text, 1, IF ends = {} THEN 0
                                 ELSE CHOOSE i \in ends : \A j \in ends : j <= i)
    IN  [wildcard |-> wild # {}, value |-> value,
         universal |-> wild # {} /\ value = <<>>]

Below(p, q) == IsPrefix(q \o <<"/">>, p)

\* Mutants: literal prefixes are compared as strings; wildcard prefixes as
\* directories.
OverlapAsText(p, q) ==
    \/ p.universal \/ q.universal
    \/ IsPrefix(p.value, q.value) \/ IsPrefix(q.value, p.value)
OverlapAsDirectory(p, q) ==
    \/ p.universal \/ q.universal
    \/ p.value = q.value \/ Below(p.value, q.value) \/ Below(q.value, p.value)
PrefixesOverlap(p, q) ==
    \/ p.universal \/ q.universal
    \/ /\ p.wildcard \/ q.wildcard
       /\ IsPrefix(p.value, q.value) \/ IsPrefix(q.value, p.value)
    \/ p.value = q.value \/ Below(p.value, q.value) \/ Below(q.value, p.value)

Overlap(l, r) == PrefixesOverlap(Prefix(Parts(l)), Prefix(Parts(r)))

\* scopes_overlap: a step without a scope overlaps with none.
ScopesOverlap(left, right) == \E l \in left, r \in right : Overlap(l, r)

-----------------------------------------------------------------------------
(* The reference: the files a scope allows a step to write.                 *)
Literal(raw) == \A i \in DOMAIN raw : \A j \in DOMAIN raw[i] : raw[i][j] # "*"

\* A literal scope allows the file, or the directory, of that name; a pattern
\* at most the files that begin like it.
Allows(raw, file) ==
    IF Literal(raw) THEN IsPrefix(Named(raw), file)
    ELSE LET text == Text(Named(raw))
             first == CHOOSE i \in DOMAIN text :
                         text[i] = "*" /\ \A j \in 1..(i - 1) : text[j] # "*"
         IN  IsPrefix(SubSeq(text, 1, first - 1), Text(file))
=============================================================================
